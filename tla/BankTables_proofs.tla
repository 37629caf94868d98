------------------------- MODULE BankTables_proofs -------------------------
(***************************************************************************)
(* What holds of a bank as it is stored, for any number of key sets,        *)
(* clients and nodes, any timeouts, and any sizes of the hashes.            *)
(*                                                                         *)
(* First the heap by itself, FibonacciHeap and its public operations: every *)
(* operation leaves fields of the right type; until a key is raised the     *)
(* links are a forest of heap-ordered trees, the check of m_count never     *)
(* fails, and the heap is a TimeoutQueue.  The lemmas about the operations  *)
(* are in FibonacciHeapOps_proofs.                                          *)
(*                                                                         *)
(* Then the hash and its iterators, the hash of hashes of maps, and the     *)
(* destructor; the loop of remove_by_key; the invariant of both structures, *)
(* TInv; that the calls are those of RequestBank; and what the two          *)
(* structures agree on once a key was raised.                              *)
(***************************************************************************)
EXTENDS BankTables, FibonacciHeapOps_proofs

-----------------------------------------------------------------------------
(* Types *)

\* A heap with entries has a root.
LEMMA RootOfEntries ==
    ASSUME TypeOK, Usable, live # {}
    PROVE  heap.root \in Node
<1>1. Reachable(heap) # {}
  BY DEF Usable, Linked
<1>2. heap.root # NULL
  BY <1>1, Zenon DEF Reachable
<1> QED
  BY <1>2, Pointers DEF TypeOK, HeapType

\* The end of a removal keeps the types.
LEMMA ExtractedTyped ==
    ASSUME NEW h \in HeapType, NEW r, r.h \in HeapType, r.status \in Ends,
           h.root \in Node, live \subseteq Node, Extracted(h, r)
    PROVE  heap' \in HeapType /\ live' \subseteq Node /\ status' \in Ends
BY DeleteTyped DEF Extracted

\* The action of alter_key keeps the types.
LEMMA AlterKeyTyped ==
    ASSUME TypeOK, Usable, NEW node \in live, NEW k \in Time, AlterKey(node, k)
    PROVE  heap' \in HeapType /\ live' = live /\ status' \in Ends
<1>1. heap \in HeapType /\ heap.root \in Node /\ node \in Node
  BY RootOfEntries DEF TypeOK
<1>2. AlterKeyH(heap, node, k).h \in HeapType /\ AlterKeyH(heap, node, k).status \in Ends
  BY <1>1, AlterTyped
<1> QED
  BY <1>2 DEF AlterKey

\* Every action keeps the types.
LEMMA TypeStep == TypeOK /\ [Next]_vars => TypeOK'
<1> SUFFICES ASSUME TypeOK, [Next]_vars PROVE TypeOK'
  OBVIOUS
<1>1. /\ heap \in HeapType /\ live \subseteq Node /\ status \in Ends
      /\ raises \in 0..MaxRaises
  BY DEF TypeOK, Ends
<1> DEFINE Kept == /\ heap' \in HeapType /\ live' \subseteq Node /\ status' \in Ends
                   /\ raises' \in 0..MaxRaises
<1>2. Kept
  <2>1. ASSUME NEW n \in Node, NEW k \in Time, Insert(n, k)
        PROVE  Kept
    <3>1. InsertH(heap, n, k) \in HeapType
      BY <1>1, InsertTyped
    <3> QED
      BY <1>1, <2>1, <3>1 DEF Insert, Ends
  <2>2. CASE RemoveMinimum
    <3>1. CASE heap.root = NULL
      BY <1>1, <2>2, <3>1 DEF RemoveMinimum, Throw, Ends
    <3>2. CASE heap.root # NULL
      <4>1. heap.root \in Node
        BY <1>1, <3>2, Pointers DEF HeapType
      <4>2. RemoveMinimumH(heap).h \in HeapType /\ RemoveMinimumH(heap).status \in Ends
        BY <1>1, <4>1, RemoveMinimumTyped
      <4>3. Extracted(heap, RemoveMinimumH(heap)) /\ raises' = raises
        BY <2>2, <3>2 DEF RemoveMinimum
      <4> QED
        BY <1>1, <4>1, <4>2, <4>3, ExtractedTyped
    <3> QED
      BY <3>1, <3>2
  <2>3. ASSUME NEW n \in Node, RemoveNode(n)
        PROVE  Kept
    <3>1. heap.root \in Node /\ raises' = raises
      BY <2>3, RootOfEntries DEF RemoveNode
    <3>2. CASE 0 >= heap.key[heap.root]
      BY <1>1, <2>3, <3>2 DEF RemoveNode, Throw, Ends
    <3>3. CASE ~(0 >= heap.key[heap.root])
      <4> DEFINE lowered == DecreaseKeyH(heap, n, 0)
      <4>1. lowered \in HeapType /\ lowered.root \in Node
        <5>1. 0 \in Time
          BY HeapAssumption DEF Time
        <5> QED
          BY <1>1, <3>1, <5>1, DecreaseTyped
      <4>2. Extracted(lowered, RemoveH(heap, n))
        BY <2>3, <3>3 DEF RemoveNode
      <4>3. RemoveH(heap, n) = TakeOutH(heap, n)
        BY <3>3 DEF RemoveH
      <4> HIDE DEF lowered
      <4>4. TakeOutH(heap, n).h \in HeapType /\ TakeOutH(heap, n).status \in Ends
        BY <1>1, <3>1, TakeOutTyped
      <4> QED
        BY <1>1, <3>1, <4>1, <4>2, <4>3, <4>4, ExtractedTyped
    <3> QED
      BY <3>2, <3>3
  <2>4. ASSUME NEW n \in Node, NEW k \in Time, LowerKey(n, k)
        PROVE  Kept
    <3>1. n \in live /\ Usable /\ AlterKey(n, k) /\ raises' = raises
      BY <2>4 DEF LowerKey
    <3>2. heap' \in HeapType /\ live' = live /\ status' \in Ends
      BY <3>1, AlterKeyTyped
    <3> QED
      BY <1>1, <3>1, <3>2
  <2>5. ASSUME NEW n \in Node, NEW k \in Time, RaiseKey(n, k)
        PROVE  Kept
    <3>1. /\ n \in live /\ Usable /\ AlterKey(n, k) /\ raises < MaxRaises
          /\ raises' = IF status' = "threw" THEN raises ELSE raises + 1
      BY <2>5 DEF RaiseKey
    <3>2. heap' \in HeapType /\ live' = live /\ status' \in Ends
      BY <3>1, AlterKeyTyped
    <3>3. raises' \in 0..MaxRaises
      BY <1>1, <3>1, RaisesAssumption
    <3> QED
      BY <1>1, <3>2, <3>3
  <2>6. CASE UNCHANGED vars
    BY <1>1, <2>6 DEF vars
  <2> QED
    BY <2>1, <2>2, <2>3, <2>4, <2>5, <2>6 DEF Next
<1> QED
  BY <1>2 DEF TypeOK, Ends

\* The constructor's fields have their types.
LEMMA TypeInit == Init => TypeOK
<1> SUFFICES ASSUME Init PROVE TypeOK
  OBVIOUS
<1>1. 0 \in Time /\ 0 \in 0..(CountRange - 1) /\ 0 \in Nat /\ 0 \in 0..MaxRaises
  BY HeapAssumption, Wraps, RaisesAssumption DEF Time
<1>2. EmptyHeap \in HeapType
  BY <1>1, Pointers DEF EmptyHeap, HeapType
<1> QED
  BY <1>1, <1>2 DEF Init, TypeOK

\* Every operation leaves a heap of well-typed nodes: also after keys were raised, when
\* counts, degrees and previous pointers may be wrong, no link leads out of the nodes
\* and no pointer that the operations follow without a test is NULL.
THEOREM TypeCorrect == Spec => []TypeOK
<1>1. Init => TypeOK
  BY TypeInit
<1>2. TypeOK /\ [Next]_vars => TypeOK'
  BY TypeStep
<1> QED
  BY <1>1, <1>2, PTL DEF Spec

-----------------------------------------------------------------------------
(* The invariant *)

Good(h, N) ==
    /\ h \in HeapType /\ N \in SUBSET Node /\ Cardinality(N) <= HeapSize
    /\ Shaped(h, N, NULL) /\ h.count = Cardinality(N)

\* The strengthening of WellFormed that every operation keeps.
IInv ==
    /\ TypeOK
    /\ Cardinality(live) <= HeapSize
    /\ raises = 0 /\ status # "undefined" => Good(heap, live) /\ status \in {"ok", "threw"}

\* The test of m_root_with_min_key tells the empty heap.
LEMMA RootWhenEntries ==
    ASSUME NEW h, NEW N, Good(h, N)
    PROVE  h.root = NULL <=> N = {}
<1>1. N # {} => h.root \in N
  BY LeastOfAll DEF Good
<1>2. h.root # NULL => N # {}
  <2>1. PICK R : R = Family(h, N, NULL)
    OBVIOUS
  <2>2. IsList(h, h.root, R)
    BY <2>1 DEF Good, Shaped, Trees
  <2> QED
    BY <2>1, <2>2 DEF IsList, Family
<1>3. NULL \notin N
  BY Pointers DEF Good
<1> QED
  BY <1>1, <1>2, <1>3

\* A node is taken out of a heap in order, and the others keep their keys.
Takes(h, N, node, r) ==
    /\ r.status = "ok" /\ Good(Delete(r.h, node), N \ {node})
    /\ \A n \in N \ {node} : Delete(r.h, node).key[n] = h.key[n]

\* remove_minimum_h takes out an entry of least key.
LEMMA MinimumTaken ==
    ASSUME NEW h, NEW N, Good(h, N), N # {}, NEW r, r = RemoveMinimumH(h)
    PROVE  /\ h.root \in N /\ \A n \in N : h.key[h.root] <= h.key[n]
           /\ r.h.key = h.key /\ (r.status = "undefined" \/ Takes(h, N, h.root, r))
<1>1. /\ h \in HeapType /\ N \in SUBSET Node /\ Cardinality(N) <= HeapSize
      /\ Shaped(h, N, NULL) /\ h.count = Cardinality(N)
  BY DEF Good
<1>2. h.root \in N /\ \A n \in N : h.key[h.root] <= h.key[n]
  BY <1>1, LeastOfAll
<1>3. PICK M : M = N \ {h.root}
  OBVIOUS
<1>4. Extracts(h, M, r) \/ (r.status = "undefined" /\ r.h.key = h.key)
  BY <1>1, <1>3, RemoveMinShape
<1>5. CASE Extracts(h, M, r)
  <2>1. PICK left : left = Delete(r.h, h.root)
    OBVIOUS
  <2>2. M \in SUBSET N /\ M \in SUBSET Node
    BY <1>1, <1>3
  <2>3. Cardinality(M) <= HeapSize
    BY <1>1, <2>2, Subsets
  <2>4. /\ r.status = "ok" /\ left \in HeapType /\ Shaped(left, M, NULL)
        /\ left.count = Cardinality(M) /\ \A x \in M : left.key[x] = h.key[x]
    BY <1>5, <2>1 DEF Extracts
  <2>5. Good(left, M)
    BY <2>2, <2>3, <2>4 DEF Good
  <2> QED
    BY <1>2, <1>3, <1>5, <2>1, <2>4, <2>5 DEF Takes, Extracts
<1> QED
  BY <1>2, <1>4, <1>5

\* A usable heap whose keys were never raised.
Sound == Good(heap, live) /\ raises = 0 /\ TypeOK

\* insert adds an entry.
LEMMA InsertStep ==
    ASSUME Sound, NEW n \in Node, NEW k \in Time, Insert(n, k)
    PROVE  /\ Good(heap', live') /\ status' = "ok" /\ raises' = 0
           /\ live' = live \cup {n} /\ heap'.key = [heap.key EXCEPT ![n] = k]
<1>1. /\ heap \in HeapType /\ live \in SUBSET Node /\ Cardinality(live) <= HeapSize
      /\ Shaped(heap, live, NULL) /\ heap.count = Cardinality(live)
  BY DEF Sound, Good
<1>2. /\ n \notin live /\ Cardinality(live) < HeapSize /\ heap' = InsertH(heap, n, k)
      /\ live' = live \cup {n} /\ status' = "ok" /\ raises' = 0
  BY DEF Insert, Sound
<1>3a. PICK g : g = InsertH(heap, n, k)
  OBVIOUS
<1>3b. PICK M : M = live \cup {n}
  OBVIOUS
<1>3. /\ g = InsertH(heap, n, k) /\ M = live \cup {n}
  BY <1>3a, <1>3b
<1>4. /\ g \in HeapType /\ Shaped(g, M, NULL) /\ g.key = [heap.key EXCEPT ![n] = k]
      /\ g.count = (heap.count + 1) % CountRange
  <2>1. /\ heap \in HeapType /\ live \in SUBSET Node /\ Shaped(heap, live, NULL)
        /\ n \in Node /\ n \notin live /\ k \in Time
        /\ g = InsertH(heap, n, k) /\ HasAlso(live, n, M)
    BY <1>1, <1>2, <1>3 DEF HasAlso
  <2> QED
    BY <2>1, InsertShape
<1>5. IsFiniteSet(live) /\ Cardinality(live) \in Nat
  BY <1>1, FS_Subset, HeapAssumption, FS_CardinalityType
<1>6. Cardinality(M) = Cardinality(live) + 1
  BY <1>2, <1>3, <1>5, FS_AddElement
<1>7. PICK j : j = Cardinality(live) + 1
  OBVIOUS
<1>8. j \in 0..(CountRange - 1) /\ j <= HeapSize
  <2>1. HeapSize \in Nat /\ CountRange \in Nat /\ HeapSize < CountRange
    BY Wraps, HeapAssumption
  <2> QED
    BY <1>2, <1>5, <1>7, <2>1
<1>9. j % CountRange = j
  BY <1>8, Wraps
<1>10. g.count = Cardinality(M) /\ Cardinality(M) <= HeapSize
  BY <1>1, <1>4, <1>6, <1>7, <1>8, <1>9
<1>11. M \in SUBSET Node
  BY <1>1, <1>3
<1>12. Good(g, M)
  BY <1>4, <1>10, <1>11 DEF Good
<1> QED
  BY <1>2, <1>3, <1>4, <1>12

\* remove_minimum takes out an entry of least key, or throws if there is none.
LEMMA RemoveMinimumStep ==
    ASSUME Sound, RemoveMinimum
    PROVE  /\ raises' = 0
           /\ \/ status' = "threw" /\ heap' = heap /\ live' = live /\ live = {}
              \/ status' = "undefined" /\ live' = live /\ heap'.key = heap.key
              \/ /\ status' = "ok" /\ Good(heap', live')
                 /\ heap.root \in live /\ \A n \in live : heap.key[heap.root] <= heap.key[n]
                 /\ live' = live \ {heap.root} /\ \A n \in live' : heap'.key[n] = heap.key[n]
<1>1. Good(heap, live) /\ raises' = 0
  BY DEF Sound, RemoveMinimum
<1>2. CASE heap.root = NULL
  <2>1. live = {}
    BY <1>1, <1>2, RootWhenEntries
  <2> QED
    BY <1>1, <1>2, <2>1 DEF RemoveMinimum, Throw
<1>3. CASE heap.root # NULL
  <2>1. live # {}
    BY <1>1, <1>3, RootWhenEntries
  <2>2. PICK r : r = RemoveMinimumH(heap)
    OBVIOUS
  <2>3. Extracted(heap, r)
    BY <1>3, <2>2 DEF RemoveMinimum
  <2> QED
    <3>1. /\ heap.root \in live /\ \A n \in live : heap.key[heap.root] <= heap.key[n]
          /\ r.h.key = heap.key
          /\ r.status = "undefined" \/ Takes(heap, live, heap.root, r)
      BY <1>1, <2>1, <2>2, MinimumTaken
    <3> QED
      BY <1>1, <2>3, <3>1 DEF Extracted, Takes
<1> QED
  BY <1>2, <1>3

\* decrease_key changes one key, and its cuts come to an end.
LEMMA DecreasedGood ==
    ASSUME NEW h, NEW N, Good(h, N), NEW node \in N, NEW k \in Time, k < h.key[node],
           NEW g, g = DecreaseKeyH(h, node, k)
    PROVE  /\ Good(g, N) /\ g.key = [h.key EXCEPT ![node] = k]
           /\ ~DecreaseBreaks(h, node, k)
<1>1. /\ h \in HeapType /\ N \in SUBSET Node /\ Cardinality(N) <= HeapSize
      /\ Shaped(h, N, NULL) /\ h.count = Cardinality(N)
  BY DEF Good
<1>2. /\ g \in HeapType /\ Shaped(g, N, NULL)
      /\ g.key = [h.key EXCEPT ![node] = k] /\ g.count = h.count
      /\ ~DecreaseBreaks(h, node, k)
  BY <1>1, DecreaseShape
<1> QED
  BY <1>1, <1>2 DEF Good

\* remove takes out the entry it is called for: its key 0 is the only least one, for remove
\* throws if another entry has a key 0.
LEMMA NodeTaken ==
    ASSUME NEW h, NEW N, Good(h, N), NEW node \in N,
           NEW g, g = DecreaseKeyH(h, node, 0), NEW r, r = RemoveH(h, node)
    PROVE  \/ r.status = "threw" /\ r.h = h /\ 0 >= h.key[h.root] /\ \E n \in N : h.key[n] = 0
           \/ /\ 0 < h.key[h.root] /\ \A n \in N : h.key[n] > 0
              /\ g.root = node
              /\ \/ r.status = "undefined" /\ r.h.key = [h.key EXCEPT ![node] = 0]
                 \/ Takes(h, N, node, r)
<1>1. h \in HeapType /\ N # {} /\ N \in SUBSET Node /\ h.key[h.root] \in Nat
      /\ h.root \in N /\ \A n \in N : h.key[n] \in Nat /\ h.key[h.root] <= h.key[n]
  <2>1. h.root \in N /\ \A n \in N : h.key[h.root] <= h.key[n]
    BY LeastOfAll DEF Good
  <2> QED
    BY <2>1, KeysAreNumbers DEF Good
<1>2. CASE 0 >= h.key[h.root]
  <2>1. h.key[h.root] = 0
    BY <1>1, <1>2
  <2> QED
    BY <1>1, <1>2, <2>1 DEF RemoveH
<1>3. CASE ~(0 >= h.key[h.root])
  <2>1. \A n \in N : h.key[n] > 0
    BY <1>1, <1>3
  <2>2. 0 \in Time /\ 0 < h.key[node] /\ 0 < h.key[h.root]
    BY <1>1, <2>1, HeapAssumption DEF Time
  <2>3. /\ Good(g, N) /\ g.key = [h.key EXCEPT ![node] = 0]
        /\ ~DecreaseBreaks(h, node, 0)
    BY <2>2, DecreasedGood
  <2>4. r = RemoveMinimumH(g)
    BY <1>3, <2>3 DEF RemoveH, TakeOutH
  <2>5. /\ g.root \in N /\ \A n \in N : g.key[g.root] <= g.key[n]
        /\ r.h.key = g.key /\ (r.status = "undefined" \/ Takes(g, N, g.root, r))
    BY <1>1, <2>3, <2>4, MinimumTaken
  <2>6. \A n \in N : g.key[n] = IF n = node THEN 0 ELSE h.key[n]
    BY <1>1, <2>3, HeapFields
  <2>7. g.root = node
    <3>1. g.key[g.root] <= 0
      BY <2>5, <2>6
    <3>2. g.root # node => g.key[g.root] > 0 /\ g.key[g.root] \in Nat
      BY <1>1, <2>1, <2>5, <2>6
    <3> QED
      BY <3>1, <3>2
  <2> QED
    BY <2>1, <2>2, <2>3, <2>5, <2>6, <2>7 DEF Takes
<1> QED
  BY <1>2, <1>3

\* The action of remove does that.
LEMMA RemoveNodeStep ==
    ASSUME Sound, NEW node \in Node, RemoveNode(node)
    PROVE  /\ raises' = 0 /\ node \in live
           /\ \/ /\ status' = "threw" /\ heap' = heap /\ live' = live
                 /\ \E n \in live : heap.key[n] = 0
              \/ /\ status' = "undefined" /\ live' = live /\ 0 < heap.key[node]
                 /\ heap'.key = [heap.key EXCEPT ![node] = 0]
              \/ /\ status' = "ok" /\ Good(heap', live')
                 /\ \A n \in live : heap.key[n] > 0
                 /\ live' = live \ {node} /\ \A n \in live' : heap'.key[n] = heap.key[n]
<1>1. Good(heap, live) /\ raises' = 0 /\ node \in live
  BY DEF Sound, RemoveNode
<1>2. PICK g : g = DecreaseKeyH(heap, node, 0)
  OBVIOUS
<1>3. PICK r : r = RemoveH(heap, node)
  OBVIOUS
<1>4. \/ /\ r.status = "threw" /\ r.h = heap /\ 0 >= heap.key[heap.root]
         /\ \E n \in live : heap.key[n] = 0
      \/ /\ 0 < heap.key[heap.root] /\ \A n \in live : heap.key[n] > 0
         /\ g.root = node
         /\ \/ r.status = "undefined" /\ r.h.key = [heap.key EXCEPT ![node] = 0]
            \/ Takes(heap, live, node, r)
  BY <1>1, <1>2, <1>3, NodeTaken
<1>5. CASE 0 >= heap.key[heap.root]
  <2>1. ~(0 < heap.key[heap.root])
    BY <1>1, <1>5, LeastOfAll, KeysAreNumbers DEF Good
  <2>2. \E n \in live : heap.key[n] = 0
    BY <1>4, <2>1
  <2> QED
    BY <1>1, <1>5, <2>2 DEF RemoveNode, Throw
<1>6. CASE ~(0 >= heap.key[heap.root])
  <2>1. Extracted(g, r)
    BY <1>2, <1>3, <1>6 DEF RemoveNode
  <2> QED
    BY <1>1, <1>4, <1>6, <2>1 DEF Extracted, Takes
<1> QED
  BY <1>5, <1>6

\* alter_key to an earlier key changes that key.
LEMMA LowerKeyStep ==
    ASSUME Sound, NEW node \in Node, NEW k \in Time, LowerKey(node, k)
    PROVE  /\ raises' = 0 /\ node \in live /\ status' = "ok" /\ live' = live
           /\ Good(heap', live')
           /\ \/ heap' = heap
              \/ k < heap.key[node] /\ heap'.key = [heap.key EXCEPT ![node] = k]
<1>1. /\ Good(heap, live) /\ raises' = 0 /\ node \in live /\ live' = live
      /\ k <= heap.key[node] /\ AlterKey(node, k)
  BY DEF Sound, LowerKey, AlterKey
<1>2. heap.key[node] \in Nat /\ k \in Nat
  BY <1>1, KeysAreNumbers, HeapAssumption DEF Good, Time
<1>3. CASE k < heap.key[node]
  <2>1. PICK g : g = DecreaseKeyH(heap, node, k)
    OBVIOUS
  <2>2. /\ Good(g, live) /\ g.key = [heap.key EXCEPT ![node] = k]
        /\ ~DecreaseBreaks(heap, node, k)
    BY <1>1, <1>3, <2>1, DecreasedGood
  <2>3. heap' = g /\ status' = "ok"
    BY <1>1, <1>3, <2>1, <2>2 DEF AlterKey, AlterKeyH
  <2> QED
    BY <1>1, <1>3, <2>2, <2>3
<1>4. CASE k = heap.key[node]
  <2>1. ~(k < heap.key[node])
    BY <1>2, <1>4
  <2>2. heap' = heap /\ status' = "ok"
    BY <1>1, <1>4, <2>1 DEF AlterKey, AlterKeyH
  <2> QED
    BY <1>1, <2>2
<1> QED
  BY <1>1, <1>2, <1>3, <1>4

\* A key raised is counted, unless alter_key threw and changed nothing; the other keys stay.
LEMMA RaiseKeyStep ==
    ASSUME Sound, NEW node \in Node, NEW k \in Time, RaiseKey(node, k)
    PROVE  /\ node \in live /\ k > heap.key[node] /\ live' = live
           /\ \/ /\ raises' = 0 /\ status' = "threw" /\ heap' = heap
                 /\ heap.key[node] = 0
              \/ /\ raises' # 0 /\ status' = "undefined" /\ heap.key[node] # 0
              \/ /\ raises' # 0 /\ status' = "ok" /\ heap.key[node] # 0
                 /\ heap'.key = [heap.key EXCEPT ![node] = k]
<1>1. /\ Good(heap, live) /\ node \in live /\ AlterKey(node, k) /\ k > heap.key[node]
      /\ raises = 0 /\ raises' = IF status' = "threw" THEN raises ELSE raises + 1
      /\ heap \in HeapType /\ node \in Node /\ live' = live
  BY DEF Sound, RaiseKey, AlterKey, Good
<1>2. heap.key[node] \in Nat /\ k \in Nat
  BY <1>1, KeysAreNumbers, HeapAssumption DEF Time
<1>3. ~(k < heap.key[node]) /\ k # heap.key[node]
  BY <1>1, <1>2
<1>4. CASE heap.key[node] = 0
  <2>1. AlterKeyH(heap, node, k) = [h |-> heap, status |-> "threw"]
    BY <1>3, <1>4 DEF AlterKeyH
  <2>2. heap' = heap /\ status' = "threw"
    BY <1>1, <2>1 DEF AlterKey
  <2> QED
    BY <1>1, <1>4, <2>2
<1>5. CASE heap.key[node] # 0
  <2>1a. PICK g : g = DecreaseKeyH(heap, node, 0)
    OBVIOUS
  <2>1b. PICK r : r = RemoveMinimumH(g)
    OBVIOUS
  <2>1. /\ g = DecreaseKeyH(heap, node, 0) /\ r = RemoveMinimumH(g)
    BY <2>1a, <2>1b
  <2>2. /\ Good(g, live) /\ g.key = [heap.key EXCEPT ![node] = 0]
        /\ ~DecreaseBreaks(heap, node, 0)
    <3>1. 0 \in Time /\ 0 < heap.key[node]
      BY <1>2, <1>5, HeapAssumption DEF Time
    <3> QED
      BY <1>1, <2>1, <3>1, DecreasedGood
  <2>3. r.h.key = g.key /\ r.status \in {"ok", "undefined"}
    BY <1>1, <2>1, <2>2, MinimumTaken DEF Takes
  <2>4. r.h \in HeapType
    <3>1. g \in HeapType /\ g.root \in Node
      BY <1>1, <2>2, LeastOfAll DEF Good
    <3> QED
      BY <2>1, <3>1, RemoveMinimumTyped
  <2>5. PICK keyed : keyed = [r.h EXCEPT !.key[node] = k]
    OBVIOUS
  <2>6. AlterKeyH(heap, node, k) =
            IF r.status = "ok" THEN [h |-> InsertNode(keyed, node), status |-> "ok"] ELSE r
    <3>1. TakeOutH(heap, node) = r
      BY <2>1, <2>2 DEF TakeOutH
    <3> QED
      BY <1>3, <1>5, <2>5, <3>1 DEF AlterKeyH
  <2>7. CASE r.status = "undefined"
    BY <1>1, <1>5, <2>6, <2>7 DEF AlterKey
  <2>8. CASE r.status = "ok"
    <3>1. keyed \in HeapType /\ keyed.key = [heap.key EXCEPT ![node] = k]
      <4>1. PICK h : h = r.h
        OBVIOUS
      <4>2. h \in HeapType /\ Keyed(h, node, k, keyed) /\ h.key = [heap.key EXCEPT ![node] = 0]
        BY <2>2, <2>3, <2>4, <2>5, <4>1 DEF Keyed
      <4>3. keyed \in HeapType /\ keyed.key = [h.key EXCEPT ![node] = k]
        BY <1>1, <4>2, KeyedIs
      <4>4. heap.key \in [Node -> Time]
        BY <1>1 DEF HeapType
      <4> QED
        BY <4>2, <4>3, <4>4
    <3>2. InsertNode(keyed, node).key = keyed.key
      BY <1>1, <3>1, InsertNodeIs DEF NodeInserted, RestKept
    <3>3. heap' = InsertNode(keyed, node) /\ status' = "ok"
      BY <1>1, <2>6, <2>8 DEF AlterKey
    <3>4. heap'.key = [heap.key EXCEPT ![node] = k]
      BY <3>1, <3>2, <3>3
    <3> QED
      BY <1>1, <1>5, <3>3, <3>4
  <2> QED
    BY <2>3, <2>7, <2>8
<1> QED
  BY <1>4, <1>5

\* No operation makes more entries than HeapSize.
LEMMA FewerEntries ==
    ASSUME TypeOK, Cardinality(live) <= HeapSize, [Next]_vars
    PROVE  Cardinality(live') <= HeapSize
<1>1. live \in SUBSET Node /\ IsFiniteSet(live) /\ Cardinality(live) \in Nat
  <2>1. live \in SUBSET Node
    BY DEF TypeOK
  <2> QED
    BY <2>1, FS_Subset, HeapAssumption, FS_CardinalityType
<1>2. ASSUME live' \in SUBSET live PROVE Cardinality(live') <= HeapSize
  BY <1>1, <1>2, Subsets
<1>3. ASSUME NEW n \in Node, NEW k \in Time, Insert(n, k)
      PROVE  Cardinality(live') <= HeapSize
  <2>1. n \notin live /\ Cardinality(live) < HeapSize /\ live' = live \cup {n}
    BY <1>3 DEF Insert
  <2>2. Cardinality(live \cup {n}) = Cardinality(live) + 1
    BY <1>1, <2>1, FS_AddElement
  <2>3. HeapSize \in Nat
    BY Wraps
  <2> QED
    BY <1>1, <2>1, <2>2, <2>3
<1>4. CASE RemoveMinimum
  BY <1>2, <1>4 DEF RemoveMinimum, Extracted, Throw
<1>5. ASSUME NEW n \in Node, RemoveNode(n) PROVE Cardinality(live') <= HeapSize
  BY <1>2, <1>5 DEF RemoveNode, Extracted, Throw
<1>6. ASSUME NEW n \in Node, NEW k \in Time, LowerKey(n, k) \/ RaiseKey(n, k)
      PROVE  Cardinality(live') <= HeapSize
  BY <1>2, <1>6 DEF LowerKey, RaiseKey, AlterKey
<1>7. CASE UNCHANGED vars
  BY <1>7 DEF vars
<1> QED
  BY <1>3, <1>4, <1>5, <1>6, <1>7 DEF Next

\* What an operation may rely on until a key is raised.
LEMMA SoundWhenUsed ==
    ASSUME IInv, Usable, raises = 0
    PROVE  Sound
BY DEF IInv, Usable, Sound

\* Keys are raised once and for all.
LEMMA StaysRaised ==
    ASSUME TypeOK, [Next]_vars, raises # 0
    PROVE  raises' # 0
BY RaisesAssumption
   DEF TypeOK, Next, vars, Insert, RemoveMinimum, RemoveNode, LowerKey, RaiseKey

\* IInv is inductive.
LEMMA InvStep == IInv /\ [Next]_vars => IInv'
<1> SUFFICES ASSUME IInv, [Next]_vars PROVE IInv'
  OBVIOUS
<1>1. TypeOK /\ TypeOK' /\ Cardinality(live') <= HeapSize
  BY TypeStep, FewerEntries DEF IInv
<1> DEFINE Kept == raises' = 0 /\ status' # "undefined" =>
                       Good(heap', live') /\ status' \in {"ok", "threw"}
<1>2. Kept
  <2>1. CASE raises # 0
    BY <1>1, <2>1, StaysRaised
  <2>2. CASE raises = 0
    <3>1. ASSUME NEW n \in Node, NEW k \in Time, Insert(n, k) PROVE Kept
      <4>1. Sound
        BY <2>2, <3>1, SoundWhenUsed DEF Insert
      <4> QED
        BY <3>1, <4>1, InsertStep
    <3>2. CASE RemoveMinimum
      <4>1. Sound
        BY <2>2, <3>2, SoundWhenUsed DEF RemoveMinimum
      <4> QED
        BY <3>2, <4>1, RemoveMinimumStep DEF Sound
    <3>3. ASSUME NEW n \in Node, RemoveNode(n) PROVE Kept
      <4>1. Sound
        BY <2>2, <3>3, SoundWhenUsed DEF RemoveNode
      <4> QED
        BY <3>3, <4>1, RemoveNodeStep DEF Sound
    <3>4. ASSUME NEW n \in Node, NEW k \in Time, LowerKey(n, k) PROVE Kept
      <4>1. Sound
        BY <2>2, <3>4, SoundWhenUsed DEF LowerKey
      <4> QED
        BY <3>4, <4>1, LowerKeyStep
    <3>5. ASSUME NEW n \in Node, NEW k \in Time, RaiseKey(n, k) PROVE Kept
      <4>1. Sound
        BY <2>2, <3>5, SoundWhenUsed DEF RaiseKey
      <4> QED
        BY <3>5, <4>1, RaiseKeyStep DEF Sound
    <3>6. CASE UNCHANGED vars
      BY <3>6 DEF vars, IInv
    <3> QED
      BY <3>1, <3>2, <3>3, <3>4, <3>5, <3>6 DEF Next
  <2> QED
    BY <2>1, <2>2
<1> QED
  BY <1>1, <1>2 DEF IInv

\* An empty heap satisfies it.
LEMMA InvInit == Init => IInv
<1> SUFFICES ASSUME Init PROVE IInv
  OBVIOUS
<1>1. TypeOK
  BY TypeInit
<1>2. Cardinality(live) = 0 /\ 0 <= HeapSize
  BY FS_EmptySet, Wraps DEF Init
<1>3. /\ \A n \in Node : /\ heap.next[n] = n /\ heap.prev[n] = n /\ heap.child[n] = NULL
                         /\ heap.parent[n] = NULL /\ heap.degree[n] = 0
      /\ heap.root = NULL /\ heap.count = 0
  BY DEF Init, EmptyHeap
<1>4. Trees(heap, {})
  BY <1>3 DEF Trees, Grounded, Family, IsList
<1>5. /\ FreshBeside(heap, {}) /\ Counted(heap, {}, NULL) /\ Ordered(heap, {}, NULL)
      /\ RootsLeast(heap, {})
  BY <1>3 DEF FreshBeside, Counted, Ordered, RootsLeast, Family
<1>6. Good(heap, live)
  BY <1>1, <1>2, <1>3, <1>4, <1>5 DEF Init, TypeOK, Good, Shaped
<1> QED
  BY <1>1, <1>2, <1>6 DEF Init, IInv

\* What WellFormed says of a heap in order.
LEMMA GoodIsWellFormed ==
    ASSUME Good(heap, live)
    PROVE  /\ Linked(heap, live)
           /\ HeapOrdered(heap, live)
           /\ heap.count = Cardinality(live)
           /\ \A n \in live : /\ heap.prev[heap.next[n]] = n
                              /\ heap.degree[n] = Cardinality(ChildrenOf(n))
                              /\ heap.child[n] = NULL <=> ChildrenOf(n) = {}
<1>1. /\ heap \in HeapType /\ live \in SUBSET Node /\ Cardinality(live) <= HeapSize
      /\ Trees(heap, live) /\ Counted(heap, live, NULL) /\ Ordered(heap, live, NULL)
      /\ heap.count = Cardinality(live) /\ NULL \notin live
  BY Pointers DEF Good, Shaped
<1>2. Linked(heap, live)
  BY <1>1, TreesAreLinked
<1>3. HeapOrdered(heap, live)
  BY <1>1 DEF HeapOrdered, Ordered
<1>4. ASSUME NEW n \in live
      PROVE  /\ heap.prev[heap.next[n]] = n
             /\ heap.degree[n] = Cardinality(ChildrenOf(n))
             /\ heap.child[n] = NULL <=> ChildrenOf(n) = {}
  <2>1. ChildrenOf(n) = Family(heap, live, n)
    BY DEF ChildrenOf, Family
  <2>2. heap.degree[n] = Cardinality(Family(heap, live, n))
    BY <1>1 DEF Counted
  <2>3. /\ heap.prev[heap.next[n]] = n
        /\ heap.child[n] = NULL <=> Family(heap, live, n) = {}
    BY <1>1, LinksOfNode
  <2> QED
    BY <2>1, <2>2, <2>3
<1> QED
  BY <1>1, <1>2, <1>3, <1>4

\* IInv is an invariant.
LEMMA InvAlways == Spec => []IInv
<1>1. Init => IInv
  BY InvInit
<1>2. IInv /\ [Next]_vars => IInv'
  BY InvStep
<1> QED
  BY <1>1, <1>2, PTL DEF Spec

\* Until a key is raised, or remove_minimum_h uses an index past the end of degree_roots, the
\* pointers are a forest of heap-ordered trees over doubly linked rings with exact degrees
\* and count, after any sequence of insert, remove_minimum, remove and alter_key, for any
\* number of nodes and any keys.
THEOREM StaysWellFormed == Spec => []WellFormed
<1>1. IInv => WellFormed
  BY GoodIsWellFormed DEF IInv, WellFormed
<1> QED
  BY <1>1, InvAlways, PTL

\* Until a key is raised m_root_with_min_key has the least key of all: what minimum() returns
\* and remove_minimum takes is what is due first.
THEOREM LeastFirstUntilRaised == Spec => [](raises = 0 => LeastFirst)
<1>1. ASSUME IInv, raises = 0, Usable, NEW n \in live
      PROVE  heap.key[heap.root] <= heap.key[n]
  BY <1>1, SoundWhenUsed, LeastOfAll DEF Sound, Good
<1>2. IInv => (raises = 0 => LeastFirst)
  BY <1>1 DEF LeastFirst
<1> QED
  BY <1>2, InvAlways, PTL

\* The internal error of remove_minimum_h (FibonacciHeap.h:404) is out of reach until a key
\* is raised: whenever the last root is taken out, m_count is 0.
THEOREM CountFails == Spec => []CountFailsOnlyRaised
<1>1. IInv => CountFailsOnlyRaised
  BY RaisesAssumption DEF IInv, CountFailsOnlyRaised, TypeOK
<1> QED
  BY <1>1, InvAlways, PTL

-----------------------------------------------------------------------------
(* The heap is a queue of timeouts *)

\* f gives every entry its key.
KeysOf(h, N, f) == f = [n \in N |-> h.key[n]]

\* The keys of the entries are a queue of TimeoutQueue.
LEMMA KeysAreQueue ==
    ASSUME NEW h \in HeapType, NEW N \in SUBSET Node, NEW f, KeysOf(h, N, f)
    PROVE  /\ f \in Queue!Queues /\ DOMAIN f = N /\ \A n \in N : f[n] = h.key[n]
<1>1. \A n \in N : h.key[n] \in Time
  BY HeapFields
<1>2. f \in [N -> Time]
  BY <1>1 DEF KeysOf
<1>3. Queue!Time = Time
  BY DEF Queue!Time, Time
<1>4. f \in UNION {[S -> Time] : S \in SUBSET Node}
  BY <1>2
<1> QED
  BY <1>2, <1>3, <1>4 DEF Queue!Queues, KeysOf

\* The empty heap is the empty queue.
LEMMA QueueInit == Init => Queue!Init
BY DEF Init, Queue!Init

\* What the entries are due at before and after a step.
DueOver(f, g) ==
    /\ f = [n \in live |-> heap.key[n]] /\ g = [n \in live' |-> heap'.key[n]]
    /\ f \in Queue!Queues /\ DOMAIN f = live /\ \A n \in live : f[n] = heap.key[n]
    /\ g \in Queue!Queues /\ DOMAIN g = live' /\ \A n \in live' : g[n] = heap'.key[n]
    /\ heap \in HeapType /\ heap' \in HeapType /\ live \in SUBSET Node

LEMMA DueIs ==
    ASSUME TypeOK, TypeOK'
    PROVE  \E f, g : DueOver(f, g)
<1>1. /\ heap \in HeapType /\ live \in SUBSET Node
      /\ heap' \in HeapType /\ live' \in SUBSET Node
  BY DEF TypeOK
<1>2a. PICK f : KeysOf(heap, live, f)
  BY DEF KeysOf
<1>2b. PICK g : KeysOf(heap', live', g)
  BY DEF KeysOf
<1>2. KeysOf(heap, live, f) /\ KeysOf(heap', live', g)
  BY <1>2a, <1>2b
<1>3. /\ f \in Queue!Queues /\ DOMAIN f = live /\ \A n \in live : f[n] = heap.key[n]
      /\ g \in Queue!Queues /\ DOMAIN g = live' /\ \A n \in live' : g[n] = heap'.key[n]
  BY <1>1, <1>2, KeysAreQueue
<1>4. f = [n \in live |-> heap.key[n]] /\ g = [n \in live' |-> heap'.key[n]]
  BY <1>2 DEF KeysOf
<1>5. DueOver(f, g)
  BY <1>1, <1>3, <1>4 DEF DueOver
<1> QED
  BY <1>5

\* insert is the queue's.
LEMMA InsertIsQueues ==
    ASSUME TypeOK', Sound, NEW n \in Node, NEW k \in Time, Insert(n, k)
    PROVE  Queue!Insert(n, k)
<1>1. PICK f, g : DueOver(f, g)
  BY DueIs DEF Sound
<1>2. /\ n \notin live /\ live' = live \cup {n} /\ raises = 0 /\ raises' = 0
      /\ heap'.key = [heap.key EXCEPT ![n] = k]
  BY InsertStep DEF Insert, Sound
<1>3. \A m \in Node : heap'.key[m] = IF m = n THEN k ELSE heap.key[m]
  BY <1>1, <1>2, HeapFields DEF DueOver
<1>4. g = [m \in DOMAIN f \cup {n} |-> IF m = n THEN k ELSE f[m]]
  BY <1>1, <1>2, <1>3 DEF DueOver
<1> QED
  BY <1>1, <1>2, <1>4 DEF DueOver, Queue!Insert

\* remove_minimum takes an entry that is due first.
LEMMA RemoveMinimumIsQueues ==
    ASSUME TypeOK', Sound, RemoveMinimum, status' # "undefined"
    PROVE  Queue!RemoveMinimum
<1>1. PICK f, g : DueOver(f, g)
  BY DueIs DEF Sound
<1>2. PICK root : root = heap.root
  OBVIOUS
<1>3. /\ raises = 0 /\ raises' = 0
      /\ \/ live = {} /\ live' = live /\ heap' = heap
         \/ /\ root \in live /\ \A n \in live : heap.key[root] <= heap.key[n]
            /\ live' = live \ {root} /\ \A n \in live' : heap'.key[n] = heap.key[n]
  BY <1>2, RemoveMinimumStep DEF Sound
<1>4. CASE live = {} /\ live' = live /\ heap' = heap
  <2>1. DOMAIN f = {} /\ g = f
    BY <1>1, <1>4 DEF DueOver
  <2> QED
    BY <1>1, <1>3, <2>1 DEF DueOver, Queue!RemoveMinimum
<1>5. CASE /\ root \in live /\ \A n \in live : heap.key[root] <= heap.key[n]
           /\ live' = live \ {root} /\ \A n \in live' : heap'.key[n] = heap.key[n]
  <2>1. g = [m \in DOMAIN f \ {root} |-> f[m]]
    BY <1>1, <1>5 DEF DueOver
  <2>2. root \in DOMAIN f /\ \A m \in DOMAIN f : f[root] <= f[m]
    BY <1>1, <1>5 DEF DueOver
  <2> QED
    BY <1>1, <1>3, <2>1, <2>2 DEF DueOver, Queue!RemoveMinimum, Queue!Without
<1> QED
  BY <1>3, <1>4, <1>5

\* remove takes the entry it is called for, or throws.
LEMMA RemoveIsQueues ==
    ASSUME TypeOK', Sound, NEW n \in Node, RemoveNode(n), status' # "undefined"
    PROVE  Queue!Remove(n)
<1>1. PICK f, g : DueOver(f, g)
  BY DueIs DEF Sound
<1>2. /\ raises = 0 /\ raises' = 0 /\ n \in live
      /\ \/ heap' = heap /\ live' = live /\ \E m \in live : heap.key[m] = 0
         \/ /\ \A m \in live : heap.key[m] > 0
            /\ live' = live \ {n} /\ \A m \in live' : heap'.key[m] = heap.key[m]
  BY RemoveNodeStep DEF Sound
<1>3. CASE heap' = heap /\ live' = live /\ \E m \in live : heap.key[m] = 0
  <2>1. g = f
    BY <1>1, <1>3 DEF DueOver
  <2>2. ~\A m \in DOMAIN f : f[m] > 0
    BY <1>1, <1>3 DEF DueOver
  <2> QED
    BY <1>1, <1>2, <2>1, <2>2 DEF DueOver, Queue!Remove
<1>4. CASE /\ \A m \in live : heap.key[m] > 0
           /\ live' = live \ {n} /\ \A m \in live' : heap'.key[m] = heap.key[m]
  <2>1. g = [m \in DOMAIN f \ {n} |-> f[m]]
    BY <1>1, <1>4 DEF DueOver
  <2>2. n \in DOMAIN f /\ \A m \in DOMAIN f : f[m] > 0
    BY <1>1, <1>2, <1>4 DEF DueOver
  <2> QED
    BY <1>1, <1>2, <2>1, <2>2 DEF DueOver, Queue!Remove, Queue!Without
<1> QED
  BY <1>2, <1>3, <1>4

\* To the queue, a key that is changed to an earlier one, or not changed.
LEMMA KeyLowered ==
    ASSUME TypeOK, TypeOK', raises = 0, raises' = 0, NEW n \in live, NEW k \in Time,
           live' = live, k <= heap.key[n],
           heap'.key = [heap.key EXCEPT ![n] = k]
    PROVE  Queue!Lower(n, k)
<1>1. PICK f, g : DueOver(f, g)
  BY DueIs
<1>2. \A m \in Node : heap'.key[m] = IF m = n THEN k ELSE heap.key[m]
  BY <1>1, HeapFields DEF DueOver
<1>3. g = [f EXCEPT ![n] = k]
  BY <1>1, <1>2 DEF DueOver
<1>4. n \in DOMAIN f /\ k <= f[n]
  BY <1>1 DEF DueOver
<1> QED
  BY <1>1, <1>3, <1>4 DEF DueOver, Queue!Lower

\* alter_key to an earlier key is the queue's.
LEMMA LowerKeyIsQueues ==
    ASSUME TypeOK', Sound, NEW n \in Node, NEW k \in Time, LowerKey(n, k)
    PROVE  Queue!Lower(n, k)
<1>1. /\ raises = 0 /\ raises' = 0 /\ n \in live /\ live' = live /\ TypeOK
      /\ k <= heap.key[n]
      /\ \/ heap' = heap
         \/ k < heap.key[n] /\ heap'.key = [heap.key EXCEPT ![n] = k]
  BY LowerKeyStep DEF Sound, LowerKey
<1>2. heap.key \in [Node -> Time] /\ heap.key[n] \in Nat /\ k \in Nat
  BY <1>1, HeapAssumption DEF TypeOK, HeapType, Time
<1>3. CASE heap' = heap
  <2>1. CASE k = heap.key[n]
    <3>1. heap'.key = [heap.key EXCEPT ![n] = k]
      BY <1>2, <1>3, <2>1
    <3> QED
      BY <1>1, <3>1, KeyLowered
  <2>2. CASE k < heap.key[n]
    <3>1. heap'.key = [heap.key EXCEPT ![n] = k]
      <4>1. heap' = DecreaseKeyH(heap, n, k) /\ Good(heap, live)
        BY <2>2 DEF LowerKey, AlterKey, AlterKeyH, Sound
      <4> QED
        BY <1>1, <2>2, <4>1, DecreasedGood
    <3> QED
      BY <1>1, <3>1, KeyLowered
  <2> QED
    BY <1>1, <1>2, <2>1, <2>2
<1>4. CASE k < heap.key[n] /\ heap'.key = [heap.key EXCEPT ![n] = k]
  BY <1>1, <1>4, KeyLowered
<1> QED
  BY <1>1, <1>3, <1>4

\* alter_key to a later key is refused, or the end of what is promised.
LEMMA RaiseKeyIsQueues ==
    ASSUME TypeOK', Sound, NEW n \in Node, NEW k \in Time, RaiseKey(n, k)
    PROVE  Queue!Raise(n, k)
<1>1. PICK f, g : DueOver(f, g)
  BY DueIs DEF Sound
<1>2. /\ raises = 0 /\ n \in live /\ k > heap.key[n] /\ live' = live
      /\ \/ raises' = 0 /\ heap' = heap /\ heap.key[n] = 0
         \/ raises' # 0 /\ heap.key[n] # 0
  BY RaiseKeyStep DEF Sound
<1>3. n \in DOMAIN f /\ k > f[n] /\ f[n] = heap.key[n]
  BY <1>1, <1>2 DEF DueOver
<1>4. CASE raises' = 0 /\ heap' = heap /\ heap.key[n] = 0
  <2>1. g = f
    BY <1>1, <1>2, <1>4 DEF DueOver
  <2> QED
    BY <1>1, <1>2, <1>3, <1>4, <2>1 DEF DueOver, Queue!Raise, Queue!vars
<1>5. CASE raises' # 0 /\ heap.key[n] # 0
  BY <1>1, <1>2, <1>3, <1>5 DEF DueOver, Queue!Raise
<1> QED
  BY <1>2, <1>4, <1>5

\* Whatever the heap does after a key was raised, the queue promises nothing.
LEMMA RaisedIsAdrift ==
    ASSUME IInv, TypeOK', [Next]_vars, raises # 0
    PROVE  Queue!Adrift
<1>1. PICK f, g : DueOver(f, g)
  BY DueIs DEF IInv
<1>2. raises' # 0
  BY StaysRaised DEF IInv
<1> QED
  BY <1>1, <1>2 DEF DueOver, Queue!Adrift

\* Every step of the heap is one of the queue.  An index past the end of degree_roots leaves
\* the entries in it: those of remove with the key lowered to 0.
LEMMA QueueStep ==
    ASSUME IInv, IInv', [Next]_vars
    PROVE  [Queue!Next]_(Queue!vars)
<1>1. TypeOK /\ TypeOK' /\ Queue!Time = Time
  BY DEF IInv, Queue!Time, Time
<1>2. CASE raises # 0
  BY <1>1, <1>2, RaisedIsAdrift DEF Queue!Next
<1>3. CASE raises = 0
  <2>1. ASSUME raises' = 0, live' = live, heap'.key = heap.key PROVE UNCHANGED Queue!vars
    BY <1>3, <2>1 DEF Queue!vars
  <2>2. ASSUME NEW n \in Node, NEW k \in Time, Insert(n, k) PROVE Queue!Next
    <3>1. Sound
      BY <1>3, <2>2, SoundWhenUsed DEF Insert
    <3>2. Queue!Insert(n, k)
      BY <1>1, <2>2, <3>1, InsertIsQueues
    <3> QED
      BY <1>1, <3>2 DEF Queue!Next
  <2>3. CASE RemoveMinimum
    <3>1. Sound
      BY <1>3, <2>3, SoundWhenUsed DEF RemoveMinimum
    <3>2. CASE status' = "undefined"
      BY <2>1, <2>3, <3>1, <3>2, RemoveMinimumStep
    <3>3. CASE status' # "undefined"
      BY <1>1, <2>3, <3>1, <3>3, RemoveMinimumIsQueues DEF Queue!Next
    <3> QED
      BY <3>2, <3>3
  <2>4. ASSUME NEW n \in Node, RemoveNode(n) PROVE Queue!Next
    <3>1. Sound
      BY <1>3, <2>4, SoundWhenUsed DEF RemoveNode
    <3>2. CASE status' = "undefined"
      <4>1. /\ raises' = 0 /\ n \in live /\ live' = live /\ 0 < heap.key[n]
            /\ heap'.key = [heap.key EXCEPT ![n] = 0]
        BY <2>4, <3>1, <3>2, RemoveNodeStep
      <4>2. 0 \in Time /\ 0 <= heap.key[n]
        BY <1>1, <4>1, HeapAssumption DEF Time, TypeOK, HeapType
      <4>3. Queue!Lower(n, 0)
        BY <1>1, <1>3, <4>1, <4>2, KeyLowered
      <4> QED
        BY <1>1, <4>2, <4>3 DEF Queue!Next
    <3>3. CASE status' # "undefined"
      <4>1. Queue!Remove(n)
        BY <1>1, <2>4, <3>1, <3>3, RemoveIsQueues
      <4> QED
        BY <4>1 DEF Queue!Next
    <3> QED
      BY <3>2, <3>3
  <2>5. ASSUME NEW n \in Node, NEW k \in Time, LowerKey(n, k) PROVE Queue!Next
    <3>1. Sound
      BY <1>3, <2>5, SoundWhenUsed DEF LowerKey
    <3>2. Queue!Lower(n, k)
      BY <1>1, <2>5, <3>1, LowerKeyIsQueues
    <3> QED
      BY <1>1, <3>2 DEF Queue!Next
  <2>6. ASSUME NEW n \in Node, NEW k \in Time, RaiseKey(n, k) PROVE Queue!Next
    <3>1. Sound
      BY <1>3, <2>6, SoundWhenUsed DEF RaiseKey
    <3>2. Queue!Raise(n, k)
      BY <1>1, <2>6, <3>1, RaiseKeyIsQueues
    <3> QED
      BY <1>1, <3>2 DEF Queue!Next
  <2>7. CASE UNCHANGED vars
    BY <1>3, <2>1, <2>7 DEF vars
  <2> QED
    BY <2>2, <2>3, <2>4, <2>5, <2>6, <2>7 DEF Next
<1> QED
  BY <1>2, <1>3

\* Every call that returns is that of the queue.
LEMMA QueueCalls ==
    ASSUME IInv, IInv'
    PROVE  [CallByCall]_vars
<1>1. TypeOK'
  BY DEF IInv
<1>2. SUFFICES ASSUME raises = 0, status' # "undefined"
               PROVE  /\ RemoveMinimum => Queue!RemoveMinimum
                      /\ \A n \in Node :
                             /\ RemoveNode(n) => Queue!Remove(n)
                             /\ \A k \in Time : /\ Insert(n, k) => Queue!Insert(n, k)
                                                /\ LowerKey(n, k) => Queue!Lower(n, k)
                                                /\ RaiseKey(n, k) => Queue!Raise(n, k)
  BY DEF CallByCall
<1>3. RemoveMinimum => Queue!RemoveMinimum
  <2>1. RemoveMinimum => Sound
    BY <1>2, SoundWhenUsed DEF RemoveMinimum
  <2> QED
    BY <1>1, <1>2, <2>1, RemoveMinimumIsQueues
<1>4. ASSUME NEW n \in Node, RemoveNode(n) PROVE Queue!Remove(n)
  <2>1. Sound
    BY <1>2, <1>4, SoundWhenUsed DEF RemoveNode
  <2> QED
    BY <1>1, <1>2, <1>4, <2>1, RemoveIsQueues
<1>5. ASSUME NEW n \in Node, NEW k \in Time, Insert(n, k) PROVE Queue!Insert(n, k)
  <2>1. Sound
    BY <1>2, <1>5, SoundWhenUsed DEF Insert
  <2> QED
    BY <1>1, <1>5, <2>1, InsertIsQueues
<1>6. ASSUME NEW n \in Node, NEW k \in Time, LowerKey(n, k) PROVE Queue!Lower(n, k)
  <2>1. Sound
    BY <1>2, <1>6, SoundWhenUsed DEF LowerKey
  <2> QED
    BY <1>1, <1>6, <2>1, LowerKeyIsQueues
<1>7. ASSUME NEW n \in Node, NEW k \in Time, RaiseKey(n, k) PROVE Queue!Raise(n, k)
  <2>1. Sound
    BY <1>2, <1>7, SoundWhenUsed DEF RaiseKey
  <2> QED
    BY <1>1, <1>7, <2>1, RaiseKeyIsQueues
<1> QED
  BY <1>3, <1>4, <1>5, <1>6, <1>7

\* The heap implements TimeoutQueue, call by call, for any number of entries: until a key is
\* raised, remove_minimum takes an entry of least key of those inserted and not removed and
\* no other, remove takes the entry it is called for, or throws when a key is 0, and keys
\* change only as alter_key says.  An index past the end of degree_roots ends the behaviour,
\* with the entries in the queue.
THEOREM HeapIsQueue == Spec => ImplementsQueue
<1>1. Init => Queue!Init
  BY QueueInit
<1>2. IInv /\ IInv' /\ [Next]_vars => [Queue!Next]_(Queue!vars)
  BY QueueStep
<1>3. IInv /\ IInv' => [CallByCall]_vars
  BY QueueCalls
<1> QED
  BY <1>1, <1>2, <1>3, InvAlways, PTL DEF Spec, ImplementsQueue, Queue!Spec

-----------------------------------------------------------------------------
(* The hash *)

\* A key is in the bucket that its remainder names.
IsHash(hash) ==
    /\ Size(hash) \in Nat \ {0} /\ DOMAIN hash = 0..(Size(hash) - 1)
    /\ \A i \in DOMAIN hash : /\ DOMAIN hash[i] \subseteq Nat
                              /\ \A k \in DOMAIN hash[i] : Slot(hash, k) = i

\* Every number has a bucket.
LEMMA SlotIs ==
    ASSUME NEW hash, IsHash(hash), NEW k \in Nat
    PROVE  Slot(hash, k) \in DOMAIN hash
<1>1. PICK n \in Nat \ {0} : n = Size(hash)
  BY DEF IsHash
<1>2. k % n \in 0..(n - 1)
  OBVIOUS
<1> QED
  BY <1>1, <1>2 DEF IsHash, Slot

\* Hashes over the same buckets have the same slots.
LEMMA SameSlots ==
    ASSUME NEW hash, NEW other, DOMAIN other = DOMAIN hash
    PROVE  Size(other) = Size(hash) /\ \A k : Slot(other, k) = Slot(hash, k)
BY DEF Size, Slot

\* A hash after resize.
LEMMA SizedIs ==
    ASSUME NEW n \in Nat \ {0}
    PROVE  IsHash(Sized(n)) /\ \A k \in Nat : ~HasKey(Sized(n), k)
<1>1. DOMAIN Sized(n) = 0..(n - 1)
  BY DEF Sized
<1>2. Size(Sized(n)) = n
  <2>1. Cardinality(0..(n - 1)) = n
    BY FS_Interval
  <2> QED
    BY <1>1, <2>1 DEF Size
<1>3. \A i \in 0..(n - 1) : DOMAIN Sized(n)[i] = {}
  BY DEF Sized
<1>4. IsHash(Sized(n))
  BY <1>1, <1>2, <1>3 DEF IsHash
<1>5. ASSUME NEW k \in Nat PROVE ~HasKey(Sized(n), k)
  BY <1>1, <1>3, <1>4, SlotIs DEF HasKey
<1> QED
  BY <1>4, <1>5

\* insert and assignment write the entry of one key.
LEMMA PutIs ==
    ASSUME NEW hash, IsHash(hash), NEW k \in Nat, NEW data
    PROVE  /\ IsHash(Put(hash, k, data))
           /\ HasKey(Put(hash, k, data), k) /\ At(Put(hash, k, data), k) = data
           /\ \A j \in Nat \ {k} :
                 /\ HasKey(Put(hash, k, data), j) <=> HasKey(hash, j)
                 /\ HasKey(hash, j) => At(Put(hash, k, data), j) = At(hash, j)
<1>1. PICK slot : slot = Slot(hash, k)
  OBVIOUS
<1>2. PICK after : after = Put(hash, k, data)
  OBVIOUS
<1>3. slot \in DOMAIN hash
  BY <1>1, SlotIs
<1>4. after = [hash EXCEPT ![slot] = [j \in DOMAIN hash[slot] \cup {k} |->
                                          IF j = k THEN data ELSE hash[slot][j]]]
  BY <1>1, <1>2 DEF Put
<1>5. /\ DOMAIN after = DOMAIN hash
      /\ \A i \in DOMAIN hash : i # slot => after[i] = hash[i]
      /\ DOMAIN after[slot] = DOMAIN hash[slot] \cup {k}
      /\ after[slot][k] = data
      /\ \A j \in DOMAIN hash[slot] : j # k => after[slot][j] = hash[slot][j]
  BY <1>3, <1>4
<1>6. Size(after) = Size(hash) /\ \A j : Slot(after, j) = Slot(hash, j)
  BY <1>5, SameSlots
<1>7. IsHash(after)
  BY <1>1, <1>5, <1>6 DEF IsHash
<1>8. ASSUME NEW j \in Nat \ {k}
      PROVE  /\ HasKey(after, j) <=> HasKey(hash, j)
             /\ HasKey(hash, j) => At(after, j) = At(hash, j)
  <2>1. Slot(hash, j) \in DOMAIN hash
    BY SlotIs
  <2> QED
    BY <1>5, <1>6, <2>1 DEF HasKey, At
<1>9. HasKey(after, k) /\ At(after, k) = data
  BY <1>1, <1>5, <1>6 DEF HasKey, At
<1> QED
  BY <1>2, <1>7, <1>8, <1>9

\* erase takes out one key.
LEMMA EraseIs ==
    ASSUME NEW hash, IsHash(hash), NEW k \in Nat
    PROVE  /\ IsHash(Erase(hash, k)) /\ ~HasKey(Erase(hash, k), k)
           /\ \A j \in Nat \ {k} :
                 /\ HasKey(Erase(hash, k), j) <=> HasKey(hash, j)
                 /\ HasKey(hash, j) => At(Erase(hash, k), j) = At(hash, j)
<1>1. PICK slot : slot = Slot(hash, k)
  OBVIOUS
<1>2. PICK after : after = Erase(hash, k)
  OBVIOUS
<1>3. slot \in DOMAIN hash
  BY <1>1, SlotIs
<1>4. after = [hash EXCEPT ![slot] = [j \in DOMAIN hash[slot] \ {k} |-> hash[slot][j]]]
  BY <1>1, <1>2 DEF Erase
<1>5. /\ DOMAIN after = DOMAIN hash
      /\ \A i \in DOMAIN hash : i # slot => after[i] = hash[i]
      /\ DOMAIN after[slot] = DOMAIN hash[slot] \ {k}
      /\ \A j \in DOMAIN hash[slot] : j # k => after[slot][j] = hash[slot][j]
  BY <1>3, <1>4
<1>6. Size(after) = Size(hash) /\ \A j : Slot(after, j) = Slot(hash, j)
  BY <1>5, SameSlots
<1>7. IsHash(after)
  BY <1>1, <1>5, <1>6 DEF IsHash
<1>8. ASSUME NEW j \in Nat \ {k}
      PROVE  /\ HasKey(after, j) <=> HasKey(hash, j)
             /\ HasKey(hash, j) => At(after, j) = At(hash, j)
  <2>1. Slot(hash, j) \in DOMAIN hash
    BY SlotIs
  <2> QED
    BY <1>5, <1>6, <2>1 DEF HasKey, At
<1>9. ~HasKey(after, k)
  BY <1>1, <1>5, <1>6 DEF HasKey
<1> QED
  BY <1>2, <1>7, <1>8, <1>9

\* The keys of a hash are those it finds.
LEMMA KeysAre ==
    ASSUME NEW hash, IsHash(hash)
    PROVE  /\ Keys(hash) = {k \in Nat : HasKey(hash, k)}
           /\ IsEmpty(hash) <=> \A k \in Nat : ~HasKey(hash, k)
<1>1. ASSUME NEW i \in DOMAIN hash, NEW k \in DOMAIN hash[i]
      PROVE  k \in Nat /\ HasKey(hash, k)
  BY DEF IsHash, HasKey
<1>2. ASSUME NEW k \in Nat, HasKey(hash, k) PROVE \E i \in DOMAIN hash : k \in DOMAIN hash[i]
  BY <1>2, SlotIs DEF HasKey
<1> QED
  BY <1>1, <1>2 DEF Keys, IsEmpty

\* resize_nearest_prime resizes to a size above 0.
LEMMA PrimeIs ==
    ASSUME NEW desired \in Nat
    PROVE  NearestPrime(desired) \in Nat \ {0}
<1>1. CASE desired < 2
  BY <1>1 DEF NearestPrime
<1>2. CASE ~(desired < 2)
  <2> DEFINE below == {p \in ToSet(Front(Primes)) : p <= desired}
  <2>1. /\ \A i \in 1..16 : Primes[i] \in Nat \ {0}
        /\ Len(Primes) = 17 /\ Primes[1] = 1
    BY DEF Primes
  <2>2. PICK small : small = SubSeq(Primes, 1, 16)
    OBVIOUS
  <2>3. /\ small \in Seq(Nat \ {0}) /\ Len(small) = 16
        /\ \A i \in 1..16 : small[i] = Primes[1 + i - 1]
    BY <2>1, <2>2, SubSeqProperties
  <2>4. DOMAIN small = 1..16 /\ small[1] = 1 /\ \A i \in 1..16 : small[i] \in Nat \ {0}
    BY <2>1, <2>3
  <2>5. Front(Primes) = small
    BY <2>1, <2>2 DEF Front
  <2>6. ToSet(Front(Primes)) \subseteq Nat \ {0} /\ 1 \in ToSet(Front(Primes))
    BY <2>4, <2>5 DEF ToSet
  <2>7. below \in SUBSET (1..desired) /\ 1 \in below
    BY <1>2, <2>6
  <2> HIDE DEF below
  <2>8. Max(below) \in below
    BY <2>7, CutTypes!GreatestNumber DEF Max, CutTypes!Greatest
  <2> QED
    BY <1>2, <2>7, <2>8 DEF NearestPrime, below
<1> QED
  BY <1>1, <1>2

\* The numbers of a finite set can be put in order.
LEMMA OrderExists ==
    ASSUME NEW S \in SUBSET Nat, IsFiniteSet(S)
    PROVE  \E s \in [1..Cardinality(S) -> S] :
               \A i, j \in 1..Cardinality(S) : i < j => s[i] < s[j]
<1> DEFINE Ordered1(T, s) == /\ s \in [1..Cardinality(T) -> T]
                             /\ \A i, j \in 1..Cardinality(T) : i < j => s[i] < s[j]
           without == {m \in Nat : \E T \in SUBSET Nat :
                           IsFiniteSet(T) /\ Cardinality(T) = m /\ ~\E s : Ordered1(T, s)}
<1>1. SUFFICES ASSUME without # {} PROVE FALSE
  <2>1. Cardinality(S) \in Nat
    BY FS_CardinalityType
  <2> QED
    BY <1>1, <2>1
<1>2. PICK m \in without : \A k \in without : m <= k
  <2>1. without \in SUBSET Nat
    OBVIOUS
  <2> HIDE DEF without
  <2> QED
    BY <1>1, <2>1, CutTypes!LeastNumber
<1>3. PICK T \in SUBSET Nat : IsFiniteSet(T) /\ Cardinality(T) = m /\ ~\E s : Ordered1(T, s)
  OBVIOUS
<1>4. CASE m = 0
  <2>1. Ordered1(T, [i \in 1..0 |-> 0])
    BY <1>3, <1>4
  <2> QED
    BY <1>3, <2>1
<1>5. CASE m # 0
  <2>1. T # {}
    BY <1>3, <1>5, FS_EmptySet
  <2>2. PICK x \in T : \A y \in T : x <= y
    BY <2>1, CutTypes!LeastNumber
  <2>3. PICK U : U = T \ {x}
    OBVIOUS
  <2>4. U \in SUBSET Nat /\ IsFiniteSet(U) /\ Cardinality(U) = m - 1 /\ \A y \in U : x < y
    <3>1. IsFiniteSet(U) /\ Cardinality(U) = m - 1
      BY <1>3, <2>2, <2>3, FS_RemoveElement
    <3> QED
      BY <2>2, <2>3, <3>1
  <2>5. m - 1 \notin without
    BY <1>2
  <2>6. PICK t : Ordered1(U, t)
    <3> HIDE DEF Ordered1
    <3>1. m - 1 \in Nat
      BY <1>2, <1>5
    <3> QED
      BY <2>4, <2>5, <3>1
  <2> DEFINE s == [i \in 1..m |-> IF i = 1 THEN x ELSE t[i - 1]]
  <2>7. \A i \in 1..m : i # 1 => i - 1 \in 1..(m - 1) /\ t[i - 1] \in U
    BY <1>2, <2>4, <2>6
  <2>8. s \in [1..m -> T]
    BY <2>2, <2>3, <2>7
  <2>9. ASSUME NEW i \in 1..m, NEW j \in 1..m, i < j PROVE s[i] < s[j]
    <3>1. j # 1
      BY <2>9
    <3>2. CASE i = 1
      BY <2>4, <2>7, <3>1, <3>2
    <3>3. CASE i # 1
      BY <2>4, <2>6, <2>7, <2>9, <3>1, <3>3
    <3> QED
      BY <3>2, <3>3
  <2>10. Ordered1(T, s)
    BY <1>3, <2>8, <2>9
  <2> QED
    BY <1>3, <2>10
<1> QED
  BY <1>4, <1>5

\* Ascending has every number of the set once.
LEMMA AscendingIs ==
    ASSUME NEW S \in SUBSET Nat, IsFiniteSet(S)
    PROVE  /\ Cardinality(S) \in Nat /\ Ascending(S) \in [1..Cardinality(S) -> S]
           /\ \A i, j \in 1..Cardinality(S) : i < j => Ascending(S)[i] < Ascending(S)[j]
           /\ \A x \in S : \E i \in 1..Cardinality(S) : Ascending(S)[i] = x
<1>1. PICK n : n = Cardinality(S)
  OBVIOUS
<1>2. n \in Nat
  BY <1>1, FS_CardinalityType
<1>3. PICK s : s = Ascending(S)
  OBVIOUS
<1>4. s \in [1..n -> S] /\ \A i, j \in 1..n : i < j => s[i] < s[j]
  BY <1>1, <1>3, OrderExists DEF Ascending
<1>5. \A i, j \in 1..n : s[i] = s[j] => i = j
  <2> SUFFICES ASSUME NEW i \in 1..n, NEW j \in 1..n, s[i] = s[j] PROVE i = j
    OBVIOUS
  <2>1. s[i] \in Nat
    BY <1>4
  <2>2. ~(s[i] < s[j]) /\ ~(s[j] < s[i])
    BY <2>1
  <2>3. ~(i < j) /\ ~(j < i)
    BY <1>4, <2>2
  <2> QED
    BY <1>2, <2>3
<1>6. s \in Injection(1..n, S)
  BY <1>4, <1>5 DEF Injection, IsInjective
<1>7. Cardinality(1..n) = n
  BY <1>2, FS_Interval
<1>8. s \in Surjection(1..n, S)
  BY <1>1, <1>6, <1>7, FS_Injection
<1> QED
  BY <1>1, <1>2, <1>3, <1>4, <1>8 DEF Surjection

-----------------------------------------------------------------------------
(* The iterator *)

\* Min is the least number of a set.
LEMMA LeastIs ==
    ASSUME NEW S \in SUBSET Nat, S # {}
    PROVE  Min(S) \in S /\ \A y \in S : Min(S) <= y
BY CutTypes!LeastNumber DEF Min

\* An iterator is at an entry, or at the end.
Place(hash, it) ==
    \/ it = End(hash)
    \/ /\ it.idx \in DOMAIN hash /\ it.key \in DOMAIN hash[it.idx]
       /\ it = [idx |-> it.idx, map |-> it.idx, key |-> it.key]

\* The keys it has passed.
Behind(hash, it) ==
    {k \in Keys(hash) : \/ Slot(hash, k) < it.idx
                        \/ Slot(hash, k) = it.idx /\ k < it.key}

\* Where a key is.
LEMMA KeyIsIn ==
    ASSUME NEW hash, IsHash(hash)
    PROVE  /\ \A k \in Keys(hash) : /\ k \in Nat /\ Slot(hash, k) \in DOMAIN hash
                                    /\ k \in DOMAIN hash[Slot(hash, k)]
           /\ \A i \in DOMAIN hash : \A k \in DOMAIN hash[i] :
                 k \in Nat /\ k \in Keys(hash) /\ Slot(hash, k) = i
           /\ Size(hash) \in Nat /\ \A i \in DOMAIN hash : i \in Nat /\ i < Size(hash)
           /\ \A i \in 0..Size(hash) : i # Size(hash) => i \in DOMAIN hash
BY DEF IsHash, Keys

\* The search for a bucket with keys passes none.
LEMMA FirstFromIs ==
    ASSUME NEW hash, IsHash(hash), NEW i \in Nat
    PROVE  /\ Place(hash, FirstFrom(hash, i))
           /\ Behind(hash, FirstFrom(hash, i)) = {k \in Keys(hash) : Slot(hash, k) < i}
<1> DEFINE next == {j \in DOMAIN hash : j >= i /\ ~(DOMAIN hash[j] = {})}
<1>1. PICK it : it = FirstFrom(hash, i)
  OBVIOUS
<1>2. CASE next = {}
  <2>1. it = End(hash) /\ it.idx = Size(hash)
    BY <1>1, <1>2 DEF FirstFrom, End
  <2>2. \A k \in Keys(hash) : Slot(hash, k) < i /\ Slot(hash, k) < Size(hash)
    BY <1>2, KeyIsIn
  <2> QED
    BY <1>1, <2>1, <2>2 DEF Place, Behind
<1>3. CASE next # {}
  <2>1. PICK m : m = Min(next)
    OBVIOUS
  <2>2. PICK n : n = Min(DOMAIN hash[m])
    OBVIOUS
  <2>3. m \in next /\ \A j \in next : m <= j
    <3>1. next \in SUBSET Nat
      BY KeyIsIn
    <3> HIDE DEF next
    <3> QED
      BY <1>3, <2>1, <3>1, LeastIs
  <2>4. n \in DOMAIN hash[m] /\ \A k \in DOMAIN hash[m] : n <= k
    <3>1. DOMAIN hash[m] \in SUBSET Nat /\ DOMAIN hash[m] # {}
      BY <2>3, KeyIsIn
    <3> QED
      BY <2>2, <3>1, LeastIs
  <2>5. it = [idx |-> m, map |-> m, key |-> n]
    BY <1>1, <1>3, <2>1, <2>2 DEF FirstFrom
  <2>6. Place(hash, it)
    BY <2>3, <2>4, <2>5 DEF Place
  <2>7. ASSUME NEW k \in Keys(hash)
        PROVE  (Slot(hash, k) < m \/ (Slot(hash, k) = m /\ k < n)) <=> Slot(hash, k) < i
    <3>1. k \in Nat /\ Slot(hash, k) \in DOMAIN hash /\ Slot(hash, k) \in Nat
          /\ k \in DOMAIN hash[Slot(hash, k)]
      BY KeyIsIn
    <3>2. Slot(hash, k) >= i => m <= Slot(hash, k)
      BY <2>3, <3>1
    <3>3. m \in Nat /\ n \in Nat /\ i <= m
      BY <2>3, <2>4, KeyIsIn
    <3>4. Slot(hash, k) = m => n <= k
      BY <2>4, <3>1
    <3>5. PICK slot \in Nat : slot = Slot(hash, k)
      BY <3>1
    <3> QED
      BY <3>1, <3>2, <3>3, <3>4, <3>5
  <2> QED
    BY <1>1, <2>5, <2>6, <2>7 DEF Behind
<1> QED
  BY <1>2, <1>3

\* operator++ passes the one key.
LEMMA AdvanceIs ==
    ASSUME NEW hash, IsHash(hash), NEW it, Place(hash, it), it # End(hash)
    PROVE  /\ Place(hash, Advance(hash, it))
           /\ Behind(hash, Advance(hash, it)) = Behind(hash, it) \cup {it.key}
           /\ it.key \notin Behind(hash, it) /\ it.key \in Nat
<1> DEFINE later == {k \in DOMAIN hash[it.idx] : k > it.key}
<1>1. /\ it.idx \in DOMAIN hash /\ it.key \in DOMAIN hash[it.idx]
      /\ it = [idx |-> it.idx, map |-> it.idx, key |-> it.key]
  BY DEF Place
<1>2. PICK idx : idx = it.idx
  OBVIOUS
<1>3. PICK key : key = it.key
  OBVIOUS
<1>4. /\ idx \in DOMAIN hash /\ idx \in Nat /\ key \in Nat /\ key \in Keys(hash)
      /\ key \in DOMAIN hash[idx] /\ Slot(hash, key) = idx
  BY <1>1, <1>2, <1>3, KeyIsIn
<1>5. key \notin Behind(hash, it)
  BY <1>2, <1>3, <1>4 DEF Behind
<1>6. PICK after : after = Advance(hash, it)
  OBVIOUS
<1>7. CASE later # {}
  <2>1. PICK n : n = Min(later)
    OBVIOUS
  <2>2. n \in later /\ \A k \in later : n <= k
    <3>1. later \in SUBSET Nat
      BY <1>1, KeyIsIn
    <3> HIDE DEF later
    <3> QED
      BY <1>7, <2>1, <3>1, LeastIs
  <2>3. after = [idx |-> idx, map |-> idx, key |-> n]
    BY <1>1, <1>2, <1>6, <1>7, <2>1 DEF Advance
  <2>4. Place(hash, after)
    BY <1>2, <1>4, <2>2, <2>3 DEF Place
  <2>5. ASSUME NEW k \in Keys(hash)
        PROVE  (Slot(hash, k) < idx \/ (Slot(hash, k) = idx /\ k < n)) <=>
                   \/ Slot(hash, k) < idx
                   \/ Slot(hash, k) = idx /\ k < key
                   \/ k = key
    <3>1. PICK slot : slot = Slot(hash, k)
      OBVIOUS
    <3>2. k \in Nat /\ k \in DOMAIN hash[slot] /\ slot \in Nat
      BY <3>1, KeyIsIn
    <3>3. n \in Nat /\ key < n
      BY <1>1, <1>3, <2>2, KeyIsIn
    <3>4. slot = idx /\ k > key => n <= k
      BY <1>2, <1>3, <2>2, <3>2
    <3>5. k = key => slot = idx
      BY <1>4, <3>1
    <3> QED
      BY <1>4, <3>1, <3>2, <3>3, <3>4, <3>5
  <2>6. Behind(hash, after) = Behind(hash, it) \cup {key}
    BY <1>2, <1>3, <1>4, <2>3, <2>5 DEF Behind
  <2> QED
    BY <1>3, <1>4, <1>5, <1>6, <2>4, <2>6
<1>8. CASE later = {}
  <2>1. after = FirstFrom(hash, idx + 1)
    BY <1>2, <1>6, <1>8 DEF Advance
  <2>2. Place(hash, after) /\ Behind(hash, after) = {k \in Keys(hash) : Slot(hash, k) < idx + 1}
    BY <1>4, <2>1, FirstFromIs
  <2>3. ASSUME NEW k \in Keys(hash)
        PROVE  Slot(hash, k) < idx + 1 <=>
                   \/ Slot(hash, k) < idx
                   \/ Slot(hash, k) = idx /\ k < key
                   \/ k = key
    <3>1. PICK slot : slot = Slot(hash, k)
      OBVIOUS
    <3>2. k \in Nat /\ slot \in Nat /\ k \in DOMAIN hash[slot]
      BY <3>1, KeyIsIn
    <3>3. slot = idx => ~(k > key)
      BY <1>2, <1>3, <1>8, <3>2
    <3>4. k = key => slot = idx
      BY <1>4, <3>1
    <3> QED
      BY <1>4, <3>1, <3>2, <3>3, <3>4
  <2>4. Behind(hash, after) = Behind(hash, it) \cup {key}
    BY <1>2, <1>3, <1>4, <2>2, <2>3 DEF Behind
  <2> QED
    BY <1>3, <1>4, <1>5, <1>6, <2>2, <2>4
<1> QED
  BY <1>7, <1>8

VisitLoopTurn(hash, a, i) == VisitTurn(hash, a)

\* After i turns the keys behind the iterator have been seen, each once.
VisitKept(hash, i, a) ==
    /\ IsHash(hash) /\ Place(hash, a.it) /\ a.seen \in Seq(Nat)
    /\ {a.seen[j] : j \in 1..Len(a.seen)} = Behind(hash, a.it)
    /\ \A j, k \in 1..Len(a.seen) : a.seen[j] = a.seen[k] => j = k
    /\ a.it # End(hash) => Len(a.seen) = i

Visiting == INSTANCE FoldInduction WITH turn <- VisitLoopTurn, keeps <- VisitKept

\* A turn keeps it.
LEMMA VisitTurnIs ==
    ASSUME NEW hash, NEW n \in Nat, NEW i \in 1..n, NEW a, VisitKept(hash, i - 1, a)
    PROVE  VisitKept(hash, i, VisitTurn(hash, a))
<1>1. CASE a.it = End(hash)
  BY <1>1 DEF VisitKept, VisitTurn
<1>2. CASE a.it # End(hash)
  <2>1. PICK it : it = a.it
    OBVIOUS
  <2>2. PICK seen : seen = a.seen
    OBVIOUS
  <2>3. /\ IsHash(hash) /\ Place(hash, it) /\ seen \in Seq(Nat) /\ it # End(hash)
        /\ {seen[j] : j \in 1..Len(seen)} = Behind(hash, it)
        /\ \A j, k \in 1..Len(seen) : seen[j] = seen[k] => j = k
        /\ Len(seen) = i - 1
    BY <1>2, <2>1, <2>2 DEF VisitKept
  <2>4. /\ Place(hash, Advance(hash, it))
        /\ Behind(hash, Advance(hash, it)) = Behind(hash, it) \cup {it.key}
        /\ it.key \notin Behind(hash, it) /\ it.key \in Nat
    BY <2>3, AdvanceIs
  <2>5. PICK more : more = Append(seen, it.key)
    OBVIOUS
  <2>6. /\ more \in Seq(Nat) /\ Len(more) = i
        /\ \A j \in 1..(i - 1) : more[j] = seen[j]
        /\ more[i] = it.key
    BY <2>3, <2>4, <2>5, AppendProperties
  <2>7. {more[j] : j \in 1..i} = {seen[j] : j \in 1..(i - 1)} \cup {it.key}
    <3>1. \A j \in 1..i : j = i \/ j \in 1..(i - 1)
      OBVIOUS
    <3>2. i \in 1..i /\ \A j \in 1..(i - 1) : j \in 1..i
      OBVIOUS
    <3> QED
      BY <2>6, <3>1, <3>2
  <2>8. \A j, k \in 1..i : more[j] = more[k] => j = k
    <3>1. \A j \in 1..(i - 1) : more[j] # it.key /\ more[j] = seen[j]
      BY <2>3, <2>4, <2>6
    <3>2. \A j \in 1..i : j = i \/ j \in 1..(i - 1)
      OBVIOUS
    <3> QED
      BY <2>3, <2>6, <3>1, <3>2
  <2>9. VisitTurn(hash, a) = [it |-> Advance(hash, it), seen |-> more]
    BY <1>2, <2>1, <2>2, <2>5 DEF VisitTurn
  <2>10. PICK after : after = VisitTurn(hash, a)
    OBVIOUS
  <2>11. after.it = Advance(hash, it) /\ after.seen = more
    BY <2>9, <2>10
  <2>12. {more[j] : j \in 1..i} = Behind(hash, after.it)
    BY <2>3, <2>4, <2>7, <2>11
  <2>13. VisitKept(hash, i, after)
    BY <2>3, <2>4, <2>6, <2>8, <2>11, <2>12 DEF VisitKept
  <2> QED
    BY <2>10, <2>13
<1> QED
  BY <1>1, <1>2

\* The loop visits every key of a hash, and none twice.
LEMMA VisitsAre ==
    ASSUME NEW hash, IsHash(hash), IsFiniteSet(Keys(hash))
    PROVE  /\ Visits(hash) \in Seq(Nat)
           /\ {Visits(hash)[j] : j \in DOMAIN Visits(hash)} = Keys(hash)
           /\ \A j, k \in DOMAIN Visits(hash) : Visits(hash)[j] = Visits(hash)[k] => j = k
<1> DEFINE base == [it |-> Begin(hash), seen |-> <<>>]
<1>1. PICK n : n = Cardinality(Keys(hash)) + 1
  OBVIOUS
<1>2. n \in Nat
  BY <1>1, FS_CardinalityType
<1>3. PICK turns : turns = [i \in 1..n |-> i]
  OBVIOUS
<1>4. DOMAIN turns = 1..n
  BY <1>3
<1>5. Visits(hash) = Visiting!Loop(hash, base, turns).seen
  BY <1>1, <1>3, SMT DEF Visits, Visiting!Loop, VisitLoopTurn, FoldLeft, MapThenFoldSet, Max,
             Visiting!MapThenFoldSet, Visiting!Greatest
<1>6. VisitKept(hash, 0, base)
  <2>1. /\ Place(hash, Begin(hash))
        /\ Behind(hash, Begin(hash)) = {k \in Keys(hash) : Slot(hash, k) < 0}
    BY FirstFromIs DEF Begin
  <2>2. Behind(hash, Begin(hash)) = {}
    BY <2>1, KeyIsIn
  <2>3. base.seen \in Seq(Nat) /\ Len(base.seen) = 0 /\ base.it = Begin(hash)
    OBVIOUS
  <2> HIDE DEF base
  <2> QED
    BY <2>1, <2>2, <2>3 DEF VisitKept
<1> HIDE DEF base
<1>7. \A i \in 1..n : \A a :
          VisitKept(hash, i - 1, a) => VisitKept(hash, i, VisitLoopTurn(hash, a, turns[i]))
  BY <1>2, VisitTurnIs DEF VisitLoopTurn
<1>8. PICK end : end = Visiting!Loop(hash, base, turns)
  OBVIOUS
<1>9. VisitKept(hash, n, end)
  BY <1>2, <1>4, <1>6, <1>7, <1>8, Visiting!LoopKeeps
<1>10. PICK seen : seen = end.seen
  OBVIOUS
<1>11. /\ seen \in Seq(Nat) /\ {seen[j] : j \in 1..Len(seen)} = Behind(hash, end.it)
       /\ \A j, k \in 1..Len(seen) : seen[j] = seen[k] => j = k
       /\ end.it # End(hash) => Len(seen) = n
  BY <1>9, <1>10 DEF VisitKept
<1>12. end.it = End(hash)
  <2> SUFFICES ASSUME end.it # End(hash) PROVE FALSE
    OBVIOUS
  <2>1. Len(seen) = n /\ \A j \in 1..n : seen[j] \in Keys(hash)
    BY <1>11 DEF Behind
  <2> DEFINE f == [j \in 1..n |-> seen[j]]
  <2>2. f \in Injection(1..n, Keys(hash))
    BY <1>11, <2>1 DEF Injection, IsInjective
  <2>3. Cardinality(1..n) = n
    BY <1>2, FS_Interval
  <2>4. Cardinality(1..n) <= Cardinality(Keys(hash))
    BY <2>2, FS_Injection
  <2> QED
    BY <1>1, <2>3, <2>4, FS_CardinalityType
<1>13. Behind(hash, end.it) = Keys(hash)
  BY <1>12, KeyIsIn DEF Behind, End
<1>14. Visits(hash) = seen /\ DOMAIN seen = 1..Len(seen)
  BY <1>5, <1>8, <1>10, <1>11
<1> QED
  BY <1>11, <1>13, <1>14

-----------------------------------------------------------------------------
(* The hash of maps *)

\* The key sets that a bank of the class could have.
Pairs == {key \in Nat \X Nat : twoKeys \/ key[1] = 0}

HasEntry(b, key) == HasKey(HashOf(b, key[1]), key[2])

\* Maps from clients to nodes.
SubMaps == UNION {[clients -> Node] : clients \in SUBSET Client}

Maps == IF twoKeys THEN SubMaps \cup {NULL} ELSE SubMaps

\* Every bucket is in its place, every entry is of a key set, and has a map, which only
\* with two keys may be NULL.
Typed(b) ==
    /\ IsHash(b)
    /\ twoKeys => \A k \in Nat : HasKey(b, k) => /\ IsHash(At(b, k))
                                                 /\ \E key \in KeySets : key[1] = k
    /\ \A key \in Pairs : HasEntry(b, key) => key \in KeySet /\ GetByPq(b, key) \in Maps

\* No key set but one has another map, or an entry that it had not.
OthersKept(b, after, key) ==
    \A other \in Pairs \ {key} : /\ HasEntry(after, other) <=> HasEntry(b, other)
                                 /\ GetByPq(after, other) = GetByPq(b, other)

\* NULL is no map; keys are pairs of numbers.
LEMMA KeysArePairs ==
    /\ NULL \notin SubMaps
    /\ KeySets = Pairs \cap KeySet
    /\ \A key \in Pairs : key[1] \in Nat /\ key[2] \in Nat /\ key = <<key[1], key[2]>>
<1>1. NULL \notin SubMaps
  BY TablesAssumption DEF SubMaps
<1>2. KeySet \subseteq Nat \X Nat
  BY TablesAssumption
<1> QED
  BY <1>1, <1>2 DEF KeySets, Pairs

\* A hash that is made where none was looks like an empty one.
LEMMA NewHashIs == IsHash(NewHash) /\ \A k \in Nat : ~HasKey(NewHash, k)
BY SizedIs DEF NewHash

\* The hash that holds the maps of a key 1 is a hash.
LEMMA HashOfIs ==
    ASSUME NEW b, Typed(b), NEW k \in Nat
    PROVE  IsHash(HashOf(b, k))
BY NewHashIs DEF Typed, HashOf

\* What get_by_pq and get_by_fq tell of an entry.
LEMMA GetIs ==
    ASSUME NEW b, NEW key
    PROVE  /\ HasEntry(b, key) => GetByPq(b, key) = At(HashOf(b, key[1]), key[2])
           /\ ~HasEntry(b, key) => GetByPq(b, key) = NULL
           /\ IsStale(b, key) <=> HasEntry(b, key) /\ GetByPq(b, key) = NULL
BY DEF HasEntry, GetByPq, IsStale

\* The bank's hash, or with two keys the hash of the key 1, is written for one key.
LEMMA HashWritten ==
    ASSUME NEW b, Typed(b), NEW after, NEW key \in KeySets,
           NEW inner, IsHash(inner),
           \A k \in Nat \ {key[2]} :
               /\ HasKey(inner, k) <=> HasKey(HashOf(b, key[1]), k)
               /\ HasKey(inner, k) => At(inner, k) = At(HashOf(b, key[1]), k),
           HasKey(inner, key[2]) => At(inner, key[2]) \in Maps,
           IF twoKeys THEN after = Put(b, key[1], inner) ELSE after = inner
    PROVE  /\ Typed(after) /\ OthersKept(b, after, key) /\ HashOf(after, key[1]) = inner
           /\ HasEntry(after, key) <=> HasKey(inner, key[2])
           /\ GetByPq(after, key) = IF HasKey(inner, key[2]) THEN At(inner, key[2]) ELSE NULL
<1>1. key \in Pairs /\ key \in KeySet /\ key[1] \in Nat /\ key[2] \in Nat
  BY KeysArePairs
<1>2. /\ HashOf(after, key[1]) = inner
      /\ \A k \in Nat \ {key[1]} : twoKeys => HashOf(after, k) = HashOf(b, k)
  <2>1. CASE twoKeys
    <3>1. after = Put(b, key[1], inner) /\ IsHash(b)
      BY <2>1 DEF Typed
    <3> QED
      BY <1>1, <2>1, <3>1, PutIs DEF HashOf
  <2>2. CASE ~twoKeys
    BY <2>2 DEF HashOf
  <2> QED
    BY <2>1, <2>2
<1>3. /\ HasEntry(after, key) <=> HasKey(inner, key[2])
      /\ GetByPq(after, key) = IF HasKey(inner, key[2]) THEN At(inner, key[2]) ELSE NULL
  BY <1>2 DEF HasEntry, GetByPq
<1>4. ASSUME NEW other \in Pairs \ {key}
      PROVE  /\ HasEntry(after, other) <=> HasEntry(b, other)
             /\ GetByPq(after, other) = GetByPq(b, other)
  <2>1. other[1] \in Nat /\ other[2] \in Nat /\ other = <<other[1], other[2]>>
    BY KeysArePairs
  <2>2. CASE other[1] = key[1]
    <3>1. other[2] # key[2]
      BY <1>1, <2>1, <2>2, KeysArePairs
    <3> QED
      BY <1>2, <2>1, <2>2, <3>1 DEF HasEntry, GetByPq
  <2>3. CASE other[1] # key[1]
    <3>1. twoKeys
      BY <1>1, <2>3 DEF Pairs
    <3> QED
      BY <1>2, <2>1, <2>3, <3>1 DEF HasEntry, GetByPq
  <2> QED
    BY <2>2, <2>3
<1>5. OthersKept(b, after, key)
  BY <1>4 DEF OthersKept
<1>6. IsHash(after)
  BY <1>1, PutIs DEF Typed
<1>7. ASSUME twoKeys, NEW k \in Nat, HasKey(after, k)
      PROVE  IsHash(At(after, k)) /\ \E other \in KeySets : other[1] = k
  <2>1. after = Put(b, key[1], inner) /\ IsHash(b)
    BY <1>7 DEF Typed
  <2>2. CASE k = key[1]
    BY <1>1, <2>1, <2>2, PutIs
  <2>3. CASE k # key[1]
    <3>1. HasKey(b, k) /\ At(after, k) = At(b, k)
      BY <1>1, <1>7, <2>1, <2>3, PutIs
    <3> QED
      BY <1>7, <3>1 DEF Typed
  <2> QED
    BY <2>2, <2>3
<1>8. ASSUME NEW other \in Pairs, HasEntry(after, other)
      PROVE  other \in KeySet /\ GetByPq(after, other) \in Maps
  <2>1. CASE other = key
    BY <1>1, <1>3, <1>8, <2>1
  <2>2. CASE other # key
    BY <1>4, <1>8, <2>2 DEF Typed
  <2> QED
    BY <2>1, <2>2
<1> QED
  BY <1>2, <1>3, <1>5, <1>6, <1>7, <1>8 DEF Typed

\* Where a map is put, and what is made for it.
LEMMA PutMapIs ==
    ASSUME NEW b, Typed(b), NEW key \in KeySets, NEW map \in Maps
    PROVE  /\ Typed(PutMap(b, key, map)) /\ OthersKept(b, PutMap(b, key, map), key)
           /\ HasEntry(PutMap(b, key, map), key) /\ GetByPq(PutMap(b, key, map), key) = map
<1>1. key \in Pairs /\ key[1] \in Nat /\ key[2] \in Nat
  BY KeysArePairs
<1>2. PICK old : old = IF twoKeys THEN Inner(b, key[1]) ELSE b
  OBVIOUS
<1>3. /\ IsHash(old)
      /\ \A k \in Nat : /\ HasKey(old, k) <=> HasKey(HashOf(b, key[1]), k)
                        /\ HasKey(old, k) => At(old, k) = At(HashOf(b, key[1]), k)
  <2>1. CASE ~twoKeys
    BY <1>2, <2>1 DEF Typed, HashOf
  <2>2. CASE twoKeys /\ HasKey(b, key[1])
    BY <1>1, <1>2, <2>2 DEF Typed, HashOf, Inner
  <2>3. CASE twoKeys /\ ~HasKey(b, key[1])
    <3>1. old = Sized(NearestPrime(Size2)) /\ HashOf(b, key[1]) = NewHash
      BY <1>2, <2>3 DEF Inner, HashOf
    <3>2. NearestPrime(Size2) \in Nat \ {0}
      BY PrimeIs, TablesAssumption
    <3> QED
      BY <3>1, <3>2, SizedIs, NewHashIs
  <2> QED
    BY <2>1, <2>2, <2>3
<1>4. PICK inner : inner = Put(old, key[2], map)
  OBVIOUS
<1>5. /\ IsHash(inner) /\ HasKey(inner, key[2]) /\ At(inner, key[2]) = map
      /\ \A k \in Nat \ {key[2]} : /\ HasKey(inner, k) <=> HasKey(old, k)
                                   /\ HasKey(old, k) => At(inner, k) = At(old, k)
  BY <1>1, <1>3, <1>4, PutIs
<1>6. PICK after : after = PutMap(b, key, map)
  OBVIOUS
<1>7. IF twoKeys THEN after = Put(b, key[1], inner) ELSE after = inner
  BY <1>2, <1>4, <1>6 DEF PutMap
<1>8. \A k \in Nat \ {key[2]} :
          /\ HasKey(inner, k) <=> HasKey(HashOf(b, key[1]), k)
          /\ HasKey(inner, k) => At(inner, k) = At(HashOf(b, key[1]), k)
  BY <1>3, <1>5
<1> QED
  BY <1>5, <1>6, <1>7, <1>8, HashWritten

\* add_by_fq enters one client in the map of its key set.
LEMMA AddByFqIs ==
    ASSUME NEW b, Typed(b), NEW key \in KeySets, NEW c \in Client, NEW node \in Node,
           NEW after, after = AddByFq(b, key, c, node)
    PROVE  /\ Typed(after) /\ OthersKept(b, after, key) /\ HasEntry(after, key)
           /\ GetByPq(after, key) \in SubMaps
           /\ \A d : HasClient(after, key, d) <=> d = c \/ HasClient(b, key, d)
           /\ GetByPq(after, key)[c] = node
           /\ \A d : d # c /\ HasClient(b, key, d) =>
                 GetByPq(after, key)[d] = GetByPq(b, key)[d]
<1>1. GetByPq(b, key) \in SubMaps \/ GetByPq(b, key) = NULL
  BY GetIs, KeysArePairs DEF Typed, Maps
<1>2. PICK old : old = IF GetByPq(b, key) = NULL THEN [d \in {} |-> node] ELSE GetByPq(b, key)
  OBVIOUS
<1>3. PICK clients \in SUBSET Client : old \in [clients -> Node]
  BY <1>1, <1>2 DEF SubMaps
<1>4. PICK map : map = [d \in DOMAIN old \cup {c} |-> IF d = c THEN node ELSE old[d]]
  OBVIOUS
<1>5. /\ DOMAIN old = clients /\ DOMAIN map = clients \cup {c} /\ map[c] = node
      /\ \A d \in clients : d # c => map[d] = old[d]
      /\ map \in [(clients \cup {c}) -> Node]
  BY <1>3, <1>4
<1>6. map \in SubMaps
  BY <1>3, <1>5 DEF SubMaps
<1>7. map \in Maps /\ map # NULL
  BY <1>6, KeysArePairs DEF Maps
<1>8. after = PutMap(b, key, map)
  BY <1>2, <1>4 DEF AddByFq
<1>9. /\ Typed(after) /\ OthersKept(b, after, key)
      /\ HasEntry(after, key) /\ GetByPq(after, key) = map
  BY <1>7, <1>8, PutMapIs
<1>10. \A d : HasClient(b, key, d) <=> d \in clients
  BY <1>2, <1>5 DEF HasClient
<1>11. \A d : HasClient(after, key, d) <=> d = c \/ d \in clients
  BY <1>5, <1>7, <1>9 DEF HasClient
<1>12. \A d : d # c /\ HasClient(b, key, d) => GetByPq(after, key)[d] = GetByPq(b, key)[d]
  BY <1>2, <1>5, <1>9, <1>10 DEF HasClient
<1> QED
  BY <1>5, <1>6, <1>9, <1>10, <1>11, <1>12

\* An entry is taken out of the hash it is in, and with two keys an empty hash after it.
LEMMA EntryErased ==
    ASSUME NEW b, Typed(b), NEW key \in KeySets, HasEntry(b, key), NEW after,
           after = IF ~twoKeys THEN Erase(b, key[2])
                   ELSE IF IsEmpty(Erase(At(b, key[1]), key[2])) THEN Erase(b, key[1])
                   ELSE Put(b, key[1], Erase(At(b, key[1]), key[2]))
    PROVE  /\ Typed(after) /\ OthersKept(b, after, key)
           /\ ~HasEntry(after, key) /\ GetByPq(after, key) = NULL
<1>1. key \in Pairs /\ key[1] \in Nat /\ key[2] \in Nat /\ key \in KeySet
  BY KeysArePairs
<1>2. PICK old : old = HashOf(b, key[1])
  OBVIOUS
<1>3. PICK inner : inner = Erase(old, key[2])
  OBVIOUS
<1>4. IsHash(old)
  BY <1>1, <1>2, HashOfIs
<1>5. /\ IsHash(inner) /\ ~HasKey(inner, key[2])
      /\ \A k \in Nat \ {key[2]} :
            /\ HasKey(inner, k) <=> HasKey(old, k)
            /\ HasKey(old, k) => At(inner, k) = At(old, k)
  BY <1>1, <1>3, <1>4, EraseIs
<1>6. twoKeys => HasKey(b, key[1]) /\ old = At(b, key[1])
  <2>1. HasKey(old, key[2])
    BY <1>2 DEF HasEntry
  <2> QED
    BY <1>1, <1>2, <2>1, NewHashIs DEF HashOf
<1>7. CASE ~twoKeys \/ ~IsEmpty(inner)
  <2>1. IF twoKeys THEN after = Put(b, key[1], inner) ELSE after = inner
    BY <1>2, <1>3, <1>6, <1>7 DEF HashOf
  <2> QED
    BY <1>2, <1>5, <2>1, HashWritten
<1>8. CASE twoKeys /\ IsEmpty(inner)
  <2>1. after = Erase(b, key[1])
    BY <1>3, <1>6, <1>8
  <2>2. /\ IsHash(after) /\ ~HasKey(after, key[1])
        /\ \A k \in Nat \ {key[1]} : /\ HasKey(after, k) <=> HasKey(b, k)
                                     /\ HasKey(b, k) => At(after, k) = At(b, k)
    <3>1. IsHash(b)
      BY DEF Typed
    <3> QED
      BY <1>1, <2>1, <3>1, EraseIs
  <2>3. \A k \in Nat : ~HasKey(inner, k)
    BY <1>5, <1>8, KeysAre
  <2>4. HashOf(after, key[1]) = NewHash /\ \A k \in Nat \ {key[1]} : HashOf(after, k) = HashOf(b, k)
    BY <1>1, <1>8, <2>2 DEF HashOf
  <2>5. ~HasEntry(after, key) /\ GetByPq(after, key) = NULL
    BY <1>1, <2>4, NewHashIs DEF HasEntry, GetByPq
  <2>6. ASSUME NEW other \in Pairs \ {key}
        PROVE  /\ HasEntry(after, other) <=> HasEntry(b, other)
               /\ GetByPq(after, other) = GetByPq(b, other)
    <3>1. other[1] \in Nat /\ other[2] \in Nat /\ other = <<other[1], other[2]>>
      BY KeysArePairs
    <3>2. CASE other[1] = key[1]
      <4>1. other[2] # key[2]
        BY <1>1, <3>1, <3>2, KeysArePairs
      <4>2. ~HasKey(HashOf(b, key[1]), other[2])
        BY <1>2, <1>5, <2>3, <3>1, <4>1
      <4> QED
        BY <2>4, <3>1, <3>2, <4>2, NewHashIs DEF HasEntry, GetByPq
    <3>3. CASE other[1] # key[1]
      BY <2>4, <3>1, <3>3 DEF HasEntry, GetByPq
    <3> QED
      BY <3>2, <3>3
  <2>7. ASSUME NEW k \in Nat, HasKey(after, k)
        PROVE  IsHash(At(after, k)) /\ \E other \in KeySets : other[1] = k
    <3>1. k # key[1] /\ HasKey(b, k) /\ At(after, k) = At(b, k)
      BY <2>2, <2>7
    <3> QED
      BY <1>8, <3>1 DEF Typed
  <2>8. ASSUME NEW other \in Pairs, HasEntry(after, other)
        PROVE  other \in KeySet /\ GetByPq(after, other) \in Maps
    BY <2>5, <2>6, <2>8 DEF Typed
  <2> QED
    BY <2>2, <2>5, <2>6, <2>7, <2>8 DEF Typed, OthersKept
<1> QED
  BY <1>7, <1>8

\* remove_by_pq deletes the map of a key set; the entry stays with two keys.
LEMMA RemoveByPqIs ==
    ASSUME NEW b, Typed(b), NEW key \in KeySets, GetByPq(b, key) # NULL, NEW after,
           after = RemoveByPq(b, key)
    PROVE  /\ Typed(after) /\ OthersKept(b, after, key)
           /\ GetByPq(after, key) = NULL /\ (HasEntry(after, key) <=> twoKeys)
<1>1. HasEntry(b, key)
  BY GetIs
<1>2. CASE twoKeys
  <2>1. NULL \in Maps /\ after = PutMap(b, key, NULL)
    BY <1>2 DEF Maps, RemoveByPq
  <2> QED
    BY <1>2, <2>1, PutMapIs
<1>3. CASE ~twoKeys
  <2>1. after = Erase(b, key[2])
    BY <1>3 DEF RemoveByPq
  <2> QED
    BY <1>1, <1>3, <2>1, EntryErased
<1> QED
  BY <1>2, <1>3

\* remove_by_fq takes one client out of the map of its key set, which goes if it is empty.
LEMMA RemoveByFqIs ==
    ASSUME NEW b, Typed(b), NEW key \in KeySets, NEW c, HasClient(b, key, c), NEW after,
           after = RemoveByFq(b, key, c)
    PROVE  /\ Typed(after) /\ OthersKept(b, after, key)
           /\ \A d : HasClient(after, key, d) <=> d # c /\ HasClient(b, key, d)
           /\ \A d : HasClient(after, key, d) => GetByPq(after, key)[d] = GetByPq(b, key)[d]
           /\ HasEntry(after, key) => GetByPq(after, key) # NULL
           /\ GetByPq(after, key) # NULL => DOMAIN GetByPq(after, key) # {}
<1>1. HasEntry(b, key) /\ GetByPq(b, key) # NULL
  BY GetIs DEF HasClient
<1>2. PICK map : map = GetByPq(b, key)
  OBVIOUS
<1>3. PICK clients \in SUBSET Client : map \in [clients -> Node]
  BY <1>1, <1>2, KeysArePairs DEF Typed, Maps, SubMaps
<1>4. PICK rest : rest = [d \in DOMAIN map \ {c} |-> map[d]]
  OBVIOUS
<1>5. /\ DOMAIN rest = clients \ {c} /\ \A d \in clients \ {c} : rest[d] = map[d]
      /\ rest \in [clients \ {c} -> Node]
  BY <1>3, <1>4
<1>6. \A d : HasClient(b, key, d) <=> d \in clients
  BY <1>1, <1>2, <1>3 DEF HasClient
<1>7. CASE DOMAIN rest # {}
  <2>1. after = PutMap(b, key, rest)
    BY <1>2, <1>4, <1>7 DEF RemoveByFq
  <2>2. rest \in SubMaps
    BY <1>3, <1>5 DEF SubMaps
  <2>3. rest \in Maps /\ rest # NULL
    BY <2>2, KeysArePairs DEF Maps
  <2>4. /\ Typed(after) /\ OthersKept(b, after, key)
        /\ HasEntry(after, key) /\ GetByPq(after, key) = rest
    BY <2>1, <2>3, PutMapIs
  <2> QED
    BY <1>2, <1>5, <1>6, <1>7, <2>3, <2>4 DEF HasClient
<1>8. CASE DOMAIN rest = {}
  <2>1. after = IF ~twoKeys THEN Erase(b, key[2])
                ELSE IF IsEmpty(Erase(At(b, key[1]), key[2])) THEN Erase(b, key[1])
                ELSE Put(b, key[1], Erase(At(b, key[1]), key[2]))
    BY <1>2, <1>4, <1>8 DEF RemoveByFq, RemoveByPq
  <2>2. /\ Typed(after) /\ OthersKept(b, after, key)
        /\ ~HasEntry(after, key) /\ GetByPq(after, key) = NULL
    BY <1>1, <2>1, EntryErased
  <2>3. \A d : ~HasClient(after, key, d)
    BY <2>2 DEF HasClient
  <2> QED
    BY <1>5, <1>6, <1>8, <2>2, <2>3
<1> QED
  BY <1>7, <1>8

\* An empty bank.
LEMMA EmptyTyped ==
    ASSUME NEW b, b = Sized(NearestPrime(Size1))
    PROVE  Typed(b) /\ \A key \in Pairs : ~HasEntry(b, key)
<1>1. NearestPrime(Size1) \in Nat \ {0}
  BY PrimeIs, TablesAssumption
<1>2. IsHash(b) /\ \A k \in Nat : ~HasKey(b, k)
  BY <1>1, SizedIs
<1>3. ASSUME NEW key \in Pairs PROVE ~HasEntry(b, key)
  <2>1. key[1] \in Nat /\ key[2] \in Nat
    BY KeysArePairs
  <2> QED
    BY <1>2, <2>1, NewHashIs DEF HasEntry, HashOf
<1> QED
  BY <1>2, <1>3 DEF Typed

-----------------------------------------------------------------------------
(* The destructor *)

\* The keys of the hashes are those of finitely many key sets.
LEMMA KeysAreFinite ==
    ASSUME NEW b, Typed(b)
    PROVE  /\ twoKeys => IsFiniteSet(Keys(b))
           /\ \A k \in Nat : (twoKeys \/ k = 0) => IsFiniteSet(Keys(HashOf(b, k)))
<1> DEFINE first == [key \in KeySet |-> key[1]]
           second == [key \in KeySet |-> key[2]]
           firsts == {key[1] : key \in KeySet}
           seconds == {key[2] : key \in KeySet}
<1>1. IsFiniteSet(KeySet)
  BY TablesAssumption
<1>2. IsFiniteSet(firsts)
  <2>1. first \in Surjection(KeySet, firsts)
    BY DEF Surjection
  <2> QED
    BY <1>1, <2>1, FS_Surjection
<1>3. IsFiniteSet(seconds)
  <2>1. second \in Surjection(KeySet, seconds)
    BY DEF Surjection
  <2> QED
    BY <1>1, <2>1, FS_Surjection
<1>4. ASSUME twoKeys PROVE IsFiniteSet(Keys(b))
  <2>1. Keys(b) \in SUBSET firsts
    BY <1>4, KeysAre, KeysArePairs DEF Typed
  <2> QED
    BY <1>2, <2>1, FS_Subset
<1>5. ASSUME NEW k \in Nat, twoKeys \/ k = 0 PROVE IsFiniteSet(Keys(HashOf(b, k)))
  <2>1. Keys(HashOf(b, k)) = {j \in Nat : HasKey(HashOf(b, k), j)}
    BY HashOfIs, KeysAre
  <2>2. ASSUME NEW j \in Nat, HasKey(HashOf(b, k), j) PROVE <<k, j>> \in KeySet
    BY <1>5, <2>2 DEF Typed, Pairs, HasEntry
  <2>3. ASSUME NEW j \in Keys(HashOf(b, k)) PROVE j \in seconds
    <3>1. <<k, j>> \in KeySet /\ <<k, j>>[2] = j
      BY <2>1, <2>2, <2>3
    <3> QED
      BY <3>1
  <2>4. Keys(HashOf(b, k)) \in SUBSET seconds
    BY <2>3
  <2> QED
    BY <1>3, <2>4, FS_Subset
<1> QED
  BY <1>4, <1>5

\* The loops of the destructor reach every entry, and none twice.
LEMMA ReachedIs ==
    ASSUME NEW b, Typed(b), NEW reached, reached = Reached(b)
    PROVE  /\ \A i \in DOMAIN reached : \A j \in DOMAIN reached[i] :
                 reached[i][j] \in Pairs /\ HasEntry(b, reached[i][j])
           /\ \A key \in Pairs : HasEntry(b, key) =>
                 \E i \in DOMAIN reached : \E j \in DOMAIN reached[i] : reached[i][j] = key
           /\ \A i, k \in DOMAIN reached : \A j \in DOMAIN reached[i], l \in DOMAIN reached[k] :
                 reached[i][j] = reached[k][l] => i = k /\ j = l
<1>1. PICK keys : keys = IF twoKeys THEN Visits(b) ELSE <<0>>
  OBVIOUS
<1>2. /\ DOMAIN reached = DOMAIN keys
      /\ \A i \in DOMAIN keys : reached[i] = ReachedFrom(b, keys[i])
  BY <1>1 DEF Reached
<1>3. /\ \A i \in DOMAIN keys : keys[i] \in Nat /\ (twoKeys \/ keys[i] = 0)
      /\ \A i, k \in DOMAIN keys : keys[i] = keys[k] => i = k
      /\ IF twoKeys THEN {keys[i] : i \in DOMAIN keys} = Keys(b)
         ELSE \E i \in DOMAIN keys : keys[i] = 0
  <2>1. CASE twoKeys
    <3>1. IsHash(b) /\ IsFiniteSet(Keys(b)) /\ keys = Visits(b)
      BY <1>1, <2>1, KeysAreFinite DEF Typed
    <3>2. Keys(b) \subseteq Nat
      BY <3>1, KeysAre
    <3>3. /\ {keys[i] : i \in DOMAIN keys} = Keys(b)
          /\ \A i, k \in DOMAIN keys : keys[i] = keys[k] => i = k
      BY <3>1, VisitsAre
    <3> QED
      BY <2>1, <3>2, <3>3
  <2>2. CASE ~twoKeys
    BY <1>1, <2>2
  <2> QED
    BY <2>1, <2>2
<1>4. ASSUME NEW k \in Nat, twoKeys \/ k = 0
      PROVE  LET from == ReachedFrom(b, k)
             IN  /\ \A j \in DOMAIN from : /\ from[j] \in Pairs /\ from[j][1] = k
                                           /\ HasEntry(b, from[j])
                 /\ \A j, l \in DOMAIN from : from[j] = from[l] => j = l
                 /\ \A m \in Nat : HasEntry(b, <<k, m>>) =>
                       \E j \in DOMAIN from : from[j] = <<k, m>>
  <2>1. PICK visits : visits = Visits(HashOf(b, k))
    OBVIOUS
  <2>2. IsHash(HashOf(b, k)) /\ IsFiniteSet(Keys(HashOf(b, k)))
    BY <1>4, HashOfIs, KeysAreFinite
  <2>3. /\ {visits[j] : j \in DOMAIN visits} = Keys(HashOf(b, k))
        /\ \A j, l \in DOMAIN visits : visits[j] = visits[l] => j = l
    BY <2>1, <2>2, VisitsAre
  <2>4. Keys(HashOf(b, k)) = {j \in Nat : HasKey(HashOf(b, k), j)}
    BY <2>2, KeysAre
  <2>5. PICK from : from = ReachedFrom(b, k)
    OBVIOUS
  <2>6. DOMAIN from = DOMAIN visits /\ \A j \in DOMAIN visits : from[j] = <<k, visits[j]>>
    BY <2>1, <2>5 DEF ReachedFrom
  <2>7. \A j \in DOMAIN visits : visits[j] \in Nat /\ HasKey(HashOf(b, k), visits[j])
    BY <2>3, <2>4
  <2>8. \A j \in DOMAIN from : /\ from[j] \in Pairs /\ from[j][1] = k
                               /\ HasEntry(b, from[j])
    BY <1>4, <2>6, <2>7 DEF Pairs, HasEntry
  <2>9. \A j, l \in DOMAIN from : from[j] = from[l] => j = l
    BY <2>3, <2>6
  <2>10. ASSUME NEW m \in Nat, HasEntry(b, <<k, m>>)
         PROVE  \E j \in DOMAIN from : from[j] = <<k, m>>
    <3>1. m \in Keys(HashOf(b, k))
      BY <2>4, <2>10 DEF HasEntry
    <3>2. PICK j \in DOMAIN visits : visits[j] = m
      BY <2>3, <3>1
    <3> QED
      BY <2>6, <3>2
  <2> QED
    BY <2>5, <2>8, <2>9, <2>10
<1>5. ASSUME NEW i \in DOMAIN reached, NEW j \in DOMAIN reached[i]
      PROVE  /\ reached[i][j] \in Pairs /\ HasEntry(b, reached[i][j])
             /\ reached[i][j][1] = keys[i]
  BY <1>2, <1>3, <1>4
<1>6. ASSUME NEW key \in Pairs, HasEntry(b, key)
      PROVE  \E i \in DOMAIN reached : \E j \in DOMAIN reached[i] : reached[i][j] = key
  <2>1. key[1] \in Nat /\ key[2] \in Nat /\ key = <<key[1], key[2]>>
    BY KeysArePairs
  <2>2. PICK i \in DOMAIN keys : keys[i] = key[1]
    <3>1. CASE twoKeys
      <4>1. HasKey(b, key[1])
        BY <1>6, <2>1, <3>1, NewHashIs DEF HasEntry, HashOf
      <4>2. key[1] \in Keys(b)
        BY <2>1, <4>1, KeysAre DEF Typed
      <4> QED
        BY <1>3, <3>1, <4>2
    <3>2. CASE ~twoKeys
      BY <1>3, <3>2 DEF Pairs
    <3> QED
      BY <3>1, <3>2
  <2>3. HasEntry(b, <<keys[i], key[2]>>) /\ keys[i] \in Nat /\ (twoKeys \/ keys[i] = 0)
    BY <1>3, <1>6, <2>1, <2>2
  <2>4. \E j \in DOMAIN ReachedFrom(b, keys[i]) : ReachedFrom(b, keys[i])[j] = <<keys[i], key[2]>>
    BY <1>4, <2>1, <2>3
  <2> QED
    BY <1>2, <2>1, <2>2, <2>4
<1>7. ASSUME NEW i \in DOMAIN reached, NEW k \in DOMAIN reached,
             NEW j \in DOMAIN reached[i], NEW l \in DOMAIN reached[k],
             reached[i][j] = reached[k][l]
      PROVE  i = k /\ j = l
  <2>1. i = k
    BY <1>2, <1>3, <1>5, <1>7
  <2>2. keys[i] \in Nat /\ (twoKeys \/ keys[i] = 0) /\ reached[i] = ReachedFrom(b, keys[i])
    BY <1>2, <1>3
  <2> QED
    BY <1>4, <1>7, <2>1, <2>2
<1> QED
  BY <1>5, <1>6, <1>7

\* What MapsAreFreed says of a bank of maps in their places.
LEMMA FreedWhenTyped ==
    ASSUME Typed(bank)
    PROVE  MapsAreFreed
<1>1. PICK reached : reached = Reached(bank)
  OBVIOUS
<1> DEFINE freeing == {turn \in UNION {{i} \X DOMAIN reached[i] : i \in DOMAIN reached} :
                           GetByPq(bank, reached[turn[1]][turn[2]]) # NULL}
<1>2. /\ \A i \in DOMAIN reached : \A j \in DOMAIN reached[i] :
            reached[i][j] \in Pairs /\ HasEntry(bank, reached[i][j])
      /\ \A key \in Pairs : HasEntry(bank, key) =>
            \E i \in DOMAIN reached : \E j \in DOMAIN reached[i] : reached[i][j] = key
      /\ \A i, k \in DOMAIN reached : \A j \in DOMAIN reached[i], l \in DOMAIN reached[k] :
            reached[i][j] = reached[k][l] => i = k /\ j = l
  BY <1>1, ReachedIs
<1>3. \A t \in freeing : /\ t[1] \in DOMAIN reached /\ t[2] \in DOMAIN reached[t[1]]
                         /\ t = <<t[1], t[2]>>
                         /\ GetByPq(bank, reached[t[1]][t[2]]) # NULL
  OBVIOUS
<1>4. \A i \in DOMAIN reached : \A j \in DOMAIN reached[i] :
          GetByPq(bank, reached[i][j]) # NULL =>
              <<i, j>> \in freeing /\ <<i, j>>[1] = i /\ <<i, j>>[2] = j
  OBVIOUS
<1> HIDE DEF freeing
<1>5. \A s, t \in freeing : reached[s[1]][s[2]] = reached[t[1]][t[2]] => s = t
  BY <1>2, <1>3
<1>6. ASSUME NEW t \in freeing
      PROVE  reached[t[1]][t[2]] \in {key \in KeySets : GetByPq(bank, key) # NULL}
  <2>1. PICK key : key = reached[t[1]][t[2]]
    OBVIOUS
  <2>2. key \in Pairs /\ HasEntry(bank, key) /\ GetByPq(bank, key) # NULL
    BY <1>2, <1>3, <2>1
  <2>3. key \in KeySets
    BY <2>2, KeysArePairs DEF Typed
  <2> QED
    BY <2>1, <2>2, <2>3
<1>7. ASSUME NEW key \in KeySets, GetByPq(bank, key) # NULL
      PROVE  \E t \in freeing : reached[t[1]][t[2]] = key
  <2>1. key \in Pairs /\ HasEntry(bank, key)
    BY <1>7, GetIs, KeysArePairs
  <2>2. PICK i \in DOMAIN reached : \E j \in DOMAIN reached[i] : reached[i][j] = key
    BY <1>2, <2>1
  <2>3. PICK j \in DOMAIN reached[i] : reached[i][j] = key
    BY <2>2
  <2>4. <<i, j>> \in freeing /\ <<i, j>>[1] = i /\ <<i, j>>[2] = j
    BY <1>4, <1>7, <2>3
  <2> QED
    BY <2>3, <2>4
<1>8. {reached[t[1]][t[2]] : t \in freeing} = {key \in KeySets : GetByPq(bank, key) # NULL}
  BY <1>6, <1>7
<1> QED
  BY <1>1, <1>5, <1>8 DEF MapsAreFreed, freeing

-----------------------------------------------------------------------------
(* What a bank of maps holds *)

\* The requests that have a client in a map, and the key sets without a map.
MappedBy(b) == {e \in Node : e[1] \in KeySets /\ HasClient(b, e[1], e[2])}
StaleBy(b) == {key \in KeySets : IsStale(b, key)}

\* What a map holds for a client is the address of the request's node.
Pointing(b) ==
    \A key \in KeySets : \A c : HasClient(b, key, c) =>
        <<key, c>> \in Node /\ GetByPq(b, key)[c] = <<key, c>>

\* No map is empty.
Populated(b) ==
    \A key \in KeySets : GetByPq(b, key) # NULL => DOMAIN GetByPq(b, key) # {}

TablesHold(b) == Typed(b) /\ Pointing(b) /\ Populated(b)

\* Nodes are pairs of a key set and a client.
LEMMA NodesArePairs ==
    /\ \A e \in Node : e[1] \in KeySet /\ e[2] \in Client /\ e = <<e[1], e[2]>>
    /\ \A key, c : <<key, c>> \in Node => key \in KeySet /\ c \in Client
    /\ \A key, c : <<key, c>>[1] = key /\ <<key, c>>[2] = c
BY TablesAssumption

\* What is the same for the other key sets.
LEMMA OthersSame ==
    ASSUME NEW b, NEW after, NEW key \in KeySets, OthersKept(b, after, key),
           NEW other \in KeySets, other # key
    PROVE  /\ GetByPq(after, other) = GetByPq(b, other)
           /\ IsStale(after, other) <=> IsStale(b, other)
           /\ \A d : HasClient(after, other, d) <=> HasClient(b, other, d)
<1>1. other \in Pairs \ {key}
  BY KeysArePairs
<1>2. /\ GetByPq(after, other) = GetByPq(b, other)
      /\ HasEntry(after, other) <=> HasEntry(b, other)
  BY <1>1 DEF OthersKept
<1> QED
  BY <1>2, GetIs DEF HasClient

\* Only a key set whose own map is in order may be written.
LEMMA HoldsWhenKept ==
    ASSUME NEW b, TablesHold(b), NEW after, Typed(after), NEW key \in KeySets,
           OthersKept(b, after, key),
           \A c : HasClient(after, key, c) =>
               <<key, c>> \in Node /\ GetByPq(after, key)[c] = <<key, c>>,
           GetByPq(after, key) # NULL => DOMAIN GetByPq(after, key) # {}
    PROVE  TablesHold(after)
<1>1. ASSUME NEW other \in KeySets, other # key
      PROVE  /\ GetByPq(after, other) = GetByPq(b, other)
             /\ \A d : HasClient(after, other, d) <=> HasClient(b, other, d)
  BY <1>1, OthersSame
<1>2. Pointing(after)
  BY <1>1 DEF TablesHold, Pointing
<1>3. Populated(after)
  BY <1>1 DEF TablesHold, Populated
<1> QED
  BY <1>2, <1>3 DEF TablesHold

\* The requests with a client, when one map has changed.
LEMMA MappedWhenKept ==
    ASSUME NEW b, NEW after, NEW key \in KeySets, OthersKept(b, after, key)
    PROVE  /\ \A e \in Node : e[1] # key => (e \in MappedBy(after) <=> e \in MappedBy(b))
           /\ \A other \in KeySets : other # key =>
                 (other \in StaleBy(after) <=> other \in StaleBy(b))
<1>1. ASSUME NEW other \in KeySets, other # key
      PROVE  /\ IsStale(after, other) <=> IsStale(b, other)
             /\ \A d : HasClient(after, other, d) <=> HasClient(b, other, d)
  BY <1>1, OthersSame
<1> QED
  BY <1>1 DEF MappedBy, StaleBy

\* add_by_fq makes a request one with a client.
LEMMA AddedIs ==
    ASSUME NEW b, TablesHold(b), NEW key \in KeySets, ~IsStale(b, key), NEW c,
           <<key, c>> \in Node, NEW after, after = AddByFq(b, key, c, <<key, c>>)
    PROVE  /\ TablesHold(after) /\ MappedBy(after) = MappedBy(b) \cup {<<key, c>>}
           /\ StaleBy(after) = StaleBy(b)
<1>1. c \in Client
  BY NodesArePairs
<1>2. /\ Typed(after) /\ OthersKept(b, after, key) /\ HasEntry(after, key)
      /\ GetByPq(after, key) \in SubMaps
      /\ \A d : HasClient(after, key, d) <=> d = c \/ HasClient(b, key, d)
      /\ GetByPq(after, key)[c] = <<key, c>>
      /\ \A d : d # c /\ HasClient(b, key, d) =>
            GetByPq(after, key)[d] = GetByPq(b, key)[d]
  BY <1>1, AddByFqIs DEF TablesHold
<1>3. \A d : HasClient(after, key, d) =>
          <<key, d>> \in Node /\ GetByPq(after, key)[d] = <<key, d>>
  BY <1>2 DEF TablesHold, Pointing
<1>4. HasClient(after, key, c)
  BY <1>2
<1>5. DOMAIN GetByPq(after, key) # {} /\ ~IsStale(after, key)
  BY <1>4, GetIs DEF HasClient
<1>6. TablesHold(after)
  BY <1>2, <1>3, <1>5, HoldsWhenKept
<1>7. ASSUME NEW e \in Node PROVE e \in MappedBy(after) <=> e \in MappedBy(b) \/ e = <<key, c>>
  <2>1. CASE e[1] = key
    <3>1. e[2] = c <=> e = <<key, c>>
      BY <2>1, NodesArePairs
    <3> QED
      BY <1>2, <2>1, <3>1 DEF MappedBy
  <2>2. CASE e[1] # key
    BY <1>2, <2>2, NodesArePairs, MappedWhenKept
  <2> QED
    BY <2>1, <2>2
<1>8. MappedBy(after) = MappedBy(b) \cup {<<key, c>>}
  BY <1>7 DEF MappedBy
<1>9. StaleBy(after) = StaleBy(b)
  <2>1. \A other \in KeySets : other \in StaleBy(after) <=> other \in StaleBy(b)
    BY <1>2, <1>5, MappedWhenKept DEF StaleBy
  <2> QED
    BY <2>1 DEF StaleBy
<1> QED
  BY <1>6, <1>8, <1>9

\* remove_by_fq takes one away.
LEMMA RemovedIs ==
    ASSUME NEW b, TablesHold(b), NEW key \in KeySets, NEW c, HasClient(b, key, c), NEW after,
           after = RemoveByFq(b, key, c)
    PROVE  /\ TablesHold(after) /\ MappedBy(after) = MappedBy(b) \ {<<key, c>>}
           /\ StaleBy(after) = StaleBy(b)
<1>1. /\ Typed(after) /\ OthersKept(b, after, key)
      /\ \A d : HasClient(after, key, d) <=> d # c /\ HasClient(b, key, d)
      /\ \A d : HasClient(after, key, d) => GetByPq(after, key)[d] = GetByPq(b, key)[d]
      /\ HasEntry(after, key) => GetByPq(after, key) # NULL
      /\ GetByPq(after, key) # NULL => DOMAIN GetByPq(after, key) # {}
  BY RemoveByFqIs DEF TablesHold
<1>2. \A d : HasClient(after, key, d) =>
          <<key, d>> \in Node /\ GetByPq(after, key)[d] = <<key, d>>
  BY <1>1 DEF TablesHold, Pointing
<1>3. TablesHold(after)
  BY <1>1, <1>2, HoldsWhenKept
<1>4. ~IsStale(after, key) /\ ~IsStale(b, key)
  BY <1>1, GetIs DEF HasClient
<1>5. ASSUME NEW e \in Node
      PROVE  e \in MappedBy(after) <=> e \in MappedBy(b) /\ e # <<key, c>>
  <2>1. CASE e[1] = key
    <3>1. e[2] = c <=> e = <<key, c>>
      BY <2>1, NodesArePairs
    <3> QED
      BY <1>1, <2>1, <3>1 DEF MappedBy
  <2>2. CASE e[1] # key
    BY <1>1, <2>2, NodesArePairs, MappedWhenKept
  <2> QED
    BY <2>1, <2>2
<1>6. MappedBy(after) = MappedBy(b) \ {<<key, c>>}
  BY <1>5 DEF MappedBy
<1>7. StaleBy(after) = StaleBy(b)
  <2>1. \A other \in KeySets : other \in StaleBy(after) <=> other \in StaleBy(b)
    BY <1>1, <1>4, MappedWhenKept DEF StaleBy
  <2> QED
    BY <2>1 DEF StaleBy
<1> QED
  BY <1>3, <1>6, <1>7

\* remove_by_pq takes away those of a key set, which has no map then.
LEMMA KeyRemovedIs ==
    ASSUME NEW b, TablesHold(b), NEW key \in KeySets, GetByPq(b, key) # NULL, NEW after,
           after = RemoveByPq(b, key)
    PROVE  /\ TablesHold(after) /\ MappedBy(after) = {e \in MappedBy(b) : e[1] # key}
           /\ StaleBy(after) = IF twoKeys THEN StaleBy(b) \cup {key} ELSE StaleBy(b)
<1>1. /\ Typed(after) /\ OthersKept(b, after, key)
      /\ GetByPq(after, key) = NULL /\ (HasEntry(after, key) <=> twoKeys)
  BY RemoveByPqIs DEF TablesHold
<1>2. \A d : ~HasClient(after, key, d)
  BY <1>1 DEF HasClient
<1>3. TablesHold(after)
  BY <1>1, <1>2, HoldsWhenKept
<1>4. (IsStale(after, key) <=> twoKeys) /\ ~IsStale(b, key)
  BY <1>1, GetIs
<1>5. ASSUME NEW e \in Node PROVE e \in MappedBy(after) <=> e \in MappedBy(b) /\ e[1] # key
  <2>1. CASE e[1] = key
    BY <1>2, <2>1 DEF MappedBy
  <2>2. CASE e[1] # key
    BY <1>1, <2>2, MappedWhenKept
  <2> QED
    BY <2>1, <2>2
<1>6. MappedBy(after) = {e \in MappedBy(b) : e[1] # key}
  BY <1>5 DEF MappedBy
<1>7. StaleBy(after) = IF twoKeys THEN StaleBy(b) \cup {key} ELSE StaleBy(b)
  <2>1. \A other \in KeySets :
            other \in StaleBy(after) <=> other \in StaleBy(b) \/ (twoKeys /\ other = key)
    BY <1>1, <1>4, MappedWhenKept DEF StaleBy
  <2> QED
    BY <2>1 DEF StaleBy
<1> QED
  BY <1>3, <1>6, <1>7

\* An empty bank holds nothing.
LEMMA EmptyHolds ==
    ASSUME NEW b, b = Sized(NearestPrime(Size1))
    PROVE  TablesHold(b) /\ MappedBy(b) = {} /\ StaleBy(b) = {}
<1>1. Typed(b) /\ \A key \in KeySets : ~HasEntry(b, key)
  BY EmptyTyped, KeysArePairs
<1>2. \A key \in KeySets : GetByPq(b, key) = NULL /\ ~IsStale(b, key) /\ \A d : ~HasClient(b, key, d)
  BY <1>1, GetIs DEF HasClient
<1>3. Pointing(b) /\ Populated(b)
  BY <1>2 DEF Pointing, Populated
<1> QED
  BY <1>1, <1>2, <1>3 DEF TablesHold, MappedBy, StaleBy

\* The class of a bank stays, and so does what is said of a bank.
LEMMA SameNext ==
    ASSUME twoKeys' = twoKeys
    PROVE  /\ TablesHold(bank)' <=> TablesHold(bank')
           /\ MappedBy(bank)' = MappedBy(bank') /\ StaleBy(bank)' = StaleBy(bank')
           /\ KeySets' = KeySets
<1>1. KeySets' = KeySets /\ Pairs' = Pairs /\ Maps' = Maps
  BY DEF KeySets, Pairs, Maps
<1>2. ASSUME NEW k PROVE HashOf(bank, k)' = HashOf(bank', k)
  BY DEF HashOf
<1>3. ASSUME NEW key
      PROVE  /\ GetByPq(bank, key)' = GetByPq(bank', key)
             /\ HasEntry(bank, key)' <=> HasEntry(bank', key)
             /\ IsStale(bank, key)' <=> IsStale(bank', key)
  BY <1>2 DEF GetByPq, HasEntry, IsStale
<1>4. ASSUME NEW key, NEW c PROVE HasClient(bank, key, c)' <=> HasClient(bank', key, c)
  BY <1>3 DEF HasClient
<1>5. Typed(bank)' <=> Typed(bank')
  BY <1>1, <1>3 DEF Typed
<1>6. Pointing(bank)' <=> Pointing(bank')
  BY <1>1, <1>3, <1>4 DEF Pointing
<1>7. Populated(bank)' <=> Populated(bank')
  BY <1>1, <1>3 DEF Populated
<1>8. MappedBy(bank)' = MappedBy(bank')
  BY <1>1, <1>4 DEF MappedBy
<1>9. StaleBy(bank)' = StaleBy(bank')
  BY <1>1, <1>3 DEF StaleBy
<1> QED
  BY <1>1, <1>5, <1>6, <1>7, <1>8, <1>9 DEF TablesHold

-----------------------------------------------------------------------------
(* remove_by_key *)

RootLoopTurn(h, found, i) == Spread(h, found)

RootIsFound(h, i, found) == h.root \in found

RootLoop == INSTANCE FoldInduction WITH turn <- RootLoopTurn, keeps <- RootIsFound

\* A heap that reaches nodes has a root, which is one of them.
LEMMA RootOfLinked ==
    ASSUME NEW h \in HeapType, NEW N, Linked(h, N)
    PROVE  /\ h.root # NULL => h.root \in N
           /\ N # {} => h.root \in Node
<1>1. Reachable(h) = N
  BY DEF Linked
<1>2. N # {} => h.root # NULL
  BY <1>1, Zenon DEF Reachable
<1>3. ASSUME h.root # NULL PROVE h.root \in N
  <2>1. PICK base : base = {h.root}
    OBVIOUS
  <2>2. PICK end : end = RootLoop!Loop(h, base, Turns)
    OBVIOUS
  <2>3. Reachable(h) = end
    BY <1>3, <2>1, <2>2, SMT DEF Reachable, RootLoop!Loop, RootLoopTurn, FoldLeft,
               MapThenFoldSet, Max, RootLoop!MapThenFoldSet, RootLoop!Greatest
  <2>4. RootIsFound(h, 0, base)
    BY <2>1 DEF RootIsFound
  <2>5. ASSUME NEW i \in 1..HeapSize, NEW a, RootIsFound(h, i - 1, a)
        PROVE  RootIsFound(h, i, RootLoopTurn(h, a, Turns[i]))
    BY <2>5 DEF RootIsFound, RootLoopTurn, Spread
  <2>6. RootIsFound(h, HeapSize, end)
    BY <2>2, <2>4, <2>5, Wraps, TurnsAre, RootLoop!LoopKeeps
  <2> QED
    BY <1>1, <2>3, <2>6 DEF RootIsFound
<1> QED
  BY <1>2, <1>3, Pointers DEF HeapType

RootCutTurn(c, a, i) == CutTurn(a)

\* Before the first cut nothing is changed; after it the node that was lowered is the root.
RootCut(c, i, a) ==
    /\ CutTyped(c.h, i, a)
    /\ \/ a.h = c.h /\ a.node = c.node /\ ~a.done
       \/ a.h.root = c.node

RootCuts == INSTANCE FoldInduction WITH turn <- RootCutTurn, keeps <- RootCut

\* Only the lowered node, of key 0, comes before the root.
LEMMA RootCutKept ==
    ASSUME NEW c, c.h.key[c.node] = 0, c.h.root # c.node => 0 < c.h.key[c.h.root],
           NEW i, NEW j, NEW a, RootCut(c, i, a)
    PROVE  RootCut(c, j, CutTurn(a))
<1>1. CutTyped(c.h, j, CutTurn(a))
  BY CutTurnTyped DEF RootCut
<1>2. CASE a.done \/ NoChild(a.h, a.h.parent[a.node], a.node)
  BY <1>1, <1>2 DEF RootCut, CutTurn
<1>3. CASE ~a.done /\ ~NoChild(a.h, a.h.parent[a.node], a.node)
  <2>1. PICK parent : parent = a.h.parent[a.node]
    OBVIOUS
  <2>2. PICK removed : removed = RemoveChild(a.h, parent, a.node)
    OBVIOUS
  <2>3. PICK cut : cut = InsertNode(removed, a.node)
    OBVIOUS
  <2>4. /\ a.h \in HeapType /\ a.h.root \in Node /\ a.node \in Node /\ parent \in Node
        /\ a.h.key = c.h.key
    BY <1>3, <2>1 DEF RootCut, CutTyped
  <2>5. ChildRemoved(a.h, parent, a.node, removed)
    BY <2>2, <2>4, RemoveChildIs
  <2>6. removed \in HeapType /\ removed.root = a.h.root /\ removed.key = c.h.key
    BY <2>4, <2>5 DEF ChildRemoved, RestKept
  <2>7. NodeInserted(removed, a.node, cut)
    BY <2>3, <2>4, <2>6, InsertNodeIs
  <2>8. cut.root = IF c.h.key[a.node] < c.h.key[a.h.root] THEN a.node ELSE a.h.root
    BY <2>4, <2>6, <2>7, Pointers DEF NodeInserted
  <2>9. cut.root = c.node
    <3>1. CASE a.h = c.h /\ a.node = c.node
      BY <2>8, <3>1
    <3>2. CASE a.h.root = c.node
      <4>1. c.h.key[a.node] \in Nat
        BY <2>4, KeysAreNumbers
      <4> QED
        BY <2>8, <3>2, <4>1
    <3> QED
      BY <3>1, <3>2 DEF RootCut
  <2>10. CutTurn(a).h.root = cut.root
    <3>1. \/ CutTurn(a).h = cut
          \/ CutTurn(a).h = [cut EXCEPT !.mark[parent] = TRUE]
      BY <1>3, <2>1, <2>2, <2>3 DEF CutTurn
    <3>2. [cut EXCEPT !.mark[parent] = TRUE].root = cut.root
      BY <2>7 DEF NodeInserted, HeapType
    <3> QED
      BY <3>1, <3>2
  <2> QED
    BY <1>1, <2>9, <2>10 DEF RootCut
<1> QED
  BY <1>2, <1>3

\* decrease_key to 0 makes its node the root if no other key is 0, also with a heap that is
\* not in order, as long as its links are.
LEMMA LoweredRoot ==
    ASSUME NEW h \in HeapType, NEW N \in SUBSET Node, Linked(h, N), NEW node \in N,
           \A n \in N : 0 < h.key[n], ~DecreaseBreaks(h, node, 0)
    PROVE  DecreaseKeyH(h, node, 0).root = node
<1>1. /\ h.root \in N /\ h.root \in Node /\ h.parent[node] \in N \cup {NULL} /\ NULL \notin N
      /\ node \in Node
  BY RootOfLinked, Pointers DEF Linked
<1>2. PICK keyed : keyed = [h EXCEPT !.key[node] = 0]
  OBVIOUS
<1>3. /\ keyed \in HeapType /\ keyed.root = h.root /\ keyed.parent = h.parent
      /\ keyed.key = [h.key EXCEPT ![node] = 0] /\ h.key \in [Node -> Time]
  BY <1>1, <1>2, HeapAssumption DEF HeapType, Time
<1>4. keyed.key[node] = 0 /\ (h.root # node => 0 < keyed.key[h.root])
  BY <1>1, <1>3
<1>5. CASE h.parent[node] = NULL
  <2>1. PICK up : up = [keyed EXCEPT !.root = IF 0 < keyed.key[@] THEN node ELSE @]
    OBVIOUS
  <2>2. DecreaseKeyH(h, node, 0) = up
    BY <1>2, <1>5, <2>1 DEF DecreaseKeyH
  <2>3. up.root = IF 0 < keyed.key[h.root] THEN node ELSE h.root
    BY <1>3, <2>1 DEF HeapType
  <2> QED
    BY <1>4, <2>2, <2>3
<1>6. CASE h.parent[node] # NULL
  <2>1. h.parent[node] \in N /\ h.parent[node] \in Node /\ 0 < h.key[h.parent[node]]
    BY <1>1, <1>6
  <2>2. h.key[h.parent[node]] \in Nat
    BY <2>1, KeysAreNumbers
  <2>3. Cuts(keyed, node).done /\ DecreaseKeyH(h, node, 0) = Cuts(keyed, node).h
    BY <1>2, <1>6, <2>1, <2>2 DEF DecreaseBreaks, DecreaseKeyH
  <2>4. PICK base : base = [h |-> keyed, node |-> node, done |-> FALSE]
    OBVIOUS
  <2>5. PICK c : c = [h |-> keyed, node |-> node]
    OBVIOUS
  <2>6. PICK end : end = RootCuts!Loop(c, base, Turns)
    OBVIOUS
  <2>7. Cuts(keyed, node) = end
    BY <2>4, <2>6, SMT DEF Cuts, RootCuts!Loop, RootCutTurn, FoldLeft, MapThenFoldSet, Max,
               RootCuts!MapThenFoldSet, RootCuts!Greatest
  <2>8. c.h = keyed /\ c.node = node
    BY <2>5
  <2>9. RootCut(c, 0, base)
    BY <1>1, <1>3, <2>1, <2>4, <2>8 DEF RootCut, CutTyped
  <2>10. ASSUME NEW i \in 1..HeapSize, NEW a, RootCut(c, i - 1, a)
         PROVE  RootCut(c, i, RootCutTurn(c, a, Turns[i]))
    BY <1>3, <1>4, <2>8, <2>10, RootCutKept DEF RootCutTurn
  <2>11. RootCut(c, HeapSize, end)
    BY <2>6, <2>9, <2>10, Wraps, TurnsAre, RootCuts!LoopKeeps
  <2> QED
    BY <2>3, <2>7, <2>8, <2>11 DEF RootCut
<1> QED
  BY <1>5, <1>6

\* remove keeps the types, writes no key but that of the node, and throws, before it has
\* changed anything, exactly when the key of the root is 0.
LEMMA RemoveTyped ==
    ASSUME NEW h \in HeapType, h.root \in Node, NEW node \in Node,
           NEW r, r = RemoveH(h, node), NEW gone, gone = DecreaseKeyH(h, node, 0).root
    PROVE  /\ r.h \in HeapType /\ r.status \in Ends /\ gone \in Node
           /\ r.status = "ok" => ~DecreaseBreaks(h, node, 0)
           /\ \/ r.status = "threw" /\ r.h = h /\ ~(0 < h.key[h.root])
              \/ /\ r.status # "threw" /\ 0 < h.key[h.root]
                 /\ r.h.key = [h.key EXCEPT ![node] = 0]
<1>1. 0 \in Time /\ h.key[h.root] \in Int
  BY HeapAssumption DEF Time, HeapType
<1>2. gone \in Node
  BY <1>1, DecreaseTyped
<1>3. PICK q : q = TakeOutH(h, node)
  OBVIOUS
<1>4. /\ q.h \in HeapType /\ q.h.key = [h.key EXCEPT ![node] = 0]
      /\ q.status \in Ends /\ q.status # "threw"
  BY <1>3, TakeOutTyped
<1>5. q.status = "ok" => ~DecreaseBreaks(h, node, 0)
  BY <1>3 DEF TakeOutH
<1>6. CASE 0 >= h.key[h.root]
  BY <1>1, <1>2, <1>6 DEF RemoveH, Ends
<1>7. CASE 0 < h.key[h.root]
  <2>1. r = q
    BY <1>1, <1>3, <1>7 DEF RemoveH
  <2> QED
    BY <1>2, <1>4, <1>5, <1>7, <2>1
<1> QED
  BY <1>1, <1>6, <1>7

\* A heap in order is linked.
LEMMA GoodIsLinked ==
    ASSUME NEW h, NEW N, Good(h, N)
    PROVE  Linked(h, N)
BY TreesAreLinked DEF Good, Shaped

Counters == 0..(CounterRange - 1)

\* The counters wrap.
LEMMA UnsignedIs ==
    /\ \A x \in Int : Unsigned(x) \in Counters
    /\ \A x \in Counters : x + 1 \in Int /\ x - 1 \in Int
    /\ 0 \in Counters
BY TablesAssumption DEF Unsigned, Counters

Removing == [heap : HeapType, live : SUBSET Node, out : [Client -> Counters],
             served : SUBSET Client, status : Ends \cup {"dangling"}]

\* The first i subscribers, and their nodes.
FirstOf(c, i) == {c.s[j] : j \in 1..i}
NodesOf(c, i) == {<<c.key, d>> : d \in FirstOf(c, i)}

\* The loop of a removal: s are the subscribers of map, from is what there is before.
IsRemoval(c) ==
    /\ c.n \in Nat /\ c.s \in [1..c.n -> Client]
    /\ \A i, j \in 1..c.n : c.s[i] = c.s[j] => i = j
    /\ \A i \in 1..c.n : <<c.key, c.s[i]>> \in Node /\ c.map[c.s[i]] = <<c.key, c.s[i]>>
    /\ c.from \in Removing /\ c.from.status = "ok"

SomeZero(c) == \E n \in c.from.live : c.from.heap.key[n] = 0

\* What every turn keeps.
RemovalTyped(c, i, a) == a \in Removing /\ a.live \in SUBSET c.from.live

\* The first turn throws: the counter of the first subscriber is written.
FirstThrew(c, a) ==
    /\ a.status = "threw" /\ a.heap = c.from.heap /\ a.live = c.from.live
    /\ a.out = [c.from.out EXCEPT ![c.s[1]] = Unsigned(-1)]
    /\ a.served = c.from.served \cup {c.s[1]}

\* The first i subscribers' counters are written, and their nodes gone.
FirstRemoved(c, i, a) ==
    /\ a.status = "ok" /\ Good(a.heap, a.live)
    /\ a.live = c.from.live \ NodesOf(c, i)
    /\ \A n \in a.live : a.heap.key[n] = c.from.heap.key[n]
    /\ a.served = c.from.served \cup FirstOf(c, i)
    /\ \A d \in Client : a.out[d] = IF d \in FirstOf(c, i) THEN Unsigned(-1)
                                    ELSE c.from.out[d]

\* What the turns do with a heap that is in order, all of whose nodes have clients.
RemovalSound(c, i, a) ==
    IF SomeZero(c) THEN IF i = 0 THEN a = c.from ELSE FirstThrew(c, a)
    ELSE a.status = "undefined" \/ FirstRemoved(c, i, a)

\* The nodes of the subscribers are nodes of the heap.
StartsSound(c) ==
    /\ Good(c.from.heap, c.from.live)
    /\ \A i \in 1..c.n : <<c.key, c.s[i]>> \in c.from.live

\* Also with a heap that is not in order: the nodes of the subscribers are nodes of the heap,
\* and its root has the least key.
StartsLeast(c) ==
    /\ \A n \in c.from.live : c.from.heap.key[c.from.heap.root] <= c.from.heap.key[n]
    /\ \A i \in 1..c.n : <<c.key, c.s[i]>> \in c.from.live

\* What the turns do then: none meets a pointer to a node that is gone, and the first throws
\* or none does.
RemovalLeast(c, i, a) ==
    /\ a.status # "dangling"
    /\ a.status = "ok" => a.live = c.from.live \ NodesOf(c, i)
    /\ a.status = "threw" => a.live = c.from.live
    /\ a.status = "ok" => a = c.from \/ \A n \in a.live : 0 < a.heap.key[n]

RemovalKeeps(c, i, a) ==
    /\ RemovalTyped(c, i, a)
    /\ StartsSound(c) => RemovalSound(c, i, a)
    /\ StartsLeast(c) => RemovalLeast(c, i, a)

RemovalLoopTurn(c, a, x) == RemovalTurn(c.map, a, x)

Removals == INSTANCE FoldInduction WITH turn <- RemovalLoopTurn, keeps <- RemovalKeeps

\* The subscribers of a turn: those before, and one more.
LEMMA FirstIs ==
    ASSUME NEW c, IsRemoval(c), NEW i \in 1..c.n
    PROVE  /\ FirstOf(c, i) = FirstOf(c, i - 1) \cup {c.s[i]}
           /\ c.s[i] \notin FirstOf(c, i - 1)
           /\ NodesOf(c, i) = NodesOf(c, i - 1) \cup {<<c.key, c.s[i]>>}
           /\ <<c.key, c.s[i]>> \notin NodesOf(c, i - 1)
<1>1. PICK s : s = c.s
  OBVIOUS
<1>2. c.n \in Nat /\ i \in Nat /\ i - 1 \in Nat
  BY DEF IsRemoval
<1>3. \A j, k \in 1..c.n : s[j] = s[k] => j = k
  BY <1>1 DEF IsRemoval
<1>4. \A j : j \in 1..i <=> j \in 1..(i - 1) \/ j = i
  BY <1>2
<1>5. \A j \in 1..(i - 1) : j \in 1..c.n /\ j # i
  BY <1>2
<1>6. FirstOf(c, i) = FirstOf(c, i - 1) \cup {s[i]}
  BY <1>1, <1>4 DEF FirstOf
<1>7. s[i] \notin FirstOf(c, i - 1)
  BY <1>1, <1>3, <1>5 DEF FirstOf
<1>8. NodesOf(c, i) = NodesOf(c, i - 1) \cup {<<c.key, s[i]>>}
  BY <1>6 DEF NodesOf
<1>9. <<c.key, s[i]>> \notin NodesOf(c, i - 1)
  BY <1>7, NodesArePairs DEF NodesOf
<1> QED
  BY <1>1, <1>6, <1>7, <1>8, <1>9

\* The branches of a turn for x, whose node is taken out as r says; gone is deleted.
RemovalTurned(a, x, node, r, gone, after) ==
    \/ a.status # "ok" /\ after = a
    \/ a.status = "ok" /\ node \notin a.live /\ after = [a EXCEPT !.status = "dangling"]
    \/ /\ a.status = "ok" /\ node \in a.live /\ ~Linked(a.heap, a.live)
       /\ after = [a EXCEPT !.status = "broken"]
    \/ /\ a.status = "ok" /\ node \in a.live /\ Linked(a.heap, a.live)
       /\ after = [heap |-> IF r.status = "ok" THEN Delete(r.h, gone) ELSE r.h,
                   live |-> IF r.status = "ok" THEN a.live \ {gone} ELSE a.live,
                   out |-> [a.out EXCEPT ![x] = Unsigned(-1)],
                   served |-> a.served \cup {x},
                   status |-> r.status]

\* What a turn of remove_by_key can find, and what it makes of it.
LEMMA RemovalCases ==
    ASSUME NEW map, NEW a, NEW x, NEW after, after = RemovalTurn(map, a, x),
           NEW node, map[x] = node, NEW r, r = RemoveH(a.heap, node),
           NEW gone, gone = DecreaseKeyH(a.heap, node, 0).root
    PROVE  RemovalTurned(a, x, node, r, gone, after)
BY DEF RemovalTurn, RemovalTurned

\* A turn keeps the types, also with links that are not in order.
LEMMA RemovalTurnTyped ==
    ASSUME NEW c, IsRemoval(c), NEW i \in 1..c.n, NEW a, RemovalTyped(c, i - 1, a),
           NEW after, after = RemovalTurn(c.map, a, c.s[i])
    PROVE  RemovalTyped(c, i, after)
<1>1. PICK x : x = c.s[i]
  OBVIOUS
<1>2. PICK node : node = <<c.key, x>>
  OBVIOUS
<1>3. x \in Client /\ node \in Node /\ c.map[x] = node
  BY <1>1, <1>2 DEF IsRemoval
<1>4a. PICK r : r = RemoveH(a.heap, node)
  OBVIOUS
<1>4. PICK gone : gone = DecreaseKeyH(a.heap, node, 0).root
  OBVIOUS
<1>5. a \in Removing /\ a.live \in SUBSET c.from.live
  BY DEF RemovalTyped
<1>6. /\ a.heap \in HeapType /\ a.live \in SUBSET Node /\ a.out \in [Client -> Counters]
      /\ a.served \in SUBSET Client
  BY <1>5 DEF Removing
<1>7. CASE a.status # "ok" /\ after = a
  BY <1>5, <1>7 DEF RemovalTyped
<1>8. ASSUME NEW end \in {"dangling", "broken"}, after = [a EXCEPT !.status = end]
      PROVE  RemovalTyped(c, i, after)
  <2>1. end \in Ends \cup {"dangling"} /\ end # "ok"
    BY <1>8 DEF Ends
  <2>2. after \in Removing /\ after.live = a.live /\ after.status = end
    BY <1>5, <1>8, <2>1 DEF Removing
  <2> QED
    BY <1>5, <2>1, <2>2 DEF RemovalTyped
<1>9. CASE /\ a.status = "ok" /\ node \in a.live /\ Linked(a.heap, a.live)
           /\ after = [heap |-> IF r.status = "ok" THEN Delete(r.h, gone) ELSE r.h,
                       live |-> IF r.status = "ok" THEN a.live \ {gone} ELSE a.live,
                       out |-> [a.out EXCEPT ![x] = Unsigned(-1)],
                       served |-> a.served \cup {x},
                       status |-> r.status]
  <2>1. a.heap.root \in Node
    BY <1>6, <1>9, RootOfLinked
  <2>2. r.h \in HeapType /\ r.status \in Ends /\ gone \in Node
    BY <1>3, <1>4a, <1>4, <1>6, <2>1, RemoveTyped
  <2>3. Delete(r.h, gone) \in HeapType
    BY <2>2, DeleteTyped
  <2>4. [a.out EXCEPT ![x] = Unsigned(-1)] \in [Client -> Counters]
    BY <1>3, <1>6, UnsignedIs
  <2>5. after.heap \in HeapType /\ after.live \in SUBSET a.live /\ after.live \in SUBSET Node
    BY <1>6, <1>9, <2>2, <2>3
  <2>6. /\ after.status = r.status /\ after.served \in SUBSET Client
        /\ after.out \in [Client -> Counters]
    BY <1>3, <1>6, <1>9, <2>4
  <2>7. after = [heap |-> after.heap, live |-> after.live, out |-> after.out,
                 served |-> after.served, status |-> after.status]
    BY <1>9
  <2>8. after \in Removing
    BY <2>2, <2>5, <2>6, <2>7 DEF Removing
  <2> QED
    BY <1>5, <2>5, <2>8 DEF RemovalTyped
<1>10. RemovalTurned(a, x, node, r, gone, after)
  <2>1. after = RemovalTurn(c.map, a, x)
    BY <1>1
  <2> QED
    BY <1>3, <1>4a, <1>4, <2>1, RemovalCases
<1> QED
  BY <1>7, <1>8, <1>9, <1>10 DEF RemovalTurned

\* With a heap in order that has the nodes of all subscribers a turn takes out one of them.
LEMMA RemovalTurnSound ==
    ASSUME NEW c, IsRemoval(c), StartsSound(c), NEW i \in 1..c.n, NEW a,
           RemovalTyped(c, i - 1, a), RemovalSound(c, i - 1, a),
           NEW after, after = RemovalTurn(c.map, a, c.s[i])
    PROVE  RemovalSound(c, i, after)
<1>1. PICK x : x = c.s[i]
  OBVIOUS
<1>2. PICK node : node = <<c.key, x>>
  OBVIOUS
<1>3. /\ x \in Client /\ node \in Node /\ c.map[x] = node
      /\ FirstOf(c, i) = FirstOf(c, i - 1) \cup {x} /\ x \notin FirstOf(c, i - 1)
      /\ NodesOf(c, i) = NodesOf(c, i - 1) \cup {node} /\ node \notin NodesOf(c, i - 1)
  BY <1>1, <1>2, FirstIs DEF IsRemoval
<1>4. node \in c.from.live /\ Good(c.from.heap, c.from.live) /\ i # 0
  BY <1>1, <1>2 DEF StartsSound
<1>5. PICK r : r = RemoveH(a.heap, node)
  OBVIOUS
<1>6a. PICK lowered : lowered = DecreaseKeyH(a.heap, node, 0)
  OBVIOUS
<1>6. PICK gone : gone = lowered.root
  OBVIOUS
<1>7. /\ a.live \in SUBSET c.from.live
      /\ a.out \in [Client -> Counters] /\ c.from.out \in [Client -> Counters]
  BY DEF RemovalTyped, Removing, IsRemoval
<1>8. CASE a.status # "ok"
  <2>1. after = a
    BY <1>8 DEF RemovalTurn
  <2> QED
    BY <1>4, <1>8, <2>1 DEF RemovalSound, FirstRemoved, FirstThrew, IsRemoval
<1>9. CASE a.status = "ok"
  <2>1. node \in a.live
    <3>1. CASE SomeZero(c)
      BY <1>4, <1>9, <3>1 DEF RemovalSound, FirstThrew
    <3>2. CASE ~SomeZero(c)
      BY <1>3, <1>4, <1>9, <3>2 DEF RemovalSound, FirstRemoved
    <3> QED
      BY <3>1, <3>2
  <2>2. Good(a.heap, a.live) /\ \A n \in a.live : a.heap.key[n] = c.from.heap.key[n]
    BY <1>4, <1>9 DEF RemovalSound, FirstThrew, FirstRemoved
  <2>3. Linked(a.heap, a.live)
    BY <2>2, GoodIsLinked
  <2>4. after = [heap |-> IF r.status = "ok" THEN Delete(r.h, gone) ELSE r.h,
                 live |-> IF r.status = "ok" THEN a.live \ {gone} ELSE a.live,
                 out |-> [a.out EXCEPT ![x] = Unsigned(-1)],
                 served |-> a.served \cup {x},
                 status |-> r.status]
    <3>1. after = RemovalTurn(c.map, a, x)
      BY <1>1
    <3>2. RemovalTurned(a, x, node, r, gone, after)
      BY <1>3, <1>5, <1>6a, <1>6, <3>1, RemovalCases
    <3> QED
      BY <1>9, <2>1, <2>3, <3>2, Zenon DEF RemovalTurned
  <2>5. \/ r.status = "threw" /\ r.h = a.heap /\ \E n \in a.live : a.heap.key[n] = 0
        \/ /\ \A n \in a.live : a.heap.key[n] > 0
           /\ gone = node
           /\ r.status = "undefined" \/ Takes(a.heap, a.live, node, r)
    <3>1. PICK h : h = a.heap
      OBVIOUS
    <3>2. PICK N : N = a.live
      OBVIOUS
    <3>3. /\ Good(h, N) /\ node \in N /\ lowered = DecreaseKeyH(h, node, 0)
          /\ r = RemoveH(h, node)
      BY <1>5, <1>6a, <2>1, <2>2, <3>1, <3>2
    <3>4. \/ r.status = "threw" /\ r.h = h /\ 0 >= h.key[h.root] /\ \E n \in N : h.key[n] = 0
          \/ /\ 0 < h.key[h.root] /\ \A n \in N : h.key[n] > 0
             /\ lowered.root = node
             /\ \/ r.status = "undefined" /\ r.h.key = [h.key EXCEPT ![node] = 0]
                \/ Takes(h, N, node, r)
      BY <3>3, NodeTaken
    <3> QED
      BY <1>6, <3>1, <3>2, <3>4
  <2>6. CASE SomeZero(c)
    <3>1. a = c.from /\ i - 1 = 0
      BY <1>9, <2>6 DEF RemovalSound, FirstThrew
    <3>2. \E n \in a.live : ~(a.heap.key[n] > 0)
      BY <2>6, <3>1 DEF SomeZero
    <3>3. r.status = "threw" /\ r.h = a.heap
      BY <2>5, <3>2
    <3>4. /\ after.heap = a.heap /\ after.live = a.live /\ after.status = "threw"
          /\ after.out = [a.out EXCEPT ![x] = Unsigned(-1)]
          /\ after.served = a.served \cup {x}
      BY <2>4, <3>3
    <3>5. i = 1 /\ x = c.s[1]
      BY <1>1, <3>1
    <3>6. FirstThrew(c, after)
      BY <3>1, <3>4, <3>5 DEF FirstThrew
    <3> QED
      BY <1>4, <2>6, <3>6 DEF RemovalSound
  <2>7. CASE ~SomeZero(c)
    <3>1. FirstRemoved(c, i - 1, a)
      BY <1>9, <2>7 DEF RemovalSound
    <3>2. ~\E n \in a.live : a.heap.key[n] = 0
      BY <1>7, <1>9, <2>2, <2>7 DEF SomeZero
    <3>3. CASE r.status = "undefined"
      BY <2>4, <2>7, <3>3 DEF RemovalSound
    <3>4. CASE Takes(a.heap, a.live, node, r)
      <4>1. /\ r.status = "ok" /\ Good(Delete(r.h, node), a.live \ {node})
            /\ \A n \in a.live \ {node} : Delete(r.h, node).key[n] = a.heap.key[n]
        BY <3>4 DEF Takes
      <4>2. /\ after.heap = Delete(r.h, node) /\ after.live = a.live \ {node}
            /\ after.status = "ok" /\ after.out = [a.out EXCEPT ![x] = Unsigned(-1)]
            /\ after.served = a.served \cup {x} /\ after.live = c.from.live \ NodesOf(c, i)
        <5>1. gone = node
          BY <2>5, <3>2
        <5>2. a.live = c.from.live \ NodesOf(c, i - 1)
          BY <3>1 DEF FirstRemoved
        <5> QED
          BY <1>3, <2>4, <4>1, <5>1, <5>2
      <4>3. \A n \in after.live : after.heap.key[n] = c.from.heap.key[n]
        BY <2>2, <4>1, <4>2
      <4>4. after.served = c.from.served \cup FirstOf(c, i)
        BY <1>3, <3>1, <4>2 DEF FirstRemoved
      <4>5. ASSUME NEW d \in Client
            PROVE  after.out[d] = IF d \in FirstOf(c, i) THEN Unsigned(-1) ELSE c.from.out[d]
        <5>1. after.out[d] = IF d = x THEN Unsigned(-1) ELSE a.out[d]
          BY <1>7, <4>2
        <5> QED
          BY <1>3, <3>1, <5>1 DEF FirstRemoved
      <4>6. FirstRemoved(c, i, after)
        BY <4>1, <4>2, <4>3, <4>4, <4>5 DEF FirstRemoved
      <4> QED
        BY <2>7, <4>6 DEF RemovalSound
    <3> QED
      BY <2>5, <3>2, <3>3, <3>4
  <2> QED
    BY <2>6, <2>7
<1> QED
  BY <1>8, <1>9

\* With a root of least key a turn throws only if it is the first.
LEMMA RemovalTurnLeast ==
    ASSUME NEW c, IsRemoval(c), StartsLeast(c), NEW i \in 1..c.n, NEW a,
           RemovalTyped(c, i - 1, a), RemovalLeast(c, i - 1, a),
           NEW after, after = RemovalTurn(c.map, a, c.s[i])
    PROVE  RemovalLeast(c, i, after)
<1>1. PICK x : x = c.s[i]
  OBVIOUS
<1>2. PICK node : node = <<c.key, x>>
  OBVIOUS
<1>3. /\ x \in Client /\ node \in Node /\ c.map[x] = node /\ node \in c.from.live
      /\ NodesOf(c, i) = NodesOf(c, i - 1) \cup {node} /\ node \notin NodesOf(c, i - 1)
  BY <1>1, <1>2, FirstIs DEF IsRemoval, StartsLeast
<1>4a. PICK r : r = RemoveH(a.heap, node)
  OBVIOUS
<1>4. PICK gone : gone = DecreaseKeyH(a.heap, node, 0).root
  OBVIOUS
<1>5. /\ a.heap \in HeapType /\ a.live \in SUBSET Node
      /\ a.status = "ok" => a.live = c.from.live \ NodesOf(c, i - 1)
  BY DEF RemovalTyped, RemovalLeast, Removing
<1>6. RemovalTurned(a, x, node, r, gone, after)
  <2>1. after = RemovalTurn(c.map, a, x)
    BY <1>1
  <2> QED
    BY <1>3, <1>4a, <1>4, <2>1, RemovalCases
<1>7. CASE a.status # "ok" /\ after = a
  BY <1>7 DEF RemovalLeast
<1>8. CASE a.status = "ok" /\ node \notin a.live
  BY <1>3, <1>5, <1>8
<1>9. CASE after = [a EXCEPT !.status = "broken"]
  <2>1. after.status = "broken"
    BY <1>9 DEF RemovalTyped, Removing
  <2> QED
    BY <2>1 DEF RemovalLeast
<1>10. CASE /\ a.status = "ok" /\ Linked(a.heap, a.live) /\ node \in a.live
            /\ after = [heap |-> IF r.status = "ok" THEN Delete(r.h, gone) ELSE r.h,
                        live |-> IF r.status = "ok" THEN a.live \ {gone} ELSE a.live,
                        out |-> [a.out EXCEPT ![x] = Unsigned(-1)],
                        served |-> a.served \cup {x},
                        status |-> r.status]
  <2>1. /\ after.heap = IF r.status = "ok" THEN Delete(r.h, gone) ELSE r.h
        /\ after.live = IF r.status = "ok" THEN a.live \ {gone} ELSE a.live
        /\ after.status = r.status
    BY <1>10
  <2>2. a.heap.root \in Node /\ a.heap.root \in a.live
    BY <1>5, <1>10, RootOfLinked, HeapAssumption
  <2>3. /\ r.h \in HeapType /\ r.status \in Ends
        /\ r.status = "ok" => ~DecreaseBreaks(a.heap, node, 0)
        /\ \/ r.status = "threw" /\ r.h = a.heap /\ ~(0 < a.heap.key[a.heap.root])
           \/ /\ r.status # "threw" /\ 0 < a.heap.key[a.heap.root]
              /\ r.h.key = [a.heap.key EXCEPT ![node] = 0]
    <3>1. PICK h : h = a.heap
      OBVIOUS
    <3>2. h \in HeapType /\ h.root \in Node /\ node \in Node
      BY <1>3, <1>5, <2>2, <3>1
    <3>3. r = RemoveH(h, node) /\ gone = DecreaseKeyH(h, node, 0).root
      BY <1>4a, <1>4, <3>1
    <3>4. /\ r.h \in HeapType /\ r.status \in Ends
          /\ r.status = "ok" => ~DecreaseBreaks(h, node, 0)
          /\ \/ r.status = "threw" /\ r.h = h /\ ~(0 < h.key[h.root])
             \/ /\ r.status # "threw" /\ 0 < h.key[h.root]
                /\ r.h.key = [h.key EXCEPT ![node] = 0]
      BY <3>2, <3>3, RemoveTyped
    <3> QED
      BY <3>1, <3>4
  <2>4. a = c.from \/ \A n \in a.live : 0 < a.heap.key[n]
    BY <1>10 DEF RemovalLeast
  <2>5. CASE r.status = "threw"
    <3>1. a = c.from
      BY <2>2, <2>3, <2>4, <2>5
    <3> QED
      BY <2>1, <2>5, <3>1 DEF RemovalLeast
  <2>6. CASE r.status = "ok"
    <3>1. ASSUME NEW n \in a.live PROVE 0 < a.heap.key[n]
      <4>1. a = c.from => a.heap.key[a.heap.root] <= a.heap.key[n]
        BY DEF StartsLeast
      <4>2. a.heap.key[n] \in Int /\ a.heap.key[a.heap.root] \in Int
        BY <1>5, <2>2, HeapAssumption DEF HeapType, Time
      <4> QED
        BY <2>3, <2>4, <2>6, <4>1, <4>2
    <3>2. gone = node
      <4>1. PICK h : h = a.heap
        OBVIOUS
      <4>2. PICK N : N = a.live
        OBVIOUS
      <4>3. /\ h \in HeapType /\ N \in SUBSET Node /\ Linked(h, N) /\ node \in N
            /\ \A n \in N : 0 < h.key[n]
            /\ ~DecreaseBreaks(h, node, 0)
        BY <1>5, <1>10, <2>3, <2>6, <3>1, <4>1, <4>2
      <4> QED
        BY <1>4, <4>1, <4>3, LoweredRoot
    <3>3. /\ after.heap = Delete(r.h, node) /\ after.live = a.live \ {node}
          /\ after.live = c.from.live \ NodesOf(c, i)
      BY <1>3, <1>5, <1>10, <2>1, <2>6, <3>2
    <3>4. ASSUME NEW n \in a.live \ {node} PROVE 0 < after.heap.key[n]
      <4>1. n \in Node /\ a.heap.key \in [Node -> Time]
        BY <1>5, <3>4 DEF HeapType
      <4>2. after.heap.key = [r.h.key EXCEPT ![node] = 0]
        BY <2>3, <3>3 DEF Delete, HeapType
      <4>3. after.heap.key[n] = a.heap.key[n]
        BY <2>3, <2>6, <4>1, <4>2, <3>4
      <4> QED
        BY <3>1, <4>3
    <3> QED
      BY <2>1, <2>6, <3>3, <3>4 DEF RemovalLeast
  <2> QED
    BY <2>1, <2>3, <2>5, <2>6 DEF RemovalLeast, Ends
<1> QED
  BY <1>6, <1>7, <1>8, <1>9, <1>10 DEF RemovalTurned

\* Before the first turn, and after a turn.
LEMMA RemovalStarts ==
    ASSUME NEW c, IsRemoval(c)
    PROVE  RemovalKeeps(c, 0, c.from)
<1>1. NodesOf(c, 0) = {} /\ FirstOf(c, 0) = {}
  <2>1. 1..0 = {}
    OBVIOUS
  <2>2. FirstOf(c, 0) = {}
    BY <2>1 DEF FirstOf
  <2> QED
    BY <2>2 DEF NodesOf
<1>2. RemovalTyped(c, 0, c.from)
  BY DEF IsRemoval, RemovalTyped
<1>3. ASSUME StartsSound(c) PROVE RemovalSound(c, 0, c.from)
  BY <1>1, <1>3 DEF RemovalSound, FirstRemoved, StartsSound, IsRemoval
<1>4. RemovalLeast(c, 0, c.from)
  BY <1>1 DEF RemovalLeast, IsRemoval
<1> QED
  BY <1>2, <1>3, <1>4 DEF RemovalKeeps

\* What holds of the turns so far holds after the next one.
LEMMA RemovalTurnKeeps ==
    ASSUME NEW c, IsRemoval(c), NEW i \in 1..c.n, NEW a, RemovalKeeps(c, i - 1, a)
    PROVE  RemovalKeeps(c, i, RemovalLoopTurn(c, a, c.s[i]))
<1>1. PICK after : after = RemovalTurn(c.map, a, c.s[i])
  OBVIOUS
<1>2. RemovalTyped(c, i, after)
  BY <1>1, RemovalTurnTyped DEF RemovalKeeps
<1>3. StartsSound(c) => RemovalSound(c, i, after)
  BY <1>1, RemovalTurnSound DEF RemovalKeeps
<1>4. StartsLeast(c) => RemovalLeast(c, i, after)
  BY <1>1, RemovalTurnLeast DEF RemovalKeeps
<1> QED
  BY <1>1, <1>2, <1>3, <1>4 DEF RemovalKeeps, RemovalLoopTurn

\* What the loop leaves.
LEMMA RemovalIs ==
    ASSUME NEW c, IsRemoval(c)
    PROVE  RemovalKeeps(c, c.n, Removal(c.map, c.from, c.s))
<1>1. c.n \in Nat /\ DOMAIN c.s = 1..c.n
  BY DEF IsRemoval
<1>2. RemovalKeeps(c, 0, c.from)
  BY RemovalStarts
<1>3. \A i \in 1..c.n : \A a :
          RemovalKeeps(c, i - 1, a) => RemovalKeeps(c, i, RemovalLoopTurn(c, a, c.s[i]))
  BY RemovalTurnKeeps
<1>4. RemovalKeeps(c, c.n, Removals!Loop(c, c.from, c.s))
  BY <1>1, <1>2, <1>3, Removals!LoopKeeps
<1>5. Removal(c.map, c.from, c.s) = Removals!Loop(c, c.from, c.s)
  BY SMT DEF Removal, Removals!Loop, RemovalLoopTurn, FoldLeft, MapThenFoldSet, Max,
             Removals!MapThenFoldSet, Removals!Greatest
<1> QED
  BY <1>4, <1>5, Zenon

-----------------------------------------------------------------------------
(* The invariant of the tables *)

\* The maps are in order always, and the nodes are of key sets of the bank's class.  Until a
\* key is raised the nodes are what is in the maps, and the heap is in order.
TInv ==
    /\ TablesTypeOK
    /\ Cardinality(live) <= HeapSize
    /\ TablesHold(bank)
    /\ \A e \in live : e[1] \in KeySets
    /\ raises = 0 /\ status # "undefined" =>
           /\ Good(heap, live) /\ status \in {"ok", "threw"}
           /\ MappedBy(bank) = live

\* It holds after a step if what is said of the bank of maps holds of the next one.
LEMMA TInvNext ==
    ASSUME twoKeys' = twoKeys, TablesTypeOK', Cardinality(live') <= HeapSize,
           TablesHold(bank'),
           \A e \in live' : e[1] \in KeySets,
           raises' = 0 /\ status' # "undefined" =>
               /\ Good(heap', live') /\ status' \in {"ok", "threw"}
               /\ MappedBy(bank') = live'
    PROVE  TInv'
BY SameNext DEF TInv

\* What a call may rely on.
LEMMA InvWhenUsed ==
    ASSUME TInv, Usable
    PROVE  /\ IInv /\ TypeOK /\ heap \in HeapType /\ live \in SUBSET Node
           /\ out \in [Client -> Counters] /\ served \in SUBSET Client
           /\ TablesHold(bank)
           /\ status # "internal" => status \in {"ok", "threw"}
           /\ \A e \in live : e[1] \in KeySets
           /\ raises = 0 => /\ Good(heap, live) /\ MappedBy(bank) = live /\ Sound
<1>1. TypeOK
  BY DEF TInv, TablesTypeOK, TypeOK, Usable
<1>2. IInv
  BY <1>1 DEF TInv, IInv
<1>3. raises = 0 => Sound
  BY <1>2, SoundWhenUsed
<1> QED
  BY <1>1, <1>2, <1>3 DEF TInv, TablesTypeOK, Usable, Counters

\* The heap after one of its operations.
LEMMA HeapNext ==
    ASSUME TInv, Usable, Next
    PROVE  /\ IInv' /\ TypeOK'
           /\ raises' = 0 => raises = 0
<1>1. IInv /\ TypeOK
  BY InvWhenUsed
<1>2. IInv'
  BY <1>1, InvStep
<1> QED
  BY <1>1, <1>2, StaysRaised DEF IInv

\* Types, of the variables of the heap and of the others.
LEMMA TypesNext ==
    ASSUME TypeOK', twoKeys' \in BOOLEAN, out' \in [Client -> Counters],
           until' \in {Idle} \cup Nows, served' \in SUBSET Client
    PROVE  TablesTypeOK'
BY DEF TablesTypeOK, TypeOK, Counters

\* Types of what the operations of the heap leave alone.
LEMMA UnchangedTypes ==
    ASSUME TInv
    PROVE  /\ twoKeys \in BOOLEAN /\ out \in [Client -> Counters]
           /\ until \in {Idle} \cup Nows /\ served \in SUBSET Client
BY DEF TInv, TablesTypeOK, Counters

\* A request that add finds has its node in the heap until a key is raised.
LEMMA FoundIs ==
    ASSUME TInv, Usable, NEW key \in KeySets, NEW c, HasClient(bank, key, c)
    PROVE  /\ <<key, c>> \in Node /\ GetByPq(bank, key)[c] = <<key, c>> /\ c \in Client
           /\ <<key, c>> \in MappedBy(bank) /\ (raises = 0 => <<key, c>> \in live)
<1>1. <<key, c>> \in Node /\ GetByPq(bank, key)[c] = <<key, c>>
  BY DEF TInv, TablesHold, Pointing
<1>2. <<key, c>> \in MappedBy(bank)
  BY <1>1, NodesArePairs DEF MappedBy
<1> QED
  BY <1>1, <1>2, NodesArePairs, InvWhenUsed

\* A renewal moves a node in the heap.
LEMMA RenewKeeps ==
    ASSUME TInv, NEW key \in KeySets, NEW c, HasClient(bank, key, c), NEW t \in Time,
           Ready, Renew(key, c, t), UNCHANGED <<twoKeys, until, served>>
    PROVE  TInv'
<1>1. PICK node : node = <<key, c>>
  OBVIOUS
<1>2. Usable /\ bank' = bank /\ out' = out /\ status # "internal"
  BY DEF Renew, Ready, LowerKey, RaiseKey
<1>3. /\ node \in Node /\ GetByPq(bank, key)[c] = node
      /\ raises = 0 => node \in live
  BY <1>1, <1>2, FoundIs
<1>4. /\ TablesHold(bank) /\ \A e \in live : e[1] \in KeySets
      /\ raises = 0 => MappedBy(bank) = live
      /\ twoKeys' \in BOOLEAN /\ out' \in [Client -> Counters]
      /\ until' \in {Idle} \cup Nows /\ served' \in SUBSET Client
  BY <1>2, InvWhenUsed, UnchangedTypes
<1>5. CASE node \in live
  <2>1. LowerKey(node, t) \/ RaiseKey(node, t)
    BY <1>3, <1>5 DEF Renew
  <2>2. Next /\ live' = live
    BY <1>3, <2>1 DEF Next, LowerKey, RaiseKey, AlterKey
  <2>3. IInv' /\ TypeOK' /\ (raises' = 0 => raises = 0)
    BY <1>2, <2>2, HeapNext
  <2>4. TablesTypeOK'
    BY <1>4, <2>3, TypesNext
  <2> QED
    BY <1>2, <1>4, <2>2, <2>3, <2>4, TInvNext DEF IInv
<1>6. CASE node \notin live
  <2>1. status' = "dangling" /\ heap' = heap /\ live' = live /\ raises' = raises /\ raises # 0
    BY <1>3, <1>6 DEF Renew, heapVars
  <2>2. TablesTypeOK' /\ Cardinality(live') <= HeapSize
    BY <1>2, <2>1 DEF TInv, TablesTypeOK
  <2> QED
    BY <1>2, <1>4, <2>1, <2>2, TInvNext
<1> QED
  BY <1>5, <1>6

\* A request that is not there is added to the heap and the maps.
LEMMA AddNewKeeps ==
    ASSUME TInv, NEW key \in KeySets, NEW c, <<key, c>> \in Node, ~IsStale(bank, key),
           NEW t \in Time, Ready, AddNew(key, c, t), UNCHANGED <<twoKeys, until, served>>
    PROVE  TInv'
<1>1. PICK node : node = <<key, c>>
  OBVIOUS
<1>2. /\ Usable /\ status # "internal" /\ Insert(node, t) /\ live' = live \cup {node}
      /\ bank' = AddByFq(bank, key, c, node) /\ out' = [out EXCEPT ![c] = Unsigned(@ + 1)]
  BY <1>1 DEF AddNew, Ready, Insert
<1>3. /\ TablesHold(bank) /\ \A e \in live : e[1] \in KeySets
      /\ raises = 0 => MappedBy(bank) = live
      /\ twoKeys' \in BOOLEAN /\ out \in [Client -> Counters]
      /\ until' \in {Idle} \cup Nows /\ served' \in SUBSET Client
  BY <1>2, InvWhenUsed, UnchangedTypes
<1>4. PICK after : after = AddByFq(bank, key, c, node)
  OBVIOUS
<1>5. TablesHold(after) /\ MappedBy(after) = MappedBy(bank) \cup {node}
  BY <1>1, <1>3, <1>4, AddedIs
<1>6. IInv' /\ TypeOK' /\ (raises' = 0 => raises = 0)
  <2>1. Next
    BY <1>1, <1>2 DEF Next
  <2> QED
    BY <1>2, <2>1, HeapNext
<1>7. out' \in [Client -> Counters]
  <2>1. c \in Client
    BY NodesArePairs
  <2>2. out[c] + 1 \in Int
    BY <1>3, <2>1, UnsignedIs
  <2>3. Unsigned(out[c] + 1) \in Counters
    BY <2>2, UnsignedIs
  <2> QED
    BY <1>2, <1>3, <2>1, <2>3
<1>8. TablesTypeOK'
  BY <1>3, <1>6, <1>7, TypesNext
<1>9. \A e \in live' : e[1] \in KeySets
  BY <1>1, <1>2, <1>3
<1> QED
  BY <1>2, <1>3, <1>4, <1>5, <1>6, <1>8, <1>9, TInvNext DEF IInv

\* add, of a request that is there or not, or of a key set that has a null map.
LEMMA AddKeeps ==
    ASSUME TInv, NEW e \in Node, NEW t \in Timeouts, e[1] \in KeySets, Add(e[1], e[2], t)
    PROVE  TInv'
<1>1. PICK key : key = e[1]
  OBVIOUS
<1>2. PICK c : c = e[2]
  OBVIOUS
<1>3. key \in KeySets /\ <<key, c>> \in Node /\ t \in Time /\ Add(key, c, t)
  BY <1>1, <1>2, NodesArePairs, TablesAssumption
<1>4. Ready /\ UNCHANGED <<twoKeys, until, served>>
  BY <1>3 DEF Add
<1>5. CASE IsStale(bank, key)
  <2>1. /\ Usable /\ status' = "threw" /\ heap' = heap /\ live' = live /\ raises' = raises
        /\ bank' = bank /\ out' = out
    BY <1>3, <1>5 DEF Add, Throw
  <2>2. TablesTypeOK' /\ Cardinality(live') <= HeapSize
    BY <1>4, <2>1 DEF TInv, TablesTypeOK
  <2>3. /\ TablesHold(bank) /\ \A n \in live : n[1] \in KeySets
        /\ raises = 0 => MappedBy(bank) = live /\ Good(heap, live)
    BY <1>4, <2>1, InvWhenUsed DEF Ready
  <2> QED
    BY <1>4, <2>1, <2>2, <2>3, TInvNext
<1>6. CASE ~IsStale(bank, key) /\ HasClient(bank, key, c)
  <2>1. Renew(key, c, t)
    BY <1>3, <1>6 DEF Add
  <2> QED
    BY <1>3, <1>4, <1>6, <2>1, RenewKeeps
<1>7. CASE ~IsStale(bank, key) /\ ~HasClient(bank, key, c)
  <2>1. AddNew(key, c, t)
    BY <1>3, <1>7 DEF Add
  <2> QED
    BY <1>3, <1>4, <1>7, <2>1, AddNewKeeps
<1> QED
  BY <1>5, <1>6, <1>7

\* The owner's loop begins.
LEMMA BeginKeeps ==
    ASSUME TInv, NEW t \in Nows, BeginTimeouts(t)
    PROVE  TInv'
<1>1. /\ Usable /\ status # "internal" /\ until' = t /\ status' = "ok"
      /\ heap' = heap /\ live' = live /\ raises' = raises /\ twoKeys' = twoKeys
      /\ bank' = bank /\ out' = out /\ served' = served
  BY DEF BeginTimeouts, Ready, heapVars
<1>2. TablesTypeOK' /\ Cardinality(live') <= HeapSize
  BY <1>1 DEF TInv, TablesTypeOK
<1>3. /\ TablesHold(bank) /\ \A e \in live : e[1] \in KeySets
      /\ raises = 0 => MappedBy(bank) = live /\ Good(heap, live)
  BY <1>1, InvWhenUsed
<1> QED
  BY <1>1, <1>2, <1>3, TInvNext

\* The owner's loop ends.
LEMMA EndKeeps ==
    ASSUME TInv, EndTimeouts
    PROVE  TInv'
<1>1. /\ Usable /\ status # "internal" /\ until' = Idle
      /\ status' = IF heap.count # 0 /\ heap.root = NULL THEN "threw" ELSE status
      /\ heap' = heap /\ live' = live /\ raises' = raises /\ twoKeys' = twoKeys
      /\ bank' = bank /\ out' = out /\ served' = served
  BY DEF EndTimeouts, Agreeing, heapVars
<1>2. TablesTypeOK' /\ Cardinality(live') <= HeapSize
  BY <1>1 DEF TInv, TablesTypeOK
<1>3. /\ TablesHold(bank) /\ status \in {"ok", "threw"}
      /\ \A e \in live : e[1] \in KeySets
      /\ raises = 0 => MappedBy(bank) = live /\ Good(heap, live)
  BY <1>1, InvWhenUsed
<1> QED
  BY <1>1, <1>2, <1>3, TInvNext

\* The root is a node of the heap.
LEMMA RootIsLive ==
    ASSUME TInv, Agreeing, heap.root # NULL
    PROVE  heap.root \in live /\ heap.root \in Node /\ heap.root[1] \in KeySets
<1>1. Usable /\ Linked(heap, live)
  BY DEF Agreeing, Usable
<1> QED
  BY <1>1, InvWhenUsed, RootOfLinked

\* Its request has a client, if the nodes are what is in the maps.
LEMMA RootHasClient ==
    ASSUME TInv, Agreeing, heap.root # NULL, MappedBy(bank) = live
    PROVE  /\ heap.root \in live /\ heap.root \in Node
           /\ heap.root[1] \in KeySets /\ HasClient(bank, heap.root[1], heap.root[2])
BY RootIsLive DEF MappedBy

\* A turn of the loop takes one request out of the maps and the heap.
LEMMA RemoveOverKeeps ==
    ASSUME TInv, RemoveOver
    PROVE  TInv'
<1>1. PICK node : node = heap.root
  OBVIOUS
<1>2. PICK key : key = node[1]
  OBVIOUS
<1>3. PICK c : c = node[2]
  OBVIOUS
<1>4. Usable /\ Agreeing /\ heap.root # NULL /\ UNCHANGED <<twoKeys, until, served>>
  BY DEF RemoveOver, Agreeing, GoesOn
<1>5. /\ node \in live /\ node \in Node /\ key \in KeySets
      /\ node = <<key, c>> /\ c \in Client
  BY <1>1, <1>2, <1>3, <1>4, RootIsLive, NodesArePairs
<1>6. /\ TablesHold(bank) /\ \A e \in live : e[1] \in KeySets
      /\ raises = 0 => MappedBy(bank) = live
      /\ twoKeys' \in BOOLEAN /\ out \in [Client -> Counters]
      /\ until' \in {Idle} \cup Nows /\ served' \in SUBSET Client
  BY <1>4, InvWhenUsed, UnchangedTypes DEF Agreeing
<1>7. CASE ~HasClient(bank, key, c)
  <2>1. /\ status' = "dangling" /\ heap' = heap /\ live' = live /\ raises' = raises
        /\ bank' = bank /\ out' = out
    BY <1>1, <1>2, <1>3, <1>7 DEF RemoveOver, heapVars
  <2>2. raises # 0
    BY <1>5, <1>6, <1>7 DEF MappedBy
  <2>3. TablesTypeOK' /\ Cardinality(live') <= HeapSize
    BY <1>4, <2>1 DEF TInv, TablesTypeOK
  <2> QED
    BY <1>4, <1>6, <2>1, <2>2, <2>3, TInvNext
<1>8. CASE HasClient(bank, key, c)
  <2>1. /\ bank' = RemoveByFq(bank, key, c) /\ out' = [out EXCEPT ![c] = Unsigned(@ - 1)]
        /\ RemoveMinimum
    BY <1>1, <1>2, <1>3, <1>8 DEF RemoveOver
  <2>2. PICK after : after = RemoveByFq(bank, key, c)
    OBVIOUS
  <2>3. TablesHold(after) /\ MappedBy(after) = MappedBy(bank) \ {node}
    BY <1>5, <1>6, <1>8, <2>2, RemovedIs
  <2>4. IInv' /\ TypeOK' /\ (raises' = 0 => raises = 0)
    <3>1. Next
      BY <2>1 DEF Next
    <3> QED
      BY <1>4, <3>1, HeapNext
  <2>5. out' \in [Client -> Counters]
    <3>1. out[c] - 1 \in Int
      BY <1>5, <1>6, UnsignedIs
    <3>2. Unsigned(out[c] - 1) \in Counters
      BY <3>1, UnsignedIs
    <3> QED
      BY <1>5, <1>6, <2>1, <3>2
  <2>6. TablesTypeOK'
    BY <1>6, <2>4, <2>5, TypesNext
  <2>7. /\ status' \in {"ok", "threw"} => live' = live \ {node}
        /\ live' \in SUBSET live
    <3>1. PICK r : r = RemoveMinimumH(heap)
      OBVIOUS
    <3>2. Extracted(heap, r)
      BY <1>4, <2>1, <3>1 DEF RemoveMinimum
    <3>3. r.status # "threw"
      BY <1>1, <1>4, <1>5, <3>1, InvWhenUsed, RemoveMinimumCases
    <3> QED
      BY <1>1, <3>2, <3>3 DEF Extracted
  <2> QED
    BY <1>4, <1>6, <2>1, <2>2, <2>3, <2>4, <2>6, <2>7, TInvNext DEF IInv
<1> QED
  BY <1>7, <1>8

\* What a call of remove_by_key did: end is what the loop of the removal c left.
RemovalBy(key, c, end) ==
    /\ IsRemoval(c) /\ RemovalKeeps(c, c.n, end) /\ c.key = key
    /\ c.from = [heap |-> heap, live |-> live, out |-> out, served |-> served, status |-> "ok"]
    /\ \A d : d \in FirstOf(c, c.n) <=> HasClient(bank, key, d)
    /\ c.n >= 1 /\ \A i \in 1..c.n : c.s[1] <= c.s[i]
    /\ heap' = end.heap /\ live' = end.live /\ out' = end.out /\ served' = end.served
    /\ status' = end.status
    /\ bank' = IF end.status = "ok" THEN RemoveByPq(bank, key) ELSE bank
    /\ raises' = raises /\ twoKeys' = twoKeys /\ until' = until

\* The subscribers of a key set that has a map.
LEMMA SubscribersAre ==
    ASSUME TInv, NEW key \in KeySets, NEW map, map = GetByPq(bank, key), map # NULL
    PROVE  /\ DOMAIN map \in SUBSET Client /\ DOMAIN map \in SUBSET Nat /\ DOMAIN map # {}
           /\ IsFiniteSet(DOMAIN map)
           /\ \A d : d \in DOMAIN map <=> HasClient(bank, key, d)
           /\ \A d \in DOMAIN map : <<key, d>> \in Node /\ map[d] = <<key, d>>
<1>1. Typed(bank) /\ Pointing(bank) /\ Populated(bank)
  BY DEF TInv, TablesHold
<1>2. map \in SubMaps
  <2>1. HasEntry(bank, key) /\ key \in Pairs
    BY GetIs, KeysArePairs
  <2>2. map \in Maps
    BY <1>1, <2>1 DEF Typed
  <2> QED
    BY <2>2 DEF Maps
<1>3. PICK clients \in SUBSET Client : map \in [clients -> Node]
  BY <1>2 DEF SubMaps
<1>4. DOMAIN map = clients /\ clients \in SUBSET Nat /\ IsFiniteSet(clients)
  <2>1. Client \in SUBSET Nat /\ IsFiniteSet(Client)
    BY TablesAssumption
  <2> QED
    BY <1>3, <2>1, FS_Subset
<1>5. \A d : d \in DOMAIN map <=> HasClient(bank, key, d)
  BY DEF HasClient
<1> QED
  BY <1>1, <1>3, <1>4, <1>5 DEF Pointing, Populated

\* A step of remove_by_key is what the loop over the subscribers leaves.
LEMMA RemovalOf ==
    ASSUME TInv, NEW key \in KeySets, RemoveByKey(key)
    PROVE  \E c, end : RemovalBy(key, c, end)
<1>1. PICK map : map = GetByPq(bank, key)
  OBVIOUS
<1>2. Usable /\ Ready /\ map # NULL
  BY <1>1 DEF RemoveByKey
<1>3. /\ DOMAIN map \in SUBSET Client /\ DOMAIN map \in SUBSET Nat /\ DOMAIN map # {}
      /\ IsFiniteSet(DOMAIN map)
      /\ \A d : d \in DOMAIN map <=> HasClient(bank, key, d)
      /\ \A d \in DOMAIN map : <<key, d>> \in Node /\ map[d] = <<key, d>>
  BY <1>1, <1>2, SubscribersAre
<1>4. PICK from : from = [heap |-> heap, live |-> live, out |-> out, served |-> served,
                          status |-> "ok"]
  OBVIOUS
<1>5. PICK s : s = Ascending(DOMAIN map)
  OBVIOUS
<1>6. PICK n : n = Cardinality(DOMAIN map)
  OBVIOUS
<1>7. /\ n \in Nat /\ s \in [1..n -> DOMAIN map]
      /\ \A i, j \in 1..n : i < j => s[i] < s[j]
      /\ \A x \in DOMAIN map : \E i \in 1..n : s[i] = x
  BY <1>3, <1>5, <1>6, AscendingIs
<1>8. PICK c : c = [map |-> map, s |-> s, n |-> n, key |-> key, from |-> from]
  OBVIOUS
<1>9. c.map = map /\ c.s = s /\ c.n = n /\ c.key = key /\ c.from = from
  BY <1>8
<1>10. \A i, j \in 1..n : s[i] = s[j] => i = j
  <2> SUFFICES ASSUME NEW i \in 1..n, NEW j \in 1..n, s[i] = s[j] PROVE i = j
    OBVIOUS
  <2>1. s[i] \in Nat
    BY <1>3, <1>7
  <2>2. ~(s[i] < s[j]) /\ ~(s[j] < s[i])
    BY <2>1
  <2>3. ~(i < j) /\ ~(j < i)
    BY <1>7, <2>2
  <2> QED
    BY <1>7, <2>3
<1>11. from \in Removing /\ from.status = "ok"
  BY <1>2, <1>4, InvWhenUsed DEF Removing, Ends
<1>12. IsRemoval(c)
  <2>1. s \in [1..n -> Client] /\ \A i \in 1..n : s[i] \in DOMAIN map
    BY <1>3, <1>7
  <2> QED
    BY <1>3, <1>7, <1>9, <1>10, <1>11, <2>1 DEF IsRemoval
<1>13. FirstOf(c, n) = DOMAIN map
  <2>1. FirstOf(c, n) = {s[j] : j \in 1..n}
    BY <1>9, Zenon DEF FirstOf
  <2>2. \A j \in 1..n : s[j] \in DOMAIN map
    BY <1>7
  <2> QED
    BY <1>7, <2>1, <2>2
<1>14. n >= 1 /\ \A i \in 1..n : s[1] <= s[i]
  <2>1. 1 \in 1..n
    BY <1>3, <1>7
  <2>2. ASSUME NEW i \in 1..n PROVE s[1] <= s[i]
    <3>1. s[1] \in Nat /\ s[i] \in Nat
      BY <1>3, <1>7, <2>1
    <3>2. i # 1 => s[1] < s[i]
      BY <1>7, <2>1
    <3> QED
      BY <3>1, <3>2
  <2> QED
    BY <1>7, <2>1, <2>2
<1>15. PICK end : end = Removal(map, from, s)
  OBVIOUS
<1>16. RemovalKeeps(c, n, end)
  BY <1>9, <1>12, <1>15, RemovalIs
<1>17. /\ heap' = end.heap /\ live' = end.live /\ out' = end.out /\ served' = end.served
       /\ status' = end.status
       /\ bank' = IF end.status = "ok" THEN RemoveByPq(bank, key) ELSE bank
       /\ raises' = raises /\ twoKeys' = twoKeys /\ until' = until
  BY <1>1, <1>4, <1>5, <1>15 DEF RemoveByKey
<1>18. RemovalBy(key, c, end)
  BY <1>3, <1>4, <1>9, <1>12, <1>13, <1>14, <1>16, <1>17 DEF RemovalBy
<1> QED
  BY <1>18

\* Until a key is raised the removal starts with a heap in order that has all its nodes.
LEMMA RemovalStartsSound ==
    ASSUME TInv, Usable, raises = 0, NEW key \in KeySets, NEW c, NEW end,
           RemovalBy(key, c, end)
    PROVE  StartsSound(c) /\ RemovalSound(c, c.n, end)
<1>1. Good(heap, live) /\ c.from.heap = heap /\ c.from.live = live /\ c.key = key
  BY InvWhenUsed DEF RemovalBy
<1>2. ASSUME NEW i \in 1..c.n PROVE <<c.key, c.s[i]>> \in c.from.live
  <2>1. c.s[i] \in FirstOf(c, c.n)
    BY <1>2 DEF FirstOf
  <2>2. HasClient(bank, key, c.s[i])
    BY <2>1 DEF RemovalBy
  <2> QED
    BY <1>1, <2>2, FoundIs
<1> QED
  BY <1>1, <1>2 DEF StartsSound, RemovalBy, RemovalKeeps

\* The nodes of the subscribers are those of the key set.
LEMMA NodesOfKey ==
    ASSUME NEW key \in KeySets, NEW c, NEW end, RemovalBy(key, c, end), NEW e \in MappedBy(bank)
    PROVE  e \in NodesOf(c, c.n) <=> e[1] = key
<1>1. e = <<e[1], e[2]>> /\ HasClient(bank, e[1], e[2])
  BY NodesArePairs DEF MappedBy
<1>2. c.key = key /\ \A d : d \in FirstOf(c, c.n) <=> HasClient(bank, key, d)
  BY DEF RemovalBy
<1>3. ASSUME e \in NodesOf(c, c.n) PROVE e[1] = key
  BY <1>2, <1>3, NodesArePairs DEF NodesOf
<1>4. ASSUME e[1] = key PROVE e \in NodesOf(c, c.n)
  BY <1>1, <1>2, <1>4 DEF NodesOf
<1> QED
  BY <1>3, <1>4

\* remove_by_key takes the same requests out of both, or stops before it has.
LEMMA RemoveByKeyKeeps ==
    ASSUME TInv, NEW key \in KeySets, RemoveByKey(key)
    PROVE  TInv'
<1>1. Usable /\ status # "internal" /\ GetByPq(bank, key) # NULL
  BY DEF RemoveByKey, Ready
<1>2. PICK c, end : RemovalBy(key, c, end)
  BY RemovalOf
<1>3. /\ heap' = end.heap /\ live' = end.live /\ out' = end.out /\ served' = end.served
      /\ status' = end.status
      /\ bank' = IF end.status = "ok" THEN RemoveByPq(bank, key) ELSE bank
      /\ raises' = raises /\ twoKeys' = twoKeys /\ until' = until
      /\ c.from.live = live /\ c.from.heap = heap /\ c.n \in Nat /\ c.n >= 1
      /\ RemovalTyped(c, c.n, end)
  BY <1>2 DEF RemovalBy, RemovalKeeps, IsRemoval
<1>4. end \in Removing /\ live' \in SUBSET live
  BY <1>3 DEF RemovalTyped
<1>5. /\ TablesHold(bank) /\ live \in SUBSET Node /\ \A e \in live : e[1] \in KeySets
      /\ raises = 0 => Good(heap, live) /\ MappedBy(bank) = live
  BY <1>1, InvWhenUsed
<1>6. TablesTypeOK'
  <2>1. /\ heap' \in HeapType /\ live' \in SUBSET Node /\ out' \in [Client -> Counters]
        /\ served' \in SUBSET Client /\ status' \in Ends \cup {"dangling"}
    BY <1>3, <1>4 DEF Removing
  <2> QED
    BY <1>3, <2>1 DEF TInv, TablesTypeOK, Counters, Ends
<1>7. Cardinality(live') <= HeapSize
  BY <1>4, <1>5, Subsets DEF TInv
<1>8. PICK after : after = RemoveByPq(bank, key)
  OBVIOUS
<1>9. TablesHold(after) /\ MappedBy(after) = {e \in MappedBy(bank) : e[1] # key}
  BY <1>1, <1>5, <1>8, KeyRemovedIs
<1>10. status' = "ok" => bank' = after
  BY <1>3, <1>8
<1>11. status' # "ok" => bank' = bank
  BY <1>3
<1>12. TablesHold(bank')
  BY <1>5, <1>9, <1>10, <1>11
<1>13. \A e \in live' : e[1] \in KeySets
  BY <1>4, <1>5
<1>14. ASSUME raises' = 0, status' # "undefined"
       PROVE  /\ Good(heap', live') /\ status' \in {"ok", "threw"}
              /\ MappedBy(bank') = live'
  <2>1. RemovalSound(c, c.n, end) /\ raises = 0
    BY <1>1, <1>2, <1>3, <1>14, RemovalStartsSound
  <2>2. CASE SomeZero(c)
    <3>1. FirstThrew(c, end)
      BY <1>3, <2>1, <2>2 DEF RemovalSound
    <3> QED
      BY <1>3, <1>5, <1>11, <2>1, <3>1 DEF FirstThrew
  <2>3. CASE ~SomeZero(c)
    <3>1. FirstRemoved(c, c.n, end)
      BY <1>3, <1>14, <2>1, <2>3 DEF RemovalSound
    <3>2. status' = "ok" /\ Good(heap', live') /\ live' = live \ NodesOf(c, c.n)
      BY <1>3, <3>1 DEF FirstRemoved
    <3>3. live' = {e \in live : e[1] # key}
      <4>1. \A e \in live : e \in NodesOf(c, c.n) <=> e[1] = key
        BY <1>2, <1>5, <2>1, NodesOfKey
      <4> QED
        BY <3>2, <4>1
    <3> QED
      BY <1>5, <1>9, <1>10, <2>1, <3>2, <3>3
  <2> QED
    BY <2>2, <2>3
<1> QED
  BY <1>3, <1>6, <1>7, <1>12, <1>13, <1>14, TInvNext

\* The invariant of the tables is inductive.
LEMMA TInvStep == TInv /\ [TablesNext]_tableVars => TInv'
<1> SUFFICES ASSUME TInv, [TablesNext]_tableVars PROVE TInv'
  OBVIOUS
<1>1. ASSUME NEW e \in Node, NEW t \in Timeouts, e[1] \in KeySets /\ Add(e[1], e[2], t)
      PROVE  TInv'
  BY <1>1, AddKeeps
<1>2. ASSUME NEW key \in KeySets, RemoveByKey(key) PROVE TInv'
  BY <1>2, RemoveByKeyKeeps
<1>3. ASSUME NEW t \in Nows, BeginTimeouts(t) PROVE TInv'
  BY <1>3, BeginKeeps
<1>4. CASE RemoveOver
  BY <1>4, RemoveOverKeeps
<1>5. CASE EndTimeouts
  BY <1>5, EndKeeps
<1>6. CASE UNCHANGED tableVars
  <2>1. /\ heap' = heap /\ live' = live /\ status' = status /\ raises' = raises
        /\ twoKeys' = twoKeys /\ bank' = bank /\ out' = out /\ until' = until
        /\ served' = served
    BY <1>6 DEF tableVars, vars
  <2>2. TablesTypeOK'
    BY <2>1 DEF TInv, TablesTypeOK
  <2> QED
    BY <2>1, <2>2, TInvNext DEF TInv
<1> QED
  BY <1>1, <1>2, <1>3, <1>4, <1>5, <1>6 DEF TablesNext

\* An empty bank satisfies it.
LEMMA TInvInit == TablesInit => TInv
<1> SUFFICES ASSUME TablesInit PROVE TInv
  OBVIOUS
<1>1. /\ Init /\ twoKeys \in BOOLEAN /\ bank = Sized(NearestPrime(Size1))
      /\ out = [x \in Client |-> 0] /\ until = Idle /\ served = {}
  BY DEF TablesInit
<1>2. IInv /\ live = {} /\ status = "ok"
  BY <1>1, InvInit DEF Init
<1>3. TablesHold(bank) /\ MappedBy(bank) = {}
  BY <1>1, EmptyHolds
<1>4. out \in [Client -> Counters]
  BY <1>1, UnsignedIs
<1>5. TablesTypeOK
  BY <1>1, <1>2, <1>4 DEF IInv, TypeOK, TablesTypeOK, Counters
<1> QED
  BY <1>2, <1>3, <1>5 DEF IInv, TInv

\* The invariant of the tables holds in every state.
LEMMA TInvAlways == TablesSpec => []TInv
<1>1. TablesInit => TInv
  BY TInvInit
<1>2. TInv /\ [TablesNext]_tableVars => TInv'
  BY TInvStep
<1> QED
  BY <1>1, <1>2, PTL DEF TablesSpec

\* Every call leaves a bank of well-typed parts, also after a call that failed half-way.
THEOREM TablesTypeCorrect == TablesSpec => []TablesTypeOK
<1>1. TInv => TablesTypeOK
  BY DEF TInv
<1> QED
  BY <1>1, TInvAlways, PTL

\* The destructor reaches every map that is there, once (MCCIRequestBank.h:357), for any number
\* of keys and any sizes of the hashes, whatever calls and errors came before: what the
\* iterators of LinearHash visit of a hash of hashes is what the calls have put there.
THEOREM MapsFreed == TablesSpec => []MapsAreFreed
<1>1. TInv => MapsAreFreed
  BY FreedWhenTyped DEF TInv, TablesHold
<1> QED
  BY <1>1, TInvAlways, PTL

\* The nodes are found in the maps, if the maps have them.
LEMMA NodesMapped ==
    ASSUME TInv, MappedBy(bank) = live
    PROVE  NodesAreMapped
<1>1. Pointing(bank) /\ Mapped = MappedBy(bank)
  BY DEF TInv, TablesHold, Mapped, MappedBy
<1>2. ASSUME NEW e \in live PROVE e \in Mapped /\ GetByPq(bank, e[1])[e[2]] = e
  <2>1. e \in Mapped /\ e \in Node /\ e[1] \in KeySets /\ HasClient(bank, e[1], e[2])
    BY <1>1, <1>2 DEF MappedBy
  <2>2. GetByPq(bank, e[1])[e[2]] = <<e[1], e[2]>>
    BY <1>1, <2>1 DEF Pointing
  <2> QED
    BY <2>1, <2>2, NodesArePairs
<1> QED
  BY <1>2 DEF NodesAreMapped

\* Until a key is raised the heap and the maps hold the same requests, no map is empty, and no
\* call follows a pointer to a node that is gone.
THEOREM TablesAgreeUntilRaised == TablesSpec => [](raises = 0 => TablesAgree)
<1>1. ASSUME TInv, raises = 0 PROVE TablesAgree
  <2>1. status # "dangling"
    BY <1>1 DEF TInv
  <2>2. ASSUME Agreeing PROVE NodesAreMapped /\ MapsAreLive
    <3>1. MappedBy(bank) = live /\ Mapped = live
      BY <1>1, <2>2, InvWhenUsed DEF Agreeing, Mapped, MappedBy
    <3>2. Populated(bank)
      BY <1>1 DEF TInv, TablesHold
    <3> QED
      BY <1>1, <3>1, <3>2, NodesMapped DEF MapsAreLive, Populated
  <2> QED
    BY <2>1, <2>2 DEF TablesAgree
<1>2. TInv => (raises = 0 => TablesAgree)
  BY <1>1
<1> QED
  BY <1>2, TInvAlways, PTL

-----------------------------------------------------------------------------
(* The tables implement RequestBank *)

\* What a bank stores, after k keys were raised.
StoredOf(h, N, o, stale, k) ==
    [due |-> [e \in N |-> h.key[e]], out |-> o, stale |-> stale, intact |-> k = 0]

KeepsKeys(h, N, g) == \A e \in N : g.key[e] = h.key[e]

\* What is stored, by the parts it depends on.
LEMMA StoredIs == stored = StoredOf(heap, live, out, StaleBy(bank), raises)
BY DEF stored, StoredOf, StaleKeys, StaleBy

\* The same after a step.
LEMMA StoredNext ==
    ASSUME twoKeys' = twoKeys
    PROVE  stored' = StoredOf(heap', live', out', StaleBy(bank'), raises')
<1>1. StaleKeys' = StaleBy(bank)'
  BY DEF StaleKeys, StaleBy
<1>2. StaleKeys' = StaleBy(bank')
  BY <1>1, SameNext
<1> QED
  BY <1>2 DEF stored, StoredOf

\* The module of the instance has its own name for the number of elements of a set.
LEMMA SameCardinality == \A S : Bank!Cardinality(S) = Cardinality(S)
BY DEF Cardinality, Bank!Cardinality

\* Small numbers do not wrap.
LEMMA UnsignedSmall ==
    /\ \A x \in Counters : Unsigned(x) = x
    /\ \A x \in Counters : Unsigned(x + 0) = x /\ Unsigned(x - 0) = x
    /\ \A x : Bank!Unsigned(x) = Unsigned(x)
BY TablesAssumption DEF Unsigned, Counters, Bank!Unsigned

\* The request of a key set and a client is put among the entries N, due at t.
Adding(h, N, o, key, c, t, g, M, p, raised) ==
    /\ o \in [Client -> Counters] /\ c \in Client
    /\ M = N \cup {<<key, c>>} /\ Cardinality(M) <= HeapSize
    /\ \A e \in M : g.key[e] = IF e = <<key, c>> THEN t ELSE h.key[e]
    /\ p = IF <<key, c>> \in N THEN o ELSE [o EXCEPT ![c] = Unsigned(@ + 1)]
    /\ raised = 0 <=> ~(<<key, c>> \in N /\ t > h.key[<<key, c>>])

\* A request added or renewed.
LEMMA AddIs ==
    ASSUME NEW h, NEW N, NEW o, NEW stale, NEW b, b = StoredOf(h, N, o, stale, 0),
           NEW key, NEW c, NEW t, NEW g, NEW M, NEW p, NEW raised,
           Adding(h, N, o, key, c, t, g, M, p, raised)
    PROVE  Bank!AddAll(b, {key}, c, t) = StoredOf(g, M, p, stale, raised)
<1>1. PICK n : n = <<key, c>>
  OBVIOUS
<1>2. /\ o \in [Client -> Counters] /\ c \in Client
      /\ M = N \cup {n} /\ Cardinality(M) <= HeapSize
      /\ \A e \in M : g.key[e] = IF e = n THEN t ELSE h.key[e]
      /\ p = IF n \in N THEN o ELSE [o EXCEPT ![c] = Unsigned(@ + 1)]
      /\ raised = 0 <=> ~(n \in N /\ t > h.key[n])
  BY <1>1 DEF Adding
<1>3. /\ Bank!Entries(b) = N /\ \A e \in N : b.due[e] = h.key[e]
      /\ b.out = o /\ b.stale = stale /\ b.intact
  BY DEF StoredOf, Bank!Entries
<1>4. PICK wanted : wanted = {<<k, c>> : k \in {key}}
  OBVIOUS
<1>5. wanted = {n}
  BY <1>1, <1>4
<1>6. PICK fresh : fresh = wanted \ N
  OBVIOUS
<1>7. PICK due : due = [e \in N \cup wanted |-> IF e \in wanted THEN t ELSE b.due[e]]
  OBVIOUS
<1>8. due = [e \in M |-> g.key[e]]
  BY <1>2, <1>3, <1>5, <1>7
<1>9. PICK after : after = [o EXCEPT ![c] = Unsigned(@ + Cardinality(fresh))]
  OBVIOUS
<1>10. after = p
  <2>1. CASE n \in N
    <3>1. Cardinality(fresh) = 0
      BY <1>5, <1>6, <2>1, FS_EmptySet
    <3>2. Unsigned(o[c] + 0) = o[c]
      BY <1>2, UnsignedSmall
    <3> QED
      BY <1>2, <1>9, <2>1, <3>1, <3>2
  <2>2. CASE n \notin N
    <3>1. Cardinality(fresh) = 1
      <4>1. fresh = {n}
        BY <1>5, <1>6, <2>2
      <4> QED
        BY <4>1, FS_Singleton
    <3> QED
      BY <1>2, <1>9, <2>2, <3>1
  <2> QED
    BY <2>1, <2>2
<1>11. PICK kept \in BOOLEAN : kept <=> /\ b.intact
                              /\ \A k \in {key} : ~Bank!AddRaises(b, k, c, t)
                              /\ Cardinality(N \cup wanted) <= HeapSize
  OBVIOUS
<1>12. kept <=> raised = 0
  BY <1>1, <1>2, <1>3, <1>5, <1>11 DEF Bank!AddRaises
<1>13. Bank!AddAll(b, {key}, c, t) =
           [due |-> due, out |-> after, stale |-> stale, intact |-> kept]
  BY <1>3, <1>4, <1>6, <1>7, <1>9, <1>11, UnsignedSmall, SameCardinality DEF Bank!AddAll
<1> QED
  BY <1>8, <1>10, <1>12, <1>13 DEF StoredOf

\* The request of a key set and a client is taken out of the entries N.
Expiring(h, N, o, key, c, g, M, p) ==
    /\ o \in [Client -> Counters] /\ c \in Client
    /\ M = N \ {<<key, c>>} /\ KeepsKeys(h, M, g)
    /\ p = [o EXCEPT ![c] = Unsigned(@ - 1)]

\* A request that is over, taken out.
LEMMA ExpireIs ==
    ASSUME NEW h, NEW N, NEW o, NEW stale, NEW b, b = StoredOf(h, N, o, stale, 0),
           NEW key, NEW c, NEW g, NEW M, NEW p, Expiring(h, N, o, key, c, g, M, p)
    PROVE  Bank!Expire(b, {<<key, c>>}) = StoredOf(g, M, p, stale, 0)
<1>1. PICK n : n = <<key, c>>
  OBVIOUS
<1>2. /\ Bank!Entries(b) = N /\ \A e \in N : b.due[e] = h.key[e]
      /\ b.out = o /\ b.stale = stale /\ b.intact
      /\ o \in [Client -> Counters] /\ c \in Client
      /\ M = N \ {n} /\ KeepsKeys(h, M, g) /\ p = [o EXCEPT ![c] = Unsigned(@ - 1)]
  BY <1>1 DEF StoredOf, Bank!Entries, Expiring
<1> DEFINE due == [e \in Bank!Entries(b) \ {n} |-> b.due[e]]
           after == [d \in Client |->
                        Bank!Unsigned(b.out[d] - Bank!Cardinality(Bank!Share({n}, d)))]
<1>3. PICK left : left = Bank!Expire(b, {n})
  OBVIOUS
<1>4. left = [b EXCEPT !.due = due, !.out = after]
  BY <1>3 DEF Bank!Expire
<1>5. due = [e \in M |-> g.key[e]]
  BY <1>2 DEF KeepsKeys
<1>6. ASSUME NEW d \in Client PROVE after[d] = p[d]
  <2>1. n[2] = c /\ o[d] \in Counters
    BY <1>1, <1>2
  <2>2. after[d] = Unsigned(o[d] - Cardinality(Bank!Share({n}, d)))
    BY <1>2, UnsignedSmall, SameCardinality
  <2>3. CASE d = c
    <3>1. Bank!Share({n}, d) = {n}
      BY <2>1, <2>3 DEF Bank!Share
    <3>2. Cardinality(Bank!Share({n}, d)) = 1
      BY <3>1, FS_Singleton
    <3> QED
      BY <1>2, <2>2, <2>3, <3>2
  <2>4. CASE d # c
    <3>1. Bank!Share({n}, d) = {}
      BY <2>1, <2>4 DEF Bank!Share
    <3>2. Cardinality(Bank!Share({n}, d)) = 0
      BY <3>1, FS_EmptySet
    <3> QED
      BY <1>2, <2>1, <2>2, <2>4, <3>2, UnsignedSmall
  <2> QED
    BY <2>3, <2>4
<1>7. after = p
  BY <1>2, <1>6
<1> HIDE DEF due, after
<1>8. left = [due |-> due, out |-> after, stale |-> stale, intact |-> TRUE]
  BY <1>4 DEF StoredOf
<1>9. StoredOf(g, M, p, stale, 0) =
          [due |-> [e \in M |-> g.key[e]], out |-> p, stale |-> stale, intact |-> TRUE]
  BY DEF StoredOf
<1> QED
  BY <1>1, <1>3, <1>5, <1>7, <1>8, <1>9, Zenon

\* A request has the timeout 0; first is the first subscriber of a key set.
Refusing(h, N, o, key, first, p) ==
    /\ o \in [Client -> Counters] /\ \E e \in N : h.key[e] = 0
    /\ first \in Client /\ <<key, first>> \in N
    /\ \A d \in Client : <<key, d>> \in N => first <= d
    /\ p = [o EXCEPT ![first] = Unsigned(-1)]

\* remove_by_key that throws has written the counter of the first subscriber.
LEMMA RemovalThrows ==
    ASSUME NEW h, NEW N, NEW o, NEW stale, NEW b, b = StoredOf(h, N, o, stale, 0),
           NEW key, NEW first, NEW p, Refusing(h, N, o, key, first, p)
    PROVE  /\ Bank!RemoveByKeyThrows(b) /\ Bank!Written(b, key) = {first}
           /\ Bank!RemoveByKey(b, key, twoKeys) = StoredOf(h, N, p, stale, 0)
<1>1. /\ o \in [Client -> Counters] /\ \E e \in N : h.key[e] = 0
      /\ first \in Client /\ <<key, first>> \in N
      /\ \A d \in Client : <<key, d>> \in N => first <= d
      /\ p = [o EXCEPT ![first] = Unsigned(-1)]
  BY DEF Refusing
<1>2. /\ Bank!Subscribers(b, key) = {d \in Client : <<key, d>> \in N}
      /\ Bank!RemoveByKeyThrows(b)
      /\ b.out = o
  <2>1. Bank!Entries(b) = N /\ b.out = o /\ \A e \in N : b.due[e] = h.key[e]
    BY DEF StoredOf, Bank!Entries
  <2>2. \E e \in N : b.due[e] = 0
    BY <1>1, <2>1
  <2>3. Bank!RemoveByKeyThrows(b)
    BY <2>1, <2>2, Zenon DEF Bank!RemoveByKeyThrows
  <2>4. Bank!Subscribers(b, key) = {d \in Client : <<key, d>> \in N}
    BY <2>1 DEF Bank!Subscribers
  <2> QED
    BY <2>1, <2>3, <2>4
<1>3. Bank!Written(b, key) = {first}
  <2>1. Client \in SUBSET Int
    BY TablesAssumption
  <2>2. \A d \in Client : <<key, d>> \in N /\ d <= first => d = first
    BY <1>1, <2>1
  <2>3. \A d \in Client : (<<key, d>> \in N /\ \A f \in Client : <<key, f>> \in N => d <= f)
                              <=> d = first
    BY <1>1, <2>2
  <2>4. Bank!Written(b, key) = {d \in Client : d = first}
    BY <1>2, <2>3 DEF Bank!Written
  <2> QED
    BY <1>1, <2>4
<1> DEFINE after == [c \in Client |-> IF c \in Bank!Written(b, key) THEN Bank!Overwritten
                                      ELSE b.out[c]]
<1>4. PICK left : left = Bank!RemoveByKey(b, key, twoKeys)
  OBVIOUS
<1>5. left = [b EXCEPT !.out = after]
  BY <1>2, <1>4 DEF Bank!RemoveByKey
<1>6. after = p
  <2>1. Bank!Overwritten = Unsigned(-1)
    BY UnsignedSmall DEF Bank!Overwritten
  <2>2. \A d \in Client : after[d] = IF d = first THEN Unsigned(-1) ELSE o[d]
    BY <1>2, <1>3, <2>1
  <2> QED
    BY <1>1, <2>2
<1> HIDE DEF after
<1>7. PICK due : due = [e \in N |-> h.key[e]]
  OBVIOUS
<1>8. left = [due |-> due, out |-> after, stale |-> stale, intact |-> TRUE]
  BY <1>5, <1>7 DEF StoredOf
<1>9. StoredOf(h, N, p, stale, 0) =
          [due |-> due, out |-> p, stale |-> stale, intact |-> TRUE]
  BY <1>7 DEF StoredOf
<1> QED
  BY <1>2, <1>3, <1>4, <1>6, <1>8, <1>9, Zenon

\* No request has the timeout 0; those of a key set are taken out of the entries N.
Clearing(h, N, o, stale, key, g, M, p, nulls) ==
    /\ \A e \in N : h.key[e] # 0
    /\ M = {e \in N : e[1] # key} /\ KeepsKeys(h, M, g)
    /\ p \in [Client -> Counters]
    /\ \A d \in Client : p[d] = IF <<key, d>> \in N THEN Unsigned(-1) ELSE o[d]
    /\ nulls = IF twoKeys THEN stale \cup {key} ELSE stale

\* remove_by_key that ends has written the counters of all subscribers.
LEMMA RemovalEnds ==
    ASSUME NEW h, NEW N, NEW o, NEW stale, NEW b, b = StoredOf(h, N, o, stale, 0),
           NEW key, NEW g, NEW M, NEW p, NEW nulls,
           Clearing(h, N, o, stale, key, g, M, p, nulls)
    PROVE  /\ ~Bank!RemoveByKeyThrows(b)
           /\ Bank!Written(b, key) = {d \in Client : <<key, d>> \in N}
           /\ Bank!RemoveByKey(b, key, twoKeys) = StoredOf(g, M, p, nulls, 0)
<1>1. /\ \A e \in N : h.key[e] # 0
      /\ M = {e \in N : e[1] # key} /\ KeepsKeys(h, M, g)
      /\ p \in [Client -> Counters]
      /\ \A d \in Client : p[d] = IF <<key, d>> \in N THEN Unsigned(-1) ELSE o[d]
      /\ nulls = IF twoKeys THEN stale \cup {key} ELSE stale
  BY DEF Clearing
<1>2. /\ Bank!Subscribers(b, key) = {d \in Client : <<key, d>> \in N}
      /\ ~Bank!RemoveByKeyThrows(b) /\ Bank!Entries(b) = N /\ \A e \in N : b.due[e] = h.key[e]
      /\ b.out = o /\ b.stale = stale
  BY <1>1 DEF StoredOf, Bank!Entries, Bank!Subscribers, Bank!RemoveByKeyThrows
<1>3. Bank!Written(b, key) = {d \in Client : <<key, d>> \in N}
  BY <1>2 DEF Bank!Written
<1> DEFINE after == [c \in Client |-> IF c \in Bank!Written(b, key) THEN Bank!Overwritten
                                      ELSE b.out[c]]
           due == [e \in {f \in Bank!Entries(b) : f[1] # key} |-> b.due[e]]
           null == IF twoKeys THEN b.stale \cup {key} ELSE b.stale
<1>4. PICK left : left = Bank!RemoveByKey(b, key, twoKeys)
  OBVIOUS
<1>5. left = [b EXCEPT !.due = due, !.out = after, !.stale = null]
  BY <1>2, <1>4 DEF Bank!RemoveByKey
<1>6. after = p
  <2>1. Bank!Overwritten = Unsigned(-1)
    BY UnsignedSmall DEF Bank!Overwritten
  <2>2. \A d \in Client : after[d] = p[d]
    BY <1>1, <1>2, <1>3, <2>1
  <2> QED
    BY <1>1, <2>2
<1>7. due = [e \in M |-> g.key[e]]
  BY <1>1, <1>2 DEF KeepsKeys
<1>8. null = nulls
  BY <1>1, <1>2
<1> HIDE DEF after, due, null
<1>9. left = [due |-> due, out |-> after, stale |-> null, intact |-> TRUE]
  BY <1>5 DEF StoredOf
<1>10. StoredOf(g, M, p, nulls, 0) =
          [due |-> [e \in M |-> g.key[e]], out |-> p, stale |-> nulls, intact |-> TRUE]
  BY DEF StoredOf
<1> QED
  BY <1>2, <1>3, <1>4, <1>6, <1>7, <1>8, <1>9, <1>10, Zenon

\* What is stored stays when entries, keys, counters and null maps do.
LEMMA StoredStays ==
    ASSUME twoKeys' = twoKeys, live' = live, KeepsKeys(heap, live, heap'), out' = out,
           StaleBy(bank') = StaleBy(bank), raises' = raises
    PROVE  stored' = stored
<1>1. [e \in live |-> heap'.key[e]] = [e \in live |-> heap.key[e]]
  BY DEF KeepsKeys
<1>2. stored' = StoredOf(heap', live, out, StaleBy(bank), raises)
  BY StoredNext
<1> QED
  BY <1>1, <1>2, StoredIs DEF StoredOf

\* add of RequestBank, for a key set that has no null map and a key that is not raised from 0.
LEMMA BankAdds ==
    ASSUME NEW b, b = StoredOf(heap, live, out, StaleBy(bank), 0), raises = 0,
           NEW key \in KeySets, NEW c \in Client, NEW t \in Time, ~IsStale(bank, key),
           NEW n, n = <<key, c>>, ~(n \in live /\ heap.key[n] = 0 /\ t > 0),
           stored' = Bank!AddAll(b, {key}, c, t), status' = "ok",
           twoKeys' = twoKeys, served' = served
    PROVE  Bank!Next
<1>1. stored = b
  BY StoredIs
<1>2. /\ Bank!Entries(b) = live /\ \A e \in live : b.due[e] = heap.key[e]
      /\ b.stale = StaleBy(bank) /\ b.intact
  BY DEF StoredOf, Bank!Entries
<1>3. key \notin b.stale /\ key \in KeySet
  BY <1>2 DEF StaleBy, KeySets
<1>4. ~Bank!AddThrows(b, key, c, t)
  BY <1>2, <1>3 DEF Bank!AddThrows
<1>5. Bank!Add(key, c, t)
  BY <1>1, <1>2, <1>4 DEF Bank!Add
<1>6. t \in Bank!Time
  BY DEF Time, Bank!Time
<1> QED
  BY <1>3, <1>5, <1>6 DEF Bank!Next

\* A request that is not there is added as RequestBank says.
LEMMA AddNewImplements ==
    ASSUME TInv, raises = 0, NEW key \in KeySets, NEW c, <<key, c>> \in Node,
           ~IsStale(bank, key), NEW t \in Time, Ready, AddNew(key, c, t),
           UNCHANGED <<twoKeys, until, served>>
    PROVE  Bank!Next
<1>1. PICK n : n = <<key, c>>
  OBVIOUS
<1>2. /\ Usable /\ Insert(n, t) /\ n \in Node /\ n \notin live
      /\ bank' = AddByFq(bank, key, c, n) /\ out' = [out EXCEPT ![c] = Unsigned(@ + 1)]
      /\ twoKeys' = twoKeys /\ served' = served
  BY <1>1 DEF AddNew, Insert
<1>3. /\ Sound /\ heap \in HeapType /\ out \in [Client -> Counters] /\ TablesHold(bank)
      /\ c \in Client
  BY <1>2, InvWhenUsed, NodesArePairs
<1>4. /\ Good(heap', live') /\ status' = "ok" /\ raises' = 0
      /\ live' = live \cup {n} /\ heap'.key = [heap.key EXCEPT ![n] = t]
  BY <1>2, <1>3, InsertStep
<1>5. Cardinality(live') <= HeapSize /\ live' \in SUBSET Node
  BY <1>4 DEF Good
<1>6. \A e \in live' : heap'.key[e] = IF e = n THEN t ELSE heap.key[e]
  <2>1. heap.key \in [Node -> Time]
    BY <1>3 DEF HeapType
  <2> QED
    BY <1>4, <1>5, <2>1
<1>7. StaleBy(bank') = StaleBy(bank)
  <2>1. PICK after : after = AddByFq(bank, key, c, n)
    OBVIOUS
  <2>2. StaleBy(after) = StaleBy(bank)
    BY <1>1, <1>2, <1>3, <2>1, AddedIs
  <2> QED
    BY <1>2, <2>1, <2>2
<1>8. PICK b : b = StoredOf(heap, live, out, StaleBy(bank), 0)
  OBVIOUS
<1>9. Bank!AddAll(b, {key}, c, t) = StoredOf(heap', live', out', StaleBy(bank), 0)
  <2>1. Adding(heap, live, out, key, c, t, heap', live', out', 0)
    BY <1>1, <1>2, <1>3, <1>4, <1>5, <1>6 DEF Adding
  <2> QED
    BY <1>8, <2>1, AddIs
<1>10. stored' = Bank!AddAll(b, {key}, c, t)
  BY <1>2, <1>4, <1>7, <1>9, StoredNext
<1> QED
  BY <1>1, <1>2, <1>3, <1>4, <1>8, <1>10, BankAdds

\* A request that is there is renewed as RequestBank says.
LEMMA RenewImplements ==
    ASSUME TInv, raises = 0, status' # "undefined", NEW key \in KeySets, NEW c,
           HasClient(bank, key, c), NEW t \in Time, ~IsStale(bank, key),
           Ready, Renew(key, c, t), UNCHANGED <<twoKeys, until, served>>
    PROVE  Bank!Next \/ UNCHANGED <<stored, served>>
<1>1. PICK n : n = <<key, c>>
  OBVIOUS
<1>2. Usable /\ bank' = bank /\ out' = out /\ twoKeys' = twoKeys /\ served' = served
  BY DEF Renew, Ready, LowerKey, RaiseKey
<1>3. n \in Node /\ GetByPq(bank, key)[c] = n /\ c \in Client /\ n \in live
  BY <1>1, <1>2, FoundIs
<1>4. /\ Sound /\ heap \in HeapType /\ out \in [Client -> Counters]
      /\ Cardinality(live) <= HeapSize /\ live \in SUBSET Node
  BY <1>2, InvWhenUsed DEF Good
<1>5. LowerKey(n, t) \/ RaiseKey(n, t)
  BY <1>3 DEF Renew
<1>6. StaleBy(bank') = StaleBy(bank) /\ live \cup {n} = live
  BY <1>2, <1>3
<1>7. heap.key \in [Node -> Time] /\ heap.key[n] \in Nat /\ t \in Nat
  <2>1. heap.key \in [Node -> Time]
    BY <1>4 DEF HeapType
  <2> QED
    BY <1>3, <2>1, HeapAssumption DEF Time
<1>8. ASSUME heap' = heap, live' = live, raises' = raises PROVE UNCHANGED <<stored, served>>
  <2>1. KeepsKeys(heap, live, heap')
    BY <1>8 DEF KeepsKeys
  <2> QED
    BY <1>2, <1>6, <1>8, <2>1, StoredStays
<1>9. ASSUME heap'.key = [heap.key EXCEPT ![n] = t], live' = live, status' = "ok",
             raises' = 0 <=> ~(t > heap.key[n]), ~(heap.key[n] = 0 /\ t > 0)
      PROVE  Bank!Next
  <2>1. \A e \in live : heap'.key[e] = IF e = n THEN t ELSE heap.key[e]
    BY <1>4, <1>7, <1>9
  <2>2. PICK b : b = StoredOf(heap, live, out, StaleBy(bank), 0)
    OBVIOUS
  <2>3. PICK g : g = heap'
    OBVIOUS
  <2>4. PICK raised : raised = raises'
    OBVIOUS
  <2>5. Bank!AddAll(b, {key}, c, t) = StoredOf(g, live, out, StaleBy(bank), raised)
    <3>1. raised = 0 <=> ~(n \in live /\ t > heap.key[n])
      BY <1>3, <1>9, <2>4
    <3>2. Adding(heap, live, out, key, c, t, g, live, out, raised)
      BY <1>1, <1>3, <1>4, <1>6, <2>1, <2>3, <3>1 DEF Adding
    <3> QED
      BY <2>2, <3>2, AddIs
  <2>6. stored' = Bank!AddAll(b, {key}, c, t)
    BY <1>2, <1>6, <1>9, <2>3, <2>4, <2>5, StoredNext
  <2> QED
    BY <1>1, <1>2, <1>3, <1>9, <2>2, <2>6, BankAdds
<1>10. CASE LowerKey(n, t)
  <2>1. /\ raises' = 0 /\ status' = "ok" /\ live' = live
        /\ \/ heap' = heap
           \/ t < heap.key[n] /\ heap'.key = [heap.key EXCEPT ![n] = t]
    BY <1>3, <1>4, <1>10, LowerKeyStep
  <2>2. CASE heap' = heap
    BY <1>8, <2>1, <2>2
  <2>3. CASE t < heap.key[n] /\ heap'.key = [heap.key EXCEPT ![n] = t]
    <3>1. ~(t > heap.key[n]) /\ ~(heap.key[n] = 0 /\ t > 0)
      BY <1>7, <2>3
    <3> QED
      BY <1>9, <2>1, <2>3, <3>1
  <2> QED
    BY <2>1, <2>2, <2>3
<1>11. CASE RaiseKey(n, t)
  <2>1. /\ t > heap.key[n] /\ live' = live
        /\ \/ raises' = 0 /\ heap' = heap
           \/ /\ raises' # 0 /\ status' = "ok" /\ heap.key[n] # 0
              /\ heap'.key = [heap.key EXCEPT ![n] = t]
    BY <1>3, <1>4, <1>11, RaiseKeyStep
  <2>2. CASE raises' = 0 /\ heap' = heap
    BY <1>8, <2>1, <2>2
  <2>3. CASE /\ raises' # 0 /\ status' = "ok" /\ heap.key[n] # 0
             /\ heap'.key = [heap.key EXCEPT ![n] = t]
    BY <1>9, <2>1, <2>3
  <2> QED
    BY <2>1, <2>2, <2>3
<1> QED
  BY <1>5, <1>10, <1>11

\* A turn of the owner's loop takes out a request that is due first.
LEMMA RemoveOverImplements ==
    ASSUME TInv, TInv', raises = 0, status' # "undefined", RemoveOver
    PROVE  Bank!Next
<1>1. /\ Agreeing /\ heap.root # NULL /\ twoKeys' = twoKeys /\ served' = served
  BY DEF RemoveOver, GoesOn
<1>2a. PICK n : n = heap.root
  OBVIOUS
<1>2b. PICK key : key = n[1]
  OBVIOUS
<1>2c. PICK c : c = n[2]
  OBVIOUS
<1>2. n = heap.root /\ key = n[1] /\ c = n[2]
  BY <1>2a, <1>2b, <1>2c
<1>5. /\ Sound /\ out \in [Client -> Counters] /\ TablesHold(bank) /\ MappedBy(bank) = live
  BY <1>1, InvWhenUsed DEF Agreeing
<1>3. /\ n \in live /\ n \in Node /\ key \in KeySets /\ HasClient(bank, key, c)
      /\ n = <<key, c>> /\ c \in Client
  BY <1>1, <1>2, <1>5, RootHasClient, NodesArePairs
<1>4. /\ bank' = RemoveByFq(bank, key, c) /\ out' = [out EXCEPT ![c] = Unsigned(@ - 1)]
      /\ RemoveMinimum
  BY <1>2, <1>3 DEF RemoveOver
<1>6. PICK after : after = RemoveByFq(bank, key, c)
  OBVIOUS
<1>7. MappedBy(after) = live \ {n} /\ StaleBy(after) = StaleBy(bank)
  BY <1>3, <1>5, <1>6, RemovedIs
<1>8. /\ raises' = 0
      /\ \/ status' = "threw" /\ live' = live
         \/ /\ status' = "ok" /\ \A e \in live : heap.key[n] <= heap.key[e]
            /\ live' = live \ {n} /\ \A e \in live' : heap'.key[e] = heap.key[e]
  BY <1>2, <1>4, <1>5, RemoveMinimumStep
<1>9. live' # live
  <2>1. MappedBy(bank') = live'
    BY <1>1, <1>8, SameNext DEF TInv
  <2> QED
    BY <1>3, <1>4, <1>6, <1>7, <2>1
<1>10. /\ status' = "ok" /\ \A e \in live : heap.key[n] <= heap.key[e]
       /\ live' = live \ {n} /\ KeepsKeys(heap, live', heap')
  BY <1>8, <1>9 DEF KeepsKeys
<1>11. PICK b : b = StoredOf(heap, live, out, StaleBy(bank), 0)
  OBVIOUS
<1>12. stored = b
  BY <1>11, StoredIs
<1>13. Bank!Expire(b, {n}) = StoredOf(heap', live', out', StaleBy(bank), 0)
  <2>1. Expiring(heap, live, out, key, c, heap', live', out')
    BY <1>3, <1>4, <1>5, <1>10 DEF Expiring
  <2> QED
    BY <1>3, <1>11, <2>1, ExpireIs
<1>14. stored' = Bank!Expire(b, {n})
  BY <1>1, <1>4, <1>6, <1>7, <1>8, <1>13, StoredNext
<1>15. Bank!Entries(b) = live /\ b.intact /\ \A e \in live : b.due[e] = heap.key[e]
  BY <1>11 DEF StoredOf, Bank!Entries
<1>16. Bank!RemoveMinimum
  BY <1>1, <1>3, <1>10, <1>12, <1>14, <1>15 DEF Bank!RemoveMinimum
<1> QED
  BY <1>16 DEF Bank!Next

\* remove_by_key does to both structures what it does to the open requests.
LEMMA RemoveByKeyImplements ==
    ASSUME TInv, raises = 0, status' # "undefined", NEW key \in KeySets, RemoveByKey(key)
    PROVE  Bank!Next
<1>1. Usable /\ status # "internal" /\ GetByPq(bank, key) # NULL
  BY DEF RemoveByKey, Ready
<1>2. PICK c, end : RemovalBy(key, c, end)
  BY RemovalOf
<1>3. /\ heap' = end.heap /\ live' = end.live /\ out' = end.out /\ served' = end.served
      /\ status' = end.status
      /\ bank' = IF end.status = "ok" THEN RemoveByPq(bank, key) ELSE bank
      /\ raises' = 0 /\ twoKeys' = twoKeys
      /\ c.from.live = live /\ c.from.heap = heap /\ c.from.out = out /\ c.from.served = served
      /\ c.n \in Nat /\ c.n >= 1 /\ c.s \in [1..c.n -> Client]
      /\ \A i \in 1..c.n : c.s[1] <= c.s[i]
      /\ \A d : d \in FirstOf(c, c.n) <=> HasClient(bank, key, d)
      /\ RemovalTyped(c, c.n, end)
  BY <1>2 DEF RemovalBy, RemovalKeeps, IsRemoval
<1>4. RemovalSound(c, c.n, end)
  BY <1>1, <1>2, RemovalStartsSound
<1>5. /\ Sound /\ out \in [Client -> Counters] /\ TablesHold(bank) /\ MappedBy(bank) = live
  BY <1>1, InvWhenUsed
<1>6. \A d \in Client : <<key, d>> \in live <=> d \in FirstOf(c, c.n)
  <2>1. ASSUME NEW d \in Client, HasClient(bank, key, d) PROVE <<key, d>> \in live
    BY <1>1, <2>1, FoundIs
  <2>2. ASSUME NEW d \in Client, <<key, d>> \in live PROVE HasClient(bank, key, d)
    BY <1>5, <2>2, NodesArePairs DEF MappedBy
  <2> QED
    BY <1>3, <2>1, <2>2
<1>7. PICK first : first = c.s[1]
  OBVIOUS
<1>8. /\ first \in Client /\ <<key, first>> \in live
      /\ \A d \in Client : <<key, d>> \in live => first <= d
  <2>1. 1 \in 1..c.n
    BY <1>3
  <2>2. first \in Client /\ first \in FirstOf(c, c.n)
    BY <1>3, <1>7, <2>1 DEF FirstOf
  <2>3. \A d \in FirstOf(c, c.n) : first <= d
    BY <1>3, <1>7 DEF FirstOf
  <2> QED
    BY <1>6, <2>2, <2>3
<1>9. PICK b : b = StoredOf(heap, live, out, StaleBy(bank), 0)
  OBVIOUS
<1>10. stored = b
  BY <1>9, StoredIs
<1>11. key \in KeySet /\ Bank!Contains(b, key) /\ b.intact
  <2>1. Bank!Subscribers(b, key) = {d \in Client : <<key, d>> \in live} /\ b.intact
    BY <1>9 DEF StoredOf, Bank!Entries, Bank!Subscribers
  <2> QED
    BY <1>8, <2>1 DEF Bank!Contains, KeySets
<1>12. ASSUME stored' = Bank!RemoveByKey(b, key, twoKeys),
              served' = served \cup Bank!Written(b, key),
              status' = IF Bank!RemoveByKeyThrows(b) THEN "threw" ELSE "ok"
       PROVE  Bank!Next
  <2>1. Bank!RemoveKey(key)
    BY <1>3, <1>10, <1>11, <1>12 DEF Bank!RemoveKey
  <2> QED
    BY <1>11, <2>1 DEF Bank!Next
<1>13. CASE SomeZero(c)
  <2>1. FirstThrew(c, end)
    BY <1>3, <1>4, <1>13 DEF RemovalSound
  <2>2. /\ status' = "threw" /\ heap' = heap /\ live' = live /\ bank' = bank
        /\ out' = [out EXCEPT ![first] = Unsigned(-1)] /\ served' = served \cup {first}
    BY <1>3, <1>7, <2>1 DEF FirstThrew
  <2>3. \E e \in live : heap.key[e] = 0
    BY <1>3, <1>13 DEF SomeZero
  <2>4. /\ Bank!RemoveByKeyThrows(b) /\ Bank!Written(b, key) = {first}
        /\ Bank!RemoveByKey(b, key, twoKeys) = StoredOf(heap, live, out', StaleBy(bank), 0)
    <3>1. Refusing(heap, live, out, key, first, out')
      BY <1>5, <1>8, <2>2, <2>3 DEF Refusing
    <3> QED
      BY <1>9, <3>1, RemovalThrows
  <2>5. stored' = StoredOf(heap, live, out', StaleBy(bank), 0)
    BY <1>3, <2>2, StoredNext
  <2> QED
    BY <1>12, <2>2, <2>4, <2>5
<1>14. CASE ~SomeZero(c)
  <2>1. FirstRemoved(c, c.n, end)
    BY <1>3, <1>4, <1>14 DEF RemovalSound
  <2>2. /\ status' = "ok" /\ KeepsKeys(heap, live', heap')
        /\ served' = served \cup FirstOf(c, c.n)
        /\ \A d \in Client : out'[d] = IF d \in FirstOf(c, c.n) THEN Unsigned(-1) ELSE out[d]
    BY <1>3, <2>1 DEF FirstRemoved, KeepsKeys
  <2>3. \A e \in live : heap.key[e] # 0
    BY <1>3, <1>14 DEF SomeZero
  <2>4. live' = {e \in live : e[1] # key}
    <3>1. live' = live \ NodesOf(c, c.n)
      BY <1>3, <2>1 DEF FirstRemoved
    <3>2. \A e \in live : e \in NodesOf(c, c.n) <=> e[1] = key
      BY <1>2, <1>5, NodesOfKey
    <3> QED
      BY <3>1, <3>2
  <2>5. out' \in [Client -> Counters]
    BY <1>3 DEF RemovalTyped, Removing
  <2>6. PICK after : after = RemoveByPq(bank, key)
    OBVIOUS
  <2>7. PICK nulls : nulls = IF twoKeys THEN StaleBy(bank) \cup {key} ELSE StaleBy(bank)
    OBVIOUS
  <2>8. bank' = after /\ StaleBy(after) = nulls
    BY <1>1, <1>3, <1>5, <2>2, <2>6, <2>7, KeyRemovedIs
  <2>9. \A d \in Client : out'[d] = IF <<key, d>> \in live THEN Unsigned(-1) ELSE out[d]
    BY <1>6, <2>2
  <2>10. /\ ~Bank!RemoveByKeyThrows(b)
         /\ Bank!Written(b, key) = {d \in Client : <<key, d>> \in live}
         /\ Bank!RemoveByKey(b, key, twoKeys) = StoredOf(heap', live', out', nulls, 0)
    <3>1. Clearing(heap, live, out, StaleBy(bank), key, heap', live', out', nulls)
      BY <2>2, <2>3, <2>4, <2>5, <2>7, <2>9 DEF Clearing
    <3> QED
      BY <1>9, <3>1, RemovalEnds
  <2>11. Bank!Written(b, key) = FirstOf(c, c.n)
    <3>1. \A d \in FirstOf(c, c.n) : d \in Client
      BY <1>3 DEF FirstOf
    <3> QED
      BY <1>6, <2>10, <3>1
  <2>12. stored' = StoredOf(heap', live', out', nulls, 0)
    BY <1>3, <2>8, StoredNext
  <2> QED
    BY <1>12, <2>2, <2>10, <2>11, <2>12
<1> QED
  BY <1>13, <1>14

\* Every step is one of RequestBank, or leaves what is stored.
LEMMA TablesStepImplements ==
    ASSUME TInv, TInv', raises = 0, status' # "undefined", [TablesNext]_tableVars
    PROVE  Bank!Next \/ UNCHANGED <<stored, served>>
<1>1. ASSUME heap' = heap, live' = live, raises' = raises, bank' = bank, out' = out,
             twoKeys' = twoKeys, served' = served
      PROVE  UNCHANGED <<stored, served>>
  <2>1. KeepsKeys(heap, live, heap') /\ StaleBy(bank') = StaleBy(bank)
    BY <1>1 DEF KeepsKeys
  <2> QED
    BY <1>1, <2>1, StoredStays
<1>2. ASSUME NEW e \in Node, NEW t \in Timeouts, e[1] \in KeySets /\ Add(e[1], e[2], t)
      PROVE  Bank!Next \/ UNCHANGED <<stored, served>>
  <2>1a. PICK key : key = e[1]
    OBVIOUS
  <2>1b. PICK c : c = e[2]
    OBVIOUS
  <2>1. /\ key \in KeySets /\ <<key, c>> \in Node /\ t \in Time /\ Add(key, c, t)
        /\ Ready /\ UNCHANGED <<twoKeys, until, served>>
    BY <1>2, <2>1a, <2>1b, NodesArePairs, TablesAssumption DEF Add
  <2>2. CASE IsStale(bank, key)
    BY <1>1, <2>1, <2>2 DEF Add, Throw
  <2>3. CASE ~IsStale(bank, key) /\ HasClient(bank, key, c)
    <3>1. Renew(key, c, t)
      BY <2>1, <2>3 DEF Add
    <3> QED
      BY <2>1, <2>3, <3>1, RenewImplements
  <2>4. CASE ~IsStale(bank, key) /\ ~HasClient(bank, key, c)
    <3>1. AddNew(key, c, t)
      BY <2>1, <2>4 DEF Add
    <3> QED
      BY <2>1, <2>4, <3>1, AddNewImplements
  <2> QED
    BY <2>2, <2>3, <2>4
<1>3. ASSUME NEW key \in KeySets, RemoveByKey(key) PROVE Bank!Next
  BY <1>3, RemoveByKeyImplements
<1>4. ASSUME NEW t \in Nows, BeginTimeouts(t) PROVE UNCHANGED <<stored, served>>
  BY <1>1, <1>4 DEF BeginTimeouts, heapVars
<1>5. CASE RemoveOver
  BY <1>5, RemoveOverImplements
<1>6. CASE EndTimeouts
  BY <1>1, <1>6 DEF EndTimeouts, heapVars
<1>7. CASE UNCHANGED tableVars
  BY <1>1, <1>7 DEF tableVars, vars
<1> QED
  BY <1>2, <1>3, <1>4, <1>5, <1>6, <1>7 DEF TablesNext

\* An empty bank is RequestBank's.
LEMMA TablesInitImplements ==
    ASSUME TablesInit
    PROVE  Bank!Init
<1>1. /\ heap = EmptyHeap /\ live = {} /\ status = "ok" /\ raises = 0 /\ twoKeys \in BOOLEAN
      /\ bank = Sized(NearestPrime(Size1)) /\ out = [c \in Client |-> 0] /\ served = {}
  BY DEF TablesInit, Init
<1>2. StaleBy(bank) = {}
  BY <1>1, EmptyHolds
<1>3. stored = StoredOf(heap, {}, out, {}, 0)
  BY <1>1, <1>2, StoredIs
<1>4. StoredOf(heap, {}, out, {}, 0) = Bank!EmptyBank
  <2>1. [e \in {} |-> heap.key[e]] = [e \in {} |-> 0]
    OBVIOUS
  <2> QED
    BY <1>1, <2>1 DEF StoredOf, Bank!EmptyBank
<1> QED
  BY <1>1, <1>3, <1>4 DEF Bank!Init

\* The heap with its pointers and the hash of maps do together what RequestBank says of a set
\* of open requests: every call, and every turn of the owner's loop, is a step of that module
\* or leaves what it sees, up to the first renewal to a later timeout.  So what holds of
\* RequestBank, as CounterTracks, holds of what is stored.
THEOREM BankIsImplemented == TablesSpec => ImplementsBank
<1>1. TablesInit => Bank!Init
  BY TablesInitImplements
<1>2. TInv /\ TInv' /\ [TablesNext]_tableVars =>
          [raises > 0 \/ status' = "undefined" \/ Bank!Next \/ UNCHANGED <<stored, served>>]_tableVars
  <2> SUFFICES ASSUME TInv, TInv', [TablesNext]_tableVars, ~(raises > 0), status' # "undefined"
               PROVE  Bank!Next \/ UNCHANGED <<stored, served>>
    OBVIOUS
  <2>1. raises = 0
    BY RaisesAssumption DEF TInv, TablesTypeOK
  <2> QED
    BY <2>1, TablesStepImplements
<1> QED
  BY <1>1, <1>2, TInvAlways, PTL DEF TablesSpec, ImplementsBank

-----------------------------------------------------------------------------
(* After a key was raised *)

\* Heap and maps hold the same requests, and no call met a pointer to a node that is gone.
AInv ==
    /\ status # "dangling"
    /\ status \in {"ok", "threw"} => MappedBy(bank) = live

\* It holds after a step if what is said of the bank of maps holds of the next one.
LEMMA AInvNext ==
    ASSUME twoKeys' = twoKeys, status' # "dangling",
           status' \in {"ok", "threw"} => MappedBy(bank') = live'
    PROVE  AInv'
BY SameNext DEF AInv

\* As long as the root has the least key, add keeps the agreement: also a renewal.
LEMMA AddAgrees ==
    ASSUME TInv, AInv, NEW e \in Node, NEW t \in Timeouts, e[1] \in KeySets, Add(e[1], e[2], t)
    PROVE  AInv'
<1>1. PICK key : key = e[1]
  OBVIOUS
<1>2. PICK c : c = e[2]
  OBVIOUS
<1>3. key \in KeySets /\ <<key, c>> \in Node /\ t \in Time /\ Add(key, c, t)
  BY <1>1, <1>2, NodesArePairs, TablesAssumption
<1>4. PICK node : node = <<key, c>>
  OBVIOUS
<1>5. Usable /\ Ready /\ UNCHANGED <<twoKeys, until, served>>
  BY <1>3 DEF Add, Throw, AddNew, Renew, Insert, LowerKey, RaiseKey, AlterKey
<1>6. TypeOK /\ TablesHold(bank) /\ MappedBy(bank) = live
  BY <1>5, InvWhenUsed DEF Ready, AInv
<1>7. CASE IsStale(bank, key)
  <2>1. status' = "threw" /\ live' = live /\ bank' = bank
    BY <1>3, <1>7 DEF Add, Throw
  <2> QED
    BY <1>5, <1>6, <2>1, AInvNext
<1>8. CASE ~IsStale(bank, key) /\ HasClient(bank, key, c)
  <2>1. Renew(key, c, t) /\ bank' = bank
    BY <1>3, <1>8 DEF Add, Renew
  <2>2. node \in live /\ node \in Node /\ GetByPq(bank, key)[c] = node
    BY <1>3, <1>4, <1>5, <1>6, <1>8, FoundIs
  <2>3. Next /\ live' = live
    <3>1. LowerKey(node, t) \/ RaiseKey(node, t)
      BY <2>1, <2>2 DEF Renew
    <3> QED
      BY <1>3, <2>2, <3>1 DEF Next, LowerKey, RaiseKey, AlterKey
  <2>4. status' # "dangling"
    <3>1. TypeOK'
      BY <1>5, <2>3, HeapNext
    <3> QED
      BY <3>1 DEF TypeOK
  <2> QED
    BY <1>5, <1>6, <2>1, <2>3, <2>4, AInvNext
<1>9. CASE ~IsStale(bank, key) /\ ~HasClient(bank, key, c)
  <2>1. /\ Insert(node, t) /\ status' = "ok" /\ live' = live \cup {node}
        /\ bank' = AddByFq(bank, key, c, node)
    BY <1>3, <1>4, <1>9 DEF Add, AddNew, Insert
  <2>2. PICK after : after = AddByFq(bank, key, c, node)
    OBVIOUS
  <2>3. MappedBy(after) = MappedBy(bank) \cup {node}
    BY <1>3, <1>4, <1>6, <1>9, <2>2, AddedIs
  <2> QED
    BY <1>5, <1>6, <2>1, <2>2, <2>3, AInvNext
<1> QED
  BY <1>7, <1>8, <1>9

\* So does a turn of the owner's loop.
LEMMA RemoveOverAgrees ==
    ASSUME TInv, AInv, RemoveOver
    PROVE  AInv'
<1>1. PICK node : node = heap.root
  OBVIOUS
<1>2. PICK key : key = node[1]
  OBVIOUS
<1>3. PICK c : c = node[2]
  OBVIOUS
<1>4. Usable /\ Agreeing /\ heap.root # NULL /\ UNCHANGED <<twoKeys, until, served>>
  BY DEF RemoveOver, Agreeing, GoesOn
<1>7. TablesHold(bank) /\ MappedBy(bank) = live /\ heap \in HeapType
  BY <1>4, InvWhenUsed DEF Agreeing, AInv
<1>5. /\ node \in live /\ node \in Node /\ key \in KeySets /\ HasClient(bank, key, c)
      /\ node = <<key, c>> /\ c \in Client
  BY <1>1, <1>2, <1>3, <1>4, <1>7, RootHasClient, NodesArePairs
<1>6. bank' = RemoveByFq(bank, key, c) /\ RemoveMinimum
  BY <1>1, <1>2, <1>3, <1>5 DEF RemoveOver
<1>8. PICK after : after = RemoveByFq(bank, key, c)
  OBVIOUS
<1>9. MappedBy(after) = MappedBy(bank) \ {node}
  BY <1>5, <1>7, <1>8, RemovedIs
<1>10. status' # "dangling" /\ status' # "threw" /\ (status' = "ok" => live' = live \ {node})
  <2>1. PICK r : r = RemoveMinimumH(heap)
    OBVIOUS
  <2>2. Extracted(heap, r)
    BY <1>4, <1>6, <2>1 DEF RemoveMinimum
  <2>3. r.status \in Ends /\ r.status # "threw"
    BY <1>1, <1>5, <1>7, <2>1, RemoveMinimumTyped
  <2> QED
    BY <1>1, <2>2, <2>3 DEF Extracted, Ends
<1> QED
  BY <1>4, <1>6, <1>7, <1>8, <1>9, <1>10, AInvNext

\* So does remove_by_key: the first subscriber makes it throw, or none.
LEMMA RemoveByKeyAgrees ==
    ASSUME TInv, AInv, LeastFirst, NEW key \in KeySets, RemoveByKey(key)
    PROVE  AInv'
<1>1. Usable /\ status # "internal" /\ GetByPq(bank, key) # NULL
  BY DEF RemoveByKey, Ready
<1>2. PICK c, end : RemovalBy(key, c, end)
  BY RemovalOf
<1>3. /\ live' = end.live /\ status' = end.status
      /\ bank' = IF end.status = "ok" THEN RemoveByPq(bank, key) ELSE bank
      /\ twoKeys' = twoKeys /\ c.key = key
      /\ c.from.live = live /\ c.from.heap = heap
      /\ StartsLeast(c) => RemovalLeast(c, c.n, end)
  BY <1>2 DEF RemovalBy, RemovalKeeps
<1>4. TablesHold(bank) /\ MappedBy(bank) = live
  BY <1>1, InvWhenUsed DEF AInv
<1>5. StartsLeast(c)
  <2>1. ASSUME NEW i \in 1..c.n PROVE <<c.key, c.s[i]>> \in c.from.live
    <3>1. c.s[i] \in FirstOf(c, c.n)
      BY DEF FirstOf
    <3>2. HasClient(bank, key, c.s[i])
      BY <1>2, <3>1 DEF RemovalBy
    <3> QED
      BY <1>1, <1>3, <1>4, <3>2, FoundIs
  <2> QED
    BY <1>1, <1>3, <2>1 DEF StartsLeast, LeastFirst
<1>6. RemovalLeast(c, c.n, end)
  BY <1>3, <1>5
<1>7. CASE status' = "ok"
  <2>1. PICK after : after = RemoveByPq(bank, key)
    OBVIOUS
  <2>2. MappedBy(after) = {e \in MappedBy(bank) : e[1] # key}
    BY <1>1, <1>4, <2>1, KeyRemovedIs
  <2>3. live' = live \ NodesOf(c, c.n)
    BY <1>3, <1>6, <1>7 DEF RemovalLeast
  <2>4. \A e \in live : e \in NodesOf(c, c.n) <=> e[1] = key
    BY <1>2, <1>4, NodesOfKey
  <2>5. MappedBy(after) = live'
    BY <1>4, <2>2, <2>3, <2>4
  <2> QED
    BY <1>3, <1>7, <2>1, <2>5, AInvNext
<1>8. CASE status' # "ok"
  <2>1. bank' = bank /\ status' # "dangling" /\ (status' = "threw" => live' = live)
    BY <1>3, <1>6, <1>8 DEF RemovalLeast
  <2> QED
    BY <1>3, <1>4, <1>8, <2>1, AInvNext
<1> QED
  BY <1>7, <1>8

\* Every step keeps the agreement, as long as the root has the least key.
LEMMA AInvStep ==
    TInv /\ AInv /\ LeastFirst /\ [TablesNext]_tableVars => AInv'
<1> SUFFICES ASSUME TInv, AInv, LeastFirst, [TablesNext]_tableVars PROVE AInv'
  OBVIOUS
<1>1. ASSUME NEW e \in Node, NEW t \in Timeouts, e[1] \in KeySets /\ Add(e[1], e[2], t)
      PROVE  AInv'
  BY <1>1, AddAgrees
<1>2. ASSUME NEW key \in KeySets, RemoveByKey(key) PROVE AInv'
  BY <1>2, RemoveByKeyAgrees
<1>3. ASSUME NEW t \in Nows, BeginTimeouts(t) PROVE AInv'
  <2>1. /\ Usable /\ status # "internal" /\ status' = "ok" /\ live' = live /\ twoKeys' = twoKeys
        /\ bank' = bank
    BY <1>3 DEF BeginTimeouts, Ready, heapVars
  <2> QED
    BY <2>1, InvWhenUsed, AInvNext DEF AInv
<1>4. CASE RemoveOver
  BY <1>4, RemoveOverAgrees
<1>5. CASE EndTimeouts
  <2>1. /\ Usable /\ status # "internal" /\ live' = live /\ twoKeys' = twoKeys /\ bank' = bank
        /\ status' = "threw" \/ status' = status
    BY <1>5 DEF EndTimeouts, Agreeing, heapVars
  <2> QED
    BY <2>1, InvWhenUsed, AInvNext DEF AInv
<1>6. CASE UNCHANGED tableVars
  <2>1. status' = status /\ live' = live /\ twoKeys' = twoKeys /\ bank' = bank
    BY <1>6 DEF tableVars, vars
  <2> QED
    BY <2>1, AInvNext DEF AInv
<1> QED
  BY <1>1, <1>2, <1>3, <1>4, <1>5, <1>6 DEF TablesNext

\* Also after keys were raised, with links that are no longer in order: as long as the heap
\* finds the least key first, heap and maps hold the same requests, no map is empty, and no call
\* follows a pointer to a node that is gone.  A wrong m_root_with_min_key is all that could make
\* them differ: remove_by_key would throw after it has removed some of the subscribers.
THEOREM TablesAgreeWhileLeast == TablesSpec /\ []LeastFirst => []TablesAgree
<1>1. TablesInit => AInv
  <2> SUFFICES ASSUME TablesInit PROVE AInv
    OBVIOUS
  <2>1. live = {} /\ status = "ok" /\ bank = Sized(NearestPrime(Size1)) /\ twoKeys \in BOOLEAN
    BY DEF TablesInit, Init
  <2>2. MappedBy(bank) = {}
    BY <2>1, EmptyHolds
  <2> QED
    BY <2>1, <2>2 DEF AInv
<1>2. TInv /\ AInv /\ LeastFirst /\ [TablesNext]_tableVars => AInv'
  BY AInvStep
<1>3. ASSUME TInv, AInv PROVE TablesAgree
  <2>1. ASSUME Agreeing PROVE NodesAreMapped /\ MapsAreLive
    <3>1. MappedBy(bank) = live /\ Mapped = live /\ Populated(bank)
      BY <1>3, <2>1, InvWhenUsed DEF Agreeing, AInv, Mapped, MappedBy, TInv, TablesHold
    <3> QED
      BY <1>3, <3>1, NodesMapped DEF MapsAreLive, Populated
  <2> QED
    BY <1>3, <2>1 DEF TablesAgree, AInv
<1>4. TInv /\ AInv => TablesAgree
  BY <1>3
<1> QED
  BY <1>1, <1>2, <1>4, TInvAlways, PTL DEF TablesSpec
=============================================================================
