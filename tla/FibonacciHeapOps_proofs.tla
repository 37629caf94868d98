---------------------- MODULE FibonacciHeapOps_proofs -----------------------
(***************************************************************************)
(* The operators of FibonacciHeapOps: what each one writes, the types it    *)
(* keeps, and the trees it keeps when the heap has them.  The loops are     *)
(* folds, and what each turn keeps is carried over the loop by              *)
(* FoldInduction.                                                          *)
(***************************************************************************)
EXTENDS FibonacciHeapOps, FiniteSetTheorems, SequenceTheorems, TLAPS

-----------------------------------------------------------------------------
(* Rings *)

\* A is one ring of next, doubly linked by prev: whatever is closed under next is all of it.
IsRing(next, prev, A) ==
    /\ A # {}
    /\ \A x \in A : /\ next[x] \in A /\ prev[x] \in A
                    /\ prev[next[x]] = x /\ next[prev[x]] = x
    /\ \A S \in SUBSET A : S # {} /\ (\A x \in S : next[x] \in S) => S = A

\* Neighbours in a ring are in it, and next and prev are inverse.
LEMMA RingLinks ==
    ASSUME NEW next, NEW prev, NEW A, IsRing(next, prev, A)
    PROVE  \A x \in A : /\ next[x] \in A /\ prev[x] \in A
                       /\ prev[next[x]] = x /\ next[prev[x]] = x
BY DEF IsRing

\* A part of a ring that next does not leave is all of it.
LEMMA RingCloses ==
    ASSUME NEW next, NEW prev, NEW A, IsRing(next, prev, A),
           NEW S \in SUBSET A, S # {}, \A x \in S : next[x] \in S
    PROVE  S = A
BY DEF IsRing

\* A ring is one where the links of its nodes are the same.
LEMMA RingStays ==
    ASSUME NEW next, NEW prev, NEW next1, NEW prev1, NEW A, IsRing(next, prev, A),
           \A x \in A : next1[x] = next[x] /\ prev1[x] = prev[x]
    PROVE  IsRing(next1, prev1, A)
BY DEF IsRing

\* A node whose links lead to itself is a ring.
LEMMA RingOfOne ==
    ASSUME NEW next, NEW prev, NEW x, next[x] = x, prev[x] = x
    PROVE  IsRing(next, prev, {x})
BY DEF IsRing

\* The test m_next == this tells a ring of one node (is_single).
LEMMA RingIsOne ==
    ASSUME NEW next, NEW prev, NEW A, IsRing(next, prev, A), NEW x \in A
    PROVE  next[x] = x <=> A = {x}
<1>1. ASSUME next[x] = x PROVE A = {x}
  <2>1. {x} \in SUBSET A /\ {x} # {} /\ \A y \in {x} : next[y] \in {x}
    BY <1>1
  <2> QED
    BY <2>1 DEF IsRing
<1>2. ASSUME A = {x} PROVE next[x] = x
  BY <1>2 DEF IsRing
<1> QED
  BY <1>1, <1>2

\* The links after FibonacciHeapNode::insert and ::remove.
Spliced(next, prev, a, b, next1, prev1) ==
    /\ next1 = [next EXCEPT ![prev[b]] = next[a], ![a] = b]
    /\ prev1 = [prev EXCEPT ![next[a]] = prev[b], ![b] = a]

Unspliced(next, prev, x, next1, prev1) ==
    /\ next1 = [next EXCEPT ![prev[x]] = next[x], ![x] = x]
    /\ prev1 = [prev EXCEPT ![next[x]] = prev[x], ![x] = x]

\* The links of all nodes but those of A, and those of A and of x.
KeptBeside(next, prev, A, next1, prev1) ==
    \A y \in Node \ A : next1[y] = next[y] /\ prev1[y] = prev[y]

Alone(next, prev, x) == next[x] = x /\ prev[x] = x

RingOfBoth(next, prev, A, B) == IsRing(next, prev, A \cup B)
RingWithout(next, prev, A, x) == IsRing(next, prev, A \ {x})

\* insert makes one ring of two.
LEMMA RingsJoin ==
    ASSUME NEW next \in [Node -> Node], NEW prev \in [Node -> Node],
           NEW A \in SUBSET Node, NEW B \in SUBSET Node, A \cap B = {},
           IsRing(next, prev, A), IsRing(next, prev, B), NEW a \in A, NEW b \in B,
           NEW next1, NEW prev1, Spliced(next, prev, a, b, next1, prev1)
    PROVE  /\ RingOfBoth(next1, prev1, A, B)
           /\ \A M : A \subseteq M /\ B \subseteq M => KeptBeside(next, prev, M, next1, prev1)
<1>1. /\ \A x \in A : next[x] \in A /\ prev[x] \in A /\ prev[next[x]] = x /\ next[prev[x]] = x
      /\ \A x \in B : next[x] \in B /\ prev[x] \in B /\ prev[next[x]] = x /\ next[prev[x]] = x
      /\ prev[b] \in B /\ next[a] \in A
  BY DEF IsRing
<1>2. /\ next1[a] = b /\ next1[prev[b]] = next[a]
      /\ \A x \in Node \ {a, prev[b]} : next1[x] = next[x]
      /\ prev1[b] = a /\ prev1[next[a]] = prev[b]
      /\ \A x \in Node \ {b, next[a]} : prev1[x] = prev[x]
  BY <1>1 DEF Spliced
<1>3. \A x \in A \cup B : /\ next1[x] \in A \cup B /\ prev1[x] \in A \cup B
                          /\ prev1[next1[x]] = x /\ next1[prev1[x]] = x
  BY <1>1, <1>2
<1>4. ASSUME NEW S \in SUBSET (A \cup B), S # {}, \A x \in S : next1[x] \in S
      PROVE  S = A \cup B
  <2>1. a \in S
    <3>1. CASE S \cap A # {}
      <4>1. a \notin S => \A x \in S \cap A : next[x] \in S \cap A
        BY <1>1, <1>2, <1>4
      <4>2. a \notin S => S \cap A = A
        BY <3>1, <4>1, RingCloses
      <4> QED
        BY <4>2
    <3>2. CASE S \cap B # {} /\ S \cap A = {}
      <4>1. prev[b] \notin S
        BY <1>1, <1>2, <1>4, <3>2
      <4>2. \A x \in S \cap B : next[x] \in S \cap B
        BY <1>1, <1>2, <1>4, <4>1, <3>2
      <4>3. S \cap B = B
        BY <3>2, <4>2, RingCloses
      <4> QED
        BY <1>1, <4>1, <4>3
    <3> QED
      BY <1>4, <3>1, <3>2
  <2>2. b \in S
    BY <1>2, <1>4, <2>1
  <2>3. prev[b] \in S
    <3>1. prev[b] \notin S => \A x \in S \cap B : next[x] \in S \cap B
      BY <1>1, <1>2, <1>4
    <3>2. prev[b] \notin S => S \cap B = B
      BY <2>2, <3>1, RingCloses
    <3> QED
      BY <1>1, <3>2
  <2>4. next[a] \in S
    BY <1>2, <1>4, <2>3
  <2>5. \A x \in S \cap A : next[x] \in S \cap A
    BY <1>1, <1>2, <1>4, <2>4
  <2>6. \A x \in S \cap B : next[x] \in S \cap B
    BY <1>1, <1>2, <1>4, <2>2
  <2>7. S \cap A = A /\ S \cap B = B
    BY <2>1, <2>2, <2>5, <2>6, RingCloses
  <2> QED
    BY <2>7
<1>5. A \cup B # {}
  OBVIOUS
<1> QED
  <2>1. IsRing(next1, prev1, A \cup B)
    BY <1>3, <1>4, <1>5 DEF IsRing
  <2>2. \A x \in Node \ (A \cup B) : next1[x] = next[x] /\ prev1[x] = prev[x]
    BY <1>1, <1>2
  <2> QED
    BY <2>1, <2>2 DEF RingOfBoth, KeptBeside

\* remove leaves the rest of the ring, and a ring of its own.
LEMMA RingsPart ==
    ASSUME NEW next \in [Node -> Node], NEW prev \in [Node -> Node],
           NEW A \in SUBSET Node, IsRing(next, prev, A), NEW x \in A, A # {x},
           NEW next1, NEW prev1, Unspliced(next, prev, x, next1, prev1)
    PROVE  /\ RingWithout(next1, prev1, A, x)
           /\ Alone(next1, prev1, x)
           /\ KeptBeside(next, prev, A, next1, prev1)
<1>1. \A y \in A : next[y] \in A /\ prev[y] \in A /\ prev[next[y]] = y /\ next[prev[y]] = y
  BY DEF IsRing
<1>2. next[x] # x /\ prev[x] # x
  BY <1>1, RingIsOne
<1>3. /\ next1[x] = x /\ next1[prev[x]] = next[x]
      /\ \A y \in Node \ {x, prev[x]} : next1[y] = next[y]
      /\ prev1[x] = x /\ prev1[next[x]] = prev[x]
      /\ \A y \in Node \ {x, next[x]} : prev1[y] = prev[y]
  BY <1>1, <1>2 DEF Unspliced
<1>4. \A y \in A \ {x} : /\ next1[y] \in A \ {x} /\ prev1[y] \in A \ {x}
                         /\ prev1[next1[y]] = y /\ next1[prev1[y]] = y
  BY <1>1, <1>2, <1>3
<1>5. ASSUME NEW S \in SUBSET (A \ {x}), S # {}, \A y \in S : next1[y] \in S
      PROVE  S = A \ {x}
  <2>1. CASE prev[x] \in S
    <3>1. \A y \in S \cup {x} : next[y] \in S \cup {x}
      BY <1>1, <1>3, <1>5, <2>1
    <3>2. S \cup {x} = A
      <4>1. S \cup {x} \in SUBSET A /\ S \cup {x} # {}
        OBVIOUS
      <4> QED
        BY <3>1, <4>1, RingCloses
    <3> QED
      BY <1>5, <3>2
  <2>2. CASE prev[x] \notin S
    <3>1. \A y \in S : next[y] \in S
      BY <1>1, <1>3, <1>5, <2>2
    <3> QED
      BY <1>5, <3>1, RingCloses
  <2> QED
    BY <2>1, <2>2
<1>6. A \ {x} # {}
  OBVIOUS
<1>7. IsRing(next1, prev1, A \ {x})
  BY <1>4, <1>5, <1>6 DEF IsRing
<1> QED
  BY <1>1, <1>3, <1>7 DEF RingWithout, Alone, KeptBeside

-----------------------------------------------------------------------------
(* The fields after each operation of a node *)

\* The counters have room for 1, and % CountRange changes nothing that is in range.
LEMMA Wraps ==
    /\ CountRange \in Nat /\ CountRange > 1 /\ HeapSize \in Nat /\ HeapSize >= 1
    /\ \A x \in Int : x % CountRange \in 0..(CountRange - 1)
    /\ \A x \in 0..(CountRange - 1) : x % CountRange = x
<1>1. Cardinality(Node) \in Nat
  BY HeapAssumption, FS_CardinalityType
<1>2. CountRange \in Nat /\ CountRange > 1 /\ HeapSize \in Nat /\ HeapSize >= 1
  BY <1>1, HeapAssumption
<1>3. ASSUME NEW x \in Int PROVE x % CountRange \in 0..(CountRange - 1)
  BY <1>2
<1>4. ASSUME NEW x \in 0..(CountRange - 1) PROVE x % CountRange = x
  BY <1>2
<1> QED
  BY <1>2, <1>3, <1>4

\* A pointer that is not NULL is a node.
LEMMA Pointers ==
    /\ Node \subseteq Pointer /\ NULL \in Pointer /\ NULL \notin Node
    /\ \A p \in Pointer : p # NULL => p \in Node
BY HeapAssumption DEF Pointer

\* Fields that no operation on the links changes.
RestKept(h, g) == g.key = h.key /\ g.count = h.count /\ g.maxDegree = h.maxDegree

RingInserted(h, a, b, g) ==
    /\ g \in HeapType
    /\ Spliced(h.next, h.prev, a, b, g.next, g.prev)
    /\ g.child = h.child /\ g.parent = h.parent /\ g.root = h.root
    /\ g.degree = h.degree /\ g.mark = h.mark
    /\ RestKept(h, g)

\* insert writes these four links, also if the rings have one node.
LEMMA RingInsertIs ==
    ASSUME NEW h \in HeapType, NEW a \in Node, NEW b \in Node
    PROVE  RingInserted(h, a, b, RingInsert(h, a, b))
BY DEF RingInserted, Spliced, RestKept, RingInsert, HeapType

RingRemoved(h, b, g) ==
    /\ g \in HeapType
    /\ Unspliced(h.next, h.prev, b, g.next, g.prev)
    /\ g.child = h.child /\ g.parent = h.parent /\ g.root = h.root
    /\ g.degree = h.degree /\ g.mark = h.mark
    /\ RestKept(h, g)

\* remove writes these four links, also if its ring has two nodes.
LEMMA RingRemoveIs ==
    ASSUME NEW h \in HeapType, NEW b \in Node
    PROVE  RingRemoved(h, b, RingRemove(h, b))
BY DEF RingRemoved, Unspliced, RestKept, RingRemove, HeapType

\* A child is linked: to nothing, or behind the first child.
ChildAdded(h, a, b, g) ==
    /\ g \in HeapType
    /\ IF h.child[a] = NULL
       THEN g.next = h.next /\ g.prev = h.prev
       ELSE Spliced(h.next, h.prev, h.child[a], b, g.next, g.prev)
    /\ g.child = [h.child EXCEPT ![a] = IF h.child[a] = NULL THEN b ELSE h.child[a]]
    /\ g.parent = [h.parent EXCEPT ![b] = a]
    /\ g.mark = [h.mark EXCEPT ![b] = FALSE]
    /\ g.degree = [h.degree EXCEPT ![a] = (h.degree[a] + 1) % CountRange]
    /\ g.root = h.root
    /\ RestKept(h, g)

\* add_child, to a node with children or without.
LEMMA AddChildIs ==
    ASSUME NEW h \in HeapType, NEW a \in Node, NEW b \in Node
    PROVE  ChildAdded(h, a, b, AddChild(h, a, b))
<1>1. h.child[a] \in Pointer
  BY DEF HeapType
<1>2. (h.degree[a] + 1) % CountRange \in 0..(CountRange - 1)
  BY Wraps DEF HeapType
<1>3. PICK linked : linked = IF h.child[a] = NULL THEN [h EXCEPT !.child[a] = b]
                             ELSE RingInsert(h, h.child[a], b)
  OBVIOUS
<1>4. /\ linked \in HeapType
      /\ IF h.child[a] = NULL
         THEN linked.next = h.next /\ linked.prev = h.prev
         ELSE Spliced(h.next, h.prev, h.child[a], b, linked.next, linked.prev)
      /\ linked.child = [h.child EXCEPT ![a] = IF h.child[a] = NULL THEN b ELSE h.child[a]]
      /\ linked.parent = h.parent /\ linked.mark = h.mark /\ linked.degree = h.degree
      /\ linked.root = h.root /\ RestKept(h, linked)
  <2>1. CASE h.child[a] = NULL
    BY <1>3, <2>1, Pointers DEF HeapType, RestKept
  <2>2. CASE h.child[a] # NULL
    <3>1. h.child[a] \in Node
      BY <1>1, <2>2, Pointers
    <3>2. RingInserted(h, h.child[a], b, linked)
      BY <1>3, <2>2, <3>1, RingInsertIs
    <3>3. h.child = [h.child EXCEPT ![a] = h.child[a]]
      BY DEF HeapType
    <3> QED
      BY <2>2, <3>2, <3>3 DEF RingInserted
  <2> QED
    BY <2>1, <2>2
<1>5. PICK g : g = AddChild(h, a, b)
  OBVIOUS
<1>6. g = [linked EXCEPT !.parent[b] = a, !.mark[b] = FALSE,
                         !.degree[a] = (@ + 1) % CountRange]
  BY <1>3, <1>5 DEF AddChild
<1>7. /\ g \in HeapType
      /\ g.parent = [linked.parent EXCEPT ![b] = a]
      /\ g.mark = [linked.mark EXCEPT ![b] = FALSE]
      /\ g.degree = [linked.degree EXCEPT ![a] = (linked.degree[a] + 1) % CountRange]
      /\ g.next = linked.next /\ g.prev = linked.prev
      /\ g.child = linked.child /\ g.root = linked.root /\ RestKept(linked, g)
  BY <1>2, <1>4, <1>6, Pointers DEF HeapType, RestKept
<1> QED
  BY <1>4, <1>5, <1>7 DEF ChildAdded, RestKept

\* A child is unlinked, and the first child is another one if it was that.
ChildRemoved(h, a, b, g) ==
    /\ g \in HeapType
    /\ IF h.next[b] = b
       THEN g.next = h.next /\ g.prev = h.prev
       ELSE Unspliced(h.next, h.prev, b, g.next, g.prev)
    /\ g.child = [h.child EXCEPT ![a] = IF h.next[b] = b THEN NULL
                                        ELSE IF h.child[a] = b THEN h.next[b]
                                        ELSE h.child[a]]
    /\ g.parent = [h.parent EXCEPT ![b] = NULL]
    /\ g.mark = [h.mark EXCEPT ![b] = FALSE]
    /\ g.degree = [h.degree EXCEPT ![a] = (h.degree[a] - 1) % CountRange]
    /\ g.root = h.root
    /\ RestKept(h, g)

\* remove_child, of an only child, the child m_child points to, or another.
LEMMA RemoveChildIs ==
    ASSUME NEW h \in HeapType, NEW a \in Node, NEW b \in Node
    PROVE  ChildRemoved(h, a, b, RemoveChild(h, a, b))
<1>1. h.next[b] \in Node /\ h.prev[b] \in Node /\ h.child[a] \in Pointer
  BY DEF HeapType
<1>2. (h.degree[a] - 1) % CountRange \in 0..(CountRange - 1)
  BY Wraps DEF HeapType
<1>3. PICK moved : moved = [h EXCEPT !.child[a] = IF @ = b THEN h.next[b] ELSE @]
  OBVIOUS
<1>4. /\ moved \in HeapType
      /\ moved.child = [h.child EXCEPT ![a] = IF h.child[a] = b THEN h.next[b]
                                              ELSE h.child[a]]
      /\ moved.next = h.next /\ moved.prev = h.prev
      /\ moved.parent = h.parent /\ moved.mark = h.mark /\ moved.degree = h.degree
      /\ moved.root = h.root /\ RestKept(h, moved)
  BY <1>1, <1>3, Pointers DEF HeapType, RestKept
<1>5. PICK unlinked : unlinked = IF h.next[b] = b THEN [h EXCEPT !.child[a] = NULL]
                                 ELSE RingRemove(moved, b)
  OBVIOUS
<1>6. /\ unlinked \in HeapType
      /\ IF h.next[b] = b
         THEN unlinked.next = h.next /\ unlinked.prev = h.prev
         ELSE Unspliced(h.next, h.prev, b, unlinked.next, unlinked.prev)
      /\ unlinked.child = [h.child EXCEPT ![a] = IF h.next[b] = b THEN NULL
                                                 ELSE IF h.child[a] = b THEN h.next[b]
                                                 ELSE h.child[a]]
      /\ unlinked.parent = h.parent /\ unlinked.mark = h.mark
      /\ unlinked.degree = h.degree /\ unlinked.root = h.root
      /\ RestKept(h, unlinked)
  <2>1. CASE h.next[b] = b
    BY <1>5, <2>1, Pointers DEF HeapType, RestKept
  <2>2. CASE h.next[b] # b
    <3>1. RingRemoved(moved, b, unlinked)
      BY <1>4, <1>5, <2>2, RingRemoveIs
    <3> QED
      BY <1>4, <2>2, <3>1 DEF RingRemoved, RestKept
  <2> QED
    BY <2>1, <2>2
<1>7. PICK g : g = RemoveChild(h, a, b)
  OBVIOUS
<1>8. g = [unlinked EXCEPT !.parent[b] = NULL, !.mark[b] = FALSE,
                           !.degree[a] = (@ - 1) % CountRange]
  BY <1>3, <1>5, <1>7 DEF RemoveChild
<1>9. /\ g \in HeapType
      /\ g.parent = [unlinked.parent EXCEPT ![b] = NULL]
      /\ g.mark = [unlinked.mark EXCEPT ![b] = FALSE]
      /\ g.degree = [unlinked.degree EXCEPT ![a] = (unlinked.degree[a] - 1) % CountRange]
      /\ g.next = unlinked.next /\ g.prev = unlinked.prev
      /\ g.child = unlinked.child /\ g.root = unlinked.root /\ RestKept(unlinked, g)
  BY <1>2, <1>6, <1>8, Pointers DEF HeapType, RestKept
<1> QED
  BY <1>6, <1>7, <1>9 DEF ChildRemoved, RestKept

NodeInserted(h, b, g) ==
    /\ g \in HeapType
    /\ IF h.root = NULL
       THEN g.next = h.next /\ g.prev = h.prev /\ g.root = b
       ELSE /\ Spliced(h.next, h.prev, h.root, b, g.next, g.prev)
            /\ g.root = IF h.key[b] < h.key[h.root] THEN b ELSE h.root
    /\ g.child = h.child /\ g.parent = h.parent
    /\ g.degree = h.degree /\ g.mark = h.mark
    /\ RestKept(h, g)

\* insert_node, into a heap with roots or without.
LEMMA InsertNodeIs ==
    ASSUME NEW h \in HeapType, NEW b \in Node
    PROVE  NodeInserted(h, b, InsertNode(h, b))
<1>1. PICK g : g = InsertNode(h, b)
  OBVIOUS
<1>2. CASE h.root = NULL
  BY <1>1, <1>2, Pointers DEF InsertNode, HeapType, NodeInserted, RestKept
<1>3. CASE h.root # NULL
  <2>1. h.root \in Node
    BY <1>3, Pointers DEF HeapType
  <2>2. PICK spliced : spliced = RingInsert(h, h.root, b)
    OBVIOUS
  <2>3. g = [spliced EXCEPT !.root = IF h.key[b] < h.key[h.root] THEN b ELSE @]
    BY <1>1, <1>3, <2>2 DEF InsertNode
  <2>4. RingInserted(h, h.root, b, spliced)
    BY <2>1, <2>2, RingInsertIs
  <2>5. /\ g \in HeapType
        /\ g.root = IF h.key[b] < h.key[h.root] THEN b ELSE h.root
        /\ g.next = spliced.next /\ g.prev = spliced.prev
        /\ g.child = spliced.child /\ g.parent = spliced.parent
        /\ g.degree = spliced.degree /\ g.mark = spliced.mark
        /\ RestKept(spliced, g)
    BY <2>1, <2>3, <2>4, Pointers DEF HeapType, RingInserted, RestKept
  <2> QED
    BY <1>1, <1>3, <2>4, <2>5 DEF NodeInserted, RingInserted, RestKept
<1> QED
  BY <1>2, <1>3

-----------------------------------------------------------------------------
(* The types: every operation leaves a heap of the same type, also where the links are *)
(* no longer in order; and no key is written but the one an operation is given.      *)

\* A loop has as many turns as a heap can have nodes.
LEMMA TurnsAre == DOMAIN Turns = 1..HeapSize /\ \A i \in 1..HeapSize : Turns[i] = i
BY DEF Turns

\* decrease_key.
CutLoopTurn(c, a, i) == CutTurn(a)

CutTyped(c, i, a) ==
    /\ a.h \in HeapType /\ a.h.root \in Node
    /\ a.node \in Node /\ a.done \in BOOLEAN
    /\ ~a.done => a.h.parent[a.node] \in Node
    /\ a.h.key = c.key

CutTypes == INSTANCE FoldInduction WITH turn <- CutLoopTurn, keeps <- CutTyped

\* One cut keeps the types and leaves a root.
LEMMA CutOneTyped ==
    ASSUME NEW h \in HeapType, h.root \in Node, NEW parent \in Node, NEW node \in Node
    PROVE  LET cut == InsertNode(RemoveChild(h, parent, node), node)
           IN  cut \in HeapType /\ cut.root \in Node /\ cut.key = h.key
<1>1. PICK removed : removed = RemoveChild(h, parent, node)
  OBVIOUS
<1>2. ChildRemoved(h, parent, node, removed)
  BY <1>1, RemoveChildIs
<1>3. PICK cut : cut = InsertNode(removed, node)
  OBVIOUS
<1>4. NodeInserted(removed, node, cut)
  BY <1>2, <1>3, InsertNodeIs DEF ChildRemoved
<1>5. cut \in HeapType /\ cut.root \in Node /\ cut.key = h.key
  BY <1>2, <1>4, Pointers DEF ChildRemoved, NodeInserted, RestKept
<1> QED
  BY <1>1, <1>3, <1>5

\* A turn of the loop of decrease_key keeps the types; the next node has a parent.
LEMMA CutTurnTyped ==
    ASSUME NEW c, NEW i, NEW j, NEW a, CutTyped(c, i, a)
    PROVE  CutTyped(c, j, CutTurn(a))
<1>1. CASE a.done \/ NoChild(a.h, a.h.parent[a.node], a.node)
  BY <1>1 DEF CutTyped, CutTurn
<1>2. CASE ~a.done /\ ~NoChild(a.h, a.h.parent[a.node], a.node)
  <2>1a. PICK parent : parent = a.h.parent[a.node]
    OBVIOUS
  <2>1b. PICK cut : cut = InsertNode(RemoveChild(a.h, parent, a.node), a.node)
    OBVIOUS
  <2>1c. PICK marked : marked = [cut EXCEPT !.mark[parent] = TRUE]
    OBVIOUS
  <2>1. /\ parent = a.h.parent[a.node]
        /\ cut = InsertNode(RemoveChild(a.h, parent, a.node), a.node)
        /\ marked = [cut EXCEPT !.mark[parent] = TRUE]
    BY <2>1a, <2>1b, <2>1c
  <2>2. /\ a.h \in HeapType /\ a.h.root \in Node
        /\ a.node \in Node /\ parent \in Node /\ a.h.key = c.key
    BY <1>2, <2>1 DEF CutTyped
  <2>3. cut \in HeapType /\ cut.root \in Node /\ cut.key = c.key
    BY <2>1, <2>2, CutOneTyped
  <2>4. marked \in HeapType /\ marked.root = cut.root /\ marked.key = cut.key
    BY <2>1, <2>2, <2>3 DEF HeapType
  <2>5. cut.parent[parent] \in Pointer
    BY <2>2, <2>3 DEF HeapType
  <2>6. CASE cut.parent[parent] = NULL
    <3>1. CutTurn(a) = [h |-> cut, node |-> parent, done |-> TRUE]
      BY <1>2, <2>1, <2>6 DEF CutTurn
    <3> QED
      BY <2>2, <2>3, <3>1 DEF CutTyped
  <2>7. CASE cut.parent[parent] # NULL /\ ~cut.mark[parent]
    <3>1. CutTurn(a) = [h |-> marked, node |-> parent, done |-> TRUE]
      BY <1>2, <2>1, <2>7 DEF CutTurn
    <3> QED
      BY <2>2, <2>3, <2>4, <3>1 DEF CutTyped
  <2>8. CASE cut.parent[parent] # NULL /\ cut.mark[parent]
    <3>1. CutTurn(a) = [h |-> cut, node |-> parent, done |-> FALSE]
      BY <1>2, <2>1, <2>8 DEF CutTurn
    <3> QED
      BY <2>2, <2>3, <2>5, <2>8, <3>1, Pointers DEF CutTyped
  <2> QED
    BY <2>6, <2>7, <2>8
<1> QED
  BY <1>1, <1>2

\* So does the loop.
LEMMA CutIsTyped ==
    ASSUME NEW h \in HeapType, h.root \in Node, NEW node \in Node, h.parent[node] \in Node
    PROVE  /\ Cuts(h, node).h \in HeapType /\ Cuts(h, node).h.root \in Node
           /\ Cuts(h, node).h.key = h.key
<1> DEFINE base == [h |-> h, node |-> node, done |-> FALSE]
<1>1. Cuts(h, node) = CutTypes!Loop(h, base, Turns)
  BY SMT DEF Cuts, CutTypes!Loop, CutLoopTurn, FoldLeft, MapThenFoldSet, Max,
             CutTypes!MapThenFoldSet, CutTypes!Greatest
<1>2. CutTyped(h, 0, base)
  BY DEF CutTyped
<1>3. \A i \in 1..HeapSize : \A a :
         CutTyped(h, i - 1, a) => CutTyped(h, i, CutLoopTurn(h, a, Turns[i]))
  BY CutTurnTyped DEF CutLoopTurn
<1> HIDE DEF base
<1>4. CutTyped(h, HeapSize, CutTypes!Loop(h, base, Turns))
  BY <1>2, <1>3, Wraps, TurnsAre, CutTypes!LoopKeeps
<1> QED
  BY <1>1, <1>4 DEF CutTyped

\* decrease_key keeps the types and a root, and writes the one key.
LEMMA DecreaseTyped ==
    ASSUME NEW h \in HeapType, h.root \in Node, NEW node \in Node, NEW k \in Time
    PROVE  /\ DecreaseKeyH(h, node, k) \in HeapType /\ DecreaseKeyH(h, node, k).root \in Node
           /\ DecreaseKeyH(h, node, k).key = [h.key EXCEPT ![node] = k]
<1> DEFINE keyed == [h EXCEPT !.key[node] = k]
           up == [keyed EXCEPT !.root = IF k < keyed.key[@] THEN node ELSE @]
<1>1. /\ keyed \in HeapType /\ keyed.parent = h.parent /\ keyed.root = h.root
      /\ keyed.key = [h.key EXCEPT ![node] = k]
  BY DEF HeapType
<1>2. up \in HeapType /\ up.root \in Node /\ up.key = keyed.key
  <2> HIDE DEF keyed
  <2> QED
    BY <1>1, Pointers DEF HeapType
<1>3. h.parent[node] # NULL => /\ Cuts(keyed, node).h \in HeapType
                               /\ Cuts(keyed, node).h.root \in Node
                               /\ Cuts(keyed, node).h.key = keyed.key
  <2>1. h.parent[node] \in Pointer
    BY DEF HeapType
  <2> HIDE DEF keyed
  <2> QED
    BY <1>1, <2>1, CutIsTyped, Pointers
<1>4. \/ DecreaseKeyH(h, node, k) = up
      \/ DecreaseKeyH(h, node, k) = keyed
      \/ h.parent[node] # NULL /\ DecreaseKeyH(h, node, k) = Cuts(keyed, node).h
  BY DEF DecreaseKeyH
<1>5. h.root \in Node
  OBVIOUS
<1> HIDE DEF keyed, up
<1> QED
  BY <1>1, <1>2, <1>3, <1>4, <1>5

\* The inner loop of the merge.
MergeType == [h : HeapType, slots : Seq(Pointer), overrun : BOOLEAN]

LinkLoopTurn(c, a, i) == LinkTurn(a)

LinkTyped(c, i, a) ==
    /\ a \in [m : MergeType, current : Node, degree : Nat]
    /\ a.m.overrun = c.overrun /\ a.m.h.key = c.h.key
    /\ a.degree + 1 \in 1..Len(a.m.slots)

LinkTypes == INSTANCE FoldInduction WITH turn <- LinkLoopTurn, keeps <- LinkTyped

\* degree_roots when its entry d is cleared, and the next one is there.
SlotsFreed(slots, d) ==
    LET freed == [slots EXCEPT ![d] = NULL]
    IN  IF d >= Len(freed) THEN Append(freed, NULL) ELSE freed

\* degree_roots after a link: the slot is empty, and there is one for the next degree.
LEMMA SlotsFreedAre ==
    ASSUME NEW slots \in Seq(Pointer), NEW d \in 1..Len(slots)
    PROVE  LET freed == SlotsFreed(slots, d)
           IN  /\ freed \in Seq(Pointer)
               /\ d + 1 \in 1..Len(freed) /\ Len(slots) <= Len(freed)
               /\ freed[d] = NULL
               /\ \A j \in 1..Len(slots) : j # d => freed[j] = slots[j]
               /\ \A j \in 1..Len(freed) : j > Len(slots) => freed[j] = NULL
<1> DEFINE cleared == [slots EXCEPT ![d] = NULL]
<1>1. /\ cleared \in Seq(Pointer) /\ Len(cleared) = Len(slots)
      /\ \A j \in 1..Len(slots) : cleared[j] = IF j = d THEN NULL ELSE slots[j]
  BY ExceptSeq, Pointers
<1>2. Len(slots) \in Nat
  BY LenProperties
<1> HIDE DEF cleared
<1>3. CASE d >= Len(cleared)
  <2>1. SlotsFreed(slots, d) = Append(cleared, NULL)
    BY <1>3 DEF SlotsFreed, cleared
  <2>2. /\ Append(cleared, NULL) \in Seq(Pointer)
        /\ Len(Append(cleared, NULL)) = Len(cleared) + 1
        /\ Append(cleared, NULL)[Len(cleared) + 1] = NULL
        /\ \A j \in 1..Len(cleared) : Append(cleared, NULL)[j] = cleared[j]
    BY <1>1, Pointers
  <2> HIDE DEF SlotsFreed
  <2> QED
    BY <1>1, <1>2, <1>3, <2>1, <2>2
<1>4. CASE ~(d >= Len(cleared))
  <2>1. SlotsFreed(slots, d) = cleared
    BY <1>4 DEF SlotsFreed, cleared
  <2> QED
    BY <1>1, <1>2, <1>4, <2>1
<1> QED
  BY <1>3, <1>4

\* What a turn does to the two roots it links: large becomes a child of small.
LinksPair(a, small, large) ==
    /\ \/ small = a.current /\ large = a.m.slots[a.degree + 1]
       \/ small = a.m.slots[a.degree + 1] /\ large = a.current
    /\ a.current # a.m.slots[a.degree + 1] =>
           IF a.m.h.key[a.current] > a.m.h.key[a.m.slots[a.degree + 1]]
           THEN large = a.current ELSE small = a.current
    /\ LinkTurn(a) =
          [m |-> [a.m EXCEPT !.h = AddChild(RingRemove(@, large), small, large),
                             !.slots = SlotsFreed(@, a.degree + 1)],
           current |-> small,
           degree |-> a.degree + 1]

\* The root with the lesser key becomes the parent.
LEMMA LinkTurnIs ==
    ASSUME NEW a, a.m.slots[a.degree + 1] # NULL
    PROVE  \E small : \E large : LinksPair(a, small, large)
<1> DEFINE other == a.m.slots[a.degree + 1]
           small == IF a.m.h.key[a.current] > a.m.h.key[other] THEN other ELSE a.current
           large == IF small = other THEN a.current ELSE other
<1>1. LinkTurn(a) =
          [m |-> [a.m EXCEPT !.h = AddChild(RingRemove(@, large), small, large),
                             !.slots = SlotsFreed(@, a.degree + 1)],
           current |-> small,
           degree |-> a.degree + 1]
  BY DEF LinkTurn, SlotsFreed
<1>2. /\ \/ small = a.current /\ large = other
         \/ small = other /\ large = a.current
      /\ a.current # other => IF a.m.h.key[a.current] > a.m.h.key[other]
                              THEN large = a.current ELSE small = a.current
  OBVIOUS
<1> HIDE DEF small, large
<1>3. LinksPair(a, small, large)
  BY <1>1, <1>2 DEF LinksPair
<1> QED
  BY <1>3

\* A turn of the inner loop keeps the types, and the degree has a slot.
LEMMA LinkTurnTyped ==
    ASSUME NEW c, NEW i, NEW j, NEW a, LinkTyped(c, i, a)
    PROVE  /\ LinkTyped(c, j, LinkTurn(a))
           /\ Len(a.m.slots) <= Len(LinkTurn(a).m.slots)
<1>1. /\ a.m.h \in HeapType /\ a.m.slots \in Seq(Pointer) /\ a.current \in Node
      /\ a.m \in MergeType /\ a.m.overrun = c.overrun /\ a.m.h.key = c.h.key
      /\ a.degree \in Nat /\ a.degree + 1 \in 1..Len(a.m.slots)
  BY DEF LinkTyped, MergeType
<1>2. CASE a.m.slots[a.degree + 1] = NULL
  <2>1. LinkTurn(a) = a
    BY <1>2 DEF LinkTurn
  <2>2. Len(a.m.slots) \in Nat
    BY <1>1, LenProperties
  <2> QED
    BY <2>1, <2>2 DEF LinkTyped
<1>3. CASE a.m.slots[a.degree + 1] # NULL
  <2>1. a.m.slots[a.degree + 1] \in Node
    BY <1>1, <1>3, ElementOfSeq, Pointers
  <2>2a. PICK small : \E large : LinksPair(a, small, large)
    BY <1>3, LinkTurnIs
  <2>2b. PICK large : LinksPair(a, small, large)
    BY <2>2a
  <2>2. /\ small \in Node /\ large \in Node
        /\ LinkTurn(a) =
                [m |-> [a.m EXCEPT !.h = AddChild(RingRemove(@, large), small, large),
                                   !.slots = SlotsFreed(@, a.degree + 1)],
                 current |-> small,
                 degree |-> a.degree + 1]
    BY <1>1, <2>1, <2>2b DEF LinksPair
  <2> DEFINE linked == AddChild(RingRemove(a.m.h, large), small, large)
             freed == SlotsFreed(a.m.slots, a.degree + 1)
  <2>3. linked \in HeapType /\ linked.key = c.h.key
    <3>1. RingRemoved(a.m.h, large, RingRemove(a.m.h, large))
      BY <1>1, <2>2, RingRemoveIs
    <3>2. RingRemove(a.m.h, large) \in HeapType /\ RingRemove(a.m.h, large).key = c.h.key
      BY <1>1, <3>1 DEF RingRemoved, RestKept
    <3>3. ChildAdded(RingRemove(a.m.h, large), small, large, linked)
      BY <2>2, <3>2, AddChildIs
    <3> HIDE DEF linked
    <3> QED
      BY <3>2, <3>3 DEF ChildAdded, RestKept
  <2>4. freed \in Seq(Pointer) /\ a.degree + 2 \in 1..Len(freed)
        /\ Len(a.m.slots) <= Len(freed)
    BY <1>1, SlotsFreedAre
  <2>5. LinkTurn(a) = [m |-> [a.m EXCEPT !.h = linked, !.slots = freed],
                       current |-> small, degree |-> a.degree + 1]
    BY <2>2
  <2> DEFINE m1 == [a.m EXCEPT !.h = linked, !.slots = freed]
  <2> HIDE DEF linked, freed
  <2>6. /\ m1 \in MergeType /\ m1.overrun = c.overrun /\ m1.slots = freed
        /\ m1.h.key = c.h.key
    BY <1>1, <2>3, <2>4 DEF MergeType
  <2>7. LinkTurn(a) = [m |-> m1, current |-> small, degree |-> a.degree + 1]
    BY <2>5
  <2>8. a.degree + 1 \in Nat /\ (a.degree + 1) + 1 = a.degree + 2
    BY <1>1
  <2>9. small \in Node
    BY <2>2
  <2> HIDE DEF m1
  <2> QED
    BY <2>4, <2>6, <2>7, <2>8, <2>9 DEF LinkTyped
<1> QED
  BY <1>2, <1>3

\* So does the inner loop.
LEMMA LinkUpTyped ==
    ASSUME NEW m \in MergeType, NEW first \in Node, m.h.degree[first] < Len(m.slots)
    PROVE  LinkTyped(m, HeapSize, LinkUp(m, first))
<1> DEFINE base == [m |-> m, current |-> first, degree |-> m.h.degree[first]]
<1>1. LinkUp(m, first) = LinkTypes!Loop(m, base, Turns)
  BY SMT DEF LinkUp, LinkTypes!Loop, LinkLoopTurn, FoldLeft, MapThenFoldSet, Max,
             LinkTypes!MapThenFoldSet, LinkTypes!Greatest
<1>2. LinkTyped(m, 0, base)
  <2>1. m.h.degree[first] \in 0..(CountRange - 1) /\ m.slots \in Seq(Pointer)
    BY DEF MergeType, HeapType
  <2>2. m.h.degree[first] \in Nat /\ m.h.degree[first] + 1 \in 1..Len(m.slots)
    <3>1. Len(m.slots) \in Nat
      BY <2>1, LenProperties
    <3>2. PICK d \in 0..(CountRange - 1) : d = m.h.degree[first]
      BY <2>1
    <3>3. d \in Nat /\ d < Len(m.slots)
      BY <3>2, Wraps
    <3>4. d + 1 \in 1..Len(m.slots)
      BY <3>1, <3>3
    <3> QED
      BY <3>2, <3>3, <3>4
  <2> QED
    BY <2>2 DEF LinkTyped
<1>3. \A i \in 1..HeapSize : \A a :
         LinkTyped(m, i - 1, a) => LinkTyped(m, i, LinkLoopTurn(m, a, Turns[i]))
  BY LinkTurnTyped DEF LinkLoopTurn
<1> HIDE DEF base
<1>4. LinkTyped(m, HeapSize, LinkTypes!Loop(m, base, Turns))
  BY <1>2, <1>3, Wraps, TurnsAre, LinkTypes!LoopKeeps
<1> QED
  BY <1>1, <1>4

\* A turn of the outer loop leaves a root in a slot, unless there is none for its degree.
LEMMA MergeRootTyped ==
    ASSUME NEW m \in MergeType, NEW root \in Node
    PROVE  /\ MergeRoot(m, root) \in MergeType
           /\ MergeRoot(m, root).h.key = m.h.key
           /\ ~MergeRoot(m, root).overrun =>
                  \E d \in DOMAIN MergeRoot(m, root).slots :
                      MergeRoot(m, root).slots[d] # NULL
<1>1. CASE m.overrun \/ m.h.degree[root] >= Len(m.slots)
  <2>1. MergeRoot(m, root) = [m EXCEPT !.overrun = TRUE]
    BY <1>1 DEF MergeRoot
  <2> QED
    BY <2>1 DEF MergeType
<1>2. CASE ~(m.overrun \/ m.h.degree[root] >= Len(m.slots))
  <2> DEFINE a == LinkUp(m, root)
             slots == [a.m.slots EXCEPT ![a.degree + 1] = a.current]
  <2>1. m.h.degree[root] < Len(m.slots)
    <3>1. m.slots \in Seq(Pointer)
      BY DEF MergeType
    <3>2. Len(m.slots) \in Int /\ m.h.degree[root] \in Int
      BY <3>1, LenProperties, Wraps DEF MergeType, HeapType
    <3> QED
      BY <1>2, <3>2
  <2>2. MergeRoot(m, root) = [a.m EXCEPT !.slots = slots]
    BY <1>2 DEF MergeRoot
  <2>3. LinkTyped(m, HeapSize, a)
    BY <2>1, LinkUpTyped
  <2> HIDE DEF a
  <2>4. a.m \in MergeType /\ a.m.slots \in Seq(Pointer) /\ a.current \in Node
        /\ a.degree + 1 \in 1..Len(a.m.slots) /\ a.m.h.key = m.h.key
    BY <2>3 DEF LinkTyped, MergeType
  <2>5. /\ slots \in Seq(Pointer) /\ a.degree + 1 \in DOMAIN slots
        /\ slots[a.degree + 1] # NULL
    BY <2>4, ExceptSeq, LenProperties, Pointers
  <2> HIDE DEF slots
  <2>6. /\ MergeRoot(m, root) \in MergeType /\ MergeRoot(m, root).slots = slots
        /\ MergeRoot(m, root).h = a.m.h
    BY <2>2, <2>4, <2>5 DEF MergeType
  <2> QED
    BY <2>4, <2>5, <2>6
<1> QED
  BY <1>1, <1>2

\* The merge.
MergeLoopTurn(c, a, i) == MergeTurn(c.root, a)

MergeTyped(c, i, a) ==
    /\ a \in [m : MergeType, at : Node, seen : SUBSET Node]
    /\ ~a.m.overrun /\ a.seen # {} => \E d \in DOMAIN a.m.slots : a.m.slots[d] # NULL
    /\ a.seen = {} => a.at = c.next[c.root]
    /\ a.m.h.key = c.key

MergeTypes == INSTANCE FoldInduction WITH turn <- MergeLoopTurn, keeps <- MergeTyped

\* A turn of the outer loop keeps the types.
LEMMA MergeTurnTyped ==
    ASSUME NEW c, NEW i, NEW j, NEW a, MergeTyped(c, i, a)
    PROVE  MergeTyped(c, j, MergeTurn(c.root, a))
<1>1. CASE a.at = c.root \/ a.m.overrun \/ a.at \in a.seen
  BY <1>1 DEF MergeTurn, MergeTyped
<1>2. CASE ~(a.at = c.root \/ a.m.overrun \/ a.at \in a.seen)
  <2>1. a.m \in MergeType /\ a.at \in Node /\ a.m.h \in HeapType /\ a.seen \in SUBSET Node
    BY DEF MergeTyped, MergeType
  <2>2. a.m.h.next[a.at] \in Node
    BY <2>1 DEF HeapType
  <2>3. MergeTurn(c.root, a) = [m |-> MergeRoot(a.m, a.at), at |-> a.m.h.next[a.at],
                                seen |-> a.seen \cup {a.at}]
    BY <1>2 DEF MergeTurn
  <2>4. PICK m : m = MergeRoot(a.m, a.at)
    OBVIOUS
  <2>5. /\ m \in MergeType /\ m.h.key = c.key
        /\ ~m.overrun => \E d \in DOMAIN m.slots : m.slots[d] # NULL
    <3>1. a.m.h.key = c.key
      BY DEF MergeTyped
    <3> QED
      BY <2>1, <2>4, <3>1, MergeRootTyped
  <2> QED
    BY <2>1, <2>2, <2>3, <2>4, <2>5 DEF MergeTyped
<1> QED
  BY <1>1, <1>2

\* Phase 2 starts with empty slots, one more than the maximum degree.
LEMMA MergeStartTyped ==
    ASSUME NEW h \in HeapType
    PROVE  /\ MergeStart(h) \in MergeType
           /\ MergeStart(h).h = [h EXCEPT !.maxDegree = 0]
           /\ MergeStart(h).h \in HeapType /\ MergeStart(h).h.key = h.key
           /\ DOMAIN MergeStart(h).slots = 1..(h.maxDegree + 1)
           /\ \A d \in DOMAIN MergeStart(h).slots : MergeStart(h).slots[d] = NULL
           /\ ~MergeStart(h).overrun
<1>1. h.maxDegree + 1 \in Nat /\ [h EXCEPT !.maxDegree = 0] \in HeapType
  BY DEF HeapType
<1>4. [h EXCEPT !.maxDegree = 0].key = h.key
  BY DEF HeapType
<1>2. [d \in 1..(h.maxDegree + 1) |-> NULL] \in [1..(h.maxDegree + 1) -> Pointer]
  BY Pointers
<1>3. [d \in 1..(h.maxDegree + 1) |-> NULL] \in Seq(Pointer)
  BY <1>1, <1>2, SeqDef
<1>5. /\ MergeStart(h).h = [h EXCEPT !.maxDegree = 0]
      /\ MergeStart(h).slots = [d \in 1..(h.maxDegree + 1) |-> NULL]
      /\ MergeStart(h).overrun = FALSE
  BY DEF MergeStart
<1>6. MergeStart(h) \in MergeType
  BY <1>1, <1>3 DEF MergeStart, MergeType
<1> QED
  BY <1>1, <1>4, <1>5, <1>6

\* Phase 2 keeps the types and has put a root in a slot if it had one.
LEMMA MergeRootsTyped ==
    ASSUME NEW h \in HeapType, h.root \in Node
    PROVE  MergeTyped(h, HeapSize, MergeRoots(h))
<1> DEFINE base == [m |-> MergeStart(h), at |-> h.next[h.root], seen |-> {}]
<1>1. MergeRoots(h) = MergeTypes!Loop(h, base, Turns)
  BY SMT DEF MergeRoots, MergeTypes!Loop, MergeLoopTurn, FoldLeft, MapThenFoldSet, Max,
             MergeTypes!MapThenFoldSet, MergeTypes!Greatest
<1>2. MergeTyped(h, 0, base)
  <2>1. h.next[h.root] \in Node
    BY DEF HeapType
  <2> QED
    BY <2>1, MergeStartTyped DEF MergeTyped
<1>3. \A i \in 1..HeapSize : \A a :
         MergeTyped(h, i - 1, a) => MergeTyped(h, i, MergeLoopTurn(h, a, Turns[i]))
  BY MergeTurnTyped DEF MergeLoopTurn
<1> HIDE DEF base
<1>4. MergeTyped(h, HeapSize, MergeTypes!Loop(h, base, Turns))
  <2> HIDE DEF MergeTyped
  <2> QED
    BY <1>2, <1>3, Wraps, TurnsAre, MergeTypes!LoopKeeps
<1> QED
  BY <1>1, <1>4

\* Phase 3.
RebuildLoopTurn(c, a, r) == RebuildTurn(a, r)
RebuildTyped(c, i, a) == a \in HeapType /\ a.key = c.h.key

RebuildTypes == INSTANCE FoldInduction WITH turn <- RebuildLoopTurn, keeps <- RebuildTyped

\* A turn of phase 3 keeps the types.
LEMMA RebuildTurnTyped ==
    ASSUME NEW h \in HeapType, NEW r \in Pointer
    PROVE  RebuildTurn(h, r) \in HeapType /\ RebuildTurn(h, r).key = h.key
<1>1. CASE r = NULL
  BY <1>1 DEF RebuildTurn
<1>2. CASE r # NULL
  <2> DEFINE alone == [h EXCEPT !.next[r] = r, !.prev[r] = r]
  <2>1. r \in Node
    BY <1>2, Pointers
  <2>2. alone \in HeapType /\ alone.key = h.key
    BY <2>1 DEF HeapType
  <2>3. RebuildTurn(h, r) = InsertNode(alone, r)
    BY <1>2 DEF RebuildTurn
  <2> HIDE DEF alone
  <2>4. InsertNode(alone, r) \in HeapType /\ InsertNode(alone, r).key = h.key
    BY <2>1, <2>2, InsertNodeIs DEF NodeInserted, RestKept
  <2> QED
    BY <2>3, <2>4
<1> QED
  BY <1>1, <1>2

\* Phase 3 keeps the types; there is a greatest degree because some slot is used.
LEMMA RebuildIsTyped ==
    ASSUME NEW m \in MergeType, \E d \in DOMAIN m.slots : m.slots[d] # NULL
    PROVE  Rebuild(m) \in HeapType /\ Rebuild(m).key = m.h.key
<1> DEFINE base == [m.h EXCEPT !.root = NULL]
           end == FoldLeft(RebuildTurn, base, m.slots)
           used == {d \in DOMAIN m.slots : m.slots[d] # NULL}
           n == Len(m.slots)
<1>1. m.slots \in Seq(Pointer) /\ n \in Nat /\ DOMAIN m.slots = 1..n
      /\ \A i \in 1..n : m.slots[i] \in Pointer
  <2>1. m.slots \in Seq(Pointer)
    BY DEF MergeType
  <2> QED
    BY <2>1, LenProperties, ElementOfSeq
<1>2. end = RebuildTypes!Loop(m, base, m.slots)
  BY SMT DEF RebuildTypes!Loop, RebuildLoopTurn, FoldLeft, MapThenFoldSet, Max,
             RebuildTypes!MapThenFoldSet, RebuildTypes!Greatest
<1>3. base \in HeapType /\ base.key = m.h.key
  BY Pointers DEF MergeType, HeapType
<1>4. \A i \in 1..n : \A a :
         RebuildTyped(m, i - 1, a) => RebuildTyped(m, i, RebuildLoopTurn(m, a, m.slots[i]))
  BY <1>1, RebuildTurnTyped DEF RebuildLoopTurn, RebuildTyped
<1>5. RebuildTyped(m, 0, base)
  BY <1>3 DEF RebuildTyped
<1>6. used \in SUBSET (1..n) /\ used # {}
  BY <1>1
<1>7. Max(used) \in 1..n
  <2>1. RebuildTypes!Greatest(used) \in used
    BY <1>1, <1>6, RebuildTypes!GreatestNumber
  <2>2. RebuildTypes!Greatest(used) = Max(used)
    BY DEF Max, RebuildTypes!Greatest
  <2> QED
    BY <1>6, <2>1, <2>2
<1>8. Rebuild(m) = [end EXCEPT !.maxDegree = Max(used) - 1]
  BY DEF Rebuild
<1> HIDE DEF base, used, n
<1>9. RebuildTyped(m, n, RebuildTypes!Loop(m, base, m.slots))
  BY <1>1, <1>4, <1>5, RebuildTypes!LoopKeeps
<1>10. end \in HeapType /\ end.key = m.h.key
  BY <1>2, <1>9 DEF RebuildTyped
<1>11. Max(used) - 1 \in Nat
  BY <1>1, <1>7
<1> HIDE DEF end
<1> QED
  BY <1>8, <1>10, <1>11 DEF HeapType

\* Phase 1.
ChildrenFreed(h, g) ==
    /\ g \in HeapType
    /\ IF h.child[h.root] = NULL
       THEN g = h
       ELSE /\ Spliced(h.next, h.prev, h.root, h.child[h.root], g.next, g.prev)
            /\ g.child = [h.child EXCEPT ![h.root] = NULL]
            /\ g.parent = [n \in Node |-> IF n \in Ring(h, h.child[h.root]) THEN NULL
                                          ELSE h.parent[n]]
    /\ g.degree = h.degree /\ g.mark = h.mark /\ g.root = h.root
    /\ RestKept(h, g)

\* Phase 1, of a root with children or without.
LEMMA FreeChildrenIs ==
    ASSUME NEW h \in HeapType, h.root \in Node
    PROVE  ChildrenFreed(h, FreeChildren(h))
<1>1. PICK g : g = FreeChildren(h)
  OBVIOUS
<1>2. PICK children : children = Ring(h, h.child[h.root])
  OBVIOUS
<1>3. h.child[h.root] \in Pointer
  BY DEF HeapType
<1>4. CASE h.child[h.root] = NULL
  BY <1>1, <1>4 DEF FreeChildren, ChildrenFreed, RestKept
<1>5. CASE h.child[h.root] # NULL
  <2>1. h.child[h.root] \in Node
    BY <1>3, <1>5, Pointers
  <2>2. PICK orphaned :
            orphaned = [h EXCEPT !.parent = [n \in Node |-> IF n \in children THEN NULL
                                                           ELSE h.parent[n]],
                                 !.child[h.root] = NULL]
    OBVIOUS
  <2>3. /\ orphaned \in HeapType
        /\ orphaned.next = h.next /\ orphaned.prev = h.prev
        /\ orphaned.child = [h.child EXCEPT ![h.root] = NULL]
        /\ orphaned.parent = [n \in Node |-> IF n \in children THEN NULL ELSE h.parent[n]]
        /\ orphaned.degree = h.degree /\ orphaned.mark = h.mark /\ orphaned.root = h.root
        /\ RestKept(h, orphaned)
    BY <2>2, Pointers DEF HeapType, RestKept
  <2>4. g = RingInsert(orphaned, h.root, h.child[h.root])
    BY <1>1, <1>2, <1>5, <2>2 DEF FreeChildren
  <2>5. RingInserted(orphaned, h.root, h.child[h.root], g)
    BY <2>1, <2>3, <2>4, RingInsertIs
  <2> QED
    BY <1>1, <1>2, <1>5, <2>3, <2>5 DEF RingInserted, ChildrenFreed, RestKept
<1> QED
  BY <1>4, <1>5

\* The count after --m_count.
LEMMA CountDownIs ==
    ASSUME NEW h \in HeapType
    PROVE  /\ CountDown(h) \in HeapType
           /\ CountDown(h) = [h EXCEPT !.count = (h.count - 1) % CountRange]
           /\ CountDown(h).root = h.root /\ CountDown(h).key = h.key
<1>1. (h.count - 1) % CountRange \in 0..(CountRange - 1)
  <2>1. h.count \in 0..(CountRange - 1)
    BY DEF HeapType
  <2>2. h.count - 1 \in Int
    BY <2>1, Wraps
  <2> QED
    BY <2>2, Wraps
<1> QED
  BY <1>1 DEF CountDown, HeapType

\* How remove_minimum_h ends.
LEMMA RemoveMinimumCases ==
    ASSUME NEW h \in HeapType, h.root \in Node
    PROVE  LET r == RemoveMinimumH(h)
               freed == FreeChildren(CountDown(h))
               merge == MergeRoots(freed)
           IN  \/ /\ r.status = "internal" /\ r.h = freed
                  /\ freed.next[h.root] = h.root /\ freed.count # 0
               \/ /\ r.status = "ok" /\ r.h = [freed EXCEPT !.root = NULL]
                  /\ freed.next[h.root] = h.root /\ freed.count = 0
               \/ /\ r.status = "undefined" /\ r.h = freed
                  /\ freed.next[h.root] # h.root /\ merge.m.overrun
               \/ /\ r.status = "broken" /\ r.h = freed
                  /\ freed.next[h.root] # h.root /\ ~merge.m.overrun /\ merge.at # h.root
               \/ /\ r.status = "ok" /\ r.h = Rebuild(merge.m)
                  /\ freed.next[h.root] # h.root /\ ~merge.m.overrun /\ merge.at = h.root
<1> DEFINE freed == FreeChildren(CountDown(h))
           merge == MergeRoots(freed)
<1>1. freed.root = h.root
  <2>1. CountDown(h) \in HeapType /\ CountDown(h).root = h.root
    BY CountDownIs
  <2> QED
    BY <2>1, FreeChildrenIs DEF ChildrenFreed
<1> HIDE DEF freed, merge
<1>2. RemoveMinimumH(h) =
          IF freed.next[freed.root] = freed.root
          THEN IF freed.count # 0 THEN [h |-> freed, status |-> "internal"]
               ELSE [h |-> [freed EXCEPT !.root = NULL], status |-> "ok"]
          ELSE IF merge.m.overrun THEN [h |-> freed, status |-> "undefined"]
          ELSE IF merge.at # freed.root THEN [h |-> freed, status |-> "broken"]
          ELSE [h |-> Rebuild(merge.m), status |-> "ok"]
  BY DEF RemoveMinimumH, freed, merge
<1> QED
  BY <1>1, <1>2 DEF freed, merge

Ends == {"ok", "threw", "internal", "undefined", "broken"}

\* remove_minimum_h keeps the types, whatever the links are.
LEMMA RemoveMinimumTyped ==
    ASSUME NEW h \in HeapType, h.root \in Node
    PROVE  /\ RemoveMinimumH(h).h \in HeapType /\ RemoveMinimumH(h).h.key = h.key
           /\ RemoveMinimumH(h).status \in Ends \ {"threw"}
<1> DEFINE freed == FreeChildren(CountDown(h))
           merge == MergeRoots(freed)
<1>1. freed \in HeapType /\ freed.root = h.root /\ freed.key = h.key
  <2>1. /\ CountDown(h) \in HeapType /\ CountDown(h).root = h.root
        /\ CountDown(h).key = h.key
    BY CountDownIs
  <2> QED
    BY <2>1, FreeChildrenIs DEF ChildrenFreed, RestKept
<1>2. /\ [freed EXCEPT !.root = NULL] \in HeapType
      /\ [freed EXCEPT !.root = NULL].key = freed.key
  <2> HIDE DEF freed
  <2> QED
    BY <1>1, Pointers DEF HeapType
<1>3. ASSUME freed.next[h.root] # h.root, ~merge.m.overrun, merge.at = h.root
      PROVE  Rebuild(merge.m) \in HeapType /\ Rebuild(merge.m).key = h.key
  <2> HIDE DEF freed
  <2>1. MergeTyped(freed, HeapSize, merge)
    BY <1>1, MergeRootsTyped
  <2> HIDE DEF merge
  <2>2. /\ merge.m \in MergeType /\ \E d \in DOMAIN merge.m.slots : merge.m.slots[d] # NULL
        /\ merge.m.h.key = h.key
    BY <1>1, <1>3, <2>1 DEF MergeTyped
  <2> QED
    BY <2>2, RebuildIsTyped
<1> QED
  BY <1>1, <1>2, <1>3, RemoveMinimumCases DEF Ends

\* insert keeps the types.
LEMMA InsertTyped ==
    ASSUME NEW h \in HeapType, NEW node \in Node, NEW k \in Time
    PROVE  /\ InsertNode([h EXCEPT !.key[node] = k], node) \in HeapType
           /\ InsertH(h, node, k) \in HeapType
<1>1. (h.count + 1) % CountRange \in 0..(CountRange - 1)
  <2>1. h.count \in 0..(CountRange - 1)
    BY DEF HeapType
  <2>2. h.count + 1 \in Int
    BY <2>1, Wraps
  <2> QED
    BY <2>2, Wraps
<1>2. /\ [h EXCEPT !.key[node] = k] \in HeapType
      /\ [h EXCEPT !.key[node] = k, !.count = (@ + 1) % CountRange] \in HeapType
  BY <1>1 DEF HeapType
<1> QED
  BY <1>2, InsertNodeIs DEF InsertH, NodeInserted

\* A deleted node keeps the types.
LEMMA DeleteTyped ==
    ASSUME NEW h \in HeapType, NEW node \in Node
    PROVE  Delete(h, node) \in HeapType
<1>1. 0 \in Time /\ 0 \in 0..(CountRange - 1)
  BY HeapAssumption, Wraps DEF Time
<1> QED
  BY <1>1, Pointers DEF Delete, HeapType

\* Taking a node out keeps the types, writes its key alone, and throws nothing of its own.
LEMMA TakeOutTyped ==
    ASSUME NEW h \in HeapType, h.root \in Node, NEW node \in Node
    PROVE  /\ TakeOutH(h, node).h \in HeapType
           /\ TakeOutH(h, node).h.key = [h.key EXCEPT ![node] = 0]
           /\ TakeOutH(h, node).status \in Ends /\ TakeOutH(h, node).status # "threw"
<1>1. PICK lowered : lowered = DecreaseKeyH(h, node, 0)
  OBVIOUS
<1>2. PICK r : r = RemoveMinimumH(lowered)
  OBVIOUS
<1>3. /\ lowered \in HeapType /\ lowered.root \in Node
      /\ lowered.key = [h.key EXCEPT ![node] = 0]
  <2>1. 0 \in Time
    BY HeapAssumption DEF Time
  <2> QED
    BY <1>1, <2>1, DecreaseTyped
<1>4. r.h \in HeapType /\ r.h.key = lowered.key /\ r.status \in Ends /\ r.status # "threw"
  BY <1>2, <1>3, RemoveMinimumTyped
<1>5. TakeOutH(h, node) = IF DecreaseBreaks(h, node, 0)
                          THEN [h |-> lowered, status |-> "broken"] ELSE r
  BY <1>1, <1>2 DEF TakeOutH
<1> QED
  BY <1>3, <1>4, <1>5 DEF Ends

\* alter_key keeps the types, in each of its branches.
LEMMA AlterTyped ==
    ASSUME NEW h \in HeapType, h.root \in Node, NEW node \in Node, NEW k \in Time
    PROVE  AlterKeyH(h, node, k).h \in HeapType /\ AlterKeyH(h, node, k).status \in Ends
<1> DEFINE r == TakeOutH(h, node)
<1>2. DecreaseKeyH(h, node, k) \in HeapType
  BY DecreaseTyped
<1>4. r.h \in HeapType /\ r.status \in Ends
  BY TakeOutTyped
<1>5. InsertNode([r.h EXCEPT !.key[node] = k], node) \in HeapType
  <2> HIDE DEF r
  <2> QED
    BY <1>4, InsertTyped
<1> HIDE DEF r
<1> QED
  BY <1>2, <1>4, <1>5 DEF AlterKeyH, Ends, r

-----------------------------------------------------------------------------
(* The shape of a heap: trees of lists of siblings *)

\* The nodes of N whose m_parent is p: the children of p, or the roots if p is NULL.
Family(h, N, p) == {n \in N : h.parent[n] = p}

\* The siblings A, found from the pointer first.
IsList(h, first, A) ==
    IF first = NULL THEN A = {} ELSE first \in A /\ IsRing(h.next, h.prev, A)

\* No node is its own ancestor.
Grounded(h, N) == \A T \in SUBSET N : T # {} => \E n \in T : h.parent[n] \notin T

Trees(h, N) ==
    /\ \A n \in N : h.parent[n] \in N \cup {NULL}
    /\ Grounded(h, N)
    /\ \A p \in N : IsList(h, h.child[p], Family(h, N, p))
    /\ IsList(h, h.root, Family(h, N, NULL))

\* Nodes that are not in the heap: as the constructor leaves them, and as they are again
\* after their deletion.
FreshBeside(h, N) == \A n \in Node \ N : /\ h.next[n] = n /\ h.prev[n] = n
                                        /\ h.child[n] = NULL /\ h.parent[n] = NULL
                                        /\ h.degree[n] = 0

\* Every node but x counts its children; every node but x comes after its parent.
Counted(h, N, x) == \A n \in N : n # x => h.degree[n] = Cardinality(Family(h, N, n))

Ordered(h, N, x) ==
    \A n \in N : n # x /\ h.parent[n] # NULL => h.key[h.parent[n]] <= h.key[n]

\* m_root_with_min_key is the least of the roots.
RootsLeast(h, N) == \A n \in Family(h, N, NULL) : h.key[h.root] <= h.key[n]

\* All of this; node x alone may precede its parent.
Shaped(h, N, x) ==
    /\ Trees(h, N)
    /\ FreshBeside(h, N)
    /\ Counted(h, N, NULL)
    /\ Ordered(h, N, x)
    /\ RootsLeast(h, N)

LinksKept(h, A, g) == KeptBeside(h.next, h.prev, A, g.next, g.prev)

ListWith(h, first, A, n) == IsList(h, first, A \cup {n})
ListWithout(h, first, A, n) == IsList(h, first, A \ {n})

\* The types of the fields.
LEMMA HeapFields ==
    ASSUME NEW h \in HeapType
    PROVE  /\ h.key \in [Node -> Time] /\ h.degree \in [Node -> 0..(CountRange - 1)]
           /\ h.mark \in [Node -> BOOLEAN]
           /\ h.next \in [Node -> Node] /\ h.prev \in [Node -> Node]
           /\ h.child \in [Node -> Pointer] /\ h.parent \in [Node -> Pointer]
           /\ h.root \in Pointer /\ h.count \in 0..(CountRange - 1) /\ h.maxDegree \in Nat
BY DEF HeapType

\* A list depends on the links of its own nodes only.
LEMMA ListStays ==
    ASSUME NEW h, NEW g, NEW first, NEW A, IsList(h, first, A),
           \A x \in A : g.next[x] = h.next[x] /\ g.prev[x] = h.prev[x]
    PROVE  IsList(g, first, A)
BY RingStays DEF IsList

\* RingRemove takes a node out of a list that starts elsewhere.
LEMMA ListParts ==
    ASSUME NEW h \in HeapType, NEW first \in Node, NEW n \in Node, NEW A \in SUBSET Node,
           IsList(h, first, A), n \in A, n # first, NEW g, RingRemoved(h, n, g)
    PROVE  /\ ListWithout(g, first, A, n)
           /\ Alone(g.next, g.prev, n)
           /\ LinksKept(h, A, g)
<1>1. IsRing(h.next, h.prev, A) /\ first \in A /\ A # {n}
  BY Pointers DEF IsList
<1>2. Unspliced(h.next, h.prev, n, g.next, g.prev)
  BY DEF RingRemoved
<1>3. h.next \in [Node -> Node] /\ h.prev \in [Node -> Node]
  BY HeapFields
<1>4. /\ RingWithout(g.next, g.prev, A, n)
      /\ Alone(g.next, g.prev, n)
      /\ KeptBeside(h.next, h.prev, A, g.next, g.prev)
  BY <1>1, <1>2, <1>3, RingsPart
<1>5. first # NULL /\ first \in A \ {n}
  BY <1>1, Pointers
<1> QED
  BY <1>4, <1>5 DEF IsList, RingWithout, ListWithout, LinksKept

\* remove_child takes a child out of its list.
LEMMA ChildParts ==
    ASSUME NEW h \in HeapType, NEW p \in Node, NEW n \in Node, NEW A \in SUBSET Node,
           IsList(h, h.child[p], A), n \in A, NEW g, ChildRemoved(h, p, n, g)
    PROVE  /\ ListWithout(g, g.child[p], A, n)
           /\ Alone(g.next, g.prev, n)
           /\ LinksKept(h, A, g)
<1>1. h.next \in [Node -> Node] /\ h.prev \in [Node -> Node] /\ h.child \in [Node -> Pointer]
  BY HeapFields
<1>2. g.child[p] = IF h.next[n] = n THEN NULL ELSE IF h.child[p] = n THEN h.next[n]
                   ELSE h.child[p]
  BY <1>1 DEF ChildRemoved
<1>3. IsRing(h.next, h.prev, A) /\ h.child[p] \in A /\ h.child[p] # NULL
  BY DEF IsList
<1>4. h.next[n] \in A /\ h.prev[h.next[n]] = n /\ (h.next[n] = n <=> A = {n})
  BY <1>3, RingLinks, RingIsOne
<1>5. CASE h.next[n] = n
  <2>1. g.child[p] = NULL /\ A \ {n} = {}
    BY <1>2, <1>4, <1>5
  <2>2. g.next = h.next /\ g.prev = h.prev /\ h.prev[n] = n
    BY <1>4, <1>5 DEF ChildRemoved
  <2> QED
    BY <1>5, <2>1, <2>2 DEF IsList, ListWithout, Alone, LinksKept, KeptBeside
<1>6. CASE h.next[n] # n
  <2>1. Unspliced(h.next, h.prev, n, g.next, g.prev)
    BY <1>6 DEF ChildRemoved
  <2>2. /\ RingWithout(g.next, g.prev, A, n)
        /\ Alone(g.next, g.prev, n)
        /\ KeptBeside(h.next, h.prev, A, g.next, g.prev)
    BY <1>1, <1>3, <1>4, <1>6, <2>1, RingsPart
  <2>3. g.child[p] \in A \ {n} /\ g.child[p] # NULL
    BY <1>2, <1>3, <1>4, <1>6, Pointers
  <2> QED
    BY <2>2, <2>3 DEF IsList, RingWithout, ListWithout, LinksKept
<1> QED
  BY <1>5, <1>6

\* A node linked to nothing joins the list of another.
LEMMA ListJoins ==
    ASSUME NEW h \in HeapType, NEW first \in Node, NEW n \in Node, NEW A \in SUBSET Node,
           IsList(h, first, A), n \notin A, Alone(h.next, h.prev, n),
           NEW g, Spliced(h.next, h.prev, first, n, g.next, g.prev)
    PROVE  /\ RingOfBoth(g.next, g.prev, A, {n})
           /\ LinksKept(h, A \cup {n}, g)
<1>1. IsRing(h.next, h.prev, A) /\ first \in A
  BY Pointers DEF IsList
<1>2. h.next \in [Node -> Node] /\ h.prev \in [Node -> Node]
  BY HeapFields
<1>3. PICK B \in SUBSET Node : B = {n}
  OBVIOUS
<1>4. IsRing(h.next, h.prev, B) /\ A \cap B = {} /\ n \in B
  BY <1>3, RingOfOne DEF Alone
<1>5. /\ RingOfBoth(g.next, g.prev, A, B)
      /\ \A M : A \subseteq M /\ B \subseteq M =>
                KeptBeside(h.next, h.prev, M, g.next, g.prev)
  BY <1>1, <1>2, <1>4, RingsJoin
<1> QED
  BY <1>3, <1>5 DEF LinksKept

\* add_child makes a node that is alone one of the children.
LEMMA ChildJoins ==
    ASSUME NEW h \in HeapType, NEW p \in Node, NEW n \in Node, NEW A \in SUBSET Node,
           IsList(h, h.child[p], A), n \notin A, Alone(h.next, h.prev, n),
           NEW g, ChildAdded(h, p, n, g)
    PROVE  /\ ListWith(g, g.child[p], A, n)
           /\ \A M : A \subseteq M /\ n \in M => LinksKept(h, M, g)
<1>1. PICK first : first = h.child[p]
  OBVIOUS
<1>2. h.child \in [Node -> Pointer] /\ first \in Pointer
  BY <1>1, HeapFields
<1>3. g.child[p] = IF first = NULL THEN n ELSE first
  BY <1>1, <1>2 DEF ChildAdded
<1>4. CASE first = NULL
  <2>1. A = {} /\ A \cup {n} = {n}
    BY <1>1, <1>4 DEF IsList
  <2>2. g.next = h.next /\ g.prev = h.prev /\ g.child[p] = n
    BY <1>1, <1>3, <1>4 DEF ChildAdded
  <2>3. IsRing(g.next, g.prev, {n})
    BY <2>2, RingOfOne DEF Alone
  <2> QED
    BY <2>1, <2>2, <2>3, Pointers DEF IsList, ListWith, LinksKept, KeptBeside
<1>5. CASE first # NULL
  <2>1. first \in Node /\ first \in A
    BY <1>1, <1>2, <1>5, Pointers DEF IsList
  <2>2. Spliced(h.next, h.prev, first, n, g.next, g.prev)
    BY <1>1, <1>5 DEF ChildAdded
  <2>3. RingOfBoth(g.next, g.prev, A, {n}) /\ LinksKept(h, A \cup {n}, g)
    BY <1>1, <2>1, <2>2, ListJoins
  <2>4. ListWith(g, g.child[p], A, n)
    BY <1>3, <1>5, <2>1, <2>3 DEF IsList, ListWith, RingOfBoth
  <2> QED
    BY <2>3, <2>4 DEF LinksKept, KeptBeside
<1> QED
  BY <1>4, <1>5

\* Keys can be compared.
LEMMA KeysAreNumbers ==
    ASSUME NEW h \in HeapType
    PROVE  \A x \in Node : h.key[x] \in Nat
BY HeapAssumption DEF HeapType, Time

\* insert_node makes a node that is alone a root, and the root pointer the least of them.
LEMMA RootJoins ==
    ASSUME NEW h \in HeapType, NEW n \in Node, NEW A \in SUBSET Node,
           IsList(h, h.root, A), n \notin A, Alone(h.next, h.prev, n),
           NEW g, NodeInserted(h, n, g)
    PROVE  /\ ListWith(g, g.root, A, n)
           /\ g.root \in A \cup {n}
           /\ \A M : A \subseteq M /\ n \in M => LinksKept(h, M, g)
           /\ (\A x \in A : h.key[h.root] <= h.key[x]) =>
                 \A x \in A \cup {n} : g.key[g.root] <= g.key[x]
<1>1. PICK first : first = h.root
  OBVIOUS
<1>2. first \in Pointer /\ g.key = h.key
  BY <1>1, HeapFields DEF NodeInserted, RestKept
<1>3. \A x \in Node : h.key[x] \in Nat
  BY KeysAreNumbers
<1>4. CASE first = NULL
  <2>1. A = {} /\ A \cup {n} = {n}
    BY <1>1, <1>4 DEF IsList
  <2>2. g.next = h.next /\ g.prev = h.prev /\ g.root = n
    BY <1>1, <1>4 DEF NodeInserted
  <2>3. IsRing(g.next, g.prev, {n})
    BY <2>2, RingOfOne DEF Alone
  <2>4. \A x \in A \cup {n} : g.key[g.root] <= g.key[x]
    BY <1>2, <1>3, <2>1, <2>2
  <2> QED
    BY <2>1, <2>2, <2>3, <2>4, Pointers DEF IsList, ListWith, LinksKept, KeptBeside
<1>5. CASE first # NULL
  <2>1. first \in Node /\ first \in A
    BY <1>1, <1>2, <1>5, Pointers DEF IsList
  <2>2. Spliced(h.next, h.prev, first, n, g.next, g.prev)
    BY <1>1, <1>5 DEF NodeInserted
  <2>3. RingOfBoth(g.next, g.prev, A, {n}) /\ LinksKept(h, A \cup {n}, g)
    BY <1>1, <2>1, <2>2, ListJoins
  <2>4. g.root = IF h.key[n] < h.key[first] THEN n ELSE first
    BY <1>1, <1>5 DEF NodeInserted
  <2>5. g.root # NULL /\ g.root \in A \cup {n} /\ g.root \in Node
    BY <1>5, <2>1, <2>4, Pointers
  <2>6. (\A x \in A : h.key[h.root] <= h.key[x]) =>
                 \A x \in A \cup {n} : g.key[g.root] <= g.key[x]
    <3> SUFFICES ASSUME \A x \in A : h.key[first] <= h.key[x], NEW x \in A \cup {n}
                 PROVE  h.key[g.root] <= h.key[x]
      BY <1>1, <1>2
    <3>1. h.key[x] \in Nat /\ h.key[n] \in Nat /\ h.key[first] \in Nat
      BY <1>3, <2>1
    <3> QED
      BY <2>1, <2>4, <3>1
  <2>7. ListWith(g, g.root, A, n)
    BY <2>3, <2>5 DEF IsList, ListWith, RingOfBoth
  <2> QED
    BY <2>3, <2>5, <2>6, <2>7 DEF LinksKept, KeptBeside
<1> QED
  BY <1>4, <1>5

\* Family, without its set constructor.
LEMMA FamilyIs ==
    ASSUME NEW h, NEW N, NEW p, NEW n
    PROVE  n \in Family(h, N, p) <=> n \in N /\ h.parent[n] = p
BY DEF Family

\* n is moved into the family of q.
Moved(h, N, n, q, g) ==
    /\ Family(g, N, q) = Family(h, N, q) \cup {n}
    /\ Family(g, N, h.parent[n]) = Family(h, N, h.parent[n]) \ {n}
    /\ \A r : r # q /\ r # h.parent[n] => Family(g, N, r) = Family(h, N, r)

\* One node gets another parent.
LEMMA FamiliesMoved ==
    ASSUME NEW h \in HeapType, NEW N \in SUBSET Node, NEW n \in N, NEW q \in Pointer,
           h.parent[n] # q, NEW g, g.parent = [h.parent EXCEPT ![n] = q]
    PROVE  Moved(h, N, n, q, g)
<1>1. h.parent \in [Node -> Pointer]
  BY HeapFields
<1>2. \A x \in N : g.parent[x] = IF x = n THEN q ELSE h.parent[x]
  BY <1>1
<1> QED
  BY <1>2 DEF Family, Moved

\* A node has one parent.
LEMMA FamiliesApart ==
    ASSUME NEW h, NEW N, NEW p, NEW q, p # q
    PROVE  Family(h, N, p) \cap Family(h, N, q) = {}
BY DEF Family

\* decrease_key's cut: a child becomes a root.
LEMMA CutTrees ==
    ASSUME NEW h \in HeapType, NEW N \in SUBSET Node, Trees(h, N),
           NEW p \in N, NEW n \in N, h.parent[n] = p,
           NEW r, ChildRemoved(h, p, n, r), NEW g, NodeInserted(r, n, g)
    PROVE  /\ Trees(g, N)
           /\ g.root \in N
           /\ RootsLeast(h, N) => RootsLeast(g, N)
<1>1. PICK A \in SUBSET Node, R \in SUBSET Node :
          A = Family(h, N, p) /\ R = Family(h, N, NULL)
  BY DEF Family
<1>2. /\ p \in Node /\ n \in Node /\ p # NULL /\ A \cap R = {} /\ n \in A /\ n \notin R
      /\ R \subseteq N /\ A \subseteq N
  BY <1>1, Pointers DEF Family
<1>3. IsList(h, h.child[p], A) /\ IsList(h, h.root, R)
  BY <1>1 DEF Trees
<1>4. /\ r \in HeapType /\ r.parent = [h.parent EXCEPT ![n] = NULL] /\ r.root = h.root
      /\ g \in HeapType /\ g.parent = r.parent /\ g.child = r.child
      /\ r.key = h.key
      /\ \A q \in Node \ {p} : g.child[q] = h.child[q]
  <2>1. h.child \in [Node -> Pointer]
    BY HeapFields
  <2> QED
    BY <2>1 DEF ChildRemoved, NodeInserted, RestKept
<1>5. ListWithout(r, r.child[p], A, n) /\ Alone(r.next, r.prev, n) /\ LinksKept(h, A, r)
  BY <1>2, <1>3, ChildParts
<1>6. IsList(r, r.root, R)
  <2>1. \A x \in R : r.next[x] = h.next[x] /\ r.prev[x] = h.prev[x]
    BY <1>2, <1>5 DEF LinksKept, KeptBeside
  <2> QED
    BY <1>3, <1>4, <2>1, ListStays
<1>7. /\ ListWith(g, g.root, R, n) /\ g.root \in R \cup {n}
      /\ \A M : R \subseteq M /\ n \in M => LinksKept(r, M, g)
      /\ (\A x \in R : r.key[r.root] <= r.key[x]) =>
             \A x \in R \cup {n} : g.key[g.root] <= g.key[x]
  BY <1>2, <1>4, <1>5, <1>6, RootJoins
<1>8. LinksKept(r, R \cup {n}, g)
  BY <1>7
<1>9. /\ Family(g, N, NULL) = R \cup {n}
      /\ Family(g, N, p) = A \ {n}
      /\ \A q \in N : q # p => Family(g, N, q) = Family(h, N, q)
  <2>1. g.parent = [h.parent EXCEPT ![n] = NULL] /\ h.parent[n] # NULL
    BY <1>2, <1>4
  <2>2. /\ Family(g, N, NULL) = Family(h, N, NULL) \cup {n}
        /\ Family(g, N, p) = Family(h, N, p) \ {n}
        /\ \A q : q # NULL /\ q # p => Family(g, N, q) = Family(h, N, q)
    <3>1. Moved(h, N, n, NULL, g)
      BY <2>1, FamiliesMoved, Pointers
    <3>2. h.parent[n] = p
      BY <1>1, <1>2 DEF Family
    <3> QED
      BY <3>1, <3>2 DEF Moved
  <2> QED
    BY <1>1, <2>2, Pointers
<1>10. ASSUME NEW q \in N PROVE IsList(g, g.child[q], Family(g, N, q))
  <2>1. CASE q = p
    <3>1. PICK B : B = A \ {n}
      OBVIOUS
    <3>2. \A x \in B : g.next[x] = r.next[x] /\ g.prev[x] = r.prev[x]
      BY <1>2, <1>8, <3>1 DEF LinksKept, KeptBeside
    <3>3. IsList(r, r.child[p], B)
      BY <1>5, <3>1 DEF ListWithout
    <3>4. IsList(g, r.child[p], B)
      BY <3>2, <3>3, ListStays
    <3> QED
      BY <1>4, <1>9, <2>1, <3>1, <3>4
  <2>2. CASE q # p
    <3>1. PICK B \in SUBSET N : B = Family(h, N, q)
      BY DEF Family
    <3>2. B \cap A = {} /\ B \cap R = {} /\ n \notin B
      BY <1>1, <1>2, <2>2, <3>1, Pointers DEF Family
    <3>3. \A x \in B : g.next[x] = h.next[x] /\ g.prev[x] = h.prev[x]
      BY <1>5, <1>8, <3>2 DEF LinksKept, KeptBeside
    <3>4. IsList(h, h.child[q], B)
      BY <3>1 DEF Trees
    <3>5. IsList(g, h.child[q], B)
      BY <3>3, <3>4, ListStays
    <3> QED
      BY <1>4, <1>9, <2>2, <3>1, <3>5
  <2> QED
    BY <2>1, <2>2
<1>11. IsList(g, g.root, Family(g, N, NULL))
  BY <1>7, <1>9 DEF ListWith
<1>12. h.parent \in [Node -> Pointer]
  BY HeapFields
<1>13. \A x \in N : g.parent[x] = IF x = n THEN NULL ELSE h.parent[x]
  BY <1>4, <1>12
<1>14. Grounded(g, N)
  <2> SUFFICES ASSUME NEW T \in SUBSET N, T # {} PROVE \E x \in T : g.parent[x] \notin T
    BY DEF Grounded
  <2>1. PICK x \in T : h.parent[x] \notin T
    BY DEF Trees, Grounded
  <2> QED
    BY <1>13, <2>1, Pointers
<1>15. \A x \in N : g.parent[x] \in N \cup {NULL}
  BY <1>13 DEF Trees
<1>16. g.root \in N
  BY <1>2, <1>7
<1>17. RootsLeast(h, N) => RootsLeast(g, N)
  BY <1>1, <1>4, <1>7, <1>9 DEF RootsLeast
<1> QED
  BY <1>1, <1>10, <1>11, <1>14, <1>15, <1>16, <1>17 DEF Trees

\* remove_minimum_h's link: a root becomes a child of another one.
LEMMA LinkTrees ==
    ASSUME NEW h \in HeapType, NEW N \in SUBSET Node, Trees(h, N),
           NEW p \in N, NEW n \in N, n # p, n # h.root,
           h.parent[n] = NULL, h.parent[p] = NULL,
           NEW r, RingRemoved(h, n, r), NEW g, ChildAdded(r, p, n, g)
    PROVE  /\ Trees(g, N)
           /\ \A x \in Node : h.parent[x] # NULL \/ x \notin N =>
                    r.next[x] = h.next[x] /\ r.prev[x] = h.prev[x]
           /\ \A x \in Node : x # n /\ (h.parent[x] # p \/ x \notin N) =>
                    g.next[x] = r.next[x] /\ g.prev[x] = r.prev[x]
<1>1. PICK A \in SUBSET Node, R \in SUBSET Node :
          A = Family(h, N, p) /\ R = Family(h, N, NULL)
  BY DEF Family
<1>2. /\ p \in Node /\ n \in Node /\ p # NULL /\ A \cap R = {} /\ n \notin A /\ n \in R
      /\ R \subseteq N /\ A \subseteq N
  BY <1>1, Pointers DEF Family
<1>3. IsList(h, h.child[p], A) /\ IsList(h, h.root, R)
  BY <1>1 DEF Trees
<1>4. /\ r \in HeapType /\ r.parent = h.parent /\ r.child = h.child /\ r.root = h.root
      /\ g \in HeapType /\ g.parent = [h.parent EXCEPT ![n] = p] /\ g.root = h.root
      /\ \A q \in Node \ {p} : g.child[q] = h.child[q]
  <2>1. h.child \in [Node -> Pointer]
    BY HeapFields
  <2> QED
    BY <2>1 DEF RingRemoved, ChildAdded
<1>5. h.root \in Node
  BY <1>2, <1>3, HeapFields, Pointers DEF IsList
<1>6. /\ ListWithout(r, h.root, R, n) /\ Alone(r.next, r.prev, n) /\ LinksKept(h, R, r)
  BY <1>2, <1>3, <1>5, ListParts
<1>7. IsList(r, r.child[p], A)
  <2>1. \A x \in A : r.next[x] = h.next[x] /\ r.prev[x] = h.prev[x]
    BY <1>2, <1>6 DEF LinksKept, KeptBeside
  <2> QED
    BY <1>3, <1>4, <2>1, ListStays
<1>8. /\ ListWith(g, g.child[p], A, n)
      /\ \A M : A \subseteq M /\ n \in M => LinksKept(r, M, g)
  BY <1>2, <1>4, <1>6, <1>7, ChildJoins
<1>9. LinksKept(r, A \cup {n}, g)
  BY <1>8
<1>10. /\ Family(g, N, p) = A \cup {n}
       /\ Family(g, N, NULL) = R \ {n}
       /\ \A q \in N : q # p => Family(g, N, q) = Family(h, N, q)
  <2>1. p \in Pointer /\ h.parent[n] # p
    BY <1>2, Pointers
  <2>2. /\ Family(g, N, p) = Family(h, N, p) \cup {n}
        /\ Family(g, N, h.parent[n]) = Family(h, N, h.parent[n]) \ {n}
        /\ \A q : q # p /\ q # h.parent[n] => Family(g, N, q) = Family(h, N, q)
    <3>1. Moved(h, N, n, p, g)
      BY <1>4, <2>1, FamiliesMoved
    <3> QED
      BY <3>1 DEF Moved
  <2> QED
    BY <1>1, <2>2, Pointers
<1>11. ASSUME NEW q \in N PROVE IsList(g, g.child[q], Family(g, N, q))
  <2>1. CASE q = p
    BY <1>8, <1>10, <2>1 DEF ListWith
  <2>2. CASE q # p
    <3>1. PICK B \in SUBSET N : B = Family(h, N, q)
      BY DEF Family
    <3>2. B \cap A = {} /\ B \cap R = {} /\ n \notin B
      BY <1>1, <1>2, <2>2, <3>1, Pointers DEF Family
    <3>3. \A x \in B : g.next[x] = h.next[x] /\ g.prev[x] = h.prev[x]
      BY <1>6, <1>9, <3>2 DEF LinksKept, KeptBeside
    <3>4. IsList(h, h.child[q], B)
      BY <3>1 DEF Trees
    <3>5. IsList(g, h.child[q], B)
      BY <3>3, <3>4, ListStays
    <3> QED
      BY <1>4, <1>10, <2>2, <3>1, <3>5
  <2> QED
    BY <2>1, <2>2
<1>12. IsList(g, g.root, Family(g, N, NULL))
  <2>1. PICK B : B = R \ {n}
    OBVIOUS
  <2>2. \A x \in B : g.next[x] = r.next[x] /\ g.prev[x] = r.prev[x]
    BY <1>2, <1>9, <2>1 DEF LinksKept, KeptBeside
  <2>3. IsList(r, h.root, B)
    BY <1>6, <2>1 DEF ListWithout
  <2>4. IsList(g, h.root, B)
    BY <2>2, <2>3, ListStays
  <2> QED
    BY <1>4, <1>10, <2>1, <2>4
<1>13. h.parent \in [Node -> Pointer]
  BY HeapFields
<1>14. \A x \in N : g.parent[x] = IF x = n THEN p ELSE h.parent[x]
  BY <1>4, <1>13
<1>15. Grounded(g, N)
  <2> SUFFICES ASSUME NEW T \in SUBSET N, T # {} PROVE \E x \in T : g.parent[x] \notin T
    BY DEF Grounded
  <2>1. PICK x \in T : h.parent[x] \notin T
    BY DEF Trees, Grounded
  <2> QED
    BY <1>14, <2>1, Pointers
<1>16. \A x \in N : g.parent[x] \in N \cup {NULL}
  BY <1>14 DEF Trees
<1>17. Trees(g, N)
  BY <1>11, <1>12, <1>15, <1>16 DEF Trees
<1>18. \A x \in Node : /\ h.parent[x] # NULL \/ x \notin N => x \notin R
                       /\ h.parent[x] # p \/ x \notin N => x \notin A
  BY <1>1 DEF Family
<1> QED
  BY <1>6, <1>9, <1>17, <1>18 DEF LinksKept, KeptBeside

\* Families are finite and no larger than the heap.
LEMMA FamilySize ==
    ASSUME NEW h, NEW N \in SUBSET Node, NEW p
    PROVE  /\ IsFiniteSet(N) /\ Cardinality(N) \in Nat
           /\ IsFiniteSet(Family(h, N, p)) /\ Cardinality(Family(h, N, p)) \in Nat
           /\ Cardinality(Family(h, N, p)) <= Cardinality(N)
<1>1. IsFiniteSet(N)
  BY FS_Subset, HeapAssumption
<1>2. Family(h, N, p) \in SUBSET N
  BY DEF Family
<1> HIDE DEF Family
<1> QED
  BY <1>1, <1>2, FS_Subset, FS_CardinalityType

\* What a predicate says is said of the pointers it reads.
LEMMA SameTrees ==
    ASSUME NEW h, NEW g, NEW N, g.next = h.next, g.prev = h.prev, g.child = h.child,
           g.parent = h.parent
    PROVE  /\ \A p : Family(g, N, p) = Family(h, N, p)
           /\ \A first, A : IsList(h, first, A) => IsList(g, first, A)
           /\ g.root = h.root /\ Trees(h, N) => Trees(g, N)
           /\ g.degree = h.degree /\ FreshBeside(h, N) => FreshBeside(g, N)
           /\ \A x : g.degree = h.degree /\ Counted(h, N, x) => Counted(g, N, x)
<1>1. \A p : Family(g, N, p) = Family(h, N, p)
  BY DEF Family
<1>2. \A first, A : IsList(h, first, A) => IsList(g, first, A)
  BY DEF IsList
<1>3. Grounded(h, N) => Grounded(g, N)
  BY DEF Grounded
<1>4. g.root = h.root /\ Trees(h, N) => Trees(g, N)
  BY <1>1, <1>2, <1>3 DEF Trees
<1>5. g.degree = h.degree /\ FreshBeside(h, N) => FreshBeside(g, N)
  BY DEF FreshBeside
<1>6. \A x : g.degree = h.degree /\ Counted(h, N, x) => Counted(g, N, x)
  BY <1>1 DEF Counted
<1> QED
  BY <1>1, <1>2, <1>4, <1>5, <1>6

\* The least of the roots is the least of all.
LEMMA LeastOfAll ==
    ASSUME NEW h \in HeapType, NEW N \in SUBSET Node, Shaped(h, N, NULL), NEW n \in N
    PROVE  /\ h.root \in N /\ h.parent[h.root] = NULL
           /\ h.key[h.root] <= h.key[n]
<1>1. Trees(h, N) /\ Ordered(h, N, NULL) /\ RootsLeast(h, N) /\ Grounded(h, N)
  BY DEF Shaped, Trees
<1>2. PICK top \in N : h.parent[top] \notin N
  BY <1>1 DEF Grounded
<1>3. h.parent[top] = NULL
  BY <1>1, <1>2 DEF Trees
<1>4. top \in Family(h, N, NULL)
  BY <1>3 DEF Family
<1>5. h.root \in Family(h, N, NULL)
  <2>1. IsList(h, h.root, Family(h, N, NULL))
    BY <1>1 DEF Trees
  <2> HIDE DEF Family
  <2> QED
    BY <1>4, <2>1 DEF IsList
<1>6. h.root \in N /\ h.parent[h.root] = NULL
  BY <1>5 DEF Family
<1>7. \A x \in N : h.key[x] \in Nat
  BY KeysAreNumbers
<1>8. PICK T : T = {x \in N : ~(h.key[h.root] <= h.key[x])}
  OBVIOUS
<1>9. T = {}
  <2> SUFFICES ASSUME T # {} PROVE FALSE
    OBVIOUS
  <2>1. T \in SUBSET N
    BY <1>8
  <2>2. PICK x \in T : h.parent[x] \notin T
    BY <1>1, <2>1 DEF Grounded
  <2>3. x \in N /\ ~(h.key[h.root] <= h.key[x])
    BY <1>8, <2>2
  <2>4. CASE h.parent[x] = NULL
    <3>1. x \in Family(h, N, NULL)
      BY <2>3, <2>4 DEF Family
    <3> QED
      BY <1>1, <2>3, <3>1 DEF RootsLeast
  <2>5. CASE h.parent[x] # NULL
    <3>1. h.parent[x] \in N
      BY <1>1, <2>3, <2>5 DEF Trees
    <3>2. h.key[h.root] <= h.key[h.parent[x]]
      BY <1>8, <2>2, <3>1
    <3>3. h.key[h.parent[x]] <= h.key[x]
      BY <1>1, <2>3, <2>5, Pointers DEF Ordered
    <3> QED
      BY <1>6, <1>7, <2>3, <3>1, <3>2, <3>3
  <2> QED
    BY <2>4, <2>5
<1> QED
  BY <1>6, <1>8, <1>9

\* The degree does not wrap when a child is cut.
LEMMA CountAfterCut ==
    ASSUME NEW h \in HeapType, NEW N \in SUBSET Node, Cardinality(N) <= HeapSize,
           NEW p \in N, NEW n \in Family(h, N, p),
           h.degree[p] = Cardinality(Family(h, N, p)),
           NEW d, d = (h.degree[p] - 1) % CountRange
    PROVE  d = Cardinality(Family(h, N, p) \ {n})
<1>1. PICK A : A = Family(h, N, p)
  OBVIOUS
<1>2. IsFiniteSet(A) /\ Cardinality(A) \in Nat /\ Cardinality(A) <= Cardinality(N)
      /\ Cardinality(N) \in Nat
  BY <1>1, FamilySize
<1>3. Cardinality(A \ {n}) = Cardinality(A) - 1 /\ Cardinality(A \ {n}) \in Nat
  BY <1>1, <1>2, FS_RemoveElement, FS_CardinalityType
<1>4. Cardinality(A \ {n}) \in 0..(CountRange - 1)
  <2>1. HeapSize \in Nat /\ CountRange \in Nat /\ HeapSize < CountRange
    BY Wraps, HeapAssumption
  <2> QED
    BY <1>2, <1>3, <2>1
<1>5. (Cardinality(A) - 1) % CountRange = Cardinality(A \ {n})
  BY <1>3, <1>4, Wraps
<1> QED
  BY <1>1, <1>5

\* One cut of decrease_key.
LEMMA CutShape ==
    ASSUME NEW h \in HeapType, NEW N \in SUBSET Node, Cardinality(N) <= HeapSize,
           NEW n \in N, Shaped(h, N, n), NEW p \in N, h.parent[n] = p,
           NEW r, ChildRemoved(h, p, n, r), NEW g, NodeInserted(r, n, g)
    PROVE  /\ g \in HeapType /\ Shaped(g, N, NULL) /\ RestKept(h, g)
           /\ g.root \in N
<1>1. Trees(h, N) /\ FreshBeside(h, N) /\ Counted(h, N, NULL) /\ Ordered(h, N, n)
      /\ RootsLeast(h, N)
  BY DEF Shaped
<1>2. /\ Trees(g, N) /\ g.root \in N /\ RootsLeast(g, N)
  BY <1>1, CutTrees
<1>3. /\ g \in HeapType /\ g.parent = [h.parent EXCEPT ![n] = NULL]
      /\ g.child = r.child /\ r \in HeapType
      /\ r.child = [h.child EXCEPT ![p] = r.child[p]]
      /\ g.degree = [h.degree EXCEPT ![p] = (h.degree[p] - 1) % CountRange]
      /\ RestKept(h, g)
  BY HeapFields DEF ChildRemoved, NodeInserted, RestKept
<1>4. /\ h.parent \in [Node -> Pointer] /\ h.degree \in [Node -> 0..(CountRange - 1)]
      /\ h.child \in [Node -> Pointer]
  BY HeapFields
<1>5. n \in Node /\ p \in Node /\ NULL \notin N
  BY Pointers
<1>6. FreshBeside(g, N)
  <2>1. PICK A \in SUBSET Node, R \in SUBSET Node :
            A = Family(h, N, p) /\ R = Family(h, N, NULL) /\ A \subseteq N /\ R \subseteq N
            /\ n \in A /\ n \notin R
    <3>1. Family(h, N, p) \in SUBSET N /\ Family(h, N, NULL) \in SUBSET N
          /\ n \in Family(h, N, p) /\ n \notin Family(h, N, NULL)
      BY <1>5 DEF Family
    <3> QED
      BY <3>1
  <2>2. IsList(h, h.child[p], A) /\ IsList(h, h.root, R)
    BY <1>1, <2>1 DEF Trees
  <2>3. Alone(r.next, r.prev, n) /\ LinksKept(h, A, r)
    BY <1>5, <2>1, <2>2, ChildParts
  <2>4. A \cap R = {}
    BY <1>5, <2>1 DEF Family
  <2>5. IsList(r, r.root, R)
    <3>1. \A x \in R : r.next[x] = h.next[x] /\ r.prev[x] = h.prev[x]
      BY <2>3, <2>4 DEF LinksKept, KeptBeside
    <3>2. r.root = h.root
      BY DEF ChildRemoved
    <3> QED
      BY <2>2, <3>1, <3>2, ListStays
  <2>6. LinksKept(r, N, g)
    BY <1>3, <1>5, <2>1, <2>3, <2>5, RootJoins
  <2>7. \A x \in Node \ N : /\ g.next[x] = h.next[x] /\ g.prev[x] = h.prev[x]
    BY <2>1, <2>3, <2>6 DEF LinksKept, KeptBeside
  <2>8. \A x \in Node \ N : /\ g.child[x] = h.child[x] /\ g.parent[x] = h.parent[x]
                            /\ g.degree[x] = h.degree[x]
    BY <1>3, <1>4
  <2> QED
    BY <1>1, <2>7, <2>8 DEF FreshBeside
<1>7. /\ Family(g, N, NULL) = Family(h, N, NULL) \cup {n}
      /\ Family(g, N, p) = Family(h, N, p) \ {n}
      /\ \A q : q # NULL /\ q # p => Family(g, N, q) = Family(h, N, q)
  <2>1. g.parent = [h.parent EXCEPT ![n] = NULL] /\ h.parent[n] # NULL /\ NULL \in Pointer
    BY <1>3, <1>5, Pointers
  <2>2. /\ Family(g, N, NULL) = Family(h, N, NULL) \cup {n}
        /\ Family(g, N, h.parent[n]) = Family(h, N, h.parent[n]) \ {n}
        /\ \A q : q # NULL /\ q # h.parent[n] => Family(g, N, q) = Family(h, N, q)
    <3>1. Moved(h, N, n, NULL, g)
      BY <2>1, FamiliesMoved
    <3> QED
      BY <3>1 DEF Moved
  <2> QED
    BY <2>2
<1>8. Counted(g, N, NULL)
  <2> SUFFICES ASSUME NEW q \in N PROVE g.degree[q] = Cardinality(Family(g, N, q))
    BY DEF Counted
  <2>1. h.degree[q] = Cardinality(Family(h, N, q)) /\ q # NULL /\ q \in Node
    BY <1>1, <1>5 DEF Counted
  <2>2. CASE q = p
    <3>1. PICK d : d = (h.degree[p] - 1) % CountRange
      OBVIOUS
    <3>2. n \in Family(h, N, p)
      BY DEF Family
    <3>3. d = Cardinality(Family(h, N, p) \ {n})
      BY <2>1, <2>2, <3>1, <3>2, CountAfterCut
    <3>4. g.degree[p] = d
      BY <1>3, <1>4, <1>5, <3>1
    <3> QED
      BY <1>7, <2>2, <3>3, <3>4
  <2>3. CASE q # p
    <3>1. g.degree[q] = h.degree[q]
      BY <1>3, <1>4, <2>1, <2>3
    <3> QED
      BY <1>7, <2>1, <2>3, <3>1
  <2> QED
    BY <2>2, <2>3
<1>9. Ordered(g, N, NULL)
  <2>1. \A x \in N : g.parent[x] = IF x = n THEN NULL ELSE h.parent[x]
    BY <1>3, <1>4
  <2>2. g.key = h.key
    BY <1>3 DEF RestKept
  <2> QED
    BY <1>1, <2>1, <2>2 DEF Ordered
<1> QED
  BY <1>2, <1>3, <1>6, <1>8, <1>9 DEF Shaped

\* Marks and counts are no part of the shape.
LEMMA SameShape ==
    ASSUME NEW h, NEW g, NEW N, NEW x, g.next = h.next, g.prev = h.prev, g.child = h.child,
           g.parent = h.parent, g.root = h.root, g.degree = h.degree, g.key = h.key,
           Shaped(h, N, x)
    PROVE  Shaped(g, N, x)
<1>1. Trees(g, N) /\ FreshBeside(g, N) /\ Counted(g, N, NULL)
  BY SameTrees DEF Shaped
<1>2. Ordered(g, N, x)
  BY DEF Shaped, Ordered
<1>3. RootsLeast(g, N)
  BY SameTrees DEF Shaped, RootsLeast
<1> QED
  BY <1>1, <1>2, <1>3 DEF Shaped

\* The nodes that have a parent.
Below(h, N) == {n \in N : h.parent[n] # NULL}

\* The loop of decrease_key: each turn leaves one node less with a parent.
CutKeeps(c, i, a) ==
    /\ a.h \in HeapType /\ a.node \in c.nodes /\ a.done \in BOOLEAN
    /\ RestKept(c.h, a.h) /\ a.h.root \in c.nodes
    /\ ~a.done => a.h.parent[a.node] \in c.nodes
    /\ i = 0 => ~a.done /\ Shaped(a.h, c.nodes, a.node)
    /\ i # 0 => Shaped(a.h, c.nodes, NULL)
    /\ ~a.done => Cardinality(Below(a.h, c.nodes)) + i <= HeapSize

CutShapes == INSTANCE FoldInduction WITH turn <- CutLoopTurn, keeps <- CutKeeps

\* A node that is exempted may also be in order.
LEMMA ShapedAlso ==
    ASSUME NEW h, NEW N, NEW x, Shaped(h, N, NULL), NULL \notin N
    PROVE  Shaped(h, N, x)
BY DEF Shaped, Ordered

Marked(h, p, g) == g = [h EXCEPT !.mark[p] = TRUE]

\* Marking a node changes its mark.
LEMMA MarkIs ==
    ASSUME NEW h \in HeapType, NEW p \in Node, NEW g, Marked(h, p, g)
    PROVE  /\ g \in HeapType /\ g.next = h.next /\ g.prev = h.prev /\ g.child = h.child
           /\ g.parent = h.parent /\ g.root = h.root /\ g.degree = h.degree
           /\ g.key = h.key /\ g.count = h.count /\ g.maxDegree = h.maxDegree
BY DEF HeapType, Marked

\* A set of at most HeapSize nodes has no more in a part of it.
LEMMA FewerThanSize ==
    ASSUME NEW N \in SUBSET Node, Cardinality(N) <= HeapSize, NEW M \in SUBSET N
    PROVE  IsFiniteSet(M) /\ Cardinality(M) \in Nat /\ Cardinality(M) <= HeapSize
<1>1. IsFiniteSet(N)
  BY HeapAssumption, FS_Subset
<1>2. /\ IsFiniteSet(M) /\ Cardinality(M) \in Nat /\ Cardinality(N) \in Nat
      /\ Cardinality(M) <= Cardinality(N)
  BY <1>1, FS_Subset, FS_CardinalityType
<1> QED
  BY <1>2, Wraps

\* An only child is the one m_child points to: remove_child does not throw.
LEMMA OnlyChildIsFirst ==
    ASSUME NEW h \in HeapType, NEW N \in SUBSET Node, Trees(h, N),
           NEW n \in N, NEW p \in N, h.parent[n] = p
    PROVE  ~NoChild(h, p, n)
<1>1. PICK A : A = Family(h, N, p)
  OBVIOUS
<1>2. IsList(h, h.child[p], A) /\ n \in A
  BY <1>1 DEF Trees, Family
<1>3. IsRing(h.next, h.prev, A) /\ h.child[p] \in A
  BY <1>2 DEF IsList
<1>4. h.next[n] = n => A = {n}
  BY <1>2, <1>3, RingIsOne
<1> QED
  BY <1>3, <1>4 DEF NoChild

\* A turn of the loop of decrease_key: node becomes a root, and its parent is next or is
\* in order.
LEMMA CutTurnKeeps ==
    ASSUME NEW c, c.nodes \in SUBSET Node, Cardinality(c.nodes) <= HeapSize,
           NEW i \in Nat, NEW j \in Nat, j = i + 1, NEW a, CutKeeps(c, i, a)
    PROVE  CutKeeps(c, j, CutTurn(a))
<1>1. CASE a.done
  <2>1. CutTurn(a) = a
    BY <1>1 DEF CutTurn
  <2>2. i # 0 /\ Shaped(a.h, c.nodes, NULL)
    BY <1>1 DEF CutKeeps
  <2>3. j # 0
    OBVIOUS
  <2>4. CutKeeps(c, j, a)
    BY <1>1, <2>2, <2>3 DEF CutKeeps
  <2> QED
    BY <2>1, <2>4
<1>2. CASE ~a.done
  <2>1a. PICK N : N = c.nodes
    OBVIOUS
  <2>1b. PICK h : h = a.h
    OBVIOUS
  <2>1c. PICK node : node = a.node
    OBVIOUS
  <2>1d. PICK parent : parent = h.parent[node]
    OBVIOUS
  <2>1e. PICK removed : removed = RemoveChild(h, parent, node)
    OBVIOUS
  <2>1f. PICK cut : cut = InsertNode(removed, node)
    OBVIOUS
  <2>1g. PICK marked : marked = [cut EXCEPT !.mark[parent] = TRUE]
    OBVIOUS
  <2>1. /\ N = c.nodes /\ h = a.h /\ node = a.node /\ parent = h.parent[node]
        /\ removed = RemoveChild(h, parent, node) /\ cut = InsertNode(removed, node)
        /\ marked = [cut EXCEPT !.mark[parent] = TRUE]
    BY <2>1a, <2>1b, <2>1c, <2>1d, <2>1e, <2>1f, <2>1g
  <2>2. /\ N \in SUBSET Node /\ Cardinality(N) <= HeapSize
        /\ h \in HeapType /\ node \in N /\ parent \in N /\ node \in Node /\ parent \in Node
        /\ RestKept(c.h, h) /\ NULL \notin N
    BY <1>2, <2>1, Pointers DEF CutKeeps
  <2>3. Shaped(h, N, node)
    <3>1. CASE i = 0
      BY <2>1, <3>1 DEF CutKeeps
    <3>2. CASE i # 0
      <4>1. Shaped(h, N, NULL)
        BY <2>1, <3>2 DEF CutKeeps
      <4> QED
        BY <2>2, <4>1, ShapedAlso
    <3> QED
      BY <3>1, <3>2
  <2>4. ChildRemoved(h, parent, node, removed)
    BY <2>1, <2>2, RemoveChildIs
  <2>5. removed \in HeapType
    BY <2>4 DEF ChildRemoved
  <2>6. NodeInserted(removed, node, cut)
    BY <2>1, <2>2, <2>5, InsertNodeIs
  <2>7. cut \in HeapType /\ Shaped(cut, N, NULL) /\ RestKept(h, cut) /\ cut.root \in N
    <3>1. h.parent[node] = parent
      BY <2>1
    <3> QED
      BY <2>2, <2>3, <2>4, <2>6, <3>1, CutShape
  <2>8. RestKept(c.h, cut)
    BY <2>2, <2>7 DEF RestKept
  <2>9. /\ marked \in HeapType /\ RestKept(cut, marked)
        /\ marked.next = cut.next /\ marked.prev = cut.prev /\ marked.child = cut.child
        /\ marked.parent = cut.parent /\ marked.root = cut.root
        /\ marked.degree = cut.degree /\ marked.key = cut.key
    <3>1. Marked(cut, parent, marked)
      BY <2>1 DEF Marked
    <3> QED
      BY <2>2, <2>7, <3>1, MarkIs DEF RestKept
  <2>10. Shaped(marked, N, NULL) /\ RestKept(c.h, marked)
    <3>1. Shaped(marked, N, NULL)
      BY <2>7, <2>9, SameShape
    <3> QED
      BY <2>8, <2>9, <3>1 DEF RestKept
  <2>11. cut.parent[parent] \in N \cup {NULL}
    BY <2>2, <2>7 DEF Shaped, Trees
  <2>11a. ~NoChild(h, parent, node)
    BY <2>1, <2>2, <2>3, OnlyChildIsFirst DEF Shaped
  <2>11b. Cardinality(Below(cut, N)) + j <= HeapSize
    <3>1. /\ IsFiniteSet(Below(h, N)) /\ Cardinality(Below(h, N)) \in Nat
      <4>1. IsFiniteSet(N) /\ Below(h, N) \subseteq N
        BY <2>2, HeapAssumption, FS_Subset DEF Below
      <4> QED
        BY <4>1, FS_Subset, FS_CardinalityType
    <3>2. node \in Below(h, N) /\ Below(cut, N) = Below(h, N) \ {node}
      <4>1. cut.parent = [h.parent EXCEPT ![node] = NULL]
        BY <2>4, <2>6 DEF ChildRemoved, NodeInserted
      <4>2. h.parent \in [Node -> Pointer] /\ parent # NULL
        BY <2>2, HeapFields
      <4> QED
        BY <2>1, <2>2, <4>1, <4>2 DEF Below
    <3>3. Cardinality(Below(cut, N)) = Cardinality(Below(h, N)) - 1
      BY <3>1, <3>2, FS_RemoveElement
    <3>4. Cardinality(Below(h, N)) + i <= HeapSize
      BY <1>2, <2>1 DEF CutKeeps
    <3>5. PICK before \in Nat : before = Cardinality(Below(h, N))
      BY <3>1
    <3>6. Cardinality(Below(cut, N)) + j = before + i
      BY <3>3, <3>5
    <3> QED
      BY <3>4, <3>5, <3>6
  <2>12. \A b : /\ b.h \in HeapType /\ RestKept(c.h, b.h) /\ Shaped(b.h, N, NULL)
                /\ b.h.root \in N /\ b.node = parent /\ b.done \in BOOLEAN
                /\ ~b.done => b.h.parent[parent] \in N /\ b.h = cut
                => CutKeeps(c, j, b)
    <3>1. j # 0
      OBVIOUS
    <3> QED
      BY <2>1, <2>2, <2>11b, <3>1, Zenon DEF CutKeeps
  <2>13. CASE cut.parent[parent] = NULL
    <3>1. CutTurn(a) = [h |-> cut, node |-> parent, done |-> TRUE]
      BY <1>2, <2>1, <2>11a, <2>13 DEF CutTurn
    <3> QED
      BY <2>7, <2>8, <2>12, <3>1
  <2>14. CASE cut.parent[parent] # NULL /\ ~cut.mark[parent]
    <3>1. CutTurn(a) = [h |-> marked, node |-> parent, done |-> TRUE]
      BY <1>2, <2>1, <2>11a, <2>14 DEF CutTurn
    <3> QED
      BY <2>7, <2>9, <2>10, <2>12, <3>1
  <2>15. CASE cut.parent[parent] # NULL /\ cut.mark[parent]
    <3>1. CutTurn(a) = [h |-> cut, node |-> parent, done |-> FALSE]
      BY <1>2, <2>1, <2>11a, <2>15 DEF CutTurn
    <3> QED
      BY <2>7, <2>8, <2>11, <2>15, <2>12, <3>1
  <2> QED
    BY <2>13, <2>14, <2>15
<1> QED
  BY <1>1, <1>2

\* The loop of decrease_key ends, with all trees in order: the nodes it has cut are all
\* different, so that it runs out of nodes before it runs out of turns.
LEMMA CutKeepsShape ==
    ASSUME NEW h \in HeapType, NEW N \in SUBSET Node, Cardinality(N) <= HeapSize,
           NEW node \in N, Shaped(h, N, node), h.parent[node] \in N, h.root \in N
    PROVE  /\ Cuts(h, node).h \in HeapType /\ Shaped(Cuts(h, node).h, N, NULL)
           /\ RestKept(h, Cuts(h, node).h) /\ Cuts(h, node).done
<1>1a. PICK base : base = [h |-> h, node |-> node, done |-> FALSE]
  OBVIOUS
<1>1b. PICK c : c = [h |-> h, nodes |-> N]
  OBVIOUS
<1>1. /\ base = [h |-> h, node |-> node, done |-> FALSE] /\ c = [h |-> h, nodes |-> N]
  BY <1>1a, <1>1b
<1>2. PICK end : end = CutShapes!Loop(c, base, Turns)
  OBVIOUS
<1>3. Cuts(h, node) = end
  BY <1>1, <1>2, SMT DEF Cuts, CutShapes!Loop, CutLoopTurn, FoldLeft, MapThenFoldSet, Max,
             CutShapes!MapThenFoldSet, CutShapes!Greatest
<1>4. CutKeeps(c, 0, base)
  <2>1. Cardinality(Below(h, N)) + 0 <= HeapSize
    <3>1. Below(h, N) \in SUBSET N
      BY DEF Below
    <3>2. Cardinality(Below(h, N)) \in Nat /\ Cardinality(Below(h, N)) <= HeapSize
      BY <3>1, FewerThanSize
    <3> QED
      BY <3>2
  <2> QED
    BY <1>1, <2>1 DEF CutKeeps, RestKept
<1>5. c.nodes \in SUBSET Node /\ Cardinality(c.nodes) <= HeapSize
  BY <1>1
<1>6. ASSUME NEW i \in 1..HeapSize, NEW a, CutKeeps(c, i - 1, a)
      PROVE  CutKeeps(c, i, CutLoopTurn(c, a, Turns[i]))
  <2>1. i \in Nat
    OBVIOUS
  <2>2. PICK k \in Nat : k = i - 1 /\ i = k + 1
    OBVIOUS
  <2>3. CutKeeps(c, k, a)
    BY <1>6, <2>2
  <2> HIDE DEF CutKeeps
  <2>4. CutKeeps(c, i, CutTurn(a))
    BY <1>5, <2>1, <2>2, <2>3, CutTurnKeeps
  <2> QED
    BY <2>4 DEF CutLoopTurn
<1>7. CutKeeps(c, HeapSize, CutShapes!Loop(c, base, Turns))
  BY <1>4, <1>6, Wraps, TurnsAre, CutShapes!LoopKeeps
<1>8. CutKeeps(c, HeapSize, end)
  BY <1>2, <1>7
<1>9. HeapSize # 0 /\ HeapSize \in Nat
  BY Wraps
<1>10. end.done
  <2> SUFFICES ASSUME ~end.done PROVE FALSE
    OBVIOUS
  <2>1. /\ Cardinality(Below(end.h, N)) + HeapSize <= HeapSize
        /\ end.node \in N /\ end.h.parent[end.node] \in N
    BY <1>1, <1>8 DEF CutKeeps
  <2>2. Below(end.h, N) \in SUBSET N /\ end.node \in Below(end.h, N)
    BY <2>1, Pointers DEF Below
  <2>3. /\ IsFiniteSet(Below(end.h, N)) /\ Cardinality(Below(end.h, N)) \in Nat
    BY <2>2, FewerThanSize
  <2>4. Cardinality(Below(end.h, N)) = 0
    BY <1>9, <2>1, <2>3
  <2> QED
    BY <2>2, <2>3, <2>4, FS_EmptySet
<1> QED
  BY <1>1, <1>3, <1>8, <1>9, <1>10 DEF CutKeeps

Keyed(h, node, k, g) == g = [h EXCEPT !.key[node] = k]

\* Writing a key changes that key.
LEMMA KeyedIs ==
    ASSUME NEW h \in HeapType, NEW node \in Node, NEW k \in Time, NEW g, Keyed(h, node, k, g)
    PROVE  /\ g \in HeapType /\ g.next = h.next /\ g.prev = h.prev /\ g.child = h.child
           /\ g.parent = h.parent /\ g.root = h.root /\ g.degree = h.degree
           /\ g.key = [h.key EXCEPT ![node] = k]
           /\ \A x \in Node : g.key[x] = IF x = node THEN k ELSE h.key[x]
           /\ g.count = h.count /\ g.maxDegree = h.maxDegree
BY DEF HeapType, Keyed

\* A key made smaller may come before its parent's, and the least root before it.
LEMMA KeyedShape ==
    ASSUME NEW h \in HeapType, NEW N \in SUBSET Node, Shaped(h, N, NULL),
           NEW node \in N, NEW k \in Time, k < h.key[node], NEW g, Keyed(h, node, k, g)
    PROVE  /\ Trees(g, N) /\ FreshBeside(g, N) /\ Counted(g, N, NULL)
           /\ Ordered(g, N, node)
<1>1. /\ node \in Node /\ NULL \notin N
      /\ g.next = h.next /\ g.prev = h.prev /\ g.child = h.child
      /\ g.parent = h.parent /\ g.root = h.root /\ g.degree = h.degree
      /\ \A x \in Node : g.key[x] = IF x = node THEN k ELSE h.key[x]
  <2>1. node \in Node /\ NULL \notin N
    BY Pointers
  <2> QED
    BY <2>1, HeapFields DEF Keyed
<1>2. Trees(g, N) /\ FreshBeside(g, N) /\ Counted(g, N, NULL)
  BY <1>1, SameTrees DEF Shaped
<1>3. ASSUME NEW x \in N, x # node, h.parent[x] # NULL
      PROVE  g.key[h.parent[x]] <= g.key[x]
  <2>1. h.key[h.parent[x]] <= h.key[x] /\ h.parent[x] \in N
    BY <1>1, <1>3 DEF Shaped, Trees, Ordered
  <2>2. /\ h.key[x] \in Nat /\ h.key[node] \in Nat /\ h.key[h.parent[x]] \in Nat /\ k \in Nat
    BY <2>1, KeysAreNumbers, HeapAssumption DEF Time
  <2>3. g.key[x] = h.key[x]
    BY <1>1, <1>3
  <2>4. CASE h.parent[x] = node
    BY <1>1, <2>1, <2>2, <2>3, <2>4
  <2>5. CASE h.parent[x] # node
    BY <1>1, <2>1, <2>3, <2>5
  <2> QED
    BY <2>4, <2>5
<1>4. Ordered(g, N, node)
  BY <1>1, <1>3 DEF Ordered
<1> QED
  BY <1>2, <1>4

\* decrease_key keeps the trees, in each of its three branches.
LEMMA DecreaseShape ==
    ASSUME NEW h \in HeapType, NEW N \in SUBSET Node, Cardinality(N) <= HeapSize,
           Shaped(h, N, NULL), NEW node \in N, NEW k \in Time, k < h.key[node],
           NEW g, g = DecreaseKeyH(h, node, k)
    PROVE  /\ g \in HeapType /\ Shaped(g, N, NULL)
           /\ g.key = [h.key EXCEPT ![node] = k] /\ g.count = h.count
           /\ ~DecreaseBreaks(h, node, k)
<1>1. PICK keyed : Keyed(h, node, k, keyed)
  BY DEF Keyed
<1>2. /\ node \in Node /\ NULL \notin N
      /\ keyed \in HeapType
      /\ keyed.next = h.next /\ keyed.prev = h.prev /\ keyed.child = h.child
      /\ keyed.parent = h.parent /\ keyed.root = h.root /\ keyed.degree = h.degree
      /\ keyed.key = [h.key EXCEPT ![node] = k]
      /\ \A x \in Node : keyed.key[x] = IF x = node THEN k ELSE h.key[x]
      /\ keyed.count = h.count /\ keyed.maxDegree = h.maxDegree
  BY <1>1, KeyedIs, Pointers
<1>3. /\ Trees(keyed, N) /\ FreshBeside(keyed, N) /\ Counted(keyed, N, NULL)
      /\ Ordered(keyed, N, node)
  BY <1>1, KeyedShape
<1>4. h.root \in N /\ h.parent[h.root] = NULL
  BY LeastOfAll
<1>5. k \in Nat /\ \A x \in Node : h.key[x] \in Nat
  BY KeysAreNumbers, HeapAssumption DEF Time
<1>6. RootsLeast(h, N) /\ Trees(h, N)
  BY DEF Shaped
<1>7. CASE h.parent[node] = NULL
  <2>1. PICK root : root = IF k < keyed.key[h.root] THEN node ELSE h.root
    OBVIOUS
  <2>2. g = [keyed EXCEPT !.root = root]
    BY <1>1, <1>2, <1>7, <2>1 DEF DecreaseKeyH, Keyed
  <2>3. root \in N /\ root \in Node /\ root \in Pointer /\ h.parent[root] = NULL
    BY <1>4, <1>7, <2>1, Pointers
  <2>4. /\ g \in HeapType /\ g.root = root
        /\ g.next = keyed.next /\ g.prev = keyed.prev /\ g.child = keyed.child
        /\ g.parent = keyed.parent /\ g.degree = keyed.degree
        /\ g.key = keyed.key /\ g.count = keyed.count
    BY <1>2, <2>2, <2>3 DEF HeapType
  <2>5. /\ \A p : Family(g, N, p) = Family(keyed, N, p)
        /\ \A first, A : IsList(keyed, first, A) => IsList(g, first, A)
        /\ FreshBeside(g, N) /\ Counted(g, N, NULL)
    BY <1>3, <2>4, SameTrees
  <2>6. Trees(g, N)
    <3>1. PICK R : R = Family(keyed, N, NULL)
      OBVIOUS
    <3>2. IsList(keyed, keyed.root, R)
      BY <1>3, <3>1 DEF Trees
    <3>3. root \in R
      BY <1>2, <2>3, <3>1 DEF Family
    <3>4. IsList(g, root, R)
      <4>1. IsList(keyed, root, R)
        BY <2>3, <3>2, <3>3, Pointers DEF IsList
      <4> QED
        BY <2>5, <4>1
    <3>5. Grounded(g, N)
      BY <1>3, <2>4 DEF Trees, Grounded
    <3> QED
      BY <1>3, <2>4, <2>5, <3>1, <3>4, <3>5 DEF Trees
  <2>7. Ordered(g, N, NULL)
    BY <1>2, <1>3, <1>7, <2>4 DEF Ordered
  <2>8. RootsLeast(g, N)
    <3> SUFFICES ASSUME NEW x \in Family(g, N, NULL) PROVE g.key[g.root] <= g.key[x]
      BY DEF RootsLeast
    <3>1. x \in N /\ h.key[h.root] <= h.key[x]
      BY <1>2, <1>6, <2>4 DEF RootsLeast, Family
    <3>2. x \in Node /\ h.root \in Node
      BY <1>4, <3>1
    <3>3. g.key[x] = (IF x = node THEN k ELSE h.key[x]) /\ g.key[node] = k
      BY <1>2, <2>4, <3>2
    <3>4. CASE h.root = node
      <4>1. g.root = node
        BY <2>1, <2>4, <3>4
      <4> QED
        BY <1>2, <1>5, <3>1, <3>2, <3>3, <3>4, <4>1
    <3>5. CASE h.root # node
      <4>1. keyed.key[h.root] = h.key[h.root]
        BY <1>2, <3>2, <3>5
      <4>2. h.key[x] \in Nat /\ h.key[h.root] \in Nat
        BY <1>5, <3>2
      <4>3. CASE k < h.key[h.root]
        <5>1. g.root = node
          BY <2>1, <2>4, <4>1, <4>3
        <5> QED
          BY <1>5, <3>1, <3>3, <4>2, <4>3, <5>1
      <4>4. CASE ~(k < h.key[h.root])
        <5>1. g.root = h.root /\ g.key[h.root] = h.key[h.root]
          BY <2>1, <2>4, <4>1, <4>4
        <5> QED
          BY <1>5, <3>1, <3>3, <4>2, <4>4, <5>1
      <4> QED
        BY <4>3, <4>4
    <3> QED
      BY <3>4, <3>5
  <2>9. ~DecreaseBreaks(h, node, k)
    BY <1>7 DEF DecreaseBreaks
  <2> QED
    BY <1>2, <2>4, <2>5, <2>6, <2>7, <2>8, <2>9 DEF Shaped
<1>8. CASE h.parent[node] # NULL
  <2>1. RootsLeast(keyed, N)
    <3> SUFFICES ASSUME NEW x \in Family(keyed, N, NULL)
                 PROVE  keyed.key[keyed.root] <= keyed.key[x]
      BY DEF RootsLeast
    <3>1. x \in N /\ x # node /\ h.key[h.root] <= h.key[x] /\ x \in Node
      BY <1>2, <1>6, <1>8 DEF RootsLeast, Family
    <3>2. h.root # node /\ h.root \in Node
      BY <1>4, <1>8
    <3> QED
      BY <1>2, <3>1, <3>2
  <2>2. Shaped(keyed, N, node)
    BY <1>3, <2>1 DEF Shaped
  <2>3. h.parent[node] \in N /\ h.parent[node] # node /\ h.parent[node] \in Node
    <3>1. h.parent[node] \in N
      BY <1>6, <1>8 DEF Trees
    <3>2. h.parent[node] \notin {node}
      BY <1>6 DEF Trees, Grounded
    <3> QED
      BY <3>1, <3>2
  <2>4. CASE h.key[h.parent[node]] <= k
    <3>1. g = keyed
      BY <1>1, <1>8, <2>4 DEF DecreaseKeyH, Keyed
    <3>2. keyed.key[keyed.parent[node]] <= keyed.key[node]
      BY <1>2, <2>3, <2>4
    <3>3. Ordered(keyed, N, NULL)
      BY <1>3, <3>2 DEF Ordered
    <3>4. ~DecreaseBreaks(h, node, k)
      <4>1. h.key[h.parent[node]] \in Nat
        BY <1>5, <2>3
      <4>2. ~(h.key[h.parent[node]] > k)
        BY <1>5, <2>4, <4>1
      <4> QED
        BY <4>2 DEF DecreaseBreaks
    <3> QED
      BY <1>2, <2>2, <3>1, <3>3, <3>4 DEF Shaped
  <2>5. CASE ~(h.key[h.parent[node]] <= k)
    <3>1. g = Cuts(keyed, node).h
      BY <1>1, <1>8, <2>5 DEF DecreaseKeyH, Keyed
    <3>2. keyed.parent[node] \in N /\ keyed.root \in N
      BY <1>2, <1>4, <2>3
    <3>3. /\ g \in HeapType /\ Shaped(g, N, NULL) /\ RestKept(keyed, g)
          /\ Cuts(keyed, node).done
      BY <1>2, <2>2, <3>1, <3>2, CutKeepsShape
    <3>4. ~DecreaseBreaks(h, node, k)
      BY <1>1, <3>3 DEF DecreaseBreaks, Keyed
    <3> QED
      BY <1>2, <3>3, <3>4 DEF RestKept
  <2> QED
    BY <2>4, <2>5
<1> QED
  BY <1>7, <1>8

\* M has the node as well as the nodes N.
HasAlso(N, node, M) == M = N \cup {node}

\* insert: a fresh node becomes a root.
LEMMA InsertShape ==
    ASSUME NEW h \in HeapType, NEW N \in SUBSET Node, Shaped(h, N, NULL),
           NEW node \in Node, node \notin N, NEW k \in Time,
           NEW g, g = InsertH(h, node, k), NEW M, HasAlso(N, node, M)
    PROVE  /\ g \in HeapType /\ Shaped(g, M, NULL)
           /\ g.key = [h.key EXCEPT ![node] = k]
           /\ g.count = (h.count + 1) % CountRange
<1> USE DEF HasAlso
<1>1. PICK pre : pre = [h EXCEPT !.key[node] = k, !.count = (@ + 1) % CountRange]
  OBVIOUS
<1>2. (h.count + 1) % CountRange \in 0..(CountRange - 1)
  BY HeapFields, Wraps
<1>3. /\ pre \in HeapType /\ pre.key = [h.key EXCEPT ![node] = k]
      /\ pre.count = (h.count + 1) % CountRange
      /\ pre.next = h.next /\ pre.prev = h.prev /\ pre.child = h.child
      /\ pre.parent = h.parent /\ pre.root = h.root /\ pre.degree = h.degree
  BY <1>1, <1>2 DEF HeapType
<1>4. g = InsertNode(pre, node)
  BY <1>1 DEF InsertH
<1>5. NodeInserted(pre, node, g)
  BY <1>3, <1>4, InsertNodeIs
<1>6. /\ Trees(h, N) /\ FreshBeside(h, N) /\ Counted(h, N, NULL) /\ Ordered(h, N, NULL)
      /\ RootsLeast(h, N) /\ NULL \notin N /\ node # NULL
  BY Pointers DEF Shaped
<1>7. /\ h.next[node] = node /\ h.prev[node] = node
      /\ h.child[node] = NULL /\ h.parent[node] = NULL /\ h.degree[node] = 0
  BY <1>6 DEF FreshBeside
<1>8. PICK R \in SUBSET Node : R = Family(h, N, NULL)
  BY DEF Family
<1>9. R \subseteq N /\ node \notin R
  BY <1>8 DEF Family
<1>10. \A x \in Node : pre.key[x] = IF x = node THEN k ELSE h.key[x]
  BY <1>3, HeapFields
<1>11. /\ ListWith(g, g.root, R, node) /\ g.root \in R \cup {node}
       /\ \A L : R \subseteq L /\ node \in L => LinksKept(pre, L, g)
       /\ (\A x \in R : pre.key[pre.root] <= pre.key[x]) =>
              \A x \in R \cup {node} : g.key[g.root] <= g.key[x]
  <2>1. IsList(pre, pre.root, R)
    <3>1. IsList(h, h.root, R)
      BY <1>6, <1>8 DEF Trees
    <3>2. IsList(pre, h.root, R)
      BY <1>3, <3>1, ListStays
    <3> QED
      BY <1>3, <3>2
  <2>2. Alone(pre.next, pre.prev, node)
    BY <1>3, <1>7 DEF Alone
  <2>3. pre \in HeapType
    BY <1>3
  <2> QED
    BY <1>5, <1>9, <2>1, <2>2, <2>3, RootJoins
<1>12. /\ g \in HeapType /\ g.child = h.child /\ g.parent = h.parent /\ g.degree = h.degree
       /\ g.key = pre.key /\ g.count = pre.count
  BY <1>3, <1>5 DEF NodeInserted, RestKept
<1>13. \A p : p # NULL => Family(g, M, p) = Family(h, N, p)
  BY <1>7, <1>12 DEF Family
<1>14. Family(g, M, NULL) = R \cup {node}
  BY <1>7, <1>8, <1>12 DEF Family
<1>15. Family(h, N, node) = {}
  BY <1>6 DEF Trees, Family
<1>16. ASSUME NEW p \in M PROVE IsList(g, g.child[p], Family(g, M, p))
  <2>1. CASE p = node
    BY <1>6, <1>7, <1>12, <1>13, <1>15, <2>1 DEF IsList
  <2>2. CASE p # node
    <3>1. p \in N /\ p # NULL
      BY <1>6, <2>2
    <3>2. PICK B : B = Family(h, N, p)
      OBVIOUS
    <3>3. B \subseteq N /\ B \cap R = {} /\ node \notin B
      BY <1>8, <3>1, <3>2 DEF Family
    <3>4. LinksKept(pre, R \cup {node}, g)
      BY <1>11
    <3>5. \A x \in B : g.next[x] = h.next[x] /\ g.prev[x] = h.prev[x]
      BY <1>3, <3>3, <3>4 DEF LinksKept, KeptBeside
    <3>6. IsList(h, h.child[p], B)
      BY <1>6, <3>1, <3>2 DEF Trees
    <3>7. IsList(g, h.child[p], B)
      BY <3>5, <3>6, ListStays
    <3> QED
      BY <1>12, <1>13, <3>1, <3>2, <3>7
  <2> QED
    BY <2>1, <2>2
<1>17. Grounded(g, M)
  <2> SUFFICES ASSUME NEW T \in SUBSET M, T # {} PROVE \E x \in T : h.parent[x] \notin T
    BY <1>12 DEF Grounded
  <2>1. PICK S : S = T \cap N
    OBVIOUS
  <2>2. CASE S # {}
    <3>1. PICK x \in S : h.parent[x] \notin S
      BY <1>6, <2>1, <2>2 DEF Trees, Grounded
    <3>2. h.parent[x] \in N \cup {NULL}
      BY <1>6, <2>1 DEF Trees
    <3>3. h.parent[x] \notin T
      BY <1>6, <2>1, <3>1, <3>2
    <3> QED
      BY <2>1, <3>1, <3>3
  <2>3. CASE S = {}
    <3>1. T = {node}
      BY <2>1, <2>3
    <3> QED
      BY <1>6, <1>7, <3>1
  <2> QED
    BY <2>2, <2>3
<1>18. Trees(g, M)
  <2>1. \A x \in M : g.parent[x] \in M \cup {NULL}
    BY <1>6, <1>7, <1>12 DEF Trees
  <2>2. IsList(g, g.root, Family(g, M, NULL))
    BY <1>11, <1>14 DEF ListWith
  <2> QED
    BY <1>16, <1>17, <2>1, <2>2 DEF Trees
<1>19. FreshBeside(g, M)
  <2>1. LinksKept(pre, M, g)
    BY <1>9, <1>11
  <2> QED
    BY <1>3, <1>6, <1>12, <2>1 DEF LinksKept, KeptBeside, FreshBeside
<1>20. Counted(g, M, NULL)
  <2> SUFFICES ASSUME NEW x \in M PROVE h.degree[x] = Cardinality(Family(g, M, x))
    BY <1>12 DEF Counted
  <2>1. CASE x = node
    BY <1>6, <1>7, <1>13, <1>15, <2>1, FS_EmptySet
  <2>2. CASE x # node
    BY <1>6, <1>13, <2>2 DEF Counted
  <2> QED
    BY <2>1, <2>2
<1>21. Ordered(g, M, NULL)
  <2> SUFFICES ASSUME NEW x \in M, h.parent[x] # NULL PROVE g.key[h.parent[x]] <= g.key[x]
    BY <1>12 DEF Ordered
  <2>1. x \in N /\ h.parent[x] \in N /\ h.key[h.parent[x]] <= h.key[x]
    BY <1>6, <1>7 DEF Trees, Ordered
  <2>2. x # node /\ h.parent[x] # node /\ x \in Node /\ h.parent[x] \in Node
    BY <2>1
  <2> QED
    BY <1>10, <1>12, <2>1, <2>2
<1>22. RootsLeast(g, M)
  <2>1. ASSUME NEW x \in R PROVE pre.key[pre.root] <= pre.key[x]
    <3>1. x \in N /\ h.root \in N /\ h.key[h.root] <= h.key[x]
      BY <1>9, LeastOfAll
    <3>2. x # node /\ h.root # node /\ x \in Node /\ h.root \in Node
      BY <3>1
    <3> QED
      BY <1>3, <1>10, <3>1, <3>2
  <2> QED
    BY <1>11, <1>14, <2>1 DEF RootsLeast
<1> QED
  BY <1>3, <1>12, <1>18, <1>19, <1>20, <1>21, <1>22 DEF Shaped

\* The siblings of a node are linked in a ring.
LEMMA SiblingsAre ==
    ASSUME NEW h, NEW N \in SUBSET Node, Trees(h, N), NEW p \in N \cup {NULL},
           NEW A, A = Family(h, N, p), A # {}
    PROVE  /\ IsRing(h.next, h.prev, A)
           /\ p = NULL => h.root # NULL /\ h.root \in A
           /\ p # NULL => h.child[p] # NULL /\ h.child[p] \in A
<1>1. CASE p = NULL
  <2>1. IsList(h, h.root, A)
    BY <1>1 DEF Trees
  <2> QED
    BY <1>1, <2>1 DEF IsList
<1>2. CASE p # NULL
  <2>1. IsList(h, h.child[p], A)
    BY <1>2 DEF Trees
  <2> QED
    BY <1>2, <2>1 DEF IsList
<1> QED
  BY <1>1, <1>2

\* What a node of a heap is linked to.
LEMMA LinksOfNode ==
    ASSUME NEW h, NEW N \in SUBSET Node, Trees(h, N), NEW n \in N
    PROVE  /\ h.next[n] \in N /\ h.prev[n] \in N
           /\ h.parent[h.next[n]] = h.parent[n] /\ h.parent[h.prev[n]] = h.parent[n]
           /\ h.prev[h.next[n]] = n /\ h.next[h.prev[n]] = n
           /\ h.child[n] # NULL => h.child[n] \in N /\ h.parent[h.child[n]] = n
           /\ h.child[n] = NULL <=> Family(h, N, n) = {}
<1>1a. PICK p \in N \cup {NULL} : p = h.parent[n]
  BY DEF Trees
<1>1b. PICK A : A = Family(h, N, p)
  OBVIOUS
<1>1. p = h.parent[n] /\ A = Family(h, N, p)
  BY <1>1a, <1>1b
<1>2. n \in A /\ \A x \in A : x \in N /\ h.parent[x] = p
  BY <1>1 DEF Family
<1>3. IsRing(h.next, h.prev, A)
  BY <1>1, <1>2, SiblingsAre
<1>4. /\ h.next[n] \in A /\ h.prev[n] \in A
      /\ h.prev[h.next[n]] = n /\ h.next[h.prev[n]] = n
  BY <1>2, <1>3, RingLinks
<1>5. PICK B : B = Family(h, N, n)
  OBVIOUS
<1>6. \A x \in B : x \in N /\ h.parent[x] = n
  BY <1>5 DEF Family
<1>7. IsList(h, h.child[n], B)
  BY <1>5 DEF Trees
<1>8. (h.child[n] # NULL => h.child[n] \in B) /\ (h.child[n] = NULL <=> B = {})
  BY <1>7 DEF IsList
<1> QED
  BY <1>1, <1>2, <1>4, <1>5, <1>6, <1>8

\* Sets of nodes of a heap are finite and no larger than HeapSize.
LEMMA Subsets ==
    ASSUME NEW N \in SUBSET Node, NEW S \in SUBSET N, Cardinality(N) <= HeapSize
    PROVE  /\ IsFiniteSet(N) /\ IsFiniteSet(S)
           /\ Cardinality(N) \in Nat /\ Cardinality(S) \in Nat
           /\ Cardinality(S) <= Cardinality(N) /\ Cardinality(S) <= HeapSize
<1>1. IsFiniteSet(N)
  BY FS_Subset, HeapAssumption
<1>2. IsFiniteSet(S) /\ Cardinality(S) <= Cardinality(N)
  BY <1>1, FS_Subset
<1>3. Cardinality(N) \in Nat /\ Cardinality(S) \in Nat
  BY <1>1, <1>2, FS_CardinalityType
<1> QED
  BY <1>1, <1>2, <1>3, Wraps

\* Ring finds the whole ring.
RingLoopTurn(c, ring, i) == RingTurn(c.h, ring)

RingKeeps(c, i, ring) ==
    /\ ring.nodes \in SUBSET c.all /\ ring.last \in ring.nodes
    /\ \A x \in ring.nodes : x # ring.last => c.h.next[x] \in ring.nodes
    /\ c.h.next[ring.last] \in ring.nodes \/ Cardinality(ring.nodes) = i + 1

RingLoop == INSTANCE FoldInduction WITH turn <- RingLoopTurn, keeps <- RingKeeps

\* Each turn meets a new node of the ring, until it has met all.
LEMMA RingTurnKeeps ==
    ASSUME NEW c, c.all \in SUBSET Node, Cardinality(c.all) <= HeapSize,
           \A x \in c.all : c.h.next[x] \in c.all,
           NEW i \in Nat, NEW ring, RingKeeps(c, i, ring)
    PROVE  RingKeeps(c, i + 1, RingTurn(c.h, ring))
<1>1a. PICK h : h = c.h
  OBVIOUS
<1>1b. PICK A : A = c.all
  OBVIOUS
<1>1c. PICK S : S = ring.nodes
  OBVIOUS
<1>1d. PICK last : last = ring.last
  OBVIOUS
<1>1. /\ h = c.h /\ A = c.all /\ S = ring.nodes /\ last = ring.last
  BY <1>1a, <1>1b, <1>1c, <1>1d
<1>2. /\ S \in SUBSET A /\ last \in S /\ A \in SUBSET Node
      /\ \A x \in S : x # last => h.next[x] \in S
      /\ h.next[last] \in S \/ Cardinality(S) = i + 1
      /\ h.next[last] \in A
  BY <1>1 DEF RingKeeps
<1>3. CASE h.next[last] \in S
  <2>1. RingTurn(c.h, ring) = ring
    BY <1>1, <1>3 DEF RingTurn
  <2> QED
    BY <1>1, <1>2, <1>3, <2>1 DEF RingKeeps
<1>4. CASE h.next[last] \notin S
  <2>1. PICK T : T = S \cup {h.next[last]}
    OBVIOUS
  <2>2. RingTurn(c.h, ring) = [nodes |-> T, last |-> h.next[last]]
    BY <1>1, <1>4, <2>1 DEF RingTurn
  <2>3. IsFiniteSet(S)
    BY <1>1, <1>2, Subsets
  <2>4. Cardinality(T) = (i + 1) + 1
    <3>1. PICK x : x = h.next[last]
      OBVIOUS
    <3>2. Cardinality(S \cup {x}) = Cardinality(S) + 1
      BY <1>4, <2>3, <3>1, FS_AddElement
    <3>3. Cardinality(S) = i + 1
      BY <1>2, <1>4
    <3> QED
      BY <2>1, <3>1, <3>2, <3>3
  <2>5. T \in SUBSET A /\ h.next[last] \in T /\ \A x \in T : x # h.next[last] => h.next[x] \in T
    BY <1>2, <2>1
  <2> QED
    BY <1>1, <2>2, <2>4, <2>5 DEF RingKeeps
<1> QED
  BY <1>3, <1>4

\* The loop over a ring meets all of it.
LEMMA RingFinds ==
    ASSUME NEW h, NEW A \in SUBSET Node, Cardinality(A) <= HeapSize,
           IsRing(h.next, h.prev, A), NEW n \in A
    PROVE  Ring(h, n) = A
<1>1a. PICK base : base = [nodes |-> {n}, last |-> n]
  OBVIOUS
<1>1b. PICK c : c = [h |-> h, all |-> A]
  OBVIOUS
<1>1. /\ base = [nodes |-> {n}, last |-> n] /\ c = [h |-> h, all |-> A]
  BY <1>1a, <1>1b
<1>2. PICK end : end = RingLoop!Loop(c, base, Turns)
  OBVIOUS
<1>3. Ring(h, n) = end.nodes
  BY <1>1, <1>2, SMT DEF Ring, RingLoop!Loop, RingLoopTurn, FoldLeft, MapThenFoldSet, Max,
             RingLoop!MapThenFoldSet, RingLoop!Greatest
<1>4. RingKeeps(c, 0, base)
  <2>1. Cardinality({n}) = 1
    BY FS_Singleton
  <2> QED
    BY <1>1, <2>1 DEF RingKeeps
<1>5. /\ c.all \in SUBSET Node /\ Cardinality(c.all) <= HeapSize
      /\ \A x \in c.all : c.h.next[x] \in c.all
  BY <1>1, RingLinks
<1>6. ASSUME NEW i \in 1..HeapSize, NEW a, RingKeeps(c, i - 1, a)
      PROVE  RingKeeps(c, i, RingLoopTurn(c, a, Turns[i]))
  <2>1. PICK k \in Nat : k = i - 1 /\ k + 1 = i
    BY Wraps
  <2>2. RingKeeps(c, k, a)
    BY <1>6, <2>1
  <2>3. RingKeeps(c, k + 1, RingTurn(c.h, a))
    BY <1>5, <2>2, RingTurnKeeps
  <2> QED
    BY <2>1, <2>3 DEF RingLoopTurn
<1>7. RingKeeps(c, HeapSize, RingLoop!Loop(c, base, Turns))
  BY <1>4, <1>6, Wraps, TurnsAre, RingLoop!LoopKeeps
<1>8. /\ end.nodes \in SUBSET A /\ end.last \in end.nodes
      /\ \A x \in end.nodes : x # end.last => h.next[x] \in end.nodes
      /\ h.next[end.last] \in end.nodes \/ Cardinality(end.nodes) = HeapSize + 1
  BY <1>1, <1>2, <1>7 DEF RingKeeps
<1>9. h.next[end.last] \in end.nodes
  <2>1. Cardinality(end.nodes) <= HeapSize /\ Cardinality(end.nodes) \in Nat
    BY <1>8, Subsets
  <2> QED
    BY <1>8, <2>1, Wraps
<1>10. PICK S \in SUBSET A : S = end.nodes
  BY <1>8
<1>11. S # {} /\ \A x \in S : h.next[x] \in S
  BY <1>8, <1>9, <1>10
<1>12. S = A
  BY <1>11, RingCloses
<1> QED
  BY <1>3, <1>10, <1>12

\* Reachable finds every node.
SpreadLoopTurn(c, found, i) == Spread(c.h, found)

SpreadKeeps(c, i, found) ==
    /\ found \in SUBSET c.all /\ c.h.root \in found
    /\ Spread(c.h, found) = found \/ Cardinality(found) >= i + 1

SpreadLoop == INSTANCE FoldInduction WITH turn <- SpreadLoopTurn, keeps <- SpreadKeeps

\* Each turn reaches another node, until it has reached all that is linked.
LEMMA SpreadTurnKeeps ==
    ASSUME NEW c, c.all \in SUBSET Node, Cardinality(c.all) <= HeapSize,
           \A x \in c.all : c.h.next[x] \in c.all /\ c.h.child[x] \in c.all \cup {NULL},
           NEW i \in Nat, NEW found, SpreadKeeps(c, i, found)
    PROVE  SpreadKeeps(c, i + 1, Spread(c.h, found))
<1>1. PICK more : more = Spread(c.h, found)
  OBVIOUS
<1>2. found \in SUBSET c.all /\ c.h.root \in found
      /\ (more = found \/ Cardinality(found) >= i + 1)
  BY <1>1 DEF SpreadKeeps
<1>3. more \in SUBSET c.all /\ found \in SUBSET more
  BY <1>1, <1>2 DEF Spread
<1>4. CASE more = found
  BY <1>1, <1>2, <1>4 DEF SpreadKeeps
<1>5. CASE more # found
  <2>1. IsFiniteSet(more) /\ IsFiniteSet(found)
    BY <1>2, <1>3, Subsets
  <2>2. Cardinality(found) <= Cardinality(more) /\ Cardinality(found) # Cardinality(more)
    BY <1>3, <1>5, <2>1, FS_Subset
  <2>3. Cardinality(found) \in Nat /\ Cardinality(more) \in Nat
    BY <2>1, FS_CardinalityType
  <2>4. Cardinality(more) >= (i + 1) + 1
    BY <1>2, <1>5, <2>2, <2>3
  <2>5. c.h.root \in more
    BY <1>2, <1>3
  <2> QED
    BY <1>1, <1>3, <2>4, <2>5 DEF SpreadKeeps
<1> QED
  BY <1>4, <1>5

\* Every node of the heap is reached from the root: what is reached is closed under the
\* siblings and children, and a node that is not would have ancestors without end.
LEMMA AllReachable ==
    ASSUME NEW h \in HeapType, NEW N \in SUBSET Node, Trees(h, N), Cardinality(N) <= HeapSize
    PROVE  Reachable(h) = N
<1>1. NULL \notin N
  BY Pointers
<1>2. CASE h.root = NULL
  <2>1. Family(h, N, NULL) = {}
    <3>1. PICK R : R = Family(h, N, NULL)
      OBVIOUS
    <3>2. IsList(h, h.root, R)
      BY <3>1 DEF Trees
    <3> QED
      BY <1>2, <3>1, <3>2 DEF IsList
  <2>2. N = {}
    <3> SUFFICES ASSUME N # {} PROVE FALSE
      OBVIOUS
    <3>1. PICK n \in N : h.parent[n] \notin N
      BY DEF Trees, Grounded
    <3> QED
      BY <2>1, <3>1 DEF Trees, Family
  <2> QED
    BY <1>2, <2>2, Zenon DEF Reachable
<1>3. CASE h.root # NULL
  <2>1. h.root \in N
    <3>1. PICK R : R = Family(h, N, NULL)
      OBVIOUS
    <3>2. IsList(h, h.root, R)
      BY <3>1 DEF Trees
    <3> QED
      BY <1>3, <3>1, <3>2 DEF IsList, Family
  <2>2a. PICK base : base = {h.root}
    OBVIOUS
  <2>2b. PICK c : c = [h |-> h, all |-> N]
    OBVIOUS
  <2>2. /\ base = {h.root} /\ c = [h |-> h, all |-> N]
    BY <2>2a, <2>2b
  <2>3. PICK end : end = SpreadLoop!Loop(c, base, Turns)
    OBVIOUS
  <2>4. Reachable(h) = end
    BY <1>3, <2>2, <2>3, SMT DEF Reachable, SpreadLoop!Loop, SpreadLoopTurn, FoldLeft,
               MapThenFoldSet, Max, SpreadLoop!MapThenFoldSet, SpreadLoop!Greatest
  <2>5. SpreadKeeps(c, 0, base)
    <3>1. Cardinality({h.root}) = 1
      BY FS_Singleton
    <3> QED
      BY <2>1, <2>2, <3>1 DEF SpreadKeeps
  <2>6. /\ c.all \in SUBSET Node /\ Cardinality(c.all) <= HeapSize
        /\ \A x \in c.all : c.h.next[x] \in c.all /\ c.h.child[x] \in c.all \cup {NULL}
    BY <2>2, LinksOfNode
  <2>7. ASSUME NEW i \in 1..HeapSize, NEW a, SpreadKeeps(c, i - 1, a)
        PROVE  SpreadKeeps(c, i, SpreadLoopTurn(c, a, Turns[i]))
    <3>1. PICK k \in Nat : k = i - 1 /\ k + 1 = i
      BY Wraps
    <3>2. SpreadKeeps(c, k, a)
      BY <2>7, <3>1
    <3>3. SpreadKeeps(c, k + 1, Spread(c.h, a))
      BY <2>6, <3>2, SpreadTurnKeeps
    <3> QED
      BY <3>1, <3>3 DEF SpreadLoopTurn
  <2>8. SpreadKeeps(c, HeapSize, SpreadLoop!Loop(c, base, Turns))
    BY <2>5, <2>7, Wraps, TurnsAre, SpreadLoop!LoopKeeps
  <2>9. /\ end \in SUBSET N /\ h.root \in end
        /\ Spread(h, end) = end \/ Cardinality(end) >= HeapSize + 1
    BY <2>2, <2>3, <2>8 DEF SpreadKeeps
  <2>10. Spread(h, end) = end
    <3>1. Cardinality(end) <= HeapSize /\ Cardinality(end) \in Nat
      BY <2>9, Subsets
    <3> QED
      BY <2>9, <3>1, Wraps
  <2>11. \A x \in end : h.next[x] \in end /\ (h.child[x] # NULL => h.child[x] \in end)
    BY <2>10 DEF Spread
  <2>12. ASSUME NEW x \in N, x \notin end PROVE FALSE
    <3>1. PICK T \in SUBSET N : T = N \ end
      OBVIOUS
    <3>2. PICK y \in T : h.parent[y] \notin T
      BY <2>12, <3>1 DEF Trees, Grounded
    <3>3. PICK p \in N \cup {NULL}, A \in SUBSET N : p = h.parent[y] /\ A = Family(h, N, p)
      <4>1. Family(h, N, h.parent[y]) \in SUBSET N
        BY DEF Family
      <4> QED
        BY <3>2, <4>1 DEF Trees
    <3>4. y \in A /\ y \notin end
      BY <3>1, <3>2, <3>3 DEF Family
    <3>5. /\ IsRing(h.next, h.prev, A)
          /\ p = NULL => h.root \in A
          /\ p # NULL => h.child[p] # NULL /\ h.child[p] \in A
      BY <3>3, <3>4, SiblingsAre
    <3>6. p # NULL => p \in end
      BY <3>1, <3>2, <3>3
    <3>7. PICK S \in SUBSET A : S = A \cap end
      OBVIOUS
    <3>8. S # {} /\ \A z \in S : h.next[z] \in S
      BY <2>9, <2>11, <3>5, <3>6, <3>7, RingLinks
    <3>9. S = A
      BY <3>5, <3>8, RingCloses
    <3> QED
      BY <3>4, <3>7, <3>9
  <2> QED
    BY <2>4, <2>9, <2>12
<1> QED
  BY <1>2, <1>3

\* Trees are what the operations may rely on.
LEMMA TreesAreLinked ==
    ASSUME NEW h \in HeapType, NEW N \in SUBSET Node, Trees(h, N), Cardinality(N) <= HeapSize
    PROVE  Linked(h, N)
<1>1. Reachable(h) = N
  BY AllReachable
<1>2. {h.next[n] : n \in N} = N
  <2>1. \A n \in N : h.next[n] \in N /\ h.prev[n] \in N /\ h.next[h.prev[n]] = n
    BY LinksOfNode
  <2> QED
    BY <2>1
<1>3. \A n \in N : /\ h.parent[h.next[n]] = h.parent[n]
                   /\ h.child[n] # NULL => h.parent[h.child[n]] = n
  BY LinksOfNode
<1>4. \A n \in N : h.parent[n] \in N \cup {NULL}
  BY DEF Trees
<1> QED
  BY <1>1, <1>2, <1>3, <1>4 DEF Linked

-----------------------------------------------------------------------------
(* remove_minimum_h: phase 1 *)

\* The heap between phase 1 and phase 3: the minimum is a root without children, whose
\* degree nobody looks at.
Merging(h, N, min) ==
    /\ h \in HeapType
    /\ Trees(h, N) /\ FreshBeside(h, N) /\ Counted(h, N, min) /\ Ordered(h, N, NULL)
    /\ min \in N /\ h.root = min /\ h.parent[min] = NULL /\ h.child[min] = NULL

\* The count after a removal does not wrap.
LEMMA CountDownShape ==
    ASSUME NEW h \in HeapType, NEW N \in SUBSET Node, Cardinality(N) <= HeapSize,
           Shaped(h, N, NULL), N # {}, h.count = Cardinality(N),
           NEW g, g = CountDown(h)
    PROVE  /\ g \in HeapType /\ Shaped(g, N, NULL) /\ g.count = Cardinality(N) - 1
           /\ g.key = h.key /\ g.root = h.root
<1>1. IsFiniteSet(N) /\ Cardinality(N) \in Nat
  BY FS_Subset, HeapAssumption, FS_CardinalityType
<1>2. Cardinality(N) # 0
  BY <1>1, FS_EmptySet
<1>3. PICK k : k = h.count - 1
  OBVIOUS
<1>4. k \in 0..(CountRange - 1)
  <2>1. HeapSize \in Nat /\ CountRange \in Nat /\ HeapSize < CountRange
    BY Wraps, HeapAssumption
  <2> QED
    BY <1>1, <1>2, <1>3, <2>1
<1>5. k % CountRange = k
  BY <1>4, Wraps
<1>6. g = [h EXCEPT !.count = k]
  BY <1>3, <1>5, CountDownIs
<1>7. /\ g \in HeapType /\ g.count = k /\ g.key = h.key /\ g.root = h.root
      /\ g.next = h.next /\ g.prev = h.prev /\ g.child = h.child
      /\ g.parent = h.parent /\ g.degree = h.degree
  BY <1>4, <1>6 DEF HeapType
<1>8. Shaped(g, N, NULL)
  BY <1>7, SameShape
<1> QED
  BY <1>3, <1>7, <1>8

\* Phase 1: the children of the minimum become roots, and the minimum is a root without
\* children, which need not be least any more.
LEMMA FreedShape ==
    ASSUME NEW h \in HeapType, NEW N \in SUBSET Node, Cardinality(N) <= HeapSize,
           Shaped(h, N, NULL), N # {}, NEW g, g = FreeChildren(h)
    PROVE  /\ Merging(g, N, h.root) /\ RestKept(h, g)
<1>1a. PICK min : min = h.root
  OBVIOUS
<1>1b. PICK child : child = h.child[h.root]
  OBVIOUS
<1>1. /\ min = h.root /\ child = h.child[h.root]
  BY <1>1a, <1>1b
<1>2. /\ Trees(h, N) /\ FreshBeside(h, N) /\ Counted(h, N, NULL) /\ Ordered(h, N, NULL)
      /\ NULL \notin N
  BY Pointers DEF Shaped
<1>3. min \in N /\ h.parent[min] = NULL /\ min # NULL /\ min \in Node
  BY <1>1, LeastOfAll, Pointers
<1>4. ChildrenFreed(h, g)
  BY <1>1, <1>3, FreeChildrenIs
<1>5. CASE child = NULL
  <2>1. g = h
    BY <1>1, <1>4, <1>5 DEF ChildrenFreed
  <2>2. Counted(h, N, min)
    BY <1>2 DEF Counted
  <2> QED
    BY <1>1, <1>2, <1>3, <1>5, <2>1, <2>2 DEF Merging, RestKept
<1>6. CASE child # NULL
  <2>1. PICK B \in SUBSET N, R \in SUBSET N :
            B = Family(h, N, min) /\ R = Family(h, N, NULL)
    BY DEF Family
  <2>2. child \in B /\ IsRing(h.next, h.prev, B)
    <3>1. IsList(h, h.child[min], B)
      BY <1>2, <1>3, <2>1 DEF Trees
    <3> QED
      BY <1>1, <1>6, <3>1 DEF IsList
  <2>3. min \in R /\ IsRing(h.next, h.prev, R)
    <3>1. min \in R
      BY <1>3, <2>1 DEF Family
    <3>2. R # {} /\ NULL \in N \cup {NULL}
      BY <3>1
    <3> QED
      BY <1>2, <2>1, <3>1, <3>2, SiblingsAre
  <2>4. B \cap R = {}
    BY <1>3, <2>1 DEF Family
  <2>5. Ring(h, child) = B
    <3>1. Cardinality(B) <= HeapSize
      BY Subsets
    <3> QED
      BY <2>2, <3>1, RingFinds
  <2>6. /\ g \in HeapType
        /\ Spliced(h.next, h.prev, min, child, g.next, g.prev)
        /\ g.child = [h.child EXCEPT ![min] = NULL]
        /\ g.parent = [n \in Node |-> IF n \in B THEN NULL ELSE h.parent[n]]
        /\ g.degree = h.degree /\ g.root = min /\ RestKept(h, g)
    BY <1>1, <1>4, <1>6, <2>5 DEF ChildrenFreed
  <2>7. h.next \in [Node -> Node] /\ h.prev \in [Node -> Node] /\ h.child \in [Node -> Pointer]
    BY HeapFields
  <2>8. /\ RingOfBoth(g.next, g.prev, R, B)
        /\ \A M : R \subseteq M /\ B \subseteq M =>
                  KeptBeside(h.next, h.prev, M, g.next, g.prev)
    <3>1. B \in SUBSET Node /\ R \in SUBSET Node /\ R \cap B = {}
      BY <2>4
    <3> QED
      BY <2>2, <2>3, <2>6, <2>7, <3>1, RingsJoin
  <2>9. \A x \in Node : g.parent[x] = IF x \in B THEN NULL ELSE h.parent[x]
    BY <2>6
  <2>10. \A x \in Node : g.child[x] = IF x = min THEN NULL ELSE h.child[x]
    BY <2>6, <2>7
  <2>11. \A x \in Node : x \notin B /\ x \notin R =>
             g.next[x] = h.next[x] /\ g.prev[x] = h.prev[x]
    <3>1. KeptBeside(h.next, h.prev, R \cup B, g.next, g.prev)
      BY <2>8
    <3> QED
      BY <3>1 DEF KeptBeside
  <2>12. /\ Family(g, N, NULL) = R \cup B
         /\ Family(g, N, min) = {}
         /\ \A q \in N : q # min => Family(g, N, q) = Family(h, N, q)
    <3>1. \A x \in N : /\ x \in B <=> h.parent[x] = min
                       /\ x \in R <=> h.parent[x] = NULL
      BY <2>1 DEF Family
    <3>2. Family(g, N, NULL) = R \cup B
      BY <2>9, <3>1 DEF Family
    <3>3. Family(g, N, min) = {}
      BY <1>3, <2>9, <3>1 DEF Family
    <3>4. ASSUME NEW q \in N, q # min PROVE Family(g, N, q) = Family(h, N, q)
      BY <1>2, <2>9, <3>1, <3>4 DEF Family
    <3> QED
      BY <3>2, <3>3, <3>4
  <2>13. ASSUME NEW q \in N PROVE IsList(g, g.child[q], Family(g, N, q))
    <3>1. CASE q = min
      BY <1>3, <2>10, <2>12, <3>1 DEF IsList
    <3>2. CASE q # min
      <4>1. PICK A : A = Family(h, N, q)
        OBVIOUS
      <4>2. \A x \in A : x \in Node /\ x \notin B /\ x \notin R
        BY <1>2, <2>1, <3>2, <4>1 DEF Family
      <4>3. IsList(h, h.child[q], A)
        BY <1>2, <4>1 DEF Trees
      <4>4. IsList(g, h.child[q], A)
        BY <2>11, <4>2, <4>3, ListStays
      <4> QED
        BY <2>10, <2>12, <3>2, <4>1, <4>4
    <3> QED
      BY <3>1, <3>2
  <2>14. IsList(g, g.root, Family(g, N, NULL))
    BY <1>3, <2>3, <2>6, <2>8, <2>12 DEF IsList, RingOfBoth
  <2>15. Grounded(g, N)
    <3> SUFFICES ASSUME NEW T \in SUBSET N, T # {} PROVE \E x \in T : g.parent[x] \notin T
      BY DEF Grounded
    <3>1. PICK x \in T : h.parent[x] \notin T
      BY <1>2 DEF Trees, Grounded
    <3> QED
      BY <1>2, <2>9, <3>1
  <2>16. Trees(g, N)
    <3>1. \A x \in N : g.parent[x] \in N \cup {NULL}
      BY <1>2, <2>9 DEF Trees
    <3> QED
      BY <2>13, <2>14, <2>15, <3>1 DEF Trees
  <2>17. FreshBeside(g, N)
    BY <1>2, <1>3, <2>6, <2>9, <2>10, <2>11 DEF FreshBeside
  <2>18. Counted(g, N, min)
    BY <1>2, <2>6, <2>12 DEF Counted
  <2>19. Ordered(g, N, NULL)
    BY <1>2, <2>6, <2>9 DEF Ordered, RestKept
  <2>20. g.parent[min] = NULL /\ g.child[min] = NULL
    BY <1>3, <2>9, <2>10
  <2> QED
    BY <1>1, <1>3, <2>6, <2>16, <2>17, <2>18, <2>19, <2>20 DEF Merging
<1> QED
  BY <1>5, <1>6

\* A single root without children is a single node.
LEMMA LastNode ==
    ASSUME NEW h, NEW N \in SUBSET Node, NEW min, Merging(h, N, min), h.next[min] = min
    PROVE  N = {min}
<1>1. Trees(h, N) /\ min \in N /\ h.parent[min] = NULL /\ h.child[min] = NULL
  BY DEF Merging
<1>2. PICK R : R = Family(h, N, NULL)
  OBVIOUS
<1>3. min \in R
  BY <1>1, <1>2 DEF Family
<1>4. IsRing(h.next, h.prev, R)
  BY <1>1, <1>2, <1>3, SiblingsAre
<1>5. R = {min}
  BY <1>3, <1>4, RingIsOne
<1>6. Family(h, N, min) = {}
  BY <1>1, LinksOfNode
<1> SUFFICES ASSUME N \ {min} # {} PROVE FALSE
  BY <1>1
<1>7. PICK x \in N \ {min} : h.parent[x] \notin N \ {min}
  BY <1>1 DEF Trees, Grounded
<1>8. h.parent[x] = NULL \/ h.parent[x] = min
  BY <1>1, <1>7 DEF Trees
<1> QED
  BY <1>2, <1>5, <1>6, <1>7, <1>8 DEF Family

-----------------------------------------------------------------------------
(* remove_minimum_h: a link of phase 2 *)

\* Taking a root out of its ring changes the links of its neighbours only.
LEMMA NeighboursChange ==
    ASSUME NEW h \in HeapType, NEW N \in SUBSET Node, Trees(h, N), NEW n \in N,
           NEW r, RingRemoved(h, n, r), NEW x \in N, x # n
    PROVE  /\ h.next[x] # n => r.next[x] = h.next[x]
           /\ h.prev[x] # n => r.prev[x] = h.prev[x]
<1>1. h.next \in [Node -> Node] /\ h.prev \in [Node -> Node]
  BY HeapFields
<1>2. h.next[h.prev[n]] = n /\ h.prev[h.next[n]] = n
  BY LinksOfNode
<1>3. /\ r.next = [h.next EXCEPT ![h.prev[n]] = h.next[n], ![n] = n]
      /\ r.prev = [h.prev EXCEPT ![h.next[n]] = h.prev[n], ![n] = n]
  BY DEF RingRemoved, Unspliced
<1> QED
  BY <1>1, <1>2, <1>3

\* The degree does not wrap when a child is added.
LEMMA CountAfterLink ==
    ASSUME NEW h \in HeapType, NEW N \in SUBSET Node, Cardinality(N) <= HeapSize,
           NEW p \in N, NEW n \in N, n \notin Family(h, N, p),
           h.degree[p] = Cardinality(Family(h, N, p)),
           NEW B, B = Family(h, N, p) \cup {n}
    PROVE  (h.degree[p] + 1) % CountRange = h.degree[p] + 1
           /\ Cardinality(B) = h.degree[p] + 1
<1>1. PICK A \in SUBSET N : A = Family(h, N, p) /\ B \in SUBSET N
  BY DEF Family
<1>2. IsFiniteSet(A) /\ Cardinality(A) \in Nat
  BY <1>1, Subsets
<1>3. Cardinality(B) \in Nat /\ Cardinality(B) <= HeapSize
  BY <1>1, Subsets
<1>4. Cardinality(B) = Cardinality(A) + 1
  BY <1>1, <1>2, FS_AddElement
<1>5. PICK k : k = Cardinality(A) + 1
  OBVIOUS
<1>6. k \in 0..(CountRange - 1)
  <2>1. HeapSize \in Nat /\ CountRange \in Nat /\ HeapSize < CountRange
    BY Wraps, HeapAssumption
  <2> QED
    BY <1>2, <1>3, <1>4, <1>5, <2>1
<1>7. k % CountRange = k
  BY <1>6, Wraps
<1> QED
  BY <1>1, <1>4, <1>5, <1>7

\* A link keeps the trees: of two roots, other than the minimum, one becomes the child of
\* the one with the lesser key.
LEMMA LinkShape ==
    ASSUME NEW h, NEW N \in SUBSET Node, Cardinality(N) <= HeapSize,
           NEW min, Merging(h, N, min),
           NEW p \in N, NEW n \in N, p # n, p # min, n # min,
           h.parent[p] = NULL, h.parent[n] = NULL, h.key[p] <= h.key[n],
           NEW r, RingRemoved(h, n, r), NEW g, ChildAdded(r, p, n, g)
    PROVE  /\ Merging(g, N, min) /\ RestKept(h, g)
           /\ \A x \in N : g.parent[x] = NULL <=> h.parent[x] = NULL /\ x # n
           /\ g.degree[p] = h.degree[p] + 1
           /\ \A x \in Node : x # p => g.degree[x] = h.degree[x]
           /\ \A x \in N : h.parent[x] = NULL /\ x # n =>
                  /\ h.next[x] # n => g.next[x] = h.next[x]
                  /\ h.prev[x] # n => g.prev[x] = h.prev[x]
<1>1. /\ h \in HeapType /\ Trees(h, N) /\ FreshBeside(h, N) /\ Counted(h, N, min)
      /\ Ordered(h, N, NULL) /\ min \in N /\ h.root = min /\ h.parent[min] = NULL
      /\ h.child[min] = NULL /\ NULL \notin N /\ p \in Node /\ n \in Node
  BY Pointers DEF Merging
<1>2. /\ Trees(g, N)
      /\ \A x \in Node : h.parent[x] # NULL \/ x \notin N =>
               r.next[x] = h.next[x] /\ r.prev[x] = h.prev[x]
      /\ \A x \in Node : x # n /\ (h.parent[x] # p \/ x \notin N) =>
               g.next[x] = r.next[x] /\ g.prev[x] = r.prev[x]
  BY <1>1, LinkTrees
<1>3. /\ r \in HeapType /\ r.parent = h.parent /\ r.child = h.child /\ r.degree = h.degree
      /\ r.root = h.root /\ RestKept(h, r)
  BY DEF RingRemoved
<1>4. /\ g \in HeapType /\ g.root = h.root /\ g.parent = [h.parent EXCEPT ![n] = p]
      /\ RestKept(h, g) /\ g.degree = [h.degree EXCEPT ![p] = (h.degree[p] + 1) % CountRange]
      /\ g.child = [h.child EXCEPT ![p] = IF h.child[p] = NULL THEN n ELSE h.child[p]]
  BY <1>3 DEF ChildAdded, RestKept
<1>5. h.parent \in [Node -> Pointer] /\ h.child \in [Node -> Pointer]
      /\ h.degree \in [Node -> 0..(CountRange - 1)]
  BY <1>1, HeapFields
<1>6. /\ \A x \in Node : g.parent[x] = IF x = n THEN p ELSE h.parent[x]
      /\ \A x \in Node : x # p => g.child[x] = h.child[x] /\ g.degree[x] = h.degree[x]
      /\ g.degree[p] = (h.degree[p] + 1) % CountRange
  BY <1>1, <1>4, <1>5
<1>7. /\ h.degree[p] = Cardinality(Family(h, N, p)) /\ n \notin Family(h, N, p)
  BY <1>1 DEF Counted, Family
<1>8. /\ g.degree[p] = h.degree[p] + 1
      /\ g.degree[p] = Cardinality(Family(h, N, p) \cup {n})
  <2>1. PICK B : B = Family(h, N, p) \cup {n}
    OBVIOUS
  <2>2. (h.degree[p] + 1) % CountRange = h.degree[p] + 1 /\ Cardinality(B) = h.degree[p] + 1
    BY <1>1, <1>7, <2>1, CountAfterLink
  <2> QED
    BY <1>6, <2>1, <2>2
<1>9. /\ Family(g, N, p) = Family(h, N, p) \cup {n}
      /\ \A q \in N : q # p => Family(g, N, q) = Family(h, N, q)
  <2>1. p \in Pointer /\ h.parent[n] # p
    BY <1>1, Pointers
  <2>2. /\ Family(g, N, p) = Family(h, N, p) \cup {n}
        /\ \A q : q # p /\ q # h.parent[n] => Family(g, N, q) = Family(h, N, q)
    <3>1. Moved(h, N, n, p, g)
      BY <1>1, <1>4, <2>1, FamiliesMoved
    <3> QED
      BY <3>1 DEF Moved
  <2> QED
    BY <1>1, <2>2
<1>10. Counted(g, N, min)
  <2> SUFFICES ASSUME NEW x \in N, x # min PROVE g.degree[x] = Cardinality(Family(g, N, x))
    BY DEF Counted
  <2>1. CASE x = p
    BY <1>8, <1>9, <2>1
  <2>2. CASE x # p
    <3>1. Family(g, N, x) = Family(h, N, x) /\ g.degree[x] = h.degree[x]
      BY <1>6, <1>9, <2>2
    <3> QED
      BY <1>1, <3>1 DEF Counted
  <2> QED
    BY <2>1, <2>2
<1>11. Ordered(g, N, NULL)
  BY <1>1, <1>4, <1>6 DEF Ordered, RestKept
<1>12. FreshBeside(g, N)
  BY <1>1, <1>2, <1>6 DEF FreshBeside
<1>13. g.parent[min] = NULL /\ g.child[min] = NULL
  BY <1>1, <1>6
<1>14. Merging(g, N, min)
  BY <1>1, <1>2, <1>4, <1>10, <1>11, <1>12, <1>13 DEF Merging
<1>15. ASSUME NEW x \in N, h.parent[x] = NULL, x # n
       PROVE  /\ h.next[x] # n => g.next[x] = h.next[x]
              /\ h.prev[x] # n => g.prev[x] = h.prev[x]
  <2>1. /\ h.next[x] # n => r.next[x] = h.next[x]
        /\ h.prev[x] # n => r.prev[x] = h.prev[x]
    BY <1>1, <1>15, NeighboursChange
  <2>2. g.next[x] = r.next[x] /\ g.prev[x] = r.prev[x]
    BY <1>1, <1>2, <1>15
  <2> QED
    BY <2>1, <2>2
<1>16. \A x \in N : g.parent[x] = NULL <=> h.parent[x] = NULL /\ x # n
  BY <1>1, <1>6
<1> QED
  BY <1>4, <1>6, <1>8, <1>14, <1>15, <1>16

\* The roots that degree_roots holds.
SlotSet(slots) == {slots[d] : d \in DOMAIN slots} \ {NULL}

SlotsRight(h, slots) ==
    \A d \in DOMAIN slots : slots[d] # NULL => h.degree[slots[d]] = d - 1

\* The roots in rest, which the loop has not come to, lead along m_next from at to the
\* minimum.
RestLinked(h, rest, min, at) ==
    \A u \in rest : /\ h.next[u] \in rest \cup {min}
                    /\ u # at => h.prev[u] \in rest

\* Where phase 2 is: every root is the minimum, still to come, in a slot, or current.
Sorting(c, rest, at, h, slots, current) ==
    /\ Merging(h, c.nodes, c.min) /\ RestKept(c.h, h)
    /\ slots \in Seq(Pointer) /\ SlotsRight(h, slots)
    /\ RestLinked(h, rest, c.min, at)
    /\ rest \in SUBSET c.nodes /\ SlotSet(slots) \in SUBSET c.nodes
    /\ \A x \in c.nodes : h.parent[x] = NULL <=>
           x = c.min \/ x \in rest \/ x \in SlotSet(slots) \/ x = current
    /\ c.min \notin rest /\ c.min \notin SlotSet(slots) /\ c.min # current
    /\ current \notin rest /\ current \notin SlotSet(slots)
    /\ rest \cap SlotSet(slots) = {}

\* The slots after a link hold what they held but the root that was linked.
LEMMA SlotFreed ==
    ASSUME NEW slots \in Seq(Pointer), NEW h, SlotsRight(h, slots),
           NEW d \in 1..Len(slots), slots[d] # NULL,
           NEW freed, freed = SlotsFreed(slots, d)
    PROVE  \A x : x \in SlotSet(freed) <=> x \in SlotSet(slots) /\ x # slots[d]
<1>1. /\ freed \in Seq(Pointer) /\ Len(slots) <= Len(freed) /\ freed[d] = NULL
      /\ \A j \in 1..Len(slots) : j # d => freed[j] = slots[j]
      /\ \A j \in 1..Len(freed) : j > Len(slots) => freed[j] = NULL
  BY SlotsFreedAre
<1>2. Len(slots) \in Nat /\ Len(freed) \in Nat /\ DOMAIN slots = 1..Len(slots)
      /\ DOMAIN freed = 1..Len(freed)
  BY <1>1
<1>3. ASSUME NEW j \in 1..Len(slots), slots[j] = slots[d] PROVE j = d
  <2>1. h.degree[slots[j]] = j - 1 /\ h.degree[slots[d]] = d - 1
    BY <1>2, <1>3 DEF SlotsRight
  <2> QED
    BY <1>2, <1>3, <2>1
<1>4. ASSUME NEW x, x \in SlotSet(freed) PROVE x \in SlotSet(slots) /\ x # slots[d]
  <2>1. PICK j \in 1..Len(freed) : x = freed[j] /\ x # NULL
    BY <1>2, <1>4 DEF SlotSet
  <2>2. j <= Len(slots) /\ j # d
    BY <1>1, <1>2, <2>1
  <2>3. j \in 1..Len(slots)
    BY <1>2, <2>2
  <2> QED
    BY <1>1, <1>2, <1>3, <2>1, <2>2, <2>3 DEF SlotSet
<1>5. ASSUME NEW x, x \in SlotSet(slots), x # slots[d] PROVE x \in SlotSet(freed)
  <2>1. PICK j \in 1..Len(slots) : x = slots[j] /\ x # NULL /\ j # d
    BY <1>2, <1>5 DEF SlotSet
  <2>2. j \in 1..Len(freed)
    BY <1>1, <1>2
  <2> QED
    BY <1>1, <1>2, <2>1, <2>2 DEF SlotSet
<1> QED
  BY <1>4, <1>5

LinkKeeps(c, i, a) ==
    /\ a.m.overrun = FALSE /\ a.m \in MergeType
    /\ a.current \in c.nodes /\ a.degree \in Nat /\ a.degree + 1 \in 1..Len(a.m.slots)
    /\ a.m.h.degree[a.current] = a.degree
    /\ Sorting(c, c.rest, c.at, a.m.h, a.m.slots, a.current)
    /\ \/ a.m.slots[a.degree + 1] = NULL
       \/ Cardinality(SlotSet(a.m.slots)) + i <= Cardinality(c.nodes)

LinkShapes == INSTANCE FoldInduction WITH turn <- LinkLoopTurn, keeps <- LinkKeeps

\* Current is linked with the root in the slot of its degree.
LinkMade(h, slots, current, d, small, large, g, freed) ==
    /\ d \in 1..Len(slots) /\ h.degree[current] = d - 1 /\ slots[d] # NULL
    /\ \/ small = current /\ large = slots[d]
       \/ small = slots[d] /\ large = current
    /\ h.key[small] <= h.key[large]
    /\ \E r : RingRemoved(h, large, r) /\ ChildAdded(r, small, large, g)
    /\ freed = SlotsFreed(slots, d)

\* What a link does to a heap and its slots.
LEMMA LinkSorts ==
    ASSUME NEW c, c.nodes \in SUBSET Node, Cardinality(c.nodes) <= HeapSize,
           NEW h, NEW slots, NEW current \in c.nodes, NEW rest, NEW at,
           Sorting(c, rest, at, h, slots, current),
           NEW d, NEW small, NEW large, NEW g, NEW freed,
           LinkMade(h, slots, current, d, small, large, g, freed)
    PROVE  /\ Sorting(c, rest, at, g, freed, small)
           /\ g.degree[small] = d
           /\ Cardinality(SlotSet(freed)) + 1 = Cardinality(SlotSet(slots))
<1>0. /\ d \in 1..Len(slots) /\ h.degree[current] = d - 1 /\ slots[d] # NULL
      /\ \/ small = current /\ large = slots[d]
         \/ small = slots[d] /\ large = current
      /\ h.key[small] <= h.key[large]
      /\ freed = SlotsFreed(slots, d)
      /\ \E r : RingRemoved(h, large, r) /\ ChildAdded(r, small, large, g)
  BY DEF LinkMade
<1> PICK r : RingRemoved(h, large, r) /\ ChildAdded(r, small, large, g)
  BY <1>0
<1> USE <1>0
<1>1a. PICK N : N = c.nodes
  OBVIOUS
<1>1b. PICK min : min = c.min
  OBVIOUS
<1>1c. PICK S : S = SlotSet(slots)
  OBVIOUS
<1>1d. PICK T : T = SlotSet(freed)
  OBVIOUS
<1>1. /\ N = c.nodes /\ min = c.min /\ S = SlotSet(slots) /\ T = SlotSet(freed)
  BY <1>1a, <1>1b, <1>1c, <1>1d
<1>2. /\ N \in SUBSET Node /\ Cardinality(N) <= HeapSize
      /\ Merging(h, N, min) /\ RestKept(c.h, h)
      /\ slots \in Seq(Pointer) /\ SlotsRight(h, slots)
      /\ RestLinked(h, rest, min, at)
      /\ rest \in SUBSET N /\ S \in SUBSET N
      /\ min \notin rest /\ min \notin S /\ min # current
      /\ current \notin rest /\ current \notin S /\ rest \cap S = {}
      /\ current \in N
  BY <1>1 DEF Sorting
<1>3. \A x \in N : h.parent[x] = NULL <=> x = min \/ x \in rest \/ x \in S \/ x = current
  BY <1>1 DEF Sorting
<1>4. DOMAIN slots = 1..Len(slots)
  BY <1>2
<1>5. slots[d] \in S
  BY <1>1, <1>4 DEF SlotSet
<1>6. /\ small \in N /\ large \in N /\ small # large /\ small # min /\ large # min
      /\ h.parent[small] = NULL /\ h.parent[large] = NULL
      /\ small \notin rest /\ large \notin rest
  BY <1>2, <1>3, <1>5
<1>7. /\ Merging(g, N, min) /\ RestKept(h, g)
      /\ \A x \in N : g.parent[x] = NULL <=> h.parent[x] = NULL /\ x # large
      /\ g.degree[small] = h.degree[small] + 1
      /\ \A x \in Node : x # small => g.degree[x] = h.degree[x]
      /\ \A x \in N : h.parent[x] = NULL /\ x # large =>
             /\ h.next[x] # large => g.next[x] = h.next[x]
             /\ h.prev[x] # large => g.prev[x] = h.prev[x]
  <2>1. /\ N \in SUBSET Node /\ Cardinality(N) <= HeapSize /\ Merging(h, N, min)
        /\ small \in N /\ large \in N /\ small # large /\ small # min /\ large # min
        /\ h.parent[small] = NULL /\ h.parent[large] = NULL
        /\ h.key[small] <= h.key[large]
        /\ RingRemoved(h, large, r) /\ ChildAdded(r, small, large, g)
    BY <1>2, <1>6
  <2> QED
    BY ONLY <2>1, LinkShape
<1>8. /\ freed \in Seq(Pointer) /\ d + 1 \in 1..Len(freed)
      /\ Len(slots) <= Len(freed) /\ freed[d] = NULL
      /\ \A j \in 1..Len(slots) : j # d => freed[j] = slots[j]
      /\ \A j \in 1..Len(freed) : j > Len(slots) => freed[j] = NULL
  BY <1>2, SlotsFreedAre
<1>9. \A x : x \in T <=> x \in S /\ x # slots[d]
  BY <1>1, <1>2, SlotFreed
<1>10. small \notin T /\ large \notin T /\ T \in SUBSET N
  BY <1>2, <1>6, <1>9
<1>11. g.degree[small] = d
  <2>1. h.degree[slots[d]] = d - 1
    BY <1>2, <1>4 DEF SlotsRight
  <2>2. h.degree[small] = d - 1 /\ d \in Int
    BY <1>2, <2>1
  <2> QED
    BY <1>7, <2>2
<1>12. SlotsRight(g, freed)
  <2> SUFFICES ASSUME NEW j \in DOMAIN freed, freed[j] # NULL
               PROVE  g.degree[freed[j]] = j - 1
    BY DEF SlotsRight
  <2>1. j \in 1..Len(slots) /\ j # d
    BY <1>2, <1>8
  <2>2. freed[j] = slots[j] /\ slots[j] # NULL
    BY <1>8, <2>1
  <2>3. h.degree[slots[j]] = j - 1
    BY <1>2, <1>4, <2>1, <2>2 DEF SlotsRight
  <2>4. freed[j] \in T
    BY <1>1 DEF SlotSet
  <2>5. freed[j] # small /\ freed[j] \in Node
    BY <1>2, <1>10, <2>4
  <2> QED
    BY <1>7, <2>2, <2>3, <2>5
<1>13. RestLinked(g, rest, min, at)
  <2> SUFFICES ASSUME NEW u \in rest
               PROVE  /\ g.next[u] \in rest \cup {min}
                      /\ u # at => g.prev[u] \in rest
    BY DEF RestLinked
  <2>1. h.next[u] \in rest \cup {min} /\ (u # at => h.prev[u] \in rest)
    BY <1>2 DEF RestLinked
  <2>2. u \in N /\ h.parent[u] = NULL /\ u # large
    BY <1>2, <1>3, <1>6
  <2>3. h.next[u] # large /\ (u # at => h.prev[u] # large)
    BY <1>6, <2>1
  <2> QED
    BY <1>7, <2>1, <2>2, <2>3
<1>14. \A x \in N : g.parent[x] = NULL <=> x = min \/ x \in rest \/ x \in T \/ x = small
  BY <1>2, <1>3, <1>6, <1>7, <1>9
<1>15. RestKept(c.h, g)
  BY <1>2, <1>7 DEF RestKept
<1>16. rest \cap T = {} /\ min \notin T
  BY <1>2, <1>9
<1>17. Sorting(c, rest, at, g, freed, small)
  BY <1>1, <1>2, <1>6, <1>7, <1>8, <1>10, <1>12, <1>13, <1>14, <1>15, <1>16 DEF Sorting
<1>18. Cardinality(T) + 1 = Cardinality(S)
  <2>1. IsFiniteSet(S) /\ Cardinality(S) \in Nat
    BY <1>2, Subsets
  <2>2. PICK x : x = slots[d]
    OBVIOUS
  <2>3. T = S \ {x}
    BY <1>9, <2>2
  <2>4. Cardinality(S \ {x}) = Cardinality(S) - 1
    BY <1>5, <2>1, <2>2, FS_RemoveElement
  <2> QED
    BY <2>1, <2>3, <2>4
<1> QED
  BY <1>1, <1>11, <1>17, <1>18

\* A turn of the inner loop keeps the roots sorted and uses up a slot.
LEMMA LinkTurnKeeps ==
    ASSUME NEW c, c.nodes \in SUBSET Node, Cardinality(c.nodes) <= HeapSize,
           NEW i \in Nat, NEW a, LinkKeeps(c, i, a)
    PROVE  LinkKeeps(c, i + 1, LinkTurn(a))
<1>1a. PICK m : m = a.m
  OBVIOUS
<1>1b. PICK h : h = m.h
  OBVIOUS
<1>1c. PICK slots : slots = m.slots
  OBVIOUS
<1>1d. PICK current : current = a.current
  OBVIOUS
<1>1e. PICK d : d = a.degree + 1
  OBVIOUS
<1>1. /\ m = a.m /\ h = m.h /\ slots = m.slots /\ current = a.current /\ d = a.degree + 1
  BY <1>1a, <1>1b, <1>1c, <1>1d, <1>1e
<1>2. /\ m.overrun = FALSE /\ m \in MergeType /\ current \in c.nodes /\ a.degree \in Nat
      /\ d \in 1..Len(slots) /\ d \in Nat /\ h.degree[current] = d - 1
      /\ Sorting(c, c.rest, c.at, h, slots, current)
      /\ (slots[d] = NULL \/ Cardinality(SlotSet(slots)) + i <= Cardinality(c.nodes))
  BY <1>1 DEF LinkKeeps
<1>3. h \in HeapType /\ slots \in Seq(Pointer)
  BY <1>1, <1>2 DEF MergeType
<1>4. CASE slots[d] = NULL
  <2>1. LinkTurn(a) = a
    BY <1>1, <1>4 DEF LinkTurn
  <2> QED
    BY <1>1, <1>4, <2>1 DEF LinkKeeps
<1>5. CASE slots[d] # NULL
  <2>1a. PICK small : \E large : LinksPair(a, small, large)
    BY <1>1, <1>5, LinkTurnIs
  <2>1b. PICK large : LinksPair(a, small, large)
    BY <2>1a
  <2>1. /\ \/ small = current /\ large = slots[d]
           \/ small = slots[d] /\ large = current
        /\ current # slots[d] =>
               IF h.key[current] > h.key[slots[d]]
               THEN large = current ELSE small = current
        /\ LinkTurn(a) = [m |-> [m EXCEPT
                                   !.h = AddChild(RingRemove(@, large), small, large),
                                   !.slots = SlotsFreed(@, d)],
                          current |-> small, degree |-> d]
    BY <1>1, <2>1b DEF LinksPair
  <2>2. slots[d] \in SlotSet(slots) /\ SlotSet(slots) \in SUBSET c.nodes
        /\ current \notin SlotSet(slots)
    <3>1. slots[d] \in SlotSet(slots)
      BY <1>2, <1>3, <1>5 DEF SlotSet
    <3> QED
      BY <1>2, <3>1 DEF Sorting
  <2>3. small \in c.nodes /\ large \in c.nodes /\ small \in Node /\ large \in Node
        /\ current # slots[d]
    BY <1>2, <2>1, <2>2
  <2>4. h.key[small] <= h.key[large]
    <3>1. h.key[current] \in Nat /\ h.key[slots[d]] \in Nat
      BY <1>2, <1>3, <2>2, KeysAreNumbers
    <3> QED
      BY <2>1, <2>3, <3>1
  <2>5a. PICK r : r = RingRemove(h, large)
    OBVIOUS
  <2>5b. PICK g : g = AddChild(r, small, large)
    OBVIOUS
  <2>5c. PICK freed : freed = SlotsFreed(slots, d)
    OBVIOUS
  <2>5. /\ r = RingRemove(h, large) /\ g = AddChild(r, small, large)
        /\ freed = SlotsFreed(slots, d)
    BY <2>5a, <2>5b, <2>5c
  <2>6. RingRemoved(h, large, r)
    BY <1>3, <2>3, <2>5, RingRemoveIs
  <2>7. ChildAdded(r, small, large, g)
    <3>1. r \in HeapType
      BY <2>6 DEF RingRemoved
    <3> QED
      BY <2>3, <2>5, <3>1, AddChildIs
  <2>8. /\ Sorting(c, c.rest, c.at, g, freed, small)
        /\ g.degree[small] = d
        /\ Cardinality(SlotSet(freed)) + 1 = Cardinality(SlotSet(slots))
    <3>1. LinkMade(h, slots, current, d, small, large, g, freed)
      BY <1>2, <1>5, <2>1, <2>4, <2>5, <2>6, <2>7 DEF LinkMade
    <3> QED
      BY <1>2, <3>1, LinkSorts
  <2>9. PICK b : b = LinkTurn(a)
    OBVIOUS
  <2>10. /\ b.m.h = g /\ b.m.slots = freed /\ b.m.overrun = FALSE
         /\ b.current = small /\ b.degree = d /\ b.m = [m EXCEPT !.h = g, !.slots = freed]
    <3>1. b = [m |-> [m EXCEPT !.h = g, !.slots = freed], current |-> small, degree |-> d]
      BY <1>1, <2>1, <2>5, <2>9
    <3>2. m \in [h : HeapType, slots : Seq(Pointer), overrun : BOOLEAN]
      BY <1>2 DEF MergeType
    <3> QED
      BY <1>2, <3>1, <3>2
  <2>11. g \in HeapType /\ freed \in Seq(Pointer) /\ d + 1 \in 1..Len(freed)
    BY <1>2, <1>3, <2>5, <2>7, SlotsFreedAre DEF ChildAdded
  <2>12. b.m \in MergeType
    BY <1>2, <2>10, <2>11 DEF MergeType
  <2>13. Cardinality(SlotSet(freed)) + (i + 1) <= Cardinality(c.nodes)
    <3>1. SlotSet(freed) \in SUBSET c.nodes
      BY <2>8 DEF Sorting
    <3>2. Cardinality(SlotSet(freed)) \in Nat /\ Cardinality(SlotSet(slots)) \in Nat
          /\ Cardinality(c.nodes) \in Nat
      BY <2>2, <3>1, Subsets
    <3> QED
      BY <1>2, <1>5, <2>8, <3>2
  <2> QED
    BY <1>2, <2>3, <2>8, <2>9, <2>10, <2>11, <2>12, <2>13 DEF LinkKeeps
<1> QED
  BY <1>4, <1>5

\* Linking ends at a free slot.
LEMMA LinkUpSorts ==
    ASSUME NEW c, c.nodes \in SUBSET Node, Cardinality(c.nodes) <= HeapSize,
           NEW m \in MergeType, m.overrun = FALSE, NEW first \in c.nodes,
           m.h.degree[first] < Len(m.slots),
           Sorting(c, c.rest, c.at, m.h, m.slots, first)
    PROVE  /\ LinkKeeps(c, HeapSize, LinkUp(m, first))
           /\ LinkUp(m, first).m.slots[LinkUp(m, first).degree + 1] = NULL
<1>1. PICK base : base = [m |-> m, current |-> first, degree |-> m.h.degree[first]]
  OBVIOUS
<1>2. PICK end : end = LinkShapes!Loop(c, base, Turns)
  OBVIOUS
<1>3. LinkUp(m, first) = end
  BY <1>1, <1>2, SMT DEF LinkUp, LinkShapes!Loop, LinkLoopTurn, FoldLeft, MapThenFoldSet,
             Max, LinkShapes!MapThenFoldSet, LinkShapes!Greatest
<1>4. LinkKeeps(c, 0, base)
  <2>1. m.h.degree[first] \in Nat /\ Len(m.slots) \in Nat
    <3>1. m.h \in HeapType /\ m.slots \in Seq(Pointer) /\ first \in Node
      BY DEF MergeType
    <3>2. m.h.degree \in [Node -> 0..(CountRange - 1)]
      BY <3>1, HeapFields
    <3>3. CountRange \in Nat
      BY Wraps
    <3>4. m.slots \in Seq(Pointer)
      BY DEF MergeType
    <3> QED
      BY <3>1, <3>2, <3>3, <3>4
  <2>2. m.h.degree[first] + 1 \in 1..Len(m.slots)
    BY <2>1
  <2>3. SlotSet(m.slots) \in SUBSET c.nodes
    BY DEF Sorting
  <2>4. Cardinality(SlotSet(m.slots)) + 0 <= Cardinality(c.nodes)
    BY <2>3, Subsets
  <2> QED
    BY <1>1, <2>1, <2>2, <2>4 DEF LinkKeeps
<1>5. ASSUME NEW i \in 1..HeapSize, NEW a, LinkKeeps(c, i - 1, a)
      PROVE  LinkKeeps(c, i, LinkLoopTurn(c, a, Turns[i]))
  <2>1. PICK k \in Nat : k = i - 1 /\ k + 1 = i
    BY Wraps
  <2>2. LinkKeeps(c, k, a)
    BY <1>5, <2>1
  <2>3. LinkKeeps(c, k + 1, LinkTurn(a))
    BY <2>2, LinkTurnKeeps
  <2> QED
    BY <2>1, <2>3 DEF LinkLoopTurn
<1>6. LinkKeeps(c, HeapSize, LinkShapes!Loop(c, base, Turns))
  BY <1>4, <1>5, Wraps, TurnsAre, LinkShapes!LoopKeeps
<1>7. LinkKeeps(c, HeapSize, end)
  BY <1>2, <1>6
<1>8. end.m.slots[end.degree + 1] = NULL
  <2> SUFFICES ASSUME end.m.slots[end.degree + 1] # NULL PROVE FALSE
    OBVIOUS
  <2>1. PICK S : S = SlotSet(end.m.slots)
    OBVIOUS
  <2>2. /\ S \in SUBSET c.nodes /\ Cardinality(S) + HeapSize <= Cardinality(c.nodes)
        /\ end.m.slots \in Seq(Pointer) /\ end.degree + 1 \in 1..Len(end.m.slots)
    BY <1>7, <2>1 DEF LinkKeeps, Sorting
  <2>3. end.m.slots[end.degree + 1] \in S
    BY <2>1, <2>2 DEF SlotSet
  <2>4. IsFiniteSet(S) /\ Cardinality(S) \in Nat /\ Cardinality(c.nodes) \in Nat
    BY <2>2, Subsets
  <2>5. Cardinality(S) # 0
    BY <2>3, <2>4, FS_EmptySet
  <2>6. HeapSize \in Nat
    BY Wraps
  <2> QED
    BY <2>2, <2>4, <2>5, <2>6
<1> QED
  BY <1>3, <1>7, <1>8

-----------------------------------------------------------------------------
(* remove_minimum_h: phase 2 *)

\* The roots others are still to come, nxt first.
ComesNext(h, others, min, nxt) ==
    /\ RestLinked(h, others, min, nxt)
    /\ nxt \in others \/ nxt = min
    /\ nxt = min => others = {}

\* The root the loop is at is the first of those it has not come to: after it comes the
\* first of the others.
LEMMA NextInRing ==
    ASSUME NEW h, NEW R, IsRing(h.next, h.prev, R), NEW min \in R,
           NEW rest \in SUBSET R, min \notin rest, NEW at \in rest,
           RestLinked(h, rest, min, at), NEW others, others = rest \ {at},
           NEW nxt, nxt = h.next[at]
    PROVE  ComesNext(h, others, min, nxt)
<1>1. \A x \in R : h.next[x] \in R /\ h.prev[x] \in R
                   /\ h.prev[h.next[x]] = x /\ h.next[h.prev[x]] = x
  BY RingLinks
<1>2. \A u \in rest : h.next[u] \in rest \cup {min} /\ (u # at => h.prev[u] \in rest)
  BY DEF RestLinked
<1>3. h.prev[at] \notin rest
  <2> SUFFICES ASSUME h.prev[at] \in rest PROVE FALSE
    OBVIOUS
  <2>1. PICK W \in SUBSET R : W = R \ rest
    OBVIOUS
  <2>2. \A u \in rest : h.prev[u] \in rest
    BY <1>2
  <2>3. W # {} /\ \A x \in W : h.next[x] \in W
    BY <1>1, <2>1, <2>2
  <2>4. W = R
    BY <2>3, RingCloses
  <2> QED
    BY <2>1, <2>4
<1>4. \A u \in rest : h.next[u] # at
  BY <1>1, <1>3
<1>5. nxt \in others \cup {min}
  BY <1>2, <1>4
<1>6. RestLinked(h, others, min, nxt)
  <2> SUFFICES ASSUME NEW u \in others
               PROVE  h.next[u] \in others \cup {min} /\ (u # nxt => h.prev[u] \in others)
    BY DEF RestLinked
  <2>1. u \in rest /\ u # at
    OBVIOUS
  <2>2. h.next[u] \in others \cup {min}
    BY <1>2, <1>4, <2>1
  <2>3. h.prev[u] = at => u = nxt
    BY <1>1, <2>1
  <2> QED
    BY <1>2, <2>1, <2>2, <2>3
<1>7. ASSUME nxt = min, others # {} PROVE FALSE
  <2>1. PICK W \in SUBSET R : W = R \ others
    OBVIOUS
  <2>2. \A u \in others : h.prev[u] \in others
    BY <1>5, <1>6, <1>7 DEF RestLinked
  <2>3. W # {} /\ \A x \in W : h.next[x] \in W
    BY <1>1, <2>1, <2>2
  <2>4. W = R
    BY <2>3, RingCloses
  <2> QED
    BY <1>7, <2>1, <2>4
<1> QED
  BY <1>5, <1>6, <1>7 DEF ComesNext

\* The linked root is put into the free slot of its degree.
LEMMA SlotFilled ==
    ASSUME NEW c, NEW rest, NEW at, NEW h, NEW slots, NEW current, current # NULL,
           c.nodes \in SUBSET Node, current \in c.nodes,
           Sorting(c, rest, at, h, slots, current),
           NEW d \in 1..Len(slots), slots[d] = NULL, h.degree[current] = d - 1,
           NEW filled, filled = [slots EXCEPT ![d] = current]
    PROVE  Sorting(c, rest, at, h, filled, NULL)
<1>1a. PICK N : N = c.nodes
  OBVIOUS
<1>1b. PICK min : min = c.min
  OBVIOUS
<1>1c. PICK S : S = SlotSet(slots)
  OBVIOUS
<1>1d. PICK T : T = SlotSet(filled)
  OBVIOUS
<1>1. /\ N = c.nodes /\ min = c.min /\ S = SlotSet(slots) /\ T = SlotSet(filled)
  BY <1>1a, <1>1b, <1>1c, <1>1d
<1>2. /\ N \in SUBSET Node /\ Merging(h, N, min) /\ RestKept(c.h, h)
      /\ slots \in Seq(Pointer) /\ SlotsRight(h, slots)
      /\ RestLinked(h, rest, min, at)
      /\ rest \in SUBSET N /\ S \in SUBSET N
      /\ min \notin rest /\ min \notin S /\ min # current
      /\ current \notin rest /\ current \notin S /\ rest \cap S = {}
      /\ current \in N
      /\ \A x \in N : h.parent[x] = NULL <=> x = min \/ x \in rest \/ x \in S \/ x = current
  BY <1>1 DEF Sorting
<1>3. current \in Pointer /\ NULL \notin N /\ min \in N
  BY <1>2, Pointers DEF Merging
<1>4. /\ filled \in Seq(Pointer) /\ Len(filled) = Len(slots)
      /\ DOMAIN filled = 1..Len(slots) /\ DOMAIN slots = 1..Len(slots)
      /\ \A j \in 1..Len(slots) : filled[j] = IF j = d THEN current ELSE slots[j]
  BY <1>2, <1>3
<1>5. \A x : x \in T <=> x \in S \/ x = current
  <2>1. ASSUME NEW x, x \in T PROVE x \in S \/ x = current
    BY <1>1, <1>4, <2>1 DEF SlotSet
  <2>2. ASSUME NEW x, x \in S PROVE x \in T
    <3>1. PICK j \in 1..Len(slots) : slots[j] = x /\ x # NULL
      BY <1>1, <1>4, <2>2 DEF SlotSet
    <3> QED
      BY <1>1, <1>4, <3>1 DEF SlotSet
  <2>3. current \in T
    BY <1>1, <1>4 DEF SlotSet
  <2> QED
    BY <2>1, <2>2, <2>3
<1>6. SlotsRight(h, filled)
  BY <1>2, <1>4 DEF SlotsRight
<1>7. T \in SUBSET N /\ NULL \notin T /\ rest \cap T = {} /\ min \notin T
  BY <1>2, <1>3, <1>5
<1>8. \A x \in N : h.parent[x] = NULL <=> x = min \/ x \in rest \/ x \in T \/ x = NULL
  BY <1>2, <1>3, <1>5
<1> QED
  BY <1>1, <1>2, <1>3, <1>4, <1>6, <1>7, <1>8 DEF Sorting

\* A turn of the outer loop puts one more root in a slot, or finds no slot for it.
LEMMA MergeRootSorts ==
    ASSUME NEW c, c.nodes \in SUBSET Node, Cardinality(c.nodes) <= HeapSize,
           NEW m \in MergeType, m.overrun = FALSE, NEW root \in c.nodes,
           Sorting(c, c.rest, c.at, m.h, m.slots, root), NEW n, n = MergeRoot(m, root)
    PROVE  \/ n.overrun = TRUE
           \/ /\ n.overrun = FALSE /\ n \in MergeType
              /\ Sorting(c, c.rest, c.at, n.h, n.slots, NULL)
<1>1. CASE m.h.degree[root] >= Len(m.slots)
  <2>1. n = [m EXCEPT !.overrun = TRUE]
    BY <1>1 DEF MergeRoot
  <2> QED
    BY <2>1 DEF MergeType
<1>2. CASE ~(m.h.degree[root] >= Len(m.slots))
  <2>1. m.h.degree[root] < Len(m.slots)
    <3>1. m.h \in HeapType /\ m.slots \in Seq(Pointer) /\ root \in Node
      BY DEF MergeType
    <3>2. m.h.degree \in [Node -> 0..(CountRange - 1)] /\ CountRange \in Nat
      BY <3>1, HeapFields, Wraps
    <3>3. m.h.degree[root] \in Nat /\ Len(m.slots) \in Nat
      BY <3>1, <3>2
    <3> QED
      BY <1>2, <3>3
  <2>2. PICK a : a = LinkUp(m, root)
    OBVIOUS
  <2>3. LinkKeeps(c, HeapSize, a) /\ a.m.slots[a.degree + 1] = NULL
    BY <2>1, <2>2, LinkUpSorts
  <2>4a. PICK k : k = a.m
    OBVIOUS
  <2>4b. PICK d : d = a.degree + 1
    OBVIOUS
  <2>4c. PICK filled : filled = [k.slots EXCEPT ![d] = a.current]
    OBVIOUS
  <2>4. /\ k = a.m /\ d = a.degree + 1 /\ filled = [k.slots EXCEPT ![d] = a.current]
    BY <2>4a, <2>4b, <2>4c
  <2>5. /\ k.overrun = FALSE /\ k \in MergeType /\ a.current \in c.nodes
        /\ d \in 1..Len(k.slots) /\ k.h.degree[a.current] = d - 1 /\ k.slots[d] = NULL
        /\ Sorting(c, c.rest, c.at, k.h, k.slots, a.current)
    BY <2>3, <2>4 DEF LinkKeeps
  <2>6. n = [k EXCEPT !.slots = filled]
    <3>1. n = [a.m EXCEPT !.slots[a.degree + 1] = a.current]
      BY <1>2, <2>2 DEF MergeRoot
    <3> QED
      BY <2>4, <2>5, <3>1 DEF MergeType
  <2>7. n.h = k.h /\ n.slots = filled /\ n.overrun = FALSE
    <3>1. k \in [h : HeapType, slots : Seq(Pointer), overrun : BOOLEAN]
      BY <2>5 DEF MergeType
    <3> QED
      BY <2>5, <2>6, <3>1
  <2>8. Sorting(c, c.rest, c.at, k.h, filled, NULL)
    <3>1. a.current # NULL
      BY <2>5, Pointers
    <3>2a. PICK rest : rest = c.rest
      OBVIOUS
    <3>2b. PICK at : at = c.at
      OBVIOUS
    <3>2c. PICK h : h = k.h
      OBVIOUS
    <3>2d. PICK slots : slots = k.slots
      OBVIOUS
    <3>2e. PICK current : current = a.current
      OBVIOUS
    <3>2. /\ rest = c.rest /\ at = c.at /\ h = k.h /\ slots = k.slots
          /\ current = a.current
      BY <3>2a, <3>2b, <3>2c, <3>2d, <3>2e
    <3>3. Sorting(c, rest, at, h, filled, NULL)
      BY <2>4, <2>5, <3>1, <3>2, SlotFilled
    <3> QED
      BY <3>2, <3>3
  <2>9. n \in MergeType
    <3>1. filled \in Seq(Pointer)
      BY <2>8 DEF Sorting
    <3> QED
      BY <2>5, <2>6, <3>1 DEF MergeType
  <2> QED
    BY <2>7, <2>8, <2>9
<1> QED
  BY <1>1, <1>2

MergeKeeps(c, i, a) ==
    \/ a.m.overrun = TRUE
    \/ /\ a.m.overrun = FALSE /\ a.m \in MergeType
       /\ \E rest \in SUBSET c.nodes :
              /\ Sorting(c, rest, a.at, a.m.h, a.m.slots, NULL)
              /\ a.at = c.min => rest = {}
              /\ a.at # c.min => a.at \in rest /\ Cardinality(rest) + i <= Cardinality(c.nodes)
              /\ a.seen \cap rest = {}

MergeShapes == INSTANCE FoldInduction WITH turn <- MergeLoopTurn, keeps <- MergeKeeps

\* A turn of the outer loop, with the step to the next root.
LEMMA MergeTurnKeeps ==
    ASSUME NEW c, c.nodes \in SUBSET Node, Cardinality(c.nodes) <= HeapSize,
           NEW i \in Nat, NEW a, MergeKeeps(c, i, a)
    PROVE  MergeKeeps(c, i + 1, MergeTurn(c.min, a))
<1>1. CASE a.m.overrun = TRUE
  <2>1. MergeTurn(c.min, a) = a
    BY <1>1 DEF MergeTurn
  <2> QED
    BY <1>1, <2>1 DEF MergeKeeps
<1>2. CASE a.m.overrun # TRUE
  <2>1. PICK rest \in SUBSET c.nodes :
            /\ Sorting(c, rest, a.at, a.m.h, a.m.slots, NULL)
            /\ a.at = c.min => rest = {}
            /\ a.at # c.min => a.at \in rest /\ Cardinality(rest) + i <= Cardinality(c.nodes)
            /\ a.seen \cap rest = {}
    BY <1>2 DEF MergeKeeps
  <2>2. a.m.overrun = FALSE /\ a.m \in MergeType
    BY <1>2 DEF MergeKeeps
  <2>3. CASE a.at = c.min
    <3>1. MergeTurn(c.min, a) = a
      BY <2>3 DEF MergeTurn
    <3> QED
      BY <2>1, <2>2, <2>3, <3>1 DEF MergeKeeps
  <2>4. CASE a.at # c.min
    <3>1a. PICK m : m = a.m
      OBVIOUS
    <3>1b. PICK h : h = m.h
      OBVIOUS
    <3>1c. PICK at : at = a.at
      OBVIOUS
    <3>1d. PICK nxt : nxt = h.next[at]
      OBVIOUS
    <3>1e. PICK others : others = rest \ {at}
      OBVIOUS
    <3>1f. PICK n : n = MergeRoot(m, at)
      OBVIOUS
    <3>1. /\ m = a.m /\ h = m.h /\ at = a.at /\ nxt = h.next[at] /\ others = rest \ {at}
          /\ n = MergeRoot(m, at)
      BY <3>1a, <3>1b, <3>1c, <3>1d, <3>1e, <3>1f
    <3>2. PICK b : b = MergeTurn(c.min, a)
      OBVIOUS
    <3>3. b.m = n /\ b.at = nxt /\ b.seen = a.seen \cup {at}
      BY <2>1, <2>2, <2>4, <3>1, <3>2 DEF MergeTurn
    <3>4a. PICK N : N = c.nodes
      OBVIOUS
    <3>4b. PICK min : min = c.min
      OBVIOUS
    <3>4c. PICK S : S = SlotSet(m.slots)
      OBVIOUS
    <3>4d. PICK R : R = Family(h, N, NULL)
      OBVIOUS
    <3>4. /\ N = c.nodes /\ min = c.min /\ S = SlotSet(m.slots) /\ R = Family(h, N, NULL)
      BY <3>4a, <3>4b, <3>4c, <3>4d
    <3>5. /\ N \in SUBSET Node /\ Merging(h, N, min) /\ RestKept(c.h, h)
          /\ m.slots \in Seq(Pointer) /\ SlotsRight(h, m.slots)
          /\ RestLinked(h, rest, min, at)
          /\ rest \in SUBSET N /\ S \in SUBSET N
          /\ min \notin rest /\ min \notin S /\ rest \cap S = {}
          /\ at \in rest /\ at # min
          /\ \A x \in N : h.parent[x] = NULL <=> x = min \/ x \in rest \/ x \in S \/ x = NULL
      BY <2>1, <2>4, <3>1, <3>4 DEF Sorting
    <3>6. NULL \notin N /\ min \in N /\ Trees(h, N) /\ h.parent[min] = NULL
      BY <3>5, Pointers DEF Merging
    <3>7. min \in R /\ rest \in SUBSET R /\ IsRing(h.next, h.prev, R)
      <4>1. min \in R /\ rest \in SUBSET R
        BY <3>4, <3>5, <3>6 DEF Family
      <4>2. R # {} /\ NULL \in N \cup {NULL}
        BY <4>1
      <4> QED
        BY <3>4, <3>5, <3>6, <4>1, <4>2, SiblingsAre
    <3>8. /\ RestLinked(h, others, min, nxt)
          /\ nxt \in others \/ nxt = min
          /\ nxt = min => others = {}
      <4>1. /\ IsRing(h.next, h.prev, R) /\ min \in R /\ rest \in SUBSET R /\ min \notin rest
            /\ at \in rest /\ RestLinked(h, rest, min, at) /\ others = rest \ {at}
            /\ nxt = h.next[at]
        BY <3>1, <3>5, <3>7
      <4>2. ComesNext(h, others, min, nxt)
        BY ONLY <4>1, NextInRing
      <4> QED
        BY <4>2 DEF ComesNext
    <3>9. \A x \in N : h.parent[x] = NULL <=> x = min \/ x \in others \/ x \in S \/ x = at
      BY <3>1, <3>5, <3>6
    <3>10. PICK e : e = [nodes |-> N, min |-> min, h |-> c.h, rest |-> others, at |-> nxt]
      OBVIOUS
    <3>11. e.nodes = N /\ e.min = min /\ e.h = c.h /\ e.rest = others /\ e.at = nxt
      BY <3>10
    <3>12. /\ others \in SUBSET N /\ at \notin others /\ at \notin S /\ others \cap S = {}
           /\ min \notin others /\ min # at
      BY <3>1, <3>5
    <3>13. Sorting(e, others, nxt, h, m.slots, at)
      BY <3>4, <3>5, <3>8, <3>9, <3>11, <3>12 DEF Sorting
    <3>14. \/ n.overrun = TRUE
           \/ /\ n.overrun = FALSE /\ n \in MergeType
              /\ Sorting(e, others, nxt, n.h, n.slots, NULL)
      <4>1. e.nodes \in SUBSET Node /\ Cardinality(e.nodes) <= HeapSize /\ at \in e.nodes
        BY <3>4, <3>5, <3>11
      <4>2. Sorting(e, e.rest, e.at, m.h, m.slots, at)
        BY <3>1, <3>11, <3>13
      <4>3. \/ n.overrun = TRUE
            \/ /\ n.overrun = FALSE /\ n \in MergeType
               /\ Sorting(e, e.rest, e.at, n.h, n.slots, NULL)
        BY <2>2, <3>1, <4>1, <4>2, MergeRootSorts
      <4> QED
        BY <3>11, <4>3
    <3>15. CASE n.overrun = TRUE
      BY <3>2, <3>3, <3>15 DEF MergeKeeps
    <3>16. CASE /\ n.overrun = FALSE /\ n \in MergeType
                /\ Sorting(e, others, nxt, n.h, n.slots, NULL)
      <4>1. Sorting(c, others, nxt, n.h, n.slots, NULL)
        BY <3>4, <3>11, <3>16 DEF Sorting
      <4>2. Cardinality(others) + (i + 1) <= Cardinality(N)
        <5>1. IsFiniteSet(rest) /\ Cardinality(rest) \in Nat /\ Cardinality(N) \in Nat
          BY <3>4, <3>5, Subsets
        <5>2. Cardinality(rest \ {at}) = Cardinality(rest) - 1
          BY <3>5, <5>1, FS_RemoveElement
        <5> QED
          BY <2>1, <2>4, <3>1, <3>4, <5>1, <5>2
      <4>3. b.seen \cap others = {}
        BY <2>1, <3>1, <3>3
      <4>4. nxt = c.min => others = {}
        BY <3>4, <3>8
      <4>5. nxt # c.min => nxt \in others
        BY <3>4, <3>8
      <4> QED
        BY <3>2, <3>3, <3>4, <3>12, <3>16, <4>1, <4>2, <4>3, <4>4, <4>5 DEF MergeKeeps
    <3> QED
      BY <3>14, <3>15, <3>16
  <2> QED
    BY <2>3, <2>4
<1> QED
  BY <1>1, <1>2

\* After phase 2: every root but the minimum is in a slot.
Sorted(g, N, min, h, slots) ==
    /\ Merging(h, N, min) /\ h.key = g.key /\ h.count = g.count
    /\ slots \in Seq(Pointer) /\ SlotsRight(h, slots)
    /\ SlotSet(slots) \in SUBSET N /\ min \notin SlotSet(slots)
    /\ \A x \in N : h.parent[x] = NULL <=> x = min \/ x \in SlotSet(slots)

\* Before phase 2 every root but the minimum is still to come.
AllToCome(h, N, min, m, rest, c) ==
    /\ m = MergeStart(h) /\ rest = Family(h, N, NULL) \ {min}
    /\ c = [root |-> min, min |-> min, nodes |-> N, h |-> m.h]

\* Phase 2 starts with all roots but the minimum to come, in the order of the ring.
LEMMA MergeStarts ==
    ASSUME NEW h, NEW N \in SUBSET Node, NEW min, Merging(h, N, min),
           NEW m, NEW rest, NEW c, AllToCome(h, N, min, m, rest, c)
    PROVE  /\ Sorting(c, rest, h.next[min], m.h, m.slots, NULL)
           /\ h.next[min] = min => rest = {}
           /\ h.next[min] # min => h.next[min] \in rest
           /\ m \in MergeType /\ m.overrun = FALSE
<1> USE DEF AllToCome
<1>1. h \in HeapType /\ min \in N /\ h.root = min /\ Trees(h, N) /\ NULL \notin N
  BY Pointers DEF Merging
<1>2. /\ m \in MergeType /\ m.h = [h EXCEPT !.maxDegree = 0] /\ m.h \in HeapType
      /\ DOMAIN m.slots = 1..(h.maxDegree + 1)
      /\ \A d \in DOMAIN m.slots : m.slots[d] = NULL
      /\ ~m.overrun
  BY <1>1, MergeStartTyped
<1>3. m.overrun = FALSE
  BY <1>2 DEF MergeType
<1>4. PICK g : g = m.h
  OBVIOUS
<1>5. /\ g \in HeapType /\ g.next = h.next /\ g.prev = h.prev /\ g.child = h.child
      /\ g.parent = h.parent /\ g.root = h.root /\ g.degree = h.degree /\ g.key = h.key
  BY <1>1, <1>2, <1>4 DEF HeapType
<1>6. Merging(g, N, min)
  <2>1. Trees(g, N) /\ FreshBeside(g, N) /\ Counted(g, N, min)
    BY <1>5, SameTrees DEF Merging
  <2>2. Ordered(g, N, NULL)
    BY <1>5 DEF Merging, Ordered
  <2> QED
    BY <1>1, <1>5, <2>1, <2>2 DEF Merging
<1>7. \A x \in N : h.parent[x] = NULL <=> x = min \/ x \in rest
  BY <1>1 DEF Merging, Family
<1>8. PICK R : R = Family(h, N, NULL)
  OBVIOUS
<1>9. min \in R /\ rest \in SUBSET N /\ min \notin rest /\ NULL \notin rest
      /\ \A x : x \in R <=> x \in rest \/ x = min
  BY <1>1, <1>8 DEF Family, Merging
<1>10. IsRing(h.next, h.prev, R)
  <2>1. R # {} /\ NULL \in N \cup {NULL}
    BY <1>9
  <2> QED
    BY <1>1, <1>8, <2>1, SiblingsAre
<1>11. \A x \in R : h.next[x] \in R /\ h.prev[x] \in R
                    /\ h.prev[h.next[x]] = x /\ h.next[h.prev[x]] = x
  BY <1>10, RingLinks
<1>12. RestLinked(g, rest, min, h.next[min])
  BY <1>5, <1>9, <1>11 DEF RestLinked
<1>13. SlotSet(m.slots) = {}
  BY <1>2 DEF SlotSet
<1>14. SlotsRight(g, m.slots)
  BY <1>2 DEF SlotsRight
<1>15. m.slots \in Seq(Pointer)
  BY <1>2 DEF MergeType
<1>16. c.min = min /\ c.nodes = N /\ c.h = g
  BY <1>4
<1>17. Sorting(c, rest, h.next[min], g, m.slots, NULL)
  <2>1. \A x \in N : g.parent[x] = NULL <=>
            x = min \/ x \in rest \/ x \in SlotSet(m.slots) \/ x = NULL
    BY <1>1, <1>5, <1>7, <1>13
  <2>2. RestKept(c.h, g)
    BY <1>16 DEF RestKept
  <2> QED
    BY <1>1, <1>6, <1>9, <1>12, <1>13, <1>14, <1>15, <1>16, <2>1, <2>2 DEF Sorting
<1>18. h.next[min] # min => h.next[min] \in rest
  BY <1>9, <1>11
<1>19. h.next[min] = min => rest = {}
  <2> SUFFICES ASSUME h.next[min] = min PROVE rest = {}
    OBVIOUS
  <2>1. R = {min}
    BY <1>9, <1>10, RingIsOne
  <2> QED
    BY <1>8, <2>1
<1> QED
  BY <1>2, <1>3, <1>4, <1>17, <1>18, <1>19

SortedOrOverrun(h, N, min, merge) ==
    \/ merge.m.overrun = TRUE
    \/ /\ merge.m.overrun = FALSE /\ merge.at = min /\ merge.m \in MergeType
       /\ Sorted(h, N, min, merge.m.h, merge.m.slots)

\* Phase 2 comes back to the minimum, or past the end of degree_roots.
LEMMA MergeRootsSort ==
    ASSUME NEW h, NEW N \in SUBSET Node, Cardinality(N) <= HeapSize,
           NEW min, Merging(h, N, min), NEW merge, merge = MergeRoots(h)
    PROVE  SortedOrOverrun(h, N, min, merge)
<1> USE DEF SortedOrOverrun
<1>1a. PICK m : m = MergeStart(h)
  OBVIOUS
<1>1b. PICK rest : rest = Family(h, N, NULL) \ {min}
  OBVIOUS
<1>1c. PICK c : c = [root |-> min, min |-> min, nodes |-> N, h |-> m.h]
  OBVIOUS
<1>1. /\ m = MergeStart(h) /\ rest = Family(h, N, NULL) \ {min}
      /\ c = [root |-> min, min |-> min, nodes |-> N, h |-> m.h]
  BY <1>1a, <1>1b, <1>1c
<1>2. /\ Sorting(c, rest, h.next[min], m.h, m.slots, NULL)
      /\ h.next[min] = min => rest = {}
      /\ h.next[min] # min => h.next[min] \in rest
      /\ m \in MergeType /\ m.overrun = FALSE
  <2>1. AllToCome(h, N, min, m, rest, c)
    BY <1>1 DEF AllToCome
  <2> QED
    BY <2>1, MergeStarts
<1>3. h \in HeapType /\ min \in N /\ h.root = min
  BY DEF Merging
<1>4. PICK base : base = [m |-> m, at |-> h.next[min], seen |-> {}]
  OBVIOUS
<1>5. PICK end : end = MergeShapes!Loop(c, base, Turns)
  OBVIOUS
<1>6. c.root = h.root /\ c.min = min /\ c.nodes = N /\ c.h = m.h
  BY <1>1, <1>3
<1>7. merge = end
  BY <1>1, <1>3, <1>4, <1>5, <1>6, SMT DEF MergeRoots, MergeShapes!Loop, MergeLoopTurn,
     FoldLeft, MapThenFoldSet, Max, MergeShapes!MapThenFoldSet, MergeShapes!Greatest
<1>8. MergeKeeps(c, 0, base)
  <2>1. rest \in SUBSET N
    BY <1>1 DEF Family
  <2>2. Cardinality(rest) + 0 <= Cardinality(N)
    BY <2>1, Subsets
  <2>3. /\ base.m = m /\ base.at = h.next[min] /\ base.seen = {}
    BY <1>4
  <2> QED
    BY <1>2, <1>6, <2>1, <2>2, <2>3 DEF MergeKeeps
<1>9. c.nodes \in SUBSET Node /\ Cardinality(c.nodes) <= HeapSize /\ c.root = c.min
  BY <1>3, <1>6
<1>10. ASSUME NEW i \in 1..HeapSize, NEW a, MergeKeeps(c, i - 1, a)
       PROVE  MergeKeeps(c, i, MergeLoopTurn(c, a, Turns[i]))
  <2>1. PICK k \in Nat : k = i - 1 /\ k + 1 = i
    BY Wraps
  <2>2. MergeKeeps(c, k, a)
    BY <1>10, <2>1
  <2>3. MergeKeeps(c, k + 1, MergeTurn(c.min, a))
    BY <1>9, <2>2, MergeTurnKeeps
  <2> QED
    BY <1>9, <2>1, <2>3 DEF MergeLoopTurn
<1>11. MergeKeeps(c, HeapSize, MergeShapes!Loop(c, base, Turns))
  BY <1>8, <1>10, Wraps, TurnsAre, MergeShapes!LoopKeeps
<1>12. MergeKeeps(c, HeapSize, end)
  BY <1>5, <1>11
<1>13. CASE end.m.overrun = TRUE
  BY <1>7, <1>13
<1>14. CASE end.m.overrun # TRUE
  <2>1. /\ end.m.overrun = FALSE /\ end.m \in MergeType
        /\ \E r \in SUBSET c.nodes :
              /\ Sorting(c, r, end.at, end.m.h, end.m.slots, NULL)
              /\ end.at = c.min => r = {}
              /\ end.at # c.min => end.at \in r /\ Cardinality(r) + HeapSize <= Cardinality(c.nodes)
    BY <1>12, <1>14 DEF MergeKeeps
  <2>2. PICK r \in SUBSET N :
              /\ Sorting(c, r, end.at, end.m.h, end.m.slots, NULL)
              /\ end.at = min => r = {}
              /\ end.at # min => end.at \in r /\ Cardinality(r) + HeapSize <= Cardinality(N)
    BY <1>6, <2>1
  <2>3. end.at = min
    <3> SUFFICES ASSUME end.at # min PROVE FALSE
      OBVIOUS
    <3>1. IsFiniteSet(r) /\ Cardinality(r) \in Nat /\ Cardinality(N) \in Nat
      BY Subsets
    <3>2. Cardinality(r) # 0
      BY <2>2, <3>1, FS_EmptySet
    <3>3. HeapSize \in Nat
      BY Wraps
    <3> QED
      BY <2>2, <3>1, <3>2, <3>3
  <2>4. m.h.key = h.key /\ m.h.count = h.count
    <3>1. m.h = [h EXCEPT !.maxDegree = 0]
      BY <1>1, <1>3, MergeStartTyped
    <3> QED
      BY <1>3, <3>1 DEF HeapType
  <2>5. Sorted(h, N, min, end.m.h, end.m.slots)
    <3>1a. PICK k : k = end.m.h
      OBVIOUS
    <3>1b. PICK slots : slots = end.m.slots
      OBVIOUS
    <3>1. /\ k = end.m.h /\ slots = end.m.slots
      BY <3>1a, <3>1b
    <3>2. Sorting(c, r, end.at, k, slots, NULL) /\ r = {}
      BY <2>2, <2>3, <3>1
    <3>3. /\ Merging(k, N, min) /\ RestKept(m.h, k)
          /\ slots \in Seq(Pointer) /\ SlotsRight(k, slots)
          /\ SlotSet(slots) \in SUBSET N /\ min \notin SlotSet(slots)
          /\ \A x \in N : k.parent[x] = NULL <=>
                 x = min \/ x \in r \/ x \in SlotSet(slots) \/ x = NULL
      BY <1>6, <3>2 DEF Sorting
    <3>4. NULL \notin N
      BY Pointers
    <3>5. \A x \in N : k.parent[x] = NULL <=> x = min \/ x \in SlotSet(slots)
      BY <3>2, <3>3, <3>4
    <3> QED
      BY <2>4, <3>1, <3>3, <3>5 DEF Sorted, RestKept
  <2> QED
    BY <1>7, <2>1, <2>3, <2>5
<1> QED
  BY <1>13, <1>14

-----------------------------------------------------------------------------
(* remove_minimum_h: phase 3 *)

\* The roots in the first i slots.
Placed(slots, i) == {slots[j] : j \in 1..i} \ {NULL}

RebuildKeeps(c, i, g) ==
    /\ g \in HeapType
    /\ g.child = c.h.child /\ g.parent = c.h.parent /\ g.degree = c.h.degree
    /\ RestKept(c.h, g)
    /\ IsList(g, g.root, Placed(c.slots, i))
    /\ \A x \in Placed(c.slots, i) : g.key[g.root] <= g.key[x]
    /\ LinksKept(c.h, SlotSet(c.slots), g)

RebuildShapes == INSTANCE FoldInduction WITH turn <- RebuildLoopTurn, keeps <- RebuildKeeps

\* A root is taken out of the old ring.
SetApart(g, r, s) == s = [g EXCEPT !.next[r] = r, !.prev[r] = r]

\* Phase 3 makes a root a ring of its own.
LEMMA SetApartIs ==
    ASSUME NEW g \in HeapType, NEW r \in Node, NEW s, SetApart(g, r, s)
    PROVE  /\ s \in HeapType /\ s.child = g.child /\ s.parent = g.parent
           /\ s.degree = g.degree /\ s.root = g.root /\ RestKept(g, s)
           /\ Alone(s.next, s.prev, r)
           /\ \A x \in Node : x # r => s.next[x] = g.next[x] /\ s.prev[x] = g.prev[x]
BY DEF SetApart, HeapType, RestKept, Alone

\* A turn of phase 3: the root of the slot joins those placed before.
LEMMA RebuildTurnKeeps ==
    ASSUME NEW c, c.slots \in Seq(Pointer), SlotsRight(c.h, c.slots),
           NEW i \in Nat, i + 1 <= Len(c.slots), NEW a, RebuildKeeps(c, i, a),
           NEW r, r = c.slots[i + 1]
    PROVE  RebuildKeeps(c, i + 1, RebuildTurn(a, r))
<1>1a. PICK slots : slots = c.slots
  OBVIOUS
<1>1b. PICK P : P = Placed(slots, i)
  OBVIOUS
<1>1c. PICK Q : Q = Placed(slots, i + 1)
  OBVIOUS
<1>1d. PICK S : S = SlotSet(slots)
  OBVIOUS
<1>1e. PICK j : j = i + 1
  OBVIOUS
<1>1. /\ slots = c.slots /\ P = Placed(slots, i) /\ Q = Placed(slots, i + 1)
      /\ S = SlotSet(slots) /\ j = i + 1
  BY <1>1a, <1>1b, <1>1c, <1>1d, <1>1e
<1>2. /\ slots \in Seq(Pointer) /\ Len(slots) \in Nat /\ DOMAIN slots = 1..Len(slots)
      /\ j \in 1..Len(slots) /\ r = slots[j] /\ r \in Pointer
      /\ \A k \in 1..Len(slots) : slots[k] \in Pointer
  <2>1. slots \in Seq(Pointer) /\ Len(slots) \in Nat /\ DOMAIN slots = 1..Len(slots)
        /\ \A k \in 1..Len(slots) : slots[k] \in Pointer
    BY <1>1, LenProperties, ElementOfSeq
  <2>2. j \in 1..Len(slots)
    BY <1>1, <2>1
  <2> QED
    BY <1>1, <2>1, <2>2
<1>3. \A x : x \in Q <=> x \in P \/ (x = r /\ r # NULL)
  <2>1. \A k : k \in 1..(i + 1) <=> k \in 1..i \/ k = i + 1
    OBVIOUS
  <2> QED
    BY <1>1, <1>2, <2>1 DEF Placed
<1>4. P \in SUBSET Node /\ P \in SUBSET S /\ NULL \notin S
  <2>1. \A k \in 1..i : k \in 1..Len(slots)
    BY <1>1, <1>2
  <2> QED
    BY <1>1, <1>2, <2>1, Pointers DEF Placed, SlotSet
<1>5. /\ a \in HeapType
      /\ a.child = c.h.child /\ a.parent = c.h.parent /\ a.degree = c.h.degree
      /\ RestKept(c.h, a)
      /\ IsList(a, a.root, P)
      /\ \A x \in P : a.key[a.root] <= a.key[x]
      /\ LinksKept(c.h, S, a)
  BY <1>1 DEF RebuildKeeps
<1>6. CASE r = NULL
  <2>1. RebuildTurn(a, r) = a
    BY <1>6 DEF RebuildTurn
  <2>2. P = Q
    BY <1>3, <1>6
  <2> QED
    BY <1>1, <1>5, <2>1, <2>2 DEF RebuildKeeps
<1>7. CASE r # NULL
  <2>1. r \in Node /\ r \in S
    BY <1>1, <1>2, <1>7, Pointers DEF SlotSet
  <2>2. r \notin P
    <3> SUFFICES ASSUME r \in P PROVE FALSE
      OBVIOUS
    <3>1. PICK k \in 1..i : slots[k] = r
      BY <1>1 DEF Placed
    <3>2. k \in 1..Len(slots) /\ k # j
      BY <1>1, <1>2
    <3>3. c.h.degree[slots[k]] = k - 1 /\ c.h.degree[slots[j]] = j - 1
      BY <1>1, <1>2, <1>7, <3>1, <3>2 DEF SlotsRight
    <3> QED
      BY <1>2, <3>1, <3>2, <3>3
  <2>3a. PICK s : s = [a EXCEPT !.next[r] = r, !.prev[r] = r]
    OBVIOUS
  <2>3b. PICK g : g = InsertNode(s, r)
    OBVIOUS
  <2>3. /\ s = [a EXCEPT !.next[r] = r, !.prev[r] = r] /\ g = InsertNode(s, r)
    BY <2>3a, <2>3b
  <2>4. RebuildTurn(a, r) = g
    BY <1>7, <2>3 DEF RebuildTurn
  <2>5. /\ s \in HeapType /\ s.child = a.child /\ s.parent = a.parent
        /\ s.degree = a.degree /\ s.root = a.root /\ RestKept(a, s)
        /\ Alone(s.next, s.prev, r)
        /\ \A x \in Node : x # r => s.next[x] = a.next[x] /\ s.prev[x] = a.prev[x]
    <3>1. SetApart(a, r, s)
      BY <2>3 DEF SetApart
    <3> QED
      BY <1>5, <2>1, <3>1, SetApartIs
  <2>6. NodeInserted(s, r, g)
    BY <2>1, <2>3, <2>5, InsertNodeIs
  <2>7. IsList(s, s.root, P)
    <3>1. \A x \in P : s.next[x] = a.next[x] /\ s.prev[x] = a.prev[x]
      BY <1>4, <2>2, <2>5
    <3> QED
      BY <1>5, <2>5, <3>1, ListStays
  <2>8. \A x \in P : s.key[s.root] <= s.key[x]
    BY <1>5, <2>5 DEF RestKept
  <2>9. /\ ListWith(g, g.root, P, r)
        /\ \A M : P \subseteq M /\ r \in M => LinksKept(s, M, g)
        /\ \A x \in P \cup {r} : g.key[g.root] <= g.key[x]
    BY <1>4, <2>1, <2>2, <2>5, <2>6, <2>7, <2>8, RootJoins
  <2>10. Q = P \cup {r}
    BY <1>3, <1>7
  <2>11. IsList(g, g.root, Q) /\ \A x \in Q : g.key[g.root] <= g.key[x]
    BY <2>9, <2>10 DEF ListWith
  <2>12. LinksKept(c.h, S, g)
    <3>1. LinksKept(s, S, g)
      BY <1>4, <2>1, <2>9
    <3>2. \A x \in Node \ S : s.next[x] = a.next[x] /\ s.prev[x] = a.prev[x]
      BY <2>1, <2>5
    <3> QED
      BY <1>5, <3>1, <3>2 DEF LinksKept, KeptBeside
  <2>13. /\ g \in HeapType
         /\ g.child = c.h.child /\ g.parent = c.h.parent /\ g.degree = c.h.degree
         /\ RestKept(c.h, g)
    BY <1>5, <2>5, <2>6 DEF NodeInserted, RestKept
  <2> QED
    BY <1>1, <2>4, <2>11, <2>12, <2>13 DEF RebuildKeeps
<1> QED
  BY <1>6, <1>7

\* Phase 3: the roots in the slots are one ring, and the root pointer is the least.
LEMMA RebuildShape ==
    ASSUME NEW m \in MergeType, SlotsRight(m.h, m.slots), SlotSet(m.slots) # {},
           NEW g, g = Rebuild(m)
    PROVE  /\ g \in HeapType
           /\ g.child = m.h.child /\ g.parent = m.h.parent /\ g.degree = m.h.degree
           /\ g.key = m.h.key /\ g.count = m.h.count
           /\ IsList(g, g.root, SlotSet(m.slots))
           /\ \A x \in SlotSet(m.slots) : g.key[g.root] <= g.key[x]
           /\ LinksKept(m.h, SlotSet(m.slots), g)
<1>1a. PICK c : c = m
  OBVIOUS
<1>1b. PICK base : base = [m.h EXCEPT !.root = NULL]
  OBVIOUS
<1>1c. PICK n : n = Len(m.slots)
  OBVIOUS
<1>1. /\ c = m /\ base = [m.h EXCEPT !.root = NULL] /\ n = Len(m.slots)
  BY <1>1a, <1>1b, <1>1c
<1>2. m.slots \in Seq(Pointer) /\ n \in Nat /\ DOMAIN m.slots = 1..n /\ m.h \in HeapType
  <2>1. m.slots \in Seq(Pointer) /\ m.h \in HeapType
    BY DEF MergeType
  <2> QED
    BY <1>1, <2>1, LenProperties
<1>3a. PICK end : end = RebuildShapes!Loop(c, base, m.slots)
  OBVIOUS
<1>3b. PICK used : used = {d \in DOMAIN m.slots : m.slots[d] # NULL}
  OBVIOUS
<1>3. /\ end = RebuildShapes!Loop(c, base, m.slots)
      /\ used = {d \in DOMAIN m.slots : m.slots[d] # NULL}
  BY <1>3a, <1>3b
<1>4. FoldLeft(RebuildTurn, base, m.slots) = end
  BY <1>3, SMT DEF RebuildShapes!Loop, RebuildLoopTurn, FoldLeft, MapThenFoldSet, Max,
             RebuildShapes!MapThenFoldSet, RebuildShapes!Greatest
<1>5. g = [end EXCEPT !.maxDegree = Max(used) - 1]
  BY <1>1, <1>3, <1>4 DEF Rebuild
<1>6. RebuildKeeps(c, 0, base)
  <2>1. /\ base \in HeapType /\ base.root = NULL
        /\ base.child = m.h.child /\ base.parent = m.h.parent /\ base.degree = m.h.degree
        /\ RestKept(m.h, base) /\ base.next = m.h.next /\ base.prev = m.h.prev
    BY <1>1, <1>2, Pointers DEF HeapType, RestKept
  <2>2. Placed(m.slots, 0) = {}
    BY DEF Placed
  <2> QED
    BY <1>1, <2>1, <2>2 DEF RebuildKeeps, IsList, LinksKept, KeptBeside
<1>7. ASSUME NEW i \in 1..n, NEW a, RebuildKeeps(c, i - 1, a)
      PROVE  RebuildKeeps(c, i, RebuildLoopTurn(c, a, m.slots[i]))
  <2>1. PICK k \in Nat : k = i - 1 /\ k + 1 = i
    BY <1>2
  <2>2. RebuildKeeps(c, k, a)
    BY <1>7, <2>1
  <2>3. PICK r : r = m.slots[i]
    OBVIOUS
  <2>4. k + 1 <= Len(c.slots) /\ r = c.slots[k + 1]
    BY <1>1, <1>2, <2>1, <2>3
  <2>5. RebuildKeeps(c, k + 1, RebuildTurn(a, r))
    BY <1>1, <1>2, <2>2, <2>4, RebuildTurnKeeps
  <2> QED
    BY <2>1, <2>3, <2>5 DEF RebuildLoopTurn
<1>8. RebuildKeeps(c, n, RebuildShapes!Loop(c, base, m.slots))
  BY <1>2, <1>6, <1>7, RebuildShapes!LoopKeeps
<1>9. RebuildKeeps(m, n, end)
  BY <1>1, <1>3, <1>8
<1>10. Placed(m.slots, n) = SlotSet(m.slots)
  BY <1>2 DEF Placed, SlotSet
<1>11. /\ end \in HeapType
       /\ end.child = m.h.child /\ end.parent = m.h.parent /\ end.degree = m.h.degree
       /\ RestKept(m.h, end)
       /\ IsList(end, end.root, SlotSet(m.slots))
       /\ \A x \in SlotSet(m.slots) : end.key[end.root] <= end.key[x]
       /\ LinksKept(m.h, SlotSet(m.slots), end)
  BY <1>9, <1>10 DEF RebuildKeeps
<1>12. g \in HeapType
  <2>1. \E d \in DOMAIN m.slots : m.slots[d] # NULL
    BY DEF SlotSet
  <2> QED
    BY <2>1, RebuildIsTyped
<1>13. /\ g.child = end.child /\ g.parent = end.parent /\ g.degree = end.degree
       /\ g.key = end.key /\ g.count = end.count /\ g.root = end.root
       /\ g.next = end.next /\ g.prev = end.prev
  BY <1>5, <1>11 DEF HeapType
<1>14. IsList(g, g.root, SlotSet(m.slots))
  BY <1>11, <1>13, ListStays
<1> QED
  BY <1>11, <1>12, <1>13, <1>14 DEF RestKept, LinksKept, KeptBeside

Deleted(h, n, g) ==
    /\ g \in HeapType /\ g.root = h.root /\ g.count = h.count
    /\ \A x \in Node : IF x = n
           THEN /\ g.next[x] = x /\ g.prev[x] = x /\ g.child[x] = NULL
                /\ g.parent[x] = NULL /\ g.degree[x] = 0
           ELSE /\ g.next[x] = h.next[x] /\ g.prev[x] = h.prev[x] /\ g.child[x] = h.child[x]
                /\ g.parent[x] = h.parent[x] /\ g.degree[x] = h.degree[x]
                /\ g.key[x] = h.key[x]

\* The fields after a deletion.
LEMMA DeleteIs ==
    ASSUME NEW h \in HeapType, NEW n \in Node
    PROVE  Deleted(h, n, Delete(h, n))
<1>1. Delete(h, n) \in HeapType
  BY DeleteTyped
<1>2. PICK g : g = Delete(h, n)
  OBVIOUS
<1>3. /\ g.root = h.root /\ g.count = h.count
      /\ g.next = [h.next EXCEPT ![n] = n] /\ g.prev = [h.prev EXCEPT ![n] = n]
      /\ g.child = [h.child EXCEPT ![n] = NULL] /\ g.parent = [h.parent EXCEPT ![n] = NULL]
      /\ g.degree = [h.degree EXCEPT ![n] = 0] /\ g.key = [h.key EXCEPT ![n] = 0]
  BY <1>2 DEF Delete, HeapType
<1>4. /\ h.next \in [Node -> Node] /\ h.prev \in [Node -> Node]
      /\ h.child \in [Node -> Pointer] /\ h.parent \in [Node -> Pointer]
      /\ h.degree \in [Node -> 0..(CountRange - 1)] /\ h.key \in [Node -> Time]
  BY HeapFields
<1> QED
  BY <1>1, <1>2, <1>3, <1>4 DEF Deleted

\* The heap of the rebuilt ring, without the minimum.
LEMMA DeleteLeaves ==
    ASSUME NEW N \in SUBSET Node, NEW min, NEW k, Merging(k, N, min),
           NEW S \in SUBSET N, min \notin S,
           \A x \in N : k.parent[x] = NULL <=> x = min \/ x \in S,
           NEW g \in HeapType, g.child = k.child, g.parent = k.parent, g.degree = k.degree,
           g.key = k.key, IsList(g, g.root, S), \A x \in S : g.key[g.root] <= g.key[x],
           LinksKept(k, S, g),
           NEW f, Deleted(g, min, f), NEW M, M = N \ {min}
    PROVE  /\ Shaped(f, M, NULL) /\ f \in HeapType /\ f.count = g.count
           /\ \A x \in M : f.key[x] = k.key[x]
<1>1. /\ k \in HeapType /\ Trees(k, N) /\ FreshBeside(k, N) /\ Counted(k, N, min)
      /\ Ordered(k, N, NULL) /\ min \in N /\ k.parent[min] = NULL /\ k.child[min] = NULL
      /\ NULL \notin N /\ NULL \notin Node
  BY Pointers DEF Merging
<1>2. /\ M \in SUBSET N /\ M \in SUBSET Node /\ S \in SUBSET M /\ min \notin M
      /\ \A x \in N : x \in M \/ x = min
  OBVIOUS
<1>3. /\ f \in HeapType /\ f.root = g.root /\ f.count = g.count
      /\ \A x \in Node : x # min =>
           /\ f.next[x] = g.next[x] /\ f.prev[x] = g.prev[x] /\ f.child[x] = k.child[x]
           /\ f.parent[x] = k.parent[x] /\ f.degree[x] = k.degree[x]
           /\ f.key[x] = k.key[x]
      /\ f.next[min] = min /\ f.prev[min] = min /\ f.child[min] = NULL
      /\ f.parent[min] = NULL /\ f.degree[min] = 0
  BY <1>1, <1>2 DEF Deleted
<1>4. \A x \in Node : x \notin S => g.next[x] = k.next[x] /\ g.prev[x] = k.prev[x]
  BY DEF LinksKept, KeptBeside
<1>5. \A x \in N : k.parent[x] \in M \cup {NULL}
  <2>1. Family(k, N, min) = {}
    BY <1>1, LinksOfNode
  <2> QED
    BY <1>1, <1>2, <2>1 DEF Trees, Family
<1>6. \A q \in M : Family(f, M, q) = Family(k, N, q)
  BY <1>1, <1>2, <1>3 DEF Family
<1>7. Family(f, M, NULL) = S
  BY <1>1, <1>2, <1>3 DEF Family
<1>8. ASSUME NEW q \in M PROVE IsList(f, f.child[q], Family(f, M, q))
  <2>1. PICK A : A = Family(k, N, q)
    OBVIOUS
  <2>2. IsList(k, k.child[q], A)
    BY <1>1, <1>2, <2>1 DEF Trees
  <2>3. \A x \in A : x \in Node /\ x # min /\ x \notin S
    BY <1>1, <1>2, <2>1 DEF Family
  <2>4. \A x \in A : f.next[x] = k.next[x] /\ f.prev[x] = k.prev[x]
    BY <1>3, <1>4, <2>3
  <2>5. IsList(f, k.child[q], A)
    BY <2>2, <2>4, ListStays
  <2>6. f.child[q] = k.child[q]
    BY <1>2, <1>3
  <2> QED
    BY <1>6, <2>1, <2>5, <2>6
<1>9. IsList(f, f.root, S)
  <2>1. \A x \in S : f.next[x] = g.next[x] /\ f.prev[x] = g.prev[x]
    BY <1>2, <1>3
  <2>2. IsList(f, g.root, S)
    BY <2>1, ListStays
  <2> QED
    BY <1>3, <2>2
<1>10. Grounded(f, M)
  <2> SUFFICES ASSUME NEW T \in SUBSET M, T # {} PROVE \E x \in T : f.parent[x] \notin T
    BY DEF Grounded
  <2>1. T \in SUBSET N
    BY <1>2
  <2>2. PICK x \in T : k.parent[x] \notin T
    BY <1>1, <2>1 DEF Trees, Grounded
  <2>3. f.parent[x] = k.parent[x]
    BY <1>2, <1>3
  <2> QED
    BY <2>2, <2>3
<1>11. Trees(f, M)
  <2>1. \A x \in M : f.parent[x] \in M \cup {NULL}
    BY <1>2, <1>3, <1>5
  <2> QED
    BY <1>3, <1>7, <1>8, <1>9, <1>10, <2>1 DEF Trees
<1>12. FreshBeside(f, M)
  <2> SUFFICES ASSUME NEW x \in Node, x \notin M
               PROVE  /\ f.next[x] = x /\ f.prev[x] = x /\ f.child[x] = NULL
                      /\ f.parent[x] = NULL /\ f.degree[x] = 0
    BY DEF FreshBeside
  <2>1. CASE x = min
    BY <1>3, <2>1
  <2>2. CASE x # min
    <3>1. x \notin N /\ x \notin S
      BY <1>2, <2>2
    <3>2. /\ k.next[x] = x /\ k.prev[x] = x /\ k.child[x] = NULL
          /\ k.parent[x] = NULL /\ k.degree[x] = 0
      BY <1>1, <3>1 DEF FreshBeside
    <3> QED
      BY <1>3, <1>4, <2>2, <3>1, <3>2
  <2> QED
    BY <2>1, <2>2
<1>13. Counted(f, M, NULL)
  BY <1>1, <1>2, <1>3, <1>6 DEF Counted
<1>14. Ordered(f, M, NULL)
  <2> SUFFICES ASSUME NEW x \in M, f.parent[x] # NULL PROVE f.key[f.parent[x]] <= f.key[x]
    BY DEF Ordered
  <2>1. f.parent[x] = k.parent[x] /\ k.parent[x] \in M /\ x \in N
    BY <1>2, <1>3, <1>5
  <2>2. k.key[k.parent[x]] <= k.key[x]
    BY <1>1, <1>2, <2>1 DEF Ordered
  <2>3. f.key[x] = k.key[x] /\ f.key[k.parent[x]] = k.key[k.parent[x]]
    BY <1>2, <1>3, <2>1
  <2> QED
    BY <2>1, <2>2, <2>3
<1>15. RootsLeast(f, M)
  <2> SUFFICES ASSUME NEW x \in S PROVE f.key[f.root] <= f.key[x]
    BY <1>7 DEF RootsLeast
  <2>1. g.root \in S
    BY DEF IsList
  <2>2. f.key[x] = k.key[x] /\ f.key[g.root] = k.key[g.root]
    BY <1>2, <1>3, <2>1
  <2> QED
    BY <1>3, <2>2
<1>16. \A x \in M : f.key[x] = k.key[x]
  BY <1>2, <1>3
<1> QED
  BY <1>3, <1>11, <1>12, <1>13, <1>14, <1>15, <1>16 DEF Shaped

\* The heap without any node.
LEMMA NoNodes ==
    ASSUME NEW h, NEW min, Merging(h, {min}, min), NEW g, g = [h EXCEPT !.root = NULL],
           NEW f, Deleted(g, min, f)
    PROVE  Shaped(f, {}, NULL) /\ f \in HeapType /\ f.count = h.count
<1>1. PICK N : N = {min}
  OBVIOUS
<1>2. h \in HeapType /\ FreshBeside(h, N)
  BY <1>1 DEF Merging
<1>3. /\ g.next = h.next /\ g.prev = h.prev /\ g.child = h.child /\ g.parent = h.parent
      /\ g.degree = h.degree /\ g.root = NULL /\ g.count = h.count
  BY <1>2 DEF HeapType
<1>4. f \in HeapType /\ f.root = NULL /\ f.count = h.count
  BY <1>3 DEF Deleted
<1>5. ASSUME NEW x \in Node
      PROVE  /\ f.next[x] = x /\ f.prev[x] = x /\ f.child[x] = NULL
             /\ f.parent[x] = NULL /\ f.degree[x] = 0
  <2>1. CASE x = min
    BY <2>1 DEF Deleted
  <2>2. CASE x # min
    <3>1. x \notin N
      BY <1>1, <2>2
    <3>2. /\ h.next[x] = x /\ h.prev[x] = x /\ h.child[x] = NULL
          /\ h.parent[x] = NULL /\ h.degree[x] = 0
      BY <1>2, <3>1 DEF FreshBeside
    <3> QED
      BY <1>3, <2>2, <3>2 DEF Deleted
  <2> QED
    BY <2>1, <2>2
<1>6. Trees(f, {})
  BY <1>4 DEF Trees, Grounded, Family, IsList
<1>7. FreshBeside(f, {}) /\ Counted(f, {}, NULL) /\ Ordered(f, {}, NULL) /\ RootsLeast(f, {})
  BY <1>5 DEF FreshBeside, Counted, Ordered, RootsLeast, Family
<1> QED
  BY <1>4, <1>6, <1>7 DEF Shaped

-----------------------------------------------------------------------------
(* remove_minimum_h *)

\* Taking out the minimum leaves a heap of the entries M, once it is deleted.
Extracts(h, M, r) ==
    LET left == Delete(r.h, h.root)
    IN  /\ r.status = "ok" /\ r.h.key = h.key
        /\ left \in HeapType /\ Shaped(left, M, NULL)
        /\ left.count = Cardinality(M)
        /\ \A x \in M : left.key[x] = h.key[x]

\* remove_minimum_h on trees in order takes out the minimum and leaves trees in order, or
\* uses an index past the end of degree_roots.
LEMMA RemoveMinShape ==
    ASSUME NEW h \in HeapType, NEW N \in SUBSET Node, Cardinality(N) <= HeapSize,
           Shaped(h, N, NULL), N # {}, h.count = Cardinality(N),
           NEW r, r = RemoveMinimumH(h), NEW M, M = N \ {h.root}
    PROVE  \/ Extracts(h, M, r)
           \/ r.status = "undefined" /\ r.h.key = h.key
<1>1a. PICK min : min = h.root
  OBVIOUS
<1>1b. PICK counted : counted = CountDown(h)
  OBVIOUS
<1>1c. PICK freed : freed = FreeChildren(counted)
  OBVIOUS
<1>1d. PICK merge : merge = MergeRoots(freed)
  OBVIOUS
<1>1. /\ min = h.root /\ counted = CountDown(h) /\ freed = FreeChildren(counted)
      /\ merge = MergeRoots(freed)
  BY <1>1a, <1>1b, <1>1c, <1>1d
<1>2. min \in N /\ min \in Node /\ h.root \in Node
  BY <1>1, LeastOfAll
<1>3. /\ counted \in HeapType /\ Shaped(counted, N, NULL)
      /\ counted.count = Cardinality(N) - 1 /\ counted.key = h.key /\ counted.root = min
  BY <1>1, CountDownShape
<1>4. Merging(freed, N, min) /\ RestKept(counted, freed)
  BY <1>1, <1>3, FreedShape
<1>5. freed.key = h.key /\ freed.count = Cardinality(N) - 1 /\ freed \in HeapType
  BY <1>3, <1>4 DEF RestKept, Merging
<1>6. IsFiniteSet(N) /\ Cardinality(N) \in Nat
  BY FS_Subset, HeapAssumption, FS_CardinalityType
<1>7. Cardinality(M) = Cardinality(N) - 1
  <2>1. M = N \ {min}
    BY <1>1
  <2> QED
    BY <1>2, <1>6, <2>1, FS_RemoveElement
<1>8. freed.next[min] = min => N = {min}
  BY <1>4, LastNode
<1>9. CASE freed.next[min] = min
  <2>1. N = {min} /\ M = {}
    BY <1>1, <1>8, <1>9
  <2>2. freed.count = 0
    BY <1>5, <1>7, <2>1, FS_EmptySet
  <2>3. r.status = "ok" /\ r.h = [freed EXCEPT !.root = NULL]
    BY <1>1, <1>2, <1>9, <2>2, RemoveMinimumCases
  <2>4a. PICK g : g = r.h
    OBVIOUS
  <2>4b. PICK f : f = Delete(g, min)
    OBVIOUS
  <2>4. /\ g = r.h /\ f = Delete(g, min)
    BY <2>4a, <2>4b
  <2>5. g \in HeapType
    BY <1>5, <2>3, <2>4, Pointers DEF HeapType
  <2>6. Deleted(g, min, f)
    BY <1>2, <2>4, <2>5, DeleteIs
  <2>7. Shaped(f, {}, NULL) /\ f \in HeapType /\ f.count = freed.count
    <3>1. Merging(freed, {min}, min) /\ g = [freed EXCEPT !.root = NULL]
      BY <1>4, <2>1, <2>3, <2>4
    <3> QED
      BY <2>6, <3>1, NoNodes
  <2>8. f.count = Cardinality(M)
    BY <2>1, <2>2, <2>7, FS_EmptySet
  <2>9. r.h.key = h.key
    BY <1>5, <2>3 DEF HeapType
  <2> QED
    BY <1>1, <2>1, <2>3, <2>4, <2>7, <2>8, <2>9 DEF Extracts
<1>10. CASE freed.next[min] # min
  <2>1. \/ merge.m.overrun = TRUE
        \/ /\ merge.m.overrun = FALSE /\ merge.at = min /\ merge.m \in MergeType
           /\ Sorted(freed, N, min, merge.m.h, merge.m.slots)
    <3>1. /\ N \in SUBSET Node /\ Cardinality(N) <= HeapSize /\ Merging(freed, N, min)
          /\ merge = MergeRoots(freed)
      BY <1>1, <1>4
    <3>2. SortedOrOverrun(freed, N, min, merge)
      BY <3>1, MergeRootsSort
    <3> QED
      BY <3>2 DEF SortedOrOverrun
  <2>2. CASE merge.m.overrun = TRUE
    <3>1. r.status = "undefined" /\ r.h = freed
      BY <1>1, <1>2, <1>10, <2>2, RemoveMinimumCases
    <3> QED
      BY <1>5, <3>1
  <2>3. CASE /\ merge.m.overrun = FALSE /\ merge.at = min /\ merge.m \in MergeType
             /\ Sorted(freed, N, min, merge.m.h, merge.m.slots)
    <3>1. r.status = "ok" /\ r.h = Rebuild(merge.m)
      BY <1>1, <1>2, <1>10, <2>3, RemoveMinimumCases
    <3>2a. PICK m : m = merge.m
      OBVIOUS
    <3>2b. PICK k : k = m.h
      OBVIOUS
    <3>2c. PICK S : S = SlotSet(m.slots)
      OBVIOUS
    <3>2d. PICK g : g = Rebuild(m)
      OBVIOUS
    <3>2e. PICK f : f = Delete(g, min)
      OBVIOUS
    <3>2. /\ m = merge.m /\ k = m.h /\ S = SlotSet(m.slots) /\ g = Rebuild(m)
          /\ f = Delete(g, min)
      BY <3>2a, <3>2b, <3>2c, <3>2d, <3>2e
    <3>3. /\ Merging(k, N, min) /\ k.key = h.key /\ k.count = Cardinality(N) - 1
          /\ SlotsRight(k, m.slots) /\ S \in SUBSET N /\ min \notin S
          /\ \A x \in N : k.parent[x] = NULL <=> x = min \/ x \in S
      BY <1>5, <2>3, <3>2 DEF Sorted
    <3>4. S # {}
      <4> SUFFICES ASSUME S = {} PROVE FALSE
        OBVIOUS
      <4>1. PICK R : R = Family(k, N, NULL)
        OBVIOUS
      <4>2. R = {min}
        BY <1>2, <3>3, <4>1 DEF Family
      <4>3. N = {min}
        <5> SUFFICES ASSUME N \ {min} # {} PROVE FALSE
          BY <1>2
        <5>1. Trees(k, N) /\ k.child[min] = NULL
          BY <3>3 DEF Merging
        <5>2. Family(k, N, min) = {}
          BY <1>2, <5>1, LinksOfNode
        <5>3. PICK x \in N \ {min} : k.parent[x] \notin N \ {min}
          BY <5>1 DEF Trees, Grounded
        <5>4. k.parent[x] = NULL \/ k.parent[x] = min
          BY <5>1, <5>3 DEF Trees
        <5> QED
          BY <4>1, <4>2, <5>2, <5>3, <5>4 DEF Family
      <4>4. freed.next[min] \in N
        BY <1>2, <1>4, LinksOfNode DEF Merging
      <4> QED
        BY <1>10, <4>3, <4>4
    <3>5. /\ g \in HeapType
          /\ g.child = k.child /\ g.parent = k.parent /\ g.degree = k.degree
          /\ g.key = k.key /\ g.count = k.count
          /\ IsList(g, g.root, S)
          /\ \A x \in S : g.key[g.root] <= g.key[x]
          /\ LinksKept(k, S, g)
      BY <2>3, <3>2, <3>3, <3>4, RebuildShape
    <3>6. Deleted(g, min, f)
      BY <1>2, <3>2, <3>5, DeleteIs
    <3>7. M = N \ {min}
      BY <1>1
    <3>8. /\ Shaped(f, M, NULL) /\ f \in HeapType /\ f.count = g.count
          /\ \A x \in M : f.key[x] = k.key[x]
      BY <3>3, <3>5, <3>6, <3>7, DeleteLeaves
    <3>9. f.count = Cardinality(M)
      BY <1>7, <3>3, <3>5, <3>8
    <3>10. r.h.key = h.key
      BY <3>1, <3>2, <3>3, <3>5
    <3> QED
      BY <1>1, <3>1, <3>2, <3>3, <3>8, <3>9, <3>10 DEF Extracts
  <2> QED
    BY <2>1, <2>2, <2>3
<1> QED
  BY <1>9, <1>10
=============================================================================
