---------------------------- MODULE FibonacciHeap ----------------------------
(***************************************************************************)
(* One FibonacciHeap and its public operations, one action each; the code   *)
(* is single threaded, so an operation is one step.                        *)
(*                                                                         *)
(* alter_key to a later key leaves m_count one too low and links that need  *)
(* not be in order.  Operations go on after it as long as m_next, m_child   *)
(* and m_parent still reach every node; m_previous, m_degree and m_count    *)
(* may be wrong by then, and the operations use them as they are.          *)
(***************************************************************************)
EXTENDS FibonacciHeapOps

CONSTANT MaxRaises  \* bound on the keys raised

ASSUME RaisesAssumption == MaxRaises \in Nat

VARIABLES
    heap,       \* the heap object and its nodes
    live,       \* nodes that are allocated: inserted and not yet deleted
    status,     \* how the last operation ended
    raises      \* history: how many keys were raised

vars == <<heap, live, status, raises>>

TypeOK ==
    /\ heap \in HeapType
    /\ live \subseteq Node
    /\ status \in {"ok", "threw", "internal", "undefined", "broken"}
    /\ raises \in 0..MaxRaises

Init ==
    /\ heap = EmptyHeap
    /\ live = {}
    /\ status = "ok"
    /\ raises = 0

\* After an index past the end of degree_roots, or a ring that does not close, nothing
\* can be said of what the next operation does.
Usable == status \in {"ok", "threw", "internal"} /\ Linked(heap, live)

Throw ==
    /\ status' = "threw"
    /\ UNCHANGED <<heap, live>>

Insert(node, key) ==
    /\ node \notin live
    /\ Cardinality(live) < HeapSize
    /\ heap' = InsertH(heap, node, key)
    /\ Usable
    /\ live' = live \cup {node}
    /\ status' = "ok"
    /\ UNCHANGED raises

\* The tail of remove_minimum and of remove: the root that h had is deleted unless
\* taking it out failed.
Extracted(h, r) ==
    /\ status' = r.status
    /\ IF r.status = "ok"
       THEN heap' = Delete(r.h, h.root) /\ live' = live \ {h.root}
       ELSE heap' = r.h /\ live' = live

RemoveMinimum ==
    /\ Usable
    /\ IF heap.root = NULL THEN Throw ELSE Extracted(heap, RemoveMinimumH(heap))
    /\ UNCHANGED raises

RemoveNode(node) ==
    /\ node \in live
    /\ Usable
    /\ IF 0 >= heap.key[heap.root] THEN Throw
       ELSE Extracted(DecreaseKeyH(heap, node, 0), RemoveH(heap, node))
    /\ UNCHANGED raises

AlterKey(node, newKey) ==
    LET r == AlterKeyH(heap, node, newKey)
    IN  /\ heap' = r.h
        /\ status' = r.status
        /\ UNCHANGED live

\* alter_key with an earlier or the same key.
LowerKey(node, newKey) ==
    /\ node \in live
    /\ newKey <= heap.key[node]
    /\ AlterKey(node, newKey)
    /\ Usable
    /\ UNCHANGED raises

\* alter_key with a later key.
RaiseKey(node, newKey) ==
    /\ node \in live
    /\ newKey > heap.key[node]
    /\ raises < MaxRaises
    /\ AlterKey(node, newKey)
    /\ Usable
    /\ raises' = IF status' = "threw" THEN raises ELSE raises + 1

Next ==
    \/ \E n \in Node, k \in Time : Insert(n, k)
    \/ RemoveMinimum
    \/ \E n \in Node : RemoveNode(n)
    \/ \E n \in Node, k \in Time : LowerKey(n, k)
    \/ \E n \in Node, k \in Time : RaiseKey(n, k)

Spec == Init /\ [][Next]_vars
-----------------------------------------------------------------------------
(* Properties *)

ChildrenOf(n) == {m \in live : heap.parent[m] = n}

\* Until a key is raised: the pointers are a forest of heap-ordered trees over doubly
\* linked rings, no node is lost or shared, every m_degree counts the children, and
\* m_count the nodes: what each operation relies on and what a wrong splice in insert,
\* remove_child or the merge loop would break several operations later.
WellFormed ==
    raises = 0 /\ status # "undefined" =>
        /\ Linked(heap, live)
        /\ HeapOrdered(heap, live)
        /\ heap.count = Cardinality(live)
        /\ \A n \in live : /\ heap.prev[heap.next[n]] = n
                           /\ heap.degree[n] = Cardinality(ChildrenOf(n))
                           /\ heap.child[n] = NULL <=> ChildrenOf(n) = {}

\* remove_minimum_h sizes degree_roots by m_max_degree ("make room for a new degree",
\* FibonacciHeap.h:412): no root it then merges has a degree past the end, until a key
\* is raised.
MergeStaysInside == raises = 0 => status # "undefined"

\* Also after keys were raised, with counts, degrees and previous pointers that may be
\* wrong: as long as the links reach every node, m_root_with_min_key has the least key of
\* all, so that what minimum() and remove_minimum take is what is due first.
LeastFirst == Usable => \A n \in live : heap.key[heap.root] <= heap.key[n]

\* The check in remove_minimum_h that m_count is 0 when the last node is taken out
\* (FibonacciHeap.h:399) fails only when some key was raised: no other sequence of
\* operations makes count and links disagree.
CountFailsOnlyRaised == status = "internal" => raises > 0

Queue == INSTANCE TimeoutQueue WITH
            due <- [n \in live |-> heap.key[n]],
            intact <- raises = 0

\* What each call that returns is to the queue, as long as no key was raised before it.
CallByCall ==
    raises = 0 /\ status' # "undefined" =>
        /\ RemoveMinimum => Queue!RemoveMinimum
        /\ \A n \in Node :
               /\ RemoveNode(n) => Queue!Remove(n)
               /\ \A k \in Time : /\ Insert(n, k) => Queue!Insert(n, k)
                                  /\ LowerKey(n, k) => Queue!Lower(n, k)
                                  /\ RaiseKey(n, k) => Queue!Raise(n, k)

\* The heap is a TimeoutQueue until a key is raised, call by call: whatever sequence of
\* operations came before, the entries are those inserted and not removed, with the key
\* last given to them; remove_minimum takes one of least key and no other; remove takes
\* the entry it was given, although it can only take the minimum, or throws; and insert
\* and alter_key touch no other entry.
ImplementsQueue == Queue!Spec /\ [][CallByCall]_vars
=============================================================================
