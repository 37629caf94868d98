-------------------------- MODULE FibonacciHeapOps --------------------------
(***************************************************************************)
(* FibonacciHeap.h at the level of its pointers: the operations as          *)
(* operators on a record of all nodes' fields (m_key, m_degree, m_mark, the *)
(* rings m_next and m_previous, m_child, m_parent) and the heap's           *)
(* m_root_with_min_key, m_count and m_max_degree.                           *)
(*                                                                         *)
(* Loops are folds over 1..HeapSize, a bound that none of them exceeds      *)
(* while every ring closes.  Status "broken" is the end of an operation that *)
(* meets links which are not in order: a loop that does not end, or the     *)
(* throw of remove_child.                                                  *)
(***************************************************************************)
EXTENDS Integers, FiniteSets, Sequences, SequencesExt

CONSTANTS
    Node,       \* addresses a FibonacciHeapNode can have
    HeapSize,   \* bound on the nodes there are at once, and so on the turns of a loop
    NULL,       \* the null pointer
    MaxTime,    \* keys are 0..MaxTime; 0 is the minus_infinity callers pass
    CountRange  \* m_count and m_degree, of unsigned int, wrap at this value (2^32)

ASSUME HeapAssumption == /\ IsFiniteSet(Node)
                         /\ HeapSize \in 1..Cardinality(Node)
                         /\ NULL \notin Node
                         /\ MaxTime \in Nat
                         /\ CountRange \in Nat /\ HeapSize < CountRange

Time == 0..MaxTime
Pointer == Node \cup {NULL}
Turns == [i \in 1..HeapSize |-> i]

HeapType == [key    : [Node -> Time],
             degree : [Node -> 0..(CountRange - 1)],
             mark   : [Node -> BOOLEAN],
             next   : [Node -> Node],
             prev   : [Node -> Node],
             child  : [Node -> Pointer],
             parent : [Node -> Pointer],
             root   : Pointer,
             count  : 0..(CountRange - 1),
             maxDegree : Nat]

-----------------------------------------------------------------------------
(* FibonacciHeapNode *)

\* FibonacciHeapNode::insert: splice the ring of other after node.
RingInsert(h, node, other) ==
    [h EXCEPT !.prev[h.next[node]] = h.prev[other],
              !.next[h.prev[other]] = h.next[node],
              !.next[node] = other,
              !.prev[other] = node]

\* FibonacciHeapNode::remove: a ring of its own.
RingRemove(h, node) ==
    [h EXCEPT !.next[h.prev[node]] = h.next[node],
              !.prev[h.next[node]] = h.prev[node],
              !.next[node] = node,
              !.prev[node] = node]

\* The nodes of the ring of node, from node on along m_next.
RingTurn(h, ring) ==
    IF h.next[ring.last] \in ring.nodes THEN ring
    ELSE [nodes |-> ring.nodes \cup {h.next[ring.last]}, last |-> h.next[ring.last]]

Ring(h, node) ==
    FoldLeft(LAMBDA ring, i : RingTurn(h, ring), [nodes |-> {node}, last |-> node],
             Turns).nodes

\* Mutant of AddChild: the parent's degree is not counted up.
AddChildUncounted(h, node, other) ==
    LET linked == IF h.child[node] = NULL
                  THEN [h EXCEPT !.child[node] = other]
                  ELSE RingInsert(h, h.child[node], other)
    IN  [linked EXCEPT !.parent[other] = node, !.mark[other] = FALSE]

AddChild(h, node, other) ==
    LET linked == IF h.child[node] = NULL
                  THEN [h EXCEPT !.child[node] = other]
                  ELSE RingInsert(h, h.child[node], other)
    IN  [linked EXCEPT !.parent[other] = node,
                       !.mark[other] = FALSE,
                       !.degree[node] = (@ + 1) % CountRange]

\* Mutant of RemoveChild: m_child is not moved on when it points to the removed child.
RemoveChildDangling(h, node, other) ==
    LET unlinked == IF h.next[other] = other THEN [h EXCEPT !.child[node] = NULL]
                    ELSE RingRemove(h, other)
    IN  [unlinked EXCEPT !.parent[other] = NULL,
                         !.mark[other] = FALSE,
                         !.degree[node] = (@ - 1) % CountRange]

RemoveChild(h, node, other) ==
    LET unlinked ==
            IF h.next[other] = other
            THEN [h EXCEPT !.child[node] = NULL]
            ELSE RingRemove([h EXCEPT !.child[node] =
                                IF @ = other THEN h.next[other] ELSE @], other)
    IN  [unlinked EXCEPT !.parent[other] = NULL,
                         !.mark[other] = FALSE,
                         !.degree[node] = (@ - 1) % CountRange]

-----------------------------------------------------------------------------
(* FibonacciHeap: the helpers *)

\* Mutant of InsertNode: the comparison with the minimum the wrong way round.
InsertNodeLater(h, node) ==
    IF h.root = NULL THEN [h EXCEPT !.root = node]
    ELSE [RingInsert(h, h.root, node) EXCEPT
             !.root = IF h.key[node] > h.key[h.root] THEN node ELSE @]

InsertNode(h, node) ==
    IF h.root = NULL THEN [h EXCEPT !.root = node]
    ELSE [RingInsert(h, h.root, node) EXCEPT
             !.root = IF h.key[node] < h.key[h.root] THEN node ELSE @]

\* The merge of phase 2 is a loop over the ring of roots after the minimum.  Its
\* state: the heap, degree_roots (slots, indexed from 0 in the code), and whether
\* an index past the end of the vector was used.
MergeStartTight(h) ==   \* Mutant of MergeStart: no room for a new degree.
    [h |-> [h EXCEPT !.maxDegree = 0],
     slots |-> [d \in 1..h.maxDegree |-> NULL],
     overrun |-> FALSE]

MergeStart(h) ==
    [h |-> [h EXCEPT !.maxDegree = 0],
     slots |-> [d \in 1..(h.maxDegree + 1) |-> NULL],
     overrun |-> FALSE]

\* The inner while: link current with the root of its degree until there is none.
LinkTurn(a) ==
    LET other == a.m.slots[a.degree + 1]
        small == IF a.m.h.key[a.current] > a.m.h.key[other] THEN other ELSE a.current
        large == IF small = other THEN a.current ELSE other
        freed == [a.m.slots EXCEPT ![a.degree + 1] = NULL]
    IN  IF other = NULL THEN a
        ELSE [m |-> [a.m EXCEPT
                       !.h = AddChild(RingRemove(@, large), small, large),
                       !.slots = IF a.degree + 1 >= Len(freed)
                                 THEN Append(freed, NULL) ELSE freed],
              current |-> small,
              degree |-> a.degree + 1]

LinkUp(m, first) ==
    FoldLeft(LAMBDA a, i : LinkTurn(a),
             [m |-> m, current |-> first, degree |-> m.h.degree[first]], Turns)

MergeRoot(m, root) ==
    IF m.overrun \/ m.h.degree[root] >= Len(m.slots)
    THEN [m EXCEPT !.overrun = TRUE]
    ELSE LET a == LinkUp(m, root)
         IN  [a.m EXCEPT !.slots[a.degree + 1] = a.current]

\* Phase 3: the merged roots become the new ring of roots, in order of degree.
RebuildTurn(h, r) ==
    IF r = NULL THEN h ELSE InsertNode([h EXCEPT !.next[r] = r, !.prev[r] = r], r)

Rebuild(m) ==
    LET used == {d \in DOMAIN m.slots : m.slots[d] # NULL}
    IN  [FoldLeft(RebuildTurn, [m.h EXCEPT !.root = NULL], m.slots) EXCEPT
            !.maxDegree = Max(used) - 1]

\* Phase 2, the loop over the ring of roots after the minimum.  A root that comes up
\* twice means that the ring does not lead back to the minimum.
MergeTurn(min, a) ==
    IF a.at = min \/ a.m.overrun \/ a.at \in a.seen THEN a
    ELSE [m |-> MergeRoot(a.m, a.at),
          at |-> a.m.h.next[a.at],
          seen |-> a.seen \cup {a.at}]

MergeRoots(h) ==
    FoldLeft(LAMBDA a, i : MergeTurn(h.root, a),
             [m |-> MergeStart(h), at |-> h.next[h.root], seen |-> {}], Turns)

\* Phase 1: the children of the minimum become roots.
FreeChildren(h) ==
    LET min == h.root
        child == h.child[min]
        children == Ring(h, child)
        orphaned == [h EXCEPT !.parent = [n \in Node |->
                                  IF n \in children THEN NULL ELSE h.parent[n]],
                              !.child[min] = NULL]
    IN  IF child = NULL THEN h ELSE RingInsert(orphaned, min, child)

CountDownSigned(h) == [h EXCEPT !.count = @ - 1]    \* Mutant of CountDown.

CountDown(h) == [h EXCEPT !.count = (@ - 1) % CountRange]

\* remove_minimum_h on a heap that is not empty: the heap it leaves, and how it ends.
RemoveMinimumH(h) ==
    LET freed == FreeChildren(CountDown(h))
        merge == MergeRoots(freed)
    IN  IF freed.next[freed.root] = freed.root
        THEN IF freed.count # 0 THEN [h |-> freed, status |-> "internal"]
             ELSE [h |-> [freed EXCEPT !.root = NULL], status |-> "ok"]
        ELSE IF merge.m.overrun THEN [h |-> freed, status |-> "undefined"]
        ELSE IF merge.at # freed.root THEN [h |-> freed, status |-> "broken"]
        ELSE [h |-> Rebuild(merge.m), status |-> "ok"]

\* remove_child throws "Trying to remove a non-child": an only child is not the m_child of
\* its parent.  (Its other check cannot fail: decrease_key passes m_parent.)
NoChild(h, parent, node) == h.next[node] = node /\ h.child[parent] # node

\* The cuts of decrease_key, from node up to the first ancestor that is not marked; they
\* get no further if remove_child throws.
CutTurn(a) ==
    LET parent == a.h.parent[a.node]
        cut == InsertNode(RemoveChild(a.h, parent, a.node), a.node)
    IN  IF a.done \/ NoChild(a.h, parent, a.node) THEN a
        ELSE IF cut.parent[parent] = NULL
             THEN [h |-> cut, node |-> parent, done |-> TRUE]
        ELSE IF ~cut.mark[parent]
             THEN [h |-> [cut EXCEPT !.mark[parent] = TRUE], node |-> parent, done |-> TRUE]
        ELSE [h |-> cut, node |-> parent, done |-> FALSE]

Cuts(h, node) ==
    FoldLeft(LAMBDA a, i : CutTurn(a), [h |-> h, node |-> node, done |-> FALSE], Turns)

\* decrease_key to a smaller key (it throws on any other).
DecreaseKeyH(h, node, newKey) ==
    LET keyed == [h EXCEPT !.key[node] = newKey]
        parent == h.parent[node]
    IN  IF parent = NULL
        THEN [keyed EXCEPT !.root = IF newKey < keyed.key[@] THEN node ELSE @]
        ELSE IF h.key[parent] <= newKey THEN keyed
        ELSE Cuts(keyed, node).h

\* Its cuts do not come to an end.
DecreaseBreaks(h, node, newKey) ==
    LET parent == h.parent[node]
    IN  /\ parent # NULL
        /\ h.key[parent] > newKey
        /\ ~Cuts([h EXCEPT !.key[node] = newKey], node).done

\* decrease_key(node, 0), which is to make node the minimum, and remove_minimum_h.
TakeOutH(h, node) ==
    LET lowered == DecreaseKeyH(h, node, 0)
    IN  IF DecreaseBreaks(h, node, 0) THEN [h |-> lowered, status |-> "broken"]
        ELSE RemoveMinimumH(lowered)

\* insert: a constructed node at address node.
InsertUncounted(h, node, key) ==    \* Mutant of InsertH: m_count is not counted up.
    InsertNode([h EXCEPT !.key[node] = key], node)

InsertH(h, node, key) ==
    InsertNode([h EXCEPT !.key[node] = key, !.count = (@ + 1) % CountRange], node)

\* remove(node, 0), as RequestBank::remove_by_key calls it, up to the deletion.
RemoveH(h, node) ==
    IF 0 >= h.key[h.root] THEN [h |-> h, status |-> "threw"]
    ELSE TakeOutH(h, node)

\* alter_key(node, newKey, 0).  To a later key: decrease to 0 (which throws if the key
\* is 0), take out the minimum without deleting it, and insert node once more as it is.
AlterKeyH(h, node, newKey) ==
    LET r == TakeOutH(h, node)
    IN  IF newKey < h.key[node]
        THEN [h |-> DecreaseKeyH(h, node, newKey),
              status |-> IF DecreaseBreaks(h, node, newKey) THEN "broken" ELSE "ok"]
        ELSE IF newKey = h.key[node] THEN [h |-> h, status |-> "ok"]
        ELSE IF h.key[node] = 0 THEN [h |-> h, status |-> "threw"]
        ELSE IF r.status = "ok"
        THEN [h |-> InsertNode([r.h EXCEPT !.key[node] = newKey], node),
              status |-> "ok"]
        ELSE r

\* A deleted node's memory is gone: its fields are put back to the constructor's.
Delete(h, node) ==
    [h EXCEPT !.key[node] = 0, !.degree[node] = 0, !.mark[node] = FALSE,
              !.next[node] = node, !.prev[node] = node,
              !.child[node] = NULL, !.parent[node] = NULL]

EmptyHeap == [key    |-> [n \in Node |-> 0],
              degree |-> [n \in Node |-> 0],
              mark   |-> [n \in Node |-> FALSE],
              next   |-> [n \in Node |-> n],
              prev   |-> [n \in Node |-> n],
              child  |-> [n \in Node |-> NULL],
              parent |-> [n \in Node |-> NULL],
              root   |-> NULL,
              count  |-> 0,
              maxDegree |-> 0]

-----------------------------------------------------------------------------
(* What of the pointers is in order *)

Spread(h, found) == found \cup {h.next[n] : n \in found}
                          \cup ({h.child[n] : n \in found} \ {NULL})

\* The nodes reachable from the root pointer along m_next and m_child.
Reachable(h) ==
    IF h.root = NULL THEN {}
    ELSE FoldLeft(LAMBDA found, i : Spread(h, found), {h.root}, Turns)

\* Along m_next, m_child and m_parent the nodes are a forest in which every ring closes.
Linked(h, nodes) ==
    /\ Reachable(h) = nodes
    /\ {h.next[n] : n \in nodes} = nodes
    /\ \A n \in nodes : /\ h.parent[n] \in nodes \cup {NULL}
                        /\ h.parent[h.next[n]] = h.parent[n]
                        /\ h.child[n] # NULL => h.parent[h.child[n]] = n

HeapOrdered(h, nodes) ==
    \A n \in nodes : h.parent[n] # NULL => h.key[h.parent[n]] <= h.key[n]
=============================================================================
