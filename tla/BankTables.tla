----------------------------- MODULE BankTables -----------------------------
(***************************************************************************)
(* A RequestBank as it is stored (MCCIRequestBank.h): the heap of timeouts  *)
(* with its pointers, the component FibonacciHeap, and the hash of          *)
(* subscription maps, LinearHash upon LinearHash for RequestBankTwoKeys.    *)
(* RequestBank says of the same calls what they do to the set of open       *)
(* requests; here a call does what the code does to both structures, step   *)
(* by step where it can fail in between.  What a call does to the heap is an *)
(* action of FibonacciHeap, whose variables this module shares.             *)
(*                                                                         *)
(* The owner's loop, while (!empty() && now > minimum_timeout())            *)
(* remove_minimum() (MCCIServer.cpp:609), is one step for each turn.        *)
(*                                                                         *)
(* A request is a pair <<key set, client>>, the LookupSet a heap node       *)
(* carries; requests serve as the addresses of their nodes, of which there  *)
(* is one at most at a time.  A key set is a pair <<key 1, key 2>>, with     *)
(* key 1 = 0 in RequestBankOneKey.  A map is only known to the one slot of  *)
(* a hash that points to it, and is held there itself.                      *)
(***************************************************************************)
EXTENDS FibonacciHeap, LinearHash

CONSTANTS
    KeySet,     \* key sets of requests
    Client,     \* client identifiers
    Timeouts,   \* the timeouts of requests
    Nows,       \* the times at which the owner removes what is over
    Size1,      \* desired sizes of the hashes for key 1
    Size2,      \* and for key 2
    CounterRange    \* the counters, of unsigned int, wrap at this value (2^32)

ASSUME TablesAssumption ==
    /\ KeySet \subseteq Nat \X Nat /\ IsFiniteSet(KeySet)
    /\ Client \subseteq Nat /\ IsFiniteSet(Client)
    /\ Node \subseteq KeySet \X Client
    /\ \A clients \in SUBSET Client : NULL \notin [clients -> Node]
    /\ Timeouts \subseteq Time /\ Nows \subseteq Nat
    /\ Size1 \in Nat /\ Size2 \in Nat
    /\ CounterRange \in Nat \ {0}

VARIABLES
    twoKeys,    \* which of the two classes the bank is
    bank,       \* m_bank
    out,        \* m_outstanding_requests
    until,      \* the time up to which the loop of the owner removes, or Idle
    served      \* history: clients whose counter remove_by_key has written

heapVars == <<heap, live, raises>>
tableVars == <<vars, twoKeys, bank, out, until, served>>

Idle == -1
UnsignedUnwrapped(n) == n   \* Mutant of Unsigned.

Unsigned(n) == n % CounterRange

\* The key sets of a bank of this class.
KeySets == {key \in KeySet : twoKeys \/ key[1] = 0}

-----------------------------------------------------------------------------
(* The hash of maps *)

\* The hash that holds the maps of a key 1; one that is not there holds nothing.
HashOf(b, k1) ==
    IF ~twoKeys THEN b ELSE IF HasKey(b, k1) THEN At(b, k1) ELSE NewHash

\* The hash of a key 1, made and sized by the access that makes its entry.
Inner(b, k1) == IF HasKey(b, k1) THEN At(b, k1) ELSE Sized(NearestPrime(Size2))

\* get_by_pq: the map of a key set, NULL if there is none.
GetByPq(b, key) ==
    IF HasKey(HashOf(b, key[1]), key[2]) THEN At(HashOf(b, key[1]), key[2]) ELSE NULL

\* get_by_fq throws: the key set has an entry, and no map.
IsStale(b, key) ==
    HasKey(HashOf(b, key[1]), key[2]) /\ At(HashOf(b, key[1]), key[2]) = NULL

PutMap(b, key, map) ==
    IF twoKeys THEN Put(b, key[1], Put(Inner(b, key[1]), key[2], map))
    ELSE Put(b, key[2], map)

HasClient(b, key, c) == GetByPq(b, key) # NULL /\ c \in DOMAIN GetByPq(b, key)

\* Mutant of AddByFq: an existing map is replaced by a new one.
AddByFqAnew(b, key, c, node) == PutMap(b, key, [d \in {c} |-> node])

\* add_by_fq
AddByFq(b, key, c, node) ==
    LET map == GetByPq(b, key)
        old == IF map = NULL THEN [d \in {} |-> node] ELSE map
    IN  PutMap(b, key, [d \in DOMAIN old \cup {c} |-> IF d = c THEN node ELSE old[d]])

\* remove_by_pq: the map is deleted, and with one key so is the entry.
RemoveByPq(b, key) ==
    IF twoKeys THEN PutMap(b, key, NULL) ELSE Erase(b, key[2])

\* Mutant of RemoveByFq: the entry of an empty map is kept.
RemoveByFqKeeping(b, key, c) ==
    LET map == GetByPq(b, key)
    IN  PutMap(b, key, [d \in DOMAIN map \ {c} |-> map[d]])

\* remove_by_fq: a map that becomes empty goes, and with two keys the hash around it.
RemoveByFq(b, key, c) ==
    LET map == GetByPq(b, key)
        rest == [d \in DOMAIN map \ {c} |-> map[d]]
        inner == Erase(At(b, key[1]), key[2])
    IN  IF DOMAIN rest # {} THEN PutMap(b, key, rest)
        ELSE IF ~twoKeys THEN RemoveByPq(b, key)
        ELSE IF IsEmpty(inner) THEN Erase(b, key[1])
        ELSE Put(b, key[1], inner)

\* The key sets that the destructor's inner loop reaches from a key 1, in order.
ReachedFrom(b, k1) ==
    LET keys == Visits(HashOf(b, k1))
    IN  [j \in DOMAIN keys |-> <<k1, keys[j]>>]

\* The same of its outer loop; with one key there is only the hash itself.
Reached(b) ==
    LET keys == IF twoKeys THEN Visits(b) ELSE <<0>>
    IN  [i \in DOMAIN keys |-> ReachedFrom(b, keys[i])]

-----------------------------------------------------------------------------
(* The calls *)

TablesInit ==
    /\ Init
    /\ twoKeys \in BOOLEAN
    /\ bank = Sized(NearestPrime(Size1))
    /\ out = [c \in Client |-> 0]
    /\ until = Idle
    /\ served = {}

\* No call stopped half-way with an error that leaves heap and maps apart.
Agreeing == Usable /\ status # "internal"
Ready == until = Idle /\ status # "internal"

\* add, for a request that is not there: into the heap, the map, and the counter.
AddNew(key, c, t) ==
    /\ Insert(<<key, c>>, t)
    /\ bank' = AddByFq(bank, key, c, <<key, c>>)
    /\ out' = [out EXCEPT ![c] = Unsigned(@ + 1)]

\* add, for a request that is there: its node is moved in the heap.
Renew(key, c, t) ==
    LET node == GetByPq(bank, key)[c]
    IN  /\ IF node \in live THEN LowerKey(node, t) \/ RaiseKey(node, t)
           ELSE Usable /\ status' = "dangling" /\ UNCHANGED heapVars
        /\ UNCHANGED <<bank, out>>

Add(key, c, t) ==
    /\ Ready
    /\ IF IsStale(bank, key)
       THEN Usable /\ Throw /\ UNCHANGED <<raises, bank, out>>
       ELSE IF HasClient(bank, key, c) THEN Renew(key, c, t)
       ELSE AddNew(key, c, t)
    /\ UNCHANGED <<twoKeys, until, served>>

\* A turn of remove_by_key: the counter of a subscriber, then its node in the heap, unless
\* a turn before threw, or, as for the operations of FibonacciHeap, nothing can be said.
\* What is deleted is the root that the heap has once the node's key is the least.
RemovalTurn(map, a, c) ==
    LET r == RemoveH(a.heap, map[c])
        gone == DecreaseKeyH(a.heap, map[c], 0).root
    IN  IF a.status # "ok" THEN a
        ELSE IF map[c] \notin a.live THEN [a EXCEPT !.status = "dangling"]
        ELSE IF ~Linked(a.heap, a.live) THEN [a EXCEPT !.status = "broken"]
        ELSE [heap |-> IF r.status = "ok" THEN Delete(r.h, gone) ELSE r.h,
              live |-> IF r.status = "ok" THEN a.live \ {gone} ELSE a.live,
              out |-> [a.out EXCEPT ![c] = Unsigned(-1)],
              served |-> a.served \cup {c},
              status |-> r.status]

\* The turns for some subscribers, and what they make of what there is before.
Removal(map, from, subscribers) ==
    FoldLeft(LAMBDA a, c : RemovalTurn(map, a, c), from, subscribers)

\* remove_by_key, for a key set that has a map: its subscribers in order; then the map.
RemoveByKey(key) ==
    LET map == GetByPq(bank, key)
        end == Removal(map, [heap |-> heap, live |-> live, out |-> out, served |-> served,
                             status |-> "ok"],
                       Ascending(DOMAIN map))
    IN  /\ Ready
        /\ Usable
        /\ map # NULL
        /\ heap' = end.heap /\ live' = end.live
        /\ out' = end.out /\ served' = end.served
        /\ status' = end.status
        /\ bank' = IF end.status = "ok" THEN RemoveByPq(bank, key) ELSE bank
        /\ UNCHANGED <<raises, twoKeys, until>>

\* The owner starts to remove what is over at a time t.
BeginTimeouts(t) ==
    /\ Ready
    /\ Usable
    /\ until' = t
    /\ status' = "ok"
    /\ UNCHANGED <<heapVars, twoKeys, bank, out, served>>

IsOverYet(node) == until < heap.key[node]    \* Mutant of IsOver.

IsOver(node) == until > heap.key[node]

\* The condition of the owner's loop holds; minimum() throws without a root.
GoesOn == heap.count # 0 /\ heap.root # NULL /\ IsOver(heap.root)

\* A turn of the loop: remove_minimum of the bank, out of the map, the counter and the heap.
RemoveOver ==
    LET key == heap.root[1]
        c == heap.root[2]
    IN  /\ until # Idle
        /\ Agreeing
        /\ GoesOn
        /\ IF ~HasClient(bank, key, c)
           THEN status' = "dangling" /\ UNCHANGED <<heapVars, bank, out>>
           ELSE /\ bank' = RemoveByFq(bank, key, c)
                /\ out' = [out EXCEPT ![c] = Unsigned(@ - 1)]
                /\ RemoveMinimum
        /\ UNCHANGED <<twoKeys, until, served>>

EndTimeouts ==
    /\ until # Idle
    /\ Agreeing
    /\ ~GoesOn
    /\ until' = Idle
    /\ status' = IF heap.count # 0 /\ heap.root = NULL THEN "threw" ELSE status
    /\ UNCHANGED <<heapVars, twoKeys, bank, out, served>>

TablesNext ==
    \/ \E e \in Node, t \in Timeouts : e[1] \in KeySets /\ Add(e[1], e[2], t)
    \/ \E key \in KeySets : RemoveByKey(key)
    \/ \E t \in Nows : BeginTimeouts(t)
    \/ RemoveOver
    \/ EndTimeouts

\* A turn of the loop or its end, RemoveOver \/ EndTimeouts, told by what they change.
LoopMoves ==
    /\ until # Idle
    /\ Agreeing
    /\ until' \in {until, Idle}
    /\ live' \in SUBSET live

\* The thread that is in the loop goes on with it.
TablesSpec == TablesInit /\ [][TablesNext]_tableVars /\ WF_<<until, live>>(LoopMoves)
-----------------------------------------------------------------------------
(* Properties *)

Mapped == {e \in Node : e[1] \in KeySets /\ HasClient(bank, e[1], e[2])}
StaleKeys == {key \in KeySets : IsStale(bank, key)}

TablesTypeOK ==
    /\ twoKeys \in BOOLEAN
    /\ heap \in HeapType
    /\ live \subseteq Node
    /\ out \in [Client -> 0..(CounterRange - 1)]
    /\ status \in {"ok", "threw", "internal", "undefined", "broken", "dangling"}
    /\ until \in {Idle} \cup Nows
    /\ served \subseteq Client
    /\ raises \in 0..MaxRaises

\* Every node of the heap is found in the map of its key set, under its client.
NodesAreMapped == \A e \in live : e \in Mapped /\ GetByPq(bank, e[1])[e[2]] = e

\* Every pointer in a map is to a node of the heap, and no map is empty.
MapsAreLive ==
    /\ Mapped \subseteq live
    /\ \A key \in KeySets : GetByPq(bank, key) # NULL => DOMAIN GetByPq(bank, key) # {}

\* The two structures hold the same requests, also after renewals and calls that threw, as
\* long as the links of the heap are in order; and no call follows a pointer to a node that
\* is gone.
TablesAgree ==
    /\ Agreeing => NodesAreMapped /\ MapsAreLive
    /\ status # "dangling"

\* The destructor deletes each map once: the iterators skip no bucket, no key of a bucket,
\* and none of the hashes whose entries came and went, and visit nothing twice.
MapsAreFreed ==
    LET reached == Reached(bank)
        freeing == {turn \in UNION {{i} \X DOMAIN reached[i] : i \in DOMAIN reached} :
                        GetByPq(bank, reached[turn[1]][turn[2]]) # NULL}
    IN  /\ \A s, t \in freeing : reached[s[1]][s[2]] = reached[t[1]][t[2]] => s = t
        /\ {reached[t[1]][t[2]] : t \in freeing} =
               {key \in KeySets : GetByPq(bank, key) # NULL}

\* What the bank stores, as RequestBank sees it.
stored == [due |-> [e \in live |-> heap.key[e]], out |-> out, stale |-> StaleKeys,
           intact |-> raises = 0]

Bank == INSTANCE RequestBank
    WITH Key <- KeySet, Modulus <- CounterRange, HeapLimit <- HeapSize,
         bank <- stored, result <- status

\* The tables do what RequestBank says of the calls: every call, and every turn of the
\* owner's loop, is the step of that module, up to the first renewal to a later timeout,
\* and to an index past the end of degree_roots.
ImplementsBank ==
    /\ Bank!Init
    /\ [][raises > 0 \/ status' = "undefined" \/ Bank!Next \/ UNCHANGED <<stored, served>>]_tableVars

\* The requests that are over at a time t.
OverAt(t) == {e \in live : heap.key[e] < t}

\* The owner's loop ends, and when it does, every request that was over when it began is
\* gone, unless some request of the bank was renewed to a later timeout before.
OverIsRemoved ==
    \A t \in Nows :
        (until = t /\ raises = 0) ~> (until = Idle /\ OverAt(t) = {})

\* "removed both by the key and by the passing of time" (MCCIRequestBank.h:21), of every
\* request.
OverIsRemovedAlways ==
    \A t \in Nows : (until = t) ~> (until = Idle /\ OverAt(t) = {})
=============================================================================
