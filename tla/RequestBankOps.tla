--------------------------- MODULE RequestBankOps ---------------------------
(***************************************************************************)
(* The operations of RequestBank (MCCIRequestBank.h) as operators on a      *)
(* bank.  A bank is a record of                                            *)
(*   due     the open requests, each a pair <<key, client>>, with timeouts:*)
(*           what the hash of subscription maps and the heap hold together *)
(*   out     m_outstanding_requests, the counter kept for every client     *)
(*   stale   keys that RequestBankTwoKeys::remove_by_pq left in its hash   *)
(*           with a null map                                               *)
(*   intact  whether the heap of timeouts still keeps the TimeoutQueue     *)
(*           contract: no request was renewed to a later timeout, and no   *)
(*           more than HeapLimit requests were open at once                *)
(* Client identifiers are numbers below max_client_id, in the order of the *)
(* std::map that holds the subscribers of a key.                           *)
(***************************************************************************)
EXTENDS Integers, FiniteSets

CONSTANTS
    Client,     \* client identifiers
    Modulus,    \* unsigned int arithmetic wraps at this value (2^32)
    HeapLimit   \* entries up to which FibonacciHeap is relied on

ASSUME BankAssumption ==
    /\ Client \subseteq Nat
    /\ IsFiniteSet(Client)
    /\ Modulus \in Nat \ {0}
    /\ HeapLimit \in Nat

Counter == 0..(Modulus - 1)

UnsignedUnwrapped(n) == n   \* Mutant of Unsigned.

\* The value of an unsigned int that was assigned the integer n.
Unsigned(n) == n % Modulus

EmptyBank == [due    |-> [e \in {} |-> 0],
              out    |-> [c \in Client |-> 0],
              stale  |-> {},
              intact |-> TRUE]

Entries(b) == DOMAIN b.due

\* A bank over the keys K with timeouts in T.
IsBank(b, K, T) ==
    /\ b = [due |-> b.due, out |-> b.out, stale |-> b.stale, intact |-> b.intact]
    /\ Entries(b) \subseteq K \X Client
    /\ b.due \in [Entries(b) -> T]
    /\ b.out \in [Client -> Counter]
    /\ b.stale \subseteq K
    /\ b.intact \in BOOLEAN

\* The requests among some entries that are those of a client.
Share(entries, c) == {e \in entries : e[2] = c}

Subscribers(b, key) == {c \in Client : <<key, c>> \in Entries(b)}
EntriesOf(b, c) == Share(Entries(b), c)
Open(b, c) == Cardinality(EntriesOf(b, c))

\* get_by_pq: the key has a map of subscribers (a map is dropped when it is empty).
Contains(b, key) == Subscribers(b, key) # {}

\* Mutant of AddThrows: a null map is taken for an empty one.
AddThrowsUnchecked(b, key, c, t) ==
    <<key, c>> \in Entries(b) /\ b.due[<<key, c>>] = 0 /\ t > 0

\* add throws: the key's map is null, or the heap refuses to raise a key of 0.
AddThrows(b, key, c, t) ==
    \/ key \in b.stale
    \/ <<key, c>> \in Entries(b) /\ b.due[<<key, c>>] = 0 /\ t > 0

\* add re-inserts an entry under a later timeout, which needs a heap that is in order.
AddRaises(b, key, c, t) ==
    <<key, c>> \in Entries(b) /\ t > b.due[<<key, c>>]

\* Mutant of AddAll: a renewal is counted as another request.
AddAllRecounts(b, keys, c, t) ==
    LET wanted == {<<key, c>> : key \in keys}
    IN  [due    |-> [e \in Entries(b) \cup wanted |->
                        IF e \in wanted THEN t ELSE b.due[e]],
         out    |-> [b.out EXCEPT ![c] = Unsigned(@ + Cardinality(wanted))],
         stale  |-> b.stale,
         intact |-> b.intact]

\* add, for one client and each of some keys for which it does not throw.
AddAll(b, keys, c, t) ==
    LET wanted == {<<key, c>> : key \in keys}
        fresh == wanted \ Entries(b)
    IN  [due    |-> [e \in Entries(b) \cup wanted |->
                        IF e \in wanted THEN t ELSE b.due[e]],
         out    |-> [b.out EXCEPT ![c] = Unsigned(@ + Cardinality(fresh))],
         stale  |-> b.stale,
         intact |-> /\ b.intact
                    /\ \A key \in keys : ~AddRaises(b, key, c, t)
                    /\ Cardinality(Entries(b) \cup wanted) <= HeapLimit]

\* Mutant of Expire: the counters are left.
ExpireUncounted(b, gone) == [b EXCEPT !.due = [e \in Entries(b) \ gone |-> b.due[e]]]

\* The bank without some of its entries, the counters of their clients lowered by as many.
Expire(b, gone) ==
    [b EXCEPT !.due = [e \in Entries(b) \ gone |-> b.due[e]],
              !.out = [c \in Client |->
                  Unsigned(b.out[c] - Cardinality(Share(gone, c)))]]

\* remove_by_key throws: heap.remove(node, 0) refuses while any timeout is 0.
RemoveByKeyThrows(b) == \E e \in Entries(b) : b.due[e] = 0

\* What remove_by_key assigns to the counter of a client it removes: "=- 1".
Overwritten == Unsigned(-1)

\* The clients whose counters remove_by_key writes.  The loop overwrites the counter
\* of a subscriber before it takes its node out of the heap; if that throws it does so
\* for the first subscriber, and the map of the key is not dropped.
Written(b, key) ==
    IF RemoveByKeyThrows(b)
    THEN {c \in Subscribers(b, key) : \A d \in Subscribers(b, key) : c <= d}
    ELSE Subscribers(b, key)

RemoveByKey(b, key, twoKeys) ==
    LET out == [c \in Client |-> IF c \in Written(b, key) THEN Overwritten
                                 ELSE b.out[c]]
    IN  IF RemoveByKeyThrows(b) THEN [b EXCEPT !.out = out]
        ELSE [b EXCEPT
                !.due = [e \in {f \in Entries(b) : f[1] # key} |-> b.due[e]],
                !.out = out,
                !.stale = IF twoKeys THEN @ \cup {key} ELSE @]
=============================================================================
