----------------------------- MODULE RequestBank -----------------------------
(***************************************************************************)
(* One RequestBank and the calls its owner makes: add, remove_minimum and  *)
(* remove_by_key, each a whole call.  twoKeys says which of the two bank   *)
(* classes it is.  The heap is the TimeoutQueue contract; once a bank is no *)
(* longer intact, the two calls that search the heap, and renewals, are    *)
(* outside of this model (FibonacciHeap shows what becomes of the heap).   *)
(***************************************************************************)
EXTENDS RequestBankOps

CONSTANTS
    Key,        \* key sets of requests
    MaxTime     \* timeouts are 0..MaxTime

ASSUME RequestBankAssumption == /\ IsFiniteSet(Key)
                                /\ MaxTime \in Nat

VARIABLES
    twoKeys,    \* RequestBankTwoKeys (TRUE) or RequestBankOneKey (FALSE)
    bank,
    served,     \* history: clients whose counter remove_by_key has written
    result      \* how the last call ended

vars == <<twoKeys, bank, served, result>>

Time == 0..MaxTime

TypeOK ==
    /\ twoKeys \in BOOLEAN
    /\ IsBank(bank, Key, Time)
    /\ served \subseteq Client
    /\ result \in {"ok", "threw"}

Init ==
    /\ twoKeys \in BOOLEAN
    /\ bank = EmptyBank
    /\ served = {}
    /\ result = "ok"

Add(key, c, t) ==
    /\ <<key, c>> \in Entries(bank) => bank.intact
    /\ IF AddThrows(bank, key, c, t)
       THEN bank' = bank /\ result' = "threw"
       ELSE bank' = AddAll(bank, {key}, c, t) /\ result' = "ok"
    /\ UNCHANGED <<twoKeys, served>>

\* remove_minimum: an entry none precedes, out of the maps, the counter and the heap.
RemoveMinimum ==
    /\ bank.intact
    /\ \E e \in Entries(bank) :
          /\ \A f \in Entries(bank) : bank.due[e] <= bank.due[f]
          /\ bank' = Expire(bank, {e})
    /\ result' = "ok"
    /\ UNCHANGED <<twoKeys, served>>

\* remove_by_key, which its owner calls for keys that have subscribers.
RemoveKey(key) ==
    /\ bank.intact
    /\ Contains(bank, key)
    /\ bank' = RemoveByKey(bank, key, twoKeys)
    /\ served' = served \cup Written(bank, key)
    /\ result' = IF RemoveByKeyThrows(bank) THEN "threw" ELSE "ok"
    /\ UNCHANGED twoKeys

Next ==
    \/ \E key \in Key, c \in Client, t \in Time : Add(key, c, t)
    \/ RemoveMinimum
    \/ \E key \in Key : RemoveKey(key)

Spec == Init /\ [][Next]_vars
-----------------------------------------------------------------------------
(* Properties *)

\* "The number of open requests per subscriber is tracked" (MCCIRequestBank.h:22):
\* the counter of a client is the number of its open requests (as an unsigned int),
\* through any mix of additions, renewals and expiries, until remove_by_key writes it.
CounterTracks ==
    \A c \in Client \ served : bank.out[c] = Unsigned(Open(bank, c))

\* The same for every client, also those served by remove_by_key.
CounterTracksAll ==
    \A c \in Client : bank.out[c] = Unsigned(Open(bank, c))

\* A key whose map is null in the hash (RequestBankTwoKeys::remove_by_pq) has no request:
\* nothing the heap holds is out of reach of get_by_pq and of remove_by_key.
StaleKeysHoldNothing == \A key \in bank.stale : ~Contains(bank, key)
=============================================================================
