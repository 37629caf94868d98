-------------------------- MODULE RequestBank_proofs --------------------------
(***************************************************************************)
(* RequestBank for any finite sets of keys and clients, any timeouts and    *)
(* any width of the counters: type correctness, and that the counter of a   *)
(* client is the number of its requests until remove_by_key writes it; and   *)
(* that a key whose map is null has no request.                             *)
(***************************************************************************)
EXTENDS RequestBank, RequestBankOps_proofs

\* The invariant that is inductive: CounterTracks with the types it relies on.
IInv == TypeOK /\ CounterTracks

LEMMA InitIInv == Init => IInv
<1> SUFFICES ASSUME Init
             PROVE  IInv
  OBVIOUS
<1>1. Entries(bank) = {}
  BY DEF Init, EmptyBank, Entries
<1>2. 0 \in Counter /\ Unsigned(0) = 0
  BY BankAssumption, ModSmall DEF Counter, Unsigned
<1>3. IsBank(bank, Key, Time)
  BY <1>2, EmptyBankType DEF Init
<1>4. TypeOK
  BY <1>3 DEF Init, TypeOK
<1>5. ASSUME NEW c \in Client
      PROVE  bank.out[c] = Unsigned(Open(bank, c))
  <2>1. EntriesOf(bank, c) = {}
    BY <1>1 DEF EntriesOf, Share
  <2>2. Open(bank, c) = 0
    BY <2>1, FS_EmptySet DEF Open
  <2>3. bank.out[c] = 0
    BY DEF Init, EmptyBank
  <2> QED
    BY <1>2, <2>2, <2>3
<1> QED
  BY <1>4, <1>5 DEF IInv, CounterTracks

LEMMA AddStep ==
    ASSUME IInv, NEW key \in Key, NEW c \in Client, NEW t \in Time,
           Add(key, c, t)
    PROVE  IInv'
<1>1. bank \in BankType(Key, Time)
  BY BankTypeIsBank DEF IInv, TypeOK
<1>2. CASE bank' = bank
  BY <1>2 DEF IInv, TypeOK, CounterTracks, Add
<1>3. CASE bank' = AddAll(bank, {key}, c, t) /\ result' = "ok"
  <2>1. /\ bank' \in BankType(Key, Time)
        /\ \A d \in Client : Tracks(bank, d) => Tracks(bank', d)
    <3>1. {key} \in SUBSET Key /\ IsFiniteSet(Key)
      BY RequestBankAssumption
    <3> QED
      BY <1>1, <1>3, <3>1, AddKeeps
  <2>2. TypeOK'
    BY <1>3, <2>1, BankTypeIsBank DEF IInv, TypeOK, Add
  <2>3. CounterTracks'
    BY <2>1 DEF IInv, CounterTracks, Tracks, Add
  <2> QED
    BY <2>2, <2>3 DEF IInv
<1> QED
  BY <1>2, <1>3 DEF Add

LEMMA RemoveMinimumStep ==
    ASSUME IInv, RemoveMinimum
    PROVE  IInv'
<1>1. bank \in BankType(Key, Time)
  BY BankTypeIsBank DEF IInv, TypeOK
<1>2. PICK e \in Entries(bank) : bank' = Expire(bank, {e})
  BY DEF RemoveMinimum
<1>3. /\ bank' \in BankType(Key, Time)
      /\ \A d \in Client : Tracks(bank, d) => Tracks(bank', d)
  <2>1. {e} \in SUBSET Entries(bank) /\ IsFiniteSet(Key)
    BY RequestBankAssumption
  <2> QED
    BY <1>1, <1>2, <2>1, ExpireKeeps
<1>4. TypeOK'
  BY <1>3, BankTypeIsBank DEF IInv, TypeOK, RemoveMinimum
<1>5. CounterTracks'
  BY <1>3 DEF IInv, CounterTracks, Tracks, RemoveMinimum
<1> QED
  BY <1>4, <1>5 DEF IInv

LEMMA RemoveKeyStep ==
    ASSUME IInv, NEW key \in Key, RemoveKey(key)
    PROVE  IInv'
<1>1. bank \in BankType(Key, Time)
  BY BankTypeIsBank DEF IInv, TypeOK
<1>2. /\ bank' \in BankType(Key, Time)
      /\ \A d \in Client \ Written(bank, key) :
            Tracks(bank, d) => Tracks(bank', d)
  <2>1. twoKeys \in BOOLEAN /\ IsFiniteSet(Key)
    BY RequestBankAssumption DEF IInv, TypeOK
  <2> QED
    BY <1>1, <2>1, RemoveByKeyKeeps DEF RemoveKey
<1>3. TypeOK'
  <2>1. Written(bank, key) \subseteq Client
    BY DEF Written, Subscribers
  <2> QED
    BY <1>2, <2>1, BankTypeIsBank DEF IInv, TypeOK, RemoveKey
<1>4. CounterTracks'
  BY <1>2 DEF IInv, CounterTracks, Tracks, RemoveKey
<1> QED
  BY <1>3, <1>4 DEF IInv

LEMMA NextIInv == IInv /\ [Next]_vars => IInv'
<1> SUFFICES ASSUME IInv, [Next]_vars
             PROVE  IInv'
  OBVIOUS
<1>1. CASE UNCHANGED vars
  BY <1>1 DEF IInv, TypeOK, CounterTracks, vars
<1>2. CASE Next
  BY <1>2, AddStep, RemoveMinimumStep, RemoveKeyStep DEF Next
<1> QED
  BY <1>1, <1>2

\* Type correctness: the counters stay unsigned, the requests stay requests.
THEOREM TypeCorrect == Spec => []TypeOK
<1>1. Init => IInv
  BY InitIInv
<1>2. IInv /\ [Next]_vars => IInv'
  BY NextIInv
<1>3. IInv => TypeOK
  BY DEF IInv
<1> QED
  BY <1>1, <1>2, <1>3, PTL DEF Spec

\* The counters of the clients no delivery has served are exact (MCCIRequestBank.h:22).
THEOREM CountersAreExact == Spec => []CounterTracks
<1>1. Init => IInv
  BY InitIInv
<1>2. IInv /\ [Next]_vars => IInv'
  BY NextIInv
<1>3. IInv => CounterTracks
  BY DEF IInv
<1> QED
  BY <1>1, <1>2, <1>3, PTL DEF Spec

LEMMA StaleStep ==
    ASSUME TypeOK, StaleKeysHoldNothing, [Next]_vars
    PROVE  StaleKeysHoldNothing'
<1>1. bank \in BankType(Key, Time)
  BY BankTypeIsBank DEF TypeOK
<1>2. /\ Entries(bank) \subseteq Key \X Client
      /\ \A key \in bank.stale, c \in Client : <<key, c>> \notin Entries(bank)
  BY <1>1, BankFields DEF StaleKeysHoldNothing, Contains, Subscribers
<1>3. ASSUME bank'.stale = bank.stale, Entries(bank') \subseteq Entries(bank)
      PROVE  StaleKeysHoldNothing'
  BY <1>2, <1>3 DEF StaleKeysHoldNothing, Contains, Subscribers, Entries
<1>4. ASSUME NEW key \in Key, NEW c \in Client, NEW t \in Time, Add(key, c, t)
      PROVE  StaleKeysHoldNothing'
  <2>1. CASE AddThrows(bank, key, c, t)
    BY <1>3, <1>4, <2>1 DEF Add
  <2>2. CASE ~AddThrows(bank, key, c, t)
    <3>1. /\ bank'.stale = bank.stale
          /\ Entries(bank') = Entries(bank) \cup {<<key, c>>}
      BY <1>4, <2>2 DEF Add, AddAll, Entries
    <3>2. key \notin bank.stale
      BY <2>2 DEF AddThrows
    <3> QED
      BY <1>2, <3>1, <3>2 DEF StaleKeysHoldNothing, Contains, Subscribers, Entries
  <2> QED
    BY <2>1, <2>2
<1>5. CASE RemoveMinimum
  <2>1. PICK e \in Entries(bank) : bank' = Expire(bank, {e})
    BY <1>5 DEF RemoveMinimum
  <2>2. bank'.stale = bank.stale /\ Entries(bank') \subseteq Entries(bank)
    BY <1>1, <2>1 DEF Expire, Entries, BankType
  <2> QED
    BY <1>3, <2>2
<1>6. ASSUME NEW key \in Key, RemoveKey(key)
      PROVE  StaleKeysHoldNothing'
  <2>1. bank' = RemoveByKey(bank, key, twoKeys)
    BY <1>6 DEF RemoveKey
  <2>2. CASE RemoveByKeyThrows(bank)
    <3>1. bank'.stale = bank.stale /\ Entries(bank') \subseteq Entries(bank)
      BY <1>1, <2>1, <2>2 DEF RemoveByKey, Entries, BankType
    <3> QED
      BY <1>3, <3>1
  <2>3. CASE ~RemoveByKeyThrows(bank)
    <3>1. /\ bank'.stale \subseteq bank.stale \cup {key}
          /\ Entries(bank') = {e \in Entries(bank) : e[1] # key}
      BY <1>1, <2>1, <2>3 DEF RemoveByKey, Entries, BankType
    <3> QED
      BY <1>2, <3>1 DEF StaleKeysHoldNothing, Contains, Subscribers, Entries
  <2> QED
    BY <2>2, <2>3
<1>7. CASE UNCHANGED vars
  BY <1>3, <1>7 DEF vars
<1> QED
  BY <1>4, <1>5, <1>6, <1>7 DEF Next

\* The null maps that RequestBankTwoKeys::remove_by_pq leaves in the hash hide nothing:
\* no request in the heap is out of reach of get_by_pq and remove_by_key.
THEOREM StaleKeysAreEmpty == Spec => []StaleKeysHoldNothing
<1>1. Init => StaleKeysHoldNothing
  BY DEF Init, EmptyBank, StaleKeysHoldNothing
<1>2. TypeOK /\ StaleKeysHoldNothing /\ [Next]_vars => StaleKeysHoldNothing'
  BY StaleStep
<1> QED
  BY <1>1, <1>2, TypeCorrect, PTL DEF Spec
=============================================================================
