------------------------- MODULE RevisionSet_proofs -------------------------
(***************************************************************************)
(* Proofs about RevisionSet: type correctness, whatever is refused; that   *)
(* no number is given out twice until a statement is refused; and what     *)
(* survives the statements that are: the table never goes back, and a row  *)
(* that exists is behind its cached number by no more than the number of   *)
(* them.                                                                   *)
(***************************************************************************)
EXTENDS RevisionSet, TLAPS

\* check_revision yields a value to cache and a value of the table's row.
LEMMA ChecksTyped ==
    ASSUME TypeOK, NEW v \in Var, NEW c, NEW row, NEW cost, Checks(v, c, row, cost)
    PROVE  /\ c \in 0..MaxRevision
           /\ row \in Stored
           /\ cost \in 0..1
           /\ KeyOf(v) \in Key
<1>1. KeyOf(v) \in Key
  BY DEF TypeOK, KeyOf, Key
<1>2. cache[v] \in Stored /\ rows[KeyOf(v)] \in Stored
  BY <1>1 DEF TypeOK
<1> QED
  BY <1>1, <1>2, RevisionAssumption
     DEF Checks, Cached, Found, Inserted, Stored, Unknown, RevisionAssumption

\* The update statement leaves a table of the same type, which differs from the old one
\* in the row of the key that was checked and in the row the statement is bound to.
LEMMA UpdatedTyped ==
    ASSUME TypeOK, NEW k \in Key, NEW row \in Stored, NEW u \in Binding
    PROVE  /\ Updated(k, row, u) \in [Key -> Stored]
           /\ \A j \in Key \ {k, u[1]} : Updated(k, row, u)[j] = rows[j]
           /\ u[1] = k /\ row # Unknown => Updated(k, row, u)[k] = u[2]
<1>1. u[1] \in Key /\ u[2] \in Stored
  BY RevisionAssumption DEF Binding, Revision, Stored, RevisionAssumption
<1>2. rows \in [Key -> Stored]
  BY DEF TypeOK
<1> QED
  BY <1>1, <1>2 DEF Updated

LEMMA BoundTyped ==
    ASSUME TypeOK, NEW v \in Var, NEW r \in Revision
    PROVE  Bound(v, r) \in Binding
BY DEF TypeOK, Bound, Binding, KeyOf, Key

-----------------------------------------------------------------------------
LEMMA TypeInit == Init => TypeOK
BY RevisionAssumption
   DEF Init, TypeOK, RevisionAssumption, Stored, Unknown, NoAnswer, Threw, Key, Ready

LEMMA TypeStep == TypeOK /\ [Next]_vars => TypeOK'
<1> SUFFICES ASSUME TypeOK, [Next]_vars PROVE TypeOK'
  OBVIOUS
<1> USE RevisionAssumption DEF RevisionAssumption
<1>1. ASSUME NEW v \in Var, GetRevision(v) PROVE TypeOK'
  <2> PICK c \in Stored, row \in Stored, cost \in 0..1 :
          /\ Checks(v, c, row, cost)
          /\ faults + cost <= MaxFaults
          /\ faults' = faults + cost
          /\ cache' = [cache EXCEPT ![v] = c]
          /\ rows' = [rows EXCEPT ![KeyOf(v)] = row]
          /\ answer' = c
          /\ UNCHANGED <<signature, pending, issued>>
    BY <1>1 DEF GetRevision
  <2>1. c \in 0..MaxRevision /\ KeyOf(v) \in Key
    BY ChecksTyped
  <2> QED
    BY <2>1 DEF TypeOK
<1>2. ASSUME NEW v \in Var, CheckFails(v) PROVE TypeOK'
  BY <1>2 DEF CheckFails, TypeOK, Threw
<1>3. ASSUME NEW v \in Var, IncRevision(v) PROVE TypeOK'
  <2> PICK c \in Stored, row \in Stored, cost \in 0..1 :
          /\ Checks(v, c, row, cost)
          /\ c < MaxRevision
          /\ faults + cost <= MaxFaults
          /\ faults' = faults + cost
          /\ cache' = [cache EXCEPT ![v] = c + 1]
          /\ rows' = Updated(KeyOf(v), row, Bound(v, c + 1))
          /\ pending' = Ready
          /\ answer' = c + 1
          /\ issued' = [issued EXCEPT ![<<KeyOf(v), c + 1>>] = @ + 1]
          /\ UNCHANGED signature
    BY <1>3 DEF IncRevision
  <2>1. c \in 0..MaxRevision /\ KeyOf(v) \in Key
    BY ChecksTyped
  <2>2. c + 1 \in Revision /\ c + 1 \in Stored
    BY <2>1 DEF Revision, Stored
  <2>3. rows' \in [Key -> Stored]
    BY <2>1, <2>2, BoundTyped, UpdatedTyped
  <2>4. cache' \in [Var -> Stored]
    BY <2>2 DEF TypeOK
  <2>5. issued' \in [Key \X Revision -> Nat]
    BY <2>1, <2>2 DEF TypeOK
  <2>6. faults' \in 0..MaxFaults
    BY DEF TypeOK
  <2> QED
    BY <2>1, <2>2, <2>3, <2>4, <2>5, <2>6 DEF TypeOK
<1>4. ASSUME NEW v \in Var, IncFails(v) PROVE TypeOK'
  <2> PICK c \in Stored, row \in Stored, cost \in 0..1 :
          /\ Checks(v, c, row, cost)
          /\ c < MaxRevision
          /\ faults + cost < MaxFaults
          /\ faults' = faults + cost + 1
          /\ cache' = [cache EXCEPT ![v] = c + 1]
          /\ rows' = [rows EXCEPT ![KeyOf(v)] = row]
          /\ pending' = Bound(v, c + 1)
          /\ answer' = Threw
          /\ UNCHANGED <<signature, issued>>
    BY <1>4 DEF IncFails
  <2>1. c \in 0..MaxRevision /\ KeyOf(v) \in Key
    BY ChecksTyped
  <2>2. c + 1 \in Revision /\ c + 1 \in Stored
    BY <2>1 DEF Revision, Stored
  <2>3. pending' \in Binding
    BY <2>2, BoundTyped
  <2> QED
    BY <2>1, <2>2, <2>3 DEF TypeOK
<1>5. ASSUME NEW s \in Signature, Constructed(s), UNCHANGED <<faults, issued>>,
             rows' \in [Key -> Stored]
      PROVE TypeOK'
  BY <1>5 DEF Constructed, TypeOK, Stored, Unknown
<1>6. CASE Restart
  BY <1>5, <1>6 DEF Restart, TypeOK
<1>7. ASSUME NEW v \in Var, CrashAfterUpdate(v) PROVE TypeOK'
  <2> PICK c \in Stored, row \in Stored :
          /\ Checks(v, c, row, 0)
          /\ c < MaxRevision
          /\ rows' = Updated(KeyOf(v), row, Bound(v, c + 1))
    BY <1>7 DEF CrashAfterUpdate
  <2>1. c \in 0..MaxRevision /\ KeyOf(v) \in Key
    BY ChecksTyped
  <2>2. c + 1 \in Revision
    BY <2>1 DEF Revision
  <2>3. rows' \in [Key -> Stored]
    BY <2>1, <2>2, BoundTyped, UpdatedTyped
  <2> QED
    BY <1>5, <1>7, <2>3 DEF CrashAfterUpdate
<1>8. CASE UNCHANGED vars
  BY <1>8 DEF vars, TypeOK
<1> QED
  BY <1>1, <1>2, <1>3, <1>4, <1>6, <1>7, <1>8 DEF Next

\* Every state of the revision set has its type, also when statements are refused.
THEOREM TypeCorrect == Spec => []TypeOK
BY TypeInit, TypeStep, PTL DEF Spec

-----------------------------------------------------------------------------
(* As long as the database has refused nothing, the cache repeats the table, the     *)
(* update statement is ready, and every issued number is in the table.               *)

CacheRepeatsRows == \A v \in Var : cache[v] \in {Unknown, rows[KeyOf(v)]}

Sound ==
    /\ pending = Ready
    /\ CacheRepeatsRows
    /\ NoDuplicates
    /\ Covered

IInv ==
    /\ TypeOK
    /\ faults = 0 => Sound

\* Without a refused statement, check_revision caches what the table has.
LEMMA ChecksAgree ==
    ASSUME TypeOK, Sound, NEW v \in Var, NEW c, NEW row, Checks(v, c, row, 0)
    PROVE  /\ c \in 0..MaxRevision /\ row = c
           /\ rows[KeyOf(v)] \in {c, Unknown}
           /\ \A r \in Revision : issued[<<KeyOf(v), r>>] > 0 => r <= c
<1>1. /\ c \in 0..MaxRevision /\ row \in Stored
      /\ KeyOf(v) \in Key
  BY ChecksTyped
<1>2. /\ cache[v] \in {Unknown, rows[KeyOf(v)]}
      /\ rows[KeyOf(v)] \in Stored
  BY <1>1 DEF Sound, TypeOK, CacheRepeatsRows
<1>3. row = c /\ rows[KeyOf(v)] \in {c, Unknown}
  BY <1>1, <1>2 DEF Checks, Cached, Found, Inserted
<1>4. ASSUME NEW r \in Revision, issued[<<KeyOf(v), r>>] > 0 PROVE r <= c
  BY <1>1, <1>3, <1>4 DEF Sound, Covered, Unknown, Revision
<1> QED
  BY <1>1, <1>3, <1>4

\* With its statement ready, an update writes the row that was checked and no other.
LEMMA UpdateWrites ==
    ASSUME TypeOK, Sound, NEW v \in Var, NEW c \in 0..MaxRevision, c < MaxRevision
    PROVE  Updated(KeyOf(v), c, Bound(v, c + 1)) = [rows EXCEPT ![KeyOf(v)] = c + 1]
<1>1. KeyOf(v) \in Key /\ rows \in [Key -> Stored]
  BY DEF TypeOK, KeyOf, Key
<1>2. Bound(v, c + 1) = <<KeyOf(v), c + 1>>
  BY DEF Bound, Sound
<1> QED
  BY <1>1, <1>2 DEF Updated, Unknown

\* What the table may become: the row of one variable moves forward.
LEMMA RowForward ==
    ASSUME TypeOK, Sound, NEW v \in Var, NEW n \in Stored,
           rows[KeyOf(v)] <= n, KeyOf(v) \in Key,
           rows' = [rows EXCEPT ![KeyOf(v)] = n], issued' = issued
    PROVE  NoDuplicates' /\ Covered'
<1>1. \A k \in Key : rows'[k] \in Int /\ rows[k] \in Int /\ rows[k] <= rows'[k]
  BY DEF TypeOK, Stored, Unknown
<1>2. Covered'
  BY <1>1 DEF Sound, Covered, Revision
<1> QED
  BY <1>2 DEF Sound, NoDuplicates

LEMMA RevisionInit == Init => IInv
BY TypeInit DEF Init, IInv, Sound, CacheRepeatsRows, NoDuplicates, Covered

\* The number of refused statements does not go down.
LEMMA FaultsGrow == TypeOK /\ [Next]_vars => faults <= faults'
<1> SUFFICES ASSUME TypeOK, [Next]_vars PROVE faults <= faults'
  OBVIOUS
<1>1. faults \in Nat
  BY RevisionAssumption DEF TypeOK, RevisionAssumption
<1>2. ASSUME NEW cost \in 0..1, faults' = faults + cost \/ faults' = faults + cost + 1
      PROVE  faults <= faults'
  BY <1>1, <1>2
<1>3. ASSUME NEW v \in Var, GetRevision(v) \/ IncRevision(v) \/ IncFails(v)
      PROVE  \E cost \in 0..1 : faults' = faults + cost \/ faults' = faults + cost + 1
  BY <1>3 DEF GetRevision, IncRevision, IncFails
<1>4. ASSUME NEW v \in Var, CheckFails(v) PROVE faults' = faults + 1
  BY <1>4 DEF CheckFails
<1>5. ASSUME NEW v \in Var, CrashAfterUpdate(v) PROVE faults' = faults
  BY <1>5 DEF CrashAfterUpdate
<1>6. Restart \/ UNCHANGED vars => faults' = faults
  BY DEF Restart, vars
<1> QED
  BY <1>1, <1>2, <1>3, <1>4, <1>5, <1>6 DEF Next

LEMMA RevisionStep == IInv /\ [Next]_vars => IInv'
<1> SUFFICES ASSUME IInv, [Next]_vars, faults' = 0 PROVE Sound'
  BY TypeStep DEF IInv
<1>t. TypeOK /\ TypeOK'
  BY TypeStep DEF IInv
<1>f. faults = 0
  BY <1>t, FaultsGrow DEF TypeOK
<1>s. Sound
  BY <1>f DEF IInv
<1>1. ASSUME NEW v \in Var, GetRevision(v) PROVE Sound'
  <2> PICK c \in Stored, row \in Stored, cost \in 0..1 :
          /\ Checks(v, c, row, cost)
          /\ faults' = faults + cost
          /\ cache' = [cache EXCEPT ![v] = c]
          /\ rows' = [rows EXCEPT ![KeyOf(v)] = row]
          /\ UNCHANGED <<signature, pending, issued>>
    BY <1>1 DEF GetRevision
  <2>1. /\ c \in 0..MaxRevision /\ row = c
        /\ rows[KeyOf(v)] \in {c, Unknown} /\ KeyOf(v) \in Key
    BY ChecksAgree, ChecksTyped, <1>t, <1>s, <1>f
  <2>2. rows[KeyOf(v)] <= c
    BY <2>1 DEF Unknown
  <2>3. NoDuplicates' /\ Covered'
    BY <2>1, <2>2, RowForward, <1>t, <1>s
  <2>4. CacheRepeatsRows'
    <3> SUFFICES ASSUME NEW w \in Var PROVE cache'[w] \in {Unknown, rows'[KeyOf(w)']}
      BY DEF CacheRepeatsRows
    <3>1. KeyOf(w)' = KeyOf(w)
      BY DEF KeyOf
    <3>2. CASE w = v
      BY <3>1, <3>2, <2>1, <1>t DEF TypeOK
    <3>3. CASE w # v
      BY <3>1, <3>3, <2>1, <1>t, <1>s DEF Sound, CacheRepeatsRows, TypeOK, KeyOf
    <3> QED
      BY <3>2, <3>3
  <2> QED
    BY <1>s, <2>3, <2>4 DEF Sound
<1>2. ASSUME NEW v \in Var, CheckFails(v) PROVE FALSE
  BY <1>2, <1>f DEF CheckFails
<1>3. ASSUME NEW v \in Var, IncRevision(v) PROVE Sound'
  <2> PICK c \in Stored, row \in Stored, cost \in 0..1 :
          /\ Checks(v, c, row, cost)
          /\ c < MaxRevision
          /\ faults' = faults + cost
          /\ cache' = [cache EXCEPT ![v] = c + 1]
          /\ rows' = Updated(KeyOf(v), row, Bound(v, c + 1))
          /\ pending' = Ready
          /\ issued' = [issued EXCEPT ![<<KeyOf(v), c + 1>>] = @ + 1]
          /\ UNCHANGED signature
    BY <1>3 DEF IncRevision
  <2>1. /\ c \in 0..MaxRevision /\ row = c
        /\ rows[KeyOf(v)] \in {c, Unknown} /\ KeyOf(v) \in Key
        /\ \A r \in Revision : issued[<<KeyOf(v), r>>] > 0 => r <= c
    BY ChecksAgree, ChecksTyped, <1>t, <1>s, <1>f
  <2>2. rows' = [rows EXCEPT ![KeyOf(v)] = c + 1]
    BY <2>1, UpdateWrites, <1>t, <1>s
  <2>3. c + 1 \in Revision
    BY <2>1, RevisionAssumption DEF Revision, RevisionAssumption
  <2>4. issued[<<KeyOf(v), c + 1>>] = 0
    BY <2>1, <2>3, <1>t DEF TypeOK, Revision
  <2>5. NoDuplicates'
    BY <2>4, <2>1, <2>3, <1>t, <1>s DEF NoDuplicates, Sound, TypeOK
  <2>6. Covered'
    <3> SUFFICES ASSUME NEW k \in Key, NEW r \in Revision, issued'[<<k, r>>] > 0
                 PROVE  r <= rows'[k]
      BY DEF Covered
    <3>1. CASE k = KeyOf(v)
      <4>1. rows'[k] = c + 1
        BY <3>1, <2>1, <2>2, <1>t DEF TypeOK
      <4>2. CASE r = c + 1
        BY <4>1, <4>2, <2>1
      <4>3. CASE r # c + 1
        <5>1. issued[<<k, r>>] > 0
          BY <4>3, <3>1, <2>1, <2>3, <1>t DEF TypeOK
        <5> QED
          BY <5>1, <4>1, <3>1, <2>1 DEF Revision
      <4> QED
        BY <4>2, <4>3
    <3>2. CASE k # KeyOf(v)
      <4>1. issued[<<k, r>>] > 0 /\ rows'[k] = rows[k]
        BY <3>2, <2>1, <2>2, <2>3, <1>t DEF TypeOK
      <4> QED
        BY <4>1, <1>s DEF Sound, Covered
    <3> QED
      BY <3>1, <3>2
  <2>7. CacheRepeatsRows'
    <3> SUFFICES ASSUME NEW w \in Var PROVE cache'[w] \in {Unknown, rows'[KeyOf(w)']}
      BY DEF CacheRepeatsRows
    <3>1. KeyOf(w)' = KeyOf(w) /\ KeyOf(w) \in Key
      BY <1>t DEF KeyOf, Key, TypeOK
    <3>2. CASE w = v
      BY <3>1, <3>2, <2>1, <2>2, <1>t DEF TypeOK
    <3>3. CASE w # v
      BY <3>1, <3>3, <2>2, <1>t, <1>s DEF Sound, CacheRepeatsRows, TypeOK, KeyOf
    <3> QED
      BY <3>2, <3>3
  <2> QED
    BY <2>5, <2>6, <2>7 DEF Sound
<1>4. ASSUME NEW v \in Var, IncFails(v) PROVE FALSE
  BY <1>4, <1>f DEF IncFails
<1>5. ASSUME NEW s \in Signature, Constructed(s), NoDuplicates', Covered' PROVE Sound'
  BY <1>5 DEF Constructed, Sound, CacheRepeatsRows
<1>6. CASE Restart
  BY <1>5, <1>6, <1>s DEF Restart, Sound, NoDuplicates, Covered
<1>7. ASSUME NEW v \in Var, CrashAfterUpdate(v) PROVE Sound'
  <2> PICK c \in Stored, row \in Stored :
          /\ Checks(v, c, row, 0)
          /\ c < MaxRevision
          /\ rows' = Updated(KeyOf(v), row, Bound(v, c + 1))
    BY <1>7 DEF CrashAfterUpdate
  <2>1. /\ c \in 0..MaxRevision /\ row = c
        /\ rows[KeyOf(v)] \in {c, Unknown} /\ KeyOf(v) \in Key
    BY ChecksAgree, ChecksTyped, <1>t, <1>s
  <2>2. rows' = [rows EXCEPT ![KeyOf(v)] = c + 1]
    BY <2>1, UpdateWrites, <1>t, <1>s
  <2>3. c + 1 \in Stored /\ rows[KeyOf(v)] <= c + 1
    BY <2>1, RevisionAssumption DEF Stored, Unknown, RevisionAssumption
  <2>4. NoDuplicates' /\ Covered'
    BY <1>7, <2>1, <2>2, <2>3, RowForward, <1>t, <1>s DEF CrashAfterUpdate
  <2> QED
    BY <1>5, <1>7, <2>4 DEF CrashAfterUpdate
<1>8. CASE UNCHANGED vars
  BY <1>8, <1>s DEF vars, Sound, CacheRepeatsRows, KeyOf, NoDuplicates, Covered
<1> QED
  BY <1>1, <1>2, <1>3, <1>4, <1>6, <1>7, <1>8 DEF Next

\* MCCIRevisionSet.h:12: no number of a variable is given out twice, over any number of
\* processes that end at any moment, as long as the database has refused no statement.
THEOREM RevisionsAreUnique == Spec => []UniqueUnlessRefused
<1>1. IInv => UniqueUnlessRefused
  BY DEF IInv, Sound, UniqueUnlessRefused
<1> QED
  BY <1>1, RevisionInit, RevisionStep, PTL DEF Spec

\* A number is in the database before anybody is told about it.
THEOREM NumbersAreWrittenAhead == Spec => []WrittenAhead
<1>1. IInv => WrittenAhead
  BY DEF IInv, Sound, WrittenAhead
<1> QED
  BY <1>1, RevisionInit, RevisionStep, PTL DEF Spec

\* get_revision is never behind a number that was issued.
THEOREM ReadingsAreCurrent == Spec => []NeverBehind
<1>1. IInv => NeverBehind
  BY DEF IInv, Sound, NeverBehind, Covered, CacheRepeatsRows, KeyOf, Key, TypeOK
<1> QED
  BY <1>1, RevisionInit, RevisionStep, PTL DEF Spec

\* The cache repeats the table, under whatever schema the process was started.
THEOREM CacheRepeatsTable == Spec => []CacheIsRow
<1>1. IInv => CacheIsRow
  BY DEF IInv, Sound, CacheIsRow, CacheRepeatsRows
<1> QED
  BY <1>1, RevisionInit, RevisionStep, PTL DEF Spec

-----------------------------------------------------------------------------
(* What survives the statements that the database refuses *)

Known(v) == cache[v] # Unknown /\ rows[KeyOf(v)] # Unknown

RowsBehind == \A v \in Var : cache[v] # Unknown => rows[KeyOf(v)] <= cache[v]

\* An update that was refused keeps its bindings, which are of a variable of this process
\* and not behind its row.  Executing them costs the next number of another variable, so
\* no other variable may have used up its share of the refused statements.
Owed ==
    pending # Ready =>
        /\ \E w \in Var :
              /\ pending[1] = KeyOf(w)
              /\ rows[KeyOf(w)] <= pending[2]
              /\ pending[2] <= cache[w]
              /\ cache[w] - pending[2] < faults
        /\ \A v \in Var : KeyOf(v) # pending[1] /\ Known(v)
              => cache[v] - rows[KeyOf(v)] < faults

LInv == TypeOK /\ RowsBehind /\ LagBounded /\ Owed

\* The numbers of the specification are integers.
LEMMA Numbers ==
    ASSUME TypeOK
    PROVE  /\ \A v \in Var : KeyOf(v) \in Key /\ cache[v] \in Int /\ cache[v] >= -1
           /\ \A k \in Key : rows[k] \in Int /\ rows[k] >= -1
           /\ faults \in Nat
           /\ pending # Ready => /\ pending \in Binding
                                 /\ pending[1] \in Key
                                 /\ pending[2] \in 1..MaxRevision
<1>1. \A v \in Var : KeyOf(v) \in Key
  BY DEF TypeOK, KeyOf, Key
<1>2. \A n \in Stored : n \in Int /\ n >= -1
  BY RevisionAssumption DEF Stored, Unknown, RevisionAssumption
<1>3. pending # Ready => /\ pending \in Binding
                         /\ pending[1] \in Key
                         /\ pending[2] \in 1..MaxRevision
  BY DEF TypeOK, Binding, Revision
<1> QED
  BY <1>1, <1>2, <1>3, RevisionAssumption DEF TypeOK, RevisionAssumption

\* Variables differ in their keys.
LEMMA KeysDiffer ==
    ASSUME NEW v \in Var, NEW w \in Var
    PROVE  KeyOf(v) = KeyOf(w) <=> v = w
BY DEF KeyOf

\* What check_revision leaves: the row is not behind where it was nor ahead of the
\* cached number, and the bounds hold for the variable that was checked.
LEMMA ChecksKeep ==
    ASSUME LInv, NEW v \in Var, NEW c, NEW row, NEW cost, Checks(v, c, row, cost)
    PROVE  /\ c \in 0..MaxRevision /\ row \in Stored /\ cost \in 0..1
           /\ rows[KeyOf(v)] <= row /\ row <= c
           /\ row # Unknown => c - row <= faults
           /\ pending # Ready /\ pending[1] # KeyOf(v) /\ row # Unknown
                => c - row < faults
           /\ pending # Ready /\ pending[1] = KeyOf(v)
                => row <= pending[2] /\ pending[2] <= c /\ c - pending[2] < faults
<1>1. c \in 0..MaxRevision /\ row \in Stored /\ cost \in 0..1 /\ KeyOf(v) \in Key
  BY ChecksTyped DEF LInv
<1>2. /\ cache[v] \in Int /\ rows[KeyOf(v)] \in Int /\ rows[KeyOf(v)] >= -1
      /\ faults \in Nat
      /\ pending # Ready => pending[2] \in 1..MaxRevision
  BY <1>1, Numbers DEF LInv
<1>3. pending # Ready => faults > 0
  <2> SUFFICES ASSUME pending # Ready PROVE faults > 0
    OBVIOUS
  <2>1. PICK w \in Var : pending[2] <= cache[w] /\ cache[w] - pending[2] < faults
    BY DEF LInv, Owed
  <2>2. cache[w] \in Int /\ pending[2] \in Int
    BY <1>2, Numbers DEF LInv
  <2> QED
    BY <1>2, <2>1, <2>2
<1>4. pending # Ready /\ pending[1] = KeyOf(v)
        => rows[KeyOf(v)] <= pending[2] /\ pending[2] <= cache[v]
           /\ cache[v] - pending[2] < faults
  BY KeysDiffer DEF LInv, Owed
<1>5. CASE Cached(v, c, row, cost)
  BY <1>1, <1>2, <1>4, <1>5 DEF Cached, LInv, RowsBehind, LagBounded, Owed, Known
<1>6. CASE Found(v, c, row, cost)
  BY <1>1, <1>2, <1>3, <1>4, <1>6 DEF Found, Unknown
<1>7. CASE Inserted(v, c, row, cost)
  BY <1>1, <1>2, <1>3, <1>4, <1>7 DEF Inserted, Unknown
<1> QED
  BY <1>1, <1>5, <1>6, <1>7 DEF Checks

LEMMA LagInit == Init => LInv
BY TypeInit DEF Init, LInv, RowsBehind, LagBounded, Owed

LEMMA LagStep == LInv /\ [Next]_vars => LInv'
<1> SUFFICES ASSUME LInv, [Next]_vars PROVE LInv'
  OBVIOUS
<1>t. TypeOK /\ TypeOK'
  BY TypeStep DEF LInv
<1>n. /\ \A v \in Var : KeyOf(v) \in Key /\ cache[v] \in Int /\ cache[v] >= -1
      /\ \A k \in Key : rows[k] \in Int /\ rows[k] >= -1
      /\ faults \in Nat
      /\ pending # Ready => pending[1] \in Key /\ pending[2] \in 1..MaxRevision
  BY <1>t, Numbers
<1>i. RowsBehind /\ LagBounded /\ Owed
  BY DEF LInv
<1>1. ASSUME NEW v \in Var, GetRevision(v) PROVE LInv'
  <2> PICK c \in Stored, row \in Stored, cost \in 0..1 :
          /\ Checks(v, c, row, cost)
          /\ faults' = faults + cost
          /\ cache' = [cache EXCEPT ![v] = c]
          /\ rows' = [rows EXCEPT ![KeyOf(v)] = row]
          /\ UNCHANGED <<signature, pending, issued>>
    BY <1>1 DEF GetRevision
  <2>1. /\ c \in 0..MaxRevision
        /\ rows[KeyOf(v)] <= row /\ row <= c
        /\ row # Unknown => c - row <= faults
        /\ pending # Ready /\ pending[1] # KeyOf(v) /\ row # Unknown
             => c - row < faults
        /\ pending # Ready /\ pending[1] = KeyOf(v)
             => row <= pending[2] /\ pending[2] <= c /\ c - pending[2] < faults
    BY ChecksKeep
  <2>2. \A w \in Var : KeyOf(w)' = KeyOf(w)
    BY DEF KeyOf
  <2>3. cache'[v] = c /\ rows'[KeyOf(v)] = row
    BY <1>n, <1>t DEF TypeOK
  <2>4. \A w \in Var \ {v} : cache'[w] = cache[w] /\ rows'[KeyOf(w)] = rows[KeyOf(w)]
    BY <1>n, <1>t, KeysDiffer DEF TypeOK
  <2>5. RowsBehind'
    BY <2>1, <2>2, <2>3, <2>4, <1>i DEF RowsBehind
  <2>6. faults' \in Nat /\ faults <= faults'
    BY <1>n
  <2>7. LagBounded'
    BY <2>1, <2>2, <2>3, <2>4, <2>6, <1>i, <1>n DEF LagBounded
  <2>8. Owed'
    <3> SUFFICES ASSUME pending # Ready
                 PROVE  /\ \E w \in Var : /\ pending[1] = KeyOf(w)
                                          /\ rows'[KeyOf(w)] <= pending[2]
                                          /\ pending[2] <= cache'[w]
                                          /\ cache'[w] - pending[2] < faults'
                        /\ \A w \in Var :
                             KeyOf(w) # pending[1] /\ cache'[w] # Unknown
                               /\ rows'[KeyOf(w)] # Unknown
                                 => cache'[w] - rows'[KeyOf(w)] < faults'
      BY <2>2 DEF Owed, Known
    <3>1. PICK w \in Var : /\ pending[1] = KeyOf(w)
                           /\ rows[KeyOf(w)] <= pending[2]
                           /\ pending[2] <= cache[w]
                           /\ cache[w] - pending[2] < faults
      BY <1>i DEF Owed
    <3>2. /\ rows'[KeyOf(w)] <= pending[2]
          /\ pending[2] <= cache'[w]
          /\ cache'[w] - pending[2] < faults'
      <4>1. CASE w = v
        BY <3>1, <4>1, <2>1, <2>3, <2>6, <1>n
      <4>2. CASE w # v
        BY <3>1, <4>2, <2>4, <2>6, <1>n
      <4> QED
        BY <4>1, <4>2
    <3>3. ASSUME NEW x \in Var, KeyOf(x) # pending[1],
                 cache'[x] # Unknown, rows'[KeyOf(x)] # Unknown
          PROVE  cache'[x] - rows'[KeyOf(x)] < faults'
      <4>1. CASE x = v
        BY <3>3, <4>1, <2>1, <2>3, <2>6, <1>n
      <4>2. CASE x # v
        BY <3>3, <4>2, <2>4, <2>6, <1>n, <1>i DEF Owed, Known
      <4> QED
        BY <4>1, <4>2
    <3> QED
      BY <3>1, <3>2, <3>3
  <2> QED
    BY <1>t, <2>5, <2>7, <2>8 DEF LInv
<1>2. ASSUME NEW v \in Var, CheckFails(v) PROVE LInv'
  <2>1. /\ UNCHANGED <<signature, cache, rows, pending>>
        /\ faults' = faults + 1
    BY <1>2 DEF CheckFails
  <2>2. \A w \in Var : KeyOf(w)' = KeyOf(w)
    BY <2>1 DEF KeyOf
  <2>3. RowsBehind'
    BY <2>1, <2>2, <1>i DEF RowsBehind
  <2>4. LagBounded'
    BY <2>1, <2>2, <1>n, <1>i DEF LagBounded
  <2>5. Owed'
    <3> SUFFICES ASSUME pending # Ready
                 PROVE  /\ \E w \in Var : /\ pending[1] = KeyOf(w)
                                          /\ rows[KeyOf(w)] <= pending[2]
                                          /\ pending[2] <= cache[w]
                                          /\ cache[w] - pending[2] < faults'
                        /\ \A w \in Var : KeyOf(w) # pending[1] /\ Known(w)
                               => cache[w] - rows[KeyOf(w)] < faults'
      BY <2>1, <2>2 DEF Owed, Known
    <3>1. PICK w \in Var : /\ pending[1] = KeyOf(w)
                           /\ rows[KeyOf(w)] <= pending[2]
                           /\ pending[2] <= cache[w]
                           /\ cache[w] - pending[2] < faults
      BY <1>i DEF Owed
    <3>2. cache[w] - pending[2] < faults'
      BY <3>1, <2>1, <1>n
    <3>3. ASSUME NEW x \in Var, KeyOf(x) # pending[1], Known(x)
          PROVE  cache[x] - rows[KeyOf(x)] < faults'
      <4>1. cache[x] - rows[KeyOf(x)] < faults
        BY <3>3, <1>i DEF Owed
      <4> QED
        BY <4>1, <2>1, <1>n
    <3> QED
      BY <3>1, <3>2, <3>3
  <2> QED
    BY <1>t, <2>3, <2>4, <2>5 DEF LInv
<1>3. ASSUME NEW v \in Var, IncRevision(v) PROVE LInv'
  <2> PICK c \in Stored, row \in Stored, cost \in 0..1 :
          /\ Checks(v, c, row, cost)
          /\ c < MaxRevision
          /\ faults' = faults + cost
          /\ cache' = [cache EXCEPT ![v] = c + 1]
          /\ rows' = Updated(KeyOf(v), row, Bound(v, c + 1))
          /\ pending' = Ready
          /\ UNCHANGED signature
    BY <1>3 DEF IncRevision
  <2>1. /\ c \in 0..MaxRevision
        /\ rows[KeyOf(v)] <= row /\ row <= c
        /\ row # Unknown => c - row <= faults
        /\ pending # Ready /\ pending[1] # KeyOf(v) /\ row # Unknown
             => c - row < faults
        /\ pending # Ready /\ pending[1] = KeyOf(v)
             => row <= pending[2] /\ pending[2] <= c /\ c - pending[2] < faults
    BY ChecksKeep
  <2>2. \A w \in Var : KeyOf(w)' = KeyOf(w)
    BY DEF KeyOf
  <2>3. cache'[v] = c + 1 /\ \A w \in Var \ {v} : cache'[w] = cache[w]
    BY <1>t DEF TypeOK
  <2>4. faults' \in Nat /\ faults <= faults' /\ row \in Int /\ c \in Int
    BY <1>n, <2>1 DEF Stored, Unknown
  <2>5. Owed'
    BY DEF Owed
  <2>6. CASE pending = Ready
    <3>1. Bound(v, c + 1) = <<KeyOf(v), c + 1>>
      BY <2>6 DEF Bound
    <3> DEFINE table == [rows EXCEPT ![KeyOf(v)] = row]
    <3>2. rows' = IF table[KeyOf(v)] = Unknown THEN table
                  ELSE [table EXCEPT ![KeyOf(v)] = c + 1]
      <4> DEFINE u == <<KeyOf(v), c + 1>>
      <4>1. u[1] = KeyOf(v) /\ u[2] = c + 1
        OBVIOUS
      <4>2. rows' = IF table[u[1]] = Unknown THEN table
                    ELSE [table EXCEPT ![u[1]] = u[2]]
        BY <3>1 DEF Updated
      <4> HIDE DEF u, table
      <4> QED
        BY <4>1, <4>2
    <3>3. /\ rows'[KeyOf(v)] = IF row = Unknown THEN row ELSE c + 1
          /\ \A w \in Var \ {v} : rows'[KeyOf(w)] = rows[KeyOf(w)]
      BY <3>2, <1>n, <1>t, KeysDiffer DEF TypeOK
    <3> HIDE DEF table
    <3>4. RowsBehind'
      BY <3>3, <2>1, <2>2, <2>3, <2>4, <1>i DEF RowsBehind
    <3>5. LagBounded'
      BY <3>3, <2>2, <2>3, <2>4, <1>i, <1>n DEF LagBounded
    <3> QED
      BY <1>t, <3>4, <3>5, <2>5 DEF LInv
  <2>7. CASE pending # Ready
    <3> PICK w \in Var : /\ pending[1] = KeyOf(w)
                         /\ rows[KeyOf(w)] <= pending[2]
                         /\ pending[2] <= cache[w]
                         /\ cache[w] - pending[2] < faults
      BY <2>7, <1>i DEF Owed
    <3>1. Bound(v, c + 1) = pending /\ pending[2] \in 1..MaxRevision
      BY <2>7, <1>n DEF Bound
    <3> DEFINE table == [rows EXCEPT ![KeyOf(v)] = row]
    <3>2. rows' = IF table[KeyOf(w)] = Unknown THEN table
                  ELSE [table EXCEPT ![KeyOf(w)] = pending[2]]
      BY <3>1 DEF Updated
    <3>3. ASSUME NEW x \in Var
          PROVE  /\ KeyOf(x) \in Key
                 /\ table[KeyOf(x)] = IF x = v THEN row ELSE rows[KeyOf(x)]
                 /\ rows'[KeyOf(x)] = IF x = w /\ table[KeyOf(w)] # Unknown
                                      THEN pending[2] ELSE table[KeyOf(x)]
      <4>1. KeyOf(x) \in Key /\ KeyOf(v) \in Key /\ KeyOf(w) \in Key
        BY <1>n
      <4>2. table \in [Key -> Stored]
        BY <4>1, <1>t DEF TypeOK
      <4>3. table[KeyOf(x)] = IF x = v THEN row ELSE rows[KeyOf(x)]
        BY <4>1, <1>t, KeysDiffer DEF TypeOK
      <4>4. rows'[KeyOf(x)] = IF x = w /\ table[KeyOf(w)] # Unknown
                              THEN pending[2] ELSE table[KeyOf(x)]
        BY <4>1, <4>2, <3>2, KeysDiffer
      <4> QED
        BY <4>1, <4>3, <4>4
    <3> HIDE DEF table
    <3>4. RowsBehind'
      <4> SUFFICES ASSUME NEW x \in Var, cache'[x] # Unknown
                   PROVE  rows'[KeyOf(x)] <= cache'[x]
        BY <2>2 DEF RowsBehind
      <4>1. CASE x = v /\ x = w
        BY <4>1, <3>1, <3>3, <2>1, <2>3, <2>4, <2>7, <1>n
      <4>2. CASE x = v /\ x # w
        BY <4>2, <3>3, <2>1, <2>3, <2>4
      <4>3. CASE x # v /\ x = w
        BY <4>3, <3>1, <3>3, <2>3, <1>n, <1>i DEF RowsBehind
      <4>4. CASE x # v /\ x # w
        BY <4>4, <3>3, <2>3, <1>i DEF RowsBehind
      <4> QED
        BY <4>1, <4>2, <4>3, <4>4
    <3>5. LagBounded'
      <4> SUFFICES ASSUME NEW x \in Var, cache'[x] # Unknown, rows'[KeyOf(x)] # Unknown
                   PROVE  cache'[x] - rows'[KeyOf(x)] <= faults'
        BY <2>2 DEF LagBounded
      <4>1. CASE x = v /\ x = w
        <5>1. rows'[KeyOf(x)] = pending[2]
          BY <4>1, <3>3
        <5>2. c - pending[2] < faults
          BY <4>1, <2>1, <2>7
        <5> QED
          BY <4>1, <5>1, <5>2, <3>1, <2>3, <2>4, <1>n
      <4>2. CASE x = v /\ x # w
        <5>1. rows'[KeyOf(x)] = row
          BY <4>2, <3>3
        <5>2. c - row < faults
          BY <4>2, <5>1, <2>1, <2>7, KeysDiffer
        <5> QED
          BY <4>2, <5>1, <5>2, <2>3, <2>4, <1>n
      <4>3. CASE x # v /\ x = w
        <5>1. rows'[KeyOf(x)] = pending[2]
          BY <4>3, <3>3
        <5> QED
          BY <4>3, <5>1, <3>1, <2>3, <2>4, <1>n
      <4>4. CASE x # v /\ x # w
        <5>1. rows'[KeyOf(x)] = rows[KeyOf(x)]
          BY <4>4, <3>3
        <5> QED
          BY <4>4, <5>1, <2>3, <2>4, <1>n, <1>i DEF LagBounded
      <4> QED
        BY <4>1, <4>2, <4>3, <4>4
    <3> QED
      BY <1>t, <3>4, <3>5, <2>5 DEF LInv
  <2> QED
    BY <2>6, <2>7
<1>4. ASSUME NEW v \in Var, IncFails(v) PROVE LInv'
  <2> PICK c \in Stored, row \in Stored, cost \in 0..1 :
          /\ Checks(v, c, row, cost)
          /\ c < MaxRevision
          /\ faults' = faults + cost + 1
          /\ cache' = [cache EXCEPT ![v] = c + 1]
          /\ rows' = [rows EXCEPT ![KeyOf(v)] = row]
          /\ pending' = Bound(v, c + 1)
          /\ UNCHANGED signature
    BY <1>4 DEF IncFails
  <2>1. /\ c \in 0..MaxRevision
        /\ rows[KeyOf(v)] <= row /\ row <= c
        /\ row # Unknown => c - row <= faults
        /\ pending # Ready /\ pending[1] # KeyOf(v) /\ row # Unknown
             => c - row < faults
        /\ pending # Ready /\ pending[1] = KeyOf(v)
             => row <= pending[2] /\ pending[2] <= c /\ c - pending[2] < faults
    BY ChecksKeep
  <2>2. \A w \in Var : KeyOf(w)' = KeyOf(w)
    BY DEF KeyOf
  <2>3. cache'[v] = c + 1 /\ rows'[KeyOf(v)] = row
    BY <1>n, <1>t DEF TypeOK
  <2>4. \A w \in Var \ {v} : cache'[w] = cache[w] /\ rows'[KeyOf(w)] = rows[KeyOf(w)]
    BY <1>n, <1>t, KeysDiffer DEF TypeOK
  <2>5. faults' \in Nat /\ faults < faults' /\ row \in Int /\ c \in Int
    BY <1>n, <2>1 DEF Stored, Unknown
  <2>6. RowsBehind'
    BY <2>1, <2>2, <2>3, <2>4, <2>5, <1>i DEF RowsBehind
  <2>7. \A w \in Var : cache'[w] # Unknown /\ rows'[KeyOf(w)] # Unknown
            => cache'[w] - rows'[KeyOf(w)] <= faults'
    BY <2>1, <2>3, <2>4, <2>5, <1>i, <1>n DEF LagBounded
  <2>8. LagBounded'
    BY <2>2, <2>7 DEF LagBounded
  <2>9. Owed'
    <3>1. CASE pending = Ready
      <4>1. pending' = <<KeyOf(v), c + 1>>
        BY <3>1 DEF Bound
      <4>2. /\ pending'[1] = KeyOf(v) /\ pending'[2] = c + 1
        BY <4>1
      <4>3. /\ rows'[KeyOf(v)] <= c + 1
            /\ c + 1 <= cache'[v]
            /\ cache'[v] - (c + 1) < faults'
        BY <2>1, <2>3, <2>5, <1>n
      <4>4. ASSUME NEW x \in Var, KeyOf(x) # KeyOf(v),
                   cache'[x] # Unknown, rows'[KeyOf(x)] # Unknown
            PROVE  cache'[x] - rows'[KeyOf(x)] < faults'
        BY <4>4, <2>4, <2>5, <1>i, <1>n DEF LagBounded
      <4> QED
        BY <4>2, <4>3, <4>4, <2>2 DEF Owed, Known
    <3>2. CASE pending # Ready
      <4>1. pending' = pending
        BY <3>2 DEF Bound
      <4> PICK w \in Var : /\ pending[1] = KeyOf(w)
                           /\ rows[KeyOf(w)] <= pending[2]
                           /\ pending[2] <= cache[w]
                           /\ cache[w] - pending[2] < faults
        BY <3>2, <1>i DEF Owed
      <4>2. pending[2] \in Int
        BY <3>2, <1>n
      <4>3. /\ rows'[KeyOf(w)] <= pending[2]
            /\ pending[2] <= cache'[w]
            /\ cache'[w] - pending[2] < faults'
        <5>1. CASE w = v
          BY <3>2, <4>2, <5>1, <2>1, <2>3, <2>5, <1>n
        <5>2. CASE w # v
          BY <4>2, <5>2, <2>4, <2>5, <1>n
        <5> QED
          BY <5>1, <5>2
      <4>4. ASSUME NEW x \in Var, KeyOf(x) # pending[1],
                   cache'[x] # Unknown, rows'[KeyOf(x)] # Unknown
            PROVE  cache'[x] - rows'[KeyOf(x)] < faults'
        <5>1. CASE x = v
          BY <3>2, <4>4, <5>1, <2>1, <2>3, <2>5, <1>n
        <5>2. CASE x # v
          <6>1. cache[x] - rows[KeyOf(x)] < faults
            BY <3>2, <4>4, <5>2, <2>4, <1>i DEF Owed, Known
          <6> QED
            BY <5>2, <6>1, <2>4, <2>5, <1>n
        <5> QED
          BY <5>1, <5>2
      <4> QED
        BY <4>1, <4>3, <4>4, <2>2 DEF Owed, Known
    <3> QED
      BY <3>1, <3>2
  <2> QED
    BY <1>t, <2>6, <2>8, <2>9 DEF LInv
<1>5. ASSUME NEW s \in Signature, Constructed(s) PROVE LInv'
  <2>1. \A v \in Var : cache'[v] = Unknown
    BY <1>5 DEF Constructed
  <2> QED
    BY <1>5, <1>t, <2>1 DEF Constructed, LInv, RowsBehind, LagBounded, Owed
<1>6. CASE Restart
  BY <1>5, <1>6 DEF Restart
<1>7. ASSUME NEW v \in Var, CrashAfterUpdate(v) PROVE LInv'
  BY <1>5, <1>7 DEF CrashAfterUpdate
<1>8. CASE UNCHANGED vars
  BY <1>8, <1>t DEF vars, LInv, RowsBehind, LagBounded, Owed, Known, KeyOf
<1> QED
  BY <1>1, <1>2, <1>3, <1>4, <1>6, <1>7, <1>8 DEF Next

\* A row that exists is behind the cached number by no more than the number of refused
\* statements, which bounds what the next process can repeat.
THEOREM LagIsBounded == Spec => []LagBounded
<1>1. LInv => LagBounded
  BY DEF LInv
<1> QED
  BY <1>1, LagInit, LagStep, PTL DEF Spec

-----------------------------------------------------------------------------
\* The table after an update, whatever the statement was bound to.
LEMMA UpdateForward ==
    ASSUME LInv, NEW v \in Var, NEW c, NEW row, NEW cost, Checks(v, c, row, cost),
           c < MaxRevision, NEW k \in Key
    PROVE  rows[k] <= Updated(KeyOf(v), row, Bound(v, c + 1))[k]
<1> DEFINE u == Bound(v, c + 1)
           table == [rows EXCEPT ![KeyOf(v)] = row]
<1>1. /\ c \in 0..MaxRevision /\ row \in Stored
      /\ rows[KeyOf(v)] <= row /\ row <= c
      /\ pending # Ready /\ pending[1] = KeyOf(v) => row <= pending[2]
  BY ChecksKeep
<1>2. /\ KeyOf(v) \in Key
      /\ rows \in [Key -> Stored] /\ \A j \in Key : rows[j] \in Int
      /\ row \in Int
  BY <1>1, Numbers, RevisionAssumption
     DEF LInv, TypeOK, Stored, Unknown, RevisionAssumption
<1>3. \A j \in Key : table[j] = IF j = KeyOf(v) THEN row ELSE rows[j]
  BY <1>2
<1>4. u[1] \in Key /\ u[2] \in Int /\ table[u[1]] <= u[2]
  <2>1. CASE pending = Ready
    BY <2>1, <1>1, <1>2 DEF Bound
  <2>2. CASE pending # Ready
    <3>1. u = pending /\ pending[1] \in Key /\ pending[2] \in Int
      BY <2>2, Numbers DEF Bound, LInv
    <3>2. rows[pending[1]] <= pending[2]
      BY <2>2 DEF LInv, Owed
    <3> QED
      BY <2>2, <3>1, <3>2, <1>1, <1>3
  <2> QED
    BY <2>1, <2>2
<1>5. rows[k] <= table[k]
  BY <1>1, <1>2, <1>3
<1>6. Updated(KeyOf(v), row, u)[k] = IF k = u[1] /\ table[u[1]] # Unknown
                                     THEN u[2] ELSE table[k]
  BY <1>2, <1>4 DEF Updated
<1> QED
  BY <1>2, <1>3, <1>4, <1>5, <1>6

\* Even with refused statements, whose bindings are executed by a later call, no number
\* in the table ever goes back.
THEOREM RowsGrow == Spec => RowsNeverGoBack
<1> DEFINE Forward == \A k \in Key : rows[k] <= rows'[k]
<1>1. LInv /\ [Next]_vars => [Forward]_vars
  <2> SUFFICES ASSUME LInv, Next PROVE Forward
    OBVIOUS
  <2>1. \A k \in Key : rows[k] \in Int
    BY Numbers DEF LInv
  <2>2. ASSUME rows' = rows PROVE Forward
    BY <2>1, <2>2
  <2>3. ASSUME NEW v \in Var, NEW c, NEW row, NEW cost, Checks(v, c, row, cost),
               rows' = [rows EXCEPT ![KeyOf(v)] = row]
        PROVE  Forward
    BY <2>1, <2>3, ChecksKeep, Numbers DEF LInv, TypeOK
  <2>4. ASSUME NEW v \in Var, GetRevision(v) PROVE Forward
    BY <2>3, <2>4 DEF GetRevision
  <2>5. ASSUME NEW v \in Var, CheckFails(v) PROVE Forward
    BY <2>2, <2>5 DEF CheckFails
  <2>6. ASSUME NEW v \in Var, IncRevision(v) PROVE Forward
    BY <2>6, UpdateForward DEF IncRevision
  <2>7. ASSUME NEW v \in Var, IncFails(v) PROVE Forward
    BY <2>3, <2>7 DEF IncFails
  <2>8. CASE Restart
    BY <2>2, <2>8 DEF Restart
  <2>9. ASSUME NEW v \in Var, CrashAfterUpdate(v) PROVE Forward
    BY <2>9, UpdateForward DEF CrashAfterUpdate
  <2> QED
    BY <2>4, <2>5, <2>6, <2>7, <2>8, <2>9 DEF Next
<1> QED
  BY <1>1, LagInit, LagStep, PTL DEF Spec, RowsNeverGoBack
=============================================================================
