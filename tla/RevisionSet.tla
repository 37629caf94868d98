----------------------------- MODULE RevisionSet -----------------------------
(***************************************************************************)
(* CMCCIRevisionSet: the last sequence number of every variable, cached in  *)
(* m_cache and kept in the table revision of an sqlite database, under the  *)
(* signature of the schema the server was started with.                    *)
(*                                                                         *)
(* The process may end at any moment, also between the write of a number    *)
(* and its use; what sqlite3_step has written survives that (the journal    *)
(* is left on).  The database may refuse a statement MaxFaults times (disk  *)
(* full, locked).  Losing power is left out: synchronous is OFF, which      *)
(* MCCIRevisionSet.cpp:149 calls a failure that needs intervention.         *)
(***************************************************************************)
EXTENDS Integers

CONSTANTS
    Var,            \* variable identifiers
    Signature,      \* schema signatures
    MaxRevision,    \* bound on the sequence numbers
    MaxFaults       \* bound on the statements the database refuses

ASSUME RevisionAssumption ==
    /\ MaxRevision \in Nat \ {0}
    /\ MaxFaults \in Nat
    /\ Signature # {}

VARIABLES
    signature,  \* m_signature_id
    cache,      \* m_cache
    rows,       \* table revision, by signature and variable
    pending,    \* what m_update is bound to when it was stepped and not reset
    faults,     \* statements refused so far
    answer,     \* what the last call returned, or how it ended
    issued      \* history: how often inc_revision returned each number

vars == <<signature, cache, rows, pending, faults, answer, issued>>

Key == Signature \X Var
Revision == 1..MaxRevision

\* No entry in the cache, or no row in the table.
Unknown == -1
Stored == 0..MaxRevision \cup {Unknown}

\* m_update has been reset and takes new bindings.
Ready == <<>>
Binding == Key \X Revision

Threw == -2
NoAnswer == -3

KeyOf(v) == <<signature, v>>

-----------------------------------------------------------------------------
(* check_revision: c is cached afterwards, and row is in the table.  A refused       *)
(* insert goes unnoticed; a refused select throws.                                   *)

Cached(v, c, row, cost) ==
    cache[v] # Unknown /\ c = cache[v] /\ row = rows[KeyOf(v)] /\ cost = 0

FoundZero(v, c, row, cost) ==       \* Mutant of Found: the row's value is not read.
    /\ cache[v] = Unknown /\ rows[KeyOf(v)] # Unknown
    /\ c = 0 /\ row = rows[KeyOf(v)] /\ cost = 0

FoundReplaced(v, c, row, cost) ==   \* Mutant of Found: the row is inserted over.
    /\ cache[v] = Unknown /\ rows[KeyOf(v)] # Unknown
    /\ c = rows[KeyOf(v)] /\ row = 0 /\ cost = 0

Found(v, c, row, cost) ==
    /\ cache[v] = Unknown /\ rows[KeyOf(v)] # Unknown
    /\ c = rows[KeyOf(v)] /\ row = rows[KeyOf(v)] /\ cost = 0

InsertedUnset(v, c, row, cost) ==   \* Mutant of Inserted: the cache is not set.
    /\ cache[v] = Unknown /\ rows[KeyOf(v)] = Unknown
    /\ c = Unknown /\ row = 0 /\ cost = 0

Inserted(v, c, row, cost) ==
    /\ cache[v] = Unknown /\ rows[KeyOf(v)] = Unknown
    /\ c = 0
    /\ \/ row = 0 /\ cost = 0
       \/ row = Unknown /\ cost = 1

Checks(v, c, row, cost) ==
    Cached(v, c, row, cost) \/ Found(v, c, row, cost) \/ Inserted(v, c, row, cost)

CheckFails(v) ==
    /\ cache[v] = Unknown
    /\ faults < MaxFaults
    /\ faults' = faults + 1
    /\ answer' = Threw
    /\ UNCHANGED <<signature, cache, rows, pending, issued>>

GetRevision(v) ==
    \E c, row \in Stored, cost \in 0..1 :
        /\ Checks(v, c, row, cost)
        /\ faults + cost <= MaxFaults
        /\ faults' = faults + cost
        /\ cache' = [cache EXCEPT ![v] = c]
        /\ rows' = [rows EXCEPT ![KeyOf(v)] = row]
        /\ answer' = c
        /\ UNCHANGED <<signature, pending, issued>>

-----------------------------------------------------------------------------
(* inc_revision *)

\* Mutant of Bound: the number is bound before it is incremented.
BoundEarly(v, r) == IF pending = Ready THEN <<KeyOf(v), r - 1>> ELSE pending

\* What the next sqlite3_step of m_update executes: a statement that was not reset
\* refuses the new bindings and keeps the old ones.
Bound(v, r) == IF pending = Ready THEN <<KeyOf(v), r>> ELSE pending

UpdatedNot(k, row, u) == [rows EXCEPT ![k] = row]     \* Mutant of Updated.

\* update ... where: the table, of which the row of k is now row, after the statement
\* u; without the row nothing is updated, and no error is reported.
Updated(k, row, u) ==
    LET table == [rows EXCEPT ![k] = row]
    IN  IF table[u[1]] = Unknown THEN table ELSE [table EXCEPT ![u[1]] = u[2]]

IncRevision(v) ==
    \E c, row \in Stored, cost \in 0..1 :
        /\ Checks(v, c, row, cost)
        /\ c < MaxRevision
        /\ faults + cost <= MaxFaults
        /\ faults' = faults + cost
        /\ cache' = [cache EXCEPT ![v] = c + 1]
        /\ rows' = Updated(KeyOf(v), row, Bound(v, c + 1))
        /\ pending' = Ready
        /\ answer' = c + 1
        /\ issued' = [issued EXCEPT ![<<KeyOf(v), c + 1>>] = @ + 1]
        /\ UNCHANGED signature

\* The update is refused: the number is gone from memory's point of view, and the
\* statement is left as it is.
IncFails(v) ==
    \E c, row \in Stored, cost \in 0..1 :
        /\ Checks(v, c, row, cost)
        /\ c < MaxRevision
        /\ faults + cost < MaxFaults
        /\ faults' = faults + cost + 1
        /\ cache' = [cache EXCEPT ![v] = c + 1]
        /\ rows' = [rows EXCEPT ![KeyOf(v)] = row]
        /\ pending' = Bound(v, c + 1)
        /\ answer' = Threw
        /\ UNCHANGED <<signature, issued>>

-----------------------------------------------------------------------------
(* The process ends, and another one is constructed on the same database *)

\* Mutant of Constructed: a set that is used again for another schema.
ConstructedStale(s) ==
    /\ signature' = s
    /\ UNCHANGED cache
    /\ pending' = Ready
    /\ answer' = NoAnswer

Constructed(s) ==
    /\ signature' = s
    /\ cache' = [v \in Var |-> Unknown]
    /\ pending' = Ready
    /\ answer' = NoAnswer

Restart ==
    /\ \E s \in Signature : Constructed(s)
    /\ UNCHANGED <<rows, faults, issued>>

\* It ends in inc_revision, after the update and before anybody sees the number.
CrashAfterUpdate(v) ==
    /\ \E c, row \in Stored :
          /\ Checks(v, c, row, 0)
          /\ c < MaxRevision
          /\ rows' = Updated(KeyOf(v), row, Bound(v, c + 1))
    /\ \E s \in Signature : Constructed(s)
    /\ UNCHANGED <<faults, issued>>

Init ==
    /\ signature \in Signature
    /\ cache = [v \in Var |-> Unknown]
    /\ rows = [k \in Key |-> Unknown]
    /\ pending = Ready
    /\ faults = 0
    /\ answer = NoAnswer
    /\ issued = [e \in Key \X Revision |-> 0]

Next ==
    \/ \E v \in Var : GetRevision(v)
    \/ \E v \in Var : CheckFails(v)
    \/ \E v \in Var : IncRevision(v)
    \/ \E v \in Var : IncFails(v)
    \/ Restart
    \/ \E v \in Var : CrashAfterUpdate(v)

Spec == Init /\ [][Next]_vars
-----------------------------------------------------------------------------
(* Properties *)

TypeOK ==
    /\ signature \in Signature
    /\ cache \in [Var -> Stored]
    /\ rows \in [Key -> Stored]
    /\ pending \in {Ready} \cup Binding
    /\ faults \in 0..MaxFaults
    /\ answer \in 0..MaxRevision \cup {Threw, NoAnswer}
    /\ issued \in [Key \X Revision -> Nat]

\* "assurance that revisions of variables created on a node do not produce duplicates"
\* (MCCIRevisionSet.h:12): inc_revision returns a number of a variable once, whatever
\* the number of processes and the moments they end.
NoDuplicates == \A e \in Key \X Revision : issued[e] <= 1

\* That is so as long as the database has refused no statement.
UniqueUnlessRefused == faults = 0 => NoDuplicates

\* The reason: a number is in the database before anybody is told about it.
Covered == \A k \in Key, r \in Revision : issued[<<k, r>>] > 0 => r <= rows[k]
WrittenAhead == faults = 0 => Covered

\* What get_revision says, which the server takes for the newest revision there is
\* (MCCIServer.cpp:274), is never behind a number that was issued, and so the next
\* number is greater than all before.
NeverBehind ==
    faults = 0 =>
        \A v \in Var, r \in Revision :
            cache[v] # Unknown /\ issued[<<KeyOf(v), r>>] > 0 => r <= cache[v]

\* As long as no statement is refused the cache repeats the table, also when the next
\* process serves another schema.
CacheIsRow ==
    faults = 0 => \A v \in Var : cache[v] \in {Unknown, rows[KeyOf(v)]}

\* Even if statements are refused, and numbers are written under the bindings of an
\* earlier call, the table never goes back.
RowsNeverGoBack == [][\A k \in Key : rows[k] <= rows'[k]]_vars

\* What refused updates cost: the row of a variable is behind the numbers handed out by
\* no more than the number of refused statements, which bounds how many numbers the next
\* process can repeat.  (A refused insert is worse: there is no row.)
LagBounded ==
    \A v \in Var :
        cache[v] # Unknown /\ rows[KeyOf(v)] # Unknown
            => cache[v] - rows[KeyOf(v)] <= faults
=============================================================================
