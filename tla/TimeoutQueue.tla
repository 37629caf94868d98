---------------------------- MODULE TimeoutQueue ----------------------------
(***************************************************************************)
(* What RequestBank expects of the structure that holds its timeouts       *)
(* (member m_timeouts of MCCIRequestBank.h): a set of entries, each with a  *)
(* timeout.  One action for each call, with what the call refuses to do.   *)
(* FibonacciHeap implements this call by call as long as no entry is       *)
(* raised to a later timeout; a raise is the step after which nothing is   *)
(* promised.                                                               *)
(***************************************************************************)
EXTENDS Integers

CONSTANTS
    Node,       \* handles of entries (FibonacciHeapNode pointers)
    MaxTime     \* timeouts are 0..MaxTime

VARIABLES
    due,        \* the entries in the queue, each with its timeout
    intact      \* FALSE once an entry has been raised to a later timeout

vars == <<due, intact>>

Time == 0..MaxTime

\* Every function from a set of handles to timeouts: the possible queues.
Queues == UNION {[N -> Time] : N \in SUBSET Node}

TypeOK ==
    /\ due \in Queues
    /\ intact \in BOOLEAN

Init ==
    /\ due = [n \in {} |-> 0]
    /\ intact = TRUE

Without(n) == [m \in DOMAIN due \ {n} |-> due[m]]

\* A new entry.
Insert(n, t) ==
    /\ intact
    /\ n \notin DOMAIN due
    /\ due' = [m \in DOMAIN due \cup {n} |-> IF m = n THEN t ELSE due[m]]
    /\ UNCHANGED intact

\* The entry that expires first is taken, one of them if there are several; an empty queue
\* refuses.
RemoveMinimum ==
    /\ intact
    /\ IF DOMAIN due = {} THEN UNCHANGED due
       ELSE \E n \in DOMAIN due : /\ \A m \in DOMAIN due : due[n] <= due[m]
                                  /\ due' = Without(n)
    /\ UNCHANGED intact

\* This entry is taken out, and no other; a queue with a timeout that is not above the
\* sentinel 0 refuses.
Remove(n) ==
    /\ intact
    /\ n \in DOMAIN due
    /\ due' = IF \A m \in DOMAIN due : due[m] > 0 THEN Without(n) ELSE due
    /\ UNCHANGED intact

\* An entry expires sooner than before, or as before.
Lower(n, t) ==
    /\ intact
    /\ n \in DOMAIN due
    /\ t <= due[n]
    /\ due' = [due EXCEPT ![n] = t]
    /\ UNCHANGED intact

\* An entry is to expire later than before: from then on nothing is promised.  An entry with
\* the timeout 0 is refused.
Raise(n, t) ==
    /\ intact
    /\ n \in DOMAIN due
    /\ t > due[n]
    /\ IF due[n] = 0 THEN UNCHANGED vars ELSE intact' = FALSE /\ due' \in Queues

\* Nothing is promised any more.
Adrift ==
    /\ ~intact
    /\ intact' = FALSE
    /\ due' \in Queues

Next ==
    \/ \E n \in Node, t \in Time : Insert(n, t) \/ Lower(n, t) \/ Raise(n, t)
    \/ RemoveMinimum
    \/ \E n \in Node : Remove(n)
    \/ Adrift

Spec == Init /\ [][Next]_vars
=============================================================================
