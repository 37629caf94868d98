----------------------------- MODULE LinearHash -----------------------------
(***************************************************************************)
(* LinearHash.h: an array of ordered maps (buckets), a key k in bucket      *)
(* k % m_size.  A hash is a function from 0..(m_size - 1) to maps, a map a  *)
(* function from its keys.  Keys are natural numbers.                      *)
(***************************************************************************)
EXTENDS Integers, FiniteSets, Sequences, SequencesExt

\* resize, destructively, to a size above 0 (it throws on 0).
Sized(size) == [i \in 0..(size - 1) |-> [k \in {} |-> 0]]

\* The hash of the default constructor.
NewHash == Sized(1)

Primes == <<1, 2, 3, 7, 13, 31, 61, 127, 251, 509, 1021, 2039, 4093, 8191, 16381,
            32749, 65521>>

\* resize_nearest_prime: the last prime that is not above the desired size, among all
\* but the last of the table.
NearestPrime(desired) ==
    IF desired < 2 THEN 1
    ELSE Max({p \in ToSet(Front(Primes)) : p <= desired})

\* The keys of an ordered map in their order.
Ascending(keys) ==
    CHOOSE s \in [1..Cardinality(keys) -> keys] :
        \A i, j \in 1..Cardinality(keys) : i < j => s[i] < s[j]

Size(hash) == Cardinality(DOMAIN hash)
Slot(hash, k) == k % Size(hash)

HasKey(hash, k) == k \in DOMAIN hash[Slot(hash, k)]
At(hash, k) == hash[Slot(hash, k)][k]

\* insert, and assignment to operator[]: the key may be new or not.
Put(hash, k, data) ==
    [hash EXCEPT ![Slot(hash, k)] =
        [j \in DOMAIN @ \cup {k} |-> IF j = k THEN data ELSE @[j]]]

Erase(hash, k) ==
    [hash EXCEPT ![Slot(hash, k)] = [j \in DOMAIN @ \ {k} |-> @[j]]]

Keys(hash) == UNION {DOMAIN hash[i] : i \in DOMAIN hash}
IsEmpty(hash) == \A i \in DOMAIN hash : DOMAIN hash[i] = {}

-----------------------------------------------------------------------------
(* The iterator: a bucket and a position in a map, its end being PastLast. *)

PastLast == -1

\* end(): the bucket after the last one, with the end of the last map.
End(hash) == [idx |-> Size(hash), map |-> Size(hash) - 1, key |-> PastLast]

\* The first key of the next bucket that has one, or end().
FirstFrom(hash, i) ==
    LET vacant(j) == DOMAIN hash[j] = {}
        next == {j \in DOMAIN hash : j >= i /\ ~vacant(j)}
    IN  IF next = {} THEN End(hash)
        ELSE [idx |-> Min(next), map |-> Min(next), key |-> Min(DOMAIN hash[Min(next)])]

Begin(hash) == FirstFrom(hash, 0)

\* Mutant of Advance: the other keys of a bucket are passed over.
AdvanceBucket(hash, it) == FirstFrom(hash, it.idx + 1)

\* operator++
Advance(hash, it) ==
    LET later == {k \in DOMAIN hash[it.idx] : k > it.key}
    IN  IF later # {} THEN [it EXCEPT !.key = Min(later)]
        ELSE FirstFrom(hash, it.idx + 1)

\* A turn of for (it = begin(); it != end(); ++it).
VisitTurn(hash, a) ==
    IF a.it = End(hash) THEN a
    ELSE [it |-> Advance(hash, a.it), seen |-> Append(a.seen, a.it.key)]

\* The keys that the loop visits, in order.  The bound on the turns is one more than it
\* can take.
Visits(hash) ==
    FoldLeft(LAMBDA a, i : VisitTurn(hash, a), [it |-> Begin(hash), seen |-> <<>>],
             [i \in 1..(Cardinality(Keys(hash)) + 1) |-> i]).seen
=============================================================================
