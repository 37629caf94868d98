------------------------ MODULE MCCIServerMain_proofs ------------------------
(***************************************************************************)
(* The start of the program, for any tables and rows and any number of      *)
(* processes: what its state holds, what the lookups of a loaded schema     *)
(* find and what its hash stands for, and that the servers of a schema, and *)
(* no others, go on with the revisions of one signature_id.                 *)
(***************************************************************************)
EXTENDS MCCIServerMain, FiniteSetTheorems, TLAPS

-----------------------------------------------------------------------------
(* Numbers in order, and hashes *)

keepsNothing(c, i, a) == TRUE
turnNothing(c, a, x) == a
Number == INSTANCE FoldInduction WITH turn <- turnNothing, keeps <- keepsNothing

\* A finite set of numbers has an enumeration in order.
IsAscending(s, S) ==
    /\ s \in [1..Cardinality(S) -> S]
    /\ \A i, j \in 1..Cardinality(S) : i < j => s[i] < s[j]

LEMMA AscendingExists ==
    ASSUME NEW n \in Nat
    PROVE  \A S \in SUBSET Nat : IsFiniteSet(S) /\ Cardinality(S) = n
               => \E s : IsAscending(s, S)
<1> DEFINE unordered == {m \in Nat : \E S \in SUBSET Nat : /\ IsFiniteSet(S) /\ Cardinality(S) = m
                                                       /\ ~\E s : IsAscending(s, S)}
<1>1. SUFFICES ASSUME unordered # {} PROVE FALSE
  OBVIOUS
<1>2. PICK m \in unordered : \A k \in unordered : m <= k
  <2>1. unordered \in SUBSET Nat
    OBVIOUS
  <2> HIDE DEF unordered
  <2> QED
    BY <1>1, <2>1, Number!LeastNumber
<1>3. PICK S \in SUBSET Nat : /\ IsFiniteSet(S) /\ Cardinality(S) = m
                              /\ ~\E s : IsAscending(s, S)
  BY <1>2
<1>4. CASE m = 0
  <2>1. [i \in 1..0 |-> i] \in [1..Cardinality(S) -> S]
    BY <1>3, <1>4
  <2>2. IsAscending([i \in 1..0 |-> i], S)
    BY <1>3, <1>4, <2>1 DEF IsAscending
  <2> QED
    BY <1>3, <2>2
<1>5. CASE m # 0
  <2>1. S # {}
    BY <1>3, <1>5, FS_EmptySet
  <2>2. PICK x \in S : \A y \in S : x <= y
    BY <2>1, Number!LeastNumber
  <2>3. /\ IsFiniteSet(S \ {x}) /\ Cardinality(S \ {x}) = m - 1
        /\ m - 1 \in Nat /\ S \ {x} \in SUBSET Nat
    <3>1. IsFiniteSet(S \ {x}) /\ Cardinality(S \ {x}) = Cardinality(S) - 1
      BY <1>3, FS_RemoveElement
    <3> QED
      BY <1>2, <1>3, <1>5, <3>1
  <2>4. m - 1 \notin unordered
    BY <1>2, <2>3
  <2>5. PICK t : IsAscending(t, S \ {x})
    BY <2>3, <2>4
  <2>6. /\ t \in [1..(m - 1) -> S \ {x}]
        /\ \A i, j \in 1..(m - 1) : i < j => t[i] < t[j]
    BY <2>3, <2>5 DEF IsAscending
  <2> DEFINE s == [i \in 1..m |-> IF i = 1 THEN x ELSE t[i - 1]]
  <2>7. s \in [1..m -> S]
    BY <2>6
  <2>8. ASSUME NEW i \in 1..m, NEW j \in 1..m, i < j PROVE s[i] < s[j]
    <3>1. s[j] = t[j - 1] /\ j - 1 \in 1..(m - 1)
      BY <2>8
    <3>2. t[j - 1] \in S \ {x}
      BY <2>6, <3>1
    <3>3. CASE i = 1
      <4>1. x <= t[j - 1] /\ x # t[j - 1] /\ x \in Nat /\ t[j - 1] \in Nat
        BY <2>2, <3>2
      <4> QED
        BY <3>1, <3>3, <4>1
    <3>4. CASE i # 1
      <4>1. s[i] = t[i - 1] /\ i - 1 \in 1..(m - 1) /\ i - 1 < j - 1
        BY <2>8, <3>4
      <4> QED
        BY <2>6, <3>1, <4>1
    <3> QED
      BY <3>3, <3>4
  <2>9. IsAscending(s, S)
    BY <1>3, <2>7, <2>8 DEF IsAscending
  <2> QED
    BY <1>3, <2>9
<1> QED
  BY <1>4, <1>5

\* Ascending(S) is one, and reaches every member.
LEMMA AscendingIs ==
    ASSUME NEW S \in SUBSET Nat, IsFiniteSet(S)
    PROVE  /\ Cardinality(S) \in Nat
           /\ Ascending(S) \in [1..Cardinality(S) -> S]
           /\ \A i, j \in 1..Cardinality(S) : i # j => Ascending(S)[i] # Ascending(S)[j]
           /\ \A x \in S : \E i \in 1..Cardinality(S) : Ascending(S)[i] = x
<1> DEFINE n == Cardinality(S)
           s == Ascending(S)
<1>1. n \in Nat
  BY FS_CardinalityType
<1>2. \E t : IsAscending(t, S)
  BY <1>1, AscendingExists
<1>3. IsAscending(s, S)
  BY <1>2 DEF IsAscending, Ascending
<1>4. ASSUME NEW i \in 1..n, NEW j \in 1..n, i # j PROVE s[i] # s[j]
  <2>1. s[i] \in Nat /\ s[j] \in Nat
    BY <1>3 DEF IsAscending
  <2>2. i < j \/ j < i
    BY <1>4
  <2> QED
    BY <1>3, <2>1, <2>2 DEF IsAscending
<1>5. s \in [1..n -> S]
  BY <1>3 DEF IsAscending
<1>6. ASSUME NEW x \in S, ~\E i \in 1..n : s[i] = x PROVE FALSE
  <2> DEFINE From == 1..n
             To == S \ {x}
  <2>1. s \in [From -> To]
    BY <1>5, <1>6
  <2>2. IsFiniteSet(To) /\ Cardinality(To) = n - 1
    BY FS_RemoveElement
  <2>3. IsFiniteSet(From) /\ Cardinality(From) = n
    BY <1>1, FS_Interval
  <2>4. Cardinality(To) < Cardinality(From)
    BY <1>1, <2>2, <2>3
  <2>5. \A i, j \in From : i # j => s[i] # s[j]
    BY <1>4
  <2> HIDE DEF s, From, To
  <2> QED
    BY <2>1, <2>2, <2>3, <2>4, <2>5, FS_PigeonHole
<1> QED
  BY <1>1, <1>4, <1>5, <1>6

\* What a hash is: keys are in the bucket they belong to.
IsHash(h) ==
    \E m \in Nat \ {0} :
        /\ DOMAIN h = 0..(m - 1)
        /\ \A b \in 0..(m - 1) : \A k \in DOMAIN h[b] : k \in Nat /\ k % m = b

LEMMA HashSize ==
    ASSUME NEW h, NEW m \in Nat \ {0}, DOMAIN h = 0..(m - 1)
    PROVE  Size(h) = m /\ \A k \in Nat : Slot(h, k) = k % m /\ k % m \in 0..(m - 1)
<1>1. Cardinality(0..(m - 1)) = m
  BY FS_Interval
<1> QED
  BY <1>1 DEF Size, Slot

LEMMA SizedIsHash ==
    ASSUME NEW m \in Nat \ {0}
    PROVE  IsHash(Sized(m)) /\ Keys(Sized(m)) = {}
BY DEF Sized, IsHash, Keys

\* A key is found where it belongs.
LEMMA KeysAreFound ==
    ASSUME NEW h, IsHash(h), NEW k \in Nat
    PROVE  k \in Keys(h) <=> HasKey(h, k)
<1>1. PICK m \in Nat \ {0} :
          /\ DOMAIN h = 0..(m - 1)
          /\ \A b \in 0..(m - 1) : \A j \in DOMAIN h[b] : j \in Nat /\ j % m = b
  BY DEF IsHash
<1>2. Slot(h, k) = k % m /\ k % m \in 0..(m - 1)
  BY <1>1, HashSize
<1> QED
  BY <1>1, <1>2 DEF Keys, HasKey

\* Put is what a map does with one key, and nothing to the others.
LEMMA PutIs ==
    ASSUME NEW h, IsHash(h), NEW k \in Nat, NEW d
    PROVE  /\ IsHash(Put(h, k, d))
           /\ Keys(Put(h, k, d)) = Keys(h) \cup {k}
           /\ At(Put(h, k, d), k) = d
           /\ \A j \in Keys(h) \ {k} : At(Put(h, k, d), j) = At(h, j)
<1> DEFINE p == Put(h, k, d)
<1>1. PICK m \in Nat \ {0} :
          /\ DOMAIN h = 0..(m - 1)
          /\ \A b \in 0..(m - 1) : \A j \in DOMAIN h[b] : j \in Nat /\ j % m = b
  BY DEF IsHash
<1>2. \A j \in Nat : Slot(h, j) = j % m /\ j % m \in 0..(m - 1)
  BY <1>1, HashSize
<1>3. /\ DOMAIN p = 0..(m - 1)
      /\ p[k % m] = [j \in DOMAIN h[k % m] \cup {k} |-> IF j = k THEN d ELSE h[k % m][j]]
      /\ \A b \in 0..(m - 1) : b # k % m => p[b] = h[b]
  BY <1>1, <1>2 DEF Put
<1>4. /\ DOMAIN p[k % m] = DOMAIN h[k % m] \cup {k}
      /\ p[k % m][k] = d
      /\ \A j \in DOMAIN h[k % m] : j # k => p[k % m][j] = h[k % m][j]
  BY <1>3
<1> HIDE DEF p
<1>5. IsHash(p)
  <2>1. ASSUME NEW b \in 0..(m - 1), NEW j \in DOMAIN p[b] PROVE j \in Nat /\ j % m = b
    BY <1>1, <1>3, <1>4
  <2> QED
    BY <1>3, <2>1 DEF IsHash
<1>6. \A j \in Nat : Slot(p, j) = j % m
  BY <1>3, HashSize
<1>7. Keys(p) = Keys(h) \cup {k}
  <2>1. ASSUME NEW b \in 0..(m - 1)
        PROVE  DOMAIN p[b] = IF b = k % m THEN DOMAIN h[b] \cup {k} ELSE DOMAIN h[b]
    BY <1>3, <1>4
  <2> QED
    <3>1. Keys(p) = UNION {DOMAIN p[b] : b \in 0..(m - 1)}
      BY <1>3 DEF Keys
    <3>2. Keys(h) = UNION {DOMAIN h[b] : b \in 0..(m - 1)}
      BY <1>1 DEF Keys
    <3>3. ASSUME NEW j
          PROVE  j \in Keys(p) <=> \E b \in 0..(m - 1) : j \in DOMAIN p[b]
      BY <3>1
    <3>4. ASSUME NEW j
          PROVE  j \in Keys(h) <=> \E b \in 0..(m - 1) : j \in DOMAIN h[b]
      BY <3>2
    <3> QED
      BY <1>2, <2>1, <3>3, <3>4
<1>8. At(p, k) = d
  BY <1>4, <1>6 DEF At
<1>9. ASSUME NEW j \in Keys(h) \ {k} PROVE At(p, j) = At(h, j)
  <2>1. j \in Nat /\ j \in DOMAIN h[j % m]
    BY <1>1 DEF Keys
  <2>2. At(p, j) = p[j % m][j] /\ At(h, j) = h[j % m][j]
    BY <1>2, <1>6, <2>1 DEF At
  <2> QED
    BY <1>2, <1>3, <1>4, <2>1, <2>2
<1> QED
  BY <1>5, <1>7, <1>8, <1>9 DEF p

\* The sizes resize_nearest_prime chooses are above 0.
LEMMA NearestPrimeIsASize ==
    ASSUME NEW desired \in Nat
    PROVE  NearestPrime(desired) \in Nat \ {0}
<1>1. CASE desired < 2
  BY <1>1 DEF NearestPrime
<1>2. CASE ~(desired < 2)
  <2>1. /\ \A p \in ToSet(Front(Primes)) : p \in Nat /\ p >= 1
        /\ 2 \in ToSet(Front(Primes))
    BY DEF ToSet, Front, Primes
  <2> DEFINE below == {p \in ToSet(Front(Primes)) : p <= desired}
  <2>2. below \in SUBSET (1..desired) /\ 2 \in below
    BY <1>2, <2>1
  <2>3. Number!Greatest(below) \in below
    <3>1. below # {}
      BY <2>2
    <3> HIDE DEF below
    <3> QED
      BY <2>2, <3>1, Number!GreatestNumber
  <2>4. Max(below) \in below
    BY <2>3 DEF Max, Number!Greatest
  <2>5. NearestPrime(desired) = Max(below)
    BY <1>2 DEF NearestPrime
  <2> HIDE DEF below
  <2>6. \A p \in below : p \in Nat \ {0}
    BY <2>2
  <2> QED
    BY <2>4, <2>5, <2>6
<1> QED
  BY <1>1, <1>2

-----------------------------------------------------------------------------
(* Loading a schema *)

\* The rows are those of the table, each once.
LEMMA RowsAre ==
    ASSUME NEW t \in Tables
    PROVE  /\ LoadCardinality(t) \in Nat
           /\ DOMAIN Rows(t) = 1..LoadCardinality(t)
           /\ \A i \in DOMAIN Rows(t) : /\ Rows(t)[i].id \in DOMAIN t
                                       /\ Rows(t)[i].row = t[Rows(t)[i].id]
                                       /\ Rows(t)[i].id \in Nat
           /\ \A i, j \in DOMAIN Rows(t) : i # j => Rows(t)[i].id # Rows(t)[j].id
           /\ \A id \in DOMAIN t : \E i \in DOMAIN Rows(t) : Rows(t)[i].id = id
<1>1. DOMAIN t \in SUBSET VarId
  BY DEF Tables
<1>2. DOMAIN t \in SUBSET Nat /\ IsFiniteSet(DOMAIN t)
  BY <1>1, SchemaAssumption, FS_Subset
<1> DEFINE ids == Ascending(DOMAIN t)
           n == Cardinality(DOMAIN t)
<1>3. /\ n \in Nat /\ ids \in [1..n -> DOMAIN t]
      /\ \A i, j \in 1..n : i # j => ids[i] # ids[j]
      /\ \A x \in DOMAIN t : \E i \in 1..n : ids[i] = x
  BY <1>2, AscendingIs
<1>4. DOMAIN ids = 1..n /\ \A i \in 1..n : ids[i] \in DOMAIN t
  BY <1>3
<1>5. Rows(t) = [i \in DOMAIN ids |-> [id |-> ids[i], row |-> t[ids[i]]]]
  BY DEF Rows
<1> HIDE DEF ids, n
<1>6. /\ DOMAIN Rows(t) = 1..n
      /\ \A i \in 1..n : Rows(t)[i].id = ids[i] /\ Rows(t)[i].row = t[ids[i]]
  BY <1>4, <1>5
<1>7. LoadCardinality(t) = n
  BY DEF LoadCardinality, n
<1> QED
  BY <1>2, <1>3, <1>4, <1>6, <1>7

\* The last row with an identifier, of the first n.
LastOf(rows, n, v, j) ==
    /\ j \in 1..n
    /\ Narrow(rows[j].id) = v
    /\ \A k \in 1..n : k > j => Narrow(rows[k].id) # v

\* A turn of load's loop, and what the loop keeps: the identifiers of the rows so far,
\* each with the position of its last row.
LoadTurn(rows, hash, i) == Put(hash, Narrow(rows[i].id), Ordinal(i))

LoadKeeps(rows, n, hash) ==
    /\ IsHash(hash)
    /\ Keys(hash) = {Narrow(rows[j].id) : j \in 1..n}
    /\ \A v \in Keys(hash) : \E j : LastOf(rows, n, v, j) /\ At(hash, v) = Ordinal(j)

LoadLoop == INSTANCE FoldInduction WITH turn <- LoadTurn, keeps <- LoadKeeps

LEMMA NarrowIsNumber ==
    ASSUME NEW id \in Nat
    PROVE  Narrow(id) \in 0..(VarRange - 1) /\ Narrow(id) \in Nat
BY SchemaAssumption DEF Narrow

LEMMA LoadTurnKeeps ==
    ASSUME NEW rows, NEW n \in Nat, NEW i \in 1..n, NEW hash,
           \A j \in 1..n : rows[j].id \in Nat,
           LoadKeeps(rows, i - 1, hash)
    PROVE  LoadKeeps(rows, i, LoadTurn(rows, hash, i))
<1> DEFINE v == Narrow(rows[i].id)
           next == Put(hash, v, Ordinal(i))
<1>1. v \in Nat
  BY NarrowIsNumber
<1>2. /\ IsHash(hash)
      /\ Keys(hash) = {Narrow(rows[j].id) : j \in 1..(i - 1)}
      /\ \A w \in Keys(hash) : \E j : LastOf(rows, i - 1, w, j) /\ At(hash, w) = Ordinal(j)
  BY DEF LoadKeeps
<1>3. /\ IsHash(next) /\ Keys(next) = Keys(hash) \cup {v}
      /\ At(next, v) = Ordinal(i)
      /\ \A w \in Keys(hash) \ {v} : At(next, w) = At(hash, w)
  <2> HIDE DEF v
  <2> QED
    BY <1>1, <1>2, PutIs
<1> HIDE DEF next
<1>4. 1..i = 1..(i - 1) \cup {i}
  OBVIOUS
<1>5. Keys(next) = {Narrow(rows[j].id) : j \in 1..i}
  BY <1>2, <1>3, <1>4
<1>6. ASSUME NEW w \in Keys(next)
      PROVE  \E j : LastOf(rows, i, w, j) /\ At(next, w) = Ordinal(j)
  <2>1. CASE w = v
    <3>1. LastOf(rows, i, v, i)
      BY DEF LastOf
    <3> QED
      BY <1>3, <2>1, <3>1
  <2>2. CASE w # v
    <3>1. w \in Keys(hash) \ {v}
      BY <1>3, <2>2
    <3>2. PICK j : LastOf(rows, i - 1, w, j) /\ At(hash, w) = Ordinal(j)
      BY <1>2, <3>1
    <3>3. LastOf(rows, i, w, j)
      BY <1>4, <2>2, <3>2 DEF LastOf
    <3> QED
      BY <1>3, <3>1, <3>2, <3>3
  <2> QED
    BY <2>1, <2>2
<1> QED
  BY <1>3, <1>5, <1>6 DEF LoadKeeps, LoadTurn, next

\* m_ordinality after load.
LEMMA OrdinalityIs ==
    ASSUME NEW t \in Tables, NEW size \in Nat
    PROVE  LoadKeeps(Rows(t), LoadCardinality(t), Load(t, size).ordinality)
<1> DEFINE rows == Rows(t)
           n == LoadCardinality(t)
           base == Sized(NearestPrime(size))
           seq == [i \in DOMAIN rows |-> i]
<1>1. n \in Nat /\ DOMAIN seq = 1..n /\ \A i \in 1..n : seq[i] = i
  BY RowsAre
<1>2. \A i \in 1..n : rows[i].id \in Nat
  BY RowsAre
<1>3. LoadKeeps(rows, 0, base)
  <2>1. IsHash(base) /\ Keys(base) = {}
    BY NearestPrimeIsASize, SizedIsHash
  <2> QED
    BY <2>1 DEF LoadKeeps
<1>4. Load(t, size).ordinality = LoadLoop!Loop(rows, base, seq)
  BY SMT DEF Load, LoadLoop!Loop, LoadTurn, FoldLeft, MapThenFoldSet, Max,
             LoadLoop!MapThenFoldSet, LoadLoop!Greatest
<1> HIDE DEF rows, n, base, seq
<1>5. \A i \in 1..n : \A a :
         LoadKeeps(rows, i - 1, a) => LoadKeeps(rows, i, LoadTurn(rows, a, seq[i]))
  BY <1>1, <1>2, LoadTurnKeeps
<1>6. LoadKeeps(rows, n, LoadLoop!Loop(rows, base, seq))
  <2> HIDE DEF LoadKeeps, LoadTurn
  <2> QED
    BY <1>1, <1>3, <1>5, LoadLoop!LoopKeeps
<1> QED
  BY <1>4, <1>6 DEF rows, n

\* What load leaves of a table that has no more rows than were counted, row by row.
LEMMA LoadedIs ==
    ASSUME NEW t \in Tables, NEW size \in Nat, LoadCardinality(t) <= size
    PROVE  LET s == Load(t, size)
               rows == Rows(t)
           IN  /\ GetCardinality(s) = size
               /\ s.variable \in [0..(size - 1) -> 0..(VarRange - 1)]
               /\ DOMAIN s.name = 0..(size - 1)
               /\ \A i \in DOMAIN rows : /\ Ordinal(i) \in DOMAIN s.name
                                        /\ s.variable[Ordinal(i)] = Narrow(rows[i].id)
                                        /\ s.name[Ordinal(i)] = rows[i].row.name
               /\ s.hashval = [i \in DOMAIN rows |-> Line(rows[i])]
<1> DEFINE s == Load(t, size)
           rows == Rows(t)
           n == LoadCardinality(t)
           ords == 0..(size - 1)
           at(ord) == CHOOSE i \in DOMAIN rows : Ordinal(i) = ord
           assigned(ord) == \E i \in DOMAIN rows : Ordinal(i) = ord
<1>1. /\ n \in Nat /\ DOMAIN rows = 1..n
      /\ \A i \in DOMAIN rows : rows[i].id \in Nat
  BY RowsAre
<1>2. /\ s.variable = [o \in ords |-> IF assigned(o) THEN Narrow(rows[at(o)].id) ELSE 0]
      /\ s.name = [o \in ords |-> IF assigned(o) THEN rows[at(o)].row.name ELSE NoName]
      /\ s.hashval = [i \in DOMAIN rows |-> Line(rows[i])]
  BY DEF Load
<1>3. ASSUME NEW i \in DOMAIN rows
      PROVE  Ordinal(i) \in ords /\ assigned(Ordinal(i)) /\ at(Ordinal(i)) = i
  BY <1>1 DEF Ordinal
<1>4. ASSUME NEW o \in ords, assigned(o) PROVE at(o) \in DOMAIN rows
  BY <1>4
<1> HIDE DEF s, rows, n, at, assigned
<1>5. s.variable \in [ords -> 0..(VarRange - 1)]
  <2>1. ASSUME NEW o \in ords
        PROVE  (IF assigned(o) THEN Narrow(rows[at(o)].id) ELSE 0) \in 0..(VarRange - 1)
    <3>1. CASE assigned(o)
      BY <1>1, <1>4, <3>1, NarrowIsNumber
    <3>2. CASE ~assigned(o)
      BY <3>2, SchemaAssumption
    <3> QED
      BY <3>1, <3>2
  <2> QED
    BY <1>2, <2>1
<1>6. GetCardinality(s) = size
  <2>1. DOMAIN s.name = ords
    BY <1>2
  <2>2. Cardinality(ords) = size
    BY FS_Interval
  <2> QED
    BY <2>1, <2>2 DEF GetCardinality
<1>7. ASSUME NEW i \in DOMAIN rows
      PROVE  /\ Ordinal(i) \in DOMAIN s.name
             /\ s.variable[Ordinal(i)] = Narrow(rows[i].id)
             /\ s.name[Ordinal(i)] = rows[i].row.name
  BY <1>2, <1>3
<1> QED
  BY <1>2, <1>5, <1>6, <1>7 DEF s, rows

-----------------------------------------------------------------------------
(* The machine *)

\* A schema is loaded only if its table had no more rows than were counted.
LEMMA LoadedFits ==
    ASSUME NEW t \in Tables, NEW size \in Nat,
           ~LoadOverruns(t, size), ~LoadThrows(t, size)
    PROVE  LoadCardinality(t) <= size
<1>1. LoadCardinality(t) \in Nat /\ DOMAIN Rows(t) = 1..LoadCardinality(t)
  BY RowsAre
<1>2. SUFFICES ASSUME LoadCardinality(t) > size PROVE FALSE
  BY <1>1
<1>3. PICK i \in 1..size : Rows(t)[i].row \in TooLong
  BY <1>2 DEF LoadOverruns
<1>4. i \in DOMAIN Rows(t)
  BY <1>1, <1>2
<1>5. Rows(t)[i].id \in DOMAIN t /\ t[Rows(t)[i].id] \in TooLong
  BY <1>3, <1>4, RowsAre
<1> QED
  BY <1>5 DEF LoadThrows

\* The schemas that were loaded, and what is known between counting and loading.
LoadsFit ==
    /\ pc = "load" /\ ~changed => counted = LoadCardinality(table)
    /\ \A load \in loads : /\ load.table \in Tables /\ load.counted \in Nat
                           /\ LoadCardinality(load.table) <= load.counted
                           /\ ~load.changed => load.counted = LoadCardinality(load.table)

\* Before loading there is no schema.
NoSchemaYet ==
    pc \in {"open schema", "open revisions", "count", "load"} => schema = NoSchema

\* The table signature is a sequence, of whatever has been inserted.
SignaturesAreRows == \E S : signatures \in Seq(S)

\* No signature is in it twice.
SignedOnce == \A i, j \in DOMAIN signatures : signatures[i] = signatures[j] => i = j

\* Between the insertion of a signature and the second lookup, it is in the table.
InsertedIsThere == pc = "look up" => schema.hashval \in ToSet(signatures)

\* The signature_id that was found is that of the schema.
SignedByHash ==
    pc = "serve" =>
        signatureId \in DOMAIN signatures /\ signatures[signatureId] = schema.hashval

\* A server's signature stays in the row it was found in.
ServedAreSigned ==
    \A s \in served : s.id \in DOMAIN signatures /\ signatures[s.id] = s.hashval

IInv ==
    /\ SignaturesAreRows
    /\ SignedOnce
    /\ InsertedIsThere
    /\ SignedByHash
    /\ ServedAreSigned

\* A signature that is in the table is found, with an id above 0.
LEMMA LookupFinds ==
    ASSUME SignaturesAreRows, NEW s, s \in ToSet(signatures),
           NEW id \in LookupSignatureId(s)
    PROVE  /\ id \in DOMAIN signatures /\ id # 0
           /\ signatures[id] = s
<1>1. \E found \in DOMAIN signatures : signatures[found] = s
  BY DEF ToSet
<1>2. id \in DOMAIN signatures /\ signatures[id] = s
  BY <1>1 DEF LookupSignatureId, Selected
<1>3. PICK S : signatures \in Seq(S)
  BY DEF SignaturesAreRows
<1>4. id \in 1..Len(signatures)
  BY <1>2, <1>3
<1> QED
  BY <1>2, <1>4

\* And one that is not in the table has the id 0.
LEMMA LookupMisses ==
    ASSUME SignaturesAreRows, NEW s, NEW id \in LookupSignatureId(s)
    PROVE  id # 0 <=> s \in ToSet(signatures)
<1>1. CASE s \in ToSet(signatures)
  BY <1>1, LookupFinds
<1>2. CASE s \notin ToSet(signatures)
  BY <1>2 DEF LookupSignatureId, Selected, ToSet
<1> QED
  BY <1>1, <1>2

LEMMA AppendKeeps ==
    ASSUME SignaturesAreRows, NEW s, signatures' = Append(signatures, s)
    PROVE  /\ SignaturesAreRows' /\ s \in ToSet(signatures')
           /\ \A id \in DOMAIN signatures :
                  id \in DOMAIN signatures' /\ signatures'[id] = signatures[id]
           /\ \A id \in DOMAIN signatures' : id \in DOMAIN signatures \/ signatures'[id] = s
           /\ s \notin ToSet(signatures) /\ SignedOnce => SignedOnce'
<1>1. PICK S : signatures \in Seq(S)
  BY DEF SignaturesAreRows
<1>2. signatures \in Seq(S \cup {s})
  BY <1>1
<1>3. signatures' \in Seq(S \cup {s})
  BY <1>2
<1>4. /\ Len(signatures) + 1 \in DOMAIN signatures'
      /\ signatures'[Len(signatures) + 1] = s
  BY <1>2
<1>5. /\ DOMAIN signatures = 1..Len(signatures) /\ Len(signatures) \in Nat
      /\ DOMAIN signatures' = 1..(Len(signatures) + 1)
      /\ \A id \in 1..Len(signatures) : signatures'[id] = signatures[id]
  BY <1>2
<1>6. \A id \in DOMAIN signatures' : id \in DOMAIN signatures \/ id = Len(signatures) + 1
  BY <1>5
<1>7. ASSUME s \notin ToSet(signatures), SignedOnce PROVE SignedOnce'
  <2>1. \A id \in DOMAIN signatures : signatures[id] # s
    BY <1>7 DEF ToSet
  <2> QED
    BY <1>4, <1>5, <1>6, <1>7, <2>1 DEF SignedOnce
<1> QED
  BY <1>3, <1>4, <1>5, <1>6, <1>7 DEF SignaturesAreRows, ToSet

TypeInv ==
    /\ TypeOK
    /\ NoSchemaYet
    /\ SignaturesAreRows
    /\ LoadsFit

LEMMA IdsAreFinite == Cardinality(VarId) \in Nat
BY SchemaAssumption, FS_CardinalityType

\* Rows that are counted are no more than there are identifiers.
LEMMA CountIsBounded ==
    ASSUME NEW t \in Tables
    PROVE  LoadCardinality(t) \in 0..Cardinality(VarId)
<1>1. DOMAIN t \in SUBSET VarId
  BY DEF Tables
<1>2. /\ Cardinality(VarId) \in Nat /\ Cardinality(DOMAIN t) \in Nat
      /\ Cardinality(DOMAIN t) <= Cardinality(VarId)
  <2>1. IsFiniteSet(VarId)
    BY SchemaAssumption
  <2> QED
    BY <1>1, <2>1, FS_Subset, FS_CardinalityType
<1> QED
  BY <1>2 DEF LoadCardinality

\* The rows of the table signature are numbered from 1.
LEMMA SignatureIds ==
    ASSUME SignaturesAreRows
    PROVE  Len(signatures) \in Nat /\ DOMAIN signatures = 1..Len(signatures)
<1>1. PICK S : signatures \in Seq(S)
  BY DEF SignaturesAreRows
<1> QED
  BY <1>1

LEMMA TypeInitial == Init => TypeInv
<1> SUFFICES ASSUME Init PROVE TypeInv
  OBVIOUS
<1>1. SignaturesAreRows
  <2>1. <<>> \in Seq({})
    OBVIOUS
  <2> QED
    BY <2>1 DEF Init, SignaturesAreRows
<1>2. Len(signatures) = 0
  BY DEF Init
<1>3. 0 \in 0..Cardinality(VarId) /\ 0 \in 0..MaxEdits /\ 1 \in 1..MaxStarts
  BY IdsAreFinite, MainAssumption
<1>4. NoSchemaYet /\ LoadsFit
  BY DEF Init, NoSchemaYet, LoadsFit
<1>5. signatureId \in 0..Len(signatures)
  <2>1. signatureId = 0
    BY DEF Init
  <2> QED
    BY <1>2, <2>1
<1>6. /\ counted \in 0..Cardinality(VarId)
      /\ edits \in 0..MaxEdits /\ starts \in 1..MaxStarts
  BY <1>3 DEF Init
<1>7. TypeOK
  <2>1. schema = NoSchema /\ table \in Tables /\ changed = FALSE
        /\ pc = "open schema" /\ schemaDb = "none" /\ rsDb = "none" /\ prepared = {}
    BY DEF Init
  <2> QED
    BY <1>5, <1>6, <2>1 DEF TypeOK
<1> QED
  BY <1>1, <1>4, <1>7 DEF TypeInv

LEMMA TypeParts ==
    ASSUME TypeInv
    PROVE  counted \in Nat /\ edits \in Nat /\ starts \in Nat /\ signatureId \in Nat
<1>1. counted \in 0..Cardinality(VarId) /\ edits \in 0..MaxEdits /\ starts \in 1..MaxStarts
      /\ signatureId \in 0..Len(signatures)
  BY DEF TypeInv, TypeOK
<1>2. Len(signatures) \in Nat
  BY SignatureIds DEF TypeInv
<1> QED
  BY <1>1, <1>2, IdsAreFinite, MainAssumption

LEMMA TypeStep == TypeInv /\ [Next]_vars => TypeInv'
<1> SUFFICES ASSUME TypeInv, [Next]_vars PROVE TypeInv'
  OBVIOUS
<1>1. ASSUME signatures' = signatures PROVE SignaturesAreRows'
  <2>1. SignaturesAreRows
    BY DEF TypeInv
  <2> QED
    BY <1>1, <2>1 DEF SignaturesAreRows
<1>2. CASE Edit
  <2>1. edits + 1 \in 0..MaxEdits
    BY <1>2, TypeParts, MainAssumption DEF Edit
  <2>2. changed' \in BOOLEAN /\ (pc = "load" => changed')
    BY <1>2 DEF Edit
  <2> QED
    BY <1>1, <1>2, <2>1, <2>2 DEF Edit, process, TypeInv, TypeOK, NoSchemaYet, LoadsFit
<1>3. CASE OpenSchema
  BY <1>1, <1>3 DEF OpenSchema, Closed, TypeInv, TypeOK, NoSchemaYet, LoadsFit
<1>4. CASE OpenRevisions
  BY <1>1, <1>4 DEF OpenRevisions, Closed, TypeInv, TypeOK, NoSchemaYet, LoadsFit
<1>5. CASE Caught
  BY <1>1, <1>5 DEF Caught, TypeInv, TypeOK, NoSchemaYet, LoadsFit
<1>6. CASE CountRows
  <2>1. counted' \in 0..Cardinality(VarId) /\ counted' = LoadCardinality(table)
    BY <1>6, CountIsBounded DEF CountRows, TypeInv, TypeOK
  <2> QED
    BY <1>1, <1>6, <2>1 DEF CountRows, TypeInv, TypeOK, NoSchemaYet, LoadsFit
<1>7. CASE LoadRows
  <2>1. counted \in Nat
    BY TypeParts
  <2>2. CASE pc' # "prepare"
    BY <1>1, <1>7, <2>2 DEF LoadRows, TypeInv, TypeOK, NoSchemaYet, LoadsFit
  <2>3. CASE pc' = "prepare"
    <3>2. /\ ~LoadOverruns(table, counted) /\ ~LoadThrows(table, counted)
          /\ pc = "load" /\ schema' = Load(table, counted)
          /\ loads' = loads \cup {[table |-> table, counted |-> counted,
                                   changed |-> changed]}
          /\ UNCHANGED <<table, signatures, schemaDb, rsDb, counted, prepared, signatureId,
                         edits, starts, changed>>
      BY <1>7, <2>3 DEF LoadRows
    <3>1. LoadCardinality(table) <= counted
      BY <2>1, <3>2, LoadedFits DEF TypeInv, TypeOK
    <3>3. /\ schema'.variable \in [0..(counted - 1) -> 0..(VarRange - 1)]
          /\ DOMAIN schema'.name = 0..(counted - 1)
      BY <2>1, <3>1, <3>2, LoadedIs DEF TypeInv, TypeOK
    <3>4. LoadsFit'
      BY <2>1, <3>1, <3>2 DEF TypeInv, TypeOK, LoadsFit
    <3> QED
      BY <1>1, <2>3, <3>2, <3>3, <3>4 DEF TypeInv, TypeOK, NoSchemaYet, LoadsFit
  <2> QED
    BY <2>2, <2>3
<1>8. CASE SetSignature
  <2>1. CASE signatureId' # 0
    <3>1. /\ signatureId' \in LookupSignatureId(schema.hashval)
          /\ UNCHANGED signatures
      BY <1>8, <2>1 DEF SetSignature
    <3>2. signatureId' \in DOMAIN signatures
      BY <2>1, <3>1, LookupMisses, LookupFinds DEF TypeInv
    <3>3. DOMAIN signatures = 1..Len(signatures) /\ Len(signatures) \in Nat
      BY SignatureIds DEF TypeInv
    <3>4. signatureId' \in 0..Len(signatures')
      BY <3>1, <3>2, <3>3
    <3> QED
      BY <1>1, <1>8, <2>1, <3>4 DEF SetSignature, TypeInv, TypeOK, NoSchemaYet, LoadsFit
  <2>2. CASE signatureId' = 0
    <3>1. signatures' = Append(signatures, schema.hashval)
      BY <1>8, <2>2 DEF SetSignature
    <3>2. SignaturesAreRows'
      BY <3>1, AppendKeeps DEF TypeInv
    <3>3. Len(signatures') \in Nat
      <4>1. PICK S : signatures \in Seq(S)
        BY DEF TypeInv, SignaturesAreRows
      <4>2. signatures \in Seq(S \cup {schema.hashval})
        BY <4>1
      <4> QED
        BY <3>1, <4>2
    <3>4. signatureId' \in 0..Len(signatures')
      BY <2>2, <3>3
    <3> QED
      BY <1>8, <2>2, <3>2, <3>4 DEF SetSignature, TypeInv, TypeOK, NoSchemaYet, LoadsFit
  <2> QED
    BY <2>1, <2>2
<1>9. CASE LookUpAgain
  <2>1. signatureId' \in DOMAIN signatures \cup {0}
    BY <1>9 DEF LookUpAgain, LookupSignatureId, Selected
  <2>2. DOMAIN signatures = 1..Len(signatures) /\ Len(signatures) \in Nat
    BY SignatureIds DEF TypeInv
  <2>3. signatureId' \in 0..Len(signatures')
    <3>1. signatures' = signatures
      BY <1>9 DEF LookUpAgain
    <3>2. signatureId' \in 0..Len(signatures)
      BY <2>1, <2>2
    <3> QED
      BY <3>1, <3>2
  <2> QED
    BY <1>1, <1>9, <2>3 DEF LookUpAgain, TypeInv, TypeOK, NoSchemaYet, LoadsFit
<1>10. CASE ConstructServer
  BY <1>1, <1>10 DEF ConstructServer, Closed, TypeInv, TypeOK, NoSchemaYet, LoadsFit
<1>11. CASE Restart
  <2>1. 0 \in 0..Len(signatures)
    BY SignatureIds DEF TypeInv
  <2>2. 0 \in 0..Cardinality(VarId)
    BY IdsAreFinite
  <2>3. starts + 1 \in 1..MaxStarts
    <3>1. starts < MaxStarts
      BY <1>11 DEF Restart
    <3> QED
      BY <3>1, TypeParts, MainAssumption
  <2> QED
    BY <1>1, <1>11, <2>1, <2>2, <2>3 DEF Restart, TypeInv, TypeOK, NoSchemaYet, LoadsFit
<1>13. CASE PrepareStatements
  BY <1>1, <1>13 DEF PrepareStatements, TypeInv, TypeOK, NoSchemaYet, LoadsFit
<1>12. CASE UNCHANGED vars
  BY <1>1, <1>12 DEF vars, process, TypeInv, TypeOK, NoSchemaYet, LoadsFit
<1> QED
  BY <1>2, <1>3, <1>4, <1>5, <1>6, <1>7, <1>8, <1>9, <1>10, <1>11, <1>12, <1>13
     DEF Next

\* The types of main's state: what was counted is a number of rows that can be, a
\* signature_id that of a row, and a schema's vectors as long as what was counted, also
\* when the table was edited before it was read.
THEOREM TypeCorrect == Spec => []TypeOK
<1>1. TypeInv => TypeOK
  BY DEF TypeInv
<1> QED
  BY <1>1, TypeInitial, TypeStep, PTL DEF Spec

\* What is found under an identifier is the last row with it.
LEMMA FoundIsLast ==
    ASSUME NEW t \in Tables, NEW size \in Nat
    PROVE  /\ Known(Load(t, size)) = {Narrow(id) : id \in DOMAIN t}
           /\ \A v \in Known(Load(t, size)) : \E j :
                  /\ LastOf(Rows(t), LoadCardinality(t), v, j)
                  /\ OrdinalityOfVariable(Load(t, size), v) = Ordinal(j)
<1>1. LoadKeeps(Rows(t), LoadCardinality(t), Load(t, size).ordinality)
  BY OrdinalityIs
<1>2. {Narrow(Rows(t)[j].id) : j \in 1..LoadCardinality(t)} = {Narrow(id) : id \in DOMAIN t}
  BY RowsAre
<1> QED
  BY <1>1, <1>2 DEF LoadKeeps, Known, OrdinalityOfVariable

LEMMA MainStep == IInv /\ [Next]_vars => IInv'
<1> SUFFICES ASSUME IInv, [Next]_vars PROVE IInv'
  OBVIOUS
<1> USE DEF IInv, InsertedIsThere, SignedByHash
<1>1. ASSUME signatures' = signatures PROVE SignaturesAreRows' /\ SignedOnce'
  BY <1>1 DEF SignaturesAreRows, SignedOnce
<1>2. ASSUME signatures' = signatures, served' = served PROVE ServedAreSigned'
  BY <1>2 DEF ServedAreSigned
<1>3. CASE Edit
  BY <1>1, <1>2, <1>3 DEF Edit, process
<1>4. CASE OpenSchema \/ OpenRevisions \/ Caught \/ CountRows
  BY <1>1, <1>2, <1>4 DEF OpenSchema, OpenRevisions, Caught, CountRows
<1>5. CASE LoadRows \/ PrepareStatements
  BY <1>1, <1>2, <1>5 DEF LoadRows, PrepareStatements
<1>6. CASE SetSignature
  <2>1. /\ signatureId' \in LookupSignatureId(schema.hashval)
        /\ UNCHANGED <<schema, served>> /\ pc = "sign"
    BY <1>6 DEF SetSignature
  <2>2. CASE signatureId' # 0
    <3>1. UNCHANGED signatures /\ pc' = "serve"
      BY <1>6, <2>2 DEF SetSignature
    <3>2. /\ signatureId' \in DOMAIN signatures
          /\ signatures[signatureId'] = schema.hashval
      BY <2>1, <2>2, LookupMisses, LookupFinds
    <3> QED
      BY <1>1, <1>2, <2>1, <3>1, <3>2
  <2>3. CASE signatureId' = 0
    <3>1. /\ signatures' = Append(signatures, schema.hashval) /\ pc' = "look up"
      BY <1>6, <2>3 DEF SetSignature
    <3>2. schema.hashval \notin ToSet(signatures)
      BY <2>1, <2>3, LookupMisses
    <3>3. /\ SignaturesAreRows' /\ schema.hashval \in ToSet(signatures')
          /\ SignedOnce'
          /\ \A id \in DOMAIN signatures :
                 id \in DOMAIN signatures' /\ signatures'[id] = signatures[id]
      BY <3>1, <3>2, AppendKeeps
    <3>4. ServedAreSigned'
      BY <2>1, <3>3 DEF ServedAreSigned
    <3> QED
      BY <2>1, <3>1, <3>3, <3>4
  <2> QED
    BY <2>2, <2>3
<1>7. CASE LookUpAgain
  <2>1. /\ signatureId' \in LookupSignatureId(schema.hashval)
        /\ UNCHANGED <<signatures, schema, served>> /\ pc' = "serve" /\ pc = "look up"
    BY <1>7 DEF LookUpAgain
  <2>2. /\ signatureId' \in DOMAIN signatures
        /\ signatures[signatureId'] = schema.hashval
    BY <2>1, LookupFinds
  <2> QED
    BY <1>1, <1>2, <2>1, <2>2
<1>8. CASE ConstructServer
  <2>1. /\ UNCHANGED <<signatures, schema, signatureId>> /\ pc = "serve"
        /\ pc' \in {"running", "exit 0"}
        /\ served' \subseteq served \cup {[hashval |-> schema.hashval, id |-> signatureId]}
    BY <1>8 DEF ConstructServer
  <2>2. ServedAreSigned'
    <3> SUFFICES ASSUME NEW s \in served'
                 PROVE  s.id \in DOMAIN signatures /\ signatures[s.id] = s.hashval
      BY <2>1 DEF ServedAreSigned
    <3>1. CASE s \in served
      BY <3>1 DEF ServedAreSigned
    <3>2. CASE s = [hashval |-> schema.hashval, id |-> signatureId]
      <4>1. s.id = signatureId /\ s.hashval = schema.hashval
        BY <3>2
      <4> QED
        BY <2>1, <4>1
    <3> QED
      BY <2>1, <3>1, <3>2
  <2> QED
    BY <1>1, <2>1, <2>2
<1>9. CASE Restart
  BY <1>1, <1>2, <1>9 DEF Restart
<1>10. CASE UNCHANGED vars
  BY <1>1, <1>2, <1>10 DEF vars, process
<1> QED
  BY <1>3, <1>4, <1>5, <1>6, <1>7, <1>8, <1>9, <1>10 DEF Next

\* The three lookups of a schema whose table nobody changed while it was counted and read
\* are about the enabled rows and invert each other, for any table.
THEOREM LookupsInvert == Spec => []LookupsAgree
<1>1. ASSUME LoadsFit PROVE LookupsAgree
  <2> SUFFICES ASSUME NEW load \in loads, ~load.changed,
                      \A i, j \in Ids(load) : Narrow(i) = Narrow(j) => i = j
               PROVE  LET s == Schema(load) IN
                /\ Known(s) = {Narrow(id) : id \in Ids(load)}
                /\ \A id \in Ids(load) :
                       /\ InRange(s, Narrow(id))
                       /\ NameOfVariable(s, Narrow(id)) = load.table[id].name
                       /\ VariableOfOrdinal(s, OrdinalityOfVariable(s, Narrow(id)))
                              = Narrow(id)
                /\ \A ord \in 0..(GetCardinality(s) - 1) :
                       OrdinalityOfVariable(s, VariableOfOrdinal(s, ord)) = ord
    BY DEF LookupsAgree
  <2> DEFINE t == load.table
             s == Load(t, load.counted)
             rows == Rows(t)
             n == LoadCardinality(t)
  <2>1. t \in Tables /\ load.counted \in Nat /\ load.counted = n
    BY <1>1 DEF LoadsFit
  <2>2. /\ DOMAIN rows = 1..n /\ n \in Nat
        /\ \A i \in 1..n : rows[i].id \in DOMAIN t /\ rows[i].row = t[rows[i].id]
        /\ \A i, j \in 1..n : i # j => rows[i].id # rows[j].id
        /\ \A id \in DOMAIN t : \E i \in 1..n : rows[i].id = id
    BY <2>1, RowsAre
  <2>3. /\ GetCardinality(s) = n
        /\ \A i \in 1..n : /\ Ordinal(i) \in DOMAIN s.name
                          /\ s.variable[Ordinal(i)] = Narrow(rows[i].id)
                          /\ s.name[Ordinal(i)] = rows[i].row.name
    <3>1. n <= load.counted
      BY <2>1, <2>2
    <3>2. /\ GetCardinality(s) = load.counted
          /\ \A i \in DOMAIN rows : /\ Ordinal(i) \in DOMAIN s.name
                                  /\ s.variable[Ordinal(i)] = Narrow(rows[i].id)
                                  /\ s.name[Ordinal(i)] = rows[i].row.name
      BY <2>1, <3>1, LoadedIs
    <3> QED
      BY <2>1, <2>2, <3>2
  <2>4. /\ Known(s) = {Narrow(id) : id \in DOMAIN t}
        /\ \A v \in Known(s) : \E j :
               LastOf(rows, n, v, j) /\ OrdinalityOfVariable(s, v) = Ordinal(j)
    BY <2>1, FoundIsLast
  <2>5. Schema(load) = s /\ Ids(load) = DOMAIN t
    BY DEF Schema, Ids
  <2> HIDE DEF s, t, rows, n
  <2>6. ASSUME NEW i \in 1..n
        PROVE  /\ OrdinalityOfVariable(s, Narrow(rows[i].id)) = Ordinal(i)
               /\ Narrow(rows[i].id) \in Known(s)
    <3>1. rows[i].id \in DOMAIN t /\ Narrow(rows[i].id) \in Known(s)
      BY <2>2, <2>4
    <3>2. PICK j : /\ LastOf(rows, n, Narrow(rows[i].id), j)
                   /\ OrdinalityOfVariable(s, Narrow(rows[i].id)) = Ordinal(j)
      BY <2>4, <3>1
    <3>3. j \in 1..n /\ rows[j].id \in DOMAIN t /\ Narrow(rows[j].id) = Narrow(rows[i].id)
      BY <2>2, <3>2 DEF LastOf
    <3>4. rows[j].id = rows[i].id
      BY <2>5, <3>1, <3>3
    <3>5. j = i
      BY <2>2, <3>3, <3>4
    <3> QED
      BY <3>1, <3>2, <3>5
  <2>7. ASSUME NEW id \in DOMAIN t
        PROVE  /\ InRange(s, Narrow(id))
               /\ NameOfVariable(s, Narrow(id)) = load.table[id].name
               /\ VariableOfOrdinal(s, OrdinalityOfVariable(s, Narrow(id))) = Narrow(id)
    <3>1. PICK i \in 1..n : rows[i].id = id
      BY <2>2
    <3>2. OrdinalityOfVariable(s, Narrow(id)) = Ordinal(i)
      BY <2>6, <3>1
    <3>3. rows[i].row = t[id]
      BY <2>2, <3>1
    <3> QED
      BY <2>3, <3>1, <3>2, <3>3 DEF InRange, NameOfVariable, VariableOfOrdinal, t
  <2>8. ASSUME NEW ord \in 0..(n - 1)
        PROVE  OrdinalityOfVariable(s, VariableOfOrdinal(s, ord)) = ord
    <3>1. ord + 1 \in 1..n /\ Ordinal(ord + 1) = ord
      BY <2>2 DEF Ordinal
    <3>2. VariableOfOrdinal(s, ord) = Narrow(rows[ord + 1].id)
      BY <2>3, <3>1 DEF VariableOfOrdinal
    <3> QED
      BY <2>6, <3>1, <3>2
  <2> QED
    BY <2>3, <2>4, <2>5, <2>7, <2>8
<1>2. TypeInv => LookupsAgree
  BY <1>1 DEF TypeInv
<1> QED
  BY <1>2, TypeInitial, TypeStep, PTL DEF Spec

\* Two schemas with one hash are about the same variables, under the same ordinal numbers
\* and names, for rows of the same type, whatever else the tables hold and whatever was
\* changed while they were read.
THEOREM HashTellsMeaning == Spec => []SameHashSameMeaning
<1>1. ASSUME LoadsFit PROVE SameHashSameMeaning
  <2> DEFINE types(load) == {<<Narrow(id), load.table[id].type>> : id \in Ids(load)}
  <2> SUFFICES ASSUME NEW l \in loads, NEW m \in loads,
                      Schema(l).hashval = Schema(m).hashval
               PROVE  /\ Known(Schema(l)) = Known(Schema(m))
                      /\ \A v \in Known(Schema(l)) :
                            /\ OrdinalityOfVariable(Schema(l), v)
                                   = OrdinalityOfVariable(Schema(m), v)
                            /\ NameOfVariable(Schema(l), v) = NameOfVariable(Schema(m), v)
                      /\ types(l) = types(m)
    BY DEF SameHashSameMeaning
  <2> DEFINE R(k) == Rows(k.table)
             N(k) == LoadCardinality(k.table)
  <2>1. ASSUME NEW k \in loads
        PROVE  /\ N(k) \in Nat /\ DOMAIN R(k) = 1..N(k)
               /\ \A i \in 1..N(k) : /\ R(k)[i].id \in Ids(k)
                                    /\ R(k)[i].row = k.table[R(k)[i].id]
               /\ \A id \in Ids(k) : \E i \in 1..N(k) : R(k)[i].id = id
    BY <1>1, RowsAre DEF LoadsFit, Ids
  <2>2. ASSUME NEW k \in loads
        PROVE  /\ \A i \in 1..N(k) : Schema(k).name[Ordinal(i)] = R(k)[i].row.name
               /\ Schema(k).hashval = [i \in 1..N(k) |-> Line(R(k)[i])]
    <3> DEFINE t == k.table
               s == Load(t, k.counted)
    <3>1. t \in Tables /\ k.counted \in Nat /\ LoadCardinality(t) <= k.counted
      BY <1>1 DEF LoadsFit
    <3>2. /\ \A i \in DOMAIN Rows(t) : s.name[Ordinal(i)] = Rows(t)[i].row.name
          /\ s.hashval = [i \in DOMAIN Rows(t) |-> Line(Rows(t)[i])]
      BY <3>1, LoadedIs
    <3> QED
      BY <2>1, <3>2 DEF Schema
  <2>3. ASSUME NEW k \in loads
        PROVE  /\ Known(Schema(k)) = {Narrow(id) : id \in Ids(k)}
               /\ \A v \in Known(Schema(k)) : \E j :
                      /\ LastOf(R(k), N(k), v, j)
                      /\ OrdinalityOfVariable(Schema(k), v) = Ordinal(j)
    BY <1>1, FoundIsLast DEF LoadsFit, Schema, Ids
  <2> HIDE DEF R, N
  <2>4. 1..N(l) = 1..N(m)
    BY <2>2
  <2>5. N(l) = N(m)
    BY <2>1, <2>4
  <2>6. ASSUME NEW i \in 1..N(l)
        PROVE  /\ Narrow(R(l)[i].id) = Narrow(R(m)[i].id)
               /\ R(l)[i].row.name = R(m)[i].row.name
               /\ R(l)[i].row.type = R(m)[i].row.type
    <3>1. [j \in 1..N(l) |-> Line(R(l)[j])] = [j \in 1..N(l) |-> Line(R(m)[j])]
      BY <2>2, <2>5
    <3>2. Line(R(l)[i]) = Line(R(m)[i])
      BY <3>1
    <3> QED
      BY <3>2 DEF Line
  <2>7. ASSUME NEW k \in loads
        PROVE  /\ {Narrow(id) : id \in Ids(k)} = {Narrow(R(k)[i].id) : i \in 1..N(k)}
               /\ types(k) = {<<Narrow(R(k)[i].id), R(k)[i].row.type>> : i \in 1..N(k)}
    <3>1. \A i \in 1..N(k) : R(k)[i].id \in Ids(k) /\ R(k)[i].row = k.table[R(k)[i].id]
      BY <2>1
    <3>2. \A id \in Ids(k) : \E i \in 1..N(k) : R(k)[i].id = id
      BY <2>1
    <3>3. {Narrow(id) : id \in Ids(k)} = {Narrow(R(k)[i].id) : i \in 1..N(k)}
      BY <3>1, <3>2
    <3>4. types(k) = {<<Narrow(R(k)[i].id), R(k)[i].row.type>> : i \in 1..N(k)}
      BY <3>1, <3>2
    <3> QED
      BY <3>3, <3>4
  <2>8. Known(Schema(l)) = Known(Schema(m))
    <3>1. {Narrow(R(l)[i].id) : i \in 1..N(l)} = {Narrow(R(m)[i].id) : i \in 1..N(m)}
      BY <2>5, <2>6
    <3> QED
      BY <2>3, <2>7, <3>1
  <2>9. types(l) = types(m)
    <3>1. {<<Narrow(R(l)[i].id), R(l)[i].row.type>> : i \in 1..N(l)}
             = {<<Narrow(R(m)[i].id), R(m)[i].row.type>> : i \in 1..N(m)}
      BY <2>5, <2>6
    <3> HIDE DEF types
    <3> QED
      BY <2>7, <3>1
  <2>10. ASSUME NEW v \in Known(Schema(l))
         PROVE  /\ OrdinalityOfVariable(Schema(l), v) = OrdinalityOfVariable(Schema(m), v)
                /\ NameOfVariable(Schema(l), v) = NameOfVariable(Schema(m), v)
    <3>1. PICK i : /\ LastOf(R(l), N(l), v, i)
                   /\ OrdinalityOfVariable(Schema(l), v) = Ordinal(i)
      BY <2>3
    <3>2. PICK j : /\ LastOf(R(m), N(m), v, j)
                   /\ OrdinalityOfVariable(Schema(m), v) = Ordinal(j)
      BY <2>3, <2>8
    <3>3. i \in 1..N(l) /\ j \in 1..N(l)
      BY <2>5, <3>1, <3>2 DEF LastOf
    <3>4. ~(i < j) /\ ~(j < i)
      BY <2>5, <2>6, <3>1, <3>2, <3>3 DEF LastOf
    <3>5. i = j
      BY <2>1, <3>3, <3>4
    <3>6. Schema(l).name[Ordinal(i)] = Schema(m).name[Ordinal(j)]
      BY <2>2, <2>5, <2>6, <3>3, <3>5
    <3> QED
      BY <3>1, <3>2, <3>5, <3>6 DEF NameOfVariable
  <2> QED
    BY <2>8, <2>9, <2>10
<1>2. TypeInv => SameHashSameMeaning
  BY <1>1 DEF TypeInv
<1> QED
  BY <1>2, TypeInitial, TypeStep, PTL DEF Spec

\* The servers of one schema, over any restarts, edits and refused statements, go on with
\* the revisions of one signature_id, and servers of different schemas with those of
\* different ones.
THEOREM SignedOnceForAll == Spec => []OneHashOneId
<1>1. Init => IInv
  <2> SUFFICES ASSUME Init PROVE IInv
    OBVIOUS
  <2>1. <<>> \in Seq({})
    OBVIOUS
  <2>2. DOMAIN signatures = {}
    <3>1. signatures = <<>> /\ Len(<<>>) = 0
      BY DEF Init
    <3>2. DOMAIN <<>> = 1..Len(<<>>)
      BY <2>1
    <3> QED
      BY <3>1, <3>2
  <2>3. SignaturesAreRows
    BY <2>1 DEF Init, SignaturesAreRows
  <2> QED
    BY <2>2, <2>3 DEF Init, IInv, SignedOnce, InsertedIsThere, SignedByHash, ServedAreSigned
<1>2. IInv => OneHashOneId
  BY DEF IInv, SignedOnce, ServedAreSigned, OneHashOneId
<1> QED
  BY <1>1, <1>2, MainStep, PTL DEF Spec
=============================================================================
