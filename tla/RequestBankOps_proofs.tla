------------------------ MODULE RequestBankOps_proofs ------------------------
(***************************************************************************)
(* Facts about the operations of a bank, whichever module owns it: what    *)
(* each does to the requests of a client and to its counter, after what     *)
(* they need of unsigned arithmetic.                                       *)
(***************************************************************************)
EXTENDS RequestBankOps, FiniteSetTheorems, TLAPS

(* Unsigned arithmetic: n % m for a modulus m that is a parameter. *)

\* The defining property of division with remainder.
LEMMA ModDef ==
    ASSUME NEW m \in Nat \ {0}, NEW x \in Int
    PROVE  /\ x % m \in 0..(m - 1)
           /\ x \div m \in Int
           /\ x = m * (x \div m) + (x % m)
  OBVIOUS

\* The remainder is unique.
LEMMA ModUnique ==
    ASSUME NEW m \in Nat \ {0}, NEW a \in Int, NEW b \in Int,
           NEW r \in 0..(m - 1), NEW s \in 0..(m - 1),
           m * a + r = m * b + s
    PROVE  r = s
<1>1. m * (a - b) = s - r
  OBVIOUS
<1>2. CASE a - b >= 1
  <2>1. m * (a - b) >= m
    BY <1>2
  <2> QED
    BY <1>1, <2>1
<1>3. CASE a - b <= -1
  <2>1. m * (a - b) <= -m
    BY <1>3
  <2> QED
    BY <1>1, <2>1
<1>4. CASE a = b
  BY <1>4
<1> QED
  BY <1>2, <1>3, <1>4

\* Reducing an operand does not change the reduced sum: a counter that wraps can be
\* compared with the wrapped value of a true count.
LEMMA ModAdd ==
    ASSUME NEW m \in Nat \ {0}, NEW x \in Int, NEW y \in Int
    PROVE  ((x % m) + y) % m = (x + y) % m
<1> DEFINE z == (x % m) + y
           p == x \div m
           a == (x + y) \div m
           b == z \div m
<1>1. x = m * p + (x % m) /\ p \in Int /\ x % m \in Int
  BY ModDef
<1>2. z \in Int /\ x + y \in Int
  BY <1>1
<1>3. z = m * b + (z % m) /\ b \in Int /\ z % m \in 0..(m - 1)
  BY <1>2, ModDef
<1>4. /\ x + y = m * a + ((x + y) % m)
      /\ a \in Int
      /\ (x + y) % m \in 0..(m - 1)
  BY <1>2, ModDef
<1>5. x + y = m * p + z
  BY <1>1
<1> HIDE DEF p, z, a, b
<1>6. m * a + ((x + y) % m) = m * (p + b) + (z % m)
  <2>1. m * (p + b) = m * p + m * b
    BY <1>1, <1>3
  <2>2. m * p \in Int /\ m * b \in Int /\ m * a \in Int
    BY <1>1, <1>3, <1>4
  <2> QED
    BY <1>2, <1>3, <1>4, <1>5, <2>1, <2>2
<1>7. p + b \in Int
  BY <1>1, <1>3
<1>8. (x + y) % m = z % m
  BY <1>3, <1>4, <1>6, <1>7, ModUnique
<1> QED
  BY <1>8 DEF z

\* A value below the modulus is its own remainder.
LEMMA ModSmall ==
    ASSUME NEW m \in Nat \ {0}, NEW x \in 0..(m - 1)
    PROVE  x % m = x
  OBVIOUS

-----------------------------------------------------------------------------
(* Banks *)

\* A bank over some keys and timeouts.
Deadline(K, T) == UNION {[E -> T] : E \in SUBSET (K \X Client)}
BankType(K, T) == [due : Deadline(K, T), out : [Client -> Counter],
                   stale : SUBSET K, intact : BOOLEAN]

\* The counter of c is the number of requests of c.
Tracks(b, c) == b.out[c] = Unsigned(Open(b, c))

LEMMA UnsignedType ==
    ASSUME NEW n \in Int
    PROVE  Unsigned(n) \in Counter
BY BankAssumption, ModDef DEF Unsigned, Counter

LEMMA BankTypeIsBank ==
    ASSUME NEW K, NEW T, NEW b
    PROVE  IsBank(b, K, T) <=> b \in BankType(K, T)
BY DEF IsBank, BankType, Deadline, Entries

LEMMA EmptyBankType ==
    ASSUME NEW K, NEW T
    PROVE  IsBank(EmptyBank, K, T)
<1>1. 0 \in Counter
  BY BankAssumption DEF Counter
<1>2. Entries(EmptyBank) = {}
  BY DEF Entries, EmptyBank
<1> QED
  BY <1>1, <1>2 DEF IsBank, EmptyBank

LEMMA BankFields ==
    ASSUME NEW K, NEW T, NEW b \in BankType(K, T)
    PROVE  /\ Entries(b) \subseteq K \X Client
           /\ b.due \in [Entries(b) -> T]
           /\ b.out \in [Client -> Counter]
           /\ b.stale \subseteq K
           /\ b.intact \in BOOLEAN
BY DEF BankType, Deadline, Entries

\* A counter that wraps moves with the count it stands for.
LEMMA CounterMoves ==
    ASSUME NEW n \in Int, NEW d \in Int
    PROVE  Unsigned(Unsigned(n) + d) = Unsigned(n + d)
BY BankAssumption, ModAdd DEF Unsigned

\* The requests of a client are finite in number.
LEMMA EntriesFinite ==
    ASSUME NEW K, IsFiniteSet(K), NEW T, NEW b \in BankType(K, T), NEW c \in Client
    PROVE  /\ IsFiniteSet(Entries(b))
           /\ IsFiniteSet(EntriesOf(b, c))
           /\ Open(b, c) \in Nat
<1>1. IsFiniteSet(K \X Client)
  BY BankAssumption, FS_Product
<1>2. IsFiniteSet(Entries(b))
  BY <1>1, BankFields, FS_Subset
<1>3. EntriesOf(b, c) \subseteq Entries(b)
  BY DEF EntriesOf, Share
<1>4. IsFiniteSet(EntriesOf(b, c))
  BY <1>2, <1>3, FS_Subset
<1> QED
  BY <1>2, <1>4, FS_CardinalityType DEF Open

\* Counting a set in two parts.
LEMMA DisjointUnion ==
    ASSUME NEW S, IsFiniteSet(S), NEW U, IsFiniteSet(U), S \cap U = {}
    PROVE  Cardinality(S \cup U) = Cardinality(S) + Cardinality(U)
<1>1. Cardinality(S \cup U) =
          Cardinality(S) + Cardinality(U) - Cardinality({})
  BY FS_Union
<1>2. Cardinality({}) = 0
  BY FS_EmptySet
<1>3. Cardinality(S) \in Nat /\ Cardinality(U) \in Nat
  BY FS_CardinalityType
<1> QED
  BY <1>1, <1>2, <1>3

\* add keeps the type, and the counter of every client that it tracked.
LEMMA AddKeeps ==
    ASSUME NEW K, IsFiniteSet(K), NEW T, NEW b \in BankType(K, T),
           NEW keys \in SUBSET K, NEW c \in Client, NEW t \in T
    PROVE  /\ AddAll(b, keys, c, t) \in BankType(K, T)
           /\ \A d \in Client : Tracks(b, d) => Tracks(AddAll(b, keys, c, t), d)
<1> DEFINE wanted == {<<key, c>> : key \in keys}
           fresh == wanted \ Entries(b)
           n == AddAll(b, keys, c, t)
<1>1. n = [due    |-> [e \in Entries(b) \cup wanted |->
                          IF e \in wanted THEN t ELSE b.due[e]],
           out    |-> [b.out EXCEPT ![c] = Unsigned(@ + Cardinality(fresh))],
           stale  |-> b.stale,
           intact |-> /\ b.intact
                      /\ \A key \in keys : ~AddRaises(b, key, c, t)
                      /\ Cardinality(Entries(b) \cup wanted) <= HeapLimit]
  BY DEF AddAll
<1>2. /\ Entries(b) \subseteq K \X Client
      /\ b.due \in [Entries(b) -> T]
      /\ b.out \in [Client -> Counter]
      /\ b.stale \subseteq K
      /\ b.intact \in BOOLEAN
  BY BankFields
<1>3. wanted \subseteq K \X Client
  OBVIOUS
<1>4. IsFiniteSet(fresh) /\ Cardinality(fresh) \in Nat
  <2>1. IsFiniteSet(K \X Client)
    BY BankAssumption, FS_Product
  <2>2. fresh \subseteq K \X Client
    BY <1>3
  <2> QED
    BY <2>1, <2>2, FS_Subset, FS_CardinalityType
<1>5. Counter \subseteq Int
  BY BankAssumption DEF Counter
<1>6. n.out \in [Client -> Counter]
  <2>1. Unsigned(b.out[c] + Cardinality(fresh)) \in Counter
    <3> DEFINE k == Cardinality(fresh)
    <3>1. b.out[c] \in Int
      BY <1>2, <1>5
    <3>2. k \in Int
      BY <1>4
    <3> HIDE DEF k
    <3>3. b.out[c] + k \in Int
      BY <3>1, <3>2
    <3>4. Unsigned(b.out[c] + k) \in Counter
      BY <3>3, UnsignedType
    <3> QED
      BY <3>4 DEF k
  <2>2. n.out = [b.out EXCEPT ![c] = Unsigned(@ + Cardinality(fresh))]
    BY <1>1
  <2> QED
    BY <1>2, <2>1, <2>2
<1>7. n.due \in Deadline(K, T)
  <2>1. n.due \in [Entries(b) \cup wanted -> T]
    BY <1>1, <1>2
  <2> QED
    BY <1>2, <1>3, <2>1 DEF Deadline
<1>8. n \in BankType(K, T)
  BY <1>1, <1>2, <1>6, <1>7 DEF BankType
<1>9. ASSUME NEW d \in Client, Tracks(b, d)
      PROVE  Tracks(n, d)
  <2>1. Entries(n) = Entries(b) \cup wanted
    BY <1>1 DEF Entries
  <2>2. CASE d = c
    <3>1. EntriesOf(n, c) = EntriesOf(b, c) \cup fresh
      BY <2>1 DEF EntriesOf, Share
    <3>2. EntriesOf(b, c) \cap fresh = {}
      BY DEF EntriesOf, Share
    <3>3. IsFiniteSet(EntriesOf(b, c)) /\ Open(b, c) \in Nat
      BY EntriesFinite
    <3>4. Open(n, c) = Open(b, c) + Cardinality(fresh)
      BY <1>4, <3>1, <3>2, <3>3, DisjointUnion DEF Open
    <3>5. n.out[c] = Unsigned(Unsigned(Open(b, c)) + Cardinality(fresh))
      BY <1>1, <1>2, <1>9, <2>2 DEF Tracks
    <3> QED
      BY <1>4, <2>2, <3>3, <3>4, <3>5, CounterMoves DEF Tracks
  <2>3. CASE d # c
    <3>1. EntriesOf(n, d) = EntriesOf(b, d)
      BY <2>1, <2>3 DEF EntriesOf, Share
    <3>2. n.out[d] = b.out[d]
      BY <1>1, <1>2, <2>3
    <3> QED
      BY <1>9, <3>1, <3>2 DEF Tracks, Open
  <2> QED
    BY <2>2, <2>3
<1> QED
  BY <1>8, <1>9

\* Expiry keeps the type, and the counter of every client that it tracked.
LEMMA ExpireKeeps ==
    ASSUME NEW K, IsFiniteSet(K), NEW T, NEW b \in BankType(K, T),
           NEW gone \in SUBSET Entries(b)
    PROVE  /\ Expire(b, gone) \in BankType(K, T)
           /\ \A d \in Client : Tracks(b, d) => Tracks(Expire(b, gone), d)
<1> DEFINE n == Expire(b, gone)
<1>1. n = [b EXCEPT !.due = [e \in Entries(b) \ gone |-> b.due[e]],
                    !.out = [c \in Client |->
                                Unsigned(b.out[c] - Cardinality(Share(gone, c)))]]
  BY DEF Expire
<1>2. /\ Entries(b) \subseteq K \X Client
      /\ b.due \in [Entries(b) -> T]
      /\ b.out \in [Client -> Counter]
  BY BankFields
<1>3. ASSUME NEW c \in Client
      PROVE  IsFiniteSet(Share(gone, c)) /\ Cardinality(Share(gone, c)) \in Nat
  <2>1. Share(gone, c) \subseteq Entries(b)
    BY DEF Share
  <2>2. IsFiniteSet(Entries(b))
    BY <2>1, EntriesFinite
  <2> QED
    BY <2>1, <2>2, FS_Subset, FS_CardinalityType
<1>4. n.out \in [Client -> Counter]
  <2>1. n.out = [c \in Client |-> Unsigned(b.out[c] - Cardinality(Share(gone, c)))]
    BY <1>1 DEF BankType
  <2>2. Counter \subseteq Int
    BY BankAssumption DEF Counter
  <2>3. ASSUME NEW c \in Client
        PROVE  Unsigned(b.out[c] - Cardinality(Share(gone, c))) \in Counter
    <3>1. b.out[c] \in Int
      BY <1>2, <2>2
    <3>2. Cardinality(Share(gone, c)) \in Int
      BY <1>3
    <3>3. b.out[c] - Cardinality(Share(gone, c)) \in Int
      BY <3>1, <3>2
    <3> QED
      BY <3>3, UnsignedType
  <2> QED
    BY <2>1, <2>3
<1>5. n.due \in Deadline(K, T)
  <2>1. n.due \in [Entries(b) \ gone -> T]
    BY <1>1, <1>2 DEF BankType
  <2>2. Entries(b) \ gone \in SUBSET (K \X Client)
    BY <1>2
  <2> QED
    BY <2>1, <2>2 DEF Deadline
<1>6. n \in BankType(K, T)
  BY <1>1, <1>4, <1>5 DEF BankType
<1>7. ASSUME NEW d \in Client, Tracks(b, d)
      PROVE  Tracks(n, d)
  <2>1. Entries(n) = Entries(b) \ gone
    BY <1>1 DEF Entries, BankType
  <2>2. EntriesOf(b, d) = EntriesOf(n, d) \cup Share(gone, d)
    BY <2>1 DEF EntriesOf, Share
  <2>3. EntriesOf(n, d) \cap Share(gone, d) = {}
    BY <2>1 DEF EntriesOf, Share
  <2>4. /\ IsFiniteSet(EntriesOf(n, d)) /\ Open(n, d) \in Nat
        /\ Open(b, d) \in Nat
    BY <1>6, EntriesFinite
  <2>5. Open(b, d) = Open(n, d) + Cardinality(Share(gone, d))
    BY <1>3, <2>2, <2>3, <2>4, DisjointUnion DEF Open
  <2>6. n.out[d] = Unsigned(Unsigned(Open(b, d)) + (- Cardinality(Share(gone, d))))
    <3>1. n.out[d] = Unsigned(b.out[d] - Cardinality(Share(gone, d)))
      BY <1>1 DEF BankType
    <3>2. b.out[d] \in Int
      BY <1>2, BankAssumption DEF Counter
    <3> QED
      BY <1>3, <1>7, <3>1, <3>2 DEF Tracks
  <2>7. n.out[d] = Unsigned(Open(b, d) + (- Cardinality(Share(gone, d))))
    <3>1. - Cardinality(Share(gone, d)) \in Int
      BY <1>3
    <3> QED
      BY <2>4, <2>6, <3>1, CounterMoves
  <2>8. Open(b, d) + (- Cardinality(Share(gone, d))) = Open(n, d)
    BY <1>3, <2>4, <2>5
  <2> QED
    BY <2>7, <2>8 DEF Tracks
<1> QED
  BY <1>6, <1>7

\* remove_by_key keeps the type, and the counter of every client it does not write.
LEMMA RemoveByKeyKeeps ==
    ASSUME NEW K, IsFiniteSet(K), NEW T, NEW b \in BankType(K, T),
           NEW key \in K, NEW two \in BOOLEAN
    PROVE  /\ RemoveByKey(b, key, two) \in BankType(K, T)
           /\ \A d \in Client \ Written(b, key) :
                 Tracks(b, d) => Tracks(RemoveByKey(b, key, two), d)
<1> DEFINE n == RemoveByKey(b, key, two)
           out == [c \in Client |-> IF c \in Written(b, key) THEN Overwritten
                                    ELSE b.out[c]]
           kept == {f \in Entries(b) : f[1] # key}
<1>1. n = IF RemoveByKeyThrows(b) THEN [b EXCEPT !.out = out]
          ELSE [b EXCEPT !.due = [e \in kept |-> b.due[e]],
                         !.out = out,
                         !.stale = IF two THEN @ \cup {key} ELSE @]
  BY DEF RemoveByKey
<1>2. /\ Entries(b) \subseteq K \X Client
      /\ b.due \in [Entries(b) -> T]
      /\ b.out \in [Client -> Counter]
      /\ b.stale \subseteq K
  BY BankFields
<1>3. Overwritten \in Counter
  BY UnsignedType DEF Overwritten
<1>4. out \in [Client -> Counter]
  BY <1>2, <1>3
<1> HIDE DEF out
<1>5. CASE RemoveByKeyThrows(b)
  <2>1. n = [b EXCEPT !.out = out]
    BY <1>1, <1>5
  <2>2. n \in BankType(K, T)
    BY <1>4, <2>1 DEF BankType
  <2>3. ASSUME NEW d \in Client \ Written(b, key), Tracks(b, d)
        PROVE  Tracks(n, d)
    <3>1. EntriesOf(n, d) = EntriesOf(b, d)
      BY <2>1 DEF EntriesOf, Entries, BankType
    <3>2. n.out[d] = b.out[d]
      BY <2>1 DEF BankType, out
    <3> QED
      BY <2>3, <3>1, <3>2 DEF Tracks, Open
  <2> QED
    BY <2>2, <2>3
<1>6. CASE ~RemoveByKeyThrows(b)
  <2>1. n = [b EXCEPT !.due = [e \in kept |-> b.due[e]],
                      !.out = out,
                      !.stale = IF two THEN @ \cup {key} ELSE @]
    BY <1>1, <1>6
  <2>2. [e \in kept |-> b.due[e]] \in Deadline(K, T)
    <3>1. [e \in kept |-> b.due[e]] \in [kept -> T]
      BY <1>2
    <3>2. kept \in SUBSET (K \X Client)
      BY <1>2
    <3> QED
      BY <3>1, <3>2 DEF Deadline
  <2>3. n \in BankType(K, T)
    <3>1. (IF two THEN b.stale \cup {key} ELSE b.stale) \in SUBSET K
      BY <1>2
    <3>2. n = [due    |-> [e \in kept |-> b.due[e]],
               out    |-> out,
               stale  |-> IF two THEN b.stale \cup {key} ELSE b.stale,
               intact |-> b.intact]
      BY <2>1 DEF BankType
    <3>3. b.intact \in BOOLEAN
      BY BankFields
    <3> QED
      BY <1>4, <2>2, <3>1, <3>2, <3>3 DEF BankType
  <2>4. ASSUME NEW d \in Client \ Written(b, key), Tracks(b, d)
        PROVE  Tracks(n, d)
    <3>1. <<key, d>> \notin Entries(b)
      BY <1>6 DEF Written, Subscribers
    <3>2. Entries(n) = kept
      BY <2>1 DEF Entries, BankType
    <3>3. EntriesOf(n, d) = EntriesOf(b, d)
      <4>1. ASSUME NEW e \in Entries(b), e[2] = d
            PROVE  e[1] # key
        BY <1>2, <3>1, <4>1
      <4> QED
        BY <3>2, <4>1 DEF EntriesOf, Share
    <3>4. n.out[d] = b.out[d]
      BY <2>1 DEF BankType, out
    <3> QED
      BY <2>4, <3>3, <3>4 DEF Tracks, Open
  <2> QED
    BY <2>3, <2>4
<1> QED
  BY <1>5, <1>6
=============================================================================
