--------------------------- MODULE FoldInduction ---------------------------
(***************************************************************************)
(* What a fold over the numbers 1..n leaves, by induction on the turns of   *)
(* the loop it stands for.  A module that folds with its own turn           *)
(* instantiates this one with that turn and with what the loop keeps; both  *)
(* take a context c as well, the values the loop does not change.  Every    *)
(* instance brings in all that this module extends, so that is little.      *)
(***************************************************************************)
EXTENDS Integers, Folds, WellFoundedInduction, TLAPS

CONSTANTS
    turn(_, _, _),  \* turn(c, a, x): what a turn with x makes of a
    keeps(_, _, _)  \* keeps(c, i, a): what holds of a after i turns

\* A set of natural numbers that is not empty has a least one.
LEMMA LeastNumber ==
    ASSUME NEW T \in SUBSET Nat, T # {}
    PROVE  \E x \in T : \A y \in T : x <= y
<1>1. PICK x \in T : \A y \in T : ~(<<y, x>> \in OpToRel(<, Nat))
  BY NatLessThanWellFounded, WFMin, Zenon
<1>2. \A y \in T : ~(y < x)
  BY <1>1 DEF OpToRel
<1> QED
  BY <1>2

\* The element that FoldLeft takes last, Max of FiniteSetsExt.
Greatest(S) == CHOOSE x \in S : \A y \in S : x >= y

\* What the fold computes of a set of numbers that the sequence s has elements for.
Folded(c, base, s, f, S) ==
    IF S = {} THEN base ELSE turn(c, f[S \ {Greatest(S)}], s[Greatest(S)])

Folds(c, base, s, n, f) == f = [S \in SUBSET (1..n) |-> Folded(c, base, s, f, S)]

LEMMA GreatestNumber ==
    ASSUME NEW n \in Nat, NEW S \in SUBSET (1..n), S # {}
    PROVE  Greatest(S) \in S /\ \A y \in S : Greatest(S) >= y
<1> DEFINE bounds == {m \in Nat : \A y \in S : y <= m}
<1>1. n \in bounds
  OBVIOUS
<1>2. PICK m \in bounds : \A k \in bounds : m <= k
  BY <1>1, LeastNumber
<1>3. m \in S
  <2> SUFFICES ASSUME m \notin S PROVE FALSE
    OBVIOUS
  <2>1. m > 0
    <3>1. PICK y \in S : y \in 1..n
      OBVIOUS
    <3> QED
      BY <1>2, <3>1
  <2>2. \A y \in S : y <= m - 1
    BY <1>2
  <2>3. m - 1 \in bounds
    BY <2>1, <2>2
  <2> QED
    BY <1>2, <2>3
<1> QED
  BY <1>2, <1>3 DEF Greatest

LEMMA GreatestOfFirst ==
    ASSUME NEW n \in Nat
    PROVE  /\ Greatest(1..(n + 1)) = n + 1
           /\ (1..(n + 1)) \ {n + 1} = 1..n
<1>1. n + 1 \in Nat /\ 1..(n + 1) \in SUBSET (1..(n + 1)) /\ n + 1 \in 1..(n + 1)
  OBVIOUS
<1>2. Greatest(1..(n + 1)) \in 1..(n + 1) /\ \A y \in 1..(n + 1) : Greatest(1..(n + 1)) >= y
  BY <1>1, GreatestNumber
<1>3. Greatest(1..(n + 1)) >= n + 1
  BY <1>1, <1>2
<1> QED
  BY <1>2, <1>3

LEMMA FoldExists ==
    ASSUME NEW c, NEW base, NEW s, NEW n \in Nat
    PROVE  \E f : Folds(c, base, s, n, f)
<1> DEFINE without == {m \in Nat : ~\E f : Folds(c, base, s, m, f)}
<1>1. SUFFICES ASSUME without # {} PROVE FALSE
  OBVIOUS
<1>2. PICK m \in without : \A k \in without : m <= k
  BY <1>1, LeastNumber
<1>3. CASE m = 0
  <2> DEFINE f == [S \in SUBSET (1..m) |-> base]
  <2>1. Folds(c, base, s, m, f)
    BY <1>3 DEF Folds, Folded
  <2> QED
    BY <1>2, <2>1
<1>4. CASE m # 0
  <2>1. m - 1 \in Nat /\ m - 1 \notin without
    BY <1>2, <1>4
  <2>2. PICK f : Folds(c, base, s, m - 1, f)
    BY <2>1
  <2> DEFINE g == [S \in SUBSET (1..m) |->
                      IF m \in S THEN turn(c, f[S \ {m}], s[m]) ELSE f[S]]
  <2>3. ASSUME NEW S \in SUBSET (1..m) PROVE g[S] = Folded(c, base, s, g, S)
    <3>1. CASE m \in S
      <4>1. Greatest(S) \in S /\ \A y \in S : Greatest(S) >= y
        <5>1. m \in Nat /\ S # {}
          BY <3>1
        <5> QED
          BY <5>1, GreatestNumber
      <4>2. Greatest(S) = m
        <5>1. Greatest(S) \in 1..m /\ Greatest(S) >= m
          BY <3>1, <4>1
        <5> QED
          BY <5>1
      <4>3. S \ {m} \in SUBSET (1..m) /\ m \notin S \ {m}
        OBVIOUS
      <4>4. g[S \ {m}] = f[S \ {m}]
        BY <4>3
      <4> QED
        BY <3>1, <4>2, <4>4 DEF Folded
    <3>2. CASE m \notin S
      <4>1. S \in SUBSET (1..(m - 1))
        BY <2>1, <3>2
      <4>2. f[S] = Folded(c, base, s, f, S)
        BY <2>2, <4>1 DEF Folds
      <4>3. CASE S = {}
        BY <3>2, <4>2, <4>3 DEF Folded
      <4>4. CASE S # {}
        <5>1. S \ {Greatest(S)} \in SUBSET (1..m) /\ m \notin S \ {Greatest(S)}
          BY <3>2
        <5>2. g[S \ {Greatest(S)}] = f[S \ {Greatest(S)}]
          BY <5>1
        <5> QED
          BY <3>2, <4>2, <4>4, <5>2 DEF Folded
      <4> QED
        BY <4>3, <4>4
    <3> QED
      BY <3>1, <3>2
  <2>4. g = [S \in SUBSET (1..m) |-> Folded(c, base, s, g, S)]
    BY <2>3, Zenon
  <2>5. Folds(c, base, s, m, g)
    BY <2>4, Zenon DEF Folds
  <2> QED
    BY <1>2, <2>5
<1> QED
  BY <1>3, <1>4

\* The loop: what FoldLeft of SequencesExt is by its definition.
Loop(c, base, s) ==
    MapThenFoldSet(LAMBDA x, a : turn(c, a, x), base, LAMBDA i : s[i],
                   LAMBDA S : Greatest(S), DOMAIN s)

LEMMA LoopIsFold ==
    ASSUME NEW c, NEW base, NEW s, NEW n \in Nat, DOMAIN s = 1..n
    PROVE  \E f : Folds(c, base, s, n, f) /\ Loop(c, base, s) = f[1..n]
<1> DEFINE f == CHOOSE f : f = [S \in SUBSET (1..n) |-> Folded(c, base, s, f, S)]
<1>1. Folds(c, base, s, n, f)
  BY FoldExists DEF Folds
<1>2. Loop(c, base, s) = f[1..n]
  BY SMT DEF Loop, MapThenFoldSet, Folded
<1> QED
  BY <1>1, <1>2

\* What holds before the first turn, and after a turn if before it, holds after the loop.
THEOREM LoopKeeps ==
    ASSUME NEW c, NEW base, NEW s, NEW n \in Nat, DOMAIN s = 1..n,
           keeps(c, 0, base),
           \A i \in 1..n : \A a : keeps(c, i - 1, a) => keeps(c, i, turn(c, a, s[i]))
    PROVE  keeps(c, n, Loop(c, base, s))
<1>1. PICK f : Folds(c, base, s, n, f) /\ Loop(c, base, s) = f[1..n]
  BY LoopIsFold
<1> DEFINE broken == {i \in 0..n : ~keeps(c, i, f[1..i])}
<1>2. SUFFICES ASSUME broken # {} PROVE FALSE
  BY <1>1
<1>3. PICK i \in broken : \A j \in broken : i <= j
  <2>1. broken \in SUBSET Nat
    OBVIOUS
  <2> HIDE DEF broken
  <2> QED
    BY <1>2, <2>1, LeastNumber
<1>4. CASE i = 0
  <2>1. f[1..i] = base
    BY <1>1, <1>4 DEF Folds, Folded
  <2> QED
    BY <1>3, <1>4, <2>1
<1>5. CASE i # 0
  <2>1. i - 1 \in 0..n /\ keeps(c, i - 1, f[1..(i - 1)])
    BY <1>3, <1>5
  <2>2. Greatest(1..i) = i /\ (1..i) \ {i} = 1..(i - 1) /\ 1..i # {}
    <3> DEFINE j == i - 1
    <3>1. j \in Nat /\ j + 1 = i /\ i \in 1..i
      BY <1>5, <2>1
    <3>2. Greatest(1..(j + 1)) = j + 1 /\ (1..(j + 1)) \ {j + 1} = 1..j
      BY <3>1, GreatestOfFirst
    <3> QED
      BY <3>1, <3>2
  <2>3. f[1..i] = turn(c, f[1..(i - 1)], s[i])
    <3>1. 1..i \in SUBSET (1..n)
      OBVIOUS
    <3> QED
      BY <1>1, <2>2, <3>1 DEF Folds, Folded
  <2> QED
    BY <1>3, <1>5, <2>1, <2>3
<1> QED
  BY <1>4, <1>5
=============================================================================
