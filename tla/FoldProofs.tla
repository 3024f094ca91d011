----------------------------- MODULE FoldProofs -----------------------------
(***************************************************************************)
(* What a fold from the left keeps.  Op is the step, Kept(c, i, v) what is *)
(* true of the value v after i steps; c stands for whatever else Kept      *)
(* speaks of.  A module that folds with an operator of its own             *)
(* instantiates Op and Kept.                                               *)
(***************************************************************************)
EXTENDS Integers, SequencesExt, FiniteSetTheorems, WellFoundedInduction, TLAPS

CONSTANTS Op(_, _), Kept(_, _, _)

\* A set of naturals has a least member.
LEMMA LeastOf ==
    ASSUME NEW T \in SUBSET Nat, T # {}
    PROVE  \E x \in T : \A y \in T : x <= y
<1> DEFINE Less == {ss \in Nat \X Nat : ss[1] < ss[2]}
<1>1. OpToRel(<, Nat) = Less
  BY Zenon DEF OpToRel
<1>2. IsWellFoundedOn(Less, Nat)
  BY <1>1, NatLessThanWellFounded, Zenon
<1> HIDE DEF Less
<1>3. PICK x \in T : \A y \in T : ~(<<y, x>> \in Less)
  BY <1>2, WFMin
<1>4. ASSUME NEW y \in T PROVE x <= y
  <2>1. x \in Nat /\ y \in Nat /\ ~(<<y, x>> \in Less)
    BY <1>3
  <2>2. ~(y < x)
    BY <2>1 DEF Less
  <2> QED
    BY <2>1, <2>2
<1> QED
  BY <1>4

\* Max() of a nonempty set of positions is its greatest member.
LEMMA MaxOf ==
    ASSUME NEW n \in Nat, NEW s \in SUBSET (1 .. n), s # {}
    PROVE  Max(s) \in s /\ \A k \in s : k <= Max(s)
<1> DEFINE Above == {m \in Nat : \A k \in s : k <= m}
<1>1. n \in Above /\ Above \in SUBSET Nat
  OBVIOUS
<1>2. PICK m \in Above : \A o \in Above : m <= o
  BY <1>1, LeastOf
<1>3. m \in s
  <2> SUFFICES ASSUME m \notin s PROVE FALSE
    OBVIOUS
  <2>1. \A k \in s : k < m /\ k \in Nat /\ 1 <= k
    BY <1>2
  <2>2. m \in Nat
    BY <1>2
  <2>3. m # 0 /\ \A k \in s : k <= m - 1
    <3> HIDE DEF Above
    <3>1. PICK k \in s : TRUE
      OBVIOUS
    <3>2. k < m /\ k \in Nat
      BY <3>1, <2>1
    <3> QED
      BY <3>2, <2>1, <2>2
  <2>4. m - 1 \in Above
    BY <2>2, <2>3
  <2> QED
    BY <2>2, <2>4, <1>2
<1>4. \E x \in s : \A y \in s : x >= y
  BY <1>2, <1>3
<1> HIDE DEF Above
<1> QED
  BY <1>4 DEF Max

\* A table of the fold's values for the subsets of 1..n.
Table(seq, base, n, g) ==
    g = [s \in SUBSET (1 .. n) |->
            IF s = {} THEN base ELSE Op(g[s \ {Max(s)}], seq[Max(s)])]

\* The fold's intermediate values, one for each prefix of the sequence.
LEMMA TableExists ==
    ASSUME NEW seq, NEW base
    PROVE  \A n \in Nat : \E g : Table(seq, base, n, g)
<1> DEFINE Bad == {n \in Nat : ~ \E g : Table(seq, base, n, g)}
<1> SUFFICES ASSUME Bad # {} PROVE FALSE
  OBVIOUS
<1>1. PICK n \in Bad : \A m \in Bad : n <= m
  BY LeastOf
<1>2. n # 0
  <2> SUFFICES ASSUME n = 0 PROVE FALSE
    OBVIOUS
  <2> DEFINE g == [s \in SUBSET (1 .. 0) |-> base]
  <2>1. \A s \in SUBSET (1 .. 0) : s = {}
    OBVIOUS
  <2>2. g = [s \in SUBSET (1 .. 0) |->
                IF s = {} THEN base ELSE Op(g[s \ {Max(s)}], seq[Max(s)])]
    BY <2>1
  <2>3. Table(seq, base, 0, g)
    BY <2>2 DEF Table
  <2> QED
    BY <2>3, <1>1
<1>3. n \in Nat /\ n - 1 \in Nat /\ n - 1 \notin Bad
  BY <1>1, <1>2
<1>4. PICK h : Table(seq, base, n - 1, h)
  BY <1>3
<1> DEFINE g == [s \in SUBSET (1 .. n) |->
                    IF n \in s THEN Op(h[s \ {n}], seq[n]) ELSE h[s]]
<1>5. ASSUME NEW s \in SUBSET (1 .. n)
      PROVE  g[s] = IF s = {} THEN base ELSE Op(g[s \ {Max(s)}], seq[Max(s)])
  <2>1. CASE n \in s
    <3>1. Max(s) = n
      <4> HIDE DEF g
      <4>1. Max(s) \in s /\ \A k \in s : k <= Max(s)
        BY <2>1, <1>3, MaxOf
      <4>2. Max(s) \in 1 .. n
        BY <4>1
      <4> QED
        BY <4>1, <4>2, <2>1, <1>3
    <3>2. g[s \ {n}] = h[s \ {n}]
      OBVIOUS
    <3> QED
      BY <3>1, <3>2, <2>1
  <2>2. CASE n \notin s
    <3>1. s \in SUBSET (1 .. (n - 1))
      BY <2>2, <1>3
    <3>2. h[s] = IF s = {} THEN base ELSE Op(h[s \ {Max(s)}], seq[Max(s)])
      BY <3>1, <1>4 DEF Table
    <3>3. g[s] = h[s] /\ g[s \ {Max(s)}] = h[s \ {Max(s)}]
      BY <2>2
    <3> QED
      BY <3>2, <3>3
  <2> QED
    BY <2>1, <2>2
<1>6. g = [s \in SUBSET (1 .. n) |-> g[s]]
  OBVIOUS
<1> HIDE DEF g
<1>7. Table(seq, base, n, g)
  BY <1>5, <1>6 DEF Table
<1> QED
  BY <1>7, <1>1

\* What holds at first, and after each step if it held before it, holds at the end.
LEMMA FoldKeeps ==
    ASSUME NEW c, NEW base, NEW seq,
           seq = [i \in 1 .. Len(seq) |-> seq[i]], Len(seq) \in Nat,
           Kept(c, 0, base),
           \A i \in 1 .. Len(seq) : \A v :
               Kept(c, i - 1, v) => Kept(c, i, Op(v, seq[i]))
    PROVE  Kept(c, Len(seq), FoldLeft(Op, base, seq))
<1> DEFINE n == Len(seq)
           g == CHOOSE h : Table(seq, base, n, h)
<1>1. DOMAIN seq = 1 .. n
  OBVIOUS
<1>2. FoldLeft(Op, base, seq) = g[1 .. n]
  BY <1>1, Zenon DEF FoldLeft, MapThenFoldSet, Table
<1>3. n \in Nat
  OBVIOUS
<1> HIDE DEF n
<1>4. Table(seq, base, n, g)
  BY <1>3, TableExists
<1> HIDE DEF g
<1>5. \A s \in SUBSET (1 .. n) :
          g[s] = IF s = {} THEN base ELSE Op(g[s \ {Max(s)}], seq[Max(s)])
  BY <1>4 DEF Table
<1>6. g[1 .. 0] = base
  <2>1. 1 .. 0 = {}
    OBVIOUS
  <2> QED
    BY <2>1, <1>5
<1>7. ASSUME NEW k \in 1 .. n
      PROVE  g[1 .. k] = Op(g[1 .. (k - 1)], seq[k])
  <2>1. k \in 1 .. k /\ (1 .. k) \in SUBSET (1 .. n) /\ k \in Nat
    BY <1>3
  <2>2. Max(1 .. k) \in 1 .. k /\ \A j \in 1 .. k : j <= Max(1 .. k)
    BY <2>1, <1>3, MaxOf
  <2>3. Max(1 .. k) = k
    BY <2>1, <2>2
  <2>4. (1 .. k) \ {k} = 1 .. (k - 1)
    BY <2>1
  <2> QED
    BY <2>1, <2>3, <2>4, <1>5
<1> DEFINE Bad == {k \in 0 .. n : ~ Kept(c, k, g[1 .. k])}
<1>8. Bad = {}
  <2> SUFFICES ASSUME Bad # {} PROVE FALSE
    OBVIOUS
  <2>0. Bad \in SUBSET Nat
    BY <1>3
  <2>1. PICK k \in Bad : \A m \in Bad : k <= m
    <3> HIDE DEF Bad
    <3> QED
      BY <2>0, LeastOf
  <2>2. k # 0
    <3>1. Kept(c, 0, g[1 .. 0])
      BY <1>6
    <3> QED
      BY <3>1, <2>1
  <2>3. k \in 1 .. n /\ k - 1 \in 0 .. n /\ k - 1 \notin Bad
    BY <2>1, <2>2, <1>3
  <2>4. Kept(c, k - 1, g[1 .. (k - 1)])
    BY <2>3
  <2>5. Kept(c, k, Op(g[1 .. (k - 1)], seq[k]))
    BY <2>3, <2>4 DEF n
  <2>6. Kept(c, k, g[1 .. k])
    BY <2>5, <2>3, <1>7
  <2> QED
    BY <2>1, <2>6
<1>9. n \in 0 .. n
  BY <1>3
<1> QED
  BY <1>2, <1>8, <1>9 DEF n
=============================================================================
