------------------------------- MODULE Induction -------------------------------
(***************************************************************************)
(* Induction, stated over sets: a set of numbers (of sequences) that has   *)
(* the first and, with one, the next, has them all.  And functions defined *)
(* by recursion: they exist, and have the type of their values.            *)
(***************************************************************************)
EXTENDS Integers, Sequences, SequenceTheorems, WellFoundedInduction, TLAPS

(* Of a set with 0 that fails to have every number, take the least it has   *)
(* not.                                                                     *)
LEMMA NatInductionOnSets ==
  ASSUME NEW S, 0 \in S, \A n \in Nat : n \in S => n + 1 \in S
  PROVE  \A n \in Nat : n \in S
<1> DEFINE T == Nat \ S
           R == OpToRel(<, Nat)
<1>1. SUFFICES ASSUME T # {} PROVE FALSE
  OBVIOUS
<1>2. IsWellFoundedOn(R, Nat)
  BY NatLessThanWellFounded, Zenon
<1>3. PICK x \in T : \A y \in T : <<y, x>> \notin R
  <2> HIDE DEF R
  <2>1. T \subseteq Nat /\ T # {}
    BY <1>1
  <2> HIDE DEF T
  <2>2. QED
    BY <1>2, <2>1, WFMin, Zenon
<1>4. x \in Nat /\ x # 0 /\ x - 1 \in Nat /\ x = (x - 1) + 1
  OBVIOUS
<1>5. x - 1 \in T
  BY <1>4
<1>6. <<x - 1, x>> \in R
  <2>1. x - 1 < x
    BY <1>4
  <2>2. QED
    BY <1>4, <2>1, Zenon DEF OpToRel
<1>7. QED
  BY <1>3, <1>5, <1>6

(* Up to a bound.                                                           *)
LEMMA UpTo ==
  ASSUME NEW M \in Nat, NEW S, 0 \in S,
         \A m \in 0..(M - 1) : m \in S => m + 1 \in S
  PROVE  \A m \in 0..M : m \in S
<1> DEFINE T == {m \in Nat : m <= M => m \in S}
<1>1. 0 \in T /\ \A m \in Nat : m \in T => m + 1 \in T
  OBVIOUS
<1> HIDE DEF T
<1>2. \A m \in Nat : m \in T
  BY <1>1, NatInductionOnSets
<1>3. QED
  BY <1>2 DEF T

(* Over sequences, by their last element.                                   *)
LEMMA SeqInduction ==
  ASSUME NEW X, NEW S, <<>> \in S,
         \A s \in Seq(X), e \in X : s \in S => Append(s, e) \in S
  PROVE  \A s \in Seq(X) : s \in S
<1> DEFINE T == {m \in Nat : \A s \in Seq(X) : Len(s) = m => s \in S}
<1>1. 0 \in T
  BY EmptySeq
<1>2. ASSUME NEW m \in Nat, m \in T PROVE m + 1 \in T
  <2> SUFFICES ASSUME NEW s \in Seq(X), Len(s) = m + 1 PROVE s \in S
    OBVIOUS
  <2>1. s # <<>>
    BY EmptySeq
  <2>2. PICK t \in Seq(X), e \in X : s = Append(t, e)
    BY <2>1, SequenceEmptyOrAppend
  <2>3. Len(t) = m
    BY <2>2, AppendProperties, LenProperties
  <2>4. QED
    BY <1>2, <2>2, <2>3
<1> HIDE DEF T
<1>3. \A m \in Nat : m \in T
  BY <1>1, <1>2, NatInductionOnSets
<1>4. QED
  BY <1>3, LenProperties DEF T

(* A function that a value and a step define exists, and has the values'    *)
(* type.                                                                    *)
Recurs(g, M, v, step) ==
  g = [m \in 0..M |-> IF m = 0 THEN v ELSE step[m][g[m - 1]]]

LEMMA Recursion ==
  ASSUME NEW M \in Nat, NEW V, NEW v \in V, NEW step \in [1..M -> [V -> V]]
  PROVE  \E g \in [0..M -> V] : Recurs(g, M, v, step)
<1> DEFINE S == {m \in 0..M : \E g \in [0..m -> V] : Recurs(g, m, v, step)}
<1>1. 0 \in S
  <2> DEFINE g == [c \in 0..0 |-> v]
  <2>1. g \in [0..0 -> V] /\ Recurs(g, 0, v, step)
    BY DEF Recurs
  <2> HIDE DEF g
  <2>2. QED
    BY <2>1
<1>2. ASSUME NEW m \in 0..(M - 1), m \in S PROVE m + 1 \in S
  <2>1. PICK g \in [0..m -> V] : Recurs(g, m, v, step)
    BY <1>2
  <2> DEFINE h == [c \in 0..(m + 1) |-> IF c <= m THEN g[c] ELSE step[m + 1][g[m]]]
  <2>2. m + 1 \in 1..M /\ m \in 0..m /\ g[m] \in V
    OBVIOUS
  <2>3. step[m + 1][g[m]] \in V
    BY <2>2
  <2>4. h \in [0..(m + 1) -> V]
    BY <2>3
  <2>5. ASSUME NEW c \in 0..(m + 1)
        PROVE  h[c] = IF c = 0 THEN v ELSE step[c][h[c - 1]]
    <3>1. CASE c <= m
      <4>1. c \in 0..m /\ (c # 0 => c - 1 \in 0..m)
        BY <3>1
      <4>2. h[c] = g[c] /\ (c # 0 => h[c - 1] = g[c - 1])
        BY <4>1
      <4>3. g[c] = IF c = 0 THEN v ELSE step[c][g[c - 1]]
        BY <2>1, <4>1 DEF Recurs
      <4>4. QED
        BY <4>2, <4>3, Zenon
    <3>2. CASE c = m + 1
      BY <3>2
    <3>3. QED
      BY <3>1, <3>2
  <2>6. Recurs(h, m + 1, v, step)
    BY <2>5 DEF Recurs
  <2> HIDE DEF h
  <2>7. QED
    BY <2>2, <2>4, <2>6
<1> HIDE DEF S
<1>3. \A m \in 0..M : m \in S
  BY <1>1, <1>2, UpTo
<1>4. M \in S
  BY <1>3
<1>5. QED
  BY <1>4 DEF S

================================================================================
