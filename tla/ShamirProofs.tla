------------------------------ MODULE ShamirProofs ------------------------------
(***************************************************************************)
(* Theorems about shamir.c, for every threshold, polynomial and choice of  *)
(* shares.                                                                 *)
(*                                                                         *)
(* Times, the product of polynomials modulo x^8 + x^4 + x^3 + x + 1,       *)
(* respects ^ on either side, so it is known from the eight bits.  Its     *)
(* powers of 0x03 have order 255, hence are all the bytes but 0: the laws  *)
(* of the field follow, and that the tables of gf_init multiply and        *)
(* divide.  Lagrange's interpolation gives back the secret by induction    *)
(* over the polynomial's tails, cutting a share off at a time; that it is  *)
(* the only one through its shares makes fewer of them say nothing.        *)
(***************************************************************************)
EXTENDS Shamir, GfInit, Induction, FiniteSetTheorems, FunctionTheorems, TLAPS

---------------------------------------------------------------------------
(* Bytes under ^.                                                           *)

(* A bit of a sum.                                                          *)
LEMMA XorBit ==
  ASSUME NEW a, NEW b, NEW f
  PROVE  f \in xor(a, b) <=> ~(f \in a <=> f \in b)
BY DEF xor

(* ^ is a commutative group in which every byte is its own inverse.         *)
LEMMA XorLaws ==
  /\ zero \in Byte /\ one \in Byte /\ one # zero
  /\ \A a, b \in Byte : xor(a, b) \in Byte /\ xor(a, b) = xor(b, a)
  /\ \A a \in Byte : xor(a, zero) = a /\ xor(zero, a) = a /\ xor(a, a) = zero
  /\ \A a, b \in Byte : xor(a, b) = zero => a = b
  /\ \A a, b, c \in Byte : xor(xor(a, b), c) = xor(a, xor(b, c))
<1>1. zero \in Byte /\ one \in Byte /\ one # zero
  BY DEF zero, one, Byte
<1>2. \A a, b \in Byte : xor(a, b) \in Byte /\ xor(a, b) = xor(b, a)
  BY DEF Byte, xor
<1>3. \A a \in Byte : xor(a, zero) = a /\ xor(zero, a) = a /\ xor(a, a) = zero
  BY DEF xor, zero
<1>4. \A a, b \in Byte : xor(a, b) = zero => a = b
  BY DEF xor, zero
<1>5. ASSUME NEW a, NEW b, NEW c
      PROVE  xor(xor(a, b), c) = xor(a, xor(b, c))
  <2>1. \A f : f \in xor(xor(a, b), c) <=> f \in xor(a, xor(b, c))
    BY XorBit
  <2>2. QED
    BY <2>1
<1>6. QED
  BY <1>1, <1>2, <1>3, <1>4, <1>5

(* Two sums of two, taken the other way round.                              *)
LEMMA XorSwap ==
  ASSUME NEW a, NEW b, NEW c, NEW d
  PROVE  xor(xor(a, b), xor(c, d)) = xor(xor(a, c), xor(b, d))
<1>1. \A f : f \in xor(xor(a, b), xor(c, d)) <=> f \in xor(xor(a, c), xor(b, d))
  BY XorBit
<1>2. QED
  BY <1>1

(* A function that respects ^ is known from the eight bits.                 *)
Bit(e)    == {e}
Linear(F) == \A a, b \in Byte : F[xor(a, b)] = xor(F[a], F[b])

(* It maps 0 to 0.                                                          *)
LEMMA LinearZero ==
  ASSUME NEW F \in [Byte -> Byte], Linear(F)
  PROVE  F[zero] = zero
<1>1. F[xor(zero, zero)] = xor(F[zero], F[zero])
  BY XorLaws, Zenon DEF Linear
<1>2. xor(zero, zero) = zero /\ F[zero] \in Byte
  BY XorLaws
<1>3. xor(F[zero], F[zero]) = zero
  BY <1>2, XorLaws, Zenon
<1>4. QED
  BY <1>1, <1>2, <1>3, Zenon

(* Two of them that agree on the bits are the same.                         *)
LEMMA SameOnBits ==
  ASSUME NEW F \in [Byte -> Byte], NEW G \in [Byte -> Byte],
         Linear(F), Linear(G), \A e \in 0..7 : F[Bit(e)] = G[Bit(e)]
  PROVE  \A a \in Byte : F[a] = G[a]
<1> USE DEF Bit
<1> DEFINE S == {n \in 0..8 : \A a \in Byte : a \subseteq 0..(n - 1) => F[a] = G[a]}
<1>1. 0 \in S
  <2>1. \A a \in Byte : a \subseteq 0..(0 - 1) => a = zero
    BY DEF zero
  <2>2. F[zero] = G[zero]
    BY LinearZero
  <2>3. QED
    BY <2>1, <2>2
<1>2. ASSUME NEW n \in 0..(8 - 1), n \in S PROVE n + 1 \in S
  <2>1. ASSUME NEW a \in Byte, a \subseteq 0..((n + 1) - 1) PROVE F[a] = G[a]
    <3>1. CASE n \notin a
      <4>1. a \subseteq 0..(n - 1)
        BY <2>1, <3>1
      <4>2. QED
        BY <1>2, <4>1
    <3>2. CASE n \in a
      <4> DEFINE rest == a \ {n}
      <4>1. rest \in Byte /\ rest \subseteq 0..(n - 1)
        BY <2>1 DEF Byte
      <4>2. a = xor(rest, {n}) /\ {n} \in Byte
        BY <3>2 DEF xor, Byte
      <4> HIDE DEF rest
      <4>3. F[rest] = G[rest] /\ F[{n}] = G[{n}]
        <5>1. \A b \in Byte : b \subseteq 0..(n - 1) => F[b] = G[b]
          BY <1>2
        <5>2. n \in 0..7
          BY <1>2
        <5>3. QED
          BY <4>1, <5>1, <5>2
      <4>4. F[xor(rest, {n})] = xor(F[rest], F[{n}])
        BY <4>1, <4>2, Zenon DEF Linear
      <4>5. G[xor(rest, {n})] = xor(G[rest], G[{n}])
        BY <4>1, <4>2, Zenon DEF Linear
      <4>6. QED
        BY <4>2, <4>3, <4>4, <4>5, Zenon
    <3>3. QED
      BY <3>1, <3>2
  <2>2. QED
    BY <2>1
<1> HIDE DEF S
<1>3. \A n \in 0..8 : n \in S
  BY <1>1, <1>2, UpTo
<1>4. 8 \in S
  BY <1>3
<1>5. \A a \in Byte : a \subseteq 0..(8 - 1)
  BY DEF Byte
<1>6. QED
  BY <1>4, <1>5 DEF S

---------------------------------------------------------------------------
(* Multiplication by 0x03, as gf_init does it.                              *)

T3 == [a \in Byte |-> times3(a, a)]

(* The constant 0x1b of gf_init.                                            *)
LEMMA Generator == uint8(27) = {0, 1, 3, 4}
<1>1. BitValue[1] = 1 /\ BitValue[2] = 2 /\ BitValue[3] = 4 /\ BitValue[4] = 8
  BY DEF BitValue
<1>2. /\ BitValue[5] = 16 /\ BitValue[6] = 32 /\ BitValue[7] = 64
      /\ BitValue[8] = 128
  BY DEF BitValue
<1>3. \A e \in 0..7 : (27 \div BitValue[e + 1]) % 2 = 1 <=> e \in {0, 1, 3, 4}
  <2> SUFFICES ASSUME NEW e \in 0..7
               PROVE  (27 \div BitValue[e + 1]) % 2 = 1 <=> e \in {0, 1, 3, 4}
    OBVIOUS
  <2>1. CASE e = 0
    BY <1>1, <2>1
  <2>2. CASE e = 1
    BY <1>1, <2>2
  <2>3. CASE e = 2
    BY <1>1, <2>3
  <2>4. CASE e = 3
    BY <1>1, <2>4
  <2>5. CASE e = 4
    BY <1>2, <2>5
  <2>6. CASE e = 5
    BY <1>2, <2>6
  <2>7. CASE e = 6
    BY <1>2, <2>7
  <2>8. CASE e = 7
    BY <1>2, <2>8
  <2>9. QED
    BY <2>1, <2>2, <2>3, <2>4, <2>5, <2>6, <2>7, <2>8
<1>4. QED
  BY <1>3 DEF uint8

(* An x-coordinate from 1 to 255 has a bit that is set.                     *)
LEMMA NonzeroByte ==
  ASSUME NEW v \in 1..255
  PROVE  uint8(v) \in Byte /\ uint8(v) # zero
<1>1. BitValue[1] = 1 /\ BitValue[2] = 2 /\ BitValue[3] = 4 /\ BitValue[4] = 8
  BY DEF BitValue
<1>2. /\ BitValue[5] = 16 /\ BitValue[6] = 32 /\ BitValue[7] = 64
      /\ BitValue[8] = 128
  BY DEF BitValue
<1>3. ASSUME uint8(v) = zero PROVE FALSE
  <2>1. \A e \in 0..7 : (v \div BitValue[e + 1]) % 2 # 1
    BY <1>3 DEF uint8, zero
  <2>2. /\ (v \div 1) % 2 # 1 /\ (v \div 2) % 2 # 1
        /\ (v \div 4) % 2 # 1 /\ (v \div 8) % 2 # 1
    BY <1>1, <2>1
  <2>3. /\ (v \div 16) % 2 # 1 /\ (v \div 32) % 2 # 1
        /\ (v \div 64) % 2 # 1 /\ (v \div 128) % 2 # 1
    BY <1>2, <2>1
  <2>4. QED
    BY <2>2, <2>3, SMTT(30)
<1>4. QED
  BY <1>3 DEF uint8, Byte

(* The bits of 0x03 * a.                                                    *)
LEMMA T3Bit ==
  ASSUME NEW a \in Byte, NEW f \in 0..7
  PROVE  f \in T3[a] <=>
           ((f >= 1 /\ f - 1 \in a) <=> ((7 \in a /\ f \in {0, 1, 3, 4}) <=> f \in a))
<1> DEFINE shifted == {e + 1 : e \in a \ {7}}
<1>1. f \in shifted <=> f >= 1 /\ f - 1 \in a
  <2>1. ASSUME f \in shifted PROVE f >= 1 /\ f - 1 \in a
    BY <2>1 DEF Byte
  <2>2. ASSUME f >= 1, f - 1 \in a PROVE f \in shifted
    <3>1. f - 1 \in a \ {7} /\ f = (f - 1) + 1
      BY <2>2
    <3>2. QED
      BY <3>1
  <2>3. QED
    BY <2>1, <2>2
<1>2. T3[a] = xor(IF 7 \in a THEN xor(shifted, {0, 1, 3, 4}) ELSE shifted, a)
  BY Generator DEF T3, times3
<1> HIDE DEF shifted
<1>3. QED
  BY <1>1, <1>2, XorBit

LEMMA T3Type == T3 \in [Byte -> Byte]
<1> SUFFICES ASSUME NEW a \in Byte PROVE times3(a, a) \in Byte
  BY DEF T3
<1>1. {e + 1 : e \in a \ {7}} \in Byte
  BY DEF Byte
<1>2. uint8(27) \in Byte
  BY DEF uint8, Byte
<1>3. QED
  BY <1>1, <1>2, XorLaws DEF times3

LEMMA T3Linear == Linear(T3)
<1> SUFFICES ASSUME NEW a \in Byte, NEW b \in Byte
             PROVE  T3[xor(a, b)] = xor(T3[a], T3[b])
  BY DEF Linear
<1>1. xor(a, b) \in Byte
  BY XorLaws
<1>2. ASSUME NEW f \in 0..7
      PROVE  f \in T3[xor(a, b)] <=> f \in xor(T3[a], T3[b])
  BY <1>1, T3Bit, XorBit
<1>3. T3[xor(a, b)] \in Byte /\ xor(T3[a], T3[b]) \in Byte
  BY <1>1, T3Type, XorLaws
<1>4. QED
  BY <1>2, <1>3 DEF Byte

(* No byte but 0 is mapped to 0.                                            *)
LEMMA T3Injective ==
  ASSUME NEW a \in Byte, T3[a] = zero
  PROVE  a = zero
<1>1. \A f \in 0..7 : f \notin T3[a]
  BY DEF zero
<1>2. /\ 7 \in a <=> 6 \in a
      /\ 6 \in a <=> 5 \in a
      /\ 5 \in a <=> 4 \in a
  BY <1>1, T3Bit
<1>3. /\ 4 \in a <=> ~(3 \in a <=> 7 \in a)
      /\ 3 \in a <=> ~(2 \in a <=> 7 \in a)
      /\ 2 \in a <=> 1 \in a
      /\ 1 \in a <=> ~(0 \in a <=> 7 \in a)
      /\ 0 \in a <=> 7 \in a
  BY <1>1, T3Bit
<1>4. \A f \in 0..7 : f \notin a
  BY <1>2, <1>3
<1>5. QED
  BY <1>4 DEF Byte, zero

---------------------------------------------------------------------------
(* Multiplication of polynomials, and their residues: both respect ^.       *)

(* The bits that an exponent e taken out of q leaves behind.                *)
Folded(e)    == {m + e - 8 : m \in Modulus}
Reduce(e, q) == IF e \in q THEN xor(q, Folded(e)) ELSE q

Polynomial == SUBSET (0..14)

(* Folded is the modulus without its highest bit, moved up by e - 8.        *)
LEMMA FoldedIs ==
  ASSUME NEW e \in 8..14
  PROVE  Folded(e) = {e - 8, e - 7, e - 5, e - 4, e}
BY DEF Folded, Modulus

(* A step takes exponent e out and brings nothing above it.                 *)
LEMMA ReduceKeeps ==
  ASSUME NEW e \in 8..14, NEW q \in SUBSET (0..e)
  PROVE  Reduce(e, q) \in SUBSET (0..(e - 1))
<1>1. CASE e \in q
  <2>1. Reduce(e, q) = xor(q, Folded(e))
    BY <1>1 DEF Reduce
  <2>2. Folded(e) = {e - 8, e - 7, e - 5, e - 4, e}
    BY FoldedIs
  <2>3. Folded(e) \subseteq 0..e /\ e \in Folded(e)
    BY <2>2
  <2>4. \A f : f \in xor(q, Folded(e)) => f \in 0..e /\ f # e
    BY <1>1, <2>3, XorBit
  <2>5. QED
    BY <2>1, <2>4
<1>2. CASE e \notin q
  BY <1>2 DEF Reduce
<1>3. QED
  BY <1>1, <1>2

(* A step respects ^.                                                       *)
LEMMA ReduceLinear ==
  ASSUME NEW e, NEW p, NEW q
  PROVE  Reduce(e, xor(p, q)) = xor(Reduce(e, p), Reduce(e, q))
<1> DEFINE M == Folded(e)
<1>1. \A f : f \in Reduce(e, xor(p, q)) <=> f \in xor(Reduce(e, p), Reduce(e, q))
  <2> SUFFICES ASSUME NEW f
               PROVE  f \in Reduce(e, xor(p, q)) <=> f \in xor(Reduce(e, p), Reduce(e, q))
    OBVIOUS
  <2> HIDE DEF M
  <2>1. \A r : f \in Reduce(e, r) <=> ~(f \in r <=> (e \in r /\ f \in Folded(e)))
    BY XorBit DEF Reduce
  <2>2. e \in xor(p, q) <=> ~(e \in p <=> e \in q)
    BY XorBit
  <2>3. f \in xor(p, q) <=> ~(f \in p <=> f \in q)
    BY XorBit
  <2>4. f \in xor(Reduce(e, p), Reduce(e, q))
          <=> ~(f \in Reduce(e, p) <=> f \in Reduce(e, q))
    BY XorBit
  <2>5. QED
    BY <2>1, <2>2, <2>3, <2>4
<1>2. QED
  BY <1>1

(* Residue's recursion, unfolded.                                           *)
Reduced(p) ==
  Reduce(8, Reduce(9, Reduce(10, Reduce(11, Reduce(12, Reduce(13, Reduce(14, p)))))))

Reduces(p, r) ==
  r = [e \in 8..15 |->
         IF e = 15 THEN p
         ELSE IF e \in r[e + 1] THEN xor(r[e + 1], Folded(e)) ELSE r[e + 1]]

LEMMA ResidueIs ==
  ASSUME NEW p
  PROVE  Residue(p) = Reduced(p)
<1> DEFINE q14 == Reduce(14, p)
           q13 == Reduce(13, q14)
           q12 == Reduce(12, q13)
           q11 == Reduce(11, q12)
           q10 == Reduce(10, q11)
           q9  == Reduce(9, q10)
           q8  == Reduce(8, q9)
           g == [e \in 8..15 |-> IF e = 15 THEN p ELSE IF e = 14 THEN q14
                                 ELSE IF e = 13 THEN q13 ELSE IF e = 12 THEN q12
                                 ELSE IF e = 11 THEN q11 ELSE IF e = 10 THEN q10
                                 ELSE IF e = 9 THEN q9 ELSE q8]
<1>1. Residue(p) = (CHOOSE r : Reduces(p, r))[8]
  BY DEF Residue, Reduces, Folded
<1>2. \E r : Reduces(p, r)
  <2>1. /\ g[15] = p /\ g[14] = Reduce(14, g[15]) /\ g[13] = Reduce(13, g[14])
        /\ g[12] = Reduce(12, g[13]) /\ g[11] = Reduce(11, g[12])
        /\ g[10] = Reduce(10, g[11]) /\ g[9] = Reduce(9, g[10])
        /\ g[8] = Reduce(8, g[9]) /\ g = [e \in 8..15 |-> g[e]]
    OBVIOUS
  <2> HIDE DEF g
  <2>2. \A e \in 8..15 : g[e] = IF e = 15 THEN p ELSE Reduce(e, g[e + 1])
    <3> SUFFICES ASSUME NEW e \in 8..15
                 PROVE  g[e] = IF e = 15 THEN p ELSE Reduce(e, g[e + 1])
      OBVIOUS
    <3>1. CASE e \in {8, 9, 10, 11}
      BY <2>1, <3>1
    <3>2. CASE e \in {12, 13, 14, 15}
      BY <2>1, <3>2
    <3>3. QED
      BY <3>1, <3>2
  <2>3. g = [e \in 8..15 |-> IF e = 15 THEN p ELSE Reduce(e, g[e + 1])]
    BY <2>1, <2>2
  <2>4. QED
    BY <2>3 DEF Reduces, Reduce
<1>3. PICK r : r = (CHOOSE h : Reduces(p, h)) /\ Reduces(p, r)
  BY <1>2
<1>4. \A e \in 8..15 : r[e] = IF e = 15 THEN p ELSE Reduce(e, r[e + 1])
  BY <1>3 DEF Reduces, Reduce
<1>5. /\ r[15] = p /\ r[14] = Reduce(14, r[15]) /\ r[13] = Reduce(13, r[14])
      /\ r[12] = Reduce(12, r[13]) /\ r[11] = Reduce(11, r[12])
      /\ r[10] = Reduce(10, r[11]) /\ r[9] = Reduce(9, r[10])
      /\ r[8] = Reduce(8, r[9])
  BY <1>4
<1>6. r[8] = Reduced(p)
  BY <1>5, Zenon DEF Reduced
<1>7. QED
  BY <1>1, <1>3, <1>6, Zenon

LEMMA ResidueLinear ==
  ASSUME NEW p, NEW q
  PROVE  Residue(xor(p, q)) = xor(Residue(p), Residue(q))
<1>1. Reduced(xor(p, q)) = xor(Reduced(p), Reduced(q))
  <2>1. \A e, a, b, c :
          c = xor(a, b) => Reduce(e, c) = xor(Reduce(e, a), Reduce(e, b))
    BY ReduceLinear
  <2>2. PICK a, b, c : /\ a = Reduce(12, Reduce(13, Reduce(14, p)))
                       /\ b = Reduce(12, Reduce(13, Reduce(14, q)))
                       /\ c = Reduce(12, Reduce(13, Reduce(14, xor(p, q))))
    OBVIOUS
  <2>3. c = xor(a, b)
    <3>1. Reduce(14, xor(p, q)) = xor(Reduce(14, p), Reduce(14, q))
      BY <2>1
    <3>2. Reduce(13, Reduce(14, xor(p, q)))
            = xor(Reduce(13, Reduce(14, p)), Reduce(13, Reduce(14, q)))
      BY <2>1, <3>1
    <3>3. Reduce(12, Reduce(13, Reduce(14, xor(p, q)))) = xor(a, b)
      BY <2>1, <2>2, <3>2
    <3>4. QED
      BY <2>2, <3>3, Zenon
  <2>4. Reduce(11, c) = xor(Reduce(11, a), Reduce(11, b))
    BY <2>1, <2>3
  <2>5. Reduce(10, Reduce(11, c))
          = xor(Reduce(10, Reduce(11, a)), Reduce(10, Reduce(11, b)))
    BY <2>1, <2>4
  <2>6. PICK d, f, h : /\ d = Reduce(10, Reduce(11, a))
                       /\ f = Reduce(10, Reduce(11, b))
                       /\ h = Reduce(10, Reduce(11, c))
    OBVIOUS
  <2>7. Reduce(9, h) = xor(Reduce(9, d), Reduce(9, f))
    BY <2>1, <2>5, <2>6
  <2>8. Reduce(8, Reduce(9, h)) = xor(Reduce(8, Reduce(9, d)), Reduce(8, Reduce(9, f)))
    BY <2>1, <2>7
  <2>9. /\ Reduced(p) = Reduce(8, Reduce(9, d))
        /\ Reduced(q) = Reduce(8, Reduce(9, f))
        /\ Reduced(xor(p, q)) = Reduce(8, Reduce(9, h))
    BY <2>2, <2>6, Zenon DEF Reduced
  <2>10. QED
    BY <2>8, <2>9, Zenon
<1>2. QED
  BY <1>1, ResidueIs, Zenon

(* A residue is a byte.                                                     *)
LEMMA ResidueType ==
  ASSUME NEW p \in Polynomial
  PROVE  Residue(p) \in Byte
<1>1. Reduce(14, p) \in SUBSET (0..13)
  BY ReduceKeeps DEF Polynomial
<1>2. Reduce(13, Reduce(14, p)) \in SUBSET (0..12)
  BY <1>1, ReduceKeeps
<1>3. Reduce(12, Reduce(13, Reduce(14, p))) \in SUBSET (0..11)
  BY <1>2, ReduceKeeps
<1>4. Reduce(11, Reduce(12, Reduce(13, Reduce(14, p)))) \in SUBSET (0..10)
  BY <1>3, ReduceKeeps
<1>5. PICK r : r = Reduce(11, Reduce(12, Reduce(13, Reduce(14, p))))
               /\ r \in SUBSET (0..10)
  BY <1>4
<1>6. Reduce(10, r) \in SUBSET (0..9)
  BY <1>5, ReduceKeeps
<1>7. Reduce(9, Reduce(10, r)) \in SUBSET (0..8)
  BY <1>6, ReduceKeeps
<1>8. Reduce(8, Reduce(9, Reduce(10, r))) \in SUBSET (0..7)
  BY <1>7, ReduceKeeps
<1>9. QED
  BY <1>5, <1>8, ResidueIs DEF Reduced, Byte

LEMMA ByteFinite ==
  ASSUME NEW a \in Byte
  PROVE  IsFiniteSet(a)
<1>1. IsFiniteSet(0..7)
  <2>1. 0 \in Int /\ 7 \in Int
    OBVIOUS
  <2>2. QED
    BY <2>1, FS_Interval, Zenon
<1>2. a \in SUBSET (0..7)
  BY DEF Byte
<1>3. QED
  BY <1>1, <1>2, FS_Subset, Zenon

(* Odd and even add up as bits do.                                          *)
Odd(S) == Cardinality(S) % 2 = 1

(* How many are in one of two sets, but not in both, is odd exactly when    *)
(* one of their numbers is.                                                 *)
LEMMA ParityXor ==
  ASSUME NEW S, NEW T, IsFiniteSet(S), IsFiniteSet(T)
  PROVE  Odd(xor(S, T)) <=> ~(Odd(S) <=> Odd(T))
<1>1. /\ IsFiniteSet(S \ T) /\ IsFiniteSet(T \ S) /\ IsFiniteSet(S \cap T)
      /\ IsFiniteSet((S \ T) \cup (T \ S))
  BY FS_Difference, FS_Intersection, FS_Union
<1>2. /\ Cardinality(S \ T) = Cardinality(S) - Cardinality(S \cap T)
      /\ Cardinality(T \ S) = Cardinality(T) - Cardinality(S \cap T)
  <2>1. T \cap S = S \cap T
    OBVIOUS
  <2>2. QED
    BY <2>1, FS_Difference
<1>3. Cardinality((S \ T) \cup (T \ S))
        = Cardinality(S \ T) + Cardinality(T \ S) - 0
  <2>1. (S \ T) \cap (T \ S) = {}
    OBVIOUS
  <2>2. Cardinality((S \ T) \cap (T \ S)) = 0
    BY <2>1, FS_EmptySet
  <2>3. QED
    BY <1>1, <2>2, FS_Union
<1>4. PICK s, t, c : /\ s = Cardinality(S) /\ t = Cardinality(T)
                     /\ c = Cardinality(S \cap T) /\ s \in Nat /\ t \in Nat /\ c \in Nat
  BY <1>1, FS_CardinalityType
<1>5. Cardinality(xor(S, T)) = (s - c) + (t - c)
  BY <1>2, <1>3, <1>4 DEF xor
<1>6. ((s - c) + (t - c)) % 2 = 1 <=> ~(s % 2 = 1 <=> t % 2 = 1)
  BY <1>4
<1>7. QED
  BY <1>4, <1>5, <1>6 DEF Odd

Pairs(a, b, e) == {i1 \in a : e - i1 \in b}

(* A coefficient of a product, by the parity of its pairs.                  *)
LEMMA ProductBit ==
  ASSUME NEW a, NEW b, NEW e \in 0..14
  PROVE  e \in Product(a, b) <=> Odd(Pairs(a, b, e))
BY DEF Product, Odd, Pairs

LEMMA PairsFinite ==
  ASSUME NEW a \in Byte, NEW b, NEW e
  PROVE  IsFiniteSet(Pairs(a, b, e))
<1>1. Pairs(a, b, e) \in SUBSET a
  BY DEF Pairs
<1>2. QED
  BY <1>1, ByteFinite, FS_Subset

(* The product respects ^ on either side.                                   *)
LEMMA ProductLinear ==
  ASSUME NEW a \in Byte, NEW b \in Byte, NEW c \in Byte
  PROVE  /\ Product(xor(a, b), c) = xor(Product(a, c), Product(b, c))
         /\ Product(c, xor(a, b)) = xor(Product(c, a), Product(c, b))
         /\ Product(a, b) \in Polynomial
<1>1. Product(a, b) \in Polynomial
  BY DEF Product, Polynomial
<1>2. \A p, q : Product(p, q) \subseteq 0..14
  BY DEF Product
<1>3. ASSUME NEW e \in 0..14
      PROVE  /\ e \in Product(xor(a, b), c) <=> e \in xor(Product(a, c), Product(b, c))
             /\ e \in Product(c, xor(a, b)) <=> e \in xor(Product(c, a), Product(c, b))
  <2>1. /\ IsFiniteSet(Pairs(a, c, e)) /\ IsFiniteSet(Pairs(b, c, e))
        /\ IsFiniteSet(Pairs(c, a, e)) /\ IsFiniteSet(Pairs(c, b, e))
    BY PairsFinite
  <2>2. Pairs(xor(a, b), c, e) = xor(Pairs(a, c, e), Pairs(b, c, e))
    BY DEF Pairs, xor
  <2>3. Pairs(c, xor(a, b), e) = xor(Pairs(c, a, e), Pairs(c, b, e))
    BY DEF Pairs, xor
  <2>4. Odd(Pairs(xor(a, b), c, e)) <=> ~(Odd(Pairs(a, c, e)) <=> Odd(Pairs(b, c, e)))
    BY <2>1, <2>2, ParityXor
  <2>5. Odd(Pairs(c, xor(a, b), e)) <=> ~(Odd(Pairs(c, a, e)) <=> Odd(Pairs(c, b, e)))
    BY <2>1, <2>3, ParityXor
  <2>6. QED
    BY <2>4, <2>5, ProductBit, XorBit
<1>4. Product(xor(a, b), c) = xor(Product(a, c), Product(b, c))
  <2>1. \A e : e \in Product(xor(a, b), c) <=> e \in xor(Product(a, c), Product(b, c))
    BY <1>2, <1>3, XorBit
  <2>2. QED
    BY <2>1
<1>5. Product(c, xor(a, b)) = xor(Product(c, a), Product(c, b))
  <2>1. \A e : e \in Product(c, xor(a, b)) <=> e \in xor(Product(c, a), Product(c, b))
    BY <1>2, <1>3, XorBit
  <2>2. QED
    BY <2>1
<1>6. QED
  BY <1>1, <1>4, <1>5

(* x^i times x^j.                                                           *)
LEMMA ProductOfBits ==
  ASSUME NEW m \in 0..7, NEW n \in 0..7
  PROVE  Product({m}, {n}) = {m + n}
<1>1. ASSUME NEW e \in 0..14 PROVE Odd(Pairs({m}, {n}, e)) <=> e = m + n
  <2>1. CASE e = m + n
    <3>1. Pairs({m}, {n}, e) = {m}
      BY <2>1 DEF Pairs
    <3>2. Cardinality({m}) = 1
      BY FS_Singleton
    <3>3. Cardinality(Pairs({m}, {n}, e)) = 1
      BY <3>1, <3>2, Zenon
    <3>4. QED
      BY <2>1, <3>3 DEF Odd
  <2>2. CASE e # m + n
    <3>1. Pairs({m}, {n}, e) = {}
      BY <2>2 DEF Pairs
    <3>2. Cardinality({}) = 0
      BY FS_EmptySet
    <3>3. Cardinality(Pairs({m}, {n}, e)) = 0
      BY <3>1, <3>2, Zenon
    <3>4. QED
      BY <2>2, <3>3 DEF Odd
  <2>3. QED
    BY <2>1, <2>2
<1>2. \A e : e \in Product({m}, {n}) => e \in 0..14
  BY DEF Product
<1>3. m + n \in 0..14
  OBVIOUS
<1>4. \A e : e \in Product({m}, {n}) <=> e = m + n
  BY <1>1, <1>2, <1>3, ProductBit
<1>5. QED
  BY <1>4

(* So does the multiplication of bytes.                                     *)
LEMMA TimesLinear ==
  ASSUME NEW a \in Byte, NEW b \in Byte, NEW c \in Byte
  PROVE  /\ Times(a, b) \in Byte
         /\ Times(xor(a, b), c) = xor(Times(a, c), Times(b, c))
         /\ Times(c, xor(a, b)) = xor(Times(c, a), Times(c, b))
<1>1. Times(a, b) \in Byte
  BY ProductLinear, ResidueType DEF Times
<1>2. QED
  BY <1>1, ProductLinear, ResidueLinear DEF Times

(* The residues of the powers of x.                                         *)
LEMMA FoldedAt ==
  /\ Folded(8) = {0, 1, 3, 4, 8}
  /\ Folded(9) = {1, 2, 4, 5, 9}
  /\ Folded(10) = {2, 3, 5, 6, 10}
  /\ Folded(11) = {3, 4, 6, 7, 11}
  /\ Folded(12) = {4, 5, 7, 8, 12}
  /\ Folded(13) = {5, 6, 8, 9, 13}
  /\ Folded(14) = {6, 7, 9, 10, 14}
BY FoldedIs

LEMMA Idle ==
  ASSUME NEW e, NEW q, e \notin q
  PROVE  Reduce(e, q) = q
BY DEF Reduce

XPower(s) == Residue({s})

(* The residues of x^0 to x^14.                                             *)
LEMMA ResidueOfBit ==
  /\ \A s \in 0..7 : XPower(s) = {s}
  /\ XPower(8) = {0, 1, 3, 4}
  /\ XPower(9) = {1, 2, 4, 5}
  /\ XPower(10) = {2, 3, 5, 6}
  /\ XPower(11) = {3, 4, 6, 7}
  /\ XPower(12) = {0, 1, 3, 5, 7}
  /\ XPower(13) = {0, 2, 3, 6}
  /\ XPower(14) = {1, 3, 4, 7}
<1> USE DEF XPower
<1>1. ASSUME NEW s \in 0..7 PROVE Residue({s}) = {s}
  <2>1. \A e \in 8..14 : Reduce(e, {s}) = {s}
    BY Idle
  <2>2. QED
    BY <2>1, ResidueIs DEF Reduced
<1>2. Residue({8}) = {0, 1, 3, 4}
  <2>1. \A e \in 9..14 : Reduce(e, {8}) = {8}
    BY Idle
  <2>2. Reduce(8, {8}) = {0, 1, 3, 4}
    BY FoldedAt DEF Reduce, xor
  <2>3. QED
    BY <2>1, <2>2, ResidueIs DEF Reduced
<1>3. Residue({9}) = {1, 2, 4, 5}
  <2>1. \A e \in 10..14 : Reduce(e, {9}) = {9}
    BY Idle
  <2>2. Reduce(9, {9}) = {1, 2, 4, 5}
    BY FoldedAt DEF Reduce, xor
  <2>3. \A e \in 8..8 : Reduce(e, {1, 2, 4, 5}) = {1, 2, 4, 5}
    BY Idle
  <2>4. QED
    BY <2>1, <2>2, <2>3, ResidueIs DEF Reduced
<1>4. Residue({10}) = {2, 3, 5, 6}
  <2>1. \A e \in 11..14 : Reduce(e, {10}) = {10}
    BY Idle
  <2>2. Reduce(10, {10}) = {2, 3, 5, 6}
    BY FoldedAt DEF Reduce, xor
  <2>3. \A e \in 8..9 : Reduce(e, {2, 3, 5, 6}) = {2, 3, 5, 6}
    BY Idle
  <2>4. QED
    BY <2>1, <2>2, <2>3, ResidueIs DEF Reduced
<1>5. Residue({11}) = {3, 4, 6, 7}
  <2>1. \A e \in 12..14 : Reduce(e, {11}) = {11}
    BY Idle
  <2>2. Reduce(11, {11}) = {3, 4, 6, 7}
    BY FoldedAt DEF Reduce, xor
  <2>3. \A e \in 8..10 : Reduce(e, {3, 4, 6, 7}) = {3, 4, 6, 7}
    BY Idle
  <2>4. QED
    BY <2>1, <2>2, <2>3, ResidueIs DEF Reduced
<1>6. Residue({12}) = {0, 1, 3, 5, 7}
  <2>1. \A e \in 13..14 : Reduce(e, {12}) = {12}
    BY Idle
  <2>2. Reduce(12, {12}) = {4, 5, 7, 8}
    BY FoldedAt DEF Reduce, xor
  <2>3. \A e \in 9..11 : Reduce(e, {4, 5, 7, 8}) = {4, 5, 7, 8}
    BY Idle
  <2>4. Reduce(8, {4, 5, 7, 8}) = {0, 1, 3, 5, 7}
    BY FoldedAt DEF Reduce, xor
  <2>5. QED
    BY <2>1, <2>2, <2>3, <2>4, ResidueIs DEF Reduced
<1>7. Residue({13}) = {0, 2, 3, 6}
  <2>1. \A e \in 14..14 : Reduce(e, {13}) = {13}
    BY Idle
  <2>2. Reduce(13, {13}) = {5, 6, 8, 9}
    BY FoldedAt DEF Reduce, xor
  <2>3. \A e \in 10..12 : Reduce(e, {5, 6, 8, 9}) = {5, 6, 8, 9}
    BY Idle
  <2>4. Reduce(9, {5, 6, 8, 9}) = {1, 2, 4, 6, 8}
    BY FoldedAt DEF Reduce, xor
  <2>5. Reduce(8, {1, 2, 4, 6, 8}) = {0, 2, 3, 6}
    BY FoldedAt DEF Reduce, xor
  <2>6. QED
    BY <2>1, <2>2, <2>3, <2>4, <2>5, ResidueIs DEF Reduced
<1>8. Residue({14}) = {1, 3, 4, 7}
  <2>1. Reduce(14, {14}) = {6, 7, 9, 10}
    BY FoldedAt DEF Reduce, xor
  <2>2. \A e \in 11..13 : Reduce(e, {6, 7, 9, 10}) = {6, 7, 9, 10}
    BY Idle
  <2>3. Reduce(10, {6, 7, 9, 10}) = {2, 3, 5, 7, 9}
    BY FoldedAt DEF Reduce, xor
  <2>4. Reduce(9, {2, 3, 5, 7, 9}) = {1, 3, 4, 7}
    BY FoldedAt DEF Reduce, xor
  <2>5. \A e \in 8..8 : Reduce(e, {1, 3, 4, 7}) = {1, 3, 4, 7}
    BY Idle
  <2>6. QED
    BY <2>1, <2>2, <2>3, <2>4, <2>5, ResidueIs DEF Reduced
<1>9. QED
  BY <1>1, <1>2, <1>3, <1>4, <1>5, <1>6, <1>7, <1>8

LEMMA BitsAreBytes ==
  /\ \A m \in 0..7 : Bit(m) \in Byte
  /\ \A s \in 0..14 : XPower(s) \in Byte
<1>1. \A m \in 0..7 : Bit(m) \in Byte
  BY DEF Byte, Bit
<1>2. \A s \in 0..14 : {s} \in Polynomial
  BY DEF Polynomial
<1>3. QED
  BY <1>1, <1>2, ResidueType DEF XPower

(* The multiplication of two bits.                                          *)
LEMMA TimesOfBits ==
  ASSUME NEW m \in 0..7, NEW n \in 0..7
  PROVE  Times(Bit(m), Bit(n)) = XPower(m + n)
BY ProductOfBits DEF Times, XPower, Bit

(* 3 x^s = x^s + x^(s+1), and x^7 overflows into x^4 + x^3 + x + 1.         *)
LEMMA T3OfBit ==
  /\ \A m \in 0..6 : T3[Bit(m)] = xor(Bit(m), Bit(m + 1))
  /\ T3[Bit(7)] = xor(Bit(7), {0, 1, 3, 4})
<1>1. ASSUME NEW m \in 0..6 PROVE T3[Bit(m)] = xor(Bit(m), Bit(m + 1))
  <2>1. T3[Bit(m)] = xor({e + 1 : e \in Bit(m) \ {7}}, Bit(m))
    BY DEF T3, times3, Byte, Bit
  <2>2. {e + 1 : e \in Bit(m) \ {7}} = Bit(m + 1)
    BY DEF Bit
  <2>3. T3[Bit(m)] = xor(Bit(m + 1), Bit(m))
    BY <2>1, <2>2, Zenon
  <2>4. Bit(m) \in Byte /\ Bit(m + 1) \in Byte
    BY BitsAreBytes
  <2>5. QED
    BY <2>3, <2>4, XorLaws
<1>2. T3[Bit(7)] = xor(Bit(7), {0, 1, 3, 4})
  BY Generator DEF T3, times3, xor, Byte, Bit
<1>3. QED
  BY <1>1, <1>2

LEMMA T3OfResidue ==
  ASSUME NEW s \in 0..13
  PROVE  T3[XPower(s)] = xor(XPower(s), XPower(s + 1))
<1>1. CASE s \in 0..6
  <2>1. XPower(s) = {s} /\ XPower(s + 1) = {s + 1}
    BY <1>1, ResidueOfBit
  <2>2. QED
    BY <1>1, <2>1, T3OfBit DEF Bit
<1>2. CASE s = 7
  <2>1. T3[{7}] = xor({7}, {0, 1, 3, 4})
    BY Generator DEF T3, times3, xor, Byte
  <2>2. QED
    BY <1>2, <2>1, ResidueOfBit
<1>3. CASE s = 8
  <2>1. T3[{0, 1, 3, 4}] = xor({0, 1, 3, 4}, {1, 2, 4, 5})
    BY Generator DEF T3, times3, xor, Byte
  <2>2. QED
    BY <1>3, <2>1, ResidueOfBit
<1>4. CASE s = 9
  <2>1. T3[{1, 2, 4, 5}] = xor({1, 2, 4, 5}, {2, 3, 5, 6})
    BY Generator DEF T3, times3, xor, Byte
  <2>2. QED
    BY <1>4, <2>1, ResidueOfBit
<1>5. CASE s = 10
  <2>1. T3[{2, 3, 5, 6}] = xor({2, 3, 5, 6}, {3, 4, 6, 7})
    BY Generator DEF T3, times3, xor, Byte
  <2>2. QED
    BY <1>5, <2>1, ResidueOfBit
<1>6. CASE s = 11
  <2>1. T3[{3, 4, 6, 7}] = xor({3, 4, 6, 7}, {0, 1, 3, 5, 7})
    BY Generator DEF T3, times3, xor, Byte
  <2>2. QED
    BY <1>6, <2>1, ResidueOfBit
<1>7. CASE s = 12
  <2>1. T3[{0, 1, 3, 5, 7}] = xor({0, 1, 3, 5, 7}, {0, 2, 3, 6})
    BY Generator DEF T3, times3, xor, Byte
  <2>2. QED
    BY <1>7, <2>1, ResidueOfBit
<1>8. CASE s = 13
  <2>1. T3[{0, 2, 3, 6}] = xor({0, 2, 3, 6}, {1, 3, 4, 7})
    BY Generator DEF T3, times3, xor, Byte
  <2>2. QED
    BY <1>8, <2>1, ResidueOfBit
<1>9. QED
  BY <1>1, <1>2, <1>3, <1>4, <1>5, <1>6, <1>7, <1>8

LEMMA T3OfOverflow ==
  ASSUME NEW n \in 0..7
  PROVE  T3[XPower(7 + n)]
           = xor(XPower(7 + n),
                 xor(xor(XPower(n), XPower(n + 1)),
                     xor(XPower(n + 3), XPower(n + 4))))
<1>1. CASE n = 0
  <2>1. T3[{7}]
          = xor({7},
                xor(xor({0}, {1}), xor({3}, {4})))
    BY Generator DEF T3, times3, xor, Byte
  <2>2. QED
    BY <1>1, <2>1, ResidueOfBit
<1>2. CASE n = 1
  <2>1. T3[{0, 1, 3, 4}]
          = xor({0, 1, 3, 4},
                xor(xor({1}, {2}), xor({4}, {5})))
    BY Generator DEF T3, times3, xor, Byte
  <2>2. QED
    BY <1>2, <2>1, ResidueOfBit
<1>3. CASE n = 2
  <2>1. T3[{1, 2, 4, 5}]
          = xor({1, 2, 4, 5},
                xor(xor({2}, {3}), xor({5}, {6})))
    BY Generator DEF T3, times3, xor, Byte
  <2>2. QED
    BY <1>3, <2>1, ResidueOfBit
<1>4. CASE n = 3
  <2>1. T3[{2, 3, 5, 6}]
          = xor({2, 3, 5, 6},
                xor(xor({3}, {4}), xor({6}, {7})))
    BY Generator DEF T3, times3, xor, Byte
  <2>2. QED
    BY <1>4, <2>1, ResidueOfBit
<1>5. CASE n = 4
  <2>1. T3[{3, 4, 6, 7}]
          = xor({3, 4, 6, 7},
                xor(xor({4}, {5}), xor({7}, {0, 1, 3, 4})))
    BY Generator DEF T3, times3, xor, Byte
  <2>2. QED
    BY <1>5, <2>1, ResidueOfBit
<1>6. CASE n = 5
  <2>1. T3[{0, 1, 3, 5, 7}]
          = xor({0, 1, 3, 5, 7},
                xor(xor({5}, {6}), xor({0, 1, 3, 4}, {1, 2, 4, 5})))
    BY Generator DEF T3, times3, xor, Byte
  <2>2. QED
    BY <1>6, <2>1, ResidueOfBit
<1>7. CASE n = 6
  <2>1. T3[{0, 2, 3, 6}]
          = xor({0, 2, 3, 6},
                xor(xor({6}, {7}), xor({1, 2, 4, 5}, {2, 3, 5, 6})))
    BY Generator DEF T3, times3, xor, Byte
  <2>2. QED
    BY <1>7, <2>1, ResidueOfBit
<1>8. CASE n = 7
  <2>1. T3[{1, 3, 4, 7}]
          = xor({1, 3, 4, 7},
                xor(xor({7}, {0, 1, 3, 4}), xor({2, 3, 5, 6}, {3, 4, 6, 7})))
    BY Generator DEF T3, times3, xor, Byte
  <2>2. QED
    BY <1>8, <2>1, ResidueOfBit
<1>9. QED
  BY <1>1, <1>2, <1>3, <1>4, <1>5, <1>6, <1>7, <1>8

---------------------------------------------------------------------------
(* The multiplication of the field.                                         *)

By(c)      == [a \in Byte |-> Times(a, c)]
Of(c)      == [a \in Byte |-> Times(c, a)]
Then(G, F) == [a \in Byte |-> F[G[a]]]

(* Multiplying by a byte, from the right and from the left, respects ^.     *)
LEMMA LinearMaps ==
  ASSUME NEW c \in Byte
  PROVE  /\ By(c) \in [Byte -> Byte] /\ Linear(By(c))
         /\ Of(c) \in [Byte -> Byte] /\ Linear(Of(c))
<1>1. \A a \in Byte : Times(a, c) \in Byte /\ Times(c, a) \in Byte
  BY TimesLinear
<1>2. \A a, b \in Byte : xor(a, b) \in Byte
  BY XorLaws
<1>3. Linear(By(c))
  BY <1>2, TimesLinear DEF Linear, By
<1>4. Linear(Of(c))
  BY <1>2, TimesLinear DEF Linear, Of
<1>5. QED
  BY <1>1, <1>3, <1>4 DEF By, Of

LEMMA LinearThen ==
  ASSUME NEW F \in [Byte -> Byte], NEW G \in [Byte -> Byte], Linear(F), Linear(G)
  PROVE  Then(G, F) \in [Byte -> Byte] /\ Linear(Then(G, F))
<1>1. Then(G, F) \in [Byte -> Byte]
  BY DEF Then
<1>2. ASSUME NEW a \in Byte, NEW b \in Byte
      PROVE  Then(G, F)[xor(a, b)] = xor(Then(G, F)[a], Then(G, F)[b])
  <2>1. xor(a, b) \in Byte /\ G[a] \in Byte /\ G[b] \in Byte
    BY XorLaws
  <2>2. G[xor(a, b)] = xor(G[a], G[b])
    BY Zenon DEF Linear
  <2>3. F[xor(G[a], G[b])] = xor(F[G[a]], F[G[b]])
    BY <2>1, Zenon DEF Linear
  <2>4. Then(G, F)[xor(a, b)] = F[G[xor(a, b)]]
    BY <2>1, Zenon DEF Then
  <2>5. Then(G, F)[a] = F[G[a]] /\ Then(G, F)[b] = F[G[b]]
    BY Zenon DEF Then
  <2>6. QED
    BY <2>2, <2>3, <2>4, <2>5, Zenon
<1>3. QED
  BY <1>1, <1>2 DEF Linear

(* Both sides respect ^ and agree on the bits.                              *)
LEMMA TimesCommutes ==
  ASSUME NEW a \in Byte, NEW b \in Byte
  PROVE  Times(a, b) = Times(b, a)
<1>1. \A m, n \in 0..7 : Times(Bit(m), Bit(n)) = Times(Bit(n), Bit(m))
  <2> SUFFICES ASSUME NEW m \in 0..7, NEW n \in 0..7
               PROVE  Times(Bit(m), Bit(n)) = Times(Bit(n), Bit(m))
    OBVIOUS
  <2>1. m + n = n + m
    OBVIOUS
  <2>2. QED
    BY <2>1, TimesOfBits
<1>2. \A n \in 0..7 : Times(a, Bit(n)) = Times(Bit(n), a)
  <2> SUFFICES ASSUME NEW n \in 0..7 PROVE Times(a, Bit(n)) = Times(Bit(n), a)
    OBVIOUS
  <2>1. Bit(n) \in Byte /\ \A m \in 0..7 : Bit(m) \in Byte
    BY BitsAreBytes
  <2>2. \A m \in 0..7 : By(Bit(n))[Bit(m)] = Of(Bit(n))[Bit(m)]
    BY <1>1, <2>1 DEF By, Of
  <2>3. By(Bit(n))[a] = Of(Bit(n))[a]
    BY <2>1, <2>2, LinearMaps, SameOnBits
  <2>4. QED
    BY <2>3 DEF By, Of
<1>3. \A n \in 0..7 : Of(a)[Bit(n)] = By(a)[Bit(n)]
  BY <1>2, BitsAreBytes DEF By, Of
<1>4. Of(a)[b] = By(a)[b]
  BY <1>3, LinearMaps, SameOnBits
<1>5. QED
  BY <1>4 DEF By, Of

(* 1 is the neutral byte.                                                   *)
LEMMA TimesOne ==
  ASSUME NEW b \in Byte
  PROVE  Times(one, b) = b /\ Times(zero, b) = zero
<1> DEFINE I == [a \in Byte |-> a]
<1>1. I \in [Byte -> Byte] /\ Linear(I)
  BY XorLaws DEF Linear
<1>2. one \in Byte
  BY XorLaws
<1>3. \A n \in 0..7 : Of(one)[Bit(n)] = I[Bit(n)]
  <2> SUFFICES ASSUME NEW n \in 0..7 PROVE Of(one)[Bit(n)] = I[Bit(n)]
    OBVIOUS
  <2>1. Times(Bit(0), Bit(n)) = XPower(0 + n)
    BY TimesOfBits
  <2>2. XPower(0 + n) = Bit(n)
    BY ResidueOfBit DEF Bit
  <2>3. QED
    BY <2>1, <2>2, BitsAreBytes DEF Of, one, Bit
<1> HIDE DEF I
<1>4. Of(one)[b] = I[b]
  BY <1>1, <1>2, <1>3, LinearMaps, SameOnBits
<1>5. By(b)[zero] = zero
  BY LinearMaps, LinearZero
<1>6. QED
  BY <1>4, <1>5, XorLaws DEF I, By, Of

(* Multiplying by 0x03 commutes with multiplying.                           *)
LEMMA TimesT3 ==
  ASSUME NEW a \in Byte, NEW b \in Byte
  PROVE  Times(T3[a], b) = T3[Times(a, b)]
<1>1. T3 \in [Byte -> Byte] /\ Linear(T3)
  BY T3Type, T3Linear
<1>2. ASSUME NEW m \in 0..7, NEW n \in 0..7
      PROVE  Times(T3[Bit(m)], Bit(n)) = T3[Times(Bit(m), Bit(n))]
  <2>1. Bit(m) \in Byte /\ Bit(n) \in Byte
    BY BitsAreBytes
  <2>2. CASE m \in 0..6
    <3>1. T3[Bit(m)] = xor(Bit(m), Bit(m + 1)) /\ m + 1 \in 0..7
          /\ Bit(m + 1) \in Byte
      BY <2>2, T3OfBit, BitsAreBytes
    <3>2. Times(xor(Bit(m), Bit(m + 1)), Bit(n)) = xor(Times(Bit(m), Bit(n)), Times(Bit(m + 1), Bit(n)))
      BY <2>1, <3>1, TimesLinear
    <3>3. Times(Bit(m), Bit(n)) = XPower(m + n) /\ Times(Bit(m + 1), Bit(n)) = XPower((m + 1) + n)
      BY <3>1, TimesOfBits
    <3>4. (m + 1) + n = (m + n) + 1 /\ m + n \in 0..13
      BY <2>2
    <3>5. T3[XPower(m + n)] = xor(XPower(m + n), XPower((m + n) + 1))
      BY <3>4, T3OfResidue
    <3>6. QED
      BY <3>1, <3>2, <3>3, <3>4, <3>5
  <2>3. CASE m = 7
    <3> DEFINE low == xor(xor(Bit(0), Bit(1)), xor(Bit(3), Bit(4)))
    <3>1. /\ Bit(0) \in Byte /\ Bit(1) \in Byte /\ Bit(3) \in Byte
          /\ Bit(4) \in Byte /\ Bit(7) \in Byte
      BY BitsAreBytes
    <3>2. low = {0, 1, 3, 4}
      BY DEF xor, Bit
    <3>3. T3[Bit(7)] = xor(Bit(7), low)
      BY <3>2, T3OfBit
    <3>4. xor(Bit(0), Bit(1)) \in Byte /\ xor(Bit(3), Bit(4)) \in Byte /\ low \in Byte
      BY <3>1, XorLaws
    <3>5. Times(xor(Bit(7), low), Bit(n)) = xor(Times(Bit(7), Bit(n)), Times(low, Bit(n)))
      BY <2>1, <3>1, <3>4, TimesLinear
    <3>6. Times(low, Bit(n)) = xor(Times(xor(Bit(0), Bit(1)), Bit(n)), Times(xor(Bit(3), Bit(4)), Bit(n)))
      BY <2>1, <3>1, <3>4, TimesLinear
    <3>7. /\ Times(xor(Bit(0), Bit(1)), Bit(n)) = xor(Times(Bit(0), Bit(n)), Times(Bit(1), Bit(n)))
          /\ Times(xor(Bit(3), Bit(4)), Bit(n)) = xor(Times(Bit(3), Bit(n)), Times(Bit(4), Bit(n)))
      BY <2>1, <3>1, TimesLinear
    <3>8. /\ Times(Bit(0), Bit(n)) = XPower(n) /\ Times(Bit(1), Bit(n)) = XPower(n + 1)
          /\ Times(Bit(3), Bit(n)) = XPower(n + 3) /\ Times(Bit(4), Bit(n)) = XPower(n + 4)
          /\ Times(Bit(7), Bit(n)) = XPower(7 + n)
      <4>1. /\ Times(Bit(0), Bit(n)) = XPower(0 + n) /\ Times(Bit(1), Bit(n)) = XPower(1 + n)
            /\ Times(Bit(3), Bit(n)) = XPower(3 + n) /\ Times(Bit(4), Bit(n)) = XPower(4 + n)
            /\ Times(Bit(7), Bit(n)) = XPower(7 + n)
        BY TimesOfBits
      <4>2. 0 + n = n /\ 1 + n = n + 1 /\ 3 + n = n + 3 /\ 4 + n = n + 4
        OBVIOUS
      <4>3. QED
        BY <4>1, <4>2
    <3> HIDE DEF low
    <3>9. T3[XPower(7 + n)]
            = xor(XPower(7 + n),
                  xor(xor(XPower(n), XPower(n + 1)), xor(XPower(n + 3), XPower(n + 4))))
      BY T3OfOverflow
    <3>10. Times(T3[Bit(7)], Bit(n)) = T3[Times(Bit(7), Bit(n))]
      BY <3>3, <3>5, <3>6, <3>7, <3>8, <3>9
    <3>11. QED
      BY <2>3, <3>10
  <2>4. QED
    BY <2>2, <2>3
<1>3. \A n \in 0..7 : Times(T3[a], Bit(n)) = T3[Times(a, Bit(n))]
  <2> SUFFICES ASSUME NEW n \in 0..7 PROVE Times(T3[a], Bit(n)) = T3[Times(a, Bit(n))]
    OBVIOUS
  <2>1. Bit(n) \in Byte /\ \A m \in 0..7 : Bit(m) \in Byte
    BY BitsAreBytes
  <2>2. By(Bit(n)) \in [Byte -> Byte] /\ Linear(By(Bit(n)))
    BY <2>1, LinearMaps
  <2>3. /\ Then(T3, By(Bit(n))) \in [Byte -> Byte] /\ Linear(Then(T3, By(Bit(n))))
        /\ Then(By(Bit(n)), T3) \in [Byte -> Byte] /\ Linear(Then(By(Bit(n)), T3))
    BY <1>1, <2>2, LinearThen
  <2>4. \A c \in Byte : /\ Then(T3, By(Bit(n)))[c] = Times(T3[c], Bit(n))
                        /\ Then(By(Bit(n)), T3)[c] = T3[Times(c, Bit(n))]
    BY <1>1, <2>1 DEF Then, By
  <2>5. \A m \in 0..7 : Then(T3, By(Bit(n)))[Bit(m)] = Then(By(Bit(n)), T3)[Bit(m)]
    BY <1>2, <2>1, <2>4
  <2>6. Then(T3, By(Bit(n)))[a] = Then(By(Bit(n)), T3)[a]
    BY <2>3, <2>5, SameOnBits
  <2>7. QED
    BY <2>4, <2>6
<1>4. T3[a] \in Byte
  BY <1>1
<1>5. /\ Of(T3[a]) \in [Byte -> Byte] /\ Linear(Of(T3[a]))
      /\ Then(Of(a), T3) \in [Byte -> Byte] /\ Linear(Then(Of(a), T3))
  BY <1>1, <1>4, LinearMaps, LinearThen
<1>6. \A c \in Byte : Of(T3[a])[c] = Times(T3[a], c) /\ Then(Of(a), T3)[c] = T3[Times(a, c)]
  BY <1>1 DEF Then, Of
<1>7. \A n \in 0..7 : Of(T3[a])[Bit(n)] = Then(Of(a), T3)[Bit(n)]
  BY <1>3, <1>6, BitsAreBytes
<1>8. Of(T3[a])[b] = Then(Of(a), T3)[b]
  BY <1>5, <1>7, SameOnBits
<1>9. QED
  BY <1>6, <1>8

---------------------------------------------------------------------------
(* The powers of 0x03.                                                      *)

Top      == 1023
Chain(g) == g[0] = one /\ \A j \in 0..(Top - 1) : g[j + 1] = T3[g[j]]
P        == CHOOSE g \in [0..Top -> Byte] : Chain(g)

(* The powers are defined as far as they are needed.                        *)
LEMMA Powers == P \in [0..Top -> Byte] /\ Chain(P)
<1> DEFINE step == [m \in 1..Top |-> T3]
<1>1. step \in [1..Top -> [Byte -> Byte]] /\ one \in Byte /\ Top \in Nat
  BY T3Type, XorLaws DEF Top
<1>2. \A m \in 1..Top : step[m] = T3
  OBVIOUS
<1> HIDE DEF step
<1>3. PICK g \in [0..Top -> Byte] : Recurs(g, Top, one, step)
  BY <1>1, Recursion
<1>4. \A m \in 0..Top : g[m] = IF m = 0 THEN one ELSE step[m][g[m - 1]]
  BY <1>3 DEF Recurs
<1>5. g[0] = one
  <2>1. 0 \in 0..Top
    BY <1>1
  <2>2. QED
    BY <1>4, <2>1, Zenon
<1>6. ASSUME NEW j \in 0..(Top - 1) PROVE g[j + 1] = T3[g[j]]
  <2>1. j + 1 \in 0..Top /\ j + 1 # 0 /\ (j + 1) - 1 = j /\ j + 1 \in 1..Top
    BY DEF Top
  <2>2. g[j + 1] = step[j + 1][g[(j + 1) - 1]]
    BY <1>4, <2>1, Zenon
  <2>3. QED
    BY <1>2, <2>1, <2>2
<1>7. Chain(g)
  BY <1>5, <1>6 DEF Chain
<1>8. QED
  BY <1>7 DEF P

LEMMA NextPower ==
  ASSUME NEW j \in 0..(Top - 1)
  PROVE  P[j + 1] = T3[P[j]] /\ P[j] \in Byte /\ P[j + 1] \in Byte
<1>1. j \in 0..Top /\ j + 1 \in 0..Top
  BY DEF Top
<1>2. QED
  BY <1>1, Powers DEF Chain

(* Exponents add up.                                                        *)
LEMMA PowerSum ==
  ASSUME NEW m \in 0..Top, NEW n \in 0..Top, m + n <= Top
  PROVE  Times(P[m], P[n]) = P[m + n]
<1> DEFINE S == {j \in 0..m : Times(P[j], P[n]) = P[j + n]}
<1>1. m \in Nat /\ n \in Nat /\ Top \in Nat /\ P[n] \in Byte /\ P[0] = one
  <2>1. m \in Nat /\ n \in Nat /\ Top \in Nat
    BY DEF Top
  <2>2. P[n] \in Byte
    BY Powers
  <2>3. QED
    BY <2>1, <2>2, Powers DEF Chain
<1>2. 0 \in S
  BY <1>1, TimesOne
<1>3. ASSUME NEW j \in 0..(m - 1), j \in S PROVE j + 1 \in S
  <2>1. j \in 0..(Top - 1) /\ j + n \in 0..(Top - 1) /\ j + 1 \in 0..m
        /\ (j + n) + 1 = (j + 1) + n
    BY <1>1 DEF Top
  <2>2. /\ P[j + 1] = T3[P[j]] /\ P[j] \in Byte
        /\ P[(j + n) + 1] = T3[P[j + n]]
    BY <2>1, NextPower
  <2>3. Times(T3[P[j]], P[n]) = T3[Times(P[j], P[n])]
    BY <1>1, <2>2, TimesT3
  <2>4. Times(P[j], P[n]) = P[j + n]
    BY <1>3
  <2>5. QED
    BY <2>1, <2>2, <2>3, <2>4
<1> HIDE DEF S
<1>4. \A j \in 0..m : j \in S
  BY <1>1, <1>2, <1>3, UpTo
<1>5. m \in S
  BY <1>1, <1>4
<1>6. QED
  BY <1>5 DEF S

(* Squaring, bit by bit; it gives P[2 m] from P[m].                         *)
Square == [a \in Byte |-> {f \in 0..7 :
  \/ f = 0 /\ (0 \in a <=> (4 \in a <=> 6 \in a))
  \/ f = 1 /\ (4 \in a <=> (6 \in a <=> 7 \in a))
  \/ f = 2 /\ ~(1 \in a <=> 5 \in a)
  \/ f = 3 /\ ~((4 \in a <=> 5 \in a) <=> (6 \in a <=> 7 \in a))
  \/ f = 4 /\ (2 \in a <=> (4 \in a <=> 7 \in a))
  \/ f = 5 /\ ~(5 \in a <=> 6 \in a)
  \/ f = 6 /\ ~(3 \in a <=> 5 \in a)
  \/ f = 7 /\ ~(6 \in a <=> 7 \in a)}]

LEMMA SquareLinear == Square \in [Byte -> Byte] /\ Linear(Square)
<1>1. Square \in [Byte -> Byte]
  BY DEF Square, Byte
<1>2. ASSUME NEW a \in Byte, NEW b \in Byte
      PROVE  Square[xor(a, b)] = xor(Square[a], Square[b])
  <2>1. xor(a, b) \in Byte
    BY XorLaws
  <2>2. \A e : e \in xor(a, b) <=> ~(e \in a <=> e \in b)
    BY XorBit
  <2>3. ASSUME NEW f \in 0..7
        PROVE  f \in Square[xor(a, b)] <=> ~(f \in Square[a] <=> f \in Square[b])
    <3>1. CASE f \in {0, 1}
      BY <2>1, <2>2, <3>1 DEF Square
    <3>2. CASE f \in {2, 3}
      BY <2>1, <2>2, <3>2 DEF Square
    <3>3. CASE f \in {4, 5}
      BY <2>1, <2>2, <3>3 DEF Square
    <3>4. CASE f \in {6, 7}
      BY <2>1, <2>2, <3>4 DEF Square
    <3>5. QED
      BY <3>1, <3>2, <3>3, <3>4
  <2>4. Square[xor(a, b)] \in Byte /\ Square[a] \in Byte /\ Square[b] \in Byte
    BY <1>1, <2>1
  <2>5. \A f : f \in Square[xor(a, b)] <=> f \in xor(Square[a], Square[b])
    BY <2>3, <2>4, XorBit DEF Byte
  <2>6. QED
    BY <2>5
<1>3. QED
  BY <1>1, <1>2 DEF Linear

(* Both respect ^ and agree on the bits.                                    *)
LEMMA SquareIs ==
  ASSUME NEW a \in Byte
  PROVE  Times(a, a) = Square[a]
<1> DEFINE F == [c \in Byte |-> Times(c, c)]
<1>1. F \in [Byte -> Byte]
  BY TimesLinear
<1>2. ASSUME NEW b \in Byte, NEW c \in Byte
      PROVE  Times(xor(b, c), xor(b, c)) = xor(Times(b, b), Times(c, c))
  <2> DEFINE s == xor(b, c)
  <2>1. s \in Byte
    BY XorLaws
  <2>2. /\ Times(s, s) = xor(Times(b, s), Times(c, s))
        /\ Times(b, s) = xor(Times(b, b), Times(b, c))
        /\ Times(c, s) = xor(Times(c, b), Times(c, c))
    <3>1. Times(xor(b, c), s) = xor(Times(b, s), Times(c, s))
      BY <2>1, TimesLinear
    <3>2. QED
      BY <2>1, <3>1, TimesLinear
  <2>3. PICK p, q, r \in Byte :
          /\ p = Times(b, b) /\ q = Times(b, c) /\ q = Times(c, b) /\ r = Times(c, c)
    BY TimesLinear, TimesCommutes
  <2>4. xor(xor(p, q), xor(q, r)) = xor(p, r)
    <3>1. \A f : f \in xor(xor(p, q), xor(q, r)) <=> f \in xor(p, r)
      BY XorBit
    <3>2. QED
      BY <3>1
  <2>5. QED
    BY <2>2, <2>3, <2>4
<1>3. Linear(F)
  <2>1. \A b, c \in Byte : xor(b, c) \in Byte
    BY XorLaws
  <2>2. QED
    BY <1>2, <2>1 DEF Linear
<1>4. ASSUME NEW m \in 0..7 PROVE F[Bit(m)] = Square[Bit(m)]
  <2>1. Bit(m) \in Byte /\ Times(Bit(m), Bit(m)) = XPower(m + m)
    BY BitsAreBytes, TimesOfBits
  <2>2. CASE m = 0
    <3>1. Square[{0}] = {0}
      BY DEF Square, Byte
    <3>2. XPower(0) = {0}
      BY ResidueOfBit
    <3>3. QED
      BY <2>1, <2>2, <3>1, <3>2 DEF Bit
  <2>3. CASE m = 1
    <3>1. Square[{1}] = {2}
      BY DEF Square, Byte
    <3>2. XPower(2) = {2}
      BY ResidueOfBit
    <3>3. QED
      BY <2>1, <2>3, <3>1, <3>2 DEF Bit
  <2>4. CASE m = 2
    <3>1. Square[{2}] = {4}
      BY DEF Square, Byte
    <3>2. XPower(4) = {4}
      BY ResidueOfBit
    <3>3. QED
      BY <2>1, <2>4, <3>1, <3>2 DEF Bit
  <2>5. CASE m = 3
    <3>1. Square[{3}] = {6}
      BY DEF Square, Byte
    <3>2. XPower(6) = {6}
      BY ResidueOfBit
    <3>3. QED
      BY <2>1, <2>5, <3>1, <3>2 DEF Bit
  <2>6. CASE m = 4
    <3>1. Square[{4}] = {0, 1, 3, 4}
      BY DEF Square, Byte
    <3>2. XPower(8) = {0, 1, 3, 4}
      BY ResidueOfBit
    <3>3. QED
      BY <2>1, <2>6, <3>1, <3>2 DEF Bit
  <2>7. CASE m = 5
    <3>1. Square[{5}] = {2, 3, 5, 6}
      BY DEF Square, Byte
    <3>2. XPower(10) = {2, 3, 5, 6}
      BY ResidueOfBit
    <3>3. QED
      BY <2>1, <2>7, <3>1, <3>2 DEF Bit
  <2>8. CASE m = 6
    <3>1. Square[{6}] = {0, 1, 3, 5, 7}
      BY DEF Square, Byte
    <3>2. XPower(12) = {0, 1, 3, 5, 7}
      BY ResidueOfBit
    <3>3. QED
      BY <2>1, <2>8, <3>1, <3>2 DEF Bit
  <2>9. CASE m = 7
    <3>1. Square[{7}] = {1, 3, 4, 7}
      BY DEF Square, Byte
    <3>2. XPower(14) = {1, 3, 4, 7}
      BY ResidueOfBit
    <3>3. QED
      BY <2>1, <2>9, <3>1, <3>2 DEF Bit
  <2>10. QED
    BY <2>2, <2>3, <2>4, <2>5, <2>6, <2>7, <2>8, <2>9
<1> HIDE DEF F
<1>5. F[a] = Square[a]
  BY <1>1, <1>3, <1>4, SquareLinear, SameOnBits
<1>6. QED
  BY <1>5 DEF F

LEMMA PowerDouble ==
  ASSUME NEW m \in 0..511
  PROVE  P[2 * m] = Square[P[m]]
<1>1. m \in 0..Top /\ m + m <= Top /\ m + m = 2 * m
  BY DEF Top
<1>2. P[m] \in Byte
  BY <1>1, Powers
<1>3. QED
  BY <1>1, <1>2, PowerSum, SquareIs

(* The powers that decide the order, by squaring and multiplying.           *)
LEMMA PowerValues ==
  /\ P[0] = one /\ P[1] = {0, 1}
  /\ P[3] = {0, 1, 2, 3}
  /\ P[5] = {0, 1, 4, 5}
  /\ P[16] = {0, 1, 2, 3, 4, 6}
  /\ P[17] = {0, 5, 6, 7}
  /\ P[51] = {2, 3}
  /\ P[85] = {0, 2, 3, 4, 5, 7}
  /\ P[256] = {0, 1}
<1>1. P[0] = {0}
  BY Powers DEF Chain, one
<1>2. P[1] = {0, 1}
  <2>1. T3[{0}] = {0, 1}
    BY Generator DEF T3, times3, xor, Byte
  <2>2. P[0 + 1] = T3[P[0]]
    <3>1. 0 \in 0..(Top - 1)
      BY DEF Top
    <3>2. QED
      BY <3>1, NextPower
  <2>3. QED
    BY <1>1, <2>1, <2>2
<1>3. P[2] = {0, 2}
  <2>1. Square[{0, 1}] = {0, 2}
    BY DEF Square, Byte
  <2>2. P[2 * 1] = Square[P[1]]
    BY PowerDouble
  <2>3. QED
    BY <1>2, <2>1, <2>2
<1>4. P[3] = {0, 1, 2, 3}
  <2>1. T3[{0, 2}] = {0, 1, 2, 3}
    BY Generator DEF T3, times3, xor, Byte
  <2>2. P[2 + 1] = T3[P[2]]
    <3>1. 2 \in 0..(Top - 1)
      BY DEF Top
    <3>2. QED
      BY <3>1, NextPower
  <2>3. QED
    BY <1>3, <2>1, <2>2
<1>5. P[4] = {0, 4}
  <2>1. Square[{0, 2}] = {0, 4}
    BY DEF Square, Byte
  <2>2. P[2 * 2] = Square[P[2]]
    BY PowerDouble
  <2>3. QED
    BY <1>3, <2>1, <2>2
<1>6. P[5] = {0, 1, 4, 5}
  <2>1. T3[{0, 4}] = {0, 1, 4, 5}
    BY Generator DEF T3, times3, xor, Byte
  <2>2. P[4 + 1] = T3[P[4]]
    <3>1. 4 \in 0..(Top - 1)
      BY DEF Top
    <3>2. QED
      BY <3>1, NextPower
  <2>3. QED
    BY <1>5, <2>1, <2>2
<1>7. P[6] = {0, 2, 4, 6}
  <2>1. Square[{0, 1, 2, 3}] = {0, 2, 4, 6}
    BY DEF Square, Byte
  <2>2. P[2 * 3] = Square[P[3]]
    BY PowerDouble
  <2>3. QED
    BY <1>4, <2>1, <2>2
<1>8. P[8] = {1, 3, 4}
  <2>1. Square[{0, 4}] = {1, 3, 4}
    BY DEF Square, Byte
  <2>2. P[2 * 4] = Square[P[4]]
    BY PowerDouble
  <2>3. QED
    BY <1>5, <2>1, <2>2
<1>9. P[10] = {1, 4, 5, 6}
  <2>1. Square[{0, 1, 4, 5}] = {1, 4, 5, 6}
    BY DEF Square, Byte
  <2>2. P[2 * 5] = Square[P[5]]
    BY PowerDouble
  <2>3. QED
    BY <1>6, <2>1, <2>2
<1>10. P[12] = {0, 5, 7}
  <2>1. Square[{0, 2, 4, 6}] = {0, 5, 7}
    BY DEF Square, Byte
  <2>2. P[2 * 6] = Square[P[6]]
    BY PowerDouble
  <2>3. QED
    BY <1>7, <2>1, <2>2
<1>11. P[16] = {0, 1, 2, 3, 4, 6}
  <2>1. Square[{1, 3, 4}] = {0, 1, 2, 3, 4, 6}
    BY DEF Square, Byte
  <2>2. P[2 * 8] = Square[P[8]]
    BY PowerDouble
  <2>3. QED
    BY <1>8, <2>1, <2>2
<1>12. P[17] = {0, 5, 6, 7}
  <2>1. T3[{0, 1, 2, 3, 4, 6}] = {0, 5, 6, 7}
    BY Generator DEF T3, times3, xor, Byte
  <2>2. P[16 + 1] = T3[P[16]]
    <3>1. 16 \in 0..(Top - 1)
      BY DEF Top
    <3>2. QED
      BY <3>1, NextPower
  <2>3. QED
    BY <1>11, <2>1, <2>2
<1>13. P[20] = {3, 4, 6, 7}
  <2>1. Square[{1, 4, 5, 6}] = {3, 4, 6, 7}
    BY DEF Square, Byte
  <2>2. P[2 * 10] = Square[P[10]]
    BY PowerDouble
  <2>3. QED
    BY <1>9, <2>1, <2>2
<1>14. P[21] = {0, 1, 4, 5, 6}
  <2>1. T3[{3, 4, 6, 7}] = {0, 1, 4, 5, 6}
    BY Generator DEF T3, times3, xor, Byte
  <2>2. P[20 + 1] = T3[P[20]]
    <3>1. 20 \in 0..(Top - 1)
      BY DEF Top
    <3>2. QED
      BY <3>1, NextPower
  <2>3. QED
    BY <1>13, <2>1, <2>2
<1>15. P[24] = {0, 1, 2, 4, 5, 6, 7}
  <2>1. Square[{0, 5, 7}] = {0, 1, 2, 4, 5, 6, 7}
    BY DEF Square, Byte
  <2>2. P[2 * 12] = Square[P[12]]
    BY PowerDouble
  <2>3. QED
    BY <1>10, <2>1, <2>2
<1>16. P[25] = {1}
  <2>1. T3[{0, 1, 2, 4, 5, 6, 7}] = {1}
    BY Generator DEF T3, times3, xor, Byte
  <2>2. P[24 + 1] = T3[P[24]]
    <3>1. 24 \in 0..(Top - 1)
      BY DEF Top
    <3>2. QED
      BY <3>1, NextPower
  <2>3. QED
    BY <1>15, <2>1, <2>2
<1>17. P[32] = {0, 2, 5, 6, 7}
  <2>1. Square[{0, 1, 2, 3, 4, 6}] = {0, 2, 5, 6, 7}
    BY DEF Square, Byte
  <2>2. P[2 * 16] = Square[P[16]]
    BY PowerDouble
  <2>3. QED
    BY <1>11, <2>1, <2>2
<1>18. P[42] = {0, 3, 4, 6, 7}
  <2>1. Square[{0, 1, 4, 5, 6}] = {0, 3, 4, 6, 7}
    BY DEF Square, Byte
  <2>2. P[2 * 21] = Square[P[21]]
    BY PowerDouble
  <2>3. QED
    BY <1>14, <2>1, <2>2
<1>19. P[50] = {2}
  <2>1. Square[{1}] = {2}
    BY DEF Square, Byte
  <2>2. P[2 * 25] = Square[P[25]]
    BY PowerDouble
  <2>3. QED
    BY <1>16, <2>1, <2>2
<1>20. P[51] = {2, 3}
  <2>1. T3[{2}] = {2, 3}
    BY Generator DEF T3, times3, xor, Byte
  <2>2. P[50 + 1] = T3[P[50]]
    <3>1. 50 \in 0..(Top - 1)
      BY DEF Top
    <3>2. QED
      BY <3>1, NextPower
  <2>3. QED
    BY <1>19, <2>1, <2>2
<1>21. P[64] = {2, 3, 6}
  <2>1. Square[{0, 2, 5, 6, 7}] = {2, 3, 6}
    BY DEF Square, Byte
  <2>2. P[2 * 32] = Square[P[32]]
    BY PowerDouble
  <2>3. QED
    BY <1>17, <2>1, <2>2
<1>22. P[84] = {0, 1, 3, 5, 6}
  <2>1. Square[{0, 3, 4, 6, 7}] = {0, 1, 3, 5, 6}
    BY DEF Square, Byte
  <2>2. P[2 * 42] = Square[P[42]]
    BY PowerDouble
  <2>3. QED
    BY <1>18, <2>1, <2>2
<1>23. P[85] = {0, 2, 3, 4, 5, 7}
  <2>1. T3[{0, 1, 3, 5, 6}] = {0, 2, 3, 4, 5, 7}
    BY Generator DEF T3, times3, xor, Byte
  <2>2. P[84 + 1] = T3[P[84]]
    <3>1. 84 \in 0..(Top - 1)
      BY DEF Top
    <3>2. QED
      BY <3>1, NextPower
  <2>3. QED
    BY <1>22, <2>1, <2>2
<1>24. P[128] = {0, 1, 3, 4, 5, 6, 7}
  <2>1. Square[{2, 3, 6}] = {0, 1, 3, 4, 5, 6, 7}
    BY DEF Square, Byte
  <2>2. P[2 * 64] = Square[P[64]]
    BY PowerDouble
  <2>3. QED
    BY <1>21, <2>1, <2>2
<1>25. P[256] = {0, 1}
  <2>1. Square[{0, 1, 3, 4, 5, 6, 7}] = {0, 1}
    BY DEF Square, Byte
  <2>2. P[2 * 128] = Square[P[128]]
    BY PowerDouble
  <2>3. QED
    BY <1>24, <2>1, <2>2
<1>26. QED
  BY <1>1, <1>2, <1>4, <1>6, <1>11, <1>12, <1>20, <1>23, <1>25 DEF one

---------------------------------------------------------------------------
(* The powers 0x03^0 to 0x03^254 are all the bytes but 0, once each.        *)

(* Multiplication by 0x03 can be undone.                                    *)
LEMMA T3Cancels ==
  ASSUME NEW a \in Byte, NEW b \in Byte, T3[a] = T3[b]
  PROVE  a = b
<1>1. xor(a, b) \in Byte /\ T3[a] \in Byte
  BY T3Type, XorLaws
<1>2. T3[xor(a, b)] = xor(T3[a], T3[b])
  BY T3Linear, Zenon DEF Linear
<1>3. xor(T3[a], T3[b]) = zero
  BY <1>1, XorLaws
<1>4. xor(a, b) = zero
  BY <1>1, <1>2, <1>3, T3Injective
<1>5. QED
  BY <1>4, XorLaws

LEMMA PowerNonzero ==
  \A j \in 0..Top : P[j] \in Byte /\ P[j] # zero
<1> DEFINE S == {j \in 0..Top : P[j] # zero}
<1>1. 0 \in S
  <2>1. 0 \in 0..Top
    BY DEF Top
  <2>2. P[0] = one
    BY Powers DEF Chain
  <2>3. QED
    BY <2>1, <2>2, XorLaws
<1>2. ASSUME NEW j \in 0..(Top - 1), j \in S PROVE j + 1 \in S
  <2>1. j + 1 \in 0..Top
    BY DEF Top
  <2>2. P[j + 1] = T3[P[j]] /\ P[j] \in Byte
    BY NextPower
  <2>3. P[j] # zero
    BY <1>2
  <2>4. QED
    BY <2>1, <2>2, <2>3, T3Injective
<1> HIDE DEF S
<1>3. Top \in Nat
  BY DEF Top
<1>4. \A j \in 0..Top : j \in S
  BY <1>1, <1>2, <1>3, UpTo
<1>5. QED
  BY <1>4, Powers DEF S

(* The order of 0x03 divides 255...                                         *)
LEMMA Period ==
  /\ P[255] = one
  /\ \A j \in 0..768 : P[j + 255] = P[j]
<1>1. P[255] = one
  <2>1. 255 \in 0..(Top - 1) /\ 0 \in 0..(Top - 1)
    BY DEF Top
  <2>2. P[255 + 1] = T3[P[255]] /\ P[255] \in Byte
    BY <2>1, NextPower
  <2>3. P[0 + 1] = T3[P[0]] /\ P[0] \in Byte
    BY <2>1, NextPower
  <2>4. T3[P[255]] = T3[P[0]]
    BY <2>2, <2>3, PowerValues
  <2>5. P[255] = P[0]
    BY <2>2, <2>3, <2>4, T3Cancels
  <2>6. QED
    BY <2>5, PowerValues
<1>2. ASSUME NEW j \in 0..768 PROVE P[j + 255] = P[j]
  <2>1. j \in 0..Top /\ 255 \in 0..Top /\ 255 + j <= Top /\ 255 + j = j + 255
    BY DEF Top
  <2>2. Times(P[255], P[j]) = P[255 + j]
    BY <2>1, PowerSum
  <2>3. P[j] \in Byte
    BY <2>1, Powers
  <2>4. Times(one, P[j]) = P[j]
    BY <2>3, TimesOne
  <2>5. QED
    BY <1>1, <2>1, <2>2, <2>4
<1>3. QED
  BY <1>1, <1>2

(* The least power that is 1 divides 255, and no divisor gives 1 before.    *)
LEMMA Divides ==
  ASSUME NEW d \in 1..254, NEW q \in 0..255, 255 = q * d
  PROVE  d \in {1, 3, 5, 15, 17, 51, 85}
<1>1. CASE d <= 15
  <2>1. d \in {1, 2, 3, 4, 5, 6, 7, 8, 9, 10, 11, 12, 13, 14, 15}
    BY <1>1
  <2>2. QED
    BY <2>1
<1>2. CASE d >= 16
  <2>1. q <= 15
    <3>1. CASE q >= 16
      <4>1. q * d >= 16 * 16
        BY <1>2, <3>1, SMTT(30)
      <4>2. QED
        BY <4>1
    <3>2. QED
      BY <3>1
  <2>2. q \in {0, 1, 2, 3, 4, 5, 6, 7, 8, 9, 10, 11, 12, 13, 14, 15}
    BY <2>1
  <2>3. QED
    BY <2>2
<1>3. QED
  BY <1>1, <1>2

(* ... and is none of the smaller divisors.                                 *)
LEMMA DivisorsMiss ==
  ASSUME NEW d \in {1, 3, 5, 15, 17, 51, 85}
  PROVE  P[d] # one
<1>1. CASE d = 15
  <2>1. 15 \in 0..(Top - 1) /\ 0 \in 0..(Top - 1)
    BY DEF Top
  <2>2. P[15 + 1] = T3[P[15]] /\ P[0 + 1] = T3[P[0]]
    BY <2>1, NextPower
  <2>3. P[16] # P[1]
    <3>1. 2 \in P[16] /\ 2 \notin P[1]
      BY PowerValues
    <3>2. QED
      BY <3>1
  <2>4. QED
    BY <1>1, <2>2, <2>3, PowerValues
<1>2. CASE d # 15
  <2>1. one = {0}
    BY DEF one
  <2>2. 1 \in P[1] /\ 1 \in P[3] /\ 4 \in P[5]
    BY PowerValues
  <2>3. \E e \in P[17] : e # 0
    BY PowerValues
  <2>4. \E e \in P[51] : e # 0
    BY PowerValues
  <2>5. \E e \in P[85] : e # 0
    BY PowerValues
  <2>6. \E e \in P[d] : e # 0
    BY <1>2, <2>2, <2>3, <2>4, <2>5
  <2>7. QED
    BY <2>1, <2>6
<1>3. QED
  BY <1>1, <1>2

(* So it is 255: the smallest exponent that gives 1 divides 255.            *)
LEMMA Order ==
  \A d \in 1..254 : P[d] # one
<1> DEFINE S == {n \in Nat : \A d \in 1..254 : d <= n => P[d] # one}
<1>1. 0 \in S
  OBVIOUS
<1>2. ASSUME NEW n \in Nat, n \in S PROVE n + 1 \in S
  <2>1. ASSUME n + 1 \in 1..254, P[n + 1] = one PROVE FALSE
    <3> DEFINE d == n + 1
               R == {e \in 0..255 : \E q \in 0..255, r \in 0..n :
                       e = q * d + r /\ P[e] = P[r]}
    <3>1. 0 \in R
      <4>1. 0 = 0 * d + 0 /\ P[0] = P[0] /\ 0 \in 0..n /\ 0 \in 0..255
        OBVIOUS
      <4>2. QED
        BY <4>1
    <3>2. ASSUME NEW e \in 0..(255 - 1), e \in R PROVE e + 1 \in R
      <4>1. PICK q \in 0..255, r \in 0..n : e = q * d + r /\ P[e] = P[r]
        BY <3>2
      <4>2. e \in 0..(Top - 1) /\ r \in 0..(Top - 1)
        BY <2>1 DEF Top
      <4>3. P[e + 1] = P[r + 1]
        BY <4>1, <4>2, NextPower
      <4>4. CASE r < n
        <5>1. e + 1 = q * d + (r + 1) /\ r + 1 \in 0..n /\ e + 1 \in 0..255
          BY <4>1, <4>4
        <5>2. QED
          BY <4>3, <5>1
      <4>5. CASE r = n
        <5>1. P[e + 1] = P[0]
          BY <2>1, <4>3, <4>5, PowerValues
        <5>2. e + 1 = (q + 1) * d + 0
          BY <4>1, <4>5
        <5>3. q + 1 \in 0..255
          <6>1. q * d >= q
            BY SMTT(30)
          <6>2. QED
            BY <4>1, <6>1
        <5>4. 0 \in 0..n /\ e + 1 \in 0..255
          OBVIOUS
        <5>5. QED
          BY <5>1, <5>2, <5>3, <5>4
      <4>6. QED
        BY <4>4, <4>5
    <3> HIDE DEF R
    <3>3. \A e \in 0..255 : e \in R
      BY <3>1, <3>2, UpTo
    <3>4. PICK q \in 0..255, r \in 0..n : 255 = q * d + r /\ P[255] = P[r]
      <4>1. 255 \in R
        BY <3>3
      <4>2. QED
        BY <4>1, Zenon DEF R
    <3>5. P[r] = one
      BY <3>4, Period
    <3>6. r = 0
      <4>1. CASE r # 0
        <5>1. r \in 1..254 /\ r <= n
          BY <2>1, <4>1
        <5>2. QED
          BY <1>2, <3>5, <5>1
      <4>2. QED
        BY <4>1
    <3>7. 255 = q * d /\ d \in 1..254
      BY <2>1, <3>4, <3>6
    <3>8. d \in {1, 3, 5, 15, 17, 51, 85}
      BY <3>7, Divides
    <3>9. QED
      BY <2>1, <3>8, DivisorsMiss
  <2>2. \A d \in 1..254 : d <= n + 1 => d <= n \/ d = n + 1
    OBVIOUS
  <2>3. QED
    BY <1>2, <2>1, <2>2
<1> HIDE DEF S
<1>3. \A n \in Nat : n \in S
  BY <1>1, <1>2, NatInductionOnSets
<1>4. QED
  BY <1>3 DEF S

(* The first 255 powers are different bytes.                                *)
LEMMA PowersDiffer ==
  \A m, n \in 0..254 : P[m] = P[n] => m = n
<1>1. ASSUME NEW m \in 0..254, NEW n \in 0..254, m < n, P[m] = P[n] PROVE FALSE
  <2> DEFINE S == {j \in 0..m : P[m - j] = P[n - j]}
  <2>1. 0 \in S
    BY <1>1
  <2>2. ASSUME NEW j \in 0..(m - 1), j \in S PROVE j + 1 \in S
    <3>1. /\ m - (j + 1) \in 0..(Top - 1) /\ n - (j + 1) \in 0..(Top - 1)
          /\ (m - (j + 1)) + 1 = m - j /\ (n - (j + 1)) + 1 = n - j
          /\ j + 1 \in 0..m
      BY <1>1 DEF Top
    <3>2. /\ P[m - j] = T3[P[m - (j + 1)]] /\ P[m - (j + 1)] \in Byte
          /\ P[n - j] = T3[P[n - (j + 1)]] /\ P[n - (j + 1)] \in Byte
      BY <3>1, NextPower
    <3>3. P[m - j] = P[n - j]
      BY <2>2
    <3>4. P[m - (j + 1)] = P[n - (j + 1)]
      BY <3>2, <3>3, T3Cancels
    <3>5. QED
      BY <3>1, <3>4
  <2> HIDE DEF S
  <2>3. \A j \in 0..m : j \in S
    BY <2>1, <2>2, UpTo
  <2>4. m \in S
    BY <2>3
  <2>5. P[m - m] = P[n - m]
    BY <2>4 DEF S
  <2>6. m - m = 0 /\ n - m \in 1..254
    BY <1>1
  <2>7. P[n - m] = one
    BY <2>5, <2>6, PowerValues
  <2>8. QED
    BY <2>6, <2>7, Order
<1>2. \A m, n \in 0..254 : m < n \/ n < m \/ m = n
  OBVIOUS
<1>3. QED
  BY <1>1, <1>2

LEMMA Interval256 == IsFiniteSet(0..255) /\ Cardinality(0..255) = 256
<1>1. 0 \in Int /\ 255 \in Int
  OBVIOUS
<1>2. IsFiniteSet(0..255) /\ Cardinality(0..255) = IF 0 > 255 THEN 0 ELSE 255 - 0 + 1
  BY <1>1, FS_Interval
<1>3. QED
  BY <1>2

(* There are 256 bytes: each has a number, the sum of its bits' values.     *)
LEMMA NumberOfBytes == IsFiniteSet(Byte) /\ Cardinality(Byte) <= 256
<1> DEFINE v(a, e, n) == IF e \in a THEN n ELSE 0
           value(a) == v(a, 0, 1) + v(a, 1, 2) + v(a, 2, 4) + v(a, 3, 8) + v(a, 4, 16)
                       + v(a, 5, 32) + v(a, 6, 64) + v(a, 7, 128)
           f == [a \in Byte |-> value(a)]
<1>1. f \in [Byte -> 0..255]
  OBVIOUS
<1>2. ASSUME NEW a \in Byte, NEW b \in Byte, f[a] = f[b] PROVE a = b
  <2>1. value(a) = value(b)
    BY <1>2
  <2>2. /\ 0 \in a <=> 0 \in b
        /\ 1 \in a <=> 1 \in b
        /\ 2 \in a <=> 2 \in b
        /\ 3 \in a <=> 3 \in b
        /\ 4 \in a <=> 4 \in b
        /\ 5 \in a <=> 5 \in b
        /\ 6 \in a <=> 6 \in b
        /\ 7 \in a <=> 7 \in b
    BY <2>1, SMTT(60)
  <2>3. \A e \in 0..7 : e \in a <=> e \in b
    BY <2>2
  <2>4. QED
    BY <2>3 DEF Byte
<1> HIDE DEF f
<1>3. f \in Injection(Byte, 0..255)
  BY <1>1, <1>2 DEF Injection, IsInjective
<1>4. IsFiniteSet(Byte) /\ Cardinality(Byte) <= Cardinality(0..255)
  BY <1>3, Interval256, FS_Injection
<1>5. QED
  BY <1>4, Interval256

(* They are 255 bytes other than 0, so they are all of them.                *)
LEMMA EveryByte ==
  \A a \in Byte : a # zero => \E j \in 0..254 : a = P[j]
<1> DEFINE g == [j \in 0..255 |-> IF j = 255 THEN zero ELSE P[j]]
<1>1. \A j \in 0..254 : P[j] \in Byte /\ P[j] # zero
  BY PowerNonzero DEF Top
<1>2. g \in [0..255 -> Byte]
  BY <1>1, XorLaws
<1>3. \A j \in 0..255 : g[j] = IF j = 255 THEN zero ELSE P[j]
  OBVIOUS
<1> HIDE DEF g
<1>4. \A m, n \in 0..255 : g[m] = g[n] => m = n
  <2> SUFFICES ASSUME NEW m \in 0..255, NEW n \in 0..255, g[m] = g[n] PROVE m = n
    OBVIOUS
  <2>1. CASE m = 255 /\ n # 255
    <3>1. g[m] = zero /\ g[n] = P[n] /\ n \in 0..254
      BY <1>3, <2>1
    <3>2. QED
      BY <1>1, <3>1
  <2>2. CASE m # 255 /\ n = 255
    <3>1. g[n] = zero /\ g[m] = P[m] /\ m \in 0..254
      BY <1>3, <2>2
    <3>2. QED
      BY <1>1, <3>1
  <2>3. CASE m # 255 /\ n # 255
    <3>1. g[n] = P[n] /\ g[m] = P[m] /\ m \in 0..254 /\ n \in 0..254
      BY <1>3, <2>3
    <3>2. QED
      BY <3>1, PowersDiffer
  <2>4. QED
    BY <2>1, <2>2, <2>3
<1>5. g \in Injection(0..255, Byte)
  BY <1>2, <1>4 DEF Injection, IsInjective
<1>6. Cardinality(0..255) = 256
  BY Interval256
<1>7. /\ Cardinality(0..255) <= Cardinality(Byte)
      /\ Cardinality(0..255) = Cardinality(Byte) <=> g \in Surjection(0..255, Byte)
  BY <1>5, NumberOfBytes, FS_Injection
<1>8. Cardinality(Byte) \in Nat
  BY NumberOfBytes, FS_CardinalityType
<1>9. Cardinality(0..255) = Cardinality(Byte)
  BY <1>6, <1>7, <1>8, NumberOfBytes
<1>10. \A a \in Byte : \E j \in 0..255 : g[j] = a
  BY <1>7, <1>9, Zenon DEF Surjection
<1>11. ASSUME NEW a \in Byte, a # zero PROVE \E j \in 0..254 : a = P[j]
  <2>1. PICK j \in 0..255 : g[j] = a
    BY <1>10
  <2>2. j # 255 /\ g[j] = P[j]
    BY <1>3, <1>11, <2>1
  <2>3. j \in 0..254
    BY <2>2
  <2>4. QED
    BY <2>1, <2>2, <2>3
<1>12. QED
  BY <1>11

(* The laws of the field. Powers of 0x03 multiply by adding exponents,      *)
(* hence commute, associate and have inverses; 0 is apart.                  *)
LEMMA Field ==
  /\ \A a, b \in Byte : Times(a, b) \in Byte /\ Times(a, b) = Times(b, a)
  /\ \A a, b, c \in Byte : Times(Times(a, b), c) = Times(a, Times(b, c))
  /\ \A a, b, c \in Byte : Times(c, xor(a, b)) = xor(Times(c, a), Times(c, b))
  /\ \A a \in Byte : Times(one, a) = a /\ Times(a, one) = a
  /\ \A a \in Byte : Times(zero, a) = zero /\ Times(a, zero) = zero
  /\ \A a, b \in Byte : Times(a, b) = zero => a = zero \/ b = zero
  /\ \A a \in Byte : a # zero => \E b \in Byte : b # zero /\ Times(a, b) = one
<1>1. ASSUME NEW a \in Byte, NEW b \in Byte
      PROVE  Times(a, b) \in Byte /\ Times(a, b) = Times(b, a)
  <2>1. Times(a, b) \in Byte
    BY TimesLinear
  <2>2. Times(a, b) = Times(b, a)
    BY TimesCommutes
  <2>3. QED
    BY <2>1, <2>2
<1>2. ASSUME NEW a \in Byte
      PROVE  /\ Times(one, a) = a /\ Times(a, one) = a
             /\ Times(zero, a) = zero /\ Times(a, zero) = zero
  <2>1. zero \in Byte /\ one \in Byte
    BY XorLaws
  <2>2. Times(one, a) = a /\ Times(zero, a) = zero
    BY TimesOne
  <2>3. QED
    BY <1>1, <2>1, <2>2
<1>3. ASSUME NEW a \in Byte, NEW b \in Byte, NEW c \in Byte
      PROVE  Times(c, xor(a, b)) = xor(Times(c, a), Times(c, b))
  BY TimesLinear
<1>4. ASSUME NEW a \in Byte, NEW b \in Byte, NEW c \in Byte
      PROVE  Times(Times(a, b), c) = Times(a, Times(b, c))
  <2>1. zero \in Byte /\ Times(a, b) \in Byte /\ Times(b, c) \in Byte
    BY <1>1, XorLaws
  <2>2. CASE a = zero \/ b = zero \/ c = zero
    <3>1. CASE a = zero
      BY <1>2, <2>1, <3>1
    <3>2. CASE b = zero
      BY <1>2, <2>1, <3>2
    <3>3. CASE c = zero
      BY <1>2, <2>1, <3>3
    <3>4. QED
      BY <2>2, <3>1, <3>2, <3>3
  <2>3. CASE a # zero /\ b # zero /\ c # zero
    <3>1. PICK m \in 0..254 : a = P[m]
      BY <2>3, EveryByte
    <3>2. PICK n \in 0..254 : b = P[n]
      BY <2>3, EveryByte
    <3>3. PICK l \in 0..254 : c = P[l]
      BY <2>3, EveryByte
    <3>4. PICK e \in 0..508 : e = m + n /\ Times(P[m], P[n]) = P[e]
      <4>1. m \in 0..Top /\ n \in 0..Top /\ m + n <= Top /\ m + n \in 0..508
        BY DEF Top
      <4>2. Times(P[m], P[n]) = P[m + n]
        BY <4>1, PowerSum
      <4>3. QED
        BY <4>1, <4>2
    <3>5. PICK f \in 0..508 : f = n + l /\ Times(P[n], P[l]) = P[f]
      <4>1. n \in 0..Top /\ l \in 0..Top /\ n + l <= Top /\ n + l \in 0..508
        BY DEF Top
      <4>2. Times(P[n], P[l]) = P[n + l]
        BY <4>1, PowerSum
      <4>3. QED
        BY <4>1, <4>2
    <3>6. PICK g \in Nat : g = e + l /\ g = m + f /\ g <= Top
      BY <3>4, <3>5 DEF Top
    <3>7. Times(P[e], P[l]) = P[g]
      <4>1. e \in 0..Top /\ l \in 0..Top /\ e + l <= Top /\ e + l = g
        BY <3>6 DEF Top
      <4>2. QED
        BY <4>1, PowerSum
    <3>8. Times(P[m], P[f]) = P[g]
      <4>1. m \in 0..Top /\ f \in 0..Top /\ m + f <= Top /\ m + f = g
        BY <3>6 DEF Top
      <4>2. QED
        BY <4>1, PowerSum
    <3>9. QED
      BY <3>1, <3>2, <3>3, <3>4, <3>5, <3>7, <3>8
  <2>4. QED
    BY <2>2, <2>3
<1>5. ASSUME NEW a \in Byte, NEW b \in Byte, a # zero, b # zero
      PROVE  Times(a, b) # zero
  <2>1. PICK m \in 0..254 : a = P[m]
    BY <1>5, EveryByte
  <2>2. PICK n \in 0..254 : b = P[n]
    BY <1>5, EveryByte
  <2>3. PICK e \in 0..508 : e = m + n /\ Times(P[m], P[n]) = P[e]
    <3>1. m \in 0..Top /\ n \in 0..Top /\ m + n <= Top /\ m + n \in 0..508
      BY DEF Top
    <3>2. Times(P[m], P[n]) = P[m + n]
      BY <3>1, PowerSum
    <3>3. QED
      BY <3>1, <3>2
  <2>4. e \in 0..Top /\ P[e] # zero
    BY PowerNonzero DEF Top
  <2>5. QED
    BY <2>1, <2>2, <2>3, <2>4
<1>6. ASSUME NEW a \in Byte, a # zero
      PROVE  \E b \in Byte : b # zero /\ Times(a, b) = one
  <2>1. PICK m \in 0..254 : a = P[m]
    BY <1>6, EveryByte
  <2>2. 255 - m \in 0..Top /\ m \in 0..Top /\ m + (255 - m) <= Top /\ m + (255 - m) = 255
    BY DEF Top
  <2>3. Times(P[m], P[255 - m]) = P[m + (255 - m)]
    BY <2>2, PowerSum
  <2>4. P[255 - m] \in Byte /\ P[255 - m] # zero
    BY <2>2, PowerNonzero
  <2>5. Times(a, P[255 - m]) = one
    BY <2>1, <2>2, <2>3, Period
  <2>6. QED
    BY <2>4, <2>5
<1>7. QED
  BY <1>1, <1>2, <1>3, <1>4, <1>5, <1>6

---------------------------------------------------------------------------
(* The tables that gf_init builds.                                          *)

(* The first n entries of gf_exp are the powers of 0x03, and gf_log is      *)
(* their inverse; the next turn stores the next power.                      *)
TablesTo(n) ==
  /\ \A j \in 0..511 : j < n => gf_exp[j] = P[j]
  /\ \A j \in 0..254 : j < n => gf_log[P[j]] = j
  /\ n <= 255 => x = P[n]

TablesDone ==
  /\ gf_exp \in [0..511 -> Byte] /\ gf_log \in [Byte -> 0..254]
  /\ TablesTo(512)

Slots == 0..511
Logs  == 0..254

(* Entries that are set, without the bound of TablesTo.                     *)
LEMMA TableEntries ==
  ASSUME TablesDone
  PROVE  /\ \A j \in Slots : gf_exp[j] = P[j]
         /\ \A j \in Logs : gf_log[P[j]] = j
<1>1. /\ \A j \in 0..511 : j < 512 => gf_exp[j] = P[j]
      /\ \A j \in 0..254 : j < 512 => gf_log[P[j]] = j
  BY Zenon DEF TablesDone, TablesTo
<1>2. ASSUME NEW j \in 0..511 PROVE gf_exp[j] = P[j]
  <2>1. j < 512
    OBVIOUS
  <2>2. QED
    BY <1>1, <2>1
<1>3. ASSUME NEW j \in 0..254 PROVE gf_log[P[j]] = j
  <2>1. j < 512
    OBVIOUS
  <2>2. QED
    BY <1>1, <2>1
<1>4. QED
  BY <1>2, <1>3 DEF Slots, Logs

(* gf_mul is the multiplication: exponents add up, and no sum is past the   *)
(* doubled table.                                                           *)
LEMMA TableMul ==
  ASSUME TablesDone, NEW a \in Byte, NEW b \in Byte
  PROVE  gf_mul(a, b) = Times(a, b)
<1>1. /\ \A j \in Slots : gf_exp[j] = P[j]
      /\ \A j \in Logs : gf_log[P[j]] = j
  BY TableEntries, Zenon
<1>2. CASE a = zero \/ b = zero
  <2>1. gf_mul(a, b) = zero
    BY <1>2 DEF gf_mul
  <2>2. Times(a, b) = zero
    BY <1>2, Field
  <2>3. QED
    BY <2>1, <2>2
<1>3. CASE a # zero /\ b # zero
  <2>1. PICK m \in 0..254 : a = P[m]
    BY <1>3, EveryByte
  <2>2. PICK n \in 0..254 : b = P[n]
    BY <1>3, EveryByte
  <2>3. m + n \in 0..511 /\ m + n <= Top /\ m \in 0..Top /\ n \in 0..Top
    BY DEF Top
  <2>4. PICK e \in 0..511 : e = m + n /\ e <= Top /\ m \in 0..Top /\ n \in 0..Top
    BY <2>3
  <2>5. e \in Slots /\ m \in Logs /\ n \in Logs
    BY DEF Slots, Logs
  <2>6. gf_log[a] = m /\ gf_log[b] = n
    BY <1>1, <2>1, <2>2, <2>5, Zenon
  <2>7. gf_exp[e] = P[e]
    BY <1>1, <2>5, Zenon
  <2>8. Times(P[m], P[n]) = P[e]
    BY <2>4, PowerSum
  <2>9. gf_mul(a, b) = gf_exp[e]
    BY <1>3, <2>4, <2>6 DEF gf_mul
  <2>10. QED
    BY <2>1, <2>2, <2>7, <2>8, <2>9
<1>4. QED
  BY <1>2, <1>3

(* gf_div is its inverse: 255 is added to the difference, which is no entry *)
(* of another power.                                                        *)
LEMMA TableDiv ==
  ASSUME TablesDone, NEW a \in Byte, NEW b \in Byte, b # zero
  PROVE  gf_div(a, b) \in Byte /\ Times(gf_div(a, b), b) = a
<1>1. /\ \A j \in Slots : gf_exp[j] = P[j]
      /\ \A j \in Logs : gf_log[P[j]] = j
  BY TableEntries, Zenon
<1>2. CASE a = zero
  <2>1. gf_div(a, b) = zero /\ zero \in Byte
    BY <1>2, XorLaws DEF gf_div
  <2>2. QED
    BY <1>2, <2>1, Field
<1>3. CASE a # zero
  <2>1. PICK m \in 0..254 : a = P[m]
    BY <1>3, EveryByte
  <2>2. PICK n \in 0..254 : b = P[n]
    BY EveryByte
  <2>3. m + 255 - n \in 0..511
    OBVIOUS
  <2>4. PICK e \in 0..511 : e = m + 255 - n
    BY <2>3
  <2>5. e \in Slots /\ m \in Logs /\ n \in Logs
    BY DEF Slots, Logs
  <2>6. gf_log[a] = m /\ gf_log[b] = n
    BY <1>1, <2>1, <2>2, <2>5, Zenon
  <2>7. gf_div(a, b) = gf_exp[e]
    BY <1>3, <2>4, <2>6 DEF gf_div
  <2>8. gf_exp[e] = P[e]
    BY <1>1, <2>5, Zenon
  <2>9. e \in 0..Top /\ n \in 0..Top /\ e + n <= Top /\ e + n = m + 255 /\ m \in 0..768
    BY <2>4 DEF Top
  <2>10. Times(P[e], P[n]) = P[e + n]
    BY <2>9, PowerSum
  <2>11. P[m + 255] = P[m] /\ P[e] \in Byte
    BY <2>9, Period, PowerNonzero
  <2>12. Times(P[e], P[n]) = P[m]
    BY <2>9, <2>10, <2>11
  <2>13. QED
    BY <2>1, <2>2, <2>7, <2>8, <2>11, <2>12
<1>4. QED
  BY <1>2, <1>3

---------------------------------------------------------------------------
(* The laws one by one, as the proofs below cite them.                      *)
LEMMA XorType ==
  ASSUME NEW a \in Byte, NEW b \in Byte
  PROVE  xor(a, b) \in Byte
BY XorLaws

LEMMA TimesType ==
  ASSUME NEW a \in Byte, NEW b \in Byte
  PROVE  Times(a, b) \in Byte
BY Field

LEMMA Associates ==
  ASSUME NEW a \in Byte, NEW b \in Byte, NEW c \in Byte
  PROVE  Times(Times(a, b), c) = Times(a, Times(b, c))
BY Field

LEMMA Distributes ==
  ASSUME NEW a \in Byte, NEW b \in Byte, NEW c \in Byte
  PROVE  Times(c, xor(a, b)) = xor(Times(c, a), Times(c, b))
BY Field

(* A product, its factors taken in another order.                           *)
LEMMA Reorder ==
  ASSUME NEW a \in Byte, NEW b \in Byte, NEW c \in Byte
  PROVE  Times(a, Times(b, c)) = Times(b, Times(a, c))
<1>1. Times(a, Times(b, c)) = Times(Times(a, b), c)
  BY Associates
<1>2. Times(a, b) = Times(b, a)
  BY TimesCommutes
<1>3. Times(Times(b, a), c) = Times(b, Times(a, c))
  BY Associates
<1>4. QED
  BY <1>1, <1>2, <1>3

(* A factor that is not zero may be left out of both sides.                 *)
LEMMA Cancels ==
  ASSUME NEW a \in Byte, NEW b \in Byte, NEW c \in Byte, c # zero,
         Times(a, c) = Times(b, c)
  PROVE  a = b
<1>1. PICK d \in Byte : Times(c, d) = one
  BY Field
<1>2. Times(Times(a, c), d) = Times(a, one) /\ Times(Times(b, c), d) = Times(b, one)
  BY <1>1, Associates
<1>3. Times(a, one) = a /\ Times(b, one) = b
  BY Field
<1>4. QED
  BY <1>2, <1>3

---------------------------------------------------------------------------
(* Sums and products over 1..n.                                             *)

Total(n, v) ==
  LET s[j \in 0..n] == IF j = 0 THEN zero ELSE xor(s[j - 1], v[j])
  IN  s[n]

Prod(n, f) ==
  LET p[j \in 0..n] == IF j = 0 THEN one ELSE Times(p[j - 1], f[j])
  IN  p[n]

IsSums(n, v, s) ==
  s = [j \in 0..n |-> IF j = 0 THEN zero ELSE xor(s[j - 1], v[j])]

IsProds(n, f, p) ==
  p = [j \in 0..n |-> IF j = 0 THEN one ELSE Times(p[j - 1], f[j])]

(* A sum by its partial sums.                                               *)
LEMMA SumsExist ==
  ASSUME NEW n \in Nat, NEW v \in [1..n -> Byte]
  PROVE  \E s \in [0..n -> Byte] :
           /\ s[0] = zero
           /\ \A j \in 1..n : s[j] = xor(s[j - 1], v[j])
           /\ Total(n, v) = s[n]
<1> DEFINE step == [m \in 1..n |-> [a \in Byte |-> xor(a, v[m])]]
<1>1. step \in [1..n -> [Byte -> Byte]] /\ zero \in Byte
  BY XorLaws
<1>2. PICK r \in [0..n -> Byte] : Recurs(r, n, zero, step)
  <2> HIDE DEF step
  <2>1. QED
    BY <1>1, Recursion
<1>3. IsSums(n, v, r)
  <2>1. ASSUME NEW j \in 0..n
        PROVE  (IF j = 0 THEN zero ELSE step[j][r[j - 1]])
               = (IF j = 0 THEN zero ELSE xor(r[j - 1], v[j]))
    <3>1. CASE j = 0
      BY <3>1
    <3>2. CASE j # 0
      <4>1. j \in 1..n /\ j - 1 \in 0..n
        BY <3>2
      <4>2. r[j - 1] \in Byte
        BY <4>1
      <4>3. step[j][r[j - 1]] = xor(r[j - 1], v[j])
        BY <4>1, <4>2
      <4>4. QED
        BY <3>2, <4>3
    <3>3. QED
      BY <3>1, <3>2
  <2> HIDE DEF step
  <2>2. QED
    BY <1>2, <2>1 DEF Recurs, IsSums
<1> DEFINE s == CHOOSE h : IsSums(n, v, h)
<1>4. IsSums(n, v, s)
  BY <1>3
<1>5. Total(n, v) = s[n]
  BY DEF Total, IsSums
<1> HIDE DEF s
<1>6. \A j \in 0..n : s[j] = IF j = 0 THEN zero ELSE xor(s[j - 1], v[j])
  BY <1>4 DEF IsSums
<1>7. DOMAIN s = 0..n /\ s = [j \in 0..n |-> s[j]]
  BY <1>4 DEF IsSums
<1> DEFINE R == {m \in 0..n : s[m] \in Byte}
<1>8. 0 \in R
  BY <1>6, XorLaws
<1>9. ASSUME NEW m \in 0..(n - 1), m \in R PROVE m + 1 \in R
  <2>1. m + 1 \in 1..n /\ (m + 1) - 1 = m
    OBVIOUS
  <2>2. s[m + 1] = xor(s[m], v[m + 1])
    BY <1>6, <2>1
  <2>3. s[m] \in Byte /\ v[m + 1] \in Byte
    BY <1>9, <2>1
  <2>4. s[m + 1] \in Byte
    BY <2>2, <2>3, XorType
  <2>5. QED
    BY <2>1, <2>4
<1> HIDE DEF R
<1>10. \A m \in 0..n : m \in R
  BY <1>8, <1>9, UpTo
<1>11. s \in [0..n -> Byte]
  BY <1>7, <1>10 DEF R
<1>12. s[0] = zero /\ \A j \in 1..n : s[j] = xor(s[j - 1], v[j])
  BY <1>6
<1>13. QED
  BY <1>5, <1>11, <1>12

(* A product by its partial products.                                       *)
LEMMA ProdsExist ==
  ASSUME NEW n \in Nat, NEW f \in [1..n -> Byte]
  PROVE  \E p \in [0..n -> Byte] :
           /\ p[0] = one
           /\ \A j \in 1..n : p[j] = Times(p[j - 1], f[j])
           /\ Prod(n, f) = p[n]
<1> DEFINE step == [m \in 1..n |-> [a \in Byte |-> Times(a, f[m])]]
<1>1. step \in [1..n -> [Byte -> Byte]] /\ one \in Byte
  BY XorLaws, Field
<1>2. PICK r \in [0..n -> Byte] : Recurs(r, n, one, step)
  <2> HIDE DEF step
  <2>1. QED
    BY <1>1, Recursion
<1>3. IsProds(n, f, r)
  <2>1. ASSUME NEW j \in 0..n
        PROVE  (IF j = 0 THEN one ELSE step[j][r[j - 1]])
               = (IF j = 0 THEN one ELSE Times(r[j - 1], f[j]))
    <3>1. CASE j = 0
      BY <3>1
    <3>2. CASE j # 0
      <4>1. j \in 1..n /\ j - 1 \in 0..n
        BY <3>2
      <4>2. r[j - 1] \in Byte
        BY <4>1
      <4>3. step[j][r[j - 1]] = Times(r[j - 1], f[j])
        BY <4>1, <4>2
      <4>4. QED
        BY <3>2, <4>3
    <3>3. QED
      BY <3>1, <3>2
  <2> HIDE DEF step
  <2>2. QED
    BY <1>2, <2>1 DEF Recurs, IsProds
<1> DEFINE p == CHOOSE h : IsProds(n, f, h)
<1>4. IsProds(n, f, p)
  BY <1>3
<1>5. Prod(n, f) = p[n]
  BY DEF Prod, IsProds
<1> HIDE DEF p
<1>6. \A j \in 0..n : p[j] = IF j = 0 THEN one ELSE Times(p[j - 1], f[j])
  BY <1>4 DEF IsProds
<1>7. DOMAIN p = 0..n /\ p = [j \in 0..n |-> p[j]]
  BY <1>4 DEF IsProds
<1> DEFINE R == {m \in 0..n : p[m] \in Byte}
<1>8. 0 \in R
  BY <1>6, XorLaws
<1>9. ASSUME NEW m \in 0..(n - 1), m \in R PROVE m + 1 \in R
  <2>1. m + 1 \in 1..n /\ (m + 1) - 1 = m
    OBVIOUS
  <2>2. p[m + 1] = Times(p[m], f[m + 1])
    BY <1>6, <2>1
  <2>3. p[m] \in Byte /\ f[m + 1] \in Byte
    BY <1>9, <2>1
  <2>4. p[m + 1] \in Byte
    BY <2>2, <2>3, TimesType
  <2>5. QED
    BY <2>1, <2>4
<1> HIDE DEF R
<1>10. \A m \in 0..n : m \in R
  BY <1>8, <1>9, UpTo
<1>11. p \in [0..n -> Byte]
  BY <1>7, <1>10 DEF R
<1>12. p[0] = one /\ \A j \in 1..n : p[j] = Times(p[j - 1], f[j])
  BY <1>6
<1>13. QED
  BY <1>5, <1>11, <1>12

(* A sum is linear in its terms.                                            *)
Combines(n, u, c, v, d, w) ==
  /\ n \in Nat /\ c \in Byte /\ d \in Byte
  /\ u \in [1..n -> Byte] /\ v \in [1..n -> Byte] /\ w \in [1..n -> Byte]
  /\ \A j \in 1..n : u[j] = xor(Times(c, v[j]), Times(d, w[j]))

LEMMA SumLinear ==
  ASSUME NEW n, NEW c, NEW d, NEW u, NEW v, NEW w, Combines(n, u, c, v, d, w)
  PROVE  Total(n, u) = xor(Times(c, Total(n, v)), Times(d, Total(n, w)))
<1> USE DEF Combines
<1>1. PICK s \in [0..n -> Byte] :
        /\ s[0] = zero
        /\ \A j \in 1..n : s[j] = xor(s[j - 1], u[j])
        /\ Total(n, u) = s[n]
  BY SumsExist
<1>2. PICK t \in [0..n -> Byte] :
        /\ t[0] = zero
        /\ \A j \in 1..n : t[j] = xor(t[j - 1], v[j])
        /\ Total(n, v) = t[n]
  BY SumsExist
<1>3. PICK r \in [0..n -> Byte] :
        /\ r[0] = zero
        /\ \A j \in 1..n : r[j] = xor(r[j - 1], w[j])
        /\ Total(n, w) = r[n]
  BY SumsExist
<1> DEFINE R == {m \in 0..n : s[m] = xor(Times(c, t[m]), Times(d, r[m]))}
<1>4. 0 \in R
  <2>1. Times(c, zero) = zero /\ Times(d, zero) = zero /\ xor(zero, zero) = zero
    BY Field, XorLaws
  <2>2. s[0] = xor(Times(c, t[0]), Times(d, r[0]))
    BY <1>1, <1>2, <1>3, <2>1, Zenon
  <2>3. QED
    BY <2>2
<1>5. ASSUME NEW m \in 0..(n - 1), m \in R PROVE m + 1 \in R
  <2>1. m + 1 \in 1..n /\ (m + 1) - 1 = m /\ m \in 0..n /\ m + 1 \in 0..n
    OBVIOUS
  <2>2. PICK b \in 1..n : b = m + 1 /\ b - 1 = m
    BY <2>1
  <2>3. /\ s[m] \in Byte /\ t[m] \in Byte /\ r[m] \in Byte
        /\ u[b] \in Byte /\ v[b] \in Byte /\ w[b] \in Byte
    BY <2>1
  <2>4. /\ s[b] = xor(s[m], u[b]) /\ t[b] = xor(t[m], v[b]) /\ r[b] = xor(r[m], w[b])
    BY <1>1, <1>2, <1>3, <2>2
  <2>5. s[m] = xor(Times(c, t[m]), Times(d, r[m]))
    BY <1>5
  <2>6. u[b] = xor(Times(c, v[b]), Times(d, w[b]))
    BY <2>2
  <2>7. /\ Times(c, t[m]) \in Byte /\ Times(d, r[m]) \in Byte
        /\ Times(c, v[b]) \in Byte /\ Times(d, w[b]) \in Byte
    BY <2>3, TimesType
  <2>8. s[b] = xor(xor(Times(c, t[m]), Times(c, v[b])), xor(Times(d, r[m]), Times(d, w[b])))
    BY <2>4, <2>5, <2>6, <2>7, XorSwap
  <2>9. Times(c, t[b]) = xor(Times(c, t[m]), Times(c, v[b]))
    BY <2>3, <2>4, Distributes
  <2>10. Times(d, r[b]) = xor(Times(d, r[m]), Times(d, w[b]))
    BY <2>3, <2>4, Distributes
  <2>11. s[b] = xor(Times(c, t[b]), Times(d, r[b]))
    BY <2>8, <2>9, <2>10
  <2>12. QED
    BY <2>1, <2>2, <2>11
<1> HIDE DEF R
<1>6. \A m \in 0..n : m \in R
  BY <1>4, <1>5, UpTo
<1>7. n \in R
  BY <1>6
<1>8. QED
  BY <1>1, <1>2, <1>3, <1>7 DEF R

(* Of terms that are all 0 but one, the sum is that one.                    *)
LEMMA SumSingle ==
  ASSUME NEW n \in Nat, NEW v \in [1..n -> Byte], NEW b \in 1..n,
         \A j \in 1..n : j # b => v[j] = zero
  PROVE  Total(n, v) = v[b]
<1>1. PICK s \in [0..n -> Byte] :
        /\ s[0] = zero
        /\ \A j \in 1..n : s[j] = xor(s[j - 1], v[j])
        /\ Total(n, v) = s[n]
  BY SumsExist
<1> DEFINE R == {m \in 0..n : s[m] = IF m < b THEN zero ELSE v[b]}
<1>2. 0 \in R
  BY <1>1
<1>3. ASSUME NEW m \in 0..(n - 1), m \in R PROVE m + 1 \in R
  <2>1. m + 1 \in 1..n /\ (m + 1) - 1 = m /\ m \in 0..n /\ m + 1 \in 0..n
    OBVIOUS
  <2>2. PICK e \in 1..n : e = m + 1 /\ e - 1 = m
    BY <2>1
  <2>3. s[e] = xor(s[m], v[e]) /\ s[m] \in Byte /\ v[e] \in Byte
    BY <1>1, <2>1, <2>2
  <2>4. s[m] = IF m < b THEN zero ELSE v[b]
    BY <1>3
  <2>5. CASE e = b
    <3>1. s[m] = zero
      BY <2>2, <2>4, <2>5
    <3>2. xor(zero, v[b]) = v[b]
      BY XorLaws
    <3>3. s[e] = v[b] /\ ~(e < b)
      BY <2>3, <2>5, <3>1, <3>2
    <3>4. QED
      BY <2>1, <2>2, <3>3
  <2>6. CASE e # b
    <3>1. v[e] = zero /\ xor(s[m], zero) = s[m]
      BY <2>3, <2>6, XorLaws
    <3>2. s[e] = s[m] /\ (e < b <=> m < b)
      BY <2>2, <2>3, <2>6, <3>1
    <3>3. QED
      BY <2>1, <2>2, <2>4, <3>2
  <2>7. QED
    BY <2>5, <2>6
<1> HIDE DEF R
<1>4. \A m \in 0..n : m \in R
  BY <1>2, <1>3, UpTo
<1>5. n \in R /\ ~(n < b)
  BY <1>4
<1>6. QED
  BY <1>1, <1>5 DEF R

(* A factor taken out of a product.                                         *)
LEMMA ProdRemove ==
  ASSUME NEW n \in Nat, NEW f \in [1..n -> Byte], NEW g \in [1..n -> Byte],
         NEW b \in 1..n, g[b] = one, \A j \in 1..n : j # b => g[j] = f[j]
  PROVE  Prod(n, f) = Times(f[b], Prod(n, g))
<1>1. PICK p \in [0..n -> Byte] :
        /\ p[0] = one
        /\ \A j \in 1..n : p[j] = Times(p[j - 1], f[j])
        /\ Prod(n, f) = p[n]
  BY ProdsExist
<1>2. PICK q \in [0..n -> Byte] :
        /\ q[0] = one
        /\ \A j \in 1..n : q[j] = Times(q[j - 1], g[j])
        /\ Prod(n, g) = q[n]
  BY ProdsExist
<1> DEFINE R == {m \in 0..n : p[m] = IF m < b THEN q[m] ELSE Times(f[b], q[m])}
<1>3. 0 \in R
  BY <1>1, <1>2
<1>4. ASSUME NEW m \in 0..(n - 1), m \in R PROVE m + 1 \in R
  <2>1. m + 1 \in 1..n /\ (m + 1) - 1 = m /\ m \in 0..n /\ m + 1 \in 0..n
    OBVIOUS
  <2>2. PICK e \in 1..n : e = m + 1 /\ e - 1 = m
    BY <2>1
  <2>3. /\ p[e] = Times(p[m], f[e]) /\ q[e] = Times(q[m], g[e])
        /\ p[m] \in Byte /\ q[m] \in Byte /\ f[e] \in Byte /\ g[e] \in Byte /\ f[b] \in Byte
    BY <1>1, <1>2, <2>1, <2>2
  <2>4. p[m] = IF m < b THEN q[m] ELSE Times(f[b], q[m])
    BY <1>4
  <2>5. CASE e = b
    <3>1. p[m] = q[m] /\ ~(e < b)
      BY <2>2, <2>4, <2>5
    <3>2. q[e] = q[m]
      BY <2>3, <2>5, Field
    <3>3. p[e] = Times(f[b], q[e])
      BY <2>3, <2>5, <3>1, <3>2, TimesCommutes
    <3>4. QED
      BY <2>1, <2>2, <3>1, <3>3
  <2>6. CASE e # b /\ e < b
    <3>1. p[e] = q[e]
      BY <2>2, <2>3, <2>4, <2>6
    <3>2. QED
      BY <2>1, <2>2, <2>6, <3>1
  <2>7. CASE e # b /\ ~(e < b)
    <3>1. p[m] = Times(f[b], q[m]) /\ g[e] = f[e]
      BY <2>2, <2>4, <2>7
    <3>2. Times(Times(f[b], q[m]), f[e]) = Times(f[b], Times(q[m], f[e]))
      BY <2>3, Associates
    <3>3. p[e] = Times(f[b], q[e])
      BY <2>3, <3>1, <3>2
    <3>4. QED
      BY <2>1, <2>2, <2>7, <3>3
  <2>8. QED
    BY <2>5, <2>6, <2>7
<1> HIDE DEF R
<1>5. \A m \in 0..n : m \in R
  BY <1>3, <1>4, UpTo
<1>6. n \in R /\ ~(n < b)
  BY <1>5
<1>7. QED
  BY <1>1, <1>2, <1>6 DEF R

(* A product is a byte; of factors other than 0 it is not 0; of ones it is  *)
(* one.                                                                     *)
LEMMA ProdType ==
  ASSUME NEW n \in Nat, NEW f \in [1..n -> Byte]
  PROVE  /\ Prod(n, f) \in Byte
         /\ (\A j \in 1..n : f[j] # zero) => Prod(n, f) # zero
         /\ (\A j \in 1..n : f[j] = one) => Prod(n, f) = one
<1>1. PICK p \in [0..n -> Byte] :
        /\ p[0] = one
        /\ \A j \in 1..n : p[j] = Times(p[j - 1], f[j])
        /\ Prod(n, f) = p[n]
  BY ProdsExist
<1> DEFINE Nonzero == \A j \in 1..n : f[j] # zero
           Ones    == \A j \in 1..n : f[j] = one
           R       == {m \in 0..n : (Nonzero => p[m] # zero) /\ (Ones => p[m] = one)}
<1>2. /\ Nonzero <=> \A j \in 1..n : f[j] # zero
      /\ Ones <=> \A j \in 1..n : f[j] = one
  OBVIOUS
<1> HIDE DEF Nonzero, Ones
<1>3. 0 \in R
  BY <1>1, XorLaws
<1>4. ASSUME NEW m \in 0..(n - 1), m \in R PROVE m + 1 \in R
  <2>1. m + 1 \in 1..n /\ (m + 1) - 1 = m /\ m \in 0..n /\ m + 1 \in 0..n
    OBVIOUS
  <2>2. PICK e \in 1..n : e = m + 1 /\ e - 1 = m
    BY <2>1
  <2>3. p[e] = Times(p[m], f[e]) /\ p[m] \in Byte /\ f[e] \in Byte
    BY <1>1, <2>1, <2>2
  <2>4. ASSUME Nonzero PROVE p[e] # zero
    <3>1. p[m] # zero /\ f[e] # zero
      BY <1>2, <1>4, <2>4
    <3>2. QED
      BY <2>3, <3>1, Field
  <2>5. ASSUME Ones PROVE p[e] = one
    <3>1. p[m] = one /\ f[e] = one
      BY <1>2, <1>4, <2>5
    <3>2. Times(one, one) = one
      BY Field, XorLaws
    <3>3. QED
      BY <2>3, <3>1, <3>2
  <2>6. QED
    BY <2>1, <2>2, <2>4, <2>5
<1> HIDE DEF R
<1>5. \A m \in 0..n : m \in R
  BY <1>3, <1>4, UpTo
<1>6. n \in R
  BY <1>5
<1>7. Prod(n, f) \in Byte
  BY <1>1
<1>8. (Nonzero => p[n] # zero) /\ (Ones => p[n] = one)
  BY <1>6 DEF R
<1>9. QED
  BY <1>2, <1>1, <1>7, <1>8

(* a ^ b = c gives a = c ^ b.                                               *)
LEMMA XorMoves ==
  ASSUME NEW a \in Byte, NEW b \in Byte, NEW c, xor(a, b) = c
  PROVE  a = xor(c, b)
<1>1. \A f : f \in xor(xor(a, b), b) <=> f \in a
  BY XorBit
<1>2. QED
  BY <1>1

(* A sum of bytes is a byte.                                                *)
LEMMA TotalType ==
  ASSUME NEW n \in Nat, NEW v \in [1..n -> Byte]
  PROVE  Total(n, v) \in Byte
<1>1. PICK s \in [0..n -> Byte] : Total(n, v) = s[n]
  BY SumsExist
<1>2. n \in 0..n
  OBVIOUS
<1>3. QED
  BY <1>1, <1>2

(* The sum of v + c * w.                                                    *)
LEMMA SumAdds ==
  ASSUME NEW n, NEW c, NEW u, NEW v, NEW w, Combines(n, u, one, v, c, w)
  PROVE  Total(n, u) = xor(Total(n, v), Times(c, Total(n, w)))
<1>1. one \in Byte /\ Total(n, v) \in Byte
  BY TotalType, XorLaws DEF Combines
<1>2. Total(n, u) = xor(Times(one, Total(n, v)), Times(c, Total(n, w)))
  BY <1>1, SumLinear
<1>3. Times(one, Total(n, v)) = Total(n, v)
  BY <1>1, Field
<1>4. QED
  BY <1>2, <1>3

---------------------------------------------------------------------------
(* Lagrange's interpolation at 0, from the points of a set S of shares.     *)

Points(n, X) ==
  /\ n \in Nat /\ X \in [1..n -> Byte]
  /\ \A j, l \in 1..n : X[j] = X[l] => j = l

Above(n, X, S, j) == [m \in 1..n |-> IF m \in S \ {j} THEN X[m] ELSE one]
Below(n, X, S, j) == [m \in 1..n |-> IF m \in S \ {j} THEN xor(X[j], X[m]) ELSE one]

Num(n, X, S, j) == Prod(n, Above(n, X, S, j))
Den(n, X, S, j) == Prod(n, Below(n, X, S, j))

W(n, X, S, j) == CHOOSE w \in Byte : Times(w, Den(n, X, S, j)) = Num(n, X, S, j)

Term(n, X, S, g) == [j \in 1..n |-> IF j \in S THEN Times(W(n, X, S, j), g[j]) ELSE zero]

AtZero(n, X, S, g) == Total(n, Term(n, X, S, g))

(* Factors of points that differ are bytes, those of a denominator not 0.   *)
LEMMA FactorTypes ==
  ASSUME NEW n, NEW X, Points(n, X), NEW S, NEW j \in 1..n
  PROVE  /\ Above(n, X, S, j) \in [1..n -> Byte]
         /\ Below(n, X, S, j) \in [1..n -> Byte]
         /\ \A m \in 1..n : Below(n, X, S, j)[m] # zero
<1>1. n \in Nat /\ X \in [1..n -> Byte] /\ one \in Byte /\ one # zero /\ X[j] \in Byte
  BY XorLaws DEF Points
<1>2. ASSUME NEW m \in 1..n
      PROVE  (IF m \in S \ {j} THEN X[m] ELSE one) \in Byte
  BY <1>1
<1>3. ASSUME NEW m \in 1..n
      PROVE  /\ (IF m \in S \ {j} THEN xor(X[j], X[m]) ELSE one) \in Byte
             /\ (IF m \in S \ {j} THEN xor(X[j], X[m]) ELSE one) # zero
  <2>1. CASE m \in S \ {j}
    <3>1. X[m] \in Byte /\ X[j] # X[m]
      BY <1>1, <2>1 DEF Points
    <3>2. xor(X[j], X[m]) \in Byte
      BY <1>1, <3>1, XorType
    <3>3. xor(X[j], X[m]) # zero
      BY <1>1, <3>1, XorLaws
    <3>4. QED
      BY <2>1, <3>2, <3>3
  <2>2. CASE m \notin S \ {j}
    BY <1>1, <2>2
  <2>3. QED
    BY <2>1, <2>2
<1>4. Above(n, X, S, j) \in [1..n -> Byte]
  BY <1>2 DEF Above
<1>5. Below(n, X, S, j) \in [1..n -> Byte]
  BY <1>3 DEF Below
<1>6. \A m \in 1..n : Below(n, X, S, j)[m] # zero
  BY <1>3 DEF Below
<1>7. QED
  BY <1>4, <1>5, <1>6

(* The weight of a share is its numerator over its denominator, which is    *)
(* not 0.                                                                   *)
LEMMA WeightIs ==
  ASSUME NEW n, NEW X, Points(n, X), NEW S, NEW j \in 1..n
  PROVE  /\ Num(n, X, S, j) \in Byte
         /\ Den(n, X, S, j) \in Byte /\ Den(n, X, S, j) # zero
         /\ W(n, X, S, j) \in Byte
         /\ Times(W(n, X, S, j), Den(n, X, S, j)) = Num(n, X, S, j)
<1> DEFINE N == Num(n, X, S, j)
           D == Den(n, X, S, j)
<1>1. n \in Nat
  BY DEF Points
<1>2. N \in Byte
  BY <1>1, FactorTypes, ProdType DEF Num
<1>3. D \in Byte /\ D # zero
  <2>1. /\ Below(n, X, S, j) \in [1..n -> Byte]
        /\ \A m \in 1..n : Below(n, X, S, j)[m] # zero
    BY FactorTypes
  <2>2. QED
    BY <1>1, <2>1, ProdType DEF Den
<1>4. W(n, X, S, j) = CHOOSE w \in Byte : Times(w, D) = N
  BY DEF W
<1> HIDE DEF N, D
<1>5. PICK d \in Byte : Times(D, d) = one
  BY <1>3, Field
<1>6. Times(N, d) \in Byte /\ Times(Times(N, d), D) = N
  <2>1. Times(Times(N, d), D) = Times(N, Times(d, D))
    BY <1>2, <1>3, Associates
  <2>2. Times(d, D) = one
    BY <1>3, <1>5, TimesCommutes
  <2>3. Times(N, one) = N
    BY <1>2, Field
  <2>4. QED
    BY <1>2, <2>1, <2>2, <2>3, TimesType
<1>7. W(n, X, S, j) \in Byte /\ Times(W(n, X, S, j), D) = N
  BY <1>4, <1>6
<1>8. QED
  BY <1>2, <1>3, <1>7 DEF N, D

(* Without the share b.                                                     *)
LEMMA FactorsCut ==
  ASSUME NEW n, NEW X, Points(n, X), NEW S \in SUBSET (1..n),
         NEW j \in S, NEW b \in S, j # b
  PROVE  /\ Num(n, X, S, j) = Times(X[b], Num(n, X, S \ {b}, j))
         /\ Den(n, X, S, j) = Times(xor(X[j], X[b]), Den(n, X, S \ {b}, j))
<1>1. n \in Nat /\ j \in 1..n /\ b \in 1..n
  BY DEF Points
<1>2. Num(n, X, S, j) = Times(X[b], Num(n, X, S \ {b}, j))
  <2>1. /\ Above(n, X, S, j) \in [1..n -> Byte]
        /\ Above(n, X, S \ {b}, j) \in [1..n -> Byte]
    BY <1>1, FactorTypes
  <2>2. Above(n, X, S, j)[b] = X[b] /\ Above(n, X, S \ {b}, j)[b] = one
    BY <1>1 DEF Above
  <2>3. \A m \in 1..n : m # b => Above(n, X, S \ {b}, j)[m] = Above(n, X, S, j)[m]
    BY DEF Above
  <2>4. QED
    BY <1>1, <2>1, <2>2, <2>3, ProdRemove DEF Num
<1>3. Den(n, X, S, j) = Times(xor(X[j], X[b]), Den(n, X, S \ {b}, j))
  <2>1. /\ Below(n, X, S, j) \in [1..n -> Byte]
        /\ Below(n, X, S \ {b}, j) \in [1..n -> Byte]
    BY <1>1, FactorTypes
  <2>2. Below(n, X, S, j)[b] = xor(X[j], X[b]) /\ Below(n, X, S \ {b}, j)[b] = one
    BY <1>1 DEF Below
  <2>3. \A m \in 1..n : m # b => Below(n, X, S \ {b}, j)[m] = Below(n, X, S, j)[m]
    BY DEF Below
  <2>4. QED
    BY <1>1, <2>1, <2>2, <2>3, ProdRemove DEF Den
<1>4. QED
  BY <1>2, <1>3

(* The weight of share j, before and after share b is cut off: w * x_j =    *)
(* x_b * (w' + w).                                                          *)
LEMMA WeightCut ==
  ASSUME NEW n, NEW X, Points(n, X), NEW S \in SUBSET (1..n),
         NEW j \in S, NEW b \in S, j # b
  PROVE  Times(W(n, X, S, j), X[j])
         = xor(Times(X[b], W(n, X, S \ {b}, j)), Times(X[b], W(n, X, S, j)))
<1> DEFINE w == W(n, X, S, j)
           v == W(n, X, S \ {b}, j)
           D == Den(n, X, S \ {b}, j)
           N == Num(n, X, S \ {b}, j)
           d == xor(X[j], X[b])
<1>1. j \in 1..n /\ b \in 1..n /\ X[j] \in Byte /\ X[b] \in Byte
  BY DEF Points
<1>2. d \in Byte
  BY <1>1, XorType
<1>3. w \in Byte /\ Times(w, Den(n, X, S, j)) = Num(n, X, S, j)
  BY <1>1, WeightIs
<1>4. v \in Byte /\ Times(v, D) = N /\ D \in Byte /\ D # zero
  BY <1>1, WeightIs
<1>5. Num(n, X, S, j) = Times(X[b], N) /\ Den(n, X, S, j) = Times(d, D)
  BY FactorsCut
<1> HIDE DEF w, v, D, N
<1>6. Times(w, Times(d, D)) = Times(X[b], Times(v, D))
  BY <1>3, <1>4, <1>5
<1>7. Times(Times(w, d), D) = Times(Times(X[b], v), D)
  BY <1>1, <1>2, <1>3, <1>4, <1>6, Associates
<1>8. Times(w, d) = Times(X[b], v)
  <2>1. Times(w, d) \in Byte /\ Times(X[b], v) \in Byte
    BY <1>1, <1>2, <1>3, <1>4, TimesType
  <2>2. QED
    BY <1>4, <1>7, <2>1, Cancels
<1>9. Times(w, d) = xor(Times(w, X[j]), Times(w, X[b]))
  BY <1>1, <1>3, Distributes
<1>10. Times(w, X[b]) = Times(X[b], w)
  BY <1>1, <1>3, TimesCommutes
<1>11. Times(w, X[j]) \in Byte /\ Times(X[b], w) \in Byte
  BY <1>1, <1>3, TimesType
<1>12. xor(Times(w, X[j]), Times(X[b], w)) = Times(X[b], v)
  BY <1>8, <1>9, <1>10
<1>13. Times(w, X[j]) = xor(Times(X[b], v), Times(X[b], w))
  BY <1>11, <1>12, XorMoves
<1>14. QED
  BY <1>13 DEF w, v

(* Terms and sums are bytes.                                                *)
LEMMA TermType ==
  ASSUME NEW n, NEW X, Points(n, X), NEW S, NEW g \in [1..n -> Byte]
  PROVE  /\ Term(n, X, S, g) \in [1..n -> Byte]
         /\ AtZero(n, X, S, g) \in Byte
<1>1. ASSUME NEW j \in 1..n
      PROVE  (IF j \in S THEN Times(W(n, X, S, j), g[j]) ELSE zero) \in Byte
  <2>1. W(n, X, S, j) \in Byte /\ g[j] \in Byte /\ zero \in Byte
    BY WeightIs, XorLaws
  <2>2. Times(W(n, X, S, j), g[j]) \in Byte
    BY <2>1, TimesType
  <2>3. QED
    BY <2>1, <2>2
<1>2. Term(n, X, S, g) \in [1..n -> Byte]
  BY <1>1 DEF Term
<1>3. QED
  BY <1>2, TotalType DEF AtZero, Points

(* Interpolation is linear in the values.                                   *)
Adds(n, u, v, c, w) ==
  /\ n \in Nat /\ c \in Byte
  /\ u \in [1..n -> Byte] /\ v \in [1..n -> Byte] /\ w \in [1..n -> Byte]
  /\ \A j \in 1..n : u[j] = xor(v[j], Times(c, w[j]))

LEMMA AtZeroAdds ==
  ASSUME NEW n, NEW X, Points(n, X), NEW S,
         NEW c, NEW u, NEW v, NEW w, Adds(n, u, v, c, w)
  PROVE  AtZero(n, X, S, u) = xor(AtZero(n, X, S, v), Times(c, AtZero(n, X, S, w)))
<1> DEFINE U == Term(n, X, S, u)
           V == Term(n, X, S, v)
           Z == Term(n, X, S, w)
<1>1. U \in [1..n -> Byte] /\ V \in [1..n -> Byte] /\ Z \in [1..n -> Byte] /\ one \in Byte
      /\ n \in Nat
  BY TermType, XorLaws DEF Adds
<1>2. ASSUME NEW j \in 1..n
      PROVE  U[j] = xor(Times(one, V[j]), Times(c, Z[j]))
  <2>1. Times(one, V[j]) = V[j]
    BY <1>1, Field
  <2>2. CASE j \in S
    <3> DEFINE a == W(n, X, S, j)
    <3>1. U[j] = Times(a, u[j]) /\ V[j] = Times(a, v[j]) /\ Z[j] = Times(a, w[j])
      BY <2>2 DEF Term
    <3>2. a \in Byte /\ v[j] \in Byte /\ w[j] \in Byte
      BY WeightIs DEF Adds
    <3> HIDE DEF a, U, V, Z
    <3>3. c \in Byte /\ Times(c, w[j]) \in Byte /\ u[j] = xor(v[j], Times(c, w[j]))
      BY <3>2, TimesType DEF Adds
    <3>4. U[j] = xor(Times(a, v[j]), Times(a, Times(c, w[j])))
      BY <3>1, <3>2, <3>3, Distributes
    <3>5. Times(a, Times(c, w[j])) = Times(c, Times(a, w[j]))
      BY <3>2, <3>3, Reorder
    <3>6. QED
      BY <2>1, <3>1, <3>4, <3>5
  <2>3. CASE j \notin S
    <3>1. U[j] = zero /\ V[j] = zero /\ Z[j] = zero
      BY <2>3 DEF Term
    <3>2. Times(c, zero) = zero /\ xor(zero, zero) = zero
      BY Field, XorLaws DEF Adds
    <3> HIDE DEF U, V, Z
    <3>3. QED
      BY <2>1, <3>1, <3>2
  <2>4. QED
    BY <2>2, <2>3
<1> HIDE DEF U, V, Z
<1>3. Combines(n, U, one, V, c, Z)
  BY <1>1, <1>2 DEF Combines, Adds
<1>4. Total(n, U) = xor(Total(n, V), Times(c, Total(n, Z)))
  BY <1>3, SumAdds
<1>5. QED
  BY <1>4 DEF AtZero, U, V, Z

(* Values multiplied by their x-coordinates: a share b can be cut off.      *)
LEMMA Cut ==
  ASSUME NEW n, NEW X, Points(n, X), NEW S \in SUBSET (1..n), NEW b \in S,
         NEW g \in [1..n -> Byte], NEW h \in [1..n -> Byte],
         \A j \in 1..n : h[j] = Times(X[j], g[j])
  PROVE  AtZero(n, X, S, h)
         = Times(X[b], xor(AtZero(n, X, S \ {b}, g), AtZero(n, X, S, g)))
<1> DEFINE U == Term(n, X, S, h)
           V == Term(n, X, S \ {b}, g)
           Z == Term(n, X, S, g)
<1>1. n \in Nat /\ X[b] \in Byte /\ b \in 1..n
  BY DEF Points
<1>2. U \in [1..n -> Byte] /\ V \in [1..n -> Byte] /\ Z \in [1..n -> Byte]
  BY TermType
<1>3. ASSUME NEW j \in 1..n
      PROVE  U[j] = xor(Times(X[b], V[j]), Times(X[b], Z[j]))
  <2> DEFINE a == W(n, X, S, j)
             v == W(n, X, S \ {b}, j)
  <2>1. /\ a \in Byte /\ v \in Byte /\ g[j] \in Byte /\ X[j] \in Byte
        /\ h[j] = Times(X[j], g[j])
    BY WeightIs DEF Points
  <2>2. CASE j \in S /\ j # b
    <3>1. U[j] = Times(a, h[j]) /\ V[j] = Times(v, g[j]) /\ Z[j] = Times(a, g[j])
      BY <2>2 DEF Term
    <3>2. Times(a, X[j]) = xor(Times(X[b], v), Times(X[b], a))
      BY <2>2, WeightCut
    <3> HIDE DEF a, v, U, V, Z
    <3>3. /\ Times(X[b], v) \in Byte /\ Times(X[b], a) \in Byte
          /\ Times(a, X[j]) \in Byte
      BY <1>1, <2>1, TimesType
    <3>4. U[j] = Times(Times(a, X[j]), g[j])
      BY <2>1, <3>1, Associates
    <3>5. U[j] = Times(g[j], xor(Times(X[b], v), Times(X[b], a)))
      BY <2>1, <3>2, <3>3, <3>4, TimesCommutes
    <3>6. U[j] = xor(Times(g[j], Times(X[b], v)), Times(g[j], Times(X[b], a)))
      BY <2>1, <3>3, <3>5, Distributes
    <3>7. /\ Times(g[j], Times(X[b], v)) = Times(X[b], Times(g[j], v))
          /\ Times(g[j], Times(X[b], a)) = Times(X[b], Times(g[j], a))
      BY <1>1, <2>1, Reorder
    <3>8. Times(g[j], v) = Times(v, g[j]) /\ Times(g[j], a) = Times(a, g[j])
      BY <2>1, TimesCommutes
    <3>9. QED
      BY <3>1, <3>6, <3>7, <3>8
  <2>3. CASE j = b
    <3>1. U[j] = Times(a, h[j]) /\ V[j] = zero /\ Z[j] = Times(a, g[j])
      BY <2>3 DEF Term
    <3> HIDE DEF a, v, U, V, Z
    <3>2. Times(a, Times(X[j], g[j])) = Times(X[j], Times(a, g[j]))
      BY <2>1, Reorder
    <3>3. Times(X[b], zero) = zero
      BY <1>1, Field
    <3>4. U[j] \in Byte /\ U[j] = Times(X[b], Z[j])
      BY <1>2, <2>1, <2>3, <3>1, <3>2
    <3>5. xor(zero, U[j]) = U[j]
      BY <3>4, XorLaws
    <3>6. QED
      BY <3>1, <3>3, <3>4, <3>5
  <2>4. CASE j \notin S
    <3>1. U[j] = zero /\ V[j] = zero /\ Z[j] = zero
      BY <2>4 DEF Term
    <3>2. Times(X[b], zero) = zero /\ xor(zero, zero) = zero
      BY <1>1, Field, XorLaws
    <3> HIDE DEF U, V, Z
    <3>3. QED
      BY <3>1, <3>2
  <2>5. QED
    BY <2>2, <2>3, <2>4
<1> HIDE DEF U, V, Z
<1>4. Combines(n, U, X[b], V, X[b], Z)
  BY <1>1, <1>2, <1>3 DEF Combines
<1>5. Total(n, U) = xor(Times(X[b], Total(n, V)), Times(X[b], Total(n, Z)))
  BY <1>4, SumLinear
<1>6. Total(n, V) \in Byte /\ Total(n, Z) \in Byte
  BY <1>1, <1>2, TotalType
<1>7. Total(n, U) = Times(X[b], xor(Total(n, V), Total(n, Z)))
  BY <1>1, <1>5, <1>6, Distributes
<1>8. QED
  BY <1>7 DEF AtZero, U, V, Z

Ones(n) == [j \in 1..n |-> one]

(* The shares of a set can be counted, and taken away one at a time.        *)
LEMMA SharesCount ==
  ASSUME NEW n \in Nat, NEW S \in SUBSET (1..n)
  PROVE  IsFiniteSet(S) /\ Cardinality(S) \in Nat /\ (S = {} <=> Cardinality(S) = 0)
<1>1. 1 \in Int /\ n \in Int
  OBVIOUS
<1>2. IsFiniteSet(1..n)
  BY <1>1, FS_Interval
<1>3. IsFiniteSet(S)
  BY <1>2, FS_Subset
<1>4. Cardinality(S) \in Nat
  BY <1>3, FS_CardinalityType
<1>5. S = {} <=> Cardinality(S) = 0
  BY <1>3, FS_EmptySet
<1>6. QED
  BY <1>3, <1>4, <1>5

LEMMA ShareRemoved ==
  ASSUME NEW n \in Nat, NEW S \in SUBSET (1..n), NEW b \in S
  PROVE  /\ Cardinality(S \ {b}) = Cardinality(S) - 1
         /\ S \ {b} \in SUBSET (1..n)
<1>1. IsFiniteSet(S)
  BY SharesCount
<1>2. Cardinality(S \ {b}) = Cardinality(S) - 1
  BY <1>1, FS_RemoveElement
<1>3. QED
  BY <1>2

(* One share alone: no factor, and the weight one.                          *)
LEMMA SingleShare ==
  ASSUME NEW n, NEW X, Points(n, X), NEW b \in 1..n
  PROVE  AtZero(n, X, {b}, Ones(n)) = one
<1>1. n \in Nat /\ one \in Byte /\ Ones(n) \in [1..n -> Byte]
  BY XorLaws DEF Points, Ones
<1>2. Num(n, X, {b}, b) = one
  <2>1. \A j \in 1..n : Above(n, X, {b}, b)[j] = one
    BY DEF Above
  <2>2. Above(n, X, {b}, b) \in [1..n -> Byte]
    BY FactorTypes
  <2>3. QED
    BY <1>1, <2>1, <2>2, ProdType DEF Num
<1>3. Den(n, X, {b}, b) = one
  <2>1. \A j \in 1..n : Below(n, X, {b}, b)[j] = one
    BY DEF Below
  <2>2. Below(n, X, {b}, b) \in [1..n -> Byte]
    BY FactorTypes
  <2>3. QED
    BY <1>1, <2>1, <2>2, ProdType DEF Den
<1>4. W(n, X, {b}, b) = one
  <2>1. /\ W(n, X, {b}, b) \in Byte
        /\ Times(W(n, X, {b}, b), Den(n, X, {b}, b)) = Num(n, X, {b}, b)
    BY WeightIs
  <2>2. QED
    BY <1>2, <1>3, <2>1, Field
<1>5. Term(n, X, {b}, Ones(n))[b] = one
  <2>1. Term(n, X, {b}, Ones(n))[b] = Times(W(n, X, {b}, b), one)
    BY DEF Term, Ones
  <2>2. QED
    BY <1>1, <1>4, <2>1, Field
<1>6. \A j \in 1..n : j # b => Term(n, X, {b}, Ones(n))[j] = zero
  BY DEF Term
<1>7. Term(n, X, {b}, Ones(n)) \in [1..n -> Byte]
  BY <1>1, TermType
<1>8. QED
  BY <1>1, <1>5, <1>6, <1>7, SumSingle DEF AtZero

(* The weights of a set of shares sum up to one.                            *)
LEMMA Unity ==
  ASSUME NEW n, NEW X, Points(n, X), NEW S \in SUBSET (1..n), S # {}
  PROVE  AtZero(n, X, S, Ones(n)) = one
<1> DEFINE R == {s \in Nat : \A V \in SUBSET (1..n) :
                               Cardinality(V) = s + 1 => AtZero(n, X, V, Ones(n)) = one}
<1>1. n \in Nat /\ X \in [1..n -> Byte] /\ one \in Byte /\ Ones(n) \in [1..n -> Byte]
  BY XorLaws DEF Points, Ones
<1>2. 0 \in R
  <2> SUFFICES ASSUME NEW V \in SUBSET (1..n), Cardinality(V) = 1
               PROVE  AtZero(n, X, V, Ones(n)) = one
    OBVIOUS
  <2>1. V # {}
    BY <1>1, SharesCount
  <2>2. PICK b \in V : TRUE
    BY <2>1
  <2>3. Cardinality(V \ {b}) = 0 /\ V \ {b} \in SUBSET (1..n)
    BY <1>1, ShareRemoved
  <2>4. V \ {b} = {}
    BY <1>1, <2>3, SharesCount
  <2>5. V = {b} /\ b \in 1..n
    BY <2>4
  <2>6. QED
    BY <2>5, SingleShare
<1>3. ASSUME NEW s \in Nat, s \in R PROVE s + 1 \in R
  <2> SUFFICES ASSUME NEW V \in SUBSET (1..n), Cardinality(V) = (s + 1) + 1
               PROVE  AtZero(n, X, V, Ones(n)) = one
    OBVIOUS
  <2>1. V # {}
    BY <1>1, SharesCount
  <2>2. PICK b \in V : TRUE
    BY <2>1
  <2>3. Cardinality(V \ {b}) = s + 1 /\ V \ {b} \in SUBSET (1..n)
    BY <1>1, ShareRemoved
  <2>4. V \ {b} # {}
    BY <1>1, <2>3, SharesCount
  <2>5. PICK a \in V : a # b
    BY <2>4
  <2>6. Cardinality(V \ {a}) = s + 1 /\ V \ {a} \in SUBSET (1..n)
    <3>1. /\ Cardinality(V \ {a}) = Cardinality(V) - 1
          /\ V \ {a} \in SUBSET (1..n)
      BY <1>1, ShareRemoved
    <3>2. QED
      BY <3>1
  <2>7. AtZero(n, X, V \ {a}, Ones(n)) = one /\ AtZero(n, X, V \ {b}, Ones(n)) = one
    BY <1>3, <2>3, <2>6
  <2> DEFINE A == AtZero(n, X, V, Ones(n))
             B == AtZero(n, X, V, X)
  <2>8. \A j \in 1..n : X[j] = Times(X[j], Ones(n)[j])
    BY <1>1, Field DEF Ones
  <2>9. B = Times(X[a], xor(one, A)) /\ B = Times(X[b], xor(one, A))
    BY <1>1, <2>7, <2>8, Cut
  <2>10. A \in Byte /\ xor(one, A) \in Byte
    BY <1>1, TermType, XorType
  <2> HIDE DEF A, B
  <2>11. a \in 1..n /\ b \in 1..n /\ X[a] \in Byte /\ X[b] \in Byte /\ X[a] # X[b]
    BY <1>1, <2>5 DEF Points
  <2>12. xor(one, A) = zero
    BY <2>9, <2>10, <2>11, Cancels
  <2>13. A = one
    BY <1>1, <2>10, <2>12, XorLaws
  <2>14. QED
    BY <2>13 DEF A
<1> HIDE DEF R
<1>4. \A s \in Nat : s \in R
  BY <1>2, <1>3, NatInductionOnSets
<1>5. Cardinality(S) - 1 \in Nat /\ Cardinality(S) = (Cardinality(S) - 1) + 1
  <2>1. Cardinality(S) \in Nat /\ Cardinality(S) # 0
    BY <1>1, SharesCount
  <2>2. QED
    BY <2>1
<1>6. Cardinality(S) - 1 \in R
  BY <1>4, <1>5
<1>7. QED
  BY <1>5, <1>6 DEF R

AllAre(n, g, c) ==
  c \in Byte /\ g \in [1..n -> Byte] /\ \A j \in 1..n : g[j] = c

(* Constant values: the constant.                                           *)
LEMMA Constant ==
  ASSUME NEW n, NEW X, Points(n, X), NEW S \in SUBSET (1..n), S # {},
         NEW g, NEW c, AllAre(n, g, c)
  PROVE  AtZero(n, X, S, g) = c
<1> USE DEF AllAre
<1> DEFINE O == [j \in 1..n |-> zero]
<1>1. n \in Nat /\ zero \in Byte /\ one \in Byte
  BY XorLaws DEF Points
<1>2. O \in [1..n -> Byte] /\ Ones(n) \in [1..n -> Byte]
  BY <1>1 DEF Ones
<1>3. AtZero(n, X, S, O) = zero
  <2>1. PICK b \in 1..n : b \in S
    OBVIOUS
  <2>2. ASSUME NEW j \in 1..n PROVE Term(n, X, S, O)[j] = zero
    <3>1. O[j] = zero /\ W(n, X, S, j) \in Byte
      BY WeightIs
    <3> HIDE DEF O
    <3>2. Times(W(n, X, S, j), O[j]) = zero
      BY <3>1, Field
    <3>3. QED
      BY <3>2 DEF Term
  <2> HIDE DEF O
  <2>3. Term(n, X, S, O) \in [1..n -> Byte]
    BY <1>2, TermType
  <2>4. QED
    BY <1>1, <2>1, <2>2, <2>3, SumSingle DEF AtZero
<1>4. ASSUME NEW j \in 1..n PROVE g[j] = xor(O[j], Times(c, Ones(n)[j]))
  <2>1. O[j] = zero /\ Ones(n)[j] = one
    BY DEF Ones
  <2> HIDE DEF O
  <2>2. Times(c, one) = c /\ xor(zero, c) = c
    BY Field, XorLaws
  <2>3. QED
    BY <2>1, <2>2
<1> HIDE DEF O
<1>5. AtZero(n, X, S, g) = xor(AtZero(n, X, S, O), Times(c, AtZero(n, X, S, Ones(n))))
  <2>1. Adds(n, g, O, c, Ones(n))
    BY <1>1, <1>2, <1>4 DEF Adds
  <2>2. QED
    BY <2>1, AtZeroAdds
<1>6. AtZero(n, X, S, Ones(n)) = one
  BY Unity
<1>7. Times(c, one) = c /\ xor(zero, c) = c
  BY Field, XorLaws
<1>8. QED
  BY <1>3, <1>5, <1>6, <1>7

(* The values, at the points X, of the tails of a polynomial: T[m] is       *)
(* c[d] x^(d-m) + ... + c[m].                                               *)
Tails(n, X, d, c, T) ==
  /\ Points(n, X) /\ d \in Nat
  /\ c \in [0..d -> Byte] /\ T \in [0..d -> [1..n -> Byte]]
  /\ \A j \in 1..n : T[d][j] = c[d]
  /\ \A m \in 0..(d - 1) : \A j \in 1..n :
       T[m][j] = xor(Times(X[j], T[m + 1][j]), c[m])

(* More shares than the tail has degree give its last coefficient.          *)
LEMMA TailAtZero ==
  ASSUME NEW n, NEW X, NEW d, NEW c, NEW T, Tails(n, X, d, c, T)
  PROVE  \A e \in 0..d : \A S \in SUBSET (1..n) :
           Cardinality(S) > e => AtZero(n, X, S, T[d - e]) = c[d - e]
<1> DEFINE R == {e \in 0..d : \A S \in SUBSET (1..n) :
                   Cardinality(S) > e => AtZero(n, X, S, T[d - e]) = c[d - e]}
<1>1. /\ Points(n, X) /\ n \in Nat /\ d \in Nat /\ X \in [1..n -> Byte]
      /\ c \in [0..d -> Byte] /\ T \in [0..d -> [1..n -> Byte]]
  BY DEF Tails, Points
<1>2. 0 \in R
  <2> SUFFICES ASSUME NEW S \in SUBSET (1..n), Cardinality(S) > 0
               PROVE  AtZero(n, X, S, T[d]) = c[d]
    BY <1>1
  <2>1. S # {}
    BY <1>1, SharesCount
  <2>2. T[d] \in [1..n -> Byte] /\ c[d] \in Byte /\ \A j \in 1..n : T[d][j] = c[d]
    BY <1>1 DEF Tails
  <2>3. QED
    <3>1. AllAre(n, T[d], c[d])
      BY <2>2 DEF AllAre
    <3>2. QED
      BY <1>1, <2>1, <3>1, Constant
<1>3. ASSUME NEW e \in 0..(d - 1), e \in R PROVE e + 1 \in R
  <2>1. d - (e + 1) \in 0..(d - 1) /\ (d - (e + 1)) + 1 = d - e /\ e + 1 \in 0..d
    BY <1>1
  <2>2. PICK m \in 0..(d - 1) : m = d - (e + 1) /\ m + 1 = d - e
    BY <2>1
  <2>3. PICK l \in 0..d : l = m + 1 /\ l = d - e
    <3>1. m + 1 \in 0..d
      BY <1>1
    <3>2. QED
      BY <2>2, <3>1
  <2> SUFFICES ASSUME NEW S \in SUBSET (1..n), Cardinality(S) > e + 1
               PROVE  AtZero(n, X, S, T[m]) = c[m]
    BY <2>1, <2>2
  <2>4. Cardinality(S) \in Nat /\ S # {}
    <3>1. Cardinality(S) \in Nat /\ (S = {} <=> Cardinality(S) = 0)
      BY <1>1, SharesCount
    <3>2. QED
      BY <3>1
  <2>5. PICK b \in S : TRUE
    BY <2>4
  <2>6. /\ Cardinality(S \ {b}) = Cardinality(S) - 1
        /\ S \ {b} \in SUBSET (1..n)
    BY <1>1, ShareRemoved
  <2>7. Cardinality(S \ {b}) > e /\ Cardinality(S) > e
    BY <2>4, <2>6
  <2>8. /\ AtZero(n, X, S \ {b}, T[l]) = c[l]
        /\ AtZero(n, X, S, T[l]) = c[l]
    BY <1>3, <2>3, <2>6, <2>7
  <2>9. /\ T[l] \in [1..n -> Byte] /\ T[m] \in [1..n -> Byte]
        /\ c[l] \in Byte /\ c[m] \in Byte
    BY <1>1
  <2>10. ASSUME NEW j \in 1..n
         PROVE  T[m][j] = xor(Times(X[j], T[l][j]), c[m])
    BY <2>3 DEF Tails
  <2> DEFINE h == [j \in 1..n |-> Times(X[j], T[l][j])]
  <2>11. h \in [1..n -> Byte]
    <3>1. ASSUME NEW j \in 1..n PROVE Times(X[j], T[l][j]) \in Byte
      <4>1. X[j] \in Byte /\ T[l][j] \in Byte
        BY <1>1, <2>9
      <4>2. QED
        BY <4>1, TimesType
    <3>2. QED
      BY <3>1
  <2>12. \A j \in 1..n : h[j] = Times(X[j], T[l][j])
    OBVIOUS
  <2> HIDE DEF h
  <2>13. AtZero(n, X, S, h) = zero
    <3>1. AtZero(n, X, S, h)
          = Times(X[b], xor(AtZero(n, X, S \ {b}, T[l]), AtZero(n, X, S, T[l])))
      BY <1>1, <2>9, <2>11, <2>12, Cut
    <3>2. xor(c[l], c[l]) = zero /\ X[b] \in Byte
      BY <1>1, <2>9, XorLaws
    <3>3. Times(X[b], zero) = zero
      BY <3>2, Field
    <3>4. QED
      BY <2>8, <3>1, <3>2, <3>3
  <2>14. Adds(n, T[m], h, c[m], Ones(n))
    <3>1. Ones(n) \in [1..n -> Byte]
      BY XorLaws DEF Ones
    <3>2. ASSUME NEW j \in 1..n
          PROVE  T[m][j] = xor(h[j], Times(c[m], Ones(n)[j]))
      <4>1. Ones(n)[j] = one /\ Times(c[m], one) = c[m]
        BY <2>9, Field DEF Ones
      <4>2. QED
        BY <2>10, <2>12, <4>1
    <3>3. QED
      BY <1>1, <2>9, <2>11, <3>1, <3>2 DEF Adds
  <2>15. AtZero(n, X, S, T[m]) = xor(AtZero(n, X, S, h), Times(c[m], AtZero(n, X, S, Ones(n))))
    BY <1>1, <2>14, AtZeroAdds
  <2>16. AtZero(n, X, S, Ones(n)) = one
    BY <1>1, <2>4, Unity
  <2>17. Times(c[m], one) = c[m] /\ xor(zero, c[m]) = c[m]
    BY <2>9, Field, XorLaws
  <2>18. QED
    BY <2>13, <2>15, <2>16, <2>17
<1> HIDE DEF R
<1>4. \A e \in 0..d : e \in R
  BY <1>1, <1>2, <1>3, UpTo
<1>5. QED
  BY <1>4 DEF R

(* As many shares as the polynomial has coefficients give the first.        *)
LEMMA SecretAtZero ==
  ASSUME NEW n, NEW X, NEW c, NEW T, Tails(n, X, n - 1, c, T), n # 0
  PROVE  AtZero(n, X, 1..n, T[0]) = c[0]
<1>1. n \in Nat /\ n - 1 \in Nat /\ n - 1 \in 0..(n - 1) /\ (n - 1) - (n - 1) = 0
  BY DEF Tails, Points
<1>2. Cardinality(1..n) = n
  <2>1. 1 \in Int /\ n \in Int
    BY <1>1
  <2>2. Cardinality(1..n) = IF 1 > n THEN 0 ELSE n - 1 + 1
    BY <2>1, FS_Interval
  <2>3. QED
    BY <1>1, <2>2
<1>3. 1..n \in SUBSET (1..n) /\ Cardinality(1..n) > n - 1
  BY <1>1, <1>2
<1>4. AtZero(n, X, 1..n, T[(n - 1) - (n - 1)]) = c[(n - 1) - (n - 1)]
  BY <1>1, <1>3, TailAtZero
<1>5. QED
  BY <1>1, <1>4

---------------------------------------------------------------------------
(* The loops of shamir.c, once the tables are built.                        *)

(* A byte v is the value of the polynomial c at a point, by Horner's steps. *)
IsValue(c, degree, at, v) ==
  \E y \in [0..degree -> Byte] :
    /\ y[0] = v /\ y[degree] = c[degree]
    /\ \A m \in 0..(degree - 1) : y[m] = xor(Times(y[m + 1], at), c[m])

EvalLoop(c, degree, at, y) ==
  y = [d \in 0..degree |-> IF d = degree THEN c[d] ELSE xor(gf_mul(y[d + 1], at), c[d])]

(* gf_eval is Horner's evaluation.                                          *)
LEMMA EvalIs ==
  ASSUME TablesDone, NEW degree \in Nat, NEW c \in [0..degree -> Byte], NEW at \in Byte
  PROVE  /\ gf_eval(c, degree, at) \in Byte
         /\ IsValue(c, degree, at, gf_eval(c, degree, at))
<1> DEFINE step == [m \in 1..degree |-> [a \in Byte |-> xor(gf_mul(a, at), c[degree - m])]]
<1>1. ASSUME NEW a \in Byte, NEW d \in 0..degree
      PROVE  gf_mul(a, at) = Times(a, at) /\ xor(gf_mul(a, at), c[d]) \in Byte
  <2>1. gf_mul(a, at) = Times(a, at)
    BY TableMul
  <2>2. Times(a, at) \in Byte /\ c[d] \in Byte
    BY TimesType
  <2>3. QED
    BY <2>1, <2>2, XorType
<1>2. step \in [1..degree -> [Byte -> Byte]] /\ c[degree] \in Byte
  <2>1. ASSUME NEW m \in 1..degree, NEW a \in Byte
        PROVE  xor(gf_mul(a, at), c[degree - m]) \in Byte
    <3>1. degree - m \in 0..degree
      OBVIOUS
    <3>2. QED
      BY <1>1, <3>1
  <2>2. QED
    BY <2>1
<1>3. PICK r \in [0..degree -> Byte] : Recurs(r, degree, c[degree], step)
  <2> HIDE DEF step
  <2>1. QED
    BY <1>2, Recursion
<1>4. ASSUME NEW m \in 1..degree
      PROVE  r[m] = xor(gf_mul(r[m - 1], at), c[degree - m])
  <2>1. m \in 0..degree /\ m # 0 /\ m - 1 \in 0..degree
    OBVIOUS
  <2>2. r[m] = step[m][r[m - 1]]
    <3> HIDE DEF step
    <3>1. QED
      BY <1>3, <2>1 DEF Recurs
  <2>3. r[m - 1] \in Byte
    BY <2>1
  <2>4. QED
    BY <2>2, <2>3
<1>5. r[0] = c[degree]
  BY <1>3 DEF Recurs
<1> HIDE DEF step
<1> DEFINE h == [d \in 0..degree |-> r[degree - d]]
<1>6. EvalLoop(c, degree, at, h)
  <2>1. ASSUME NEW d \in 0..degree
        PROVE  h[d] = IF d = degree THEN c[d] ELSE xor(gf_mul(h[d + 1], at), c[d])
    <3>1. CASE d = degree
      BY <1>5, <3>1
    <3>2. CASE d # degree
      <4>1. PICK m \in 1..degree : m = degree - d /\ degree - m = d /\ m - 1 = degree - (d + 1)
        <5>1. degree - d \in 1..degree
          BY <3>2
        <5>2. QED
          BY <5>1
      <4>2. d + 1 \in 0..degree
        BY <3>2
      <4>3. h[d] = r[m] /\ h[d + 1] = r[m - 1]
        BY <4>1, <4>2
      <4>4. r[m] = xor(gf_mul(r[m - 1], at), c[d])
        BY <1>4, <4>1
      <4>5. QED
        BY <3>2, <4>3, <4>4
    <3>3. QED
      BY <3>1, <3>2
  <2>2. h = [d \in 0..degree |-> h[d]]
    OBVIOUS
  <2> HIDE DEF h
  <2>3. QED
    BY <2>1, <2>2 DEF EvalLoop
<1> HIDE DEF h
<1> DEFINE y == CHOOSE g : EvalLoop(c, degree, at, g)
<1>7. EvalLoop(c, degree, at, y)
  BY <1>6
<1>8. gf_eval(c, degree, at) = y[0]
  BY DEF gf_eval, EvalLoop
<1> HIDE DEF y
<1>9. ASSUME NEW d \in 0..degree
      PROVE  y[d] = IF d = degree THEN c[d] ELSE xor(gf_mul(y[d + 1], at), c[d])
  BY <1>7 DEF EvalLoop
<1>10. DOMAIN y = 0..degree /\ y = [d \in 0..degree |-> y[d]]
  BY <1>7 DEF EvalLoop
<1> DEFINE R == {m \in 0..degree : y[degree - m] \in Byte}
<1>11. 0 \in R
  <2>1. y[degree] = c[degree]
    BY <1>9
  <2>2. QED
    BY <1>2, <2>1
<1>12. ASSUME NEW m \in 0..(degree - 1), m \in R PROVE m + 1 \in R
  <2>1. degree - (m + 1) \in 0..degree /\ m + 1 \in 0..degree
    OBVIOUS
  <2>2. PICK d \in 0..degree : d = degree - (m + 1) /\ d # degree /\ d + 1 = degree - m
    BY <2>1
  <2>3. y[d] = xor(gf_mul(y[d + 1], at), c[d])
    BY <1>9, <2>2
  <2>4. y[d + 1] \in Byte
    BY <1>12, <2>2
  <2>5. y[d] \in Byte
    BY <1>1, <2>3, <2>4
  <2>6. QED
    BY <2>1, <2>2, <2>5
<1> HIDE DEF R
<1>13. \A m \in 0..degree : m \in R
  BY <1>11, <1>12, UpTo
<1>14. ASSUME NEW d \in 0..degree PROVE y[d] \in Byte
  <2>1. degree - d \in 0..degree /\ degree - (degree - d) = d
    OBVIOUS
  <2>2. degree - d \in R
    BY <1>13, <2>1
  <2>3. y[degree - (degree - d)] \in Byte
    BY <2>2 DEF R
  <2>4. QED
    BY <2>1, <2>3
<1>15. y \in [0..degree -> Byte]
  BY <1>10, <1>14
<1>16. y[degree] = c[degree]
  BY <1>9
<1>17. ASSUME NEW m \in 0..(degree - 1)
       PROVE  y[m] = xor(Times(y[m + 1], at), c[m])
  <2>1. m \in 0..degree /\ m # degree /\ m + 1 \in 0..degree
    OBVIOUS
  <2>2. y[m] = xor(gf_mul(y[m + 1], at), c[m])
    BY <1>9, <2>1
  <2>3. y[m + 1] \in Byte
    BY <1>14, <2>1
  <2>4. gf_mul(y[m + 1], at) = Times(y[m + 1], at)
    BY <1>1, <2>3
  <2>5. QED
    BY <2>2, <2>4
<1>18. 0 \in 0..degree
  OBVIOUS
<1>19. QED
  BY <1>8, <1>14, <1>15, <1>16, <1>17, <1>18 DEF IsValue

ProductLoop(skip, f, p) ==
  p = [j \in 0..k |-> IF j = 0 THEN one
                      ELSE IF j = skip THEN p[j - 1] ELSE gf_mul(p[j - 1], f[j])]

(* ProductWithout is a product whose factor at skip is one.                 *)
LEMMA ProductIs ==
  ASSUME TablesDone, k \in Nat, NEW skip \in 1..k,
         NEW f \in [1..k -> Byte], NEW F \in [1..k -> Byte],
         F[skip] = one, \A j \in 1..k : j # skip => F[j] = f[j]
  PROVE  ProductWithout(skip, f) = Prod(k, F)
<1>1. PICK p \in [0..k -> Byte] :
        /\ p[0] = one
        /\ \A j \in 1..k : p[j] = Times(p[j - 1], F[j])
        /\ Prod(k, F) = p[k]
  BY ProdsExist
<1>2. ASSUME NEW j \in 1..k
      PROVE  p[j] = IF j = skip THEN p[j - 1] ELSE gf_mul(p[j - 1], f[j])
  <2>1. PICK l \in 0..k : l = j - 1
    OBVIOUS
  <2>2. p[l] \in Byte /\ f[j] \in Byte /\ p[j] = Times(p[l], F[j])
    BY <1>1, <2>1
  <2>3. CASE j = skip
    <3>1. Times(p[l], one) = p[l]
      BY <2>2, Field
    <3>2. QED
      BY <2>1, <2>2, <2>3, <3>1
  <2>4. CASE j # skip
    <3>1. gf_mul(p[l], f[j]) = Times(p[l], f[j]) /\ F[j] = f[j]
      BY <2>2, <2>4, TableMul
    <3>2. QED
      BY <2>1, <2>2, <2>4, <3>1
  <2>5. QED
    BY <2>3, <2>4
<1>3. ProductLoop(skip, f, p)
  <2>1. ASSUME NEW j \in 0..k
        PROVE  p[j] = IF j = 0 THEN one
                      ELSE IF j = skip THEN p[j - 1] ELSE gf_mul(p[j - 1], f[j])
    <3>1. CASE j = 0
      BY <1>1, <3>1
    <3>2. CASE j # 0
      <4>1. j \in 1..k
        BY <3>2
      <4>2. QED
        BY <1>2, <3>2, <4>1
    <3>3. QED
      BY <3>1, <3>2
  <2>2. p = [j \in 0..k |-> p[j]]
    OBVIOUS
  <2>3. QED
    BY <2>1, <2>2 DEF ProductLoop
<1> DEFINE q == CHOOSE h : ProductLoop(skip, f, h)
<1>4. ProductLoop(skip, f, q)
  BY <1>3
<1>5. ProductWithout(skip, f) = q[k]
  BY DEF ProductWithout, ProductLoop
<1> HIDE DEF q
<1>6. ASSUME NEW j \in 0..k
      PROVE  q[j] = IF j = 0 THEN one
                    ELSE IF j = skip THEN q[j - 1] ELSE gf_mul(q[j - 1], f[j])
  BY <1>4 DEF ProductLoop
<1> DEFINE R == {m \in 0..k : q[m] = p[m]}
<1>7. 0 \in R
  BY <1>1, <1>6
<1>8. ASSUME NEW m \in 0..(k - 1), m \in R PROVE m + 1 \in R
  <2>1. m + 1 \in 1..k
    OBVIOUS
  <2>2. PICK j \in 1..k : j = m + 1 /\ j - 1 = m /\ j # 0
    BY <2>1
  <2>3. q[m] = p[m] /\ j \in 0..k
    BY <1>8
  <2>4. q[j] = IF j = skip THEN q[m] ELSE gf_mul(q[m], f[j])
    BY <1>6, <2>2, <2>3
  <2>5. p[j] = IF j = skip THEN p[m] ELSE gf_mul(p[m], f[j])
    BY <1>2, <2>2
  <2>6. q[j] = p[j]
    BY <2>3, <2>4, <2>5
  <2>7. QED
    BY <2>2, <2>3, <2>6
<1> HIDE DEF R
<1>9. \A m \in 0..k : m \in R
  BY <1>7, <1>8, UpTo
<1>10. k \in R
  BY <1>9
<1>11. QED
  BY <1>1, <1>5, <1>10 DEF R

(* The weight that shamir_combine takes for a share is Lagrange's.          *)
LEMMA WeightOfShare ==
  ASSUME TablesDone, Points(k, xs), NEW j \in 1..k
  PROVE  weight(j) = W(k, xs, 1..k, j)
<1> DEFINE f == [l \in 1..k |-> xor(xs[j], xs[l])]
           N == Num(k, xs, 1..k, j)
           D == Den(k, xs, 1..k, j)
<1>1. k \in Nat /\ xs \in [1..k -> Byte] /\ xs[j] \in Byte
  BY DEF Points
<1>2. ProductWithout(j, xs) = N
  <2>1. Above(k, xs, 1..k, j) \in [1..k -> Byte]
    BY FactorTypes
  <2>2. Above(k, xs, 1..k, j)[j] = one
    BY DEF Above
  <2>3. \A l \in 1..k : l # j => Above(k, xs, 1..k, j)[l] = xs[l]
    BY DEF Above
  <2>4. QED
    BY <1>1, <2>1, <2>2, <2>3, ProductIs DEF Num
<1>3. ProductWithout(j, f) = D
  <2>1. Below(k, xs, 1..k, j) \in [1..k -> Byte]
    BY FactorTypes
  <2>2. Below(k, xs, 1..k, j)[j] = one
    BY DEF Below
  <2>3. \A l \in 1..k : l # j => Below(k, xs, 1..k, j)[l] = f[l]
    BY DEF Below
  <2>4. f \in [1..k -> Byte]
    <3>1. ASSUME NEW l \in 1..k PROVE xor(xs[j], xs[l]) \in Byte
      <4>1. xs[l] \in Byte
        BY <1>1
      <4>2. QED
        BY <1>1, <4>1, XorType
    <3>2. QED
      BY <3>1
  <2> HIDE DEF f
  <2>5. QED
    BY <1>1, <2>1, <2>2, <2>3, <2>4, ProductIs DEF Den
<1>4. weight(j) = gf_div(N, D)
  BY <1>2, <1>3 DEF weight
<1>5. /\ N \in Byte /\ D \in Byte /\ D # zero /\ W(k, xs, 1..k, j) \in Byte
      /\ Times(W(k, xs, 1..k, j), D) = N
  BY WeightIs
<1> HIDE DEF N, D
<1>6. gf_div(N, D) \in Byte /\ Times(gf_div(N, D), D) = N
  BY <1>5, TableDiv
<1>7. gf_div(N, D) = W(k, xs, 1..k, j)
  BY <1>5, <1>6, Cancels
<1>8. QED
  BY <1>4, <1>7

SumLoop(acc) ==
  acc = [j \in 0..k |-> IF j = 0 THEN zero ELSE xor(acc[j - 1], gf_mul(weight(j), ys[j]))]

(* What it sums up is the interpolation at 0.                               *)
LEMMA InterpolatedIs ==
  ASSUME TablesDone, Points(k, xs), ys \in [1..k -> Byte]
  PROVE  Interpolated = AtZero(k, xs, 1..k, ys)
<1> DEFINE V == Term(k, xs, 1..k, ys)
<1>1. k \in Nat
  BY DEF Points
<1>2. V \in [1..k -> Byte]
  BY TermType
<1>3. ASSUME NEW j \in 1..k PROVE V[j] = gf_mul(weight(j), ys[j])
  <2>1. W(k, xs, 1..k, j) \in Byte /\ ys[j] \in Byte
    BY WeightIs
  <2>2. gf_mul(weight(j), ys[j]) = Times(W(k, xs, 1..k, j), ys[j])
    BY <2>1, WeightOfShare, TableMul
  <2>3. QED
    BY <2>2 DEF Term
<1>4. AtZero(k, xs, 1..k, ys) = Total(k, V)
  BY DEF AtZero
<1> HIDE DEF V
<1>5. PICK s \in [0..k -> Byte] :
        /\ s[0] = zero
        /\ \A j \in 1..k : s[j] = xor(s[j - 1], V[j])
        /\ Total(k, V) = s[k]
  BY <1>1, <1>2, SumsExist
<1>6. SumLoop(s)
  <2>1. ASSUME NEW j \in 0..k
        PROVE  s[j] = IF j = 0 THEN zero ELSE xor(s[j - 1], gf_mul(weight(j), ys[j]))
    <3>1. CASE j = 0
      BY <1>5, <3>1
    <3>2. CASE j # 0
      <4>1. j \in 1..k
        BY <1>1, <3>2
      <4>2. QED
        BY <1>3, <1>5, <3>2, <4>1
    <3>3. QED
      BY <3>1, <3>2
  <2>2. s = [j \in 0..k |-> s[j]]
    OBVIOUS
  <2>3. QED
    BY <2>1, <2>2 DEF SumLoop
<1> DEFINE acc == CHOOSE h : SumLoop(h)
<1>7. SumLoop(acc)
  BY <1>6
<1>8. Interpolated = acc[k]
  BY DEF Interpolated, SumLoop
<1> HIDE DEF acc
<1>9. ASSUME NEW j \in 0..k
      PROVE  acc[j] = IF j = 0 THEN zero ELSE xor(acc[j - 1], gf_mul(weight(j), ys[j]))
  BY <1>7 DEF SumLoop
<1> DEFINE R == {m \in 0..k : acc[m] = s[m]}
<1>10. 0 \in R
  BY <1>1, <1>5, <1>9
<1>11. ASSUME NEW m \in 0..(k - 1), m \in R PROVE m + 1 \in R
  <2>1. m + 1 \in 1..k
    BY <1>1
  <2>2. PICK j \in 1..k : j = m + 1 /\ j - 1 = m /\ j # 0
    BY <2>1
  <2>3. acc[m] = s[m] /\ j \in 0..k
    BY <1>1, <1>11
  <2>4. acc[j] = xor(acc[m], V[j])
    BY <1>3, <1>9, <2>2, <2>3
  <2>5. s[j] = xor(s[m], V[j])
    BY <1>5, <2>2
  <2>6. acc[j] = s[j]
    BY <2>3, <2>4, <2>5
  <2>7. QED
    BY <2>2, <2>3, <2>6
<1> HIDE DEF R
<1>12. \A m \in 0..k : m \in R
  BY <1>1, <1>10, <1>11, UpTo
<1>13. k \in R
  BY <1>1, <1>12
<1>14. QED
  BY <1>4, <1>5, <1>8, <1>13 DEF R

---------------------------------------------------------------------------
(* The inductive invariant.                                                 *)

Tables == TablesTo(i) /\ (gf_ready => i = 512)

Polynomials == k # 0 => gf_ready /\ coef \in [0..(k - 1) -> Byte]

Shares ==
  \A j \in 1..Len(xs) : xs[j] # zero /\ IsValue(coef, k - 1, xs[j], ys[j])

Answered == rc # pending => k >= 2 /\ Len(xs) = k

Inv == TypeOK /\ Tables /\ Polynomials /\ Shares /\ Answered /\ Recovered

(* The tables as three facts, and back.                                     *)
LEMMA TablesGive ==
  ASSUME Tables
  PROVE  /\ \A j \in 0..511 : j < i => gf_exp[j] = P[j]
         /\ \A j \in 0..254 : j < i => gf_log[P[j]] = j
         /\ i <= 255 => x = P[i]
BY Zenon DEF Tables, TablesTo

LEMMA TablesNext ==
  ASSUME \A j \in 0..511 : j < i' => gf_exp'[j] = P[j],
         \A j \in 0..254 : j < i' => gf_log'[P[j]] = j,
         i' <= 255 => x' = P[i']
  PROVE  TablesTo(i)'
BY Zenon DEF TablesTo

(* gf_ready vouches for all the entries.                                    *)
LEMMA ReadyTables ==
  ASSUME TypeOK, Tables, gf_ready
  PROVE  TablesDone
BY DEF TypeOK, Tables, TablesDone

(* It holds at first...                                                     *)
LEMMA InitInv == Init => Inv
<1>1. \A j \in 0..511 : ~(j < 0)
  OBVIOUS
<1> SUFFICES ASSUME Init PROVE Inv
  OBVIOUS
<1> USE DEF Init
<1>2. TypeOK
  <2>1. zero \in Byte /\ one \in Byte
    BY XorLaws
  <2>2. [j \in 0..511 |-> zero] \in [0..511 -> Byte]
    BY <2>1
  <2>3. [a \in Byte |-> 0] \in [Byte -> 0..254]
    OBVIOUS
  <2>4. DOMAIN <<>> = 0..(0 - 1)
    OBVIOUS
  <2>5. <<>> \in Seq(Byte) /\ Len(<<>>) = 0
    OBVIOUS
  <2>6. QED
    <3>1. gf_exp \in [0..511 -> Byte] /\ gf_log \in [Byte -> 0..254]
      BY <2>2, <2>3
    <3>2. gf_ready \in BOOLEAN /\ i \in 0..512 /\ x \in Byte
      <4>1. i \in 0..512
        OBVIOUS
      <4>2. gf_ready \in BOOLEAN
        BY Zenon
      <4>3. QED
        BY <2>1, <4>1, <4>2
    <3>3. k \in {0} \cup 2..MaxK /\ DOMAIN coef = 0..(k - 1)
      BY <2>4
    <3>4. xs \in Seq(Byte) /\ ys \in Seq(Byte) /\ Len(xs) = Len(ys) /\ Len(xs) <= k
      BY <2>5
    <3>5. rc \in {pending, 0, -1} /\ out \in Byte
      BY <2>1 DEF pending
    <3>6. QED
      BY <3>1, <3>2, <3>3, <3>4, <3>5, Zenon DEF TypeOK
<1>3. Tables
  <2>1. P[0] = one
    BY PowerValues
  <2>2. gf_exp[0] = zero /\ i = 0 /\ x = one /\ gf_ready = FALSE
    OBVIOUS
  <2>3. QED
    BY <1>1, <2>1, <2>2 DEF Tables, TablesTo
<1>4. Polynomials /\ Shares /\ Answered /\ Recovered
  BY DEF Polynomials, Shares, Answered, Recovered
<1>5. QED
  BY <1>2, <1>3, <1>4 DEF Inv

(* A turn of gf_init's first loop stores the next power.                    *)
LEMMA LowerTurn ==
  ASSUME TypeOK, Tables, gf_init_lower
  PROVE  /\ gf_exp' \in [0..511 -> Byte] /\ gf_log' \in [Byte -> 0..254]
         /\ x' \in Byte /\ i' \in 0..512
         /\ TablesTo(i)'
<1>1. /\ i \in 0..512 /\ x \in Byte /\ gf_exp \in [0..511 -> Byte]
      /\ gf_log \in [Byte -> 0..254]
  BY DEF TypeOK
<1>2. /\ gf_exp' = [gf_exp EXCEPT ![i] = x] /\ gf_log' = [gf_log EXCEPT ![x] = i]
      /\ i < 255 /\ i' = i + 1 /\ x' = times3(x, gf_exp'[i])
  BY DEF gf_init_lower
<1>3. i \in 0..254 /\ i \in 0..511 /\ i' \in 0..512
  <2>1. i \in 0..512 /\ i < 255 /\ i' = i + 1
    BY <1>1, <1>2, Zenon
  <2>2. QED
    BY <2>1
<1>4. x = P[i]
  <2>1. i <= 255
    BY <1>3
  <2>2. QED
    BY <2>1, TablesGive, Zenon
<1>5. x' = T3[x]
  <2>1. gf_exp'[i] = x
    BY <1>1, <1>3, <1>2
  <2>2. QED
    BY <1>1, <1>2, <2>1 DEF T3
<1>6. x' \in Byte /\ x' = P[i + 1]
  <2>1. i \in 0..(Top - 1)
    BY <1>3 DEF Top
  <2>2. QED
    BY <1>4, <1>5, <2>1, NextPower
<1>7. gf_exp' \in [0..511 -> Byte] /\ gf_log' \in [Byte -> 0..254]
  BY <1>1, <1>3, <1>2
<1>8. ASSUME NEW j \in 0..511, j < i + 1 PROVE gf_exp'[j] = P[j]
  <2>1. CASE j = i
    BY <1>1, <1>3, <1>4, <1>2, <2>1
  <2>2. CASE j # i
    <3>1. j < i
      BY <1>3, <1>8, <2>2
    <3>2. gf_exp[j] = P[j]
      BY <3>1, TablesGive
    <3>3. QED
      BY <1>1, <1>3, <1>2, <2>2, <3>2
  <2>3. QED
    BY <2>1, <2>2
<1>9. ASSUME NEW j \in 0..254, j < i + 1 PROVE gf_log'[P[j]] = j
  <2>1. P[j] \in Byte
    BY PowerNonzero DEF Top
  <2>2. CASE j = i
    BY <1>1, <1>3, <1>4, <1>2, <2>1, <2>2
  <2>3. CASE j # i
    <3>1. j < i
      BY <1>3, <1>9, <2>3
    <3>2. gf_log[P[j]] = j
      BY <3>1, TablesGive
    <3>3. P[j] # x
      BY <1>3, <1>4, <2>3, PowersDiffer
    <3>4. QED
      BY <1>1, <1>3, <1>2, <2>1, <3>2, <3>3
  <2>4. QED
    BY <2>2, <2>3
<1>10. TablesTo(i)'
  <2>1. \A j \in 0..511 : j < i' => gf_exp'[j] = P[j]
    BY <1>2, <1>8
  <2>2. \A j \in 0..254 : j < i' => gf_log'[P[j]] = j
    BY <1>2, <1>9
  <2>3. x' = P[i']
    BY <1>2, <1>6
  <2>4. QED
    BY <2>1, <2>2, <2>3, TablesNext
<1>11. QED
  BY <1>3, <1>6, <1>7, <1>10

(* A turn of its second loop copies the entry 255 back.                     *)
LEMMA UpperTurn ==
  ASSUME TypeOK, Tables, gf_init_upper
  PROVE  /\ gf_exp' \in [0..511 -> Byte] /\ i' \in 0..512
         /\ TablesTo(i)'
<1>1. i \in 0..512 /\ gf_exp \in [0..511 -> Byte]
  BY DEF TypeOK
<1>2. /\ gf_exp' = [gf_exp EXCEPT ![i] = gf_exp[i - 255]] /\ gf_log' = gf_log /\ x' = x
      /\ i \in 255..511 /\ i' = i + 1
  BY DEF gf_init_upper
<1>3. /\ i \in 0..511 /\ i - 255 \in 0..511 /\ i - 255 \in 0..768 /\ i' \in 0..512
      /\ i - 255 < i /\ (i - 255) + 255 = i
  BY <1>2
<1>4. gf_exp[i - 255] = P[i]
  <2>1. PICK l \in 0..511 : l = i - 255 /\ l < i /\ l \in 0..768 /\ l + 255 = i
    BY <1>3
  <2>2. gf_exp[l] = P[l]
    BY <2>1, TablesGive
  <2>3. P[l + 255] = P[l]
    BY <2>1, Period
  <2>4. QED
    BY <2>1, <2>2, <2>3
<1>5. gf_exp' \in [0..511 -> Byte]
  BY <1>1, <1>3, <1>2, <1>4
<1>6. ASSUME NEW j \in 0..511, j < i + 1 PROVE gf_exp'[j] = P[j]
  <2>1. CASE j = i
    BY <1>1, <1>3, <1>2, <1>4, <2>1
  <2>2. CASE j # i
    <3>1. j < i
      BY <1>3, <1>6, <2>2
    <3>2. gf_exp[j] = P[j]
      BY <3>1, TablesGive
    <3>3. QED
      BY <1>1, <1>3, <1>2, <2>2, <3>2
  <2>3. QED
    BY <2>1, <2>2
<1>7. TablesTo(i)'
  <2>1. \A j \in 0..511 : j < i' => gf_exp'[j] = P[j]
    BY <1>2, <1>6
  <2>2. \A j \in 0..254 : j < i' => gf_log'[P[j]] = j
    <3>1. ASSUME NEW j \in 0..254 PROVE gf_log[P[j]] = j
      <4>1. j < i
        <5>1. i \in 255..511
          BY <1>2, Zenon
        <5>2. QED
          BY <5>1
      <4>2. QED
        BY <4>1, TablesGive
    <3>2. QED
      BY <1>2, <3>1
  <2>3. ~(i' <= 255)
    BY <1>2
  <2>4. QED
    BY <2>1, <2>2, <2>3, TablesNext
<1>8. QED
  BY <1>3, <1>5, <1>7

(* The entry that is not a logarithm is not a power's.                      *)
LEMMA ReadyTurn ==
  ASSUME TypeOK, Tables, gf_init_ready
  PROVE  /\ gf_log' \in [Byte -> 0..254]
         /\ TablesTo(i)'
<1>1. gf_log \in [Byte -> 0..254] /\ zero \in Byte
  BY XorLaws DEF TypeOK
<1>2. /\ i = 512 /\ i' = i /\ gf_exp' = gf_exp /\ x' = x
      /\ gf_log' = [gf_log EXCEPT ![zero] = 0]
  BY DEF gf_init_ready
<1>3. gf_log' \in [Byte -> 0..254]
  BY <1>1, <1>2
<1>4. ASSUME NEW j \in 0..254, j < i PROVE gf_log'[P[j]] = j
  <2>1. P[j] \in Byte /\ P[j] # zero
    BY PowerNonzero DEF Top
  <2>2. gf_log[P[j]] = j
    BY <1>4, TablesGive
  <2>3. QED
    BY <1>1, <1>2, <2>1, <2>2
<1>5. \A j \in 0..511 : j < i' => gf_exp'[j] = P[j]
  BY <1>2, TablesGive
<1>6. \A j \in 0..254 : j < i' => gf_log'[P[j]] = j
  BY <1>2, <1>4
<1>7. i' <= 255 => x' = P[i']
  BY <1>2, TablesGive, Zenon
<1>8. QED
  BY <1>3, <1>5, <1>6, <1>7, TablesNext

(* Shares come in pairs of bytes.                                           *)
LEMMA Lengths ==
  ASSUME TypeOK
  PROVE  /\ Len(xs) \in Nat /\ Len(ys) = Len(xs)
         /\ xs \in [1..Len(xs) -> Byte] /\ ys \in [1..Len(xs) -> Byte]
<1>1. xs \in Seq(Byte) /\ ys \in Seq(Byte) /\ Len(xs) = Len(ys)
  BY Zenon DEF TypeOK
<1>2. QED
  BY <1>1

LEMMA Appended ==
  ASSUME NEW s \in Seq(Byte), NEW b \in Byte, NEW t, t = Append(s, b)
  PROVE  /\ t \in Seq(Byte) /\ Len(t) = Len(s) + 1 /\ t[Len(s) + 1] = b
         /\ \A j \in 1..Len(s) : t[j] = s[j]
<1>1. Append(s, b) \in Seq(Byte) /\ Len(Append(s, b)) = Len(s) + 1
  BY AppendProperties
<1>2. Append(s, b)[Len(s) + 1] = b /\ \A j \in 1..Len(s) : Append(s, b)[j] = s[j]
  BY AppendProperties
<1>3. QED
  BY <1>1, <1>2

(* A share is a value of the polynomial at a point that is not 0.           *)
LEMMA CollectStep ==
  ASSUME Inv, Collect
  PROVE  Inv'
<1>1. /\ gf_exp \in [0..511 -> Byte] /\ gf_log \in [Byte -> 0..254]
      /\ gf_ready \in BOOLEAN /\ i \in 0..512 /\ x \in Byte
      /\ k \in {0} \cup 2..MaxK /\ DOMAIN coef = 0..(k - 1)
      /\ xs \in Seq(Byte) /\ ys \in Seq(Byte) /\ Len(xs) = Len(ys) /\ Len(xs) <= k
      /\ rc \in {pending, 0, -1} /\ out \in Byte
  BY DEF Inv, TypeOK
<1>2. PICK v \in Picks : /\ xs' = Append(xs, uint8(v))
                         /\ ys' = Append(ys, gf_eval(coef, k - 1, uint8(v)))
  BY DEF Collect
<1>3. /\ Len(xs) < k /\ k' = k /\ coef' = coef /\ rc' = rc /\ out' = out
      /\ gf_exp' = gf_exp /\ gf_log' = gf_log /\ gf_ready' = gf_ready /\ i' = i /\ x' = x
  BY DEF Collect, tables
<1> DEFINE at == uint8(v)
           val == gf_eval(coef, k - 1, at)
<1>4. at \in Byte /\ at # zero
  BY ShamirAssumption, NonzeroByte
<1>5. k \in 2..MaxK /\ k \in Nat /\ k # 0 /\ k - 1 \in Nat /\ Len(xs) \in Nat
  <2>1. Len(xs) \in Nat
    BY Lengths DEF Inv
  <2>2. k # 0 /\ Len(xs) \in Nat
    BY <1>3, <2>1
  <2>3. k \in 2..MaxK /\ MaxK \in Nat
    BY <1>1, <2>2, ShamirAssumption
  <2>4. QED
    BY <2>2, <2>3
<1>6. gf_ready /\ coef \in [0..(k - 1) -> Byte]
  BY <1>5 DEF Inv, Polynomials
<1>7. TablesDone
  BY <1>6, ReadyTables DEF Inv
<1>8. val \in Byte /\ IsValue(coef, k - 1, at, val)
  BY <1>4, <1>5, <1>6, <1>7, EvalIs
<1> HIDE DEF at, val
<1>9. xs' = Append(xs, at) /\ ys' = Append(ys, val)
  BY <1>2 DEF at, val
<1>10. /\ xs' \in Seq(Byte) /\ ys' \in Seq(Byte)
      /\ Len(xs') = Len(xs) + 1 /\ Len(ys') = Len(xs) + 1
      /\ xs'[Len(xs) + 1] = at /\ ys'[Len(xs) + 1] = val
      /\ \A j \in 1..Len(xs) : xs'[j] = xs[j] /\ ys'[j] = ys[j]
  <2>1. /\ xs' \in Seq(Byte) /\ Len(xs') = Len(xs) + 1 /\ xs'[Len(xs) + 1] = at
        /\ \A j \in 1..Len(xs) : xs'[j] = xs[j]
    <3>1. xs \in Seq(Byte)
      BY <1>1, Zenon
    <3>2. QED
      BY <1>4, <1>9, <3>1, Appended
  <2>2. /\ ys' \in Seq(Byte) /\ Len(ys') = Len(ys) + 1 /\ ys'[Len(ys) + 1] = val
        /\ \A j \in 1..Len(ys) : ys'[j] = ys[j]
    <3>1. ys \in Seq(Byte)
      BY <1>1, Zenon
    <3>2. QED
      BY <1>8, <1>9, <3>1, Appended
  <2>3. Len(ys) = Len(xs)
    BY <1>1
  <2>4. QED
    BY <2>1, <2>2, <2>3
<1>11. TypeOK'
  <2>1. Len(xs') = Len(ys') /\ Len(xs') <= k'
    BY <1>3, <1>5, <1>10
  <2>2. QED
    BY <1>1, <1>3, <1>10, <2>1, Zenon DEF TypeOK, pending
<1>12. Tables'
  BY <1>3 DEF Inv, Tables, TablesTo
<1>13. Polynomials'
  BY <1>3, <1>6 DEF Polynomials
<1>14. ASSUME NEW j \in 1..Len(xs')
       PROVE  xs'[j] # zero /\ IsValue(coef, k - 1, xs'[j], ys'[j])
  <2>1. CASE j = Len(xs) + 1
    BY <1>4, <1>8, <1>10, <2>1
  <2>2. CASE j # Len(xs) + 1
    <3>1. j \in 1..Len(xs)
      BY <1>5, <1>10, <2>2
    <3>2. xs[j] # zero /\ IsValue(coef, k - 1, xs[j], ys[j])
      BY <3>1 DEF Inv, Shares
    <3>3. xs'[j] = xs[j] /\ ys'[j] = ys[j]
      BY <1>10, <3>1
    <3>4. QED
      BY <3>2, <3>3
  <2>3. QED
    BY <2>1, <2>2
<1>15. Shares'
  BY <1>3, <1>14, Zenon DEF Shares, IsValue
<1>16. rc = pending
  BY <1>3, <1>5 DEF Inv, Answered
<1>17. Answered' /\ Recovered'
  BY <1>3, <1>16, Zenon DEF Answered, Recovered, pending
<1>18. QED
  BY <1>11, <1>12, <1>13, <1>15, <1>17 DEF Inv

(* A split has a polynomial and no shares yet.                              *)
LEMMA SplitStep ==
  ASSUME Inv, shamir_split
  PROVE  Inv'
<1>1. /\ gf_exp \in [0..511 -> Byte] /\ gf_log \in [Byte -> 0..254]
      /\ gf_ready \in BOOLEAN /\ i \in 0..512 /\ x \in Byte
      /\ xs \in Seq(Byte) /\ ys \in Seq(Byte) /\ Len(xs) = Len(ys) /\ Len(xs) <= k
      /\ rc \in {pending, 0, -1} /\ out \in Byte
  BY DEF Inv, TypeOK
<1>2. /\ gf_ready /\ k = 0
      /\ k' \in 2..MaxK /\ coef' \in [0..(k' - 1) -> Coefs]
      /\ xs' = xs /\ ys' = ys /\ rc' = rc /\ out' = out
      /\ gf_exp' = gf_exp /\ gf_log' = gf_log /\ gf_ready' = gf_ready /\ i' = i /\ x' = x
  BY DEF shamir_split, tables
<1>3. Len(xs) \in Nat /\ Len(xs) = 0 /\ k' \in Nat /\ k' # 0
  <2>1. Len(xs) \in Nat
    BY Lengths DEF Inv
  <2>2. k' \in 2..MaxK /\ MaxK \in Nat
    BY <1>2, ShamirAssumption
  <2>3. Len(xs) = 0
    <3>1. Len(xs) <= 0
      BY <1>1, <1>2, Zenon
    <3>2. QED
      BY <2>1, <3>1
  <2>4. k' \in Nat /\ k' # 0
    BY <2>2
  <2>5. QED
    BY <2>3, <2>4
<1>4. coef' \in [0..(k' - 1) -> Byte]
  BY <1>2, ShamirAssumption
<1>5. TypeOK'
  <2>1. Len(xs') = Len(ys') /\ Len(xs') <= k'
    BY <1>1, <1>2, <1>3
  <2>2. k' \in {0} \cup 2..MaxK /\ DOMAIN coef' = 0..(k' - 1)
    BY <1>2
  <2>3. QED
    BY <1>1, <1>2, <2>1, <2>2, Zenon DEF TypeOK, pending
<1>6. Tables'
  BY <1>2 DEF Inv, Tables, TablesTo
<1>7. Polynomials'
  BY <1>2, <1>4, Zenon DEF Polynomials
<1>8. Shares'
  <2>1. \A j \in 1..Len(xs') : FALSE
    BY <1>2, <1>3
  <2>2. QED
    BY <2>1, Zenon DEF Shares
<1>9. rc = pending
  BY <1>2 DEF Inv, Answered
<1>10. Answered' /\ Recovered'
  BY <1>2, <1>9, Zenon DEF Answered, Recovered, pending
<1>11. QED
  BY <1>5, <1>6, <1>7, <1>8, <1>10 DEF Inv

(* k values at k different points, none of them 0: Lagrange's formula gives *)
(* the value at 0, the secret.                                              *)
LEMMA Interpolates ==
  ASSUME Inv, k >= 2, Len(xs) = k, \A j, l \in 1..k : xs[j] = xs[l] => j = l
  PROVE  Interpolated = coef[0]
<1>1. k \in Nat /\ k # 0 /\ xs \in [1..k -> Byte] /\ ys \in [1..k -> Byte]
  <2>1. Len(xs) \in Nat /\ xs \in [1..Len(xs) -> Byte] /\ ys \in [1..Len(xs) -> Byte]
    BY Lengths DEF Inv
  <2>2. QED
    BY <2>1
<1>2. Points(k, xs)
  BY <1>1 DEF Points
<1>3. gf_ready /\ coef \in [0..(k - 1) -> Byte]
  BY <1>1 DEF Inv, Polynomials
<1>4. TablesDone
  BY <1>3, ReadyTables DEF Inv
<1> DEFINE d == k - 1
           Loop(j, y) == /\ y \in [0..d -> Byte]
                         /\ y[0] = ys[j] /\ y[d] = coef[d]
                         /\ \A m \in 0..(d - 1) :
                              y[m] = xor(Times(y[m + 1], xs[j]), coef[m])
           Y(j) == CHOOSE y : Loop(j, y)
           T == [m \in 0..d |-> [j \in 1..k |-> Y(j)[m]]]
<1>5. ASSUME NEW j \in 1..k PROVE Loop(j, Y(j))
  <2>1. IsValue(coef, d, xs[j], ys[j])
    BY DEF Inv, Shares
  <2>2. PICK y : Loop(j, y)
    BY <2>1 DEF IsValue
  <2> HIDE DEF Loop
  <2>3. QED
    BY <2>2
<1>6. d \in Nat /\ 0 \in 0..d /\ d \in 0..d
  BY <1>1
<1>7. T \in [0..d -> [1..k -> Byte]]
  <2>1. ASSUME NEW m \in 0..d, NEW j \in 1..k PROVE Y(j)[m] \in Byte
    <3>1. Y(j) \in [0..d -> Byte]
      BY <1>5
    <3> HIDE DEF Y
    <3>2. QED
      BY <3>1
  <2> HIDE DEF Y
  <2>2. QED
    BY <2>1
<1>8. ASSUME NEW m \in 0..d, NEW j \in 1..k PROVE T[m][j] = Y(j)[m]
  <2> HIDE DEF Y
  <2>1. QED
    OBVIOUS
<1> HIDE DEF Y, T
<1>9. ASSUME NEW j \in 1..k PROVE T[d][j] = coef[d]
  BY <1>5, <1>6, <1>8
<1>10. ASSUME NEW m \in 0..(d - 1), NEW j \in 1..k
      PROVE  T[m][j] = xor(Times(xs[j], T[m + 1][j]), coef[m])
  <2>1. m \in 0..d /\ m + 1 \in 0..d
    BY <1>6
  <2>2. T[m][j] = Y(j)[m] /\ T[m + 1][j] = Y(j)[m + 1]
    BY <1>8, <2>1
  <2>3. Y(j)[m] = xor(Times(Y(j)[m + 1], xs[j]), coef[m]) /\ Y(j) \in [0..d -> Byte]
    BY <1>5
  <2>4. Y(j)[m + 1] \in Byte /\ xs[j] \in Byte
    BY <1>1, <2>1, <2>3
  <2>5. Times(Y(j)[m + 1], xs[j]) = Times(xs[j], Y(j)[m + 1])
    BY <2>4, TimesCommutes
  <2>6. QED
    BY <2>2, <2>3, <2>5
<1> HIDE DEF Loop
<1>11. Tails(k, xs, d, coef, T)
  BY <1>2, <1>3, <1>6, <1>7, <1>9, <1>10 DEF Tails
<1>12. AtZero(k, xs, 1..k, T[0]) = coef[0]
  <2>1. Tails(k, xs, k - 1, coef, T)
    BY <1>11
  <2> HIDE DEF d
  <2>2. QED
    <3>1. k # 0
      BY <1>1
    <3>2. QED
      BY <2>1, <3>1, SecretAtZero
<1>13. T[0] = ys
  <2>1. T[0] \in [1..k -> Byte]
    BY <1>6, <1>7
  <2>2. ASSUME NEW j \in 1..k PROVE T[0][j] = ys[j]
    <3>1. T[0][j] = Y(j)[0]
      BY <1>6, <1>8
    <3>2. Y(j)[0] = ys[j]
      BY <1>5 DEF Loop
    <3>3. QED
      BY <3>1, <3>2
  <2>3. QED
    BY <1>1, <2>1, <2>2
<1>14. QED
  BY <1>1, <1>2, <1>4, <1>12, <1>13, InterpolatedIs

(* A combine that answers has k shares that differ, or refuses.             *)
LEMMA CombineStep ==
  ASSUME Inv, shamir_combine
  PROVE  Inv'
<1>1. /\ gf_exp \in [0..511 -> Byte] /\ gf_log \in [Byte -> 0..254]
      /\ gf_ready \in BOOLEAN /\ i \in 0..512 /\ x \in Byte
      /\ k \in {0} \cup 2..MaxK /\ DOMAIN coef = 0..(k - 1)
      /\ xs \in Seq(Byte) /\ ys \in Seq(Byte) /\ Len(xs) = Len(ys) /\ Len(xs) <= k
      /\ out \in Byte
  BY DEF Inv, TypeOK
<1>2. /\ k >= 2 /\ Len(xs) = k
      /\ k' = k /\ coef' = coef /\ xs' = xs /\ ys' = ys
      /\ gf_exp' = gf_exp /\ gf_log' = gf_log /\ gf_ready' = gf_ready /\ i' = i /\ x' = x
  BY DEF shamir_combine, tables
<1>3. \/ PointsValid /\ rc' = 0 /\ out' = Interpolated
      \/ ~PointsValid /\ rc' = -1 /\ out' = out
  BY DEF shamir_combine
<1>4. k \in Nat /\ k # 0 /\ 0 \in 0..(k - 1)
  <2>1. Len(xs) \in Nat
    BY Lengths DEF Inv
  <2>2. QED
    BY <1>2, <2>1
<1>5. PointsValid <=> \A j, l \in 1..k : xs[j] = xs[l] => j = l
  <2>1. zero \notin {xs[j] : j \in 1..k}
    BY <1>2 DEF Inv, Shares
  <2>2. (\A j, l \in 1..k : j < l => xs[j] # xs[l])
        <=> \A j, l \in 1..k : xs[j] = xs[l] => j = l
    <3>1. ASSUME \A j, l \in 1..k : j < l => xs[j] # xs[l],
                 NEW j \in 1..k, NEW l \in 1..k, xs[j] = xs[l]
          PROVE  j = l
      <4>1. ~(j < l) /\ ~(l < j)
        BY <3>1
      <4>2. QED
        BY <1>4, <4>1
    <3>2. ASSUME \A j, l \in 1..k : xs[j] = xs[l] => j = l,
                 NEW j \in 1..k, NEW l \in 1..k, j < l
          PROVE  xs[j] # xs[l]
      <4>1. j # l
        BY <1>4, <3>2
      <4>2. QED
        BY <3>2, <4>1
    <3>3. QED
      BY <3>1, <3>2
  <2>3. QED
    BY <2>1, <2>2 DEF PointsValid
<1>6. PointsValid => Interpolated = coef[0]
  BY <1>2, <1>5, Interpolates
<1>7. coef[0] \in Byte
  BY <1>4 DEF Inv, Polynomials
<1>8. rc' \in {pending, 0, -1} /\ out' \in Byte
  <2>1. CASE PointsValid
    BY <1>3, <1>6, <1>7, <2>1, Zenon
  <2>2. CASE ~PointsValid
    <3>1. rc' = -1 /\ out' = out
      BY <1>3, <2>2
    <3>2. QED
      BY <1>1, <3>1
  <2>3. QED
    BY <2>1, <2>2
<1>9. TypeOK'
  BY <1>1, <1>2, <1>8, Zenon DEF TypeOK, pending
<1>10. Tables'
  BY <1>2 DEF Inv, Tables, TablesTo
<1>11. Polynomials'
  BY <1>2, Zenon DEF Inv, Polynomials
<1>12. Shares'
  <2>1. \A j \in 1..Len(xs') : xs'[j] # zero /\ IsValue(coef, k - 1, xs'[j], ys'[j])
    BY <1>2, Zenon DEF Inv, Shares
  <2>2. QED
    <3>1. k' = k /\ coef' = coef
      BY <1>2
    <3>2. QED
      BY <2>1, <3>1, Zenon DEF Shares, IsValue
<1>13. Answered'
  BY <1>2, Zenon DEF Answered
<1>14. Recovered'
  <2>1. CASE PointsValid
    <3>1. rc' = 0 /\ out' = coef[0]
      BY <1>3, <1>6, <2>1
    <3>2. \A j, l \in 1..k : xs[j] = xs[l] => j = l
      BY <1>5, <2>1
    <3>3. QED
      BY <1>2, <3>1, <3>2, Zenon DEF Recovered
  <2>2. CASE ~PointsValid
    <3>1. rc' = -1
      BY <1>3, <2>2
    <3>2. ~(\A j, l \in 1..k : xs[j] = xs[l] => j = l)
      BY <1>5, <2>2
    <3>3. QED
      BY <1>2, <3>1, <3>2, Zenon DEF Recovered
  <2>3. QED
    BY <2>1, <2>2
<1>15. QED
  BY <1>9, <1>10, <1>11, <1>12, <1>13, <1>14 DEF Inv

(* A turn of gf_init, or its end, keeps all but the tables as they are.     *)
LEMMA GfInitStep ==
  ASSUME Inv, gf_init_lower \/ gf_init_upper \/ gf_init_ready
  PROVE  Inv'
<1>1. /\ gf_exp \in [0..511 -> Byte] /\ gf_log \in [Byte -> 0..254]
      /\ gf_ready \in BOOLEAN /\ i \in 0..512 /\ x \in Byte
      /\ k \in {0} \cup 2..MaxK /\ DOMAIN coef = 0..(k - 1)
      /\ xs \in Seq(Byte) /\ ys \in Seq(Byte) /\ Len(xs) = Len(ys) /\ Len(xs) <= k
      /\ rc \in {pending, 0, -1} /\ out \in Byte
  BY DEF Inv, TypeOK
<1>2. /\ k' = k /\ coef' = coef /\ xs' = xs /\ ys' = ys /\ rc' = rc /\ out' = out
      /\ ~gf_ready
  BY DEF gf_init_lower, gf_init_upper, gf_init_ready
<1>3. k = 0
  BY <1>2 DEF Inv, Polynomials
<1>4. Len(xs) = 0
  <2>1. Len(xs) \in Nat
    BY Lengths DEF Inv
  <2>2. Len(xs) <= 0
    BY <1>1, <1>3, Zenon
  <2>3. QED
    BY <2>1, <2>2
<1>5. /\ gf_exp' \in [0..511 -> Byte] /\ gf_log' \in [Byte -> 0..254]
      /\ gf_ready' \in BOOLEAN /\ i' \in 0..512 /\ x' \in Byte
      /\ TablesTo(i)' /\ (gf_ready' => i' = 512)
  <2>1. CASE gf_init_lower
    <3>1. gf_ready' = gf_ready
      BY <2>1 DEF gf_init_lower
    <3>2. QED
      BY <1>1, <1>2, <2>1, <3>1, LowerTurn, Zenon DEF Inv
  <2>2. CASE gf_init_upper
    <3>1. gf_ready' = gf_ready /\ gf_log' = gf_log /\ x' = x
      BY <2>2 DEF gf_init_upper
    <3>2. QED
      BY <1>1, <1>2, <2>2, <3>1, UpperTurn, Zenon DEF Inv
  <2>3. CASE gf_init_ready
    <3>1. gf_ready' = TRUE /\ gf_exp' = gf_exp /\ i' = i /\ x' = x /\ i = 512
      BY <2>3 DEF gf_init_ready
    <3>2. QED
      BY <1>1, <1>2, <2>3, <3>1, ReadyTurn, Zenon DEF Inv
  <2>4. QED
    BY <2>1, <2>2, <2>3
<1>6. TypeOK'
  BY <1>1, <1>2, <1>5, Zenon DEF TypeOK, pending
<1>7. Tables'
  BY <1>5, Zenon DEF Tables
<1>8. Polynomials'
  BY <1>2, <1>3, Zenon DEF Polynomials
<1>9. Shares'
  <2>1. \A j \in 1..Len(xs') : FALSE
    BY <1>2, <1>4
  <2>2. QED
    BY <2>1, Zenon DEF Shares
<1>10. rc = pending
  <2>1. ~(k >= 2)
    BY <1>3
  <2>2. QED
    BY <2>1, Zenon DEF Inv, Answered
<1>11. Answered' /\ Recovered'
  BY <1>2, <1>10, Zenon DEF Answered, Recovered, pending
<1>12. QED
  BY <1>6, <1>7, <1>8, <1>9, <1>11 DEF Inv

(* Nothing changes.                                                         *)
LEMMA StutterStep ==
  ASSUME Inv, UNCHANGED vars
  PROVE  Inv'
<1>1. /\ k' = k /\ coef' = coef /\ xs' = xs /\ ys' = ys /\ rc' = rc /\ out' = out
      /\ gf_exp' = gf_exp /\ gf_log' = gf_log /\ gf_ready' = gf_ready /\ i' = i /\ x' = x
  BY DEF vars, tables
<1>2. TypeOK'
  BY <1>1, Zenon DEF Inv, TypeOK, pending
<1>3. Tables'
  BY <1>1 DEF Inv, Tables, TablesTo
<1>4. Polynomials' /\ Answered' /\ Recovered'
  BY <1>1, Zenon DEF Inv, Polynomials, Answered, Recovered, pending
<1>5. Shares'
  <2>1. \A j \in 1..Len(xs') : xs'[j] # zero /\ IsValue(coef, k - 1, xs'[j], ys'[j])
    BY <1>1, Zenon DEF Inv, Shares
  <2>2. k' = k /\ coef' = coef
    BY <1>1
  <2>3. QED
    BY <2>1, <2>2, Zenon DEF Shares, IsValue
<1>6. QED
  BY <1>2, <1>3, <1>4, <1>5 DEF Inv

(* ... and every step keeps it.                                             *)
LEMMA NextInv == Inv /\ [Next]_vars => Inv'
BY GfInitStep, SplitStep, CollectStep, CombineStep, StutterStep DEF Next

(* The invariant holds in every state.                                      *)
LEMMA Invariance == Spec => []Inv
<1>1. Init => Inv
  BY InitInv
<1>2. Inv /\ [Next]_vars => Inv'
  BY NextInv
<1>3. QED
  BY <1>1, <1>2, PTL DEF Spec

(* Every variable keeps its type: no index leaves its table.                *)
THEOREM TypeCorrect == Spec => []TypeOK
<1>1. Inv => TypeOK
  BY DEF Inv
<1>2. QED
  BY <1>1, Invariance, PTL

(* With the tables built, gf_mul and gf_div are the multiplication and the  *)
(* division of GF(2^8) modulo x^8 + x^4 + x^3 + x + 1.                      *)
THEOREM TablesMultiply == Spec => []FieldArithmetic
<1>1. Inv => FieldArithmetic
  <2> SUFFICES ASSUME Inv, gf_ready, NEW a \in Byte, NEW b \in Byte
               PROVE  /\ gf_mul(a, b) = Times(a, b)
                      /\ b # zero => Times(gf_div(a, b), b) = a
    BY DEF FieldArithmetic
  <2>1. TablesDone
    BY ReadyTables DEF Inv
  <2>2. gf_mul(a, b) = Times(a, b)
    BY <2>1, TableMul
  <2>3. b # zero => Times(gf_div(a, b), b) = a
    BY <2>1, TableDiv
  <2>4. QED
    BY <2>2, <2>3
<1>2. QED
  BY <1>1, Invariance, PTL

(* For every threshold, polynomial and choice of shares: k different        *)
(* shares, in any order, give back the secret; a repeated one is refused.   *)
THEOREM SecretRecovered == Spec => []Recovered
<1>1. Inv => Recovered
  BY DEF Inv
<1>2. QED
  BY <1>1, Invariance, PTL

(* With threshold 2, each secret goes with the one share through exactly    *)
(* one coefficient: (y - secret) / x.                                       *)
LEMMA OneCoefficient ==
  ASSUME Inv, k = 2, Len(xs) = 1, NEW secret \in Byte
  PROVE  Cardinality({c \in Byte :
                       gf_eval([d \in 0..1 |-> IF d = 0 THEN secret ELSE c],
                               1, xs[1]) = ys[1]}) = 1
<1> DEFINE line(c) == [d \in 0..1 |-> IF d = 0 THEN secret ELSE c]
           C == {c \in Byte : gf_eval(line(c), 1, xs[1]) = ys[1]}
           s == xor(ys[1], secret)
<1>1. /\ xs[1] \in Byte /\ ys[1] \in Byte /\ xs[1] # zero
  <2>1. xs \in [1..1 -> Byte] /\ ys \in [1..1 -> Byte]
    BY Lengths DEF Inv
  <2>2. 1 \in 1..Len(xs)
    OBVIOUS
  <2>3. xs[1] # zero
    BY <2>2 DEF Inv, Shares
  <2>4. QED
    BY <2>1, <2>3
<1>2. TablesDone
  <2>1. gf_ready
    BY DEF Inv, Polynomials
  <2>2. QED
    BY <2>1, ReadyTables DEF Inv
<1>3. ASSUME NEW c \in Byte
      PROVE  gf_eval(line(c), 1, xs[1]) = xor(Times(c, xs[1]), secret)
  <2>1. line(c) \in [0..1 -> Byte] /\ line(c)[0] = secret /\ line(c)[1] = c /\ 1 \in Nat
    OBVIOUS
  <2> HIDE DEF line
  <2>2. IsValue(line(c), 1, xs[1], gf_eval(line(c), 1, xs[1]))
    BY <1>1, <1>2, <2>1, EvalIs
  <2>3. PICK y \in [0..1 -> Byte] :
          /\ y[0] = gf_eval(line(c), 1, xs[1]) /\ y[1] = line(c)[1]
          /\ \A m \in 0..(1 - 1) : y[m] = xor(Times(y[m + 1], xs[1]), line(c)[m])
    BY <2>2 DEF IsValue
  <2>4. y[0] = xor(Times(y[1], xs[1]), line(c)[0])
    <3>1. 0 \in 0..(1 - 1) /\ 0 + 1 = 1
      OBVIOUS
    <3>2. QED
      BY <2>3, <3>1
  <2>5. QED
    BY <2>1, <2>3, <2>4
<1>4. s \in Byte
  BY <1>1, XorType
<1>5. ASSUME NEW c \in Byte
      PROVE  gf_eval(line(c), 1, xs[1]) = ys[1] <=> Times(c, xs[1]) = s
  <2>1. Times(c, xs[1]) \in Byte
    BY <1>1, TimesType
  <2>2. xor(Times(c, xs[1]), secret) = ys[1] => Times(c, xs[1]) = s
    BY <2>1, XorMoves
  <2>3. Times(c, xs[1]) = s => xor(Times(c, xs[1]), secret) = ys[1]
    <3>1. xor(s, secret) = ys[1]
      BY <1>1, <1>4, XorMoves
    <3>2. QED
      BY <3>1
  <2>4. QED
    BY <1>3, <2>2, <2>3
<1> HIDE DEF s, line
<1>6. PICK e \in Byte : Times(xs[1], e) = one
  BY <1>1, Field
<1>7. Times(s, e) \in Byte /\ Times(Times(s, e), xs[1]) = s
  <2>1. Times(Times(s, e), xs[1]) = Times(s, Times(e, xs[1]))
    BY <1>1, <1>4, Associates
  <2>2. Times(e, xs[1]) = one
    BY <1>1, <1>6, TimesCommutes
  <2>3. Times(s, one) = s
    BY <1>4, Field
  <2>4. QED
    BY <1>4, <2>1, <2>2, <2>3, TimesType
<1>8. C = {Times(s, e)}
  <2>1. ASSUME NEW c \in C PROVE c = Times(s, e)
    <3>1. c \in Byte /\ Times(c, xs[1]) = s
      BY <1>5
    <3>2. Times(c, xs[1]) = Times(Times(s, e), xs[1])
      BY <1>7, <3>1
    <3>3. QED
      BY <1>1, <1>7, <3>1, <3>2, Cancels
  <2>2. Times(s, e) \in C
    BY <1>5, <1>7
  <2>3. QED
    BY <2>1, <2>2
<1>9. Cardinality(C) = 1
  BY <1>8, FS_Singleton
<1>10. QED
  BY <1>9 DEF line

(* One share of two leaves every secret as likely as any other: each goes   *)
(* with exactly one coefficient.                                            *)
THEOREM OneShareSaysNothing == Spec => []OneOfTwoSaysNothing
<1>1. Inv => OneOfTwoSaysNothing
  BY OneCoefficient DEF OneOfTwoSaysNothing
<1>2. QED
  BY <1>1, Invariance, PTL

---------------------------------------------------------------------------
(* Two rows of bytes with the same entries.                                 *)
SameEntries(S, f, g) ==
  f \in [S -> Byte] /\ g \in [S -> Byte] /\ \A e \in S : f[e] = g[e]

LEMMA SameRow ==
  ASSUME NEW S, NEW f, NEW g, SameEntries(S, f, g)
  PROVE  f = g
BY DEF SameEntries

(* The x-coordinates of n shares: different, and none is 0.                 *)
ShareXs(n, X) == Points(n, X) /\ n # 0 /\ \A j \in 1..n : X[j] # zero

(* A polynomial of degree n with no constant term that vanishes at n points *)
(* other than 0 is zero: each of its tails vanishes there.                  *)
LEMMA Vanishes ==
  ASSUME NEW n, NEW X, NEW c, NEW T, Tails(n, X, n, c, T), n # 0,
         \A j \in 1..n : X[j] # zero,
         c[0] = zero, \A j \in 1..n : T[0][j] = zero
  PROVE  \A m \in 0..n : c[m] = zero
<1> DEFINE R == {m \in 0..n : c[m] = zero /\ \A j \in 1..n : T[m][j] = zero}
<1>1. /\ Points(n, X) /\ n \in Nat /\ X \in [1..n -> Byte]
      /\ c \in [0..n -> Byte] /\ T \in [0..n -> [1..n -> Byte]]
      /\ zero \in Byte
  BY XorLaws DEF Tails, Points
<1>2. 0 \in R
  BY <1>1
<1>3. ASSUME NEW m \in 0..(n - 1), m \in R PROVE m + 1 \in R
  <2>1. PICK l \in 0..n : l = m + 1 /\ l # 0
    BY <1>1
  <2>2. T[l] \in [1..n -> Byte] /\ c[l] \in Byte /\ c[m] = zero
    BY <1>1, <1>3
  <2>3. ASSUME NEW j \in 1..n PROVE T[l][j] = zero
    <3>1. T[m][j] = xor(Times(X[j], T[l][j]), c[m])
      BY <2>1 DEF Tails
    <3>2. X[j] \in Byte /\ X[j] # zero /\ T[l][j] \in Byte
      BY <1>1, <2>2
    <3>3. Times(X[j], T[l][j]) \in Byte
      BY <3>2, TimesType
    <3>4. T[m][j] = zero
      BY <1>3
    <3>5. Times(X[j], T[l][j]) = zero
      BY <2>2, <3>1, <3>3, <3>4, XorLaws
    <3>6. QED
      BY <3>2, <3>5, Field
  <2>4. c[l] = zero
    <3>1. PICK e \in 0..n : e = n - l /\ n - e = l /\ e < n
      <4>1. n - l \in 0..n /\ n - (n - l) = l /\ n - l < n
        BY <1>1, <2>1
      <4>2. QED
        BY <4>1
    <3>2. 1..n \in SUBSET (1..n) /\ 1..n # {}
      <4>1. 1 \in 1..n
        BY <1>1
      <4>2. QED
        BY <4>1
    <3>3. Cardinality(1..n) > e
      <4>1. 1 \in Int /\ n \in Int
        BY <1>1
      <4>2. Cardinality(1..n) = IF 1 > n THEN 0 ELSE n - 1 + 1
        BY <4>1, FS_Interval
      <4>3. QED
        BY <1>1, <3>1, <4>2
    <3>4. AtZero(n, X, 1..n, T[n - e]) = c[n - e]
      <4>1. \A f \in 0..n : \A S \in SUBSET (1..n) :
              Cardinality(S) > f => AtZero(n, X, S, T[n - f]) = c[n - f]
        BY TailAtZero
      <4>2. QED
        BY <3>2, <3>3, <4>1
    <3>5. AtZero(n, X, 1..n, T[l]) = c[l]
      BY <3>1, <3>4
    <3>6. AtZero(n, X, 1..n, T[l]) = zero
      <4>1. PICK g \in [1..n -> Byte] : g = T[l]
        BY <2>2
      <4>2. \A j \in 1..n : g[j] = zero
        BY <2>3, <4>1
      <4>3. PICK S \in SUBSET (1..n) : S = 1..n /\ S # {}
        BY <3>2
      <4>4. AllAre(n, g, zero)
        BY <1>1, <4>2 DEF AllAre
      <4>5. AtZero(n, X, S, g) = zero
        BY <1>1, <4>3, <4>4, Constant
      <4>6. QED
        BY <4>1, <4>3, <4>5
    <3>7. QED
      BY <3>5, <3>6
  <2>5. QED
    BY <2>1, <2>3, <2>4
<1> HIDE DEF R
<1>4. \A m \in 0..n : m \in R
  BY <1>1, <1>3, <1>2, UpTo
<1>5. QED
  BY <1>4 DEF R

(* Two polynomials of degree n with the same constant term and the same     *)
(* values at n points other than 0 are the same: their sum is zero.         *)
LEMMA OnePolynomial ==
  ASSUME NEW n, NEW X, ShareXs(n, X),
         NEW c \in [0..n -> Byte], NEW d \in [0..n -> Byte], c[0] = d[0],
         NEW v, \A j \in 1..n : IsValue(c, n, X[j], v[j]) /\ IsValue(d, n, X[j], v[j])
  PROVE  c = d
<1> DEFINE Loop(p, j, y) == /\ y \in [0..n -> Byte]
                            /\ y[0] = v[j] /\ y[n] = p[n]
                            /\ \A m \in 0..(n - 1) :
                                 y[m] = xor(Times(y[m + 1], X[j]), p[m])
           Y(p, j) == CHOOSE y : Loop(p, j, y)
           D == [m \in 0..n |-> xor(c[m], d[m])]
           T == [m \in 0..n |-> [j \in 1..n |-> xor(Y(c, j)[m], Y(d, j)[m])]]
<1>1. /\ n \in Nat /\ X \in [1..n -> Byte] /\ 0 \in 0..n /\ n \in 0..n
      /\ Points(n, X) /\ n # 0 /\ \A j \in 1..n : X[j] # zero
  BY DEF Points, ShareXs
<1>2. ASSUME NEW j \in 1..n, NEW p, IsValue(p, n, X[j], v[j]) PROVE Loop(p, j, Y(p, j))
  <2>1. PICK y : Loop(p, j, y)
    BY <1>2 DEF IsValue
  <2> HIDE DEF Loop
  <2>2. QED
    BY <2>1
<1>3. ASSUME NEW j \in 1..n PROVE Loop(c, j, Y(c, j)) /\ Loop(d, j, Y(d, j))
  <2> HIDE DEF Loop, Y
  <2>1. QED
    BY <1>2
<1>4. ASSUME NEW j \in 1..n
      PROVE  Y(c, j) \in [0..n -> Byte] /\ Y(d, j) \in [0..n -> Byte]
  BY <1>3
<1>5. D \in [0..n -> Byte]
  <2>1. ASSUME NEW m \in 0..n PROVE xor(c[m], d[m]) \in Byte
    BY XorType
  <2>2. QED
    BY <2>1
<1>6. T \in [0..n -> [1..n -> Byte]]
  <2> HIDE DEF Y
  <2>1. ASSUME NEW m \in 0..n, NEW j \in 1..n PROVE xor(Y(c, j)[m], Y(d, j)[m]) \in Byte
    <3>1. Y(c, j)[m] \in Byte /\ Y(d, j)[m] \in Byte
      BY <1>4
    <3>2. QED
      BY <3>1, XorType
  <2>2. QED
    BY <2>1
<1>7. ASSUME NEW m \in 0..n, NEW j \in 1..n PROVE T[m][j] = xor(Y(c, j)[m], Y(d, j)[m])
  <2> HIDE DEF Y
  <2>1. QED
    OBVIOUS
<1>8. ASSUME NEW m \in 0..n PROVE D[m] = xor(c[m], d[m])
  OBVIOUS
<1> HIDE DEF Y, T, D
<1>9. ASSUME NEW j \in 1..n PROVE T[n][j] = D[n]
  BY <1>1, <1>3, <1>7, <1>8
<1>10. ASSUME NEW m \in 0..(n - 1), NEW j \in 1..n
       PROVE  T[m][j] = xor(Times(X[j], T[m + 1][j]), D[m])
  <2>1. PICK l \in 0..n : l = m + 1
    BY <1>1
  <2>2. m \in 0..n
    BY <1>1
  <2> DEFINE a == Y(c, j)[l]
             b == Y(d, j)[l]
  <2>3. a \in Byte /\ b \in Byte /\ X[j] \in Byte /\ c[m] \in Byte /\ d[m] \in Byte
    BY <1>1, <1>4, <2>2
  <2>4. /\ Y(c, j)[m] = xor(Times(a, X[j]), c[m])
        /\ Y(d, j)[m] = xor(Times(b, X[j]), d[m])
    <3>1. Loop(c, j, Y(c, j)) /\ Loop(d, j, Y(d, j))
      BY <1>3
    <3>2. QED
      BY <2>1, <3>1
  <2> HIDE DEF a, b, Loop
  <2>5. Times(a, X[j]) = Times(X[j], a) /\ Times(b, X[j]) = Times(X[j], b)
    BY <2>3, TimesCommutes
  <2>6. T[m][j] = xor(xor(Times(X[j], a), c[m]), xor(Times(X[j], b), d[m]))
    BY <1>7, <2>2, <2>4, <2>5
  <2>7. T[m][j] = xor(xor(Times(X[j], a), Times(X[j], b)), xor(c[m], d[m]))
    BY <2>6, XorSwap
  <2>8. Times(X[j], xor(a, b)) = xor(Times(X[j], a), Times(X[j], b))
    BY <2>3, Distributes
  <2>9. T[l][j] = xor(a, b) /\ D[m] = xor(c[m], d[m])
    BY <1>7, <1>8, <2>2 DEF a, b
  <2>10. QED
    BY <2>1, <2>7, <2>8, <2>9
<1>11. Tails(n, X, n, D, T)
  BY <1>1, <1>5, <1>6, <1>9, <1>10 DEF Tails
<1>12. D[0] = zero
  <2>1. c[0] \in Byte
    BY <1>1
  <2>2. QED
    <3>1. D[0] = xor(c[0], c[0])
      BY <1>1, <1>8
    <3>2. QED
      BY <2>1, <3>1, XorLaws
<1>13. ASSUME NEW j \in 1..n PROVE T[0][j] = zero
  <2>1. T[0][j] = xor(Y(c, j)[0], Y(d, j)[0])
    BY <1>1, <1>7
  <2>2. Y(c, j)[0] = v[j] /\ Y(d, j)[0] = v[j] /\ Y(c, j)[0] \in Byte
    BY <1>1, <1>3
  <2>3. QED
    BY <2>1, <2>2, XorLaws
<1>14. \A m \in 0..n : D[m] = zero
  BY <1>1, <1>11, <1>12, <1>13, Vanishes
<1>15. ASSUME NEW m \in 0..n PROVE c[m] = d[m]
  <2>1. c[m] \in Byte /\ d[m] \in Byte /\ xor(c[m], d[m]) = zero
    BY <1>8, <1>14
  <2>2. QED
    BY <2>1, XorLaws
<1>16. SameEntries(0..n, c, d)
  BY <1>15 DEF SameEntries
<1>17. QED
  BY <1>16, SameRow

(* There are finitely many rows of n bytes.                                 *)
LEMMA RowsFinite ==
  ASSUME NEW n \in Nat
  PROVE  IsFiniteSet([1..n -> Byte])
<1> DEFINE A == [1..n -> Byte]
           B == SUBSET ((1..n) \X Byte)
           F == [g \in A |-> {<<j, g[j]>> : j \in 1..n}]
<1>1. IsFiniteSet(B)
  <2>1. 1 \in Int /\ n \in Int
    OBVIOUS
  <2>2. IsFiniteSet(1..n)
    BY <2>1, FS_Interval
  <2>3. IsFiniteSet((1..n) \X Byte)
    BY <2>2, NumberOfBytes, FS_Product
  <2>4. QED
    BY <2>3, FS_SUBSET
<1>2. F \in [A -> B]
  OBVIOUS
<1>3. ASSUME NEW g \in A, NEW h \in A, F[g] = F[h] PROVE g = h
  <2>1. ASSUME NEW j \in 1..n PROVE g[j] = h[j]
    <3>1. <<j, g[j]>> \in {<<l, h[l]>> : l \in 1..n}
      BY <1>3
    <3>2. QED
      BY <3>1
  <2>2. QED
    BY <2>1
<1> HIDE DEF F
<1>4. F \in Injection(A, B)
  BY <1>2, <1>3, Fun_IsInj
<1>5. QED
  BY <1>1, <1>4, FS_Injection

(* Whatever the constant term, n points other than 0 and any values there   *)
(* have a polynomial of degree n: as many rows of coefficients as of values *)
(* there are, and no two give the same.                                     *)
Passes(n, X, s, v) ==
  \E c \in [0..n -> Byte] :
    c[0] = s /\ \A j \in 1..n : gf_eval(c, n, X[j]) = v[j]

LEMMA SomePolynomial ==
  ASSUME TablesDone, NEW n, NEW X, ShareXs(n, X), NEW s \in Byte,
         NEW v \in [1..n -> Byte]
  PROVE  Passes(n, X, s, v)
<1> DEFINE A == [1..n -> Byte]
           Poly(g) == [m \in 0..n |-> IF m = 0 THEN s ELSE g[m]]
           F == [g \in A |-> [j \in 1..n |-> gf_eval(Poly(g), n, X[j])]]
<1>1. n \in Nat /\ X \in [1..n -> Byte]
  BY DEF Points, ShareXs
<1>2. ASSUME NEW g \in A PROVE Poly(g) \in [0..n -> Byte] /\ Poly(g)[0] = s
  BY <1>1
<1>3. ASSUME NEW g \in A, NEW m \in 1..n PROVE Poly(g)[m] = g[m]
  BY <1>1
<1> HIDE DEF Poly
<1>4. ASSUME NEW g \in A, NEW j \in 1..n
      PROVE  /\ gf_eval(Poly(g), n, X[j]) \in Byte
             /\ IsValue(Poly(g), n, X[j], gf_eval(Poly(g), n, X[j]))
  <2>1. X[j] \in Byte
    BY <1>1
  <2>2. QED
    BY <1>1, <1>2, <2>1, EvalIs
<1>5. F \in [A -> A]
  BY <1>4
<1>6. ASSUME NEW g \in A, NEW h \in A, F[g] = F[h] PROVE g = h
  <2>1. \A j \in 1..n : gf_eval(Poly(g), n, X[j]) = F[g][j]
    OBVIOUS
  <2>2. \A j \in 1..n : gf_eval(Poly(h), n, X[j]) = F[g][j]
    BY <1>6
  <2> HIDE DEF F
  <2>3. \A j \in 1..n : /\ IsValue(Poly(g), n, X[j], F[g][j])
                        /\ IsValue(Poly(h), n, X[j], F[g][j])
    BY <1>4, <2>1, <2>2
  <2>4. Poly(g) = Poly(h)
    BY <1>2, <2>3, OnePolynomial
  <2>5. \A m \in 1..n : g[m] = h[m]
    BY <1>3, <2>4
  <2>6. SameEntries(1..n, g, h)
    BY <2>5 DEF SameEntries
  <2>7. QED
    BY <2>6, SameRow
<1>7. \A g \in A : F[g] = [j \in 1..n |-> gf_eval(Poly(g), n, X[j])]
  OBVIOUS
<1> HIDE DEF F
<1>8. F \in Injection(A, A)
  BY <1>5, <1>6, Fun_IsInj
<1>9. F \in Surjection(A, A)
  BY <1>1, <1>8, RowsFinite, FS_Injection
<1>10. PICK g \in A : F[g] = v
  BY <1>9, Fun_SurjectionProperties
<1>11. \A j \in 1..n : gf_eval(Poly(g), n, X[j]) = v[j]
  BY <1>7, <1>10
<1>12. QED
  BY <1>2, <1>11 DEF Passes

---------------------------------------------------------------------------

(* The polynomial c has the shares that were collected.                     *)
Through(c) == \A j \in 1..Len(xs) : gf_eval(c, k - 1, xs[j]) = ys[j]

(* One share fewer than the threshold, whatever the threshold: each secret  *)
(* goes with the shares by exactly one polynomial.                          *)
OneFewerSaysNothing ==
  k >= 2 /\ Len(xs) = k - 1 /\ (\A j, l \in 1..Len(xs) : xs[j] = xs[l] => j = l) =>
    \A secret \in Byte :
      \E c \in [0..(k - 1) -> Byte] :
        /\ c[0] = secret /\ Through(c)
        /\ \A d \in [0..(k - 1) -> Byte] : d[0] = secret /\ Through(d) => d = c

(* For every threshold, fewer shares than it takes say nothing of the       *)
(* secret (shamir_split draws every coefficient but the lowest at random).  *)
THEOREM TooFewSharesSayNothing == Spec => []OneFewerSaysNothing
<1>1. Inv => OneFewerSaysNothing
  <2> SUFFICES ASSUME Inv, k >= 2, Len(xs) = k - 1,
                      \A j, l \in 1..Len(xs) : xs[j] = xs[l] => j = l,
                      NEW secret \in Byte
               PROVE  \E c \in [0..(k - 1) -> Byte] :
                        /\ c[0] = secret /\ Through(c)
                        /\ \A d \in [0..(k - 1) -> Byte] :
                             d[0] = secret /\ Through(d) => d = c
    BY DEF OneFewerSaysNothing
  <2>1. PICK n \in Nat : n = Len(xs) /\ n = k - 1 /\ n # 0
    <3>1. Len(xs) \in Nat
      BY Lengths DEF Inv
    <3>2. k \in Int
      BY DEF Inv, TypeOK
    <3>3. QED
      BY <3>1, <3>2
  <2>2. /\ xs \in [1..n -> Byte] /\ ys \in [1..n -> Byte]
        /\ \A j \in 1..n : xs[j] # zero
        /\ \A j, l \in 1..n : xs[j] = xs[l] => j = l
    BY <2>1, Lengths DEF Inv, Shares
  <2>3. ShareXs(n, xs)
    BY <2>1, <2>2 DEF Points, ShareXs
  <2>4. TablesDone
    <3>1. gf_ready
      BY DEF Inv, Polynomials
    <3>2. QED
      BY <3>1, ReadyTables DEF Inv
  <2>5. PICK c \in [0..n -> Byte] :
          c[0] = secret /\ \A j \in 1..n : gf_eval(c, n, xs[j]) = ys[j]
    <3>1. Passes(n, xs, secret, ys)
      BY <2>2, <2>3, <2>4, SomePolynomial
    <3>2. QED
      BY <3>1 DEF Passes
  <2>6. ASSUME NEW d \in [0..n -> Byte], d[0] = secret,
               \A j \in 1..n : gf_eval(d, n, xs[j]) = ys[j]
        PROVE  d = c
    <3>1. ASSUME NEW j \in 1..n, NEW p \in [0..n -> Byte], gf_eval(p, n, xs[j]) = ys[j]
          PROVE  IsValue(p, n, xs[j], ys[j])
      <4>1. xs[j] \in Byte
        BY <2>2
      <4>2. IsValue(p, n, xs[j], gf_eval(p, n, xs[j]))
        BY <2>1, <2>4, <4>1, EvalIs
      <4>3. QED
        BY <3>1, <4>2
    <3>2. \A j \in 1..n : IsValue(d, n, xs[j], ys[j]) /\ IsValue(c, n, xs[j], ys[j])
      BY <2>5, <2>6, <3>1
    <3>3. QED
      BY <2>3, <2>5, <2>6, <3>2, OnePolynomial
  <2>7. QED
    BY <2>1, <2>5, <2>6 DEF Through
<1>2. QED
  BY <1>1, Invariance, PTL

---------------------------------------------------------------------------
(* gf_init called by several threads (GfInit).  The race is confined to the *)
(* time the first builds take to reach everybody, whatever the number of    *)
(* threads and entries and in whatever order their stores are seen.         *)

(* Every entry is set, though perhaps not for everybody yet.                *)
Made == \A e \in Entry : e \in stored \/ \E t \in Thread : e \in buffer[t]

(* A gf_ready vouches for no more than that; a build knows its own entries  *)
(* up to turn.                                                              *)
Vouched ==
  /\ flag => Made
  /\ \A t \in Thread :
       /\ ready \in buffer[t] => Made
       /\ pc[t] = "build" => 1..turn[t] \subseteq Visible(t)
       /\ pc[t] = "use" => Made

RaceInv == RaceTypeOK /\ Vouched

(* What is visible to a thread stays so, in every step.                     *)
LEMMA VisibleGrows ==
  ASSUME RaceTypeOK, [RaceNext]_race_vars, NEW t \in Thread
  PROVE  (Visible(t) \cap Entry) \subseteq Visible(t)' /\ stored \subseteq stored'
<1>1. CASE UNCHANGED race_vars
  BY <1>1 DEF race_vars, Visible
<1>2. ASSUME NEW u \in Thread, Call(u) \/ Use(u) \/ Return(u)
      PROVE  (Visible(t) \cap Entry) \subseteq Visible(t)' /\ stored \subseteq stored'
  BY <1>2 DEF Call, Use, Return, Visible
<1>3. ASSUME NEW u \in Thread, Build(u) \/ Ready(u)
      PROVE  (Visible(t) \cap Entry) \subseteq Visible(t)' /\ stored \subseteq stored'
  BY <1>3 DEF Build, Ready, Visible, RaceTypeOK
<1>4. ASSUME NEW u \in Thread, Drain(u)
      PROVE  (Visible(t) \cap Entry) \subseteq Visible(t)' /\ stored \subseteq stored'
  BY <1>4 DEF Drain, Visible, RaceTypeOK, Entry, ready
<1> QED
  BY <1>1, <1>2, <1>3, <1>4 DEF RaceNext

(* Init and every step keep the types.                                      *)
LEMMA RaceTypeStep ==
  ASSUME Entries \in Nat, RaceTypeOK, [RaceNext]_race_vars
  PROVE  RaceTypeOK'
<1> USE DEF RaceTypeOK, Entry
<1>1. CASE UNCHANGED race_vars
  BY <1>1 DEF race_vars
<1>2. ASSUME NEW t \in Thread, Call(t) PROVE RaceTypeOK'
  BY <1>2 DEF Call, Goto
<1>3. ASSUME NEW t \in Thread, Build(t) PROVE RaceTypeOK'
  <2>1. turn[t] + 1 \in 0..Entries /\ turn[t] + 1 \in Entry
    BY <1>3 DEF Build
  <2>2. buffer' \in [Thread -> SUBSET (Entry \cup {ready})]
    BY <1>3, <2>1 DEF Build
  <2> QED
    BY <1>3, <2>1, <2>2 DEF Build
<1>4. ASSUME NEW t \in Thread, Ready(t) PROVE RaceTypeOK'
  BY <1>4 DEF Ready, Goto
<1>5. ASSUME NEW t \in Thread, Use(t) PROVE RaceTypeOK'
  BY <1>5 DEF Use
<1>6. ASSUME NEW t \in Thread, Return(t) PROVE RaceTypeOK'
  BY <1>6 DEF Return, Goto
<1>7. ASSUME NEW t \in Thread, Drain(t) PROVE RaceTypeOK'
  <2>1. PICK s \in buffer[t] :
          /\ buffer' = [buffer EXCEPT ![t] = @ \ {s}]
          /\ stored' = IF s = ready THEN stored ELSE stored \cup {s}
          /\ flag' = (flag \/ s = ready)
    BY <1>7 DEF Drain
  <2>2. s \in Entry \cup {ready}
    BY <2>1
  <2>3. stored' \subseteq Entry
    BY <2>1, <2>2
  <2>4. buffer' \in [Thread -> SUBSET (Entry \cup {ready})]
    BY <2>1
  <2>5. flag' \in BOOLEAN
    BY <2>1
  <2> QED
    BY <1>7, <2>3, <2>4, <2>5 DEF Drain
<1> QED
  BY <1>1, <1>2, <1>3, <1>4, <1>5, <1>6, <1>7 DEF RaceNext

(* Once set, an entry is never unset.                                       *)
LEMMA MadeStays ==
  ASSUME RaceTypeOK, [RaceNext]_race_vars, Made
  PROVE  Made'
<1> SUFFICES ASSUME NEW e \in Entry
             PROVE  e \in stored' \/ \E t \in Thread : e \in buffer'[t]
  BY DEF Made, Entry
<1>1. CASE e \in stored /\ \E t \in Thread : TRUE
  BY <1>1, VisibleGrows
<1>2. CASE \E t \in Thread : e \in buffer[t]
  <2>1. PICK t \in Thread : e \in buffer[t]
    BY <1>2
  <2>2. e \in Visible(t)'
    BY <2>1, VisibleGrows DEF Visible
  <2> QED
    BY <2>2 DEF Visible
<1>3. CASE e \in stored /\ ~\E t \in Thread : TRUE
  BY <1>3 DEF RaceNext, race_vars
<1> QED
  BY <1>1, <1>2, <1>3 DEF Made

LEMMA VouchedStep ==
  ASSUME Entries \in Nat, RaceInv, [RaceNext]_race_vars
  PROVE  Vouched'
<1> USE DEF RaceInv
<1>m. Made => Made'
  BY MadeStays
<1>turn. \A t \in Thread : 1..turn[t] \subseteq Entry
  <2> SUFFICES ASSUME NEW t \in Thread PROVE 1..turn[t] \subseteq Entry
    OBVIOUS
  <2>1. turn[t] \in 0..Entries /\ Entries \in Nat
    BY DEF RaceTypeOK
  <2> QED
    BY <2>1 DEF Entry
<1>r. ASSUME NEW t \in Thread, Ready(t) PROVE Made
  <2>1. Entry \subseteq Visible(t)
    BY <1>r DEF Ready, Vouched, Entry
  <2> QED
    BY <2>1 DEF Made, Visible
<1>1. flag' => Made'
  <2>1. flag' => flag \/ \E t \in Thread : ready \in buffer[t]
    BY DEF RaceNext, race_vars, Call, Build, Ready, Use, Return, Drain
  <2> QED
    BY <1>m, <2>1 DEF Vouched
<1>2. ASSUME NEW t \in Thread, ready \in buffer'[t] PROVE Made'
  <2>1. CASE ready \in buffer[t]
    BY <1>m, <2>1 DEF Vouched
  <2>2. CASE ready \notin buffer[t]
    <3>1. Ready(t)
      BY <1>2, <2>2 DEF RaceNext, race_vars, Call, Build, Ready, Use, Return, Drain, RaceTypeOK, Entry, ready
    <3> QED
      BY <1>m, <1>r, <3>1
  <2> QED
    BY <2>1, <2>2
<1>3. ASSUME NEW t \in Thread, pc'[t] = "build" PROVE 1..turn'[t] \subseteq Visible(t)'
  <2>1. CASE pc[t] = "build" /\ turn'[t] = turn[t]
    <3>1. 1..turn[t] \subseteq Visible(t) /\ 1..turn[t] \subseteq Entry
      BY <2>1, <1>turn DEF Vouched
    <3> QED
      BY <2>1, <3>1, VisibleGrows
  <2>2. CASE pc[t] # "build"
    <3>1. Call(t) /\ turn'[t] = 0
      BY <1>3, <2>2 DEF RaceNext, race_vars, Call, Build, Ready, Use, Return, Drain, Goto, RaceTypeOK
    <3> QED
      BY <3>1
  <2>3. CASE pc[t] = "build" /\ turn'[t] # turn[t]
    <3>1. Build(t)
      BY <2>3 DEF RaceNext, race_vars, Call, Build, Ready, Use, Return, Drain, RaceTypeOK
    <3>2. turn'[t] = turn[t] + 1 /\ turn[t] \in Nat /\ turn[t] + 1 \in buffer'[t]
      BY <3>1 DEF Build, RaceTypeOK
    <3>3. 1..turn[t] \subseteq Visible(t) /\ 1..turn[t] \subseteq Entry
      BY <2>3, <1>turn DEF Vouched
    <3>4. \A e \in 1..(turn[t] + 1) : e \in 1..turn[t] \/ e = turn[t] + 1
      BY <3>2
    <3> QED
      BY <3>2, <3>3, <3>4, VisibleGrows DEF Visible
  <2> QED
    BY <2>1, <2>2, <2>3
<1>4. ASSUME NEW t \in Thread, pc'[t] = "use" PROVE Made'
  <2>1. CASE pc[t] = "use"
    BY <1>m, <2>1 DEF Vouched
  <2>2. CASE pc[t] # "use"
    <3>1. (Call(t) /\ (flag \/ ready \in buffer[t])) \/ Ready(t)
      BY <1>4, <2>2 DEF RaceNext, race_vars, Call, Build, Ready, Use, Return, Drain, Goto, RaceTypeOK
    <3> QED
      BY <1>m, <1>r, <3>1 DEF Vouched
  <2> QED
    BY <2>1, <2>2
<1> QED
  BY <1>1, <1>2, <1>3, <1>4 DEF Vouched

(* The invariant holds in every state.                                      *)
THEOREM RaceInvariance ==
  ASSUME Entries \in Nat PROVE RaceSpec => []RaceInv
<1>1. RaceInit => RaceInv
  <2> SUFFICES ASSUME RaceInit PROVE RaceInv
    OBVIOUS
  <2>1. RaceTypeOK
    <3>1. 0 \in 0..Entries
      OBVIOUS
    <3> QED
      BY <3>1 DEF RaceInit, RaceTypeOK
  <2> QED
    BY <2>1 DEF RaceInit, RaceInv, Vouched
<1>2. RaceInv /\ [RaceNext]_race_vars => RaceInv'
  BY RaceTypeStep, VouchedStep DEF RaceInv
<1> QED
  BY <1>1, <1>2, PTL DEF RaceSpec

(* Whatever the order in which stores are seen, a thread reads an entry of  *)
(* the tables that is not set only while another thread's stores are on     *)
(* their way (gf_init, gf_mul, gf_div): a program with one thread never     *)
(* does, nor does any thread once the first builds have reached everybody.  *)
THEOREM RaceIsConfined ==
  ASSUME Entries \in Nat PROVE RaceSpec => MisreadsOnlyInARace
<1>1. ASSUME RaceInv, [RaceNext]_race_vars, misread', ~misread
      PROVE  \E t, u \in Thread : t # u /\ pc[t] = "use" /\ buffer[u] # {}
  <2>1. PICK t \in Thread : Use(t)
    BY <1>1 DEF RaceNext, race_vars, Call, Build, Ready, Return, Drain
  <2>2. PICK e \in Entry : e \notin Visible(t)
    BY <1>1, <2>1 DEF Use
  <2>3. PICK u \in Thread : e \in buffer[u]
    BY <1>1, <2>1, <2>2 DEF Use, RaceInv, Vouched, Made, Visible
  <2>4. u # t
    BY <2>2, <2>3 DEF Visible
  <2> QED
    BY <2>1, <2>3, <2>4 DEF Use
<1>2. RaceInv /\ [RaceNext]_race_vars =>
        [misread' => \/ misread
                     \/ \E t, u \in Thread : t # u /\ pc[t] = "use" /\ buffer[u] # {}
        ]_race_vars
  BY <1>1
<1> QED
  BY <1>2, RaceInvariance, PTL DEF RaceSpec, MisreadsOnlyInARace

================================================================================
