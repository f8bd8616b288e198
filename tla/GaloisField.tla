------------------------------ MODULE GaloisField ------------------------------
(***************************************************************************)
(* GF(2^8) by its definition, for the arithmetic of shamir.c to be         *)
(* compared with.  A byte is the set of its 1 bits: then ^ is symmetric    *)
(* difference, and a byte is the polynomial over GF(2) of those exponents. *)
(***************************************************************************)
EXTENDS Integers, FiniteSets

Byte == SUBSET (0..7)
zero == {}
one  == {0}

(* The byte of a number.                                                    *)
BitValue == <<1, 2, 4, 8, 16, 32, 64, 128>>
uint8(v) == {e \in 0..7 : (v \div BitValue[e + 1]) % 2 = 1}

xor(a, b) == (a \ b) \cup (b \ a)

Product(a, b) ==
  {e \in 0..14 : Cardinality({i \in a : e - i \in b}) % 2 = 1}

(* x^8 + x^4 + x^3 + x + 1                                                  *)
Modulus == {0, 1, 3, 4, 8}

(* p modulo Modulus, taking out the exponents 14 to 8 in turn.              *)
Residue(p) ==
  LET r[e \in 8..15] ==
        IF e = 15 THEN p
        ELSE LET q == r[e + 1] IN
             IF e \in q THEN xor(q, {m + e - 8 : m \in Modulus}) ELSE q
  IN  r[8]

Times(a, b) == Residue(Product(a, b))

================================================================================
