------------------------------- MODULE KyberCodec ------------------------------
(***************************************************************************)
(* Polynomials to bytes and back: the coding half of kyber/poly.c and      *)
(* polyvec.c, and rej_uniform of indcpa.c.  No state.                      *)
(*                                                                         *)
(* The code packs d-bit fields in groups, a few bytes at a time, with      *)
(* hand-written shifts.  A group is a table here: for each output cell,    *)
(* the input cells or-ed into it and the shift of each, left when          *)
(* positive.  The cell's type, or a mask, cuts the sum to its width.       *)
(***************************************************************************)
EXTENDS KyberRing

Shifted(v, by) == IF by >= 0 THEN v * 2^by ELSE v \div 2^(-by)

Or(v, terms) ==
  Shifted(v[terms[1][1]], terms[1][2])
    + (IF Len(terms) < 2 THEN 0 ELSE Shifted(v[terms[2][1]], terms[2][2]))
    + (IF Len(terms) < 3 THEN 0 ELSE Shifted(v[terms[3][1]], terms[3][2]))

(* All of in, in groups of from cells, each made into Len(table) cells of   *)
(* width bits.                                                              *)
Repack(in, from, table, width) ==
  << >> \o [i \in 1..((Len(in) \div from) * Len(table)) |->
    LET group == (i - 1) \div Len(table)
        terms == table[((i - 1) % Len(table)) + 1]
    IN  Or([c \in 0..(from - 1) |-> in[group * from + c + 1]], terms) % 2^width]

AsPoly(s) == Tabulate([i \in Coeff |-> s[i + 1]])

(* The tables: 12, 5 and 11 bits into bytes and out of them.                *)
tobytes12 == << <<<<0, 0>>>>, <<<<0, -8>>, <<1, 4>>>>, <<<<1, -4>>>> >>

frombytes12 == << <<<<0, 0>>, <<1, 8>>>>, <<<<1, -4>>, <<2, 4>>>> >>

pack5 == <<
  <<<<0, 0>>, <<1, 5>>>>,
  <<<<1, -3>>, <<2, 2>>, <<3, 7>>>>,
  <<<<3, -1>>, <<4, 4>>>>,
  <<<<4, -4>>, <<5, 1>>, <<6, 6>>>>,
  <<<<6, -2>>, <<7, 3>>>> >>

unpack5 == <<
  <<<<0, 0>>>>,  <<<<0, -5>>, <<1, 3>>>>, <<<<1, -2>>>>,
  <<<<1, -7>>, <<2, 1>>>>, <<<<2, -4>>, <<3, 4>>>>, <<<<3, -1>>>>,
  <<<<3, -6>>, <<4, 2>>>>, <<<<4, -3>>>> >>

(* Mutant: the seventh byte takes t[5] one bit too high.                    *)
pack11_shifted == <<
  <<<<0, 0>>>>, <<<<0, -8>>, <<1, 3>>>>, <<<<1, -5>>, <<2, 6>>>>,
  <<<<2, -2>>>>, <<<<2, -10>>, <<3, 1>>>>, <<<<3, -7>>, <<4, 4>>>>,
  <<<<4, -4>>, <<5, 8>>>>, <<<<5, -1>>>>, <<<<5, -9>>, <<6, 2>>>>,
  <<<<6, -6>>, <<7, 5>>>>, <<<<7, -3>>>> >>

pack11 == <<
  <<<<0, 0>>>>, <<<<0, -8>>, <<1, 3>>>>, <<<<1, -5>>, <<2, 6>>>>,
  <<<<2, -2>>>>, <<<<2, -10>>, <<3, 1>>>>, <<<<3, -7>>, <<4, 4>>>>,
  <<<<4, -4>>, <<5, 7>>>>, <<<<5, -1>>>>, <<<<5, -9>>, <<6, 2>>>>,
  <<<<6, -6>>, <<7, 5>>>>, <<<<7, -3>>>> >>

unpack11 == <<
  <<<<0, 0>>, <<1, 8>>>>, <<<<1, -3>>, <<2, 5>>>>,
  <<<<2, -6>>, <<3, 2>>, <<4, 10>>>>, <<<<4, -1>>, <<5, 7>>>>,
  <<<<5, -4>>, <<6, 4>>>>, <<<<6, -7>>, <<7, 1>>, <<8, 9>>>>,
  <<<<8, -2>>, <<9, 6>>>>, <<<<9, -5>>, <<10, 3>>>> >>

---------------------------------------------------------------------------
(* Rounding.                                                                *)

(* The standard representative of an int16_t above -q: u += (u >> 15) & q.  *)
NonNegative(u) == IF u < 0 THEN u + KYBER_Q ELSE u

(* ((u << d) + 1664) * c >> s without the low d bits, so that it fits in 31 *)
(* bits: c = 40318, s = 27, in a uint32_t (2^32 = 2^5 * 2^27) for d = 5;    *)
(* c = 645084, s = 31, in a uint64_t, which never wraps, for d = 11.        *)
scale5(u) ==
  ((u * 40318 + (1664 * 40318) \div 2^5) % 2^27) \div 2^22

scale11(u) ==
  ((u * 645084 + (1664 * 645084) \div 2^11) \div 2^20) % 2^11

poly_compress(a) ==
  Repack([i \in 1..KYBER_N |-> scale5(NonNegative(a[i - 1]))], 8, pack5, 8)

poly_decompress(bytes) ==
  LET t == Repack(bytes, 5, unpack5, 5)
  IN  Tabulate([i \in Coeff |-> (t[i + 1] * KYBER_Q + 16) \div 32])

polyvec_compress(a) ==
  LET bytes(i) == Repack([j \in 1..KYBER_N |->
                            scale11(NonNegative(a[i][j - 1]))], 8, pack11, 8)
  IN  bytes(0) \o bytes(1) \o bytes(2) \o bytes(3)

polyvec_decompress(bytes) ==
  LET t == Repack(bytes, 11, unpack11, 11)
  IN  Tabulate([i \in Entry |-> Tabulate([j \in Coeff |->
        (t[KYBER_N * i + j + 1] * KYBER_Q + 1024) \div 2048])])

poly_tobytes(a) ==
  Repack([i \in 1..KYBER_N |-> NonNegative(a[i - 1])], 2, tobytes12, 8)

poly_frombytes(bytes) == AsPoly(Repack(bytes, 3, frombytes12, 12))

KYBER_POLYBYTES == 384

polyvec_tobytes(a) ==
  poly_tobytes(a[0]) \o poly_tobytes(a[1])
    \o poly_tobytes(a[2]) \o poly_tobytes(a[3])

polyvec_frombytes(bytes) ==
  Tabulate([i \in Entry |->
    poly_frombytes(SubSeq(bytes, KYBER_POLYBYTES * i + 1,
                          KYBER_POLYBYTES * (i + 1)))])

(* Bit j of the message becomes 0 or (q + 1) / 2.                           *)
poly_frommsg(msg) ==
  Tabulate([j \in Coeff |->
    ((msg[j \div 8 + 1] \div 2^(j % 8)) % 2) * ((KYBER_Q + 1) \div 2)])

(* The bit nearest to 2a/q: in a uint32_t, and a may be negative.           *)
tomsg_bit(a) == (((2 * a + 1665) * 80635) \div 2^28) % 2

poly_tomsg(a) ==
  << >> \o [i \in 1..(KYBER_N \div 8) |->
    LET bit(j) == tomsg_bit(a[8 * (i - 1) + j]) * 2^j
    IN  bit(0) + bit(1) + bit(2) + bit(3) + bit(4) + bit(5) + bit(6) + bit(7)]

---------------------------------------------------------------------------
(* Uniform coefficients: the 12-bit fields of the whole 3-byte groups of    *)
(* buf that are below q, at most len of them.                               *)

(* Mutant: pos + 3 < buflen where the code has <=.                          *)
rej_uniform_last_group_lost(len, buf) ==
  LET all == Repack(SubSeq(buf, 1, Len(buf) - 1), 3, frombytes12, 12)
      ok  == SelectSeq(all, LAMBDA v : v < KYBER_Q)
  IN  SubSeq(ok, 1, IF Len(ok) < len THEN Len(ok) ELSE len)

rej_uniform(len, buf) ==
  LET all == Repack(buf, 3, frombytes12, 12)
      ok  == SelectSeq(all, LAMBDA v : v < KYBER_Q)
  IN  SubSeq(ok, 1, IF Len(ok) < len THEN Len(ok) ELSE len)
================================================================================
