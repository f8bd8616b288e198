------------------------------- MODULE KyberRing -------------------------------
(***************************************************************************)
(* Arithmetic of Kyber-1024 in Z_3329[X]/(X^256 + 1): kyber/reduce.c,      *)
(* ntt.c, cbd.c and the arithmetic half of poly.c and polyvec.c.  No       *)
(* state: a poly is a function on 0..255, a polyvec one on 0..3, and every *)
(* int16_t assignment wraps.                                               *)
(***************************************************************************)
EXTENDS Fips202

KYBER_K == 4
KYBER_N == 256
KYBER_Q == 3329
QINV    == -3327      (* q^-1 mod 2^16 *)

Coeff == 0..(KYBER_N - 1)
Entry == 0..(KYBER_K - 1)

INT16_MAX == 32767
int16_t   == (-INT16_MAX - 1)..INT16_MAX

int16(x) == ((x + 32768) % 65536) - 32768

(* a * 2^-16 mod q, for an int32_t a.                                       *)
montgomery_reduce(a) ==
  (a - int16(int16(a) * QINV) * KYBER_Q) \div 65536

(* v = (2^26 + q/2) / q.                                                    *)
barrett_reduce(a) ==
  int16(a - int16(((20159 * a + 2^25) \div 2^26) * KYBER_Q))

fqmul(a, b) == montgomery_reduce(a * b)

zetas == <<
  -1044,  -758,  -359, -1517,  1493,  1422,   287,   202,
   -171,   622,  1577,   182,   962, -1202, -1474,  1468,
    573, -1325,   264,   383,  -829,  1458, -1602,  -130,
   -681,  1017,   732,   608, -1542,   411,  -205, -1571,
   1223,   652,  -552,  1015, -1293,  1491,  -282, -1544,
    516,    -8,  -320,  -666, -1618, -1162,   126,  1469,
   -853,   -90,  -271,   830,   107, -1421,  -247,  -951,
   -398,   961, -1508,  -725,   448, -1065,   677, -1275,
  -1103,   430,   555,   843, -1251,   871,  1550,   105,
    422,   587,   177,  -235,  -291,  -460,  1574,  1653,
   -246,   778,  1159,  -147,  -777,  1483,  -602,  1119,
  -1590,   644,  -872,   349,   418,   329,  -156,   -75,
    817,  1097,   603,   610,  1322, -1285, -1465,   384,
  -1215,  -136,  1218, -1335,  -874,   220, -1187, -1659,
  -1185, -1530, -1278,   794, -1510,  -854,  -870,   478,
   -108,  -308,   996,   991,   958, -1460,  1522,  1628 >>

zeta(k) == zetas[k + 1]

---------------------------------------------------------------------------
(* ntt.c.  One turn of the outer loop pairs j with j + len in blocks of     *)
(* 2 * len, each block with a zeta of its own.                              *)

InUpperHalf(j, len) == (j \div len) % 2 = 1
Block(j, len) == j \div (2 * len)

ntt_layer(r, len) ==
  Tabulate([j \in Coeff |->
    LET z == zeta(128 \div len + Block(j, len))
    IN  IF InUpperHalf(j, len) THEN int16(r[j - len] - fqmul(z, r[j]))
                               ELSE int16(r[j] + fqmul(z, r[j + len]))])

ntt(r) ==
  LET after[n \in 0..7] ==
        IF n = 0 THEN r ELSE ntt_layer(after[n - 1], 2^(8 - n))
  IN  after[7]

invntt_layer(r, len) ==
  Tabulate([j \in Coeff |->
    LET z == zeta(256 \div len - 1 - Block(j, len))
    IN  IF InUpperHalf(j, len) THEN fqmul(z, int16(r[j] - r[j - len]))
                               ELSE barrett_reduce(int16(r[j] + r[j + len]))])

(* 1441 = mont^2 / 128.                                                     *)
invntt(r) ==
  LET after[n \in 0..7] ==
        IF n = 0 THEN r ELSE invntt_layer(after[n - 1], 2^n)
      s == after[7]
  IN  Tabulate([j \in Coeff |-> fqmul(s[j], 1441)])

(* Coefficient i of the product of a pair with a pair modulo X^2 - z.       *)
basemul(a, b, i, z) ==
  IF i % 2 = 0
  THEN int16(fqmul(fqmul(a[i + 1], b[i + 1]), z) + fqmul(a[i], b[i]))
  ELSE int16(fqmul(a[i - 1], b[i]) + fqmul(a[i], b[i - 1]))

(* Mutant: the second pair of each four takes zeta with the first's sign.   *)
basemul_zeta_unsigned(i) == zeta(64 + i \div 4)

(* z is +zeta and -zeta in turn.                                            *)
basemul_zeta(i) == IF i % 4 < 2 THEN zeta(64 + i \div 4)
                                ELSE -zeta(64 + i \div 4)

poly_basemul_montgomery(a, b) ==
  Tabulate([i \in Coeff |-> basemul(a, b, i, basemul_zeta(i))])

---------------------------------------------------------------------------
(* poly.c and polyvec.c.                                                    *)

poly_reduce(r) == Tabulate([i \in Coeff |-> barrett_reduce(r[i])])

poly_add(a, b) == Tabulate([i \in Coeff |-> int16(a[i] + b[i])])

poly_sub(a, b) == Tabulate([i \in Coeff |-> int16(a[i] - b[i])])

(* 1353 = 2^32 mod q.                                                       *)
poly_tomont(r) == Tabulate([i \in Coeff |-> montgomery_reduce(r[i] * 1353)])

poly_ntt(r) == poly_reduce(ntt(r))

polyvec_ntt(r) == Tabulate([i \in Entry |-> poly_ntt(r[i])])

polyvec_invntt_tomont(r) == Tabulate([i \in Entry |-> invntt(r[i])])

polyvec_reduce(r) == Tabulate([i \in Entry |-> poly_reduce(r[i])])

polyvec_add(a, b) == Tabulate([i \in Entry |-> poly_add(a[i], b[i])])

polyvec_basemul_acc_montgomery(a, b) ==
  LET sum[n \in Entry] ==
        LET t == poly_basemul_montgomery(a[n], b[n])
        IN  IF n = 0 THEN t ELSE poly_add(sum[n - 1], t)
  IN  poly_reduce(sum[KYBER_K - 1])

---------------------------------------------------------------------------
(* Noise: cbd2 gives a nibble of the PRF's output to each coefficient, two  *)
(* bits for it and two against it.                                          *)

cbd2(buf) ==
  Tabulate([i \in Coeff |->
    LET nibble == (buf[i \div 2 + 1] \div 16^(i % 2)) % 16
        bit(b) == (nibble \div 2^b) % 2
    IN  bit(0) + bit(1) - bit(2) - bit(3)])
================================================================================
