----------------------------- MODULE KyberReference ----------------------------
(***************************************************************************)
(* What the Kyber code computes, said again from the definitions in its    *)
(* comments and in the standards it cites, without its tables, Montgomery  *)
(* factors, hand-written shifts and multiply-and-shift divisions.  The     *)
(* properties of HybridKem compare the two.                                *)
(***************************************************************************)
EXTENDS KyberKem, FiniteSets

---------------------------------------------------------------------------
(* FIPS 202, sections 3.2.2 to 3.2.5.                                       *)

(* The walk of rho: (x, y) goes to (y, 2x + 3y).                            *)
RhoWalk ==
  LET at[t \in 0..23] ==
        IF t = 0 THEN <<1, 0>>
        ELSE LET was == at[t - 1] IN <<was[2], (2 * was[1] + 3 * was[2]) % 5>>
  IN  Tabulate(at)

RhoOffset(x, y) ==
  IF x = 0 /\ y = 0 THEN 0
  ELSE LET t == CHOOSE u \in 0..23 : RhoWalk[u] = <<x, y>>
       IN  ((t + 1) * (t + 2)) \div 2

(* pi puts lane (x, y) at (y, 2x + 3y).                                     *)
RhoPiTable ==
  [lane \in 1..25 |->
    LET from == CHOOSE s \in (0..4) \X (0..4) :
                  s[2] + 5 * ((2 * s[1] + 3 * s[2]) % 5) = lane - 1
    IN  <<from[1] + 5 * from[2], RhoOffset(from[1], from[2]) % 64>>]

(* The round constants: bit 2^j - 1 of constant i is RcBit(j + 7i), no      *)
(* other bit is set, and RcBit is the register x^8 + x^6 + x^5 + x^4 + 1    *)
(* started from 1.                                                         *)
RcBit(t) == (2^(t % 7) - 1) \in KeccakF_RoundConstants[t \div 7 + 1]

RoundConstantsOfRegister ==
  /\ \A i \in 1..24 : KeccakF_RoundConstants[i] \subseteq {2^j - 1 : j \in 0..6}
  /\ \A t \in 0..7 : RcBit(t) <=> t = 0
  /\ \A t \in 0..159 :
       RcBit(t + 8) <=> Cardinality({u \in {0, 4, 5, 6} : RcBit(t + u)}) \in {1, 3}

---------------------------------------------------------------------------
(* Arithmetic modulo q.                                                     *)

Congruent(a, b) == (a - b) % KYBER_Q = 0

Centred == -((KYBER_Q - 1) \div 2)..((KYBER_Q - 1) \div 2)

(* Coefficient n of the product of two polynomials modulo X^256 + 1, of     *)
(* which the term with X^i of the first.                                    *)
ProductTerm(a, b, n, i) == IF i <= n THEN a[i] * b[n - i]
                                     ELSE -(a[i] * b[KYBER_N + n - i])

ProductCoeff(a, b, n) ==
  LET sum[i \in 0..KYBER_N] ==
        IF i = 0 THEN 0 ELSE sum[i - 1] + ProductTerm(a, b, n, i - 1)
  IN  sum[KYBER_N]

(* The product as the code computes it: through the transform and back.     *)
NttProduct(a, b) == invntt(poly_basemul_montgomery(poly_ntt(a), poly_ntt(b)))

---------------------------------------------------------------------------
(* Rounding and packing.                                                    *)

(* The nearest multiple of q / 2^d to u, as the comments beside each        *)
(* multiply-and-shift write it.                                             *)
Rounded(u, d) == ((u * 2^d + KYBER_Q \div 2) \div KYBER_Q) % 2^d

(* Bit b of a string of width-bit fields, least significant bit first.      *)
StreamBit(s, width, b) == (s[b \div width + 1] \div 2^(b % width)) % 2

SameBits(s, width, t, width2) ==
  /\ Len(s) * width = Len(t) * width2
  /\ \A b \in 0..(Len(s) * width - 1) :
       StreamBit(s, width, b) = StreamBit(t, width2, b)

---------------------------------------------------------------------------
(* Streams and the matrix.                                                  *)

(* The SHAKE stream of a message, absorbed in two pieces cut at a and       *)
(* squeezed in two pieces cut at b, n bytes in all.                         *)
Incremental(rate, in, a, b, n) ==
  LET absorbed == shake_absorb(shake_absorb(shake_init, rate, Take(in, a)),
                               rate, Drop(in, a))
      first    == shake_squeeze(shake_finalize(absorbed, rate), rate, b)
  IN  first.out \o shake_squeeze(first, rate, n - b).out

(* The first 256 fields of 12 bits below q in the whole stream.             *)
UniformEntry(seed, x, y) ==
  LET stream == Incremental(SHAKE128_RATE, seed \o <<x, y>>, 1, 100,
                            6 * SHAKE128_RATE)
      field(n) == stream[(3 * n) \div 2 + 1] + 256 * stream[(3 * n) \div 2 + 2]
      fields == << >> \o [n \in 1..((2 * Len(stream)) \div 3) |->
                  (field(n - 1) \div (IF n % 2 = 1 THEN 1 ELSE 16)) % 2^12]
  IN  AsPoly(SubSeq(SelectSeq(fields, LAMBDA v : v < KYBER_Q), 1, KYBER_N))
================================================================================
