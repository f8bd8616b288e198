-------------------------------- MODULE KyberKem -------------------------------
(***************************************************************************)
(* The public-key encryption of kyber/indcpa.c and the key encapsulation   *)
(* of kyber/kem.c over it (with verify.c, and the XOF and PRF of           *)
(* symmetric-shake.c).  No state: what randombytes delivers is a parameter.*)
(* A packed key or ciphertext is the byte string the code writes.          *)
(***************************************************************************)
EXTENDS KyberCodec

KYBER_SYMBYTES             == 32
KYBER_POLYVECBYTES         == KYBER_K * KYBER_POLYBYTES
KYBER_POLYVECCOMPRESSED    == KYBER_K * 352
KYBER_PUBLICKEYBYTES       == KYBER_POLYVECBYTES + KYBER_SYMBYTES
KYBER_SECRETKEYBYTES       == 2 * KYBER_POLYVECBYTES + 3 * KYBER_SYMBYTES

hash_h(in) == sha3_256(in)
hash_g(in) == sha3_512(in)
kdf(in)    == shake(SHAKE256_RATE, 32, in)

xof_absorb(seed, x, y) == shake_absorb_once(SHAKE128_RATE, seed \o <<x, y>>)
xof_squeezeblocks(state, n) == shake_squeezeblocks(state, SHAKE128_RATE, n)

prf(outlen, key, nonce) == shake(SHAKE256_RATE, outlen, key \o <<nonce>>)

(* ETA1 = ETA2 = 2 in Kyber-1024: both getnoise functions are this one.     *)
poly_getnoise(seed, nonce) == cbd2(prf((2 * KYBER_N) \div 4, seed, nonce))

---------------------------------------------------------------------------
(* The matrix.                                                              *)

GEN_MATRIX_NBLOCKS == 3

(* Until there are 256 coefficients, one more block behind the buflen % 3   *)
(* bytes that no whole group took.                                          *)
KeccakState == [out : Bytes, s : SUBSET StateBits, pos : Nat]

sample_more[r \in Seq(0..4095), buf \in Bytes, state \in KeccakState] ==
  IF Len(r) = KYBER_N THEN r
  ELSE LET off  == Len(buf) % 3
           next == xof_squeezeblocks(state, 1)
           more == Drop(buf, Len(buf) - off) \o next.out
       IN  sample_more[r \o rej_uniform(KYBER_N - Len(r), more), more, next]

(* One entry: three blocks at once, then one at a time.                     *)
sample_entry(seed, x, y) ==
  LET first == xof_squeezeblocks(xof_absorb(seed, x, y), GEN_MATRIX_NBLOCKS)
  IN  AsPoly(sample_more[rej_uniform(KYBER_N, first.out), first.out, first])

gen_a(seed) ==
  Tabulate([i \in Entry |->
    Tabulate([j \in Entry |-> sample_entry(seed, j, i)])])

gen_at(seed) ==
  Tabulate([i \in Entry |->
    Tabulate([j \in Entry |-> sample_entry(seed, i, j)])])

---------------------------------------------------------------------------
(* indcpa.c.                                                                *)

pack_pk(pk, seed) == polyvec_tobytes(pk) \o seed

pack_ciphertext(b, v) == polyvec_compress(b) \o poly_compress(v)

(* skpv, and e + A skpv, each with its noise at nonces of its own; both     *)
(* keys stay in the transformed domain.                                     *)
indcpa_keypair(random) ==
  LET buf        == hash_g(random)
      publicseed == Take(buf, KYBER_SYMBYTES)
      noiseseed  == Drop(buf, KYBER_SYMBYTES)
      a    == gen_a(publicseed)
      skpv == polyvec_ntt(Tabulate([i \in Entry |->
                            poly_getnoise(noiseseed, i)]))
      e    == polyvec_ntt(Tabulate([i \in Entry |->
                            poly_getnoise(noiseseed, KYBER_K + i)]))
      as   == Tabulate([i \in Entry |->
                poly_tomont(polyvec_basemul_acc_montgomery(a[i], skpv))])
      pkpv == polyvec_reduce(polyvec_add(as, e))
  IN  [sk |-> polyvec_tobytes(skpv),
       pk |-> pack_pk(pkpv, publicseed)]

indcpa_enc(m, pk, coins) ==
  LET pkpv == polyvec_frombytes(pk)
      at   == gen_at(Drop(pk, KYBER_POLYVECBYTES))
      sp   == polyvec_ntt(Tabulate([i \in Entry |-> poly_getnoise(coins, i)]))
      ep   == Tabulate([i \in Entry |-> poly_getnoise(coins, KYBER_K + i)])
      epp  == poly_getnoise(coins, 2 * KYBER_K)
      b    == polyvec_invntt_tomont(Tabulate([i \in Entry |->
                polyvec_basemul_acc_montgomery(at[i], sp)]))
      v    == invntt(polyvec_basemul_acc_montgomery(pkpv, sp))
  IN  pack_ciphertext(
        polyvec_reduce(polyvec_add(b, ep)),
        poly_reduce(poly_add(poly_add(v, epp), poly_frommsg(m))))

indcpa_dec(c, sk) ==
  LET b  == polyvec_decompress(Take(c, KYBER_POLYVECCOMPRESSED))
      v  == poly_decompress(Drop(c, KYBER_POLYVECCOMPRESSED))
      mp == invntt(polyvec_basemul_acc_montgomery(polyvec_frombytes(sk),
                                                  polyvec_ntt(b)))
  IN  poly_tomsg(poly_reduce(poly_sub(v, mp)))

---------------------------------------------------------------------------
(* verify.c: 0 for equal, 1 for different; a move on that condition.        *)

verify(a, b) == IF a = b THEN 0 ELSE 1

cmov(r, x, b) == IF b = 1 THEN x ELSE r

---------------------------------------------------------------------------
(* kem.c.                                                                   *)

KemPair(pair, z) ==
  [pk |-> pair.pk, sk |-> pair.sk \o pair.pk \o hash_h(pair.pk) \o z]

crypto_kem_keypair(random, z) == KemPair(indcpa_keypair(random), z)

(* The shared secret of a ciphertext, from what the message gave.           *)
SharedSecret(prekey, ct) == kdf(prekey \o hash_h(ct))

Encapsulation(prekey, ct) == [ct |-> ct, ss |-> SharedSecret(prekey, ct)]

crypto_kem_enc(pk, random) ==
  LET m  == hash_h(random)
      kr == hash_g(m \o hash_h(pk))
  IN  Encapsulation(Take(kr, KYBER_SYMBYTES),
                    indcpa_enc(m, pk, Drop(kr, KYBER_SYMBYTES)))

(* The parts of a secret key.                                               *)
SkPk(sk) == SubSeq(sk, KYBER_POLYVECBYTES + 1,
                   KYBER_POLYVECBYTES + KYBER_PUBLICKEYBYTES)
SkHash(sk) == SubSeq(sk, KYBER_SECRETKEYBYTES - 2 * KYBER_SYMBYTES + 1,
                     KYBER_SECRETKEYBYTES - KYBER_SYMBYTES)
SkZ(sk) == Drop(sk, KYBER_SECRETKEYBYTES - KYBER_SYMBYTES)

(* z takes the prekey's place when the ciphertext is not that of m.         *)
Prekey(m, kr, ct, sk) ==
  LET cmp == indcpa_enc(m, SkPk(sk), Drop(kr, KYBER_SYMBYTES))
  IN  cmov(Take(kr, KYBER_SYMBYTES), SkZ(sk), verify(ct, cmp))

(* Mutant: the outcome of the comparison is not used.                       *)
Decapsulation_unchecked(m, ct, sk) ==
  SharedSecret(Take(hash_g(m \o SkHash(sk)), KYBER_SYMBYTES), ct)

Decapsulation(m, ct, sk) ==
  SharedSecret(Prekey(m, hash_g(m \o SkHash(sk)), ct, sk), ct)

crypto_kem_dec(ct, sk) == Decapsulation(indcpa_dec(ct, sk), ct, sk)
================================================================================
