------------------------------- MODULE HybridKem -------------------------------
(***************************************************************************)
(* The hybrid block of a sealed share: hybrid_build (share.c) makes it and *)
(* hybrid_open recovers the file key from it, through hybrid_kem.c and     *)
(* Kyber-1024, computed as the code computes it.  In between the block     *)
(* lies in a file, where it may be damaged.                                *)
(*                                                                         *)
(* Argon2id, XChaCha20-Poly1305 and BLAKE2b (external) are taken as        *)
(* perfect: a master key IS the passphrase it came from, an AEAD text IS   *)
(* its key and content, a digest IS its input.  X448 is external too: the  *)
(* public key of private key p IS p with a mark, and two parties share the *)
(* set of their private keys.  Any library call may fail.                  *)
(***************************************************************************)
EXTENDS KyberReference

CONSTANTS
  Phrase,      (* passphrases                                               *)
  X448Priv,    (* X448 private keys                                         *)
  LowOrder,    (* an X448 public key no secret can be derived with          *)
  KeyRandom,   (* what randombytes delivers for the Kyber key pair          *)
  ZRandom,     (* ... for the value that answers a rejected ciphertext      *)
  EncRandom,   (* ... for an encapsulation                                  *)
  Flips,       (* bytes of the Kyber ciphertext that may be changed on disk *)
  Zero         (* what a cleared or unwritten buffer holds                  *)

KYBER_CIPHERTEXTBYTES == KYBER_POLYVECCOMPRESSED + 160

ASSUME HybridAssumption ==
  /\ Phrase # {}
  /\ \A s \in KeyRandom \cup ZRandom \cup EncRandom :
       s \in Bytes /\ Len(s) = KYBER_SYMBYTES
  /\ LowOrder \notin X448Priv
  /\ X448Priv # {} /\ \A p, q \in X448Priv : X448Priv \ {p, q} # {}
  /\ Flips \subseteq 1..KYBER_CIPHERTEXTBYTES
  /\ Zero \notin Phrase \cup X448Priv

VARIABLES
  pc,      (* the step about to run                                         *)
  ret,     (* what the call returned; Pending while it runs                 *)
  phrase,  (* the passphrase of the call                                    *)
  mem,     (* the locals of the call: secrets, and what is not secret       *)
  block,   (* wrapped secret key and KEM ciphertext, as written             *)
  file_key, (* what the build and the open made of it                       *)
  damage,  (* what happened to the block in its file                        *)
  faulty   (* a library call has failed                                     *)

vars == <<pc, ret, phrase, mem, block, file_key, damage, faulty>>

Pending == 1

Cleared == [master |-> Zero, kyber_sk |-> Zero, x448_sk |-> Zero,
            ss_kyber |-> Zero, eph_priv |-> Zero, ss_x |-> Zero]

Init ==
  /\ pc = "build" /\ ret = Pending
  /\ phrase = CHOOSE p \in Phrase : TRUE
  /\ mem = [secret |-> Cleared, kyber_pk |-> Zero, x448_pk |-> Zero,
            ct_kyber |-> Zero, eph_pub |-> Zero]
  /\ block = [wrapped |-> Zero, ct_kyber |-> Zero, eph_pub |-> Zero]
  /\ file_key = [built |-> Zero, opened |-> Zero]
  /\ damage = "none"
  /\ faulty = FALSE

Goto(label) == pc' = label /\ UNCHANGED <<ret, phrase, damage, faulty>>

(* Mutant: the X448 half of the key exchange is not cleared.                *)
hk_out_ss_kyber_only(s) == [s EXCEPT !.ss_kyber = Zero, !.eph_priv = Zero]

(* The exit labels.  hk_encapsulate and hk_decapsulate clear what the key   *)
(* exchange computed; hybrid_build and hybrid_open, around them, the rest.  *)
hk_out(s) == [s EXCEPT !.ss_kyber = Zero, !.eph_priv = Zero, !.ss_x = Zero]

hybrid_out(s) == [s EXCEPT !.master = Zero, !.kyber_sk = Zero, !.x448_sk = Zero]

Return(rc, secret, label) ==
  /\ mem' = [mem EXCEPT !.secret = secret]
  /\ ret' = rc
  /\ pc' = label
  /\ UNCHANGED <<phrase, damage>>

(* A library call fails outside the key exchange, and inside it.            *)
Fail(label) ==
  /\ Return(-1, hybrid_out(mem.secret), label)
  /\ faulty' = TRUE
  /\ UNCHANGED <<block, file_key>>

hk_Fail(label) ==
  /\ Return(-1, hybrid_out(hk_out(mem.secret)), label)
  /\ faulty' = TRUE
  /\ UNCHANGED <<block, file_key>>

---------------------------------------------------------------------------
(* hybrid_build.                                                            *)

DeriveToBuild ==
  /\ pc = "build"
  /\ \/ /\ mem' = [mem EXCEPT !.secret.master = phrase]
        /\ Goto("kyber_keypair")
        /\ UNCHANGED <<block, file_key>>
     \/ Fail("built")

(* hk_generate_keypair; Kyber's half cannot fail.                           *)
KyberKeypair ==
  /\ pc = "kyber_keypair"
  /\ \E random \in KeyRandom, z \in ZRandom :
     \E pair \in {crypto_kem_keypair(random, z)} :
       mem' = [mem EXCEPT !.secret.kyber_sk = pair.sk, !.kyber_pk = pair.pk]
  /\ Goto("x448_keypair")
  /\ UNCHANGED <<block, file_key>>

X448Pub(p) == [public |-> p]

(* Private keys are random: taken never to repeat.                          *)
FreshPriv(used) == CHOOSE p \in X448Priv : p \notin used

X448Keypair ==
  /\ pc = "x448_keypair"
  /\ \/ /\ LET p == FreshPriv({}) IN
           mem' = [mem EXCEPT !.secret.x448_sk = p, !.x448_pk = X448Pub(p)]
        /\ Goto("wrap")
        /\ UNCHANGED <<block, file_key>>
     \/ Fail("built")

(* The result of the encryption is not looked at; it cannot fail.           *)
Wrap ==
  /\ pc = "wrap"
  /\ block' = [block EXCEPT !.wrapped =
                 [master |-> mem.secret.master, kyber_sk |-> mem.secret.kyber_sk,
                  x448_sk |-> mem.secret.x448_sk]]
  /\ Goto("kyber_enc")
  /\ UNCHANGED <<mem, file_key>>

(* hk_encapsulate: Kyber, an ephemeral X448 key pair, the derivation.       *)
KyberEnc ==
  /\ pc = "kyber_enc"
  /\ \E e \in {crypto_kem_enc(mem.kyber_pk, random) : random \in EncRandom} :
       mem' = [mem EXCEPT !.secret.ss_kyber = e.ss, !.ct_kyber = e.ct]
  /\ Goto("eph_keypair")
  /\ UNCHANGED <<block, file_key>>

EphemeralKeypair ==
  /\ pc = "eph_keypair"
  /\ \/ /\ LET p == FreshPriv({mem.secret.x448_sk}) IN
           mem' = [mem EXCEPT !.secret.eph_priv = p, !.eph_pub = X448Pub(p)]
        /\ Goto("enc_derive")
        /\ UNCHANGED <<block, file_key>>
     \/ hk_Fail("built")

(* x448_scalarmult: either end of an exchange arrives at the same secret.   *)
x448_scalarmult(priv, pub) == {priv, pub.public}

hybrid_kdf(ss_kyber, ss_x448) == <<ss_kyber, ss_x448>>

EncDerive ==
  /\ pc = "enc_derive"
  /\ \/ /\ mem' = [mem EXCEPT !.secret.ss_x =
                      x448_scalarmult(mem.secret.eph_priv, mem.x448_pk)]
        /\ Goto("mix")
        /\ UNCHANGED <<block, file_key>>
     \/ hk_Fail("built")

(* The ciphertext goes into the block only when nothing has failed.         *)
Mix ==
  /\ pc = "mix"
  /\ file_key' = [file_key EXCEPT !.built =
                    hybrid_kdf(mem.secret.ss_kyber, mem.secret.ss_x)]
  /\ block' = [block EXCEPT !.ct_kyber = mem.ct_kyber, !.eph_pub = mem.eph_pub]
  /\ Return(0, hybrid_out(hk_out(mem.secret)), "built")
  /\ UNCHANGED faulty

---------------------------------------------------------------------------
(* The file: a byte of the Kyber ciphertext changes, the X448 half becomes  *)
(* another key or one of low order, the wrapped key is damaged (no key      *)
(* opens it any more), or none of these.  Then somebody opens it.           *)

StoredAs ==
  {<<"none", block>>,
   <<"wrapped", [block EXCEPT !.wrapped.master = Zero]>>,
   <<"eph_pub", [block EXCEPT !.eph_pub = X448Pub(
                   FreshPriv({block.wrapped.x448_sk, block.eph_pub.public}))]>>,
   <<"low_order", [block EXCEPT !.eph_pub = X448Pub(LowOrder)]>>}
  \cup {<<"ct_kyber", [block EXCEPT !.ct_kyber[i] = (@ + 1) % 256]>> : i \in Flips}

Store ==
  /\ pc = "built" /\ ret = 0
  /\ \E stored \in StoredAs : damage' = stored[1] /\ block' = stored[2]
  /\ phrase' \in Phrase
  /\ ret' = Pending
  /\ pc' = "open"
  /\ UNCHANGED <<mem, file_key, faulty>>

---------------------------------------------------------------------------
(* hybrid_open.                                                             *)

DeriveToOpen ==
  /\ pc = "open"
  /\ \/ /\ mem' = [mem EXCEPT !.secret.master = phrase]
        /\ Goto("unwrap")
        /\ UNCHANGED <<block, file_key>>
     \/ Fail("opened")

Unwrapped == block.wrapped.master = mem.secret.master

(* Mutant: a wrapped key that does not open ends the call as a success.     *)
Unwrap_reports_success ==
  /\ pc = "unwrap"
  /\ UNCHANGED <<block, file_key>>
  /\ \/ /\ Unwrapped
        /\ mem' = [mem EXCEPT !.secret.kyber_sk = block.wrapped.kyber_sk,
                              !.secret.x448_sk = block.wrapped.x448_sk]
        /\ Goto("kyber_dec")
     \/ /\ ~Unwrapped
        /\ Return(0, hybrid_out(mem.secret), "opened")
        /\ UNCHANGED faulty

(* A wrong passphrase shows here: the AEAD does not open.                   *)
Unwrap ==
  /\ pc = "unwrap"
  /\ UNCHANGED <<block, file_key>>
  /\ \/ /\ Unwrapped
        /\ mem' = [mem EXCEPT !.secret.kyber_sk = block.wrapped.kyber_sk,
                              !.secret.x448_sk = block.wrapped.x448_sk]
        /\ Goto("kyber_dec")
     \/ /\ ~Unwrapped
        /\ Return(-1, hybrid_out(mem.secret), "opened")
        /\ UNCHANGED faulty

(* hk_decapsulate; Kyber's half always returns a secret.                    *)
KyberDec ==
  /\ pc = "kyber_dec"
  /\ mem' = [mem EXCEPT !.secret.ss_kyber =
               crypto_kem_dec(block.ct_kyber, mem.secret.kyber_sk)]
  /\ Goto("dec_derive")
  /\ UNCHANGED <<block, file_key>>

DecDerive ==
  /\ pc = "dec_derive"
  /\ UNCHANGED <<block, file_key>>
  /\ \/ /\ block.eph_pub # X448Pub(LowOrder)
        /\ mem' = [mem EXCEPT !.secret.ss_x =
                      x448_scalarmult(mem.secret.x448_sk, block.eph_pub)]
        /\ Goto("recover")
     \/ /\ block.eph_pub = X448Pub(LowOrder)
        /\ Return(-1, hybrid_out(hk_out(mem.secret)), "opened")
        /\ UNCHANGED faulty
     \/ hk_Fail("opened")

Recover ==
  /\ pc = "recover"
  /\ file_key' = [file_key EXCEPT !.opened =
                    hybrid_kdf(mem.secret.ss_kyber, mem.secret.ss_x)]
  /\ Return(0, hybrid_out(hk_out(mem.secret)), "opened")
  /\ UNCHANGED <<block, faulty>>

Next ==
  \/ DeriveToBuild \/ KyberKeypair \/ X448Keypair \/ Wrap
  \/ KyberEnc \/ EphemeralKeypair \/ EncDerive \/ Mix
  \/ Store
  \/ DeriveToOpen \/ Unwrap \/ KyberDec \/ DecDerive \/ Recover

Spec == Init /\ [][Next]_vars

---------------------------------------------------------------------------
(* Properties of the hybrid block.                                          *)

(* hybrid_open hands out the key of hybrid_build exactly when nothing was   *)
(* damaged and the passphrase is the same; it reports a wrong passphrase or *)
(* a damaged wrap, and a damaged KEM ciphertext never gives the same key.   *)
(* Without a failing library call the two agree whenever they should.       *)
OpenContract ==
  pc = "opened" =>
    LET rightful == damage = "none" /\ phrase = CHOOSE p \in Phrase : TRUE IN
    /\ ret = 0 => (file_key.opened = file_key.built <=> rightful)
    /\ ret # 0 => file_key.opened = Zero /\ (faulty \/ ~rightful)
    /\ (damage = "wrapped" \/ phrase # CHOOSE p \in Phrase : TRUE) => ret = -1

(* A ciphertext whose re-encryption differs is answered with a secret made  *)
(* of z and the ciphertext ("pseudo-random output on reject", kem.c): never *)
(* the encapsulated one.  One that is intact gives the encapsulated one.    *)
ImplicitRejection ==
  pc \in {"dec_derive", "recover"} =>
    LET s == mem.secret IN
    IF damage = "ct_kyber"
    THEN /\ s.ss_kyber = kdf(SkZ(s.kyber_sk) \o hash_h(block.ct_kyber))
         /\ s.ss_kyber # file_key.built[1]
    ELSE s.ss_kyber = file_key.built[1]

(* Whatever way a call ends, no secret of it stays in its locals.           *)
SecretsCleared == ret # Pending => mem.secret = Cleared

---------------------------------------------------------------------------
(* Properties of the hashes, the arithmetic and the coding: each compares   *)
(* the code's way with the definition, once, before the first call.         *)

Once == pc = "build"

(* The tables of the unrolled permutation are those FIPS 202 derives.       *)
KeccakTables == LoadedFrom = RhoPiTable /\ RoundConstantsOfRegister

StreamMessage(n) == << >> \o [i \in 1..n |-> (91 * i) % 256]

(* However a message is cut for shake*_absorb and its output for            *)
(* shake*_squeeze, at a block's end or beside it, the stream is that of the *)
(* one-shot function.                                                       *)
StreamsAgree ==
  \A m \in {<<SHAKE256_RATE, 136>>, <<SHAKE256_RATE, 137>>,
            <<SHAKE128_RATE, 167>>, <<SHAKE128_RATE, 336>>} :
    LET rate == m[1]
        in   == StreamMessage(m[2])
    IN  \A cut \in {<<0, rate>>, <<m[2], 1>>, <<rate - 1, rate + 1>>} :
          Incremental(rate, in, cut[1], cut[2], rate + 8)
            = shake(rate, rate + 8, in)

(* An entry of the matrix is made of the first 256 fields below q of its    *)
(* whole stream, also when three blocks were not enough and the code went   *)
(* back for more.                                                           *)
MatrixIsUniform ==
  \A random \in KeyRandom :
    LET seed == Take(hash_g(random), KYBER_SYMBYTES) IN
    \A at \in {<<0, 0>>, <<1, 2>>} :
      sample_entry(seed, at[1], at[2]) = UniformEntry(seed, at[1], at[2])

(* The permutation's tables are those FIPS 202 derives, its streams do not  *)
(* depend on where blocks end, and the sampling follows the rejection rule. *)
(* (Theta, chi and the padding are fips202.c's own on both sides.)          *)
HashesExact == Once => KeccakTables /\ StreamsAgree /\ MatrixIsUniform

(* "barrett_reduce ... centered representative" for every int16_t.         *)
BarrettExact ==
  \A a \in int16_t :
    barrett_reduce(a) \in Centred /\ Congruent(barrett_reduce(a), a)

(* "montgomery_reduce ... congruent to a * R^-1 mod q, where R=2^16", in    *)
(* {-q+1,...,q-1}, at both ends of its range and across it.                 *)
MontgomeryOf(a) ==
  LET m == montgomery_reduce(a)
  IN  m \in (1 - KYBER_Q)..(KYBER_Q - 1) /\ Congruent(m * 65536, a)

Coarse == -32..31
Fine   == 0..255

MontgomeryExact ==
  \A c \in Coarse, d \in Fine :
    LET a == c * (KYBER_Q * 1024) + d * 13331
    IN  a < KYBER_Q * 2^15 => MontgomeryOf(a)

ReductionsExact == BarrettExact /\ MontgomeryExact

Flat(v)     == [i \in Coeff |-> v]
Spread(m)   == [i \in Coeff |-> ((m * i * i + 7 * i) % KYBER_Q) - 1664]
Monomial(n) == [i \in Coeff |-> IF i = n THEN 1 ELSE 0]

(* For polynomials at the ends of the coefficient range, the wrap of X^256  *)
(* to -1, and scattered ones.                                               *)
ProductsExact ==
  \A ab \in {<<Flat(1664), Flat(-1664)>>, <<Monomial(255), Spread(3)>>,
             <<Spread(5), Spread(11)>>} :
    LET p == Tabulate(ab[1]) q == Tabulate(ab[2]) r == NttProduct(p, q) IN
    \A n \in Coeff : /\ Congruent(r[n], ProductCoeff(p, q, n))
                     /\ r[n] \in (1 - KYBER_Q)..(KYBER_Q - 1)

(* The reductions are exact, and the product through the NTT is the product *)
(* modulo X^256 + 1: no int16_t wraps on the way.                           *)
RingExact == Once => ReductionsExact /\ ProductsExact

(* Each multiply-and-shift rounds as the division in the comment beside it, *)
(* for every coefficient a reduction leaves.                                *)
RoundingExact ==
  /\ \A u \in 0..(KYBER_Q - 1) :
       scale5(u) = Rounded(u, 5) /\ scale11(u) = Rounded(u, 11)
  /\ \A a \in Centred : tomsg_bit(a) = Rounded(NonNegative(a), 1)

Packings ==
  {[w |-> 5,  size |-> 8, pack |-> pack5,     unpack |-> unpack5],
   [w |-> 11, size |-> 8, pack |-> pack11,    unpack |-> unpack11],
   [w |-> 12, size |-> 2, pack |-> tobytes12, unpack |-> frombytes12]}

ComesBack(fields, p) ==
  LET bytes == Repack(fields, p.size, p.pack, 8)
  IN  /\ SameBits(fields, p.w, bytes, 8)
      /\ Repack(bytes, (p.size * p.w) \div 8, p.unpack, p.w) = fields

(* The hand-written shifts pack 5-, 11- and 12-bit fields as a bit string,  *)
(* least significant bit first, across every byte of a group; unpacking     *)
(* gives the fields back.                                                   *)
PackingExact ==
  \A m \in {1, 577, 1999}, p \in Packings :
    ComesBack(<< >> \o [i \in 1..16 |-> (m * i * i + 5 * m) % 2^p.w], p)

(* What is written of a polynomial is its rounded coefficients, bit by bit. *)
CodingExact == Once => RoundingExact /\ PackingExact
================================================================================
