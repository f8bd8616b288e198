---------------------------- MODULE HybridKemProofs ----------------------------
(***************************************************************************)
(* Proofs about the hybrid block, for every set of passphrases, keys,      *)
(* random values and damages; and about the arithmetic and the coding of   *)
(* Kyber-1024 under it: reductions, NTT, rounding, packing.                *)
(***************************************************************************)
EXTENDS HybridKem, Induction, SequenceTheorems, TLAPS

---------------------------------------------------------------------------
(* Byte strings, put together and taken apart.                              *)

IsSeq(s, n) == n \in Nat /\ s = [i \in 1..n |-> s[i]]

(* The n bytes of s behind its first i.                                     *)
BytesAt(s, i, n) == SubSeq(s, i + 1, i + n)

LEMMA SeqIsSeq ==
  ASSUME NEW S, NEW s \in Seq(S) PROVE IsSeq(s, Len(s)) /\ Len(s) \in Nat
BY DEF IsSeq

LEMMA IsSeqIsSeq ==
  ASSUME NEW s, NEW n, IsSeq(s, n)
  PROVE  s \in Seq({s[i] : i \in 1..n}) /\ Len(s) = n
<1>1. s \in Seq({s[i] : i \in 1..n})
  BY DEF IsSeq
<1> QED BY <1>1 DEF IsSeq

LEMMA Computed ==
  ASSUME NEW s, NEW n, IsSeq(s, n) PROVE << >> \o s = s
<1>1. s \in Seq({s[i] : i \in 1..n})
  BY IsSeqIsSeq
<1> QED BY <1>1

LEMMA Joined ==
  ASSUME NEW s, NEW n, IsSeq(s, n), NEW t, NEW m, IsSeq(t, m)
  PROVE  /\ IsSeq(s \o t, n + m)
         /\ \A i \in 1..n : (s \o t)[i] = s[i]
         /\ \A i \in 1..m : (s \o t)[n + i] = t[i]
<1> DEFINE S == {s[i] : i \in 1..n} \cup {t[i] : i \in 1..m}
<1>1. s \in Seq(S) /\ Len(s) = n
  BY IsSeqIsSeq DEF IsSeq
<1>2. t \in Seq(S) /\ Len(t) = m
  BY IsSeqIsSeq DEF IsSeq
<1>3. s \o t \in Seq(S) /\ Len(s \o t) = n + m
  BY <1>1, <1>2
<1>4. IsSeq(s \o t, n + m)
  BY <1>3, SeqIsSeq
<1>5. \A i \in 1..n : (s \o t)[i] = s[i]
  BY <1>1, <1>2
<1>6. \A i \in 1..m : (s \o t)[n + i] = t[i]
  BY <1>1, <1>2
<1> QED BY <1>4, <1>5, <1>6

LEMMA LeftPart ==
  ASSUME NEW s, NEW n, IsSeq(s, n), NEW t, NEW m, IsSeq(t, m),
         NEW i \in Nat, NEW j \in Nat, i + j <= n
  PROVE  BytesAt(s \o t, i, j) = BytesAt(s, i, j)
<1> DEFINE S == {s[k] : k \in 1..n} \cup {t[k] : k \in 1..m}
<1>1. s \in Seq(S) /\ Len(s) = n
  BY IsSeqIsSeq DEF IsSeq
<1>2. t \in Seq(S) /\ Len(t) = m
  BY IsSeqIsSeq DEF IsSeq
<1>3. n \in Nat /\ m \in Nat
  BY DEF IsSeq
<1> HIDE DEF S
<1> QED BY <1>1, <1>2, <1>3 DEF BytesAt

LEMMA Whole ==
  ASSUME NEW s, NEW n, IsSeq(s, n) PROVE SubSeq(s, 1, n) = s
<1>1. s \in Seq({s[i] : i \in 1..n}) /\ Len(s) = n
  BY IsSeqIsSeq
<1> QED BY <1>1 DEF IsSeq

LEMMA CutOut ==
  ASSUME NEW S, NEW q \in Seq(S), NEW i \in 1..Len(q) + 1, NEW j \in 0..Len(q)
  PROVE  /\ SubSeq(q, i, j) \in Seq(S)
         /\ Len(SubSeq(q, i, j)) = IF i <= j THEN j - i + 1 ELSE 0
         /\ \A k \in 1..j - i + 1 : SubSeq(q, i, j)[k] = q[i + k - 1]
<1>1. CASE i <= j
  BY <1>1
<1>2. CASE i > j
  BY <1>2
<1> QED BY <1>1, <1>2

LEMMA RightPart ==
  ASSUME NEW s, NEW n, IsSeq(s, n), NEW t, NEW m, IsSeq(t, m)
  PROVE  BytesAt(s \o t, n, m) = t
<1> DEFINE S == {s[k] : k \in 1..n} \cup {t[k] : k \in 1..m}
           q == s \o t
           from == n + 1
           to == n + m
           u == SubSeq(q, from, to)
<1>1. s \in Seq(S) /\ Len(s) = n
  BY IsSeqIsSeq DEF IsSeq
<1>2. t \in Seq(S) /\ Len(t) = m
  BY IsSeqIsSeq DEF IsSeq
<1>3. n \in Nat /\ m \in Nat
  BY DEF IsSeq
<1>4. q \in Seq(S) /\ Len(q) = n + m
  BY <1>1, <1>2, SMTT(30)
<1>5. \A i \in 1..m : q[n + i] = t[i]
  BY <1>1, <1>2
<1> HIDE DEF S, q
<1>6. from \in 1..Len(q) + 1 /\ to \in 0..Len(q)
  BY <1>3, <1>4
<1> HIDE DEF from, to
<1>7. /\ u \in Seq(S)
      /\ Len(u) = IF from <= to THEN to - from + 1 ELSE 0
      /\ \A k \in 1..to - from + 1 : u[k] = q[from + k - 1]
  BY <1>4, <1>6, CutOut
<1> HIDE DEF u
<1>8. Len(u) = m
  BY <1>3, <1>7 DEF from, to
<1>9. \A k \in 1..m : u[k] = q[n + k]
  BY <1>3, <1>7 DEF from, to
<1>10. \A k \in 1..m : u[k] = t[k]
  BY <1>5, <1>9
<1>11. u = t
  BY <1>2, <1>7, <1>8, <1>10
<1> QED BY <1>11 DEF u, q, from, to, BytesAt

(* Generated byte strings: what is written as << >> \o [i \in 1..n |-> ...]. *)
LEMMA Written ==
  ASSUME NEW n \in Nat, NEW f, f = [i \in 1..n |-> f[i]]
  PROVE  IsSeq(<< >> \o f, n) /\ << >> \o f = f
<1>1. IsSeq(f, n)
  BY DEF IsSeq
<1> QED BY <1>1, Computed

LEMMA RepackLen ==
  ASSUME NEW in, NEW from, NEW table, NEW width,
         (Len(in) \div from) * Len(table) \in Nat
  PROVE  IsSeq(Repack(in, from, table, width), (Len(in) \div from) * Len(table))
<1> DEFINE n == (Len(in) \div from) * Len(table)
           f == [i \in 1..n |->
    LET group == (i - 1) \div Len(table)
        terms == table[((i - 1) % Len(table)) + 1]
    IN  Or([c \in 0..(from - 1) |-> in[group * from + c + 1]], terms) % 2^width]
<1>1. Repack(in, from, table, width) = << >> \o f
  BY DEF Repack
<1>2. f = [i \in 1..n |-> f[i]]
  OBVIOUS
<1> HIDE DEF f
<1> QED BY <1>1, <1>2, Written

LEMMA BytesFromLen ==
  ASSUME NEW s, NEW pos, NEW n \in Nat PROVE IsSeq(BytesFrom(s, pos, n), n)
<1> DEFINE f == [i \in 1..n |-> ByteAt(s, pos + i - 1)]
<1>1. BytesFrom(s, pos, n) = << >> \o f
  BY DEF BytesFrom
<1>2. f = [i \in 1..n |-> f[i]]
  OBVIOUS
<1> HIDE DEF f
<1> QED BY <1>1, <1>2, Written

LEMMA HashLen ==
  ASSUME NEW in PROVE IsSeq(hash_h(in), 32) /\ IsSeq(hash_g(in), 64)
BY BytesFromLen DEF hash_h, hash_g, sha3_256, sha3_512, sha3

LEMMA PolyBytesLen ==
  ASSUME NEW a PROVE IsSeq(poly_tobytes(a), 384)
<1> DEFINE f == [i \in 1..KYBER_N |-> NonNegative(a[i - 1])]
<1>1. f = [i \in 1..256 |-> f[i]]
  BY DEF KYBER_N
<1> HIDE DEF f
<1>2. Len(f) = 256
  BY <1>1, IsSeqIsSeq DEF IsSeq
<1>3. Len(tobytes12) = 3
  BY DEF tobytes12
<1>4. (Len(f) \div 2) * Len(tobytes12) = 384
  BY <1>2, <1>3
<1>5. poly_tobytes(a) = Repack(f, 2, tobytes12, 8)
  BY DEF poly_tobytes, f
<1> QED BY <1>4, <1>5, RepackLen

LEMMA FourJoined ==
  ASSUME NEW p0, NEW p1, NEW p2, NEW p3, NEW n,
         IsSeq(p0, n), IsSeq(p1, n), IsSeq(p2, n), IsSeq(p3, n)
  PROVE  IsSeq(p0 \o p1 \o p2 \o p3, n + n + n + n)
<1>1. IsSeq(p0 \o p1, n + n)
  BY Joined
<1>2. IsSeq(p0 \o p1 \o p2, n + n + n)
  BY <1>1, Joined
<1> QED BY <1>2, Joined

LEMMA PolyvecBytesLen ==
  ASSUME NEW a PROVE IsSeq(polyvec_tobytes(a), KYBER_POLYVECBYTES)
<1>1. IsSeq(polyvec_tobytes(a), 384 + 384 + 384 + 384)
  BY PolyBytesLen, FourJoined DEF polyvec_tobytes
<1> QED BY <1>1 DEF KYBER_POLYVECBYTES, KYBER_K, KYBER_POLYBYTES

---------------------------------------------------------------------------
(* The keys: how long they are, and where their parts lie.                  *)

KyberSizes ==
  /\ KYBER_SYMBYTES = 32 /\ KYBER_POLYVECBYTES = 1536
  /\ KYBER_PUBLICKEYBYTES = 1568 /\ KYBER_SECRETKEYBYTES = 3168

LEMMA Sizes == KyberSizes
BY DEF KyberSizes, KYBER_SYMBYTES, KYBER_POLYVECBYTES, KYBER_PUBLICKEYBYTES,
       KYBER_SECRETKEYBYTES, KYBER_K, KYBER_POLYBYTES

LEMMA TakeLen ==
  ASSUME NEW s, NEW n, IsSeq(s, n), NEW j \in 0..n
  PROVE  IsSeq(Take(s, j), j)
<1> DEFINE S == {s[k] : k \in 1..n}
<1>1. s \in Seq(S) /\ Len(s) = n /\ n \in Nat
  BY IsSeqIsSeq DEF IsSeq
<1> HIDE DEF S
<1>2. Take(s, j) \in Seq(S) /\ Len(Take(s, j)) = j
  BY <1>1, CutOut DEF Take
<1> QED BY <1>2, SeqIsSeq

LEMMA HashIsSeq ==
  ASSUME NEW in PROVE IsSeq(hash_h(in), KYBER_SYMBYTES)
BY HashLen DEF KYBER_SYMBYTES

LEMMA KeyLengths ==
  ASSUME NEW random
  PROVE  /\ IsSeq(indcpa_keypair(random).sk, KYBER_POLYVECBYTES)
         /\ IsSeq(indcpa_keypair(random).pk, KYBER_PUBLICKEYBYTES)
<1>1. PICK x, y : indcpa_keypair(random)
        = [sk |-> polyvec_tobytes(x),
           pk |-> polyvec_tobytes(y) \o Take(hash_g(random), KYBER_SYMBYTES)]
  BY DEF indcpa_keypair, pack_pk
<1>2. /\ IsSeq(polyvec_tobytes(x), KYBER_POLYVECBYTES)
      /\ IsSeq(polyvec_tobytes(y), KYBER_POLYVECBYTES)
  BY PolyvecBytesLen
<1> DEFINE p == polyvec_tobytes(y)
           seed == Take(hash_g(random), KYBER_SYMBYTES)
<1>3. IsSeq(seed, KYBER_SYMBYTES)
  BY HashLen, TakeLen DEF KYBER_SYMBYTES
<1> HIDE DEF p, seed
<1>4. IsSeq(p \o seed, KYBER_POLYVECBYTES + KYBER_SYMBYTES)
  BY <1>2, <1>3, Joined DEF p
<1> QED BY <1>1, <1>2, <1>4 DEF p, seed, KYBER_PUBLICKEYBYTES

FourFields(s, a, n, b, m, c, k, d, l) ==
  /\ IsSeq(s, n + m + k + l)
  /\ \A i, j \in Nat : i + j <= n => BytesAt(s, i, j) = BytesAt(a, i, j)
  /\ BytesAt(s, n, m) = b
  /\ BytesAt(s, n + m, k) = c
  /\ BytesAt(s, n + m + k, l) = d

LEMMA FourParts ==
  ASSUME NEW a, NEW n, IsSeq(a, n), NEW b, NEW m, IsSeq(b, m),
         NEW c, NEW k, IsSeq(c, k), NEW d, NEW l, IsSeq(d, l)
  PROVE  FourFields(a \o b \o c \o d, a, n, b, m, c, k, d, l)
<1> DEFINE ab  == a \o b
           abc == ab \o c
           s   == abc \o d
<1>1. n \in Nat /\ m \in Nat /\ k \in Nat /\ l \in Nat
  BY DEF IsSeq
<1>2. IsSeq(ab, n + m)
  BY Joined
<1>3. IsSeq(abc, n + m + k)
  BY <1>2, Joined
<1>4. IsSeq(s, n + m + k + l)
  BY <1>3, Joined
<1>5. /\ \A i, j \in Nat : i + j <= n => BytesAt(ab, i, j) = BytesAt(a, i, j)
      /\ BytesAt(ab, n, m) = b
  BY LeftPart, RightPart
<1>6. /\ \A i, j \in Nat : i + j <= n + m => BytesAt(abc, i, j) = BytesAt(ab, i, j)
      /\ BytesAt(abc, n + m, k) = c
  BY <1>2, LeftPart, RightPart
<1>7. /\ \A i, j \in Nat :
            i + j <= n + m + k => BytesAt(s, i, j) = BytesAt(abc, i, j)
      /\ BytesAt(s, n + m + k, l) = d
  BY <1>3, LeftPart, RightPart
<1> HIDE DEF ab, abc, s
<1>8. \A i, j \in Nat : i + j <= n => BytesAt(s, i, j) = BytesAt(a, i, j)
  BY <1>1, <1>5, <1>6, <1>7
<1>9. BytesAt(s, n, m) = b
  BY <1>1, <1>5, <1>6, <1>7
<1>10. BytesAt(s, n + m, k) = c
  BY <1>1, <1>6, <1>7
<1> QED BY <1>4, <1>7, <1>8, <1>9, <1>10 DEF FourFields, ab, abc, s

(* KemPair lays sk, pk, H(pk) and z end to end; kem.c and indcpa.c find     *)
(* them again by their offsets.                                             *)
LEMMA KeyLayout ==
  ASSUME NEW a, IsSeq(a, KYBER_POLYVECBYTES),
         NEW pk, IsSeq(pk, KYBER_PUBLICKEYBYTES),
         NEW h, IsSeq(h, KYBER_SYMBYTES), NEW z, IsSeq(z, KYBER_SYMBYTES)
  PROVE  LET sk == a \o pk \o h \o z IN
         /\ SkPk(sk) = pk
         /\ SkHash(sk) = h
         /\ SkZ(sk) = z
         /\ polyvec_frombytes(sk) = polyvec_frombytes(a)
<1> DEFINE n == KYBER_POLYVECBYTES
           m == KYBER_PUBLICKEYBYTES
           k == KYBER_SYMBYTES
           sk == a \o pk \o h \o z
<1>1. /\ IsSeq(sk, n + m + k + k)
      /\ \A i, j \in Nat : i + j <= n => BytesAt(sk, i, j) = BytesAt(a, i, j)
      /\ BytesAt(sk, n, m) = pk
      /\ BytesAt(sk, n + m, k) = h
      /\ BytesAt(sk, n + m + k, k) = z
  <2> HIDE DEF n, m, k
  <2>1. IsSeq(a, n) /\ IsSeq(pk, m) /\ IsSeq(h, k) /\ IsSeq(z, k)
    BY DEF n, m, k
  <2>2. FourFields(a \o pk \o h \o z, a, n, pk, m, h, k, z, k)
    BY <2>1, FourParts
  <2> QED BY <2>2 DEF FourFields
<1> HIDE DEF sk
<1>2. Len(sk) = n + m + k + k
  BY <1>1, IsSeqIsSeq
<1>3. n = 1536 /\ m = 1568 /\ k = 32 /\ KYBER_SECRETKEYBYTES = 3168
  BY Sizes DEF KyberSizes
<1>4. SkPk(sk) = pk
  BY <1>1 DEF SkPk, BytesAt
<1>5. SkHash(sk) = h
  <2>1. /\ KYBER_SECRETKEYBYTES - 2 * KYBER_SYMBYTES + 1 = n + m + 1
        /\ KYBER_SECRETKEYBYTES - KYBER_SYMBYTES = n + m + k
    BY <1>3
  <2> QED BY <1>1, <2>1 DEF SkHash, BytesAt
<1>6. SkZ(sk) = z
  <2>1. /\ KYBER_SECRETKEYBYTES - KYBER_SYMBYTES + 1 = n + m + k + 1
        /\ Len(sk) = n + m + k + k
    BY <1>2, <1>3
  <2> QED BY <1>1, <2>1 DEF SkZ, Drop, BytesAt
<1>7. \A i \in 0..3 : BytesAt(sk, 384 * i, 384) = BytesAt(a, 384 * i, 384)
  <2> TAKE i \in 0..3
  <2>1. 384 * i \in Nat /\ 384 * i + 384 <= n
    BY <1>3
  <2> QED BY <1>1, <2>1
<1>8. Entry = 0..3
  BY DEF Entry, KYBER_K
<1>9. \A i \in Entry :
        poly_frombytes(SubSeq(sk, KYBER_POLYBYTES * i + 1,
                              KYBER_POLYBYTES * (i + 1)))
          = poly_frombytes(SubSeq(a, KYBER_POLYBYTES * i + 1,
                                  KYBER_POLYBYTES * (i + 1)))
  <2> TAKE i \in Entry
  <2> DEFINE from == KYBER_POLYBYTES * i + 1
             to   == KYBER_POLYBYTES * (i + 1)
  <2>1. from = 384 * i + 1 /\ to = 384 * i + 384
    BY <1>8 DEF KYBER_POLYBYTES
  <2>2. BytesAt(sk, 384 * i, 384) = BytesAt(a, 384 * i, 384)
    BY <1>7, <1>8
  <2> HIDE DEF from, to
  <2>3. SubSeq(sk, from, to) = BytesAt(sk, 384 * i, 384)
    BY <2>1 DEF BytesAt
  <2>4. SubSeq(a, from, to) = BytesAt(a, 384 * i, 384)
    BY <2>1 DEF BytesAt
  <2>5. SubSeq(sk, from, to) = SubSeq(a, from, to)
    BY <2>2, <2>3, <2>4
  <2>6. poly_frombytes(SubSeq(sk, from, to)) = poly_frombytes(SubSeq(a, from, to))
    BY <2>5, Zenon
  <2> QED BY <2>6 DEF from, to
<1>10. polyvec_frombytes(sk) = polyvec_frombytes(a)
  BY <1>9 DEF polyvec_frombytes
<1> QED BY <1>4, <1>5, <1>6, <1>10 DEF sk

---------------------------------------------------------------------------
(* What the exchange asks of Kyber's encryption and of the hash, for the    *)
(* random values at hand: both can fail, with a probability of about        *)
(* 2^-174 and of a collision.                                               *)

Coins(m, pk) == Drop(hash_g(m \o hash_h(pk)), KYBER_SYMBYTES)

(* Decryption inverts the encryptions of crypto_kem_enc.                    *)
DecryptionCorrect ==
  \A pair \in {indcpa_keypair(random) : random \in KeyRandom} :
    \A m \in {hash_h(random) : random \in EncRandom} :
      indcpa_dec(indcpa_enc(m, pair.pk, Coins(m, pair.pk)), pair.sk) = m

Damaged(ct) == {[ct EXCEPT ![i] = (@ + 1) % 256] : i \in Flips}

(* A damaged ciphertext is not the encryption of what it decrypts to, and   *)
(* z with its hash does not collide with the prekey and the hash of the     *)
(* intact one.                                                              *)
DamageShows ==
  \A pair \in {indcpa_keypair(random) : random \in KeyRandom} :
    \A enc \in {crypto_kem_enc(pair.pk, random) : random \in EncRandom} :
      \A ct \in Damaged(enc.ct) :
        /\ LET m == indcpa_dec(ct, pair.sk)
           IN  indcpa_enc(m, pair.pk, Coins(m, pair.pk)) # ct
        /\ \A z \in ZRandom : kdf(z \o hash_h(ct)) # enc.ss

KyberWorks == DecryptionCorrect /\ DamageShows

---------------------------------------------------------------------------
(* The key exchange.                                                        *)

LEMMA RandomIsSeq ==
  ASSUME NEW s \in KeyRandom \cup ZRandom \cup EncRandom
  PROVE  IsSeq(s, KYBER_SYMBYTES)
<1>1. s \in Bytes /\ Len(s) = KYBER_SYMBYTES
  BY HybridAssumption
<1>2. s \in Seq(0..255)
  BY <1>1 DEF Bytes
<1> HIDE DEF Bytes
<1> QED BY <1>1, <1>2, SeqIsSeq

LEMMA KeyParts ==
  ASSUME NEW random, NEW z \in ZRandom
  PROVE  LET pair == indcpa_keypair(random)
             sk   == crypto_kem_keypair(random, z).sk
         IN  /\ crypto_kem_keypair(random, z).pk = pair.pk
             /\ SkPk(sk) = pair.pk
             /\ SkHash(sk) = hash_h(pair.pk)
             /\ SkZ(sk) = z
             /\ \A ct : indcpa_dec(ct, sk) = indcpa_dec(ct, pair.sk)
<1> DEFINE pair == indcpa_keypair(random)
           h    == hash_h(pair.pk)
           sk   == pair.sk \o pair.pk \o h \o z
<1>1. crypto_kem_keypair(random, z) = [pk |-> pair.pk, sk |-> sk]
  BY DEF crypto_kem_keypair, KemPair
<1>2. /\ IsSeq(pair.sk, KYBER_POLYVECBYTES)
      /\ IsSeq(pair.pk, KYBER_PUBLICKEYBYTES)
      /\ IsSeq(h, KYBER_SYMBYTES) /\ IsSeq(z, KYBER_SYMBYTES)
  BY KeyLengths, HashIsSeq, RandomIsSeq
<1>3. /\ SkPk(sk) = pair.pk
      /\ SkHash(sk) = h
      /\ SkZ(sk) = z
      /\ polyvec_frombytes(sk) = polyvec_frombytes(pair.sk)
  <2> HIDE DEF h, pair
  <2> QED BY <1>2, KeyLayout
<1> HIDE DEF sk
<1>4. \A ct : indcpa_dec(ct, sk) = indcpa_dec(ct, pair.sk)
  <2> HIDE DEF pair
  <2> QED BY <1>3 DEF indcpa_dec
<1> QED BY <1>1, <1>3, <1>4

(* A ciphertext that is the encryption of what it decrypts to, and one that *)
(* is not.                                                                  *)
LEMMA Decapsulated ==
  ASSUME NEW random, NEW z \in ZRandom, NEW ct
  PROVE  LET pair == indcpa_keypair(random)
             m    == indcpa_dec(ct, pair.sk)
             kr   == hash_g(m \o hash_h(pair.pk))
         IN  crypto_kem_dec(ct, crypto_kem_keypair(random, z).sk)
               = IF ct = indcpa_enc(m, pair.pk, Coins(m, pair.pk))
                 THEN SharedSecret(Take(kr, KYBER_SYMBYTES), ct)
                 ELSE SharedSecret(z, ct)
<1> DEFINE pair == indcpa_keypair(random)
           sk   == crypto_kem_keypair(random, z).sk
           m    == indcpa_dec(ct, pair.sk)
           kr   == hash_g(m \o hash_h(pair.pk))
<1>1. /\ SkPk(sk) = pair.pk
      /\ SkHash(sk) = hash_h(pair.pk)
      /\ SkZ(sk) = z
      /\ indcpa_dec(ct, sk) = m
  BY KeyParts
<1> HIDE DEF pair, sk, m
<1>2. crypto_kem_dec(ct, sk) = SharedSecret(Prekey(m, kr, ct, sk), ct)
  BY <1>1 DEF crypto_kem_dec, Decapsulation
<1>3. Prekey(m, kr, ct, sk)
        = IF ct = indcpa_enc(m, pair.pk, Coins(m, pair.pk))
          THEN Take(kr, KYBER_SYMBYTES) ELSE z
  BY <1>1 DEF Prekey, cmov, verify, Coins
<1> QED BY <1>2, <1>3 DEF pair, sk, m

(* Both ends of an intact exchange have the same secret.                    *)
LEMMA ExchangeAgrees ==
  ASSUME NEW random \in KeyRandom, NEW z \in ZRandom, NEW e \in EncRandom,
         DecryptionCorrect
  PROVE  LET pair == crypto_kem_keypair(random, z)
             enc  == crypto_kem_enc(pair.pk, e)
         IN  crypto_kem_dec(enc.ct, pair.sk) = enc.ss
<1> DEFINE pair == indcpa_keypair(random)
           m    == hash_h(e)
           kr   == hash_g(m \o hash_h(pair.pk))
           ct   == indcpa_enc(m, pair.pk, Coins(m, pair.pk))
           sk   == crypto_kem_keypair(random, z).sk
<1>1. crypto_kem_keypair(random, z).pk = pair.pk
  BY KeyParts
<1>2. indcpa_dec(ct, pair.sk) = m
  BY DEF DecryptionCorrect
<1>3. crypto_kem_enc(pair.pk, e)
        = [ct |-> ct, ss |-> SharedSecret(Take(kr, KYBER_SYMBYTES), ct)]
  BY DEF crypto_kem_enc, Encapsulation, Coins
<1>4. crypto_kem_dec(ct, sk)
        = IF ct = indcpa_enc(indcpa_dec(ct, pair.sk), pair.pk,
                             Coins(indcpa_dec(ct, pair.sk), pair.pk))
          THEN SharedSecret(Take(hash_g(indcpa_dec(ct, pair.sk)
                                          \o hash_h(pair.pk)),
                                 KYBER_SYMBYTES), ct)
          ELSE SharedSecret(z, ct)
  <2> HIDE DEF ct
  <2> QED BY Decapsulated
<1>5. crypto_kem_dec(ct, sk) = SharedSecret(Take(kr, KYBER_SYMBYTES), ct)
  BY <1>2, <1>4
<1> QED BY <1>1, <1>3, <1>5

(* A damaged ciphertext is answered with a secret made of z, another one.   *)
LEMMA ExchangeRejects ==
  ASSUME NEW random \in KeyRandom, NEW z \in ZRandom, NEW e \in EncRandom,
         DamageShows,
         NEW ct \in Damaged(crypto_kem_enc(
                              crypto_kem_keypair(random, z).pk, e).ct)
  PROVE  LET pair == crypto_kem_keypair(random, z)
             enc  == crypto_kem_enc(pair.pk, e)
         IN  /\ crypto_kem_dec(ct, pair.sk)
                  = kdf(SkZ(pair.sk) \o hash_h(ct))
             /\ crypto_kem_dec(ct, pair.sk) # enc.ss
<1> DEFINE pair == indcpa_keypair(random)
           sk   == crypto_kem_keypair(random, z).sk
           enc  == crypto_kem_enc(pair.pk, e)
           m    == indcpa_dec(ct, pair.sk)
<1>1. crypto_kem_keypair(random, z).pk = pair.pk /\ SkZ(sk) = z
  BY KeyParts
<1>2. ct \in Damaged(enc.ct)
  BY <1>1
<1>3. /\ indcpa_enc(m, pair.pk, Coins(m, pair.pk)) # ct
      /\ kdf(z \o hash_h(ct)) # enc.ss
  BY <1>2 DEF DamageShows
<1>4. crypto_kem_dec(ct, sk) = SharedSecret(z, ct)
  BY <1>3, Decapsulated
<1> QED BY <1>1, <1>3, <1>4 DEF SharedSecret

IsKeyPair(pk, sk) ==
  \E random \in KeyRandom, z \in ZRandom :
    /\ pk = crypto_kem_keypair(random, z).pk
    /\ sk = crypto_kem_keypair(random, z).sk

IsEncapsulation(pk, ct, ss) ==
  \E random \in EncRandom : /\ ct = crypto_kem_enc(pk, random).ct
                           /\ ss = crypto_kem_enc(pk, random).ss

---------------------------------------------------------------------------
(* No secret stays behind.                                                  *)

Steps == {"build", "kyber_keypair", "x448_keypair", "wrap", "kyber_enc",
          "eph_keypair", "enc_derive", "mix", "built",
          "open", "unwrap", "kyber_dec", "dec_derive", "recover", "opened"}

(* The buffers of the secrets, and of mem, are these.                       *)
Secrets(s) ==
  LET F == {"master", "kyber_sk", "x448_sk", "ss_kyber", "eph_priv", "ss_x"}
  IN  DOMAIN s = F /\ s = [f \in F |-> s[f]]

Buffers ==
  /\ LET F == {"secret", "kyber_pk", "x448_pk", "ct_kyber", "eph_pub"}
     IN  DOMAIN mem = F /\ mem = [f \in F |-> mem[f]]
  /\ Secrets(mem.secret)

(* What the key exchange computes exists only inside it, and nothing does   *)
(* between the calls; a call that has returned is over.                     *)
Held ==
  /\ pc \in Steps
  /\ ret # Pending => pc \in {"built", "opened"}
  /\ pc \notin {"mix", "recover"} => mem.secret.ss_x = Zero
  /\ pc \notin {"eph_keypair", "enc_derive", "mix", "dec_derive", "recover"} =>
       mem.secret.ss_kyber = Zero /\ mem.secret.eph_priv = Zero
  /\ pc \in {"build", "built", "open", "opened"} => mem.secret = Cleared

ClearInv == Buffers /\ Held

LEMMA AllCleared ==
  ASSUME NEW s, Secrets(s), s.master = Zero, s.kyber_sk = Zero,
         s.x448_sk = Zero, s.ss_kyber = Zero, s.eph_priv = Zero, s.ss_x = Zero
  PROVE  s = Cleared
BY DEF Secrets, Cleared

(* Both exits clear whatever was held.                                      *)
LEMMA ExitClears ==
  ASSUME Buffers
  PROVE  /\ hybrid_out(hk_out(mem.secret)) = Cleared
         /\ mem.secret.ss_kyber = Zero /\ mem.secret.eph_priv = Zero
              /\ mem.secret.ss_x = Zero =>
              hybrid_out(mem.secret) = Cleared
<1>1. ASSUME NEW s, Secrets(s)
      PROVE  LET h == hk_out(s) IN
             Secrets(h) /\ h.ss_kyber = Zero /\ h.eph_priv = Zero
             /\ h.ss_x = Zero
  BY <1>1 DEF Secrets, hk_out
<1>2. ASSUME NEW s, Secrets(s), s.ss_kyber = Zero, s.eph_priv = Zero,
             s.ss_x = Zero
      PROVE  hybrid_out(s) = Cleared
  <2> DEFINE h == hybrid_out(s)
  <2>1. Secrets(h)
    BY <1>2 DEF Secrets, hybrid_out
  <2>2. h.master = Zero /\ h.kyber_sk = Zero /\ h.x448_sk = Zero
    BY <1>2 DEF Secrets, hybrid_out
  <2>3. h.ss_kyber = Zero /\ h.eph_priv = Zero /\ h.ss_x = Zero
    BY <1>2 DEF Secrets, hybrid_out
  <2> HIDE DEF h
  <2>4. h = Cleared
    BY <2>1, <2>2, <2>3, AllCleared
  <2> QED BY <2>4 DEF h
<1> QED BY <1>1, <1>2 DEF Buffers

LEMMA ReturnClears ==
  ASSUME Buffers, NEW rc, NEW label \in {"built", "opened"},
         Return(rc, Cleared, label)
  PROVE  ClearInv'
BY DEF Return, ClearInv, Buffers, Secrets, Held, Steps, Cleared

(* What a step that writes one secret, or a secret and a value beside it,   *)
(* leaves.                                                                  *)
LEMMA SecretWritten ==
  ASSUME Buffers, NEW f \in {"kyber_sk", "x448_sk", "ss_kyber", "eph_priv"},
         NEW g \in {"kyber_pk", "x448_pk", "ct_kyber", "eph_pub"},
         NEW a, NEW b, mem' = [mem EXCEPT !.secret[f] = a, ![g] = b]
  PROVE  /\ Buffers'
         /\ mem'.secret = [mem.secret EXCEPT ![f] = a]
         /\ mem'[g] = b
<1>1. DOMAIN mem' = DOMAIN mem
  OBVIOUS
<1>2. mem'.secret = [mem.secret EXCEPT ![f] = a]
  BY DEF Buffers
<1>3. Secrets(mem'.secret)
  BY <1>2 DEF Buffers, Secrets
<1>4. mem'[g] = b
  BY DEF Buffers
<1> QED BY <1>1, <1>2, <1>3, <1>4 DEF Buffers

LEMMA SharedWritten ==
  ASSUME Buffers, NEW a, mem' = [mem EXCEPT !.secret.ss_x = a]
  PROVE  /\ Buffers'
         /\ mem'.secret = [mem.secret EXCEPT !.ss_x = a]
         /\ \A f \in {"kyber_pk", "x448_pk", "ct_kyber", "eph_pub"} :
              mem'[f] = mem[f]
<1>1. DOMAIN mem' = DOMAIN mem
  OBVIOUS
<1>2. mem'.secret = [mem.secret EXCEPT !.ss_x = a]
  BY DEF Buffers
<1>3. Secrets(mem'.secret)
  BY <1>2 DEF Buffers, Secrets
<1>4. \A f \in {"kyber_pk", "x448_pk", "ct_kyber", "eph_pub"} : mem'[f] = mem[f]
  BY DEF Buffers
<1> QED BY <1>1, <1>2, <1>3, <1>4 DEF Buffers

LEMMA KeysUnwrapped ==
  ASSUME Buffers, NEW a, NEW b,
         mem' = [mem EXCEPT !.secret.kyber_sk = a, !.secret.x448_sk = b]
  PROVE  /\ Buffers'
         /\ mem'.secret = [mem.secret EXCEPT !.kyber_sk = a, !.x448_sk = b]
<1>1. DOMAIN mem' = DOMAIN mem
  OBVIOUS
<1>2. mem'.secret = [mem.secret EXCEPT !.kyber_sk = a, !.x448_sk = b]
  BY DEF Buffers
<1>3. Secrets(mem'.secret)
  BY <1>2 DEF Buffers, Secrets
<1> QED BY <1>1, <1>2, <1>3 DEF Buffers

LEMMA ClearStep == ClearInv /\ [Next]_vars => ClearInv'
<1> SUFFICES ASSUME ClearInv, [Next]_vars PROVE ClearInv'
  OBVIOUS
<1> USE DEF ClearInv, Goto
<1>1. CASE DeriveToBuild
  <2>1. CASE Fail("built")
    BY <1>1, <2>1, ExitClears, ReturnClears DEF DeriveToBuild, Fail, Held
  <2>2. CASE mem' = [mem EXCEPT !.secret.master = phrase]
        /\ Goto("kyber_keypair")
    BY <1>1, <2>2 DEF DeriveToBuild, Buffers, Secrets, Held, Steps
  <2> QED BY <1>1, <2>1, <2>2 DEF DeriveToBuild
<1>2. CASE KyberKeypair
  <2>1. PICK pair : IsKeyPair(pair.pk, pair.sk) /\
          mem' = [mem EXCEPT !.secret.kyber_sk = pair.sk, !.kyber_pk = pair.pk]
    BY <1>2 DEF KyberKeypair, IsKeyPair
  <2>2. Buffers' /\ mem'.secret = [mem.secret EXCEPT !.kyber_sk = pair.sk]
    BY <2>1, SecretWritten
  <2> QED BY <1>2, <2>2 DEF KyberKeypair, Buffers, Secrets, Held, Steps
<1>3. CASE X448Keypair
  <2>1. CASE Fail("built")
    BY <1>3, <2>1, ExitClears, ReturnClears DEF X448Keypair, Fail, Held
  <2>2. CASE ~Fail("built")
    <3> DEFINE p == FreshPriv({})
    <3>1. mem' = [mem EXCEPT !.secret.x448_sk = p, !.x448_pk = X448Pub(p)]
      BY <1>3, <2>2 DEF X448Keypair
    <3> HIDE DEF p
    <3>2. Buffers' /\ mem'.secret = [mem.secret EXCEPT !.x448_sk = p]
      BY <3>1, SecretWritten
    <3> QED BY <1>3, <2>2, <3>2 DEF X448Keypair, Buffers, Secrets, Held, Steps
  <2> QED BY <2>1, <2>2
<1>4. CASE Wrap
  BY <1>4 DEF Wrap, Buffers, Secrets, Held, Steps
<1>5. CASE KyberEnc
  <2>1. PICK e : mem' = [mem EXCEPT !.secret.ss_kyber = e.ss, !.ct_kyber = e.ct]
    BY <1>5 DEF KyberEnc
  <2>2. Buffers' /\ mem'.secret = [mem.secret EXCEPT !.ss_kyber = e.ss]
    BY <2>1, SecretWritten
  <2> QED BY <1>5, <2>2 DEF KyberEnc, Buffers, Secrets, Held, Steps
<1>6. CASE EphemeralKeypair
  <2>1. CASE hk_Fail("built")
    BY <1>6, <2>1, ExitClears, ReturnClears DEF EphemeralKeypair, hk_Fail, Held
  <2>2. CASE ~hk_Fail("built")
    <3> DEFINE p == FreshPriv({mem.secret.x448_sk})
    <3>1. mem' = [mem EXCEPT !.secret.eph_priv = p, !.eph_pub = X448Pub(p)]
      BY <1>6, <2>2 DEF EphemeralKeypair
    <3> HIDE DEF p
    <3>2. Buffers' /\ mem'.secret = [mem.secret EXCEPT !.eph_priv = p]
      BY <3>1, SecretWritten
    <3> QED BY <1>6, <2>2, <3>2 DEF EphemeralKeypair, Buffers, Secrets, Held,
               Steps
  <2> QED BY <2>1, <2>2
<1>7. CASE EncDerive
  <2>1. CASE hk_Fail("built")
    BY <1>7, <2>1, ExitClears, ReturnClears DEF hk_Fail
  <2>2. CASE ~hk_Fail("built")
    <3>1. PICK x : mem' = [mem EXCEPT !.secret.ss_x = x]
      BY <1>7, <2>2 DEF EncDerive
    <3>2. Buffers' /\ mem'.secret = [mem.secret EXCEPT !.ss_x = x]
      BY <3>1, SharedWritten
    <3> QED BY <1>7, <2>2, <3>2 DEF EncDerive, Buffers, Secrets, Held, Steps
  <2> QED BY <2>1, <2>2
<1>14. CASE Mix
  BY <1>14, ExitClears, ReturnClears DEF Mix
<1>8. CASE Store
  BY <1>8 DEF Store, Buffers, Secrets, Held, Steps
<1>9. CASE DeriveToOpen
  <2>1. CASE Fail("opened")
    BY <1>9, <2>1, ExitClears, ReturnClears DEF DeriveToOpen, Fail, Held
  <2>2. CASE ~Fail("opened")
    BY <1>9, <2>2 DEF DeriveToOpen, Buffers, Secrets, Held, Steps
  <2> QED BY <2>1, <2>2
<1>10. CASE Unwrap
  <2>1. CASE Unwrapped
    <3>1. Buffers' /\ mem'.secret
                        = [mem.secret EXCEPT !.kyber_sk = block.wrapped.kyber_sk,
                                             !.x448_sk = block.wrapped.x448_sk]
      BY <1>10, <2>1, KeysUnwrapped DEF Unwrap
    <3> QED BY <1>10, <2>1, <3>1 DEF Unwrap, Buffers, Secrets, Held, Steps
  <2>2. CASE ~Unwrapped
    BY <1>10, <2>2, ExitClears, ReturnClears DEF Unwrap, Held
  <2> QED BY <2>1, <2>2
<1>11. CASE KyberDec
  BY <1>11 DEF KyberDec, Buffers, Secrets, Held, Steps
<1>12. CASE DecDerive
  <2>1. CASE hk_Fail("opened")
    BY <1>12, <2>1, ExitClears, ReturnClears DEF hk_Fail
  <2>2. CASE block.eph_pub = X448Pub(LowOrder) /\ ~hk_Fail("opened")
    BY <1>12, <2>2, ExitClears, ReturnClears DEF DecDerive
  <2>3. CASE block.eph_pub # X448Pub(LowOrder) /\ ~hk_Fail("opened")
    <3>1. PICK x : mem' = [mem EXCEPT !.secret.ss_x = x]
      BY <1>12, <2>3 DEF DecDerive
    <3>2. Buffers' /\ mem'.secret = [mem.secret EXCEPT !.ss_x = x]
      BY <3>1, SharedWritten
    <3> QED BY <1>12, <2>3, <3>2 DEF DecDerive, Buffers, Secrets, Held, Steps
  <2> QED BY <2>1, <2>2, <2>3
<1>15. CASE Recover
  BY <1>15, ExitClears, ReturnClears DEF Recover
<1>13. CASE UNCHANGED vars
  BY <1>13 DEF vars, Buffers, Secrets, Held
<1> QED BY <1>1, <1>2, <1>3, <1>4, <1>5, <1>6, <1>7, <1>8, <1>9, <1>10, <1>11,
           <1>12, <1>13, <1>14, <1>15 DEF Next

LEMMA ClearInvariance == Spec => []ClearInv
<1>1. Init => ClearInv
  BY DEF Init, ClearInv, Buffers, Secrets, Held, Steps, Cleared, Pending
<1> QED BY <1>1, ClearStep, PTL DEF Spec

(* Whatever way hybrid_build and hybrid_open end, at whatever call, no      *)
(* secret stays in their locals (the exit labels of share.c and             *)
(* hybrid_kem.c, one inside the other).                                     *)
THEOREM NoSecretStays == Spec => []SecretsCleared
<1>1. ClearInv => SecretsCleared
  BY DEF ClearInv, Held, SecretsCleared
<1> QED BY <1>1, ClearInvariance, PTL

---------------------------------------------------------------------------
(* The contract of hybrid_open.                                             *)

FirstPhrase == CHOOSE p \in Phrase : TRUE

Exchanged(pk, sk, ct, ss, x, y) ==
  /\ IsKeyPair(pk, sk) /\ IsEncapsulation(pk, ct, ss)
  /\ x \in X448Priv /\ y \in X448Priv /\ x # y

(* The block of that exchange, as damage left it.                           *)
Lies(sk, ct, x, y) ==
  /\ damage \in {"none", "wrapped", "ct_kyber", "eph_pub", "low_order"}
  /\ DOMAIN block.wrapped = {"master", "kyber_sk", "x448_sk"}
  /\ block.wrapped.master = IF damage = "wrapped" THEN Zero ELSE FirstPhrase
  /\ block.wrapped.kyber_sk = sk /\ block.wrapped.x448_sk = x
  /\ damage = "ct_kyber" => block.ct_kyber \in Damaged(ct)
  /\ damage # "ct_kyber" => block.ct_kyber = ct
  /\ damage = "eph_pub" =>
       \E p \in X448Priv : p # x /\ p # y /\ block.eph_pub = X448Pub(p)
  /\ damage = "low_order" => block.eph_pub = X448Pub(LowOrder)
  /\ damage \notin {"eph_pub", "low_order"} => block.eph_pub = X448Pub(y)

Sealed ==
  \E pk, sk, ct, ss, x, y :
    /\ Exchanged(pk, sk, ct, ss, x, y)
    /\ Lies(sk, ct, x, y)
    /\ file_key.built = hybrid_kdf(ss, {x, y})

(* How far a build has come: what each step may rely on.                    *)
Progress ==
  LET s == mem.secret IN
  /\ pc \in {"kyber_keypair", "x448_keypair", "wrap"} => s.master = FirstPhrase
  /\ pc \in {"x448_keypair", "wrap", "kyber_enc", "eph_keypair", "enc_derive",
              "mix"} =>
       IsKeyPair(mem.kyber_pk, s.kyber_sk)
  /\ pc \in {"wrap", "kyber_enc", "eph_keypair", "enc_derive", "mix"} =>
       s.x448_sk \in X448Priv /\ mem.x448_pk = X448Pub(s.x448_sk)
  /\ pc \in {"kyber_enc", "eph_keypair", "enc_derive", "mix"} =>
       block.wrapped = [master |-> FirstPhrase, kyber_sk |-> s.kyber_sk,
                        x448_sk |-> s.x448_sk]
  /\ pc \in {"eph_keypair", "enc_derive", "mix"} =>
       IsEncapsulation(mem.kyber_pk, mem.ct_kyber, s.ss_kyber)
  /\ pc \in {"enc_derive", "mix"} =>
       /\ s.eph_priv \in X448Priv /\ s.eph_priv # s.x448_sk
       /\ mem.eph_pub = X448Pub(s.eph_priv)
  /\ pc = "mix" => s.ss_x = {s.x448_sk, s.eph_priv}

Building == {"build", "kyber_keypair", "x448_keypair", "wrap", "kyber_enc",
             "eph_keypair", "enc_derive", "mix"}

Opening == {"open", "unwrap", "kyber_dec", "dec_derive", "recover"}

(* What lies between the build and the open, and how far the open has come. *)
Recovery ==
  LET s == mem.secret IN
  /\ (pc = "built" /\ ret = 0) \/ pc \in Opening => Sealed
  /\ pc = "unwrap" => s.master = phrase
  /\ pc \in {"kyber_dec", "dec_derive", "recover"} =>
       /\ damage # "wrapped" /\ phrase = FirstPhrase
       /\ s.kyber_sk = block.wrapped.kyber_sk
       /\ s.x448_sk = block.wrapped.x448_sk
  /\ pc \in {"dec_derive", "recover"} =>
       s.ss_kyber = crypto_kem_dec(block.ct_kyber, s.kyber_sk)
  /\ pc = "recover" => /\ block.eph_pub # X448Pub(LowOrder)
                       /\ s.ss_x = x448_scalarmult(s.x448_sk, block.eph_pub)

Placed ==
  /\ DOMAIN block = {"wrapped", "ct_kyber", "eph_pub"}
  /\ DOMAIN file_key = {"built", "opened"}
  /\ phrase \in Phrase
  /\ pc \in Building \cup {"built"} => phrase = FirstPhrase /\ damage = "none"
  /\ pc # "opened" => file_key.opened = Zero

ContractInv == Placed /\ Progress /\ Recovery /\ OpenContract

LEMMA FreshOne ==
  /\ FreshPriv({}) \in X448Priv
  /\ \A p \in X448Priv : FreshPriv({p}) \in X448Priv /\ FreshPriv({p}) # p
  /\ \A p, q \in X448Priv : /\ FreshPriv({p, q}) \in X448Priv
                           /\ FreshPriv({p, q}) # p /\ FreshPriv({p, q}) # q
<1>1. \E r \in X448Priv : r \notin {}
  BY HybridAssumption
<1>2. \A p, q \in X448Priv : \E r \in X448Priv : r \notin {p, q}
  BY HybridAssumption
<1>3. \A p \in X448Priv : \E r \in X448Priv : r \notin {p}
  BY <1>2
<1> QED BY <1>1, <1>2, <1>3 DEF FreshPriv

LEMMA FirstIsPhrase == FirstPhrase \in Phrase /\ FirstPhrase # Zero
BY HybridAssumption DEF FirstPhrase

(* Nothing of the sealed block changes.                                     *)
LEMMA SealedKept ==
  ASSUME Sealed, UNCHANGED <<block, damage>>, file_key'.built = file_key.built
  PROVE  Sealed'
<1>1. PICK pk, sk, ct, ss, x, y :
        /\ Exchanged(pk, sk, ct, ss, x, y)
        /\ Lies(sk, ct, x, y)
        /\ file_key.built = hybrid_kdf(ss, {x, y})
  BY DEF Sealed
<1>2. Lies(sk, ct, x, y)'
  BY <1>1 DEF Lies
<1>3. file_key'.built = hybrid_kdf(ss, {x, y})
  BY <1>1
<1> QED BY <1>1, <1>2, <1>3 DEF Sealed

(* A build that fails hands out nothing.                                    *)
LEMMA BuildFails ==
  ASSUME ContractInv, pc \in Building, NEW secret, Return(-1, secret, "built"),
         UNCHANGED <<block, file_key>>
  PROVE  ContractInv'
BY DEF ContractInv, Placed, Progress, Recovery, OpenContract, Return, Building,
       Opening

(* A step of the build that goes on.                                        *)
LEMMA BuildGoesOn ==
  ASSUME ContractInv, pc \in Building, pc' \in Building,
         DOMAIN block' = DOMAIN block,
         UNCHANGED <<phrase, damage, file_key>>, Progress'
  PROVE  ContractInv'
BY DEF ContractInv, Placed, Recovery, OpenContract, Building, Opening

LEMMA BuildStep ==
  ASSUME ClearInv, ContractInv,
         \/ DeriveToBuild \/ KyberKeypair \/ X448Keypair \/ Wrap
         \/ KyberEnc \/ EphemeralKeypair \/ EncDerive
  PROVE  ContractInv'
<1>1. CASE Fail("built") /\ pc \in Building
  BY <1>1, BuildFails DEF Fail
<1>2. CASE hk_Fail("built") /\ pc \in Building
  BY <1>2, BuildFails DEF hk_Fail
<1> USE DEF Goto, ContractInv
<1>3. CASE DeriveToBuild /\ ~Fail("built")
  <2>1. mem' = [mem EXCEPT !.secret.master = phrase]
        /\ phrase = FirstPhrase /\ pc = "build" /\ pc' = "kyber_keypair"
        /\ UNCHANGED <<phrase, damage, file_key, block>>
    BY <1>3 DEF DeriveToBuild, Placed, Building
  <2>2. Progress'
    BY <2>1 DEF ClearInv, Buffers, Secrets, Progress
  <2> QED BY <2>1, <2>2, BuildGoesOn DEF Building
<1>4. CASE KyberKeypair
  <2>1. PICK pair : IsKeyPair(pair.pk, pair.sk) /\
          mem' = [mem EXCEPT !.secret.kyber_sk = pair.sk, !.kyber_pk = pair.pk]
    BY <1>4 DEF KyberKeypair, IsKeyPair
  <2>2. mem'.secret = [mem.secret EXCEPT !.kyber_sk = pair.sk]
        /\ mem'.kyber_pk = pair.pk
    BY <2>1, SecretWritten DEF ClearInv
  <2>3. pc = "kyber_keypair" /\ pc' = "x448_keypair"
        /\ UNCHANGED <<phrase, damage, file_key, block>>
    BY <1>4 DEF KyberKeypair
  <2>4. Progress'
    BY <2>1, <2>2, <2>3 DEF ClearInv, Buffers, Secrets, Progress
  <2> QED BY <2>3, <2>4, BuildGoesOn DEF Building
<1>5. CASE X448Keypair /\ ~Fail("built")
  <2> DEFINE p == FreshPriv({})
  <2>1. mem' = [mem EXCEPT !.secret.x448_sk = p, !.x448_pk = X448Pub(p)]
        /\ pc = "x448_keypair" /\ pc' = "wrap"
        /\ UNCHANGED <<phrase, damage, file_key, block>>
    BY <1>5 DEF X448Keypair
  <2>2. p \in X448Priv
    BY FreshOne
  <2> HIDE DEF p
  <2>3. mem'.secret = [mem.secret EXCEPT !.x448_sk = p]
        /\ mem'.x448_pk = X448Pub(p)
        /\ mem'.kyber_pk = mem.kyber_pk
    BY <2>1, SecretWritten DEF ClearInv, Buffers
  <2>4. Progress'
    BY <2>1, <2>2, <2>3 DEF ClearInv, Buffers, Secrets, Progress
  <2> QED BY <2>1, <2>4, BuildGoesOn DEF Building
<1>6. CASE Wrap
  <2>1. block' = [block EXCEPT !.wrapped =
                   [master |-> mem.secret.master,
                    kyber_sk |-> mem.secret.kyber_sk,
                    x448_sk |-> mem.secret.x448_sk]]
        /\ pc = "wrap" /\ pc' = "kyber_enc"
        /\ UNCHANGED <<phrase, damage, file_key, mem>>
    BY <1>6 DEF Wrap
  <2>2. block'.wrapped = [master |-> FirstPhrase,
                          kyber_sk |-> mem.secret.kyber_sk,
                          x448_sk |-> mem.secret.x448_sk]
        /\ DOMAIN block' = DOMAIN block
    BY <2>1 DEF Placed, Progress
  <2>3. Progress'
    BY <2>1, <2>2 DEF Progress
  <2> QED BY <2>1, <2>2, <2>3, BuildGoesOn DEF Building
<1>7. CASE KyberEnc
  <2>1. PICK e : IsEncapsulation(mem.kyber_pk, e.ct, e.ss) /\
          mem' = [mem EXCEPT !.secret.ss_kyber = e.ss, !.ct_kyber = e.ct]
    BY <1>7 DEF KyberEnc, IsEncapsulation
  <2>2. mem'.secret = [mem.secret EXCEPT !.ss_kyber = e.ss]
        /\ mem'.ct_kyber = e.ct
        /\ mem'.kyber_pk = mem.kyber_pk /\ mem'.x448_pk = mem.x448_pk
    BY <2>1, SecretWritten DEF ClearInv, Buffers
  <2>3. pc = "kyber_enc" /\ pc' = "eph_keypair"
        /\ UNCHANGED <<phrase, damage, file_key, block>>
    BY <1>7 DEF KyberEnc
  <2>4. Progress'
    BY <2>1, <2>2, <2>3 DEF ClearInv, Buffers, Secrets, Progress
  <2> QED BY <2>3, <2>4, BuildGoesOn DEF Building
<1>8. CASE EphemeralKeypair /\ ~hk_Fail("built")
  <2> DEFINE p == FreshPriv({mem.secret.x448_sk})
  <2>1. mem' = [mem EXCEPT !.secret.eph_priv = p, !.eph_pub = X448Pub(p)]
        /\ pc = "eph_keypair" /\ pc' = "enc_derive"
        /\ UNCHANGED <<phrase, damage, file_key, block>>
    BY <1>8 DEF EphemeralKeypair
  <2>2. p \in X448Priv /\ p # mem.secret.x448_sk
    BY <2>1, FreshOne DEF Progress
  <2> HIDE DEF p
  <2>3. mem'.secret = [mem.secret EXCEPT !.eph_priv = p]
        /\ mem'.eph_pub = X448Pub(p)
        /\ mem'.kyber_pk = mem.kyber_pk /\ mem'.x448_pk = mem.x448_pk
        /\ mem'.ct_kyber = mem.ct_kyber
    BY <2>1, SecretWritten DEF ClearInv, Buffers
  <2>4. Progress'
    BY <2>1, <2>2, <2>3 DEF ClearInv, Buffers, Secrets, Progress
  <2> QED BY <2>1, <2>4, BuildGoesOn DEF Building
<1>9. CASE EncDerive /\ ~hk_Fail("built")
  <2> DEFINE x == x448_scalarmult(mem.secret.eph_priv, mem.x448_pk)
  <2>1. mem' = [mem EXCEPT !.secret.ss_x = x]
        /\ pc = "enc_derive" /\ pc' = "mix"
        /\ UNCHANGED <<phrase, damage, file_key, block>>
    BY <1>9 DEF EncDerive
  <2>2. x = {mem.secret.x448_sk, mem.secret.eph_priv}
    BY <2>1 DEF Progress, x448_scalarmult, X448Pub
  <2> HIDE DEF x
  <2>3. /\ mem'.secret = [mem.secret EXCEPT !.ss_x = x]
        /\ mem'.eph_pub = mem.eph_pub /\ mem'.ct_kyber = mem.ct_kyber
        /\ mem'.kyber_pk = mem.kyber_pk /\ mem'.x448_pk = mem.x448_pk
    BY <2>1, SharedWritten DEF ClearInv
  <2>4. Progress'
    BY <2>1, <2>2, <2>3 DEF ClearInv, Buffers, Secrets, Progress
  <2> QED BY <2>1, <2>4, BuildGoesOn DEF Building
<1> QED BY <1>1, <1>2, <1>3, <1>4, <1>5, <1>6, <1>7, <1>8, <1>9
        DEF DeriveToBuild, X448Keypair, EphemeralKeypair, EncDerive, Building

LEMMA MixStep ==
  ASSUME ClearInv, ContractInv, Mix
  PROVE  ContractInv'
<1> USE DEF ContractInv
<1>1. pc = "mix" /\ pc \in Building
  BY DEF Mix, Building
<1> PICK pk, sk, ct, ss, x, y :
      /\ pk = mem.kyber_pk /\ sk = mem.secret.kyber_sk /\ ct = mem.ct_kyber
      /\ ss = mem.secret.ss_kyber /\ x = mem.secret.x448_sk
      /\ y = mem.secret.eph_priv
  OBVIOUS
<1>2. mem.secret.ss_x = {x, y}
  BY <1>1 DEF Progress
<1>3. /\ file_key' = [file_key EXCEPT !.built = hybrid_kdf(ss, {x, y})]
      /\ block' = [block EXCEPT !.ct_kyber = mem.ct_kyber,
                                !.eph_pub = mem.eph_pub]
      /\ pc' = "built" /\ ret' = 0 /\ UNCHANGED <<phrase, damage>>
  BY <1>2 DEF Mix, Return
<1>4. /\ DOMAIN block' = DOMAIN block /\ DOMAIN file_key' = DOMAIN file_key
      /\ block'.wrapped = block.wrapped /\ block'.ct_kyber = ct
      /\ block'.eph_pub = mem.eph_pub
      /\ file_key'.opened = file_key.opened
      /\ file_key'.built = hybrid_kdf(ss, {x, y})
  BY <1>3 DEF Placed
<1>5. /\ IsKeyPair(pk, sk) /\ x \in X448Priv
      /\ block.wrapped = [master |-> FirstPhrase, kyber_sk |-> sk, x448_sk |-> x]
      /\ IsEncapsulation(pk, ct, ss)
      /\ y \in X448Priv /\ y # x /\ mem.eph_pub = X448Pub(y)
  BY <1>1 DEF Progress
<1>6. phrase = FirstPhrase /\ damage = "none" /\ file_key.opened = Zero
  BY <1>1 DEF Placed
<1>7. Exchanged(pk, sk, ct, ss, x, y)
  BY <1>5 DEF Exchanged
<1>8. Lies(sk, ct, x, y)'
  BY <1>3, <1>4, <1>5, <1>6 DEF Lies
<1>9. Sealed'
  BY <1>4, <1>7, <1>8 DEF Sealed
<1> QED BY <1>3, <1>4, <1>6, <1>9
        DEF Placed, Progress, Recovery, OpenContract, Building, Opening

LEMMA StoreStep ==
  ASSUME ClearInv, ContractInv, Store
  PROVE  ContractInv'
<1> USE DEF ContractInv
<1>1. /\ pc = "built" /\ ret = 0 /\ pc' = "open" /\ phrase' \in Phrase
      /\ UNCHANGED <<mem, file_key>>
  BY DEF Store
<1>2. damage = "none" /\ Sealed
  BY <1>1 DEF Placed, Recovery
<1>3. PICK pk, sk, ct, ss, x, y :
        /\ Exchanged(pk, sk, ct, ss, x, y)
        /\ Lies(sk, ct, x, y)
        /\ file_key.built = hybrid_kdf(ss, {x, y})
  BY <1>2 DEF Sealed
<1>4. /\ DOMAIN block = {"wrapped", "ct_kyber", "eph_pub"}
      /\ DOMAIN block.wrapped = {"master", "kyber_sk", "x448_sk"}
      /\ block.wrapped.master = FirstPhrase
      /\ block.wrapped.kyber_sk = sk /\ block.wrapped.x448_sk = x
      /\ block.ct_kyber = ct /\ block.eph_pub = X448Pub(y)
      /\ block.eph_pub.public = y
  BY <1>2, <1>3 DEF Lies, Placed, X448Pub
<1>5. PICK stored \in StoredAs : damage' = stored[1] /\ block' = stored[2]
  BY DEF Store
<1>6. x \in X448Priv /\ y \in X448Priv
  BY <1>3 DEF Exchanged
<1>7. Lies(sk, ct, x, y)' /\ DOMAIN block' = DOMAIN block
  <2>1. CASE stored = <<"none", block>>
    BY <1>2, <1>3, <1>5, <2>1 DEF Lies
  <2>2. CASE stored = <<"wrapped", [block EXCEPT !.wrapped.master = Zero]>>
    BY <1>4, <1>5, <2>2 DEF Lies
  <2>3. CASE stored = <<"eph_pub", [block EXCEPT !.eph_pub = X448Pub(
                          FreshPriv({block.wrapped.x448_sk,
                                     block.eph_pub.public}))]>>
    BY <1>4, <1>5, <1>6, <2>3, FreshOne DEF Lies
  <2>4. CASE stored = <<"low_order", [block EXCEPT !.eph_pub = X448Pub(LowOrder)]>>
    BY <1>4, <1>5, <2>4 DEF Lies
  <2>5. CASE \E i \in Flips :
          stored = <<"ct_kyber", [block EXCEPT !.ct_kyber[i] = (@ + 1) % 256]>>
    <3>1. PICK i \in Flips :
            stored = <<"ct_kyber", [block EXCEPT !.ct_kyber[i] = (@ + 1) % 256]>>
      BY <2>5
    <3>2. /\ damage' = "ct_kyber" /\ DOMAIN block' = DOMAIN block
          /\ block'.wrapped = block.wrapped /\ block'.eph_pub = block.eph_pub
          /\ block'.ct_kyber = [ct EXCEPT ![i] = (@ + 1) % 256]
      BY <1>4, <1>5, <3>1
    <3>3. block'.ct_kyber \in Damaged(ct)
      BY <3>2 DEF Damaged
    <3> QED BY <1>4, <3>2, <3>3 DEF Lies
  <2> QED BY <1>5, <2>1, <2>2, <2>3, <2>4, <2>5 DEF StoredAs
<1>8. Sealed'
  BY <1>1, <1>3, <1>7 DEF Sealed
<1> QED BY <1>1, <1>7, <1>8
        DEF Placed, Progress, Recovery, OpenContract, Building, Opening

(* A call that fails in the open hands out nothing; it was damaged, or its  *)
(* passphrase wrong, or a library call failed.                              *)
LEMMA OpenFails ==
  ASSUME ContractInv, pc \in Opening, NEW secret, Return(-1, secret, "opened"),
         UNCHANGED <<block, file_key>>,
         faulty' \/ damage # "none" \/ phrase # FirstPhrase
  PROVE  ContractInv'
<1>1. file_key.opened = Zero
  BY DEF ContractInv, Placed, Opening
<1> QED BY <1>1 DEF ContractInv, Placed, Progress, Recovery, OpenContract,
           Return,
                    Building, Opening, FirstPhrase

LEMMA DeriveStep ==
  ASSUME ClearInv, ContractInv, DeriveToOpen
  PROVE  ContractInv'
<1> USE DEF ContractInv
<1>1. pc = "open" /\ pc \in Opening /\ Sealed
  BY DEF DeriveToOpen, Opening, Recovery
<1>2. CASE Fail("opened")
  BY <1>1, <1>2, OpenFails DEF Fail
<1>3. CASE ~Fail("opened")
  <2>1. /\ mem' = [mem EXCEPT !.secret.master = phrase] /\ pc' = "unwrap"
        /\ UNCHANGED <<phrase, damage, block, file_key>>
    BY <1>3 DEF DeriveToOpen, Goto
  <2>2. Sealed'
    BY <1>1, <2>1, SealedKept
  <2>3. mem'.secret.master = phrase
    BY <2>1 DEF ClearInv, Buffers, Secrets
  <2> QED BY <1>1, <2>1, <2>2, <2>3
          DEF Placed, Progress, Recovery, OpenContract, Building, Opening
<1> QED BY <1>2, <1>3

LEMMA UnwrapStep ==
  ASSUME ClearInv, ContractInv, Unwrap
  PROVE  ContractInv'
<1> USE DEF ContractInv
<1>1. /\ pc = "unwrap" /\ pc \in Opening /\ Sealed /\ mem.secret.master = phrase
      /\ phrase \in Phrase /\ phrase # Zero
      /\ UNCHANGED <<phrase, damage, block, file_key>>
  BY HybridAssumption DEF Unwrap, Opening, Recovery, Placed, Goto, Return
<1>2. block.wrapped.master = IF damage = "wrapped" THEN Zero ELSE FirstPhrase
  BY <1>1 DEF Sealed, Lies
<1>3. CASE Unwrapped
  <2>1. damage # "wrapped" /\ phrase = FirstPhrase
    BY <1>1, <1>2, <1>3, FirstIsPhrase DEF Unwrapped
  <2>2. mem'.secret = [mem.secret EXCEPT !.kyber_sk = block.wrapped.kyber_sk,
                                         !.x448_sk = block.wrapped.x448_sk]
        /\ pc' = "kyber_dec"
    BY <1>3, KeysUnwrapped DEF Unwrap, ClearInv, Goto
  <2>3. /\ mem'.secret.kyber_sk = block'.wrapped.kyber_sk
        /\ mem'.secret.x448_sk = block'.wrapped.x448_sk
    BY <1>1, <2>2 DEF ClearInv, Buffers, Secrets
  <2>4. Sealed'
    BY <1>1, SealedKept
  <2> QED BY <1>1, <2>1, <2>2, <2>3, <2>4
          DEF Placed, Progress, Recovery, OpenContract, Building, Opening
<1>4. CASE ~Unwrapped
  <2>1. damage # "none" \/ phrase # FirstPhrase
    BY <1>1, <1>2, <1>4 DEF Unwrapped
  <2> QED BY <1>1, <1>4, <2>1, OpenFails DEF Unwrap
<1> QED BY <1>3, <1>4

LEMMA DecStep ==
  ASSUME ClearInv, ContractInv, KyberDec
  PROVE  ContractInv'
<1> USE DEF ContractInv
<1>1. /\ pc = "kyber_dec" /\ Sealed /\ damage # "wrapped"
         /\ phrase = FirstPhrase
      /\ mem.secret.kyber_sk = block.wrapped.kyber_sk
      /\ mem.secret.x448_sk = block.wrapped.x448_sk
      /\ UNCHANGED <<phrase, damage, block, file_key>> /\ pc' = "dec_derive"
      /\ mem' = [mem EXCEPT !.secret.ss_kyber =
                    crypto_kem_dec(block.ct_kyber, mem.secret.kyber_sk)]
  BY DEF KyberDec, Opening, Recovery, Goto
<1>2. /\ mem'.secret.kyber_sk = mem.secret.kyber_sk
      /\ mem'.secret.x448_sk = mem.secret.x448_sk
      /\ mem'.secret.ss_kyber = crypto_kem_dec(block.ct_kyber, mem.secret.kyber_sk)
  BY <1>1 DEF ClearInv, Buffers, Secrets
<1>3. Sealed'
  BY <1>1, SealedKept
<1> QED BY <1>1, <1>2, <1>3
        DEF Placed, Progress, Recovery, OpenContract, Building, Opening

(* What the decapsulation made of the block.                                *)
LEMMA SealedDecapsulated ==
  ASSUME ContractInv, KyberWorks, pc \in {"dec_derive", "recover"}
  PROVE  ImplicitRejection
<1> USE DEF ContractInv
<1>1. /\ Sealed /\ mem.secret.kyber_sk = block.wrapped.kyber_sk
      /\ mem.secret.ss_kyber = crypto_kem_dec(block.ct_kyber, mem.secret.kyber_sk)
  BY DEF Recovery, Opening
<1>2. PICK pk, sk, ct, ss, x, y :
        /\ Exchanged(pk, sk, ct, ss, x, y)
        /\ Lies(sk, ct, x, y)
        /\ file_key.built = hybrid_kdf(ss, {x, y})
  BY <1>1 DEF Sealed
<1>3. PICK random \in KeyRandom, z \in ZRandom :
        /\ pk = crypto_kem_keypair(random, z).pk
        /\ sk = crypto_kem_keypair(random, z).sk
  BY <1>2 DEF Exchanged, IsKeyPair
<1>4. PICK e \in EncRandom : /\ ct = crypto_kem_enc(pk, e).ct
                             /\ ss = crypto_kem_enc(pk, e).ss
  BY <1>2 DEF Exchanged, IsEncapsulation
<1>5. file_key.built[1] = ss
  BY <1>2 DEF hybrid_kdf
<1>6. mem.secret.kyber_sk = sk
  BY <1>1, <1>2 DEF Lies
<1>7. CASE damage = "ct_kyber"
  <2>1. block.ct_kyber \in Damaged(ct)
    BY <1>2, <1>7 DEF Lies
  <2>2. /\ crypto_kem_dec(block.ct_kyber, sk)
              = kdf(SkZ(sk) \o hash_h(block.ct_kyber))
        /\ crypto_kem_dec(block.ct_kyber, sk) # ss
    BY <1>3, <1>4, <2>1, ExchangeRejects DEF KyberWorks
  <2> QED BY <1>1, <1>5, <1>6, <1>7, <2>2 DEF ImplicitRejection
<1>8. CASE damage # "ct_kyber"
  <2>1. block.ct_kyber = ct
    BY <1>2, <1>8 DEF Lies
  <2>2. crypto_kem_dec(ct, sk) = ss
    BY <1>3, <1>4, ExchangeAgrees DEF KyberWorks
  <2> QED BY <1>1, <1>5, <1>6, <1>8, <2>1, <2>2 DEF ImplicitRejection
<1> QED BY <1>7, <1>8

(* The share's own half of the exchange; a point of low order has none.     *)
LEMMA DecDeriveStep ==
  ASSUME ClearInv, ContractInv, DecDerive
  PROVE  ContractInv'
<1> USE DEF ContractInv
<1>1. /\ pc = "dec_derive" /\ pc \in Opening /\ Sealed /\ phrase = FirstPhrase
      /\ damage # "wrapped" /\ file_key.opened = Zero
      /\ mem.secret.kyber_sk = block.wrapped.kyber_sk
      /\ mem.secret.x448_sk = block.wrapped.x448_sk
      /\ mem.secret.ss_kyber = crypto_kem_dec(block.ct_kyber, mem.secret.kyber_sk)
  BY DEF DecDerive, Opening, Recovery, Placed
<1>2. CASE hk_Fail("opened")
  BY <1>1, <1>2, OpenFails DEF hk_Fail
<1>3. CASE block.eph_pub = X448Pub(LowOrder) /\ ~hk_Fail("opened")
  <2>1. PICK sk, ct, x, y : Lies(sk, ct, x, y) /\ y \in X448Priv
    BY <1>1 DEF Sealed, Exchanged
  <2>2. damage # "none"
    BY <1>3, <2>1, HybridAssumption DEF Lies, X448Pub
  <2> QED BY <1>1, <1>3, <2>2, OpenFails DEF DecDerive
<1>4. CASE block.eph_pub # X448Pub(LowOrder) /\ ~hk_Fail("opened")
  <2> DEFINE shared == x448_scalarmult(mem.secret.x448_sk, block.eph_pub)
  <2>1. /\ mem' = [mem EXCEPT !.secret.ss_x = shared] /\ pc' = "recover"
        /\ UNCHANGED <<phrase, damage, block, file_key>>
    BY <1>4 DEF DecDerive, Goto
  <2> HIDE DEF shared
  <2>2. mem'.secret = [mem.secret EXCEPT !.ss_x = shared]
    BY <2>1, SharedWritten DEF ClearInv
  <2>3. /\ mem'.secret.ss_x = shared
        /\ mem'.secret.kyber_sk = mem.secret.kyber_sk
        /\ mem'.secret.x448_sk = mem.secret.x448_sk
        /\ mem'.secret.ss_kyber = mem.secret.ss_kyber
    BY <2>2 DEF ClearInv, Buffers, Secrets
  <2>4. Sealed'
    BY <1>1, <2>1, SealedKept
  <2>5. shared = x448_scalarmult(mem'.secret.x448_sk, block'.eph_pub)
    BY <2>1, <2>3 DEF shared
  <2> QED BY <1>1, <1>4, <2>1, <2>3, <2>4, <2>5
          DEF Placed, Progress, Recovery, OpenContract, Building, Opening
<1> QED BY <1>2, <1>3, <1>4

LEMMA RecoverStep ==
  ASSUME ClearInv, ContractInv, KyberWorks, Recover
  PROVE  ContractInv'
<1> USE DEF ContractInv
<1>1. /\ pc = "recover" /\ pc \in Opening /\ Sealed /\ phrase = FirstPhrase
      /\ damage # "wrapped" /\ mem.secret.x448_sk = block.wrapped.x448_sk
      /\ file_key.opened = Zero /\ DOMAIN file_key = {"built", "opened"}
      /\ block.eph_pub # X448Pub(LowOrder)
      /\ mem.secret.ss_x = x448_scalarmult(mem.secret.x448_sk, block.eph_pub)
  BY DEF Recover, Opening, Recovery, Placed
<1>2. PICK pk, sk, ct, ss, x, y :
        /\ Exchanged(pk, sk, ct, ss, x, y)
        /\ Lies(sk, ct, x, y)
        /\ file_key.built = hybrid_kdf(ss, {x, y})
  BY <1>1 DEF Sealed
<1>3. mem.secret.x448_sk = x /\ x \in X448Priv /\ y \in X448Priv /\ x # y
  BY <1>1, <1>2 DEF Lies, Exchanged
<1>4. file_key.built[1] = ss
  BY <1>2 DEF hybrid_kdf
<1>5. IF damage = "ct_kyber" THEN mem.secret.ss_kyber # ss
                            ELSE mem.secret.ss_kyber = ss
  BY <1>1, <1>4, SealedDecapsulated DEF ImplicitRejection
<1> DEFINE shared == mem.secret.ss_x
           secret == mem.secret.ss_kyber
<1>6. /\ file_key' = [file_key EXCEPT !.opened = hybrid_kdf(secret, shared)]
      /\ ret' = 0 /\ pc' = "opened" /\ UNCHANGED <<phrase, damage, block>>
  BY DEF Recover, Return
<1>7. shared = {x, y} <=> damage # "eph_pub"
  <2>1. CASE damage = "eph_pub"
    <3>1. PICK p \in X448Priv :
            p # x /\ p # y /\ block.eph_pub = X448Pub(p)
      BY <1>2, <2>1 DEF Lies
    <3>2. shared = {x, p}
      BY <1>1, <1>3, <3>1 DEF x448_scalarmult, X448Pub
    <3> QED BY <2>1, <3>1, <3>2
  <2>2. CASE damage # "eph_pub"
    <3>1. block.eph_pub = X448Pub(y)
      BY <1>1, <1>2, <2>2 DEF Lies
    <3> QED BY <1>1, <1>3, <2>2, <3>1 DEF x448_scalarmult, X448Pub
  <2> QED BY <2>1, <2>2
<1>8. damage # "low_order"
  BY <1>1, <1>2 DEF Lies
<1> HIDE DEF shared, secret
<1>9. hybrid_kdf(secret, shared) = hybrid_kdf(ss, {x, y})
        <=> secret = ss /\ shared = {x, y}
  BY DEF hybrid_kdf
<1>10. secret = ss /\ shared = {x, y} <=> damage = "none"
  BY <1>1, <1>2, <1>5, <1>7, <1>8 DEF Lies, secret
<1>11. file_key'.opened = file_key'.built <=> damage = "none"
  BY <1>1, <1>2, <1>6, <1>9, <1>10
<1>12. OpenContract'
  BY <1>1, <1>6, <1>11 DEF OpenContract, FirstPhrase
<1>13. DOMAIN file_key' = DOMAIN file_key
  BY <1>6
<1> QED BY <1>1, <1>6, <1>12, <1>13 DEF Placed, Progress, Recovery, Building,
           Opening

LEMMA ContractStep ==
  ASSUME KyberWorks PROVE ClearInv /\ ContractInv /\ [Next]_vars => ContractInv'
<1> SUFFICES ASSUME ClearInv, ContractInv, [Next]_vars PROVE ContractInv'
  OBVIOUS
<1>1. CASE UNCHANGED vars
  <2>1. UNCHANGED <<pc, ret, phrase, mem, block, file_key, damage, faulty>>
    BY <1>1 DEF vars
  <2>2. Sealed => Sealed'
    BY <2>1, SealedKept
  <2> QED BY <2>1, <2>2 DEF ContractInv, Placed, Progress, Recovery,
             OpenContract
<1> QED BY <1>1, BuildStep, MixStep, StoreStep, DeriveStep, UnwrapStep, DecStep,
           DecDeriveStep, RecoverStep DEF Next

LEMMA ContractInvariance ==
  ASSUME KyberWorks PROVE Spec => [](ClearInv /\ ContractInv)
<1>1. Init => ClearInv
  BY DEF Init, ClearInv, Buffers, Secrets, Held, Steps, Cleared, Pending
<1>2. Init => ContractInv
  BY FirstIsPhrase DEF Init, ContractInv, Placed, Progress, Recovery,
     OpenContract,
                       Building, Opening, FirstPhrase
<1> QED BY <1>1, <1>2, ClearStep, ContractStep, PTL DEF Spec

(* Where Kyber's encryption does what is asked of it, hybrid_open hands out *)
(* the key of hybrid_build exactly when the block is as it was written and  *)
(* the passphrase is the same, and nothing at all when it fails: every      *)
(* library call failing or not, every damage of the block.                  *)
THEOREM OpenKeepsContract == ASSUME KyberWorks PROVE Spec => []OpenContract
<1>1. ContractInv => OpenContract
  BY DEF ContractInv
<1> QED BY <1>1, ContractInvariance, PTL

(* Where Kyber's encryption does what is asked of it, crypto_kem_dec finds  *)
(* the parts of the secret key again, re-encrypts, and answers an intact    *)
(* ciphertext with the encapsulated secret, a damaged one with the secret   *)
(* of z and the ciphertext, a different one (kem.c).                        *)
THEOREM RejectionIsImplicit ==
  ASSUME KyberWorks PROVE Spec => []ImplicitRejection
<1>1. ContractInv => ImplicitRejection
  <2>1. CASE pc \in {"dec_derive", "recover"}
    BY <2>1, SealedDecapsulated
  <2>2. CASE pc \notin {"dec_derive", "recover"}
    BY <2>2 DEF ImplicitRejection
  <2> QED BY <2>1, <2>2
<1> QED BY <1>1, ContractInvariance, PTL

---------------------------------------------------------------------------
(* The reductions of reduce.c.                                              *)

(* The numbers from lo to hi.                                               *)
Within(x, lo, hi) == x \in Int /\ lo <= x /\ x <= hi

LEMMA Literals ==
  /\ 2^1 = 2 /\ 2^5 = 32 /\ 2^11 = 2048 /\ 2^15 = 32768 /\ 2^20 = 1048576
  /\ 2^22 = 4194304 /\ 2^25 = 33554432 /\ 2^26 = 67108864 /\ 2^27 = 134217728
  /\ 2^28 = 268435456
OBVIOUS

LEMMA Int16 ==
  ASSUME NEW x \in Int
  PROVE  /\ Within(int16(x), -32768, 32767)
         /\ \E j \in Int : x = int16(x) + 65536 * j
         /\ Within(x, -32768, 32767) => int16(x) = x
<1>1. /\ Within(int16(x), -32768, 32767)
      /\ Within(x, -32768, 32767) => int16(x) = x
  BY DEF int16, Within
<1>2. x = int16(x) + 65536 * ((x + 32768) \div 65536)
  BY DEF int16
<1>3. (x + 32768) \div 65536 \in Int
  OBVIOUS
<1> QED BY <1>1, <1>2, <1>3

LEMMA Barrett ==
  ASSUME NEW a, Within(a, -32768, 32767)
  PROVE  /\ Within(barrett_reduce(a), -1664, 1664)
         /\ Congruent(barrett_reduce(a), a)
<1> DEFINE t == (20159 * a + 33554432) \div 67108864
<1>1. /\ Within(t, -10, 10)
      /\ 67108864 * t <= 20159 * a + 33554432
      /\ 20159 * a + 33554432 < 67108864 * (t + 1)
  BY DEF Within
<1>2. barrett_reduce(a) = int16(a - int16(t * 3329))
  BY Literals DEF barrett_reduce, KYBER_Q
<1> HIDE DEF t
<1>3. Within(a - t * 3329, -1664, 1664) /\ t * 3329 \in Int
  BY <1>1 DEF Within
<1> DEFINE p == t * 3329
<1>4. p \in Int /\ a - p = a - t * 3329
  BY <1>3
<1> HIDE DEF p
(* t * q may not fit in an int16_t; the difference does again.              *)
<1>5. int16(a - int16(p)) = a - p
  <2> DEFINE w == int16(p)
             d == a - w
  <2>1. Within(w, -32768, 32767) /\ \E j \in Int : p = w + 65536 * j
    BY <1>4, Int16
  <2> HIDE DEF w
  <2>2. d \in Int /\ \E j \in Int : d = (a - p) + 65536 * j
    <3>1. PICK j \in Int : p = w + 65536 * j
      BY <2>1
    <3>2. a \in Int /\ w \in Int
      BY <2>1 DEF Within
    <3> QED BY <1>4, <2>1, <3>1, <3>2
  <2> HIDE DEF d
  <2>3. Within(int16(d), -32768, 32767)
        /\ \E k \in Int : d = int16(d) + 65536 * k
    BY <2>2, Int16
  <2>4. int16(d) = a - p
    BY <1>3, <1>4, <2>2, <2>3 DEF Within
  <2> QED BY <2>4 DEF d, w
<1>6. (a - t * 3329 - a) % 3329 = 0
  BY <1>1 DEF Within
<1> QED BY <1>2, <1>3, <1>5, <1>6 DEF Congruent, KYBER_Q, p

LEMMA Montgomery ==
  ASSUME NEW a, Within(a, -109084672, 109084671)
  PROVE  /\ Within(montgomery_reduce(a), -3328, 3328)
         /\ Congruent(montgomery_reduce(a) * 65536, a)
<1> DEFINE l == int16(a)
           t == int16(l * (-3327))
           m == (a - t * 3329) \div 65536
<1>2. montgomery_reduce(a) = m
  BY DEF montgomery_reduce, QINV, KYBER_Q
<1>3. Within(l, -32768, 32767) /\ \E j \in Int : a = l + 65536 * j
  BY Int16 DEF Within
<1> HIDE DEF l
<1>4. l * (-3327) \in Int
  BY <1>3 DEF Within
<1>5. Within(t, -32768, 32767) /\ \E k \in Int : l * (-3327) = t + 65536 * k
  BY <1>4, Int16
<1> HIDE DEF t
<1>6. PICK j \in Int, k \in Int :
        a = l + 65536 * j /\ l * (-3327) = t + 65536 * k
  BY <1>3, <1>5
<1>7. a - t * 3329 = 65536 * (j + 3329 * k + 169 * l)
  BY <1>3, <1>5, <1>6 DEF Within
<1>8. m = j + 3329 * k + 169 * l /\ m \in Int
  BY <1>3, <1>6, <1>7 DEF Within
<1> HIDE DEF m
<1>9. 65536 * m = a - t * 3329
  BY <1>3, <1>6, <1>7, <1>8 DEF Within
<1>10. Within(m, -3328, 3328)
  BY <1>5, <1>8, <1>9 DEF Within
<1>11. (m * 65536 - a) % 3329 = 0
  BY <1>5, <1>8, <1>9 DEF Within
<1> QED BY <1>2, <1>10, <1>11 DEF Congruent, KYBER_Q

---------------------------------------------------------------------------
(* Congruence modulo q.                                                     *)

LEMMA CongIs ==
  ASSUME NEW x \in Int, NEW y \in Int
  PROVE  Congruent(x, y) <=> \E k \in Int : x = y + 3329 * k
<1>1. ASSUME Congruent(x, y) PROVE \E k \in Int : x = y + 3329 * k
  <2>1. (x - y) % 3329 = 0
    BY <1>1 DEF Congruent, KYBER_Q
  <2>2. x = y + 3329 * ((x - y) \div 3329) /\ (x - y) \div 3329 \in Int
    BY <2>1
  <2> QED BY <2>2
<1>2. ASSUME NEW k \in Int, x = y + 3329 * k PROVE Congruent(x, y)
  BY <1>2 DEF Congruent, KYBER_Q
<1> QED BY <1>1, <1>2

Apart(x, y, k) == x = y + 3329 * k

LEMMA CongBy ==
  ASSUME NEW x \in Int, NEW y \in Int, NEW k \in Int, Apart(x, y, k)
  PROVE  Congruent(x, y)
BY CongIs DEF Apart

LEMMA CongSum ==
  ASSUME NEW x \in Int, NEW y \in Int, NEW u \in Int, NEW v \in Int,
         Congruent(x, y), Congruent(u, v)
  PROVE  Congruent(x + u, y + v) /\ Congruent(x - u, y - v)
<1>1. PICK k \in Int : x = y + 3329 * k
  BY CongIs
<1>2. PICK l \in Int : u = v + 3329 * l
  BY CongIs
<1> DEFINE X == x + u  Y == y + v  K == k + l
           V == x - u  W == y - v  L == k - l
<1>3. Apart(X, Y, K) /\ Apart(V, W, L)
  BY <1>1, <1>2 DEF Apart
<1>4. /\ X \in Int /\ Y \in Int /\ K \in Int
      /\ V \in Int /\ W \in Int /\ L \in Int
  OBVIOUS
<1> HIDE DEF X, Y, K, V, W, L
<1>5. Congruent(X, Y) /\ Congruent(V, W)
  BY <1>3, <1>4, CongBy
<1> QED BY <1>5 DEF X, Y, V, W

LEMMA CongProduct ==
  ASSUME NEW x \in Int, NEW y \in Int, NEW u \in Int, NEW v \in Int,
         Congruent(x, y), Congruent(u, v)
  PROVE  Congruent(x * u, y * v)
<1>1. PICK k \in Int : x = y + 3329 * k
  BY CongIs
<1>2. PICK l \in Int : u = v + 3329 * l
  BY CongIs
<1> DEFINE X == x * u  Y == y * v  K == k * v + l * y + 3329 * (k * l)
<1>3. Apart(X, Y, K)
  <2>1. (y + 3329 * k) * (v + 3329 * l)
          = y * v + 3329 * (k * v + l * y + 3329 * (k * l))
    OBVIOUS
  <2> QED BY <1>1, <1>2, <2>1 DEF Apart
<1>4. X \in Int /\ Y \in Int /\ K \in Int
  OBVIOUS
<1> HIDE DEF X, Y, K
<1>5. Congruent(X, Y)
  BY <1>3, <1>4, CongBy
<1> QED BY <1>5 DEF X, Y

LEMMA CongRefl == ASSUME NEW x \in Int PROVE Congruent(x, x)
BY DEF Congruent, KYBER_Q

LEMMA CongSym ==
  ASSUME NEW x \in Int, NEW y \in Int, Congruent(x, y) PROVE Congruent(y, x)
<1>1. PICK k \in Int : x = y + 3329 * k
  BY CongIs
<1>2. y = x + 3329 * (-k)
  BY <1>1
<1> QED BY <1>2, CongIs

LEMMA CongTrans ==
  ASSUME NEW x \in Int, NEW y \in Int, NEW z \in Int,
         Congruent(x, y), Congruent(y, z)
  PROVE  Congruent(x, z)
<1>1. PICK k \in Int : x = y + 3329 * k
  BY CongIs
<1>2. PICK l \in Int : y = z + 3329 * l
  BY CongIs
<1>3. x = z + 3329 * (k + l)
  BY <1>1, <1>2
<1> QED BY <1>3, CongIs, SMTT(30)

---------------------------------------------------------------------------
(* Sums of the n values of a function on 0..n-1.                            *)

Values(n) == [0..(n - 1) -> Int]

Partial(f, n) ==
  LET g[i \in 0..n] == IF i = 0 THEN 0 ELSE g[i - 1] + f[i - 1] IN g

Total(f, n) == Partial(f, n)[n]

IsPartial(g, f, n) ==
  /\ g \in [0..n -> Int]
  /\ g[0] = 0
  /\ \A i \in 0..(n - 1) : g[i + 1] = g[i] + f[i]

LEMMA PartialIs ==
  ASSUME NEW n \in Nat, NEW f \in Values(n)
  PROVE  IsPartial(Partial(f, n), f, n)
<1> DEFINE step == [m \in 1..n |-> [v \in Int |-> v + f[m - 1]]]
           G(g) == g = [i \in 0..n |-> IF i = 0 THEN 0 ELSE g[i - 1] + f[i - 1]]
<1>1. step \in [1..n -> [Int -> Int]]
  <2>1. \A m \in 1..n : f[m - 1] \in Int
    BY DEF Values
  <2> QED BY <2>1
<1>2. PICK g \in [0..n -> Int] : Recurs(g, n, 0, step)
  <2> HIDE DEF step
  <2> DEFINE V == Int
  <2>1. 0 \in V /\ step \in [1..n -> [V -> V]]
    BY <1>1
  <2> HIDE DEF V
  <2>2. \E g \in [0..n -> V] : Recurs(g, n, 0, step)
    BY <2>1, Recursion
  <2> QED BY <2>2 DEF V
<1>3. g = [m \in 0..n |-> IF m = 0 THEN 0 ELSE step[m][g[m - 1]]]
  BY <1>2 DEF Recurs
<1>4. G(g)
  <2>1. \A m \in 1..n : g[m - 1] \in Int
        /\ step[m][g[m - 1]] = g[m - 1] + f[m - 1]
    BY <1>2
  <2> HIDE DEF step
  <2>2. \A i \in 0..n : g[i] = IF i = 0 THEN 0 ELSE g[i - 1] + f[i - 1]
    BY <1>3, <2>1
  <2>3. g = [i \in 0..n |-> g[i]]
    BY <1>2
  <2> QED BY <2>2, <2>3
<1>5. Partial(f, n) = CHOOSE h : G(h)
  BY DEF Partial
<1>6. G(Partial(f, n))
  <2> HIDE DEF G
  <2> QED BY <1>4, <1>5
<1> DEFINE p == Partial(f, n)
<1>7. p = [i \in 0..n |-> IF i = 0 THEN 0 ELSE p[i - 1] + f[i - 1]]
  BY <1>6
<1> HIDE DEF p
<1>8. DOMAIN p = 0..n /\ p[0] = 0
  BY <1>7
<1>9. \A i \in 0..(n - 1) : p[i + 1] = p[i] + f[i]
  <2> TAKE i \in 0..(n - 1)
  <2>1. i + 1 \in 0..n /\ i + 1 # 0 /\ (i + 1) - 1 = i
    OBVIOUS
  <2>2. p[i + 1] = p[(i + 1) - 1] + f[(i + 1) - 1]
    BY <1>7, <2>1
  <2> QED BY <2>1, <2>2
<1>10. \A i \in 0..n : p[i] \in Int
  <2> DEFINE S == {i \in 0..n : p[i] \in Int}
  <2>1. 0 \in S /\ \A i \in 0..(n - 1) : i \in S => i + 1 \in S
    BY <1>8, <1>9 DEF Values
  <2> HIDE DEF S
  <2>2. \A i \in 0..n : i \in S
    BY <2>1, UpTo
  <2> QED BY <2>2 DEF S
<1>11. p \in [0..n -> Int]
  BY <1>7, <1>10
<1> QED BY <1>8, <1>9, <1>11 DEF IsPartial, p

LEMMA TotalInt ==
  ASSUME NEW n \in Nat, NEW f \in Values(n) PROVE Total(f, n) \in Int
BY PartialIs DEF Total, IsPartial

(* Values that are congruent have congruent sums.                           *)
LEMMA TotalCong ==
  ASSUME NEW n \in Nat, NEW f \in Values(n), NEW g \in Values(n),
         \A i \in 0..(n - 1) : Congruent(f[i], g[i])
  PROVE  Congruent(Total(f, n), Total(g, n))
<1> DEFINE p == Partial(f, n)
           r == Partial(g, n)
           S == {i \in 0..n : Congruent(p[i], r[i])}
<1>1. IsPartial(p, f, n) /\ IsPartial(r, g, n)
  BY PartialIs
<1> HIDE DEF p, r
<1>2. 0 \in S
  BY <1>1, CongRefl DEF IsPartial
<1>3. ASSUME NEW i \in 0..(n - 1), i \in S PROVE i + 1 \in S
  <2>1. /\ p[i] \in Int /\ r[i] \in Int /\ f[i] \in Int /\ g[i] \in Int
        /\ p[i + 1] = p[i] + f[i] /\ r[i + 1] = r[i] + g[i]
        /\ Congruent(p[i], r[i]) /\ Congruent(f[i], g[i])
    BY <1>1, <1>3 DEF IsPartial, Values
  <2>2. Congruent(p[i] + f[i], r[i] + g[i])
    BY <2>1, CongSum
  <2> QED BY <2>1, <2>2
<1> HIDE DEF S
<1>4. \A i \in 0..n : i \in S
  BY <1>2, <1>3, UpTo
<1>5. n \in S
  BY <1>4
<1> QED BY <1>5 DEF S, Total, p, r

(* A sum, by its two halves.                                                *)
LEMMA TotalHalves ==
  ASSUME NEW h \in Nat, NEW f \in Values(2 * h), NEW g \in Values(h),
         \A i \in 0..(h - 1) : g[i] = f[i] + f[h + i]
  PROVE  Total(f, 2 * h) = Total(g, h)
<1> DEFINE p == Partial(f, 2 * h)
           r == Partial(g, h)
           S == {i \in 0..h : r[i] = p[i] + (p[h + i] - p[h])}
<1>1. IsPartial(p, f, 2 * h) /\ IsPartial(r, g, h)
  BY PartialIs
<1> HIDE DEF p, r
<1>2. 0 \in S
  BY <1>1 DEF IsPartial
<1>3. ASSUME NEW i \in 0..(h - 1), i \in S PROVE i + 1 \in S
  <2> DEFINE j == h + i
  <2>0. /\ i \in 0..h /\ h \in 0..2 * h /\ i \in 0..2 * h /\ j \in 0..2 * h
        /\ i \in 0..2 * h - 1 /\ j \in 0..2 * h - 1
    OBVIOUS
  <2> HIDE DEF j
  <2>1. /\ p[i] \in Int /\ p[j] \in Int /\ p[h] \in Int /\ r[i] \in Int
        /\ f[i] \in Int /\ f[j] \in Int
        /\ p[i + 1] = p[i] + f[i] /\ p[j + 1] = p[j] + f[j]
        /\ r[i + 1] = r[i] + g[i]
    BY <1>1, <2>0 DEF IsPartial, Values
  <2>2. r[i] = p[i] + (p[j] - p[h]) /\ g[i] = f[i] + f[j]
    BY <1>3 DEF j
  <2>3. r[i + 1] = p[i + 1] + (p[j + 1] - p[h])
    BY <2>1, <2>2
  <2>4. j + 1 = h + (i + 1) /\ i + 1 \in 0..h
    BY DEF j
  <2> QED BY <2>3, <2>4
<1> HIDE DEF S
<1>4. \A i \in 0..h : i \in S
  BY <1>2, <1>3, UpTo
<1>5. r[h] = p[h] + (p[h + h] - p[h])
  BY <1>4 DEF S
<1>6. p[h + h] = r[h]
  BY <1>1, <1>5 DEF IsPartial
<1> QED BY <1>6 DEF Total, p, r

(* The sum of f[i] + s * g[i].                                              *)
LEMMA TotalLinear ==
  ASSUME NEW n \in Nat, NEW f \in Values(n), NEW g \in Values(n),
         NEW s \in Int, NEW e \in Values(n),
         \A i \in 0..(n - 1) : e[i] = f[i] + s * g[i]
  PROVE  Total(e, n) = Total(f, n) + s * Total(g, n)
<1> DEFINE p == Partial(f, n)
           r == Partial(g, n)
           w == Partial(e, n)
           S == {i \in 0..n : w[i] = p[i] + s * r[i]}
<1>1. IsPartial(p, f, n) /\ IsPartial(r, g, n) /\ IsPartial(w, e, n)
  BY PartialIs
<1> HIDE DEF p, r, w
<1>2. 0 \in S
  BY <1>1 DEF IsPartial
<1>3. ASSUME NEW i \in 0..(n - 1), i \in S PROVE i + 1 \in S
  <2>0. i \in 0..n
    OBVIOUS
  <2>1. /\ p[i] \in Int /\ r[i] \in Int /\ w[i] \in Int
        /\ f[i] \in Int /\ g[i] \in Int
        /\ p[i + 1] = p[i] + f[i] /\ r[i + 1] = r[i] + g[i]
        /\ w[i + 1] = w[i] + e[i]
    BY <1>1, <2>0 DEF IsPartial, Values
  <2>2. w[i] = p[i] + s * r[i] /\ e[i] = f[i] + s * g[i]
    BY <1>3
  <2>3. s * (r[i] + g[i]) = s * r[i] + s * g[i]
    BY <2>1
  <2>4. s * r[i] \in Int /\ s * g[i] \in Int
    BY <2>1
  <2>5. w[i + 1] = p[i + 1] + s * r[i + 1]
    BY <2>1, <2>2, <2>3, <2>4
  <2> QED BY <2>5
<1> HIDE DEF S
<1>4. \A i \in 0..n : i \in S
  BY <1>2, <1>3, UpTo
<1>5. n \in S
  BY <1>4
<1> QED BY <1>5 DEF S, Total, p, r, w

---------------------------------------------------------------------------
(* Coefficient k of the product of two polynomials modulo X^m - c.          *)

CycTerms(x, y, m, c, k) ==
  [i \in 0..(m - 1) |-> IF i <= k THEN x[i] * y[k - i]
                                  ELSE c * (x[i] * y[m + k - i])]

Cyc(x, y, m, c, k) == Total(CycTerms(x, y, m, c, k), m)

LEMMA CycType ==
  ASSUME NEW m \in Nat, NEW x \in Values(m), NEW y \in Values(m),
         NEW c \in Int, NEW k \in 0..(m - 1)
  PROVE  CycTerms(x, y, m, c, k) \in Values(m) /\ Cyc(x, y, m, c, k) \in Int
<1>1. ASSUME NEW i \in 0..(m - 1)
      PROVE  (IF i <= k THEN x[i] * y[k - i] ELSE c * (x[i] * y[m + k - i])) \in Int
  <2>1. CASE i <= k
    <3>1. x[i] \in Int /\ y[k - i] \in Int
      BY <2>1 DEF Values
    <3> QED BY <2>1, <3>1
  <2>2. CASE ~(i <= k)
    <3>1. x[i] \in Int /\ y[m + k - i] \in Int
      BY <2>2 DEF Values
    <3>2. x[i] * y[m + k - i] \in Int
      BY <3>1
    <3> QED BY <2>2, <3>2
  <2> QED BY <2>1, <2>2
<1>2. CycTerms(x, y, m, c, k) \in Values(m)
  BY <1>1 DEF CycTerms, Values
<1> QED BY <1>2, TotalInt DEF Cyc

SameValues(x, y, m) == \A i \in 0..(m - 1) : Congruent(x[i], y[i])

LEMMA CycCong ==
  ASSUME NEW m \in Nat, NEW x \in Values(m), NEW y \in Values(m),
         NEW x2 \in Values(m), NEW y2 \in Values(m),
         NEW c \in Int, NEW c2 \in Int, NEW k \in 0..(m - 1),
         SameValues(x, x2, m), SameValues(y, y2, m), Congruent(c, c2)
  PROVE  Congruent(Cyc(x, y, m, c, k), Cyc(x2, y2, m, c2, k))
<1> DEFINE f == CycTerms(x, y, m, c, k)
           g == CycTerms(x2, y2, m, c2, k)
<1>1. f \in Values(m) /\ g \in Values(m)
  BY CycType
<1>2. ASSUME NEW i \in 0..(m - 1) PROVE Congruent(f[i], g[i])
  <2>1. CASE i <= k
    <3>1. /\ x[i] \in Int /\ y[k - i] \in Int /\ x2[i] \in Int
             /\ y2[k - i] \in Int
          /\ k - i \in 0..(m - 1)
      BY <2>1 DEF Values
    <3>2. Congruent(x[i], x2[i]) /\ Congruent(y[k - i], y2[k - i])
      BY <3>1 DEF SameValues
    <3>3. f[i] = x[i] * y[k - i] /\ g[i] = x2[i] * y2[k - i]
      BY <2>1 DEF CycTerms
    <3> QED BY <3>1, <3>2, <3>3, CongProduct
  <2>2. CASE ~(i <= k)
    <3> DEFINE j == m + k - i
    <3>1. j \in 0..(m - 1)
      BY <2>2
    <3> HIDE DEF j
    <3>2. x[i] \in Int /\ y[j] \in Int /\ x2[i] \in Int /\ y2[j] \in Int
      BY <3>1 DEF Values
    <3>3. Congruent(x[i], x2[i]) /\ Congruent(y[j], y2[j])
      BY <3>1 DEF SameValues
    <3>4. f[i] = c * (x[i] * y[j]) /\ g[i] = c2 * (x2[i] * y2[j])
      BY <2>2 DEF CycTerms, j
    <3> HIDE DEF f, g
    <3> DEFINE a == x[i] * y[j]  b == x2[i] * y2[j]
    <3>5. a \in Int /\ b \in Int
      BY <3>2
    <3>7. Congruent(a, b)
      BY <3>2, <3>3, CongProduct
    <3>6. f[i] = c * a /\ g[i] = c2 * b
      BY <3>4
    <3> HIDE DEF a, b
    <3> QED BY <3>5, <3>6, <3>7, CongProduct
  <2> QED BY <2>1, <2>2
<1> HIDE DEF f, g
<1>3. Congruent(Total(f, m), Total(g, m))
  BY <1>1, <1>2, TotalCong
<1> QED BY <1>3 DEF Cyc, f, g

---------------------------------------------------------------------------
(* X^(2h) - s^2 = (X^h - s) (X^h + s).  The remainder of a polynomial       *)
(* modulo X^h - s.                                                          *)

Rest(x, h, s) == [i \in 0..(h - 1) |-> x[i] + s * x[h + i]]

LEMMA RestType ==
  ASSUME NEW h \in Nat, NEW x \in Values(2 * h), NEW s \in Int
  PROVE  Rest(x, h, s) \in Values(h)
<1>1. ASSUME NEW i \in 0..(h - 1) PROVE x[i] + s * x[h + i] \in Int
  <2>1. x[i] \in Int /\ x[h + i] \in Int
    BY DEF Values
  <2> QED BY <2>1
<1> QED BY <1>1 DEF Rest, Values

(* One term of the remainder of the product is that of the product of the   *)
(* remainders.                                                              *)
LEMMA Expanded ==
  ASSUME NEW a \in Int, NEW b \in Int, NEW d \in Int, NEW e \in Int, NEW s \in Int
  PROVE  (a + s * b) * (d + s * e)
           = (a * d + (s * s) * (b * e)) + s * (a * e + b * d)
<1>1. (a + s * b) * (d + s * e) = a * d + a * (s * e) + (s * b) * d + (s * b) * (s * e)
  OBVIOUS
<1> QED BY <1>1

LEMMA LowTerm ==
  ASSUME NEW a \in Int, NEW b \in Int, NEW d \in Int, NEW e \in Int,
         NEW s \in Int, NEW c \in Int, Congruent(s * s, c)
  PROVE  Congruent((a * d + c * (b * e)) + s * (a * e + b * d),
                   (a + s * b) * (d + s * e))
<1> DEFINE be == b * e  ss == s * s  l == a * d  r == s * (a * e + b * d)
<1>1. be \in Int /\ ss \in Int /\ l \in Int /\ r \in Int /\ Congruent(c, ss)
  BY CongSym
<1>2. (a + s * b) * (d + s * e) = (l + ss * be) + r
  BY Expanded
<1> HIDE DEF be, ss, l, r
<1>3. Congruent(c * be, ss * be) /\ Congruent(l, l) /\ Congruent(r, r)
  BY <1>1, CongProduct, CongRefl
<1>4. c * be \in Int /\ ss * be \in Int /\ l + c * be \in Int
      /\ l + ss * be \in Int
  BY <1>1
<1>5. Congruent(l + c * be, l + ss * be)
  BY <1>1, <1>3, <1>4, CongSum
<1>6. Congruent((l + c * be) + r, (l + ss * be) + r)
  BY <1>1, <1>3, <1>4, <1>5, CongSum
<1> QED BY <1>2, <1>6 DEF be, ss, l, r

LEMMA HighTerm ==
  ASSUME NEW a \in Int, NEW b \in Int, NEW d \in Int, NEW e \in Int,
         NEW s \in Int, NEW c \in Int, Congruent(s * s, c)
  PROVE  Congruent((c * (a * e) + c * (b * d)) + s * (a * d + c * (b * e)),
                   s * ((a + s * b) * (d + s * e)))
<1> DEFINE t == a * e + b * d
           p == (a * d + c * (b * e)) + s * t
           r == (a + s * b) * (d + s * e)
           u == a * d + c * (b * e)
           ss == s * s
<1>1. t \in Int /\ p \in Int /\ r \in Int /\ u \in Int /\ ss \in Int
      /\ s * u \in Int
      /\ c * t \in Int /\ ss * t \in Int /\ s * p \in Int /\ s * r \in Int
  <2>1. /\ a * d \in Int /\ b * e \in Int /\ a * e \in Int /\ b * d \in Int
        /\ s * b \in Int /\ s * e \in Int
    OBVIOUS
  <2>2. t \in Int /\ u \in Int /\ ss \in Int
    BY <2>1
  <2>3. p \in Int /\ r \in Int
    BY <2>1, <2>2
  <2> QED BY <2>2, <2>3
<1>2. Congruent(p, r)
  BY LowTerm
<1>3. c * (a * e) + c * (b * d) = c * t
  OBVIOUS
<1>4. p = u + s * t
  OBVIOUS
<1> HIDE DEF t, p, r, u
<1>5. s * p = ss * t + s * u
  BY <1>1, <1>4
<1> HIDE DEF ss
<1>6. Congruent(c, ss)
  BY <1>1, CongSym DEF ss
<1>7. Congruent(c * t, ss * t) /\ Congruent(s * u, s * u)
  BY <1>1, <1>6, CongProduct, CongRefl
<1>8. Congruent(c * t + s * u, ss * t + s * u)
  BY <1>1, <1>7, CongSum
<1>9. Congruent(s * p, s * r)
  BY <1>1, <1>2, CongProduct, CongRefl
<1>10. Congruent(c * t + s * u, s * p)
  BY <1>5, <1>8
<1>11. c * t + s * u \in Int
  BY <1>1
<1>12. Congruent(c * t + s * u, s * r)
  BY <1>1, <1>9, <1>10, <1>11, CongTrans
<1> QED BY <1>3, <1>12 DEF r, u

LEMMA HalfProduct ==
  ASSUME NEW h \in Nat, NEW x \in Values(2 * h), NEW y \in Values(2 * h),
         NEW s \in Int, NEW c \in Int, Congruent(s * s, c), NEW k \in 0..(h - 1)
  PROVE  Congruent(Cyc(x, y, 2 * h, c, k) + s * Cyc(x, y, 2 * h, c, h + k),
                   Cyc(Rest(x, h, s), Rest(y, h, s), h, s, k))
<1> DEFINE n == 2 * h
           f == CycTerms(x, y, n, c, k)
           g == CycTerms(x, y, n, c, h + k)
           u == Rest(x, h, s)
           v == Rest(y, h, s)
           f2 == [i \in 0..(h - 1) |-> f[i] + f[h + i]]
           g2 == [i \in 0..(h - 1) |-> g[i] + g[h + i]]
           e == [i \in 0..(h - 1) |-> f2[i] + s * g2[i]]
           w == CycTerms(u, v, h, s, k)
<1>1. n \in Nat /\ k \in 0..(n - 1) /\ h + k \in 0..(n - 1)
  OBVIOUS
<1>2. f \in Values(n) /\ g \in Values(n)
  BY <1>1, CycType
<1>3. u \in Values(h) /\ v \in Values(h)
  BY RestType
<1>4. w \in Values(h)
  BY <1>3, CycType
<1>5. ASSUME NEW i \in 0..(h - 1)
      PROVE  /\ f[i] \in Int /\ f[h + i] \in Int /\ g[i] \in Int
                /\ g[h + i] \in Int
             /\ Congruent((f[i] + f[h + i]) + s * (g[i] + g[h + i]), w[i])
  <2> DEFINE j == h + i
  <2>1. i \in 0..(n - 1) /\ j \in 0..(n - 1)
    OBVIOUS
  <2>2. f[i] \in Int /\ f[j] \in Int /\ g[i] \in Int /\ g[j] \in Int
    <3> HIDE DEF f, g, j, n
    <3> QED BY <1>2, <2>1 DEF Values
  <2>3. CASE i <= k
    <3> DEFINE z == k - i
               a == x[i]  b == x[j]  d == y[z]  r == y[h + z]
    <3>1. z \in 0..(h - 1) /\ z \in 0..(n - 1) /\ h + z \in 0..(n - 1)
      BY <2>3
    <3>2. a \in Int /\ b \in Int /\ d \in Int /\ r \in Int
      BY <2>1, <3>1 DEF Values
    <3>3. f[i] = a * d
      BY <2>1, <2>3 DEF CycTerms
    <3>4. f[j] = c * (b * r)
      <4>1. ~(j <= k) /\ n + k - j = h + z
        OBVIOUS
      <4> HIDE DEF j, n, z
      <4> QED BY <2>1, <4>1 DEF CycTerms
    <3>5. g[i] = a * r
      <4>1. i <= h + k /\ (h + k) - i = h + z
        OBVIOUS
      <4> HIDE DEF n, z
      <4> QED BY <2>1, <4>1 DEF CycTerms
    <3>6. g[j] = b * d
      <4>1. j <= h + k /\ (h + k) - j = z
        BY <2>3
      <4> HIDE DEF n, z, j
      <4> QED BY <2>1, <4>1 DEF CycTerms
    <3>7. w[i] = (a + s * b) * (d + s * r)
      <4>1. w[i] = u[i] * v[z]
        BY <2>3 DEF CycTerms
      <4>2. u[i] = a + s * b /\ v[z] = d + s * r
        BY <3>1 DEF Rest
      <4> QED BY <4>1, <4>2
    <3> HIDE DEF f, g, w, a, b, d, r
    <3>8. Congruent((a * d + c * (b * r)) + s * (a * r + b * d),
                    (a + s * b) * (d + s * r))
      BY <3>2, LowTerm
    <3> QED BY <2>2, <3>3, <3>4, <3>5, <3>6, <3>7, <3>8
  <2>4. CASE ~(i <= k)
    <3> DEFINE z == h + k - i
               a == x[i]  b == x[j]  d == y[z]  r == y[h + z]
    <3>1. z \in 0..(h - 1) /\ z \in 0..(n - 1) /\ h + z \in 0..(n - 1)
      BY <2>4
    <3>2. a \in Int /\ b \in Int /\ d \in Int /\ r \in Int
      BY <2>1, <3>1 DEF Values
    <3>3. f[i] = c * (a * r)
      <4>1. n + k - i = h + z
        OBVIOUS
      <4> HIDE DEF n, z
      <4> QED BY <2>1, <2>4, <4>1 DEF CycTerms
    <3>4. f[j] = c * (b * d)
      <4>1. ~(j <= k) /\ n + k - j = z
        OBVIOUS
      <4> HIDE DEF j, n, z
      <4> QED BY <2>1, <4>1 DEF CycTerms
    <3>5. g[i] = a * d
      <4>1. i <= h + k /\ (h + k) - i = z
        OBVIOUS
      <4> HIDE DEF n, z
      <4> QED BY <2>1, <4>1 DEF CycTerms
    <3>6. g[j] = c * (b * r)
      <4>1. ~(j <= h + k) /\ n + (h + k) - j = h + z
        BY <2>4
      <4> HIDE DEF n, z, j
      <4> QED BY <2>1, <4>1 DEF CycTerms
    <3>7. w[i] = s * ((a + s * b) * (d + s * r))
      <4>1. w[i] = s * (u[i] * v[z])
        BY <2>4 DEF CycTerms
      <4>2. u[i] = a + s * b /\ v[z] = d + s * r
        BY <3>1 DEF Rest
      <4> QED BY <4>1, <4>2
    <3> HIDE DEF f, g, w, a, b, d, r
    <3>8. Congruent((c * (a * r) + c * (b * d)) + s * (a * d + c * (b * r)),
                    s * ((a + s * b) * (d + s * r)))
      BY <3>2, HighTerm
    <3> QED BY <2>2, <3>3, <3>4, <3>5, <3>6, <3>7, <3>8
  <2> QED BY <2>3, <2>4
<1>6. Cyc(x, y, n, c, k) = Total(f, n) /\ Cyc(x, y, n, c, h + k) = Total(g, n)
      /\ Cyc(u, v, h, s, k) = Total(w, h)
  BY DEF Cyc
<1> HIDE DEF f, g, u, v, w
<1>7. /\ f2 \in Values(h) /\ g2 \in Values(h)
      /\ \A i \in 0..(h - 1) : f2[i] = f[i] + f[h + i]
         /\ g2[i] = g[i] + g[h + i]
  BY <1>5 DEF Values
<1> HIDE DEF f2, g2
<1>8. e \in Values(h) /\ \A i \in 0..(h - 1) : e[i] = f2[i] + s * g2[i]
  <2>1. ASSUME NEW i \in 0..(h - 1)
        PROVE  e[i] \in Int /\ e[i] = f2[i] + s * g2[i]
    <3>1. f2[i] \in Int /\ g2[i] \in Int
      BY <1>7 DEF Values
    <3>2. s * g2[i] \in Int
      BY <3>1
    <3>3. e[i] = f2[i] + s * g2[i]
      OBVIOUS
    <3> QED BY <3>1, <3>2, <3>3
  <2>2. e = [i \in 0..(h - 1) |-> e[i]]
    OBVIOUS
  <2> HIDE DEF e
  <2>3. e \in Values(h)
    BY <2>1, <2>2 DEF Values
  <2> QED BY <2>1, <2>3
<1> HIDE DEF e
<1>9. Total(f, n) = Total(f2, h) /\ Total(g, n) = Total(g2, h)
  BY <1>2, <1>7, TotalHalves
<1>10. Total(e, h) = Total(f2, h) + s * Total(g2, h)
  BY <1>7, <1>8, TotalLinear
<1>11. \A i \in 0..(h - 1) : Congruent(e[i], w[i])
  BY <1>5, <1>7, <1>8
<1>12. Congruent(Total(e, h), Total(w, h))
  BY <1>4, <1>8, <1>11, TotalCong
<1> QED BY <1>6, <1>9, <1>10, <1>12 DEF u, v

---------------------------------------------------------------------------
(* The levels of the transform.  At level m a polynomial is taken modulo    *)
(* 256 / m polynomials X^m - Modulus(m, t), block t of it modulo the t-th.  *)

Poly == [Coeff -> Int]
Lens == {2, 4, 8, 16, 32, 64, 128}

(* The root a zeta stands for: 169 = 2^-16, mod q.                          *)
Root(k) == zeta(k) * 169

LayerRoot(h, t) == Root(128 \div h + t)

Modulus(m, t) ==
  IF m = 256 THEN -1
  ELSE IF t % 2 = 0 THEN LayerRoot(m, t \div 2) ELSE -LayerRoot(m, t \div 2)

LEMMA ZetaRange == ASSUME NEW k \in 0..127 PROVE Within(zeta(k), -1659, 1653)
BY DEF zeta, zetas, Within

LEMMA RootInt == ASSUME NEW k \in 0..127 PROVE Root(k) \in Int
BY ZetaRange DEF Root, Within

(* The zetas are the roots of one another, from that of -1 on.              *)
LEMMA RootSquares ==
  ASSUME NEW k \in 2..127
  PROVE  Congruent(Root(k) * Root(k),
                   IF k % 2 = 0 THEN Root(k \div 2) ELSE -Root(k \div 2))
BY DEF Root, zeta, zetas, Congruent, KYBER_Q

LEMMA FirstRoot == Congruent(Root(1) * Root(1), -1)
BY DEF Root, zeta, zetas, Congruent, KYBER_Q

LEMMA Blocks ==
  ASSUME NEW h \in Lens, NEW t \in 0..((128 \div h) - 1)
  PROVE  /\ h \in Nat /\ 2 * h \in Nat /\ t \in Nat
         /\ 128 \div h + t \in 1..127
         /\ LayerRoot(h, t) \in Int
         /\ Modulus(2 * h, t) \in Int
         /\ Congruent(LayerRoot(h, t) * LayerRoot(h, t), Modulus(2 * h, t))
         /\ Modulus(h, 2 * t) = LayerRoot(h, t)
         /\ Modulus(h, 2 * t + 1) = -LayerRoot(h, t)
<1> DEFINE k == 128 \div h + t
<1>1. h \in Nat /\ 2 * h \in Nat /\ t \in Nat /\ k \in 1..127
  BY DEF Lens
<1>2. LayerRoot(h, t) = Root(k) /\ Root(k) \in Int
  BY <1>1, RootInt DEF LayerRoot
<1>3. /\ (2 * t) % 2 = 0 /\ (2 * t) \div 2 = t
      /\ (2 * t + 1) % 2 # 0 /\ (2 * t + 1) \div 2 = t /\ h # 256
  BY <1>1 DEF Lens
<1>4. /\ Modulus(h, 2 * t) = LayerRoot(h, t)
      /\ Modulus(h, 2 * t + 1) = -LayerRoot(h, t)
  BY <1>3 DEF Modulus
<1>5. CASE h = 128
  <2>1. t = 0 /\ k = 1 /\ 2 * h = 256
    BY <1>5
  <2>2. Modulus(2 * h, t) = -1
    BY <2>1 DEF Modulus
  <2>3. LayerRoot(h, t) = Root(1)
    BY <1>2, <2>1
  <2> QED BY <1>1, <1>2, <1>4, <2>2, <2>3, FirstRoot
<1>6. CASE h # 128
  <2>1. /\ k \in 2..127 /\ k \div 2 = 128 \div (2 * h) + t \div 2
        /\ k % 2 = t % 2 /\ 2 * h # 256 /\ k \div 2 \in 0..127
    BY <1>6 DEF Lens
  <2>2. /\ LayerRoot(2 * h, t \div 2) = Root(k \div 2)
        /\ Root(k \div 2) \in Int
    BY <2>1, RootInt DEF LayerRoot
  <2>3. Modulus(2 * h, t) = IF k % 2 = 0 THEN Root(k \div 2) ELSE -Root(k \div 2)
    BY <2>1, <2>2 DEF Modulus
  <2>4. Congruent(Root(k) * Root(k), Modulus(2 * h, t))
    BY <2>1, <2>3, RootSquares
  <2>5. Modulus(2 * h, t) \in Int
    BY <2>2, <2>3
  <2> QED BY <1>1, <1>2, <1>4, <2>4, <2>5
<1> QED BY <1>5, <1>6

(* Coefficient i of the lower and of the upper half of block t.             *)
LEMMA Places ==
  ASSUME NEW h \in Lens, NEW t \in 0..((128 \div h) - 1), NEW i \in 0..(h - 1)
  PROVE  LET j == 2 * h * t + i
             l == 2 * h * t + h + i
         IN  /\ j \in Coeff /\ l \in Coeff /\ l = j + h /\ j = l - h
             /\ j \div h = 2 * t /\ j % h = i
             /\ l \div h = 2 * t + 1 /\ l % h = i
             /\ j \div (2 * h) = t /\ j % (2 * h) = i
             /\ l \div (2 * h) = t /\ l % (2 * h) = h + i
             /\ h * (2 * t) + i = j /\ h * (2 * t + 1) + i = l
             /\ (2 * h) * t + i = j /\ (2 * h) * t + (h + i) = l
BY DEF Lens, Coeff, KYBER_N

LEMMA EveryPlace ==
  ASSUME NEW h \in Lens, NEW n \in Coeff
  PROVE  \E t \in 0..((128 \div h) - 1), i \in 0..(h - 1) :
            n = 2 * h * t + i \/ n = 2 * h * t + h + i
<1> DEFINE t == n \div (2 * h)
           r == n % (2 * h)
<1>1. n = 2 * h * t + r /\ t \in 0..((128 \div h) - 1) /\ r \in 0..(2 * h - 1)
  <2>1. n \in Int /\ 0 <= n /\ n < 256
    BY DEF Coeff, KYBER_N
  <2>2. CASE h = 2
    BY <2>1, <2>2
  <2>3. CASE h = 4
    BY <2>1, <2>3
  <2>4. CASE h = 8
    BY <2>1, <2>4
  <2>5. CASE h = 16
    BY <2>1, <2>5
  <2>6. CASE h = 32
    BY <2>1, <2>6
  <2>7. CASE h = 64
    BY <2>1, <2>7
  <2>8. CASE h = 128
    BY <2>1, <2>8
  <2> QED BY <2>2, <2>3, <2>4, <2>5, <2>6, <2>7, <2>8 DEF Lens
<1> HIDE DEF t, r
<1>2. h \in Nat
  BY DEF Lens
<1>3. CASE r < h
  <2>1. r \in 0..(h - 1)
    BY <1>1, <1>2, <1>3
  <2> QED BY <1>1, <2>1
<1>4. CASE ~(r < h)
  <2>1. r - h \in 0..(h - 1) /\ 2 * h * t \in Int
    BY <1>1, <1>2, <1>4
  <2>2. n = 2 * h * t + h + (r - h)
    BY <1>1, <1>2, <2>1
  <2> QED BY <1>1, <2>1, <2>2
<1> QED BY <1>3, <1>4

Blk(a, m, t) == [i \in 0..(m - 1) |-> a[m * t + i]]

(* The product, block by block.                                             *)
LevelProduct(a, b, m) ==
  [j \in Coeff |-> Cyc(Blk(a, m, j \div m), Blk(b, m, j \div m), m,
                       Modulus(m, j \div m), j % m)]

(* r is p taken one level down: what a turn of ntt's outer loop should do.  *)
Descends(p, r, h) ==
  \A t \in 0..((128 \div h) - 1), i \in 0..(h - 1) :
    LET j == 2 * h * t + i
        l == 2 * h * t + h + i
    IN  /\ Congruent(r[j], p[j] + LayerRoot(h, t) * p[l])
        /\ Congruent(r[l], p[j] - LayerRoot(h, t) * p[l])

LEMMA BlockTypes ==
  ASSUME NEW h \in Lens, NEW t \in 0..((128 \div h) - 1), NEW a \in Poly
  PROVE  /\ Blk(a, 2 * h, t) \in Values(2 * h)
         /\ Blk(a, h, 2 * t) \in Values(h)
         /\ Blk(a, h, 2 * t + 1) \in Values(h)
<1>1. \A i \in 0..(h - 1) : /\ h * (2 * t) + i \in Coeff
                            /\ h * (2 * t + 1) + i \in Coeff
  BY Places
<1>2. \A i \in 0..(2 * h - 1) : (2 * h) * t + i \in Coeff
  BY DEF Lens, Coeff, KYBER_N
<1>3. \A j \in Coeff : a[j] \in Int
  BY DEF Poly
<1> QED BY <1>1, <1>2, <1>3 DEF Blk, Values

LEMMA BlockRests ==
  ASSUME NEW h \in Lens, NEW t \in 0..((128 \div h) - 1),
         NEW a \in Poly, NEW a2 \in Poly, Descends(a, a2, h)
  PROVE  /\ SameValues(Rest(Blk(a, 2 * h, t), h, LayerRoot(h, t)),
                       Blk(a2, h, 2 * t), h)
         /\ SameValues(Rest(Blk(a, 2 * h, t), h, -LayerRoot(h, t)),
                       Blk(a2, h, 2 * t + 1), h)
<1> DEFINE s == LayerRoot(h, t)
<1> SUFFICES ASSUME NEW i \in 0..(h - 1)
      PROVE  /\ Congruent(Rest(Blk(a, 2 * h, t), h, s)[i], Blk(a2, h, 2 * t)[i])
             /\ Congruent(Rest(Blk(a, 2 * h, t), h, -s)[i],
                          Blk(a2, h, 2 * t + 1)[i])
  BY DEF SameValues
<1> DEFINE j == 2 * h * t + i
           l == 2 * h * t + h + i
           b == Blk(a, 2 * h, t)
<1>1. /\ j \in Coeff /\ l \in Coeff
      /\ h * (2 * t) + i = j /\ h * (2 * t + 1) + i = l
      /\ (2 * h) * t + i = j /\ (2 * h) * t + (h + i) = l
  BY Places
<1>2. /\ Congruent(a2[j], a[j] + s * a[l])
      /\ Congruent(a2[l], a[j] - s * a[l])
  BY DEF Descends
<1>3. s \in Int /\ h \in Nat
  BY Blocks
<1>4. i \in 0..(2 * h - 1) /\ h + i \in 0..(2 * h - 1)
  BY <1>3
<1>5. b[i] = a[j] /\ b[h + i] = a[l]
  BY <1>1, <1>4 DEF Blk
<1>6. Blk(a2, h, 2 * t)[i] = a2[j] /\ Blk(a2, h, 2 * t + 1)[i] = a2[l]
  BY <1>1 DEF Blk
<1> HIDE DEF b, j, l, s
<1>7. Rest(b, h, s)[i] = a[j] + s * a[l]
      /\ Rest(b, h, -s)[i] = a[j] + (-s) * a[l]
  BY <1>5 DEF Rest
<1>8. a[j] \in Int /\ a[l] \in Int /\ a2[j] \in Int /\ a2[l] \in Int
  BY <1>1 DEF Poly
<1> DEFINE x == a[j] + s * a[l]
           y == a[j] - s * a[l]
<1>9. x \in Int /\ y \in Int /\ a[j] + (-s) * a[l] = y
  BY <1>3, <1>8
<1>10. Congruent(x, a2[j]) /\ Congruent(y, a2[l])
  <2>1. Congruent(a2[j], x) /\ Congruent(a2[l], y)
    BY <1>2
  <2> HIDE DEF x, y
  <2> QED BY <1>8, <1>9, <2>1, CongSym
<1> QED BY <1>6, <1>7, <1>9, <1>10 DEF b

LEMMA LevelProductType ==
  ASSUME NEW a \in Poly, NEW b \in Poly, NEW h \in Lens
  PROVE  LevelProduct(a, b, h) \in Poly /\ LevelProduct(a, b, 2 * h) \in Poly
<1>1. ASSUME NEW t \in 0..((128 \div h) - 1), NEW i \in 0..(h - 1)
      PROVE  LET j == 2 * h * t + i
                 l == 2 * h * t + h + i
             IN  /\ LevelProduct(a, b, h)[j] \in Int
                 /\ LevelProduct(a, b, h)[l] \in Int
                 /\ LevelProduct(a, b, 2 * h)[j] \in Int
                 /\ LevelProduct(a, b, 2 * h)[l] \in Int
  <2> DEFINE j == 2 * h * t + i
             l == 2 * h * t + h + i
             n == 2 * h
  <2>1. /\ j \in Coeff /\ l \in Coeff
        /\ j \div h = 2 * t /\ j % h = i
        /\ l \div h = 2 * t + 1 /\ l % h = i
        /\ j \div n = t /\ j % n = i
        /\ l \div n = t /\ l % n = h + i
    BY Places
  <2>2. /\ h \in Nat /\ n \in Nat /\ i \in 0..(n - 1) /\ h + i \in 0..(n - 1)
        /\ Modulus(n, t) \in Int /\ Modulus(h, 2 * t) \in Int
        /\ Modulus(h, 2 * t + 1) \in Int
    BY Blocks
  <2>3. /\ Blk(a, n, t) \in Values(n) /\ Blk(b, n, t) \in Values(n)
        /\ Blk(a, h, 2 * t) \in Values(h) /\ Blk(b, h, 2 * t) \in Values(h)
        /\ Blk(a, h, 2 * t + 1) \in Values(h)
           /\ Blk(b, h, 2 * t + 1) \in Values(h)
    BY BlockTypes
  <2> HIDE DEF j, l, n
  <2>4. /\ LevelProduct(a, b, h)[j]
             = Cyc(Blk(a, h, 2 * t), Blk(b, h, 2 * t), h, Modulus(h, 2 * t), i)
        /\ LevelProduct(a, b, h)[l]
             = Cyc(Blk(a, h, 2 * t + 1), Blk(b, h, 2 * t + 1), h,
                   Modulus(h, 2 * t + 1), i)
        /\ LevelProduct(a, b, n)[j]
             = Cyc(Blk(a, n, t), Blk(b, n, t), n, Modulus(n, t), i)
        /\ LevelProduct(a, b, n)[l]
             = Cyc(Blk(a, n, t), Blk(b, n, t), n, Modulus(n, t), h + i)
    BY <2>1 DEF LevelProduct
  <2>5. /\ LevelProduct(a, b, h)[j] \in Int /\ LevelProduct(a, b, h)[l] \in Int
        /\ LevelProduct(a, b, n)[j] \in Int /\ LevelProduct(a, b, n)[l] \in Int
    BY <2>2, <2>3, <2>4, CycType
  <2> QED BY <2>5 DEF j, l, n
<1>2. \A n \in Coeff : /\ LevelProduct(a, b, h)[n] \in Int
                       /\ LevelProduct(a, b, 2 * h)[n] \in Int
  <2> TAKE n \in Coeff
  <2>1. PICK t \in 0..((128 \div h) - 1), i \in 0..(h - 1) :
           n = 2 * h * t + i \/ n = 2 * h * t + h + i
    BY EveryPlace
  <2> QED BY <1>1, <2>1
<1>3. /\ LevelProduct(a, b, h) = [n \in Coeff |-> LevelProduct(a, b, h)[n]]
      /\ LevelProduct(a, b, 2 * h) = [n \in Coeff |-> LevelProduct(a, b, 2 * h)[n]]
  BY DEF LevelProduct
<1> QED BY <1>2, <1>3 DEF Poly

(* The product of two polynomials, taken down, is the product of the two    *)
(* taken down.                                                              *)
LEMMA ProductDescends ==
  ASSUME NEW h \in Lens, NEW a \in Poly, NEW b \in Poly, NEW a2 \in Poly,
         NEW b2 \in Poly, Descends(a, a2, h), Descends(b, b2, h)
  PROVE  Descends(LevelProduct(a, b, 2 * h), LevelProduct(a2, b2, h), h)
<1> DEFINE p == LevelProduct(a, b, 2 * h)
           r == LevelProduct(a2, b2, h)
<1> SUFFICES ASSUME NEW t \in 0..((128 \div h) - 1), NEW i \in 0..(h - 1)
      PROVE  LET j == 2 * h * t + i
                 l == 2 * h * t + h + i
             IN  /\ Congruent(r[j], p[j] + LayerRoot(h, t) * p[l])
                 /\ Congruent(r[l], p[j] - LayerRoot(h, t) * p[l])
  BY DEF Descends
<1> DEFINE j == 2 * h * t + i
           l == 2 * h * t + h + i
           n == 2 * h
           s == LayerRoot(h, t)
           c == Modulus(n, t)
           x == Blk(a, n, t)
           y == Blk(b, n, t)
<1>1. /\ j \in Coeff /\ l \in Coeff
      /\ j \div h = 2 * t /\ j % h = i
      /\ l \div h = 2 * t + 1 /\ l % h = i
      /\ j \div n = t /\ j % n = i
      /\ l \div n = t /\ l % n = h + i
  BY Places
<1>2. /\ h \in Nat /\ n \in Nat /\ s \in Int /\ c \in Int
      /\ Congruent(s * s, c)
      /\ Modulus(h, 2 * t) = s /\ Modulus(h, 2 * t + 1) = -s
  BY Blocks
<1>3. /\ x \in Values(n) /\ y \in Values(n)
      /\ Blk(a2, h, 2 * t) \in Values(h) /\ Blk(b2, h, 2 * t) \in Values(h)
      /\ Blk(a2, h, 2 * t + 1) \in Values(h)
         /\ Blk(b2, h, 2 * t + 1) \in Values(h)
  BY BlockTypes
<1>4. /\ SameValues(Rest(x, h, s), Blk(a2, h, 2 * t), h)
      /\ SameValues(Rest(y, h, s), Blk(b2, h, 2 * t), h)
      /\ SameValues(Rest(x, h, -s), Blk(a2, h, 2 * t + 1), h)
      /\ SameValues(Rest(y, h, -s), Blk(b2, h, 2 * t + 1), h)
  BY BlockRests
<1> DEFINE lo == Cyc(Blk(a2, h, 2 * t), Blk(b2, h, 2 * t), h, s, i)
           hi == Cyc(Blk(a2, h, 2 * t + 1), Blk(b2, h, 2 * t + 1), h, -s, i)
           pj == Cyc(x, y, n, c, i)
           pl == Cyc(x, y, n, c, h + i)
<1>5. i \in 0..(n - 1) /\ h + i \in 0..(n - 1) /\ -s \in Int
      /\ (-s) * (-s) = s * s
  BY <1>2
<1> HIDE DEF j, l, n, s, c, x, y
<1>6. p[j] = pj /\ p[l] = pl /\ r[j] = lo /\ r[l] = hi
  BY <1>1, <1>2 DEF LevelProduct, x, y, c, n
<1>7. lo \in Int /\ hi \in Int /\ pj \in Int /\ pl \in Int
  BY <1>2, <1>3, <1>5, CycType
<1>8. ASSUME NEW z \in Int, Congruent(z * z, c), NEW u \in Values(h),
             NEW v \in Values(h), SameValues(Rest(x, h, z), u, h),
             SameValues(Rest(y, h, z), v, h)
      PROVE  Congruent(Cyc(u, v, h, z, i), pj + z * pl)
  <2> DEFINE w == Cyc(Rest(x, h, z), Rest(y, h, z), h, z, i)
             o == Cyc(u, v, h, z, i)
             e == pj + z * pl
  <2>1. Rest(x, h, z) \in Values(h) /\ Rest(y, h, z) \in Values(h)
    BY <1>2, <1>3, RestType DEF n
  <2>2. Congruent(e, w)
    BY <1>2, <1>3, <1>8, HalfProduct DEF n
  <2>3. Congruent(w, o)
    BY <1>2, <1>8, <2>1, CycCong, CongRefl
  <2>4. w \in Int /\ o \in Int /\ e \in Int
    BY <1>2, <1>7, <1>8, <2>1, CycType
  <2> HIDE DEF w, o, e
  <2>5. Congruent(o, e)
    BY <2>2, <2>3, <2>4, CongSym, CongTrans
  <2> QED BY <2>5 DEF o, e
<1> HIDE DEF pj, pl
<1>9. Congruent(lo, pj + s * pl)
  BY <1>2, <1>3, <1>4, <1>8
<1>10. Congruent(hi, pj + (-s) * pl)
  BY <1>2, <1>3, <1>4, <1>5, <1>8
<1>11. pj + (-s) * pl = pj - s * pl
  BY <1>2, <1>7
<1> QED BY <1>6, <1>9, <1>10, <1>11 DEF j, l, s, n

---------------------------------------------------------------------------
(* What the code computes.                                                  *)

LEMMA Tabulated ==
  ASSUME NEW f PROVE Tabulate(f) = f
BY DEF Tabulate

LEMMA CongShift ==
  ASSUME NEW x \in Int, NEW m \in Int, NEW w \in Int, Congruent(m, w)
  PROVE  Congruent(x + m, x + w) /\ Congruent(x - m, x - w)
<1>1. Congruent(x, x)
  BY CongRefl
<1> QED BY <1>1, CongSum

Bounded(r, n) == r \in Poly /\ \A j \in Coeff : Within(r[j], -n, n)

LEMMA BoundedAt ==
  ASSUME NEW r, NEW n, Bounded(r, n), NEW j \in Coeff
  PROVE  Within(r[j], -n, n)
BY DEF Bounded

Fits(x) == Within(x, -32768, 32767)

LEMMA NoWrap == ASSUME NEW x, Fits(x) PROVE int16(x) = x
BY Int16 DEF Fits, Within

LEMMA ProductWithin ==
  ASSUME NEW a, NEW b, NEW m \in Nat, NEW n \in Nat,
         Within(a, -m, m), Within(b, -n, n)
  PROVE  Within(a * b, -(m * n), m * n)
<1>1. a \in Int /\ b \in Int /\ m * n \in Int /\ a * b \in Int
      /\ -m <= a /\ a <= m /\ -n <= b /\ b <= n
  BY DEF Within
<1>2. (m - a) * (n - b) >= 0 /\ (m + a) * (n + b) >= 0
      /\ (m - a) * (n + b) >= 0 /\ (m + a) * (n - b) >= 0
  BY <1>1
<1>3. /\ (m - a) * (n - b) = m * n - m * b - a * n + a * b
      /\ (m + a) * (n + b) = m * n + m * b + a * n + a * b
      /\ (m - a) * (n + b) = m * n + m * b - a * n - a * b
      /\ (m + a) * (n - b) = m * n - m * b + a * n - a * b
  BY <1>1
<1>4. m * b \in Int /\ a * n \in Int
  BY <1>1
<1>5. -(m * n) <= a * b /\ a * b <= m * n
  BY <1>1, <1>2, <1>3, <1>4
<1> QED BY <1>1, <1>5 DEF Within

(* fqmul multiplies modulo q, by 2^-16.                                     *)
LEMMA Fqmul ==
  ASSUME NEW a \in Int, NEW b \in Int, Within(a * b, -109084672, 109084671)
  PROVE  /\ Within(fqmul(a, b), -3328, 3328)
         /\ Congruent(fqmul(a, b), (a * 169) * b)
<1> DEFINE m == fqmul(a, b)
           p == a * b
           r == m * 65536
           w == 169
           u == r * w
           v == p * w
<1>1. Within(m, -3328, 3328) /\ Congruent(r, p)
  BY Montgomery DEF fqmul
<1>2. m \in Int
  BY <1>1 DEF Within
<1> HIDE DEF m
<1>3. p \in Int /\ r \in Int
  BY <1>2
<1>4. (a * 169) * b = v
  OBVIOUS
<1> HIDE DEF p
<1>5. u = m + 3329 * (m * 3327)
  BY <1>2
<1>6. w \in Int /\ u \in Int /\ v \in Int
  BY <1>3
<1> HIDE DEF r, w
<1>9. Congruent(u, v)
  <2>1. Congruent(w, w)
    BY <1>6, CongRefl
  <2> QED BY <1>1, <1>3, <1>6, <2>1, CongProduct
<1> HIDE DEF u, v
<1>7. Congruent(m, u)
  <2> DEFINE k == m * 3327
  <2>1. k \in Int /\ Apart(u, m, k)
    BY <1>2, <1>5 DEF Apart
  <2> HIDE DEF k
  <2> QED BY <1>2, <1>6, <2>1, CongBy, CongSym
<1>8. Congruent(m, v)
  BY <1>2, <1>6, <1>7, <1>9, CongTrans
<1> QED BY <1>1, <1>4, <1>8 DEF m

LEMMA ZetaTimes ==
  ASSUME NEW k \in 0..127, NEW b, Within(b, -32767, 32767)
  PROVE  /\ Within(fqmul(zeta(k), b), -3328, 3328)
         /\ Congruent(fqmul(zeta(k), b), Root(k) * b)
<1> DEFINE z == zeta(k)
<1>1. z \in Int /\ Within(z, -1664, 1664) /\ b \in Int
  BY ZetaRange DEF Within
<1> HIDE DEF z
<1>2. Within(z * b, -(1664 * 32767), 1664 * 32767)
  BY <1>1, ProductWithin
<1>3. Within(z * b, -109084672, 109084671)
  BY <1>2 DEF Within
<1>4. Within(fqmul(z, b), -3328, 3328) /\ Congruent(fqmul(z, b), (z * 169) * b)
  BY <1>1, <1>3, Fqmul
<1> QED BY <1>4 DEF z, Root

(* A turn of ntt's outer loop: no coefficient leaves int16_t, each grows by *)
(* less than q.                                                             *)
LEMMA LayerDescends ==
  ASSUME NEW h \in Lens, NEW n \in Nat, n + 3328 <= 32767, NEW r, Bounded(r, n)
  PROVE  Bounded(ntt_layer(r, h), n + 3328) /\ Descends(r, ntt_layer(r, h), h)
<1> DEFINE f == [j \in Coeff |->
    LET z == zeta(128 \div h + Block(j, h))
    IN  IF InUpperHalf(j, h) THEN int16(r[j - h] - fqmul(z, r[j]))
                             ELSE int16(r[j] + fqmul(z, r[j + h]))]
<1>1. ntt_layer(r, h) = f
  <2>1. ntt_layer(r, h) = Tabulate(f)
    BY DEF ntt_layer
  <2> HIDE DEF f
  <2> QED BY <2>1, Tabulated
<1>2. ASSUME NEW t \in 0..((128 \div h) - 1), NEW i \in 0..(h - 1)
      PROVE  LET j == 2 * h * t + i
                 l == 2 * h * t + h + i
             IN  /\ Within(f[j], -(n + 3328), n + 3328)
                 /\ Within(f[l], -(n + 3328), n + 3328)
                 /\ Congruent(f[j], r[j] + LayerRoot(h, t) * r[l])
                 /\ Congruent(f[l], r[j] - LayerRoot(h, t) * r[l])
  <2> DEFINE j == 2 * h * t + i
             l == 2 * h * t + h + i
             k == 128 \div h + t
             m == fqmul(zeta(k), r[l])
             s == LayerRoot(h, t)
  <2>1. /\ j \in Coeff /\ l \in Coeff /\ l = j + h /\ j = l - h
        /\ j \div h = 2 * t /\ l \div h = 2 * t + 1
        /\ j \div (2 * h) = t /\ l \div (2 * h) = t
    BY Places
  <2>2. k \in 0..127 /\ t \in Nat
    BY Blocks
  <2>3. ~InUpperHalf(j, h) /\ InUpperHalf(l, h) /\ Block(j, h) = t
        /\ Block(l, h) = t
    BY <2>1, <2>2 DEF InUpperHalf, Block
  <2> HIDE DEF j, l, k
  <2>4. f[j] = int16(r[j] + m) /\ f[l] = int16(r[j] - m)
    BY <2>1, <2>3 DEF k
  <2> HIDE DEF f
  <2>5. Within(r[j], -n, n) /\ Within(r[l], -n, n)
    <3>1. j \in Coeff /\ l \in Coeff
      BY <2>1
    <3> QED BY <3>1, BoundedAt
  <2>6. Within(r[l], -32767, 32767)
    BY <2>5 DEF Within
  <2>7. Within(m, -3328, 3328) /\ Congruent(m, s * r[l])
    BY <2>2, <2>6, ZetaTimes DEF LayerRoot, k
  <2>8. s \in Int
    BY <2>2, RootInt DEF LayerRoot, k
  <2> HIDE DEF m, s
  <2> DEFINE x == r[j] + m
             y == r[j] - m
             w == s * r[l]
  <2>9. r[j] \in Int /\ r[l] \in Int /\ m \in Int /\ w \in Int
    BY <2>5, <2>7, <2>8 DEF Within
  <2>10. /\ Within(x, -(n + 3328), n + 3328) /\ Within(y, -(n + 3328), n + 3328)
         /\ Fits(x) /\ Fits(y)
    BY <2>5, <2>7 DEF Within, Fits
  <2>11. Congruent(x, r[j] + w) /\ Congruent(y, r[j] - w)
    <3>1. Congruent(m, w)
      BY <2>7
    <3> HIDE DEF w
    <3> QED BY <2>9, <3>1, CongShift
  <2> HIDE DEF x, y
  <2>12. int16(x) = x /\ int16(y) = y
    BY <2>10, NoWrap
  <2>13. f[j] = x /\ f[l] = y
    BY <2>4, <2>12 DEF x, y
  <2> QED BY <2>10, <2>11, <2>13 DEF j, l, s
<1>3. \A c \in Coeff : Within(f[c], -(n + 3328), n + 3328)
  <2> TAKE c \in Coeff
  <2>1. PICK t \in 0..((128 \div h) - 1), i \in 0..(h - 1) :
           c = 2 * h * t + i \/ c = 2 * h * t + h + i
    BY EveryPlace
  <2> HIDE DEF f
  <2> QED BY <1>2, <2>1
<1>4. f = [c \in Coeff |-> f[c]]
  OBVIOUS
<1> HIDE DEF f
<1>5. f \in Poly
  BY <1>3, <1>4 DEF Poly, Within
<1> QED BY <1>1, <1>2, <1>3, <1>5 DEF Bounded, Descends

---------------------------------------------------------------------------
(* ntt: the seven levels.                                                   *)

LEMMA Lengths ==
  /\ 2^(8 - 1) = 128 /\ 2^(8 - 2) = 64 /\ 2^(8 - 3) = 32 /\ 2^(8 - 4) = 16
  /\ 2^(8 - 5) = 8 /\ 2^(8 - 6) = 4 /\ 2^(8 - 7) = 2
  /\ 2^1 = 2 /\ 2^2 = 4 /\ 2^3 = 8 /\ 2^4 = 16 /\ 2^5 = 32 /\ 2^6 = 64
     /\ 2^7 = 128
OBVIOUS

(* Half a block of turn n, and a block.                                     *)
Half(n) == 2^(8 - n)
BlockLen(n) == IF n = 1 THEN 256 ELSE Half(n - 1)

LEMMA HalfIs ==
  /\ Half(1) = 128 /\ Half(2) = 64 /\ Half(3) = 32 /\ Half(4) = 16
  /\ Half(5) = 8 /\ Half(6) = 4 /\ Half(7) = 2
BY Lengths DEF Half

LEMMA LengthOf ==
  ASSUME NEW n \in 1..7 PROVE Half(n) \in Lens /\ BlockLen(n) = 2 * Half(n)
<1>1. CASE n = 1
  <2>1. n - 1 = 0
    BY <1>1
  <2> QED BY <1>1, <2>1, HalfIs DEF Lens, BlockLen
<1>2. CASE n = 2
  <2>1. n - 1 = 1
    BY <1>2
  <2> QED BY <1>2, <2>1, HalfIs DEF Lens, BlockLen
<1>3. CASE n = 3
  <2>1. n - 1 = 2
    BY <1>3
  <2> QED BY <1>3, <2>1, HalfIs DEF Lens, BlockLen
<1>4. CASE n = 4
  <2>1. n - 1 = 3
    BY <1>4
  <2> QED BY <1>4, <2>1, HalfIs DEF Lens, BlockLen
<1>5. CASE n = 5
  <2>1. n - 1 = 4
    BY <1>5
  <2> QED BY <1>5, <2>1, HalfIs DEF Lens, BlockLen
<1>6. CASE n = 6
  <2>1. n - 1 = 5
    BY <1>6
  <2> QED BY <1>6, <2>1, HalfIs DEF Lens, BlockLen
<1>7. CASE n = 7
  <2>1. n - 1 = 6
    BY <1>7
  <2> QED BY <1>7, <2>1, HalfIs DEF Lens, BlockLen
<1> QED BY <1>1, <1>2, <1>3, <1>4, <1>5, <1>6, <1>7

(* g is r after each turn of the outer loop.                                *)
Turns(g, r) ==
  /\ g[0] = r /\ g[7] = ntt(r)
  /\ \A n \in 1..7 : g[n] = ntt_layer(g[n - 1], Half(n))

LEMMA NttTurns == ASSUME NEW r PROVE \E g : Turns(g, r)
<1> DEFINE G(g) == g = [n \in 0..7 |-> IF n = 0 THEN r
                                       ELSE ntt_layer(g[n - 1], 2^(8 - n))]
           p1 == ntt_layer(r, Half(1))
           p2 == ntt_layer(p1, Half(2))
           p3 == ntt_layer(p2, Half(3))
           p4 == ntt_layer(p3, Half(4))
           p5 == ntt_layer(p4, Half(5))
           p6 == ntt_layer(p5, Half(6))
           p7 == ntt_layer(p6, Half(7))
<1>1. \E g : G(g)
  <2>1. /\ p1 = ntt_layer(r, Half(1)) /\ p2 = ntt_layer(p1, Half(2))
        /\ p3 = ntt_layer(p2, Half(3)) /\ p4 = ntt_layer(p3, Half(4))
        /\ p5 = ntt_layer(p4, Half(5)) /\ p6 = ntt_layer(p5, Half(6))
        /\ p7 = ntt_layer(p6, Half(7))
    OBVIOUS
  <2> HIDE DEF p1, p2, p3, p4, p5, p6, p7
  <2> DEFINE g == [n \in 0..7 |-> IF n = 0 THEN r ELSE IF n = 1 THEN p1
                     ELSE IF n = 2 THEN p2 ELSE IF n = 3 THEN p3
                     ELSE IF n = 4 THEN p4 ELSE IF n = 5 THEN p5
                     ELSE IF n = 6 THEN p6 ELSE p7]
  <2>2. /\ g[0] = r /\ g[1] = p1 /\ g[2] = p2 /\ g[3] = p3 /\ g[4] = p4
        /\ g[5] = p5 /\ g[6] = p6 /\ g[7] = p7 /\ g = [n \in 0..7 |-> g[n]]
    OBVIOUS
  <2> HIDE DEF g
  <2>3. ASSUME NEW n \in 1..7 PROVE g[n] = ntt_layer(g[n - 1], Half(n))
    <3>1. CASE n = 1
      <4>1. n - 1 = 0
        BY <3>1
      <4> QED BY <2>1, <2>2, <3>1, <4>1
    <3>2. CASE n = 2
      <4>1. n - 1 = 1
        BY <3>2
      <4> QED BY <2>1, <2>2, <3>2, <4>1
    <3>3. CASE n = 3
      <4>1. n - 1 = 2
        BY <3>3
      <4> QED BY <2>1, <2>2, <3>3, <4>1
    <3>4. CASE n = 4
      <4>1. n - 1 = 3
        BY <3>4
      <4> QED BY <2>1, <2>2, <3>4, <4>1
    <3>5. CASE n = 5
      <4>1. n - 1 = 4
        BY <3>5
      <4> QED BY <2>1, <2>2, <3>5, <4>1
    <3>6. CASE n = 6
      <4>1. n - 1 = 5
        BY <3>6
      <4> QED BY <2>1, <2>2, <3>6, <4>1
    <3>7. CASE n = 7
      <4>1. n - 1 = 6
        BY <3>7
      <4> QED BY <2>1, <2>2, <3>7, <4>1
    <3> QED BY <3>1, <3>2, <3>3, <3>4, <3>5, <3>6, <3>7
  <2>4. \A n \in 0..7 : g[n] = IF n = 0 THEN r ELSE ntt_layer(g[n - 1], Half(n))
    BY <2>2, <2>3
  <2>5. g = [n \in 0..7 |-> IF n = 0 THEN r ELSE ntt_layer(g[n - 1], Half(n))]
    BY <2>2, <2>4
  <2> QED BY <2>5 DEF Half
<1> DEFINE h == CHOOSE g : G(g)
<1>2. G(h)
  <2> HIDE DEF G
  <2> QED BY <1>1
<1>3. ntt(r) = h[7]
  BY DEF ntt
<1> HIDE DEF h
<1>4. h[0] = r /\ \A n \in 1..7 : h[n] = ntt_layer(h[n - 1], 2^(8 - n))
  <2>1. 0 \in 0..7 /\ \A n \in 1..7 : n \in 0..7 /\ n # 0
    OBVIOUS
  <2> QED BY <1>2, <2>1
<1> QED BY <1>3, <1>4 DEF Turns, Half

(* What a transform may be given: coefficients up to 9471.                  *)
LEMMA NttDescends ==
  ASSUME NEW r, NEW g, Bounded(r, 9471), Turns(g, r)
  PROVE  /\ \A n \in 0..7 : Bounded(g[n], 9471 + 3328 * n)
         /\ \A n \in 1..7 : Descends(g[n - 1], g[n], Half(n))
<1>1. ASSUME NEW m \in 0..6, Bounded(g[m], 9471 + 3328 * m)
      PROVE  /\ Bounded(g[m + 1], 9471 + 3328 * (m + 1))
             /\ Descends(g[m], g[m + 1], Half(m + 1))
  <2> DEFINE p == g[m]  b == 9471 + 3328 * m  h == Half(m + 1)
  <2>1. m + 1 \in 1..7 /\ (m + 1) - 1 = m
    OBVIOUS
  <2>2. g[m + 1] = ntt_layer(p, h)
    BY <2>1 DEF Turns
  <2>3. b \in Nat /\ b + 3328 <= 32767 /\ 9471 + 3328 * (m + 1) = b + 3328
    OBVIOUS
  <2>4. h \in Lens
    BY <2>1, LengthOf
  <2>5. Bounded(p, b)
    BY <1>1
  <2> HIDE DEF p, b, h
  <2>6. Bounded(ntt_layer(p, h), b + 3328) /\ Descends(p, ntt_layer(p, h), h)
    BY <2>3, <2>4, <2>5, LayerDescends
  <2> QED BY <2>2, <2>3, <2>6 DEF p, h
<1> DEFINE S == {m \in 0..7 : Bounded(g[m], 9471 + 3328 * m)}
<1>2. 0 \in S
  <2>1. 9471 + 3328 * 0 = 9471 /\ g[0] = r
    BY DEF Turns
  <2> QED BY <2>1
<1>3. \A m \in 0..6 : m \in S => m + 1 \in S
  BY <1>1
<1>4. \A m \in 0..7 : m \in S
  <2> HIDE DEF S
  <2>1. 7 \in Nat /\ 7 - 1 = 6
    OBVIOUS
  <2> QED BY <1>2, <1>3, <2>1, UpTo
<1>5. ASSUME NEW n \in 1..7 PROVE Descends(g[n - 1], g[n], Half(n))
  <2> DEFINE m == n - 1
  <2>1. m \in 0..6 /\ n = m + 1
    OBVIOUS
  <2>2. m \in S
    BY <1>4, <2>1
  <2>3. Bounded(g[m], 9471 + 3328 * m)
    BY <2>2
  <2> HIDE DEF m
  <2> QED BY <1>1, <2>1, <2>3 DEF m
<1> QED BY <1>4, <1>5

---------------------------------------------------------------------------
(* Products of pairs.                                                       *)

LEMMA FqSmall ==
  ASSUME NEW a, NEW b, Within(a, -3328, 3328), Within(b, -3328, 3328)
  PROVE  /\ Within(fqmul(a, b), -3328, 3328)
         /\ Congruent(fqmul(a, b), 169 * (a * b))
<1>1. a \in Int /\ b \in Int
  BY DEF Within
<1>2. Within(a * b, -(3328 * 3328), 3328 * 3328)
  BY ProductWithin
<1>3. Within(a * b, -109084672, 109084671)
  BY <1>2 DEF Within
<1>4. (a * 169) * b = 169 * (a * b)
  BY <1>1
<1>5. Within(fqmul(a, b), -3328, 3328) /\ Congruent(fqmul(a, b), (a * 169) * b)
  BY <1>1, <1>3, Fqmul
<1> QED BY <1>4, <1>5

LEMMA SumFits ==
  ASSUME NEW x, NEW y, Within(x, -3328, 3328), Within(y, -3328, 3328)
  PROVE  /\ Within(x + y, -6656, 6656) /\ int16(x + y) = x + y
         /\ Within(y - x, -6656, 6656) /\ int16(y - x) = y - x
<1>1. /\ Within(x + y, -6656, 6656) /\ Fits(x + y)
      /\ Within(y - x, -6656, 6656) /\ Fits(y - x)
  BY DEF Within, Fits
<1> QED BY <1>1, NoWrap

LEMMA PairHigh ==
  ASSUME NEW x0, NEW x1, NEW y0, NEW y1,
         Within(x0, -1664, 1664), Within(x1, -1664, 1664),
         Within(y0, -1664, 1664), Within(y1, -1664, 1664)
  PROVE  LET r == int16(fqmul(x0, y1) + fqmul(x1, y0))
         IN  /\ Within(r, -6656, 6656)
             /\ Congruent(r, 169 * (x0 * y1 + x1 * y0))
<1> DEFINE m == fqmul(x0, y1)  n == fqmul(x1, y0)
           u == 169 * (x0 * y1)  v == 169 * (x1 * y0)
<1>1. /\ Within(x0, -3328, 3328) /\ Within(x1, -3328, 3328)
      /\ Within(y0, -3328, 3328) /\ Within(y1, -3328, 3328)
      /\ x0 \in Int /\ x1 \in Int /\ y0 \in Int /\ y1 \in Int
  BY DEF Within
<1>2. Within(m, -3328, 3328) /\ Congruent(m, u)
  BY <1>1, FqSmall
<1>3. Within(n, -3328, 3328) /\ Congruent(n, v)
  BY <1>1, FqSmall
<1>4. u \in Int /\ v \in Int /\ 169 * (x0 * y1 + x1 * y0) = u + v
  BY <1>1
<1> HIDE DEF m, n, u, v
<1>5. m \in Int /\ n \in Int
  BY <1>2, <1>3 DEF Within
<1>6. Congruent(m + n, u + v)
  BY <1>2, <1>3, <1>4, <1>5, CongSum
<1>7. Within(m + n, -6656, 6656) /\ int16(m + n) = m + n
  BY <1>2, <1>3, SumFits
<1> QED BY <1>4, <1>6, <1>7 DEF m, n

LEMMA PairLow ==
  ASSUME NEW x0, NEW x1, NEW y0, NEW y1, NEW z,
         Within(x0, -1664, 1664), Within(x1, -1664, 1664),
         Within(y0, -1664, 1664), Within(y1, -1664, 1664), Within(z, -1664, 1664)
  PROVE  LET r == int16(fqmul(fqmul(x1, y1), z) + fqmul(x0, y0))
         IN  /\ Within(r, -6656, 6656)
             /\ Congruent(r, 169 * (x0 * y0 + (z * 169) * (x1 * y1)))
<1> DEFINE p == fqmul(x1, y1)  m == fqmul(p, z)  n == fqmul(x0, y0)
           e == 169 * (x1 * y1)
           u == 169 * (p * z)  w == 169 * (e * z)  v == 169 * (x0 * y0)
<1>1. /\ Within(x0, -3328, 3328) /\ Within(x1, -3328, 3328)
      /\ Within(y0, -3328, 3328) /\ Within(y1, -3328, 3328)
         /\ Within(z, -3328, 3328)
      /\ x0 \in Int /\ x1 \in Int /\ y0 \in Int /\ y1 \in Int /\ z \in Int
  BY DEF Within
<1>2. Within(p, -3328, 3328) /\ Congruent(p, e)
  BY <1>1, FqSmall
<1> HIDE DEF p
<1>3. Within(m, -3328, 3328) /\ Congruent(m, u)
  BY <1>1, <1>2, FqSmall
<1>4. Within(n, -3328, 3328) /\ Congruent(n, v)
  BY <1>1, FqSmall
<1>5. e \in Int /\ p \in Int
  BY <1>1, <1>2 DEF Within
<1>6. w + v = 169 * (x0 * y0 + (z * 169) * (x1 * y1))
  <2> DEFINE c == x1 * y1  d == x0 * y0
  <2>1. c \in Int /\ d \in Int
    BY <1>1
  <2>2. w = 169 * ((169 * c) * z) /\ v = 169 * d
    OBVIOUS
  <2> HIDE DEF c, d, w, v
  <2>3. w + v = 169 * (d + (z * 169) * c)
    BY <1>1, <2>1, <2>2
  <2> QED BY <2>3 DEF c, d
<1>7. Congruent(u, w)
  <2> DEFINE f == 169
  <2>1. f \in Int /\ f * p \in Int /\ f * e \in Int /\ u = (f * p) * z
        /\ w = (f * e) * z
    BY <1>1, <1>5
  <2> HIDE DEF f, e, u, w
  <2>2. Congruent(f, f) /\ Congruent(z, z)
    BY <1>1, <2>1, CongRefl
  <2>3. Congruent(f * p, f * e)
    BY <1>2, <1>5, <2>1, <2>2, CongProduct
  <2> DEFINE s == f * p  t == f * e
  <2>4. s \in Int /\ t \in Int /\ u = s * z /\ w = t * z /\ Congruent(s, t)
    BY <2>1, <2>3
  <2> HIDE DEF s, t
  <2> QED BY <1>1, <2>2, <2>4, CongProduct
<1>8. u \in Int /\ w \in Int /\ v \in Int
  BY <1>1, <1>5
<1> HIDE DEF m, n, e, u, w, v
<1>9. m \in Int /\ n \in Int
  BY <1>3, <1>4 DEF Within
<1>10. Congruent(m, w)
  BY <1>3, <1>7, <1>8, <1>9, CongTrans
<1>11. Congruent(m + n, w + v)
  BY <1>4, <1>8, <1>9, <1>10, CongSum
<1>12. Within(m + n, -6656, 6656) /\ int16(m + n) = m + n
  BY <1>3, <1>4, SumFits
<1> QED BY <1>6, <1>11, <1>12 DEF m, n, p

LEMMA TotalTwo ==
  ASSUME NEW f \in Values(2) PROVE Total(f, 2) = f[0] + f[1]
<1> DEFINE p == Partial(f, 2)
<1>1. IsPartial(p, f, 2)
  BY PartialIs
<1> HIDE DEF p
<1>2. p[0] = 0 /\ p[0 + 1] = p[0] + f[0] /\ p[1 + 1] = p[1] + f[1]
      /\ f[0] \in Int /\ f[1] \in Int
  <2>1. 0 \in 0..(2 - 1) /\ 1 \in 0..(2 - 1)
    OBVIOUS
  <2> QED BY <1>1, <2>1 DEF IsPartial, Values
<1>3. p[2] = f[0] + f[1]
  BY <1>2
<1> QED BY <1>3 DEF Total, p

(* Every value of q is c times p's, modulo 3329.                            *)
Multiple(q, p, c) == \A j \in Coeff : Congruent(q[j], c * p[j])

LEMMA SignedZeta ==
  ASSUME NEW t \in 0..127
  PROVE  /\ Modulus(2, t) = basemul_zeta(2 * t) * 169
         /\ Within(basemul_zeta(2 * t), -1664, 1664)
<1> DEFINE k == 64 + t \div 2
<1>1. /\ k \in 0..127 /\ (2 * t) \div 4 = t \div 2 /\ 128 \div 2 + t \div 2 = k
      /\ (2 * t) % 4 < 2 <=> t % 2 = 0
      /\ 2 # 256
  OBVIOUS
<1>2. basemul_zeta(2 * t) = IF t % 2 = 0 THEN zeta(k) ELSE -zeta(k)
  BY <1>1 DEF basemul_zeta
<1>3. LayerRoot(2, t \div 2) = zeta(k) * 169
  BY <1>1 DEF LayerRoot, Root
<1>4. Modulus(2, t) = IF t % 2 = 0 THEN LayerRoot(2, t \div 2)
                                   ELSE -LayerRoot(2, t \div 2)
  BY <1>1 DEF Modulus
<1> HIDE DEF k
<1>5. Within(zeta(k), -1659, 1653)
  BY <1>1, ZetaRange
<1> DEFINE z == zeta(k)
<1>6. z \in Int /\ -1659 <= z /\ z <= 1653 /\ (-z) * 169 = -(z * 169)
  BY <1>5 DEF Within
<1> QED BY <1>2, <1>3, <1>4, <1>6 DEF Within

PairOf(a, b, t) ==
  LET j == 2 * t
      l == 2 * t + 1
      p == LevelProduct(a, b, 2)
  IN  /\ p[j] = a[j] * b[j] + Modulus(2, t) * (a[l] * b[l])
      /\ p[l] = a[j] * b[l] + a[l] * b[j]
      /\ p[j] \in Int /\ p[l] \in Int

LEMMA Pair ==
  ASSUME NEW a \in Poly, NEW b \in Poly, NEW t \in 0..127
  PROVE  PairOf(a, b, t)
<1> DEFINE j == 2 * t
           l == 2 * t + 1
           p == LevelProduct(a, b, 2)
           x == Blk(a, 2, t)
           y == Blk(b, 2, t)
           c == Modulus(2, t)
<1>1. /\ j \in Coeff /\ l \in Coeff /\ j \div 2 = t /\ l \div 2 = t
      /\ j % 2 = 0 /\ l % 2 = 1 /\ 2 * t + 0 = j /\ 2 * t + 1 = l
  BY DEF Coeff, KYBER_N
<1>2. p[j] = Cyc(x, y, 2, c, 0) /\ p[l] = Cyc(x, y, 2, c, 1)
  BY <1>1 DEF LevelProduct
<1>3. c \in Int
  <2>1. basemul_zeta(2 * t) \in Int
    BY SignedZeta DEF Within
  <2> QED BY <2>1, SignedZeta
<1>4. x[0] = a[j] /\ x[1] = a[l] /\ y[0] = b[j] /\ y[1] = b[l]
  BY <1>1 DEF Blk
<1>5. x \in Values(2) /\ y \in Values(2)
  <2>1. a[j] \in Int /\ a[l] \in Int /\ b[j] \in Int /\ b[l] \in Int
    BY <1>1 DEF Poly
  <2>2. \A i \in 0..(2 - 1) : x[i] \in Int /\ y[i] \in Int
    BY <1>4, <2>1
  <2>3. x = [i \in 0..(2 - 1) |-> x[i]] /\ y = [i \in 0..(2 - 1) |-> y[i]]
    BY DEF Blk
  <2> HIDE DEF x, y
  <2> QED BY <2>2, <2>3 DEF Values
<1> DEFINE f == CycTerms(x, y, 2, c, 0)
           g == CycTerms(x, y, 2, c, 1)
<1> HIDE DEF x, y, c
<1>6. f \in Values(2) /\ g \in Values(2)
  <2>1. 0 \in 0..(2 - 1) /\ 1 \in 0..(2 - 1)
    OBVIOUS
  <2> QED BY <1>3, <1>5, <2>1, CycType
<1>7. /\ f[0] = x[0] * y[0] /\ f[1] = c * (x[1] * y[1])
      /\ g[0] = x[0] * y[1] /\ g[1] = x[1] * y[0]
  BY DEF CycTerms
<1>8. Cyc(x, y, 2, c, 0) = Total(f, 2) /\ Cyc(x, y, 2, c, 1) = Total(g, 2)
  BY DEF Cyc
<1> HIDE DEF f, g
<1>9. Total(f, 2) = f[0] + f[1] /\ Total(g, 2) = g[0] + g[1]
  BY <1>6, TotalTwo
<1>10. f[0] + f[1] \in Int /\ g[0] + g[1] \in Int
  BY <1>6 DEF Values
<1> HIDE DEF p, j, l
<1>11. /\ p[j] = a[j] * b[j] + c * (a[l] * b[l])
       /\ p[l] = a[j] * b[l] + a[l] * b[j]
       /\ p[j] \in Int /\ p[l] \in Int
  BY <1>2, <1>4, <1>7, <1>8, <1>9, <1>10
<1> QED BY <1>11 DEF p, j, l, c, PairOf

PairIs(q, p, n) ==
  Within(q[n], -6656, 6656) /\ Congruent(q[n], 169 * p[n])

LEMMA BasemulIs ==
  ASSUME NEW a, NEW b, Bounded(a, 1664), Bounded(b, 1664)
  PROVE  /\ Bounded(poly_basemul_montgomery(a, b), 6656)
         /\ Multiple(poly_basemul_montgomery(a, b), LevelProduct(a, b, 2), 169)
<1> DEFINE f == [i \in Coeff |-> basemul(a, b, i, basemul_zeta(i))]
           p == LevelProduct(a, b, 2)
<1>1. poly_basemul_montgomery(a, b) = f
  <2>1. poly_basemul_montgomery(a, b) = Tabulate(f)
    BY DEF poly_basemul_montgomery
  <2> HIDE DEF f
  <2> QED BY <2>1, Tabulated
<1>2. ASSUME NEW t \in 0..127
      PROVE  PairIs(f, p, 2 * t) /\ PairIs(f, p, 2 * t + 1)
  <2> DEFINE j == 2 * t
             l == 2 * t + 1
             z == basemul_zeta(j)
             c == Modulus(2, t)
  <2>1. /\ j \in Coeff /\ l \in Coeff /\ j % 2 = 0 /\ l % 2 # 0
        /\ j + 1 = l /\ l - 1 = j
    BY DEF Coeff, KYBER_N
  <2>2. Within(z, -1664, 1664) /\ c = z * 169
    BY SignedZeta
  <2>3. /\ p[j] = a[j] * b[j] + c * (a[l] * b[l])
        /\ p[l] = a[j] * b[l] + a[l] * b[j]
    <3>1. a \in Poly /\ b \in Poly
      BY DEF Bounded
    <3>2. PairOf(a, b, t)
      BY <3>1, Pair
    <3> QED BY <3>2 DEF PairOf
  <2> HIDE DEF p, z, c, j, l
  <2>4. /\ Within(a[j], -1664, 1664) /\ Within(a[l], -1664, 1664)
        /\ Within(b[j], -1664, 1664) /\ Within(b[l], -1664, 1664)
    BY <2>1, BoundedAt
  <2>5. /\ f[j] = int16(fqmul(fqmul(a[l], b[l]), z) + fqmul(a[j], b[j]))
        /\ f[l] = int16(fqmul(a[j], b[l]) + fqmul(a[l], b[j]))
    BY <2>1 DEF basemul, z
  <2> HIDE DEF f
  <2>6. /\ Within(f[j], -6656, 6656)
        /\ Congruent(f[j], 169 * (a[j] * b[j] + (z * 169) * (a[l] * b[l])))
    BY <2>2, <2>4, <2>5, PairLow
  <2>7. /\ Within(f[l], -6656, 6656)
        /\ Congruent(f[l], 169 * (a[j] * b[l] + a[l] * b[j]))
    BY <2>4, <2>5, PairHigh
  <2>8. p[j] = a[j] * b[j] + (z * 169) * (a[l] * b[l])
    BY <2>2, <2>3
  <2>9. Congruent(f[j], 169 * p[j]) /\ Congruent(f[l], 169 * p[l])
    BY <2>3, <2>6, <2>7, <2>8
  <2>10. PairIs(f, p, j) /\ PairIs(f, p, l)
    BY <2>6, <2>7, <2>9 DEF PairIs
  <2> QED BY <2>10 DEF j, l
<1>3. \A n \in Coeff : PairIs(f, p, n)
  <2> TAKE n \in Coeff
  <2>1. \E t \in 0..127 : n = 2 * t \/ n = 2 * t + 1
    <3>1. n \div 2 \in 0..127 /\ (n = 2 * (n \div 2) \/ n = 2 * (n \div 2) + 1)
      BY DEF Coeff, KYBER_N
    <3> QED BY <3>1
  <2>2. PICK t \in 0..127 : n = 2 * t \/ n = 2 * t + 1
    BY <2>1
  <2> HIDE DEF f, p
  <2>3. CASE n = 2 * t
    BY <1>2, <2>3
  <2>4. CASE n = 2 * t + 1
    BY <1>2, <2>4
  <2> QED BY <2>2, <2>3, <2>4
<1>4. f = [n \in Coeff |-> f[n]]
  OBVIOUS
<1> HIDE DEF f, p
<1>5. f \in Poly
  BY <1>3, <1>4 DEF Poly, Within, PairIs
<1> QED BY <1>1, <1>3, <1>5 DEF Bounded, Multiple, p, PairIs

---------------------------------------------------------------------------
(* Back up.                                                                 *)

LEMMA OppositeRoots ==
  ASSUME NEW u \in 1..127, NEW k \in 0..127,
         k = IF u = 1 THEN 1 ELSE IF u < 4 THEN 5 - u ELSE IF u < 8 THEN 11 - u
             ELSE IF u < 16 THEN 23 - u ELSE IF u < 32 THEN 47 - u
             ELSE IF u < 64 THEN 95 - u ELSE 191 - u
  PROVE  Congruent(Root(k) * Root(u), -1)
BY DEF Root, zeta, zetas, Congruent, KYBER_Q

LEMMA Opposite ==
  ASSUME NEW h \in Lens, NEW t \in 0..((128 \div h) - 1)
  PROVE  /\ 256 \div h - 1 - t \in 0..127
         /\ Congruent(Root(256 \div h - 1 - t) * LayerRoot(h, t), -1)
<1> DEFINE k == 256 \div h - 1 - t
           u == 128 \div h + t
<1>1. /\ k \in 0..127 /\ u \in 1..127
      /\ k = IF u = 1 THEN 1 ELSE IF u < 4 THEN 5 - u ELSE IF u < 8 THEN 11 - u
             ELSE IF u < 16 THEN 23 - u ELSE IF u < 32 THEN 47 - u
             ELSE IF u < 64 THEN 95 - u ELSE 191 - u
  BY DEF Lens
<1>2. LayerRoot(h, t) = Root(u)
  BY DEF LayerRoot
<1> HIDE DEF k, u
<1>3. Congruent(Root(k) * Root(u), -1)
  BY <1>1, OppositeRoots, SMTT(30)
<1> QED BY <1>1, <1>2, <1>3 DEF k

Undoes(a, b, s, z, k, x, y, v, w) ==
  /\ a \in Int /\ b \in Int /\ s \in Int /\ z \in Int /\ k \in Int
  /\ x \in Int /\ y \in Int /\ v \in Int /\ w \in Int
  /\ Congruent(x, a + s * b) /\ Congruent(y, a - s * b) /\ Congruent(z * s, -1)
  /\ Congruent(v, k * x) /\ Congruent(w, k * y)

LEMMA Doubled ==
  ASSUME NEW a, NEW b, NEW s, NEW z, NEW k, NEW x, NEW y, NEW v, NEW w,
         Undoes(a, b, s, z, k, x, y, v, w)
  PROVE  Congruent(v + w, (2 * k) * a) /\ Congruent(z * (w - v), (2 * k) * b)
<1>0. /\ a \in Int /\ b \in Int /\ s \in Int /\ z \in Int /\ k \in Int
      /\ x \in Int /\ y \in Int /\ v \in Int /\ w \in Int
      /\ Congruent(x, a + s * b) /\ Congruent(y, a - s * b)
         /\ Congruent(z * s, -1)
      /\ Congruent(v, k * x) /\ Congruent(w, k * y)
  BY DEF Undoes
<1> USE <1>0
<1> DEFINE c == a + s * b  d == a - s * b  e == k * x  f == k * y  o == -1
           g == k * (c + d)  i == k * (d - c)  l == (2 * k) * b  m == z * s
           n == -l
<1>1. /\ c \in Int /\ d \in Int /\ e \in Int /\ f \in Int /\ g \in Int
         /\ i \in Int
      /\ l \in Int /\ m \in Int /\ n \in Int /\ o \in Int
      /\ e + f = k * (x + y) /\ f - e = k * (y - x)
      /\ g = (2 * k) * a /\ z * i = m * n /\ o * n = l
  <2>1. c + d = 2 * a /\ d - c = -(2 * (s * b)) /\ s * b \in Int
    OBVIOUS
  <2>2. g = (2 * k) * a
    BY <2>1
  <2>3. i = -(k * (2 * (s * b)))
    BY <2>1
  <2>4. z * i = -(z * (k * (2 * (s * b))))
    BY <2>1, <2>3
  <2>5. m * n = -((z * s) * ((2 * k) * b))
    OBVIOUS
  <2>6. z * (k * (2 * (s * b))) = (z * s) * ((2 * k) * b)
    OBVIOUS
  <2> QED BY <2>2, <2>4, <2>5, <2>6
<1>2. /\ Congruent(x, c) /\ Congruent(y, d) /\ Congruent(m, o)
      /\ Congruent(v, e) /\ Congruent(w, f)
  OBVIOUS
<1>3. Congruent(k, k) /\ Congruent(z, z) /\ Congruent(n, n)
  BY <1>1, CongRefl
<1> HIDE DEF c, d, e, f, i, l, m, n, o
<1>4. Congruent(x + y, c + d) /\ Congruent(y - x, d - c)
  BY <1>1, <1>2, CongSum
<1>5. Congruent(v + w, e + f) /\ Congruent(w - v, f - e)
  BY <1>1, <1>2, CongSum
<1> DEFINE p == x + y  q == c + d  r == y - x  t == d - c
<1>6. p \in Int /\ q \in Int /\ r \in Int /\ t \in Int
      /\ Congruent(p, q) /\ Congruent(r, t)
      /\ e + f = k * p /\ f - e = k * r /\ g = k * q /\ i = k * t
  BY <1>1, <1>4 DEF i
<1> HIDE DEF p, q, r, t, g
<1>7. Congruent(k * p, k * q) /\ Congruent(k * r, k * t)
  BY <1>3, <1>6, CongProduct
<1>8. Congruent(v + w, g)
  <2> DEFINE A == v + w  B == e + f
  <2>1. A \in Int /\ B \in Int /\ Congruent(A, B) /\ Congruent(B, g)
        /\ g \in Int
    BY <1>1, <1>5, <1>6, <1>7
  <2> HIDE DEF A, B
  <2>2. Congruent(A, g)
    BY <2>1, CongTrans
  <2> QED BY <2>2 DEF A
<1>9. Congruent(z * (w - v), z * i)
  <2> DEFINE A == w - v  B == f - e
  <2>1. A \in Int /\ B \in Int /\ Congruent(A, B) /\ Congruent(B, i)
    BY <1>1, <1>5, <1>6, <1>7
  <2> HIDE DEF A, B
  <2>2. Congruent(A, i)
    BY <1>1, <2>1, CongTrans
  <2>3. Congruent(z * A, z * i)
    BY <1>1, <1>3, <2>1, <2>2, CongProduct
  <2> QED BY <2>3 DEF A
<1>10. Congruent(m * n, o * n)
  BY <1>1, <1>2, <1>3, CongProduct
<1>11. Congruent(z * (w - v), l)
  <2> DEFINE A == z * (w - v)  B == z * i
  <2>1. A \in Int /\ B \in Int /\ Congruent(A, B) /\ Congruent(B, l)
    BY <1>1, <1>9, <1>10
  <2> HIDE DEF A, B
  <2>2. Congruent(A, l)
    BY <1>1, <2>1, CongTrans
  <2> QED BY <2>2 DEF A
<1> QED BY <1>1, <1>8, <1>11 DEF l

LEMMA PolyReduced ==
  ASSUME NEW r, Bounded(r, 32767)
  PROVE  Bounded(poly_reduce(r), 1664) /\ Multiple(poly_reduce(r), r, 1)
<1> DEFINE f == [i \in Coeff |-> barrett_reduce(r[i])]
<1>1. poly_reduce(r) = f
  <2>1. poly_reduce(r) = Tabulate(f)
    BY DEF poly_reduce
  <2> HIDE DEF f
  <2> QED BY <2>1, Tabulated
<1>2. ASSUME NEW j \in Coeff
      PROVE  Within(f[j], -1664, 1664) /\ Congruent(f[j], 1 * r[j])
  <2>1. Within(r[j], -32767, 32767)
    BY BoundedAt
  <2>2. Within(r[j], -32768, 32767) /\ 1 * r[j] = r[j]
    BY <2>1 DEF Within
  <2>3. f[j] = barrett_reduce(r[j])
    OBVIOUS
  <2> HIDE DEF f
  <2>4. /\ Within(barrett_reduce(r[j]), -1664, 1664)
        /\ Congruent(barrett_reduce(r[j]), r[j])
    BY <2>2, Barrett
  <2> QED BY <2>2, <2>3, <2>4
<1>3. f = [i \in Coeff |-> f[i]]
  OBVIOUS
<1> HIDE DEF f
<1>4. f \in Poly
  BY <1>2, <1>3 DEF Poly, Within
<1> QED BY <1>1, <1>2, <1>4 DEF Bounded, Multiple

AscentIs(f, p, n, k) ==
  Within(f[n], -6656, 6656) /\ Congruent(f[n], (2 * k) * p[n])

LEMMA MultipleAt ==
  ASSUME NEW q, NEW p, NEW c, Multiple(q, p, c), NEW j \in Coeff
  PROVE  Congruent(q[j], c * p[j])
BY DEF Multiple

LEMMA PolyAt ==
  ASSUME NEW r \in Poly, NEW j \in Coeff PROVE r[j] \in Int
BY DEF Poly

(* A turn of invntt's outer loop takes a multiple of r to twice the multiple *)
(* of what r was made of.                                                   *)
LEMMA LayerAscends ==
  ASSUME NEW h \in Lens, NEW p \in Poly, NEW r \in Poly, Descends(p, r, h),
         NEW k \in Int, NEW q, Bounded(q, 6656), Multiple(q, r, k)
  PROVE  Bounded(invntt_layer(q, h), 6656)
         /\ Multiple(invntt_layer(q, h), p, 2 * k)
<1> DEFINE f == [j \in Coeff |->
    LET z == zeta(256 \div h - 1 - Block(j, h))
    IN  IF InUpperHalf(j, h) THEN fqmul(z, int16(q[j] - q[j - h]))
                             ELSE barrett_reduce(int16(q[j] + q[j + h]))]
<1>1. invntt_layer(q, h) = f
  <2>1. invntt_layer(q, h) = Tabulate(f)
    BY DEF invntt_layer
  <2> HIDE DEF f
  <2> QED BY <2>1, Tabulated
<1>2. ASSUME NEW t \in 0..((128 \div h) - 1), NEW i \in 0..(h - 1)
      PROVE  AscentIs(f, p, 2 * h * t + i, k)
             /\ AscentIs(f, p, 2 * h * t + h + i, k)
  <2> DEFINE j == 2 * h * t + i
             l == 2 * h * t + h + i
             c == 256 \div h - 1 - t
             s == LayerRoot(h, t)
             z == Root(c)
  <2>1. /\ j \in Coeff /\ l \in Coeff /\ l = j + h /\ j = l - h
        /\ j \div h = 2 * t /\ l \div h = 2 * t + 1
        /\ j \div (2 * h) = t /\ l \div (2 * h) = t
    BY Places
  <2>2. c \in 0..127 /\ Congruent(z * s, -1)
    BY Opposite
  <2>3. s \in Int /\ t \in Nat
    BY Blocks
  <2>4. ~InUpperHalf(j, h) /\ InUpperHalf(l, h) /\ Block(l, h) = t
    BY <2>1, <2>3 DEF InUpperHalf, Block
  <2>5. Congruent(r[j], p[j] + s * p[l]) /\ Congruent(r[l], p[j] - s * p[l])
    BY DEF Descends
  <2>6. z \in Int
    BY <2>2, RootInt
  <2> HIDE DEF j, l, c, s
  <2>7. /\ f[j] = barrett_reduce(int16(q[j] + q[l]))
        /\ f[l] = fqmul(zeta(c), int16(q[l] - q[j]))
    BY <2>1, <2>4 DEF c
  <2> HIDE DEF f, z
  <2> DEFINE v == q[j]  w == q[l]
  <2>8. Within(v, -6656, 6656) /\ Within(w, -6656, 6656)
    <3>1. j \in Coeff /\ l \in Coeff
      BY <2>1
    <3> QED BY <3>1, BoundedAt
  <2>9. Congruent(v, k * r[j]) /\ Congruent(w, k * r[l])
    <3>1. j \in Coeff /\ l \in Coeff
      BY <2>1
    <3> QED BY <3>1, MultipleAt
  <2> HIDE DEF v, w
  <2>10. /\ Within(v + w, -32768, 32767) /\ Within(w - v, -32767, 32767)
         /\ Fits(v + w) /\ Fits(w - v) /\ v \in Int /\ w \in Int
    BY <2>8 DEF Within, Fits
  <2>11. int16(v + w) = v + w /\ int16(w - v) = w - v
    BY <2>10, NoWrap
  <2>12. p[j] \in Int /\ p[l] \in Int /\ r[j] \in Int /\ r[l] \in Int
    <3>1. j \in Coeff /\ l \in Coeff
      BY <2>1
    <3> QED BY <3>1, PolyAt
  <2>13. /\ Congruent(v + w, (2 * k) * p[j])
         /\ Congruent(z * (w - v), (2 * k) * p[l])
    <3> DEFINE pj == p[j]  pl == p[l]  rj == r[j]  rl == r[l]
    <3>1. /\ pj \in Int /\ pl \in Int /\ rj \in Int /\ rl \in Int
          /\ Congruent(rj, pj + s * pl) /\ Congruent(rl, pj - s * pl)
          /\ Congruent(v, k * rj) /\ Congruent(w, k * rl)
      BY <2>5, <2>9, <2>12
    <3> HIDE DEF pj, pl, rj, rl
    <3>2. Congruent(v + w, (2 * k) * pj) /\ Congruent(z * (w - v), (2 * k) * pl)
      <4>1. Undoes(pj, pl, s, z, k, rj, rl, v, w)
        BY <2>2, <2>3, <2>6, <2>10, <3>1 DEF Undoes
      <4> QED BY <4>1, Doubled
    <3> QED BY <3>2 DEF pj, pl
  <2>14. AscentIs(f, p, j, k)
    <3> DEFINE x == v + w  y == barrett_reduce(x)  u == (2 * k) * p[j]
    <3>1. f[j] = y
      BY <2>7, <2>11 DEF v, w
    <3>2. Within(x, -32768, 32767) /\ x \in Int /\ u \in Int /\ Congruent(x, u)
      BY <2>10, <2>12, <2>13
    <3> HIDE DEF x, u
    <3>3. Within(y, -1664, 1664) /\ Congruent(y, x)
      BY <3>2, Barrett
    <3> HIDE DEF y
    <3>4. y \in Int /\ Within(y, -6656, 6656)
      BY <3>3 DEF Within
    <3>5. Congruent(y, u)
      BY <3>2, <3>3, <3>4, CongTrans
    <3> QED BY <3>1, <3>4, <3>5 DEF AscentIs, u
  <2>15. AscentIs(f, p, l, k)
    <3> DEFINE x == w - v  y == fqmul(zeta(c), x)  e == z * x  u == (2 * k) * p[l]
    <3>1. f[l] = y
      BY <2>7, <2>11 DEF v, w
    <3>2. /\ Within(x, -32767, 32767) /\ x \in Int /\ e \in Int /\ u \in Int
          /\ Congruent(e, u)
      BY <2>6, <2>10, <2>12, <2>13
    <3> HIDE DEF x, u
    <3>3. Within(y, -3328, 3328) /\ Congruent(y, e)
      BY <2>2, <3>2, ZetaTimes DEF z
    <3> HIDE DEF y, e
    <3>4. y \in Int /\ Within(y, -6656, 6656)
      BY <3>3 DEF Within
    <3>5. Congruent(y, u)
      BY <3>2, <3>3, <3>4, CongTrans
    <3> QED BY <3>1, <3>4, <3>5 DEF AscentIs, u
  <2> QED BY <2>14, <2>15 DEF j, l
<1>3. \A n \in Coeff : AscentIs(f, p, n, k)
  <2> TAKE n \in Coeff
  <2>1. PICK t \in 0..((128 \div h) - 1), i \in 0..(h - 1) :
           n = 2 * h * t + i \/ n = 2 * h * t + h + i
    BY EveryPlace
  <2> HIDE DEF f
  <2> QED BY <1>2, <2>1
<1>4. f = [c \in Coeff |-> f[c]]
  OBVIOUS
<1> HIDE DEF f
<1>5. f \in Poly
  BY <1>3, <1>4 DEF Poly, Within, AscentIs
<1> QED BY <1>1, <1>3, <1>5 DEF Bounded, Multiple, AscentIs

(* g is r after each turn of invntt's outer loop.                           *)
BackTurns(g, r) ==
  /\ g[0] = r
  /\ \A n \in 1..7 : g[n] = invntt_layer(g[n - 1], Half(8 - n))
  /\ invntt(r) = [j \in Coeff |-> fqmul(g[7][j], 1441)]

LEMMA PowerIs ==
  ASSUME NEW n \in 1..7 PROVE 2^n = Half(8 - n) /\ 8 - n \in 1..7
<1>1. CASE n = 1
  <2>1. 8 - n = 7
    BY <1>1
  <2> QED BY <1>1, <2>1, HalfIs, Lengths
<1>2. CASE n = 2
  <2>1. 8 - n = 6
    BY <1>2
  <2> QED BY <1>2, <2>1, HalfIs, Lengths
<1>3. CASE n = 3
  <2>1. 8 - n = 5
    BY <1>3
  <2> QED BY <1>3, <2>1, HalfIs, Lengths
<1>4. CASE n = 4
  <2>1. 8 - n = 4
    BY <1>4
  <2> QED BY <1>4, <2>1, HalfIs, Lengths
<1>5. CASE n = 5
  <2>1. 8 - n = 3
    BY <1>5
  <2> QED BY <1>5, <2>1, HalfIs, Lengths
<1>6. CASE n = 6
  <2>1. 8 - n = 2
    BY <1>6
  <2> QED BY <1>6, <2>1, HalfIs, Lengths
<1>7. CASE n = 7
  <2>1. 8 - n = 1
    BY <1>7
  <2> QED BY <1>7, <2>1, HalfIs, Lengths
<1> QED BY <1>1, <1>2, <1>3, <1>4, <1>5, <1>6, <1>7

LEMMA InvnttTurns == ASSUME NEW r PROVE \E g : BackTurns(g, r)
<1> DEFINE G(g) == g = [n \in 0..7 |-> IF n = 0 THEN r
                                       ELSE invntt_layer(g[n - 1], 2^n)]
           p1 == invntt_layer(r, Half(7))
           p2 == invntt_layer(p1, Half(6))
           p3 == invntt_layer(p2, Half(5))
           p4 == invntt_layer(p3, Half(4))
           p5 == invntt_layer(p4, Half(3))
           p6 == invntt_layer(p5, Half(2))
           p7 == invntt_layer(p6, Half(1))
<1>1. \E g : G(g)
  <2>1. /\ p1 = invntt_layer(r, Half(7))
        /\ p2 = invntt_layer(p1, Half(6))
        /\ p3 = invntt_layer(p2, Half(5))
        /\ p4 = invntt_layer(p3, Half(4))
        /\ p5 = invntt_layer(p4, Half(3))
        /\ p6 = invntt_layer(p5, Half(2))
        /\ p7 = invntt_layer(p6, Half(1))
    OBVIOUS
  <2> HIDE DEF p1, p2, p3, p4, p5, p6, p7
  <2> DEFINE g == [n \in 0..7 |-> IF n = 0 THEN r ELSE IF n = 1 THEN p1
                     ELSE IF n = 2 THEN p2 ELSE IF n = 3 THEN p3
                     ELSE IF n = 4 THEN p4 ELSE IF n = 5 THEN p5
                     ELSE IF n = 6 THEN p6 ELSE p7]
  <2>2. /\ g[0] = r /\ g[1] = p1 /\ g[2] = p2 /\ g[3] = p3 /\ g[4] = p4
        /\ g[5] = p5 /\ g[6] = p6 /\ g[7] = p7 /\ g = [n \in 0..7 |-> g[n]]
    OBVIOUS
  <2> HIDE DEF g
  <2>3. ASSUME NEW n \in 1..7 PROVE g[n] = invntt_layer(g[n - 1], Half(8 - n))
    <3>1. CASE n = 1
      <4>1. n - 1 = 0 /\ 8 - n = 7
        BY <3>1
      <4> QED BY <2>1, <2>2, <3>1, <4>1
    <3>2. CASE n = 2
      <4>1. n - 1 = 1 /\ 8 - n = 6
        BY <3>2
      <4> QED BY <2>1, <2>2, <3>2, <4>1
    <3>3. CASE n = 3
      <4>1. n - 1 = 2 /\ 8 - n = 5
        BY <3>3
      <4> QED BY <2>1, <2>2, <3>3, <4>1
    <3>4. CASE n = 4
      <4>1. n - 1 = 3 /\ 8 - n = 4
        BY <3>4
      <4> QED BY <2>1, <2>2, <3>4, <4>1
    <3>5. CASE n = 5
      <4>1. n - 1 = 4 /\ 8 - n = 3
        BY <3>5
      <4> QED BY <2>1, <2>2, <3>5, <4>1
    <3>6. CASE n = 6
      <4>1. n - 1 = 5 /\ 8 - n = 2
        BY <3>6
      <4> QED BY <2>1, <2>2, <3>6, <4>1
    <3>7. CASE n = 7
      <4>1. n - 1 = 6 /\ 8 - n = 1
        BY <3>7
      <4> QED BY <2>1, <2>2, <3>7, <4>1
    <3> QED BY <3>1, <3>2, <3>3, <3>4, <3>5, <3>6, <3>7
  <2>4. \A n \in 1..7 : 2^n = Half(8 - n)
    BY PowerIs
  <2>5. ASSUME NEW n \in 0..7
        PROVE  g[n] = IF n = 0 THEN r ELSE invntt_layer(g[n - 1], 2^n)
    <3>1. CASE n = 0
      BY <2>2, <3>1
    <3>2. CASE n # 0
      <4>1. n \in 1..7
        BY <3>2
      <4> QED BY <2>3, <2>4, <3>2, <4>1
    <3> QED BY <3>1, <3>2
  <2> QED BY <2>2, <2>5
<1> DEFINE h == CHOOSE g : G(g)
           b == [j \in Coeff |-> fqmul(h[7][j], 1441)]
<1>2. G(h)
  <2> HIDE DEF G
  <2> QED BY <1>1
<1>3. invntt(r) = b
  <2>1. invntt(r) = Tabulate(b)
    BY DEF invntt
  <2> HIDE DEF b
  <2> QED BY <2>1, Tabulated
<1> HIDE DEF h
<1>4. h[0] = r /\ \A n \in 1..7 : h[n] = invntt_layer(h[n - 1], Half(8 - n))
  <2>1. 0 \in 0..7 /\ \A n \in 1..7 : n \in 0..7 /\ n # 0
    OBVIOUS
  <2>2. \A n \in 1..7 : 2^n = Half(8 - n)
    BY PowerIs
  <2> QED BY <1>2, <2>1, <2>2
<1> QED BY <1>3, <1>4 DEF BackTurns

(* The products of two transforms' turns, a level each.                     *)
Size(n) == IF n = 0 THEN 256 ELSE Half(n)

Products(g, k) == [n \in 0..7 |-> LevelProduct(g[n], k[n], Size(n))]

LEMMA SizeIs ==
  ASSUME NEW n \in 1..7
  PROVE  Size(n) = Half(n) /\ Size(n - 1) = 2 * Half(n) /\ Half(n) \in Lens
<1>1. Size(n) = Half(n) /\ Half(n) \in Lens /\ BlockLen(n) = 2 * Half(n)
  BY LengthOf DEF Size
<1>2. n - 1 = 0 <=> n = 1
  OBVIOUS
<1>3. Size(n - 1) = BlockLen(n)
  BY <1>2 DEF Size, BlockLen
<1> QED BY <1>1, <1>3

LEMMA ProductsDescend ==
  ASSUME NEW a, NEW b, NEW g, NEW k, Bounded(a, 9471), Turns(g, a),
         Bounded(b, 9471), Turns(k, b), NEW n \in 1..7
  PROVE  LET p == Products(g, k)
         IN  /\ p[n - 1] \in Poly /\ p[n] \in Poly
             /\ Descends(p[n - 1], p[n], Half(n))
<1> DEFINE h == Half(n)  u == g[n - 1]  v == k[n - 1]  u2 == g[n]  v2 == k[n]
           p == Products(g, k)
<1>1. h \in Lens /\ Size(n - 1) = 2 * h /\ Size(n) = h
  BY SizeIs
<1>2. n \in 0..7 /\ n - 1 \in 0..7
  OBVIOUS
<1>3. u \in Poly /\ v \in Poly /\ u2 \in Poly /\ v2 \in Poly
  <2>1. \A c \in 0..7 : Bounded(g[c], 9471 + 3328 * c)
        /\ Bounded(k[c], 9471 + 3328 * c)
    BY NttDescends
  <2>2. \A c \in 0..7 : g[c] \in Poly /\ k[c] \in Poly
    BY <2>1 DEF Bounded
  <2> QED BY <1>2, <2>2
<1>4. Descends(u, u2, h) /\ Descends(v, v2, h)
  BY NttDescends
<1>5. p[n - 1] = LevelProduct(u, v, 2 * h) /\ p[n] = LevelProduct(u2, v2, h)
  BY <1>1, <1>2 DEF Products
<1> HIDE DEF h, u, v, u2, v2, p
<1>6. /\ LevelProduct(u, v, 2 * h) \in Poly /\ LevelProduct(u2, v2, h) \in Poly
  BY <1>1, <1>3, LevelProductType
<1>7. Descends(LevelProduct(u, v, 2 * h), LevelProduct(u2, v2, h), h)
  BY <1>1, <1>3, <1>4, ProductDescends
<1> QED BY <1>5, <1>6, <1>7 DEF h, p

(* p is a product at each level.                                            *)
Tower(p) ==
  \A n \in 1..7 : /\ p[n - 1] \in Poly /\ p[n] \in Poly
                  /\ Descends(p[n - 1], p[n], Half(n))

LEMMA ClimbOne ==
  ASSUME NEW p, NEW q, NEW g, NEW n \in 1..7, NEW k \in Int,
         Tower(p), BackTurns(g, q),
         Bounded(g[n - 1], 6656), Multiple(g[n - 1], p[8 - n], k)
  PROVE  Bounded(g[n], 6656) /\ Multiple(g[n], p[7 - n], 2 * k)
<1> DEFINE m == 8 - n  h == Half(m)  u == p[m - 1]  v == p[m]  x == g[n - 1]
<1>1. m \in 1..7 /\ m - 1 = 7 - n
  OBVIOUS
<1>2. u \in Poly /\ v \in Poly /\ Descends(u, v, h)
  BY <1>1 DEF Tower
<1>3. h \in Lens
  BY <1>1, LengthOf
<1>4. g[n] = invntt_layer(x, h)
  BY DEF BackTurns
<1>5. Bounded(x, 6656) /\ Multiple(x, v, k)
  OBVIOUS
<1> HIDE DEF m, h, u, v, x
<1>6. Bounded(invntt_layer(x, h), 6656)
      /\ Multiple(invntt_layer(x, h), u, 2 * k)
  BY <1>2, <1>3, <1>5, LayerAscends
<1> QED BY <1>1, <1>4, <1>6 DEF u

LEMMA Climb ==
  ASSUME NEW p, NEW q, NEW g, Tower(p), BackTurns(g, q),
         Bounded(q, 6656), Multiple(q, p[7], 169)
  PROVE  Bounded(g[7], 6656) /\ Multiple(g[7], p[0], 21632)
<1>0. Bounded(g[0], 6656) /\ Multiple(g[0], p[7], 169)
  BY DEF BackTurns
<1>1. Bounded(g[1], 6656) /\ Multiple(g[1], p[6], 338)
  <2> DEFINE n == 1  k == 169
  <2>1. /\ n \in 1..7 /\ k \in Int /\ n - 1 = 0 /\ 8 - n = 7 /\ 7 - n = 6
        /\ 2 * k = 338
    OBVIOUS
  <2>2. Bounded(g[n - 1], 6656) /\ Multiple(g[n - 1], p[8 - n], k)
    BY <1>0, <2>1
  <2>3. n = 1
    OBVIOUS
  <2> HIDE DEF n, k
  <2>4. Bounded(g[n], 6656) /\ Multiple(g[n], p[7 - n], 2 * k)
    BY <2>1, <2>2, ClimbOne
  <2> QED BY <2>1, <2>3, <2>4
<1>2. Bounded(g[2], 6656) /\ Multiple(g[2], p[5], 676)
  <2> DEFINE n == 2  k == 338
  <2>1. /\ n \in 1..7 /\ k \in Int /\ n - 1 = 1 /\ 8 - n = 6 /\ 7 - n = 5
        /\ 2 * k = 676
    OBVIOUS
  <2>2. Bounded(g[n - 1], 6656) /\ Multiple(g[n - 1], p[8 - n], k)
    BY <1>1, <2>1
  <2>3. n = 2
    OBVIOUS
  <2> HIDE DEF n, k
  <2>4. Bounded(g[n], 6656) /\ Multiple(g[n], p[7 - n], 2 * k)
    BY <2>1, <2>2, ClimbOne
  <2> QED BY <2>1, <2>3, <2>4
<1>3. Bounded(g[3], 6656) /\ Multiple(g[3], p[4], 1352)
  <2> DEFINE n == 3  k == 676
  <2>1. /\ n \in 1..7 /\ k \in Int /\ n - 1 = 2 /\ 8 - n = 5 /\ 7 - n = 4
        /\ 2 * k = 1352
    OBVIOUS
  <2>2. Bounded(g[n - 1], 6656) /\ Multiple(g[n - 1], p[8 - n], k)
    BY <1>2, <2>1
  <2>3. n = 3
    OBVIOUS
  <2> HIDE DEF n, k
  <2>4. Bounded(g[n], 6656) /\ Multiple(g[n], p[7 - n], 2 * k)
    BY <2>1, <2>2, ClimbOne
  <2> QED BY <2>1, <2>3, <2>4
<1>4. Bounded(g[4], 6656) /\ Multiple(g[4], p[3], 2704)
  <2> DEFINE n == 4  k == 1352
  <2>1. /\ n \in 1..7 /\ k \in Int /\ n - 1 = 3 /\ 8 - n = 4 /\ 7 - n = 3
        /\ 2 * k = 2704
    OBVIOUS
  <2>2. Bounded(g[n - 1], 6656) /\ Multiple(g[n - 1], p[8 - n], k)
    BY <1>3, <2>1
  <2>3. n = 4
    OBVIOUS
  <2> HIDE DEF n, k
  <2>4. Bounded(g[n], 6656) /\ Multiple(g[n], p[7 - n], 2 * k)
    BY <2>1, <2>2, ClimbOne
  <2> QED BY <2>1, <2>3, <2>4
<1>5. Bounded(g[5], 6656) /\ Multiple(g[5], p[2], 5408)
  <2> DEFINE n == 5  k == 2704
  <2>1. /\ n \in 1..7 /\ k \in Int /\ n - 1 = 4 /\ 8 - n = 3 /\ 7 - n = 2
        /\ 2 * k = 5408
    OBVIOUS
  <2>2. Bounded(g[n - 1], 6656) /\ Multiple(g[n - 1], p[8 - n], k)
    BY <1>4, <2>1
  <2>3. n = 5
    OBVIOUS
  <2> HIDE DEF n, k
  <2>4. Bounded(g[n], 6656) /\ Multiple(g[n], p[7 - n], 2 * k)
    BY <2>1, <2>2, ClimbOne
  <2> QED BY <2>1, <2>3, <2>4
<1>6. Bounded(g[6], 6656) /\ Multiple(g[6], p[1], 10816)
  <2> DEFINE n == 6  k == 5408
  <2>1. /\ n \in 1..7 /\ k \in Int /\ n - 1 = 5 /\ 8 - n = 2 /\ 7 - n = 1
        /\ 2 * k = 10816
    OBVIOUS
  <2>2. Bounded(g[n - 1], 6656) /\ Multiple(g[n - 1], p[8 - n], k)
    BY <1>5, <2>1
  <2>3. n = 6
    OBVIOUS
  <2> HIDE DEF n, k
  <2>4. Bounded(g[n], 6656) /\ Multiple(g[n], p[7 - n], 2 * k)
    BY <2>1, <2>2, ClimbOne
  <2> QED BY <2>1, <2>3, <2>4
<1>7. Bounded(g[7], 6656) /\ Multiple(g[7], p[0], 21632)
  <2> DEFINE n == 7  k == 10816
  <2>1. /\ n \in 1..7 /\ k \in Int /\ n - 1 = 6 /\ 8 - n = 1 /\ 7 - n = 0
        /\ 2 * k = 21632
    OBVIOUS
  <2>2. Bounded(g[n - 1], 6656) /\ Multiple(g[n - 1], p[8 - n], k)
    BY <1>6, <2>1
  <2>3. n = 7
    OBVIOUS
  <2> HIDE DEF n, k
  <2>4. Bounded(g[n], 6656) /\ Multiple(g[n], p[7 - n], 2 * k)
    BY <2>1, <2>2, ClimbOne
  <2> QED BY <2>1, <2>3, <2>4
<1> QED BY <1>7

(* 21632 * 169 * 1441 is 1 modulo 3329.                                     *)
LEMMA Finished ==
  ASSUME NEW x, NEW y \in Int, Within(x, -6656, 6656), Congruent(x, 21632 * y)
  PROVE  /\ Within(fqmul(x, 1441), -3328, 3328)
         /\ Congruent(fqmul(x, 1441), y)
<1> DEFINE m == fqmul(x, 1441)  e == (x * 169) * 1441  c == 243529
           d == 21632 * y  u == c * d
<1>1. x \in Int /\ Within(x * 1441, -109084672, 109084671)
  BY DEF Within
<1>2. Within(m, -3328, 3328) /\ Congruent(m, e)
  <2> DEFINE b == 1441
  <2>1. b \in Int /\ Within(x * b, -109084672, 109084671)
    BY <1>1
  <2> HIDE DEF b
  <2>2. /\ Within(fqmul(x, b), -3328, 3328)
        /\ Congruent(fqmul(x, b), (x * 169) * b)
    BY <1>1, <2>1, Fqmul
  <2> QED BY <2>2 DEF b
<1>3. e = c * x /\ c \in Int /\ d \in Int /\ u \in Int /\ e \in Int
      /\ Congruent(x, d)
  BY <1>1
<1>4. Congruent(u, y)
  <2> DEFINE k == 1582463 * y
  <2>1. Apart(u, y, k) /\ k \in Int
    BY DEF Apart
  <2> HIDE DEF k, u
  <2> QED BY <1>3, <2>1, CongBy
<1> HIDE DEF m, e, c, d
<1>5. Congruent(c, c)
  BY <1>3, CongRefl
<1>6. Congruent(c * x, c * d)
  BY <1>1, <1>3, <1>5, CongProduct
<1>7. m \in Int
  BY <1>2 DEF Within
<1>8. Congruent(e, u)
  BY <1>3, <1>6
<1> HIDE DEF u
<1>9. Congruent(m, u)
  BY <1>2, <1>3, <1>7, <1>8, CongTrans
<1>10. Congruent(m, y)
  BY <1>3, <1>4, <1>7, <1>9, CongTrans
<1> QED BY <1>2, <1>10 DEF m

Sums(g, f, n) ==
  /\ g[0] = 0
  /\ \A i \in 0..(n - 1) : g[i + 1] = g[i] + f[i]

LEMMA SumsTotal ==
  ASSUME NEW n \in Nat, NEW f \in Values(n), NEW g, Sums(g, f, n)
  PROVE  g[n] = Total(f, n)
<1> DEFINE p == Partial(f, n)
           S == {i \in 0..n : g[i] = p[i]}
<1>1. IsPartial(p, f, n)
  BY PartialIs
<1> HIDE DEF p
<1>2. 0 \in S /\ \A i \in 0..(n - 1) : i \in S => i + 1 \in S
  BY <1>1 DEF IsPartial, Sums
<1> HIDE DEF S
<1>3. n \in S
  <2>1. \A i \in 0..n : i \in S
    BY <1>2, UpTo
  <2> QED BY <2>1
<1> QED BY <1>3 DEF S, Total, p

LEMMA SumsExist ==
  ASSUME NEW n \in Nat, NEW f \in Values(n)
  PROVE  \E g : g = [i \in 0..n |-> IF i = 0 THEN 0 ELSE g[i - 1] + f[i - 1]]
<1> DEFINE p == Partial(f, n)
<1>1. IsPartial(p, f, n)
  BY PartialIs
<1> HIDE DEF p
<1>2. ASSUME NEW i \in 0..n
      PROVE  p[i] = IF i = 0 THEN 0 ELSE p[i - 1] + f[i - 1]
  <2>1. CASE i = 0
    BY <1>1, <2>1 DEF IsPartial
  <2>2. CASE i # 0
    <3> DEFINE j == i - 1
    <3>1. j \in 0..(n - 1) /\ i = j + 1
      BY <2>2
    <3> HIDE DEF j
    <3>2. p[j + 1] = p[j] + f[j]
      BY <1>1, <3>1 DEF IsPartial
    <3> QED BY <2>2, <3>1, <3>2 DEF j
  <2> QED BY <2>1, <2>2
<1>3. p = [i \in 0..n |-> p[i]]
  BY <1>1 DEF IsPartial
<1>4. p = [i \in 0..n |-> IF i = 0 THEN 0 ELSE p[i - 1] + f[i - 1]]
  BY <1>2, <1>3
<1> QED BY <1>4

(* The reference's sum is the top level's coefficient.                      *)
LEMMA ReferenceIs ==
  ASSUME NEW a \in Poly, NEW b \in Poly, NEW n \in Coeff
  PROVE  /\ LevelProduct(a, b, 256)[n] \in Int
         /\ ProductCoeff(a, b, n) = LevelProduct(a, b, 256)[n]
<1> DEFINE x == Blk(a, 256, 0)
           y == Blk(b, 256, 0)
           f == CycTerms(x, y, 256, -1, n)
           G(g) == g = [i \in 0..KYBER_N |->
                          IF i = 0 THEN 0
                          ELSE g[i - 1] + ProductTerm(a, b, n, i - 1)]
<1>1. LevelProduct(a, b, 256)[n] = Total(f, 256)
  <2>1. n \div 256 = 0 /\ n % 256 = n
    BY DEF Coeff, KYBER_N
  <2>2. Modulus(256, 0) = -1
    BY DEF Modulus
  <2> HIDE DEF x, y
  <2>3. LevelProduct(a, b, 256)[n] = Cyc(x, y, 256, -1, n)
    BY <2>1, <2>2 DEF LevelProduct, x, y
  <2> QED BY <2>3 DEF Cyc
<1>2. x \in Values(256) /\ y \in Values(256)
  <2>1. \A i \in 0..(256 - 1) : 256 * 0 + i \in Coeff
    BY DEF Coeff, KYBER_N
  <2>2. \A i \in 0..(256 - 1) : a[256 * 0 + i] \in Int /\ b[256 * 0 + i] \in Int
    BY <2>1, PolyAt
  <2> QED BY <2>2 DEF Blk, Values
<1>3. \A i \in 0..255 : x[i] = a[i] /\ y[i] = b[i]
  BY DEF Blk
<1>4. f \in Values(256)
  <2> DEFINE c == -1  m == 256
  <2>1. c \in Int /\ m \in Nat /\ x \in Values(m) /\ y \in Values(m)
        /\ n \in 0..(m - 1)
    BY <1>2 DEF Coeff, KYBER_N
  <2> HIDE DEF c, m, x, y
  <2>2. CycTerms(x, y, m, c, n) \in Values(m)
    BY <2>1, CycType
  <2> QED BY <2>2 DEF c, m
<1>5. ASSUME NEW i \in 0..255 PROVE ProductTerm(a, b, n, i) = f[i]
  <2>0. f[i] \in Int
    <3> HIDE DEF f
    <3> QED BY <1>4 DEF Values
  <2>1. f[i] = IF i <= n THEN x[i] * y[n - i]
               ELSE (-1) * (x[i] * y[256 + n - i])
    <3>1. i \in 0..(256 - 1)
      OBVIOUS
    <3> HIDE DEF x, y
    <3> QED BY <3>1 DEF CycTerms
  <2>4. n \in Int /\ 0 <= n /\ n <= 255
    BY DEF Coeff, KYBER_N
  <2> HIDE DEF x, y, f
  <2>2. CASE i <= n
    <3>1. n - i \in 0..255
      BY <2>2, <2>4
    <3> QED BY <1>3, <2>0, <2>1, <2>2, <3>1 DEF ProductTerm
  <2>3. CASE ~(i <= n)
    <3> DEFINE l == 256 + n - i
    <3>1. l \in 0..255
      BY <2>3, <2>4
    <3>2. a[i] \in Int /\ b[l] \in Int
      <4>1. i \in Coeff /\ l \in Coeff
        BY <3>1 DEF Coeff, KYBER_N
      <4> QED BY <4>1, PolyAt
    <3>3. ProductTerm(a, b, n, i) = -(a[i] * b[l])
      BY <2>3 DEF ProductTerm, KYBER_N
    <3>4. f[i] = (-1) * (x[i] * y[l])
      BY <2>1, <2>3
    <3> HIDE DEF l
    <3>5. f[i] = (-1) * (a[i] * b[l])
      BY <1>3, <3>1, <3>4
    <3>6. (-1) * (a[i] * b[l]) = -(a[i] * b[l])
      BY <3>2
    <3> QED BY <2>0, <3>3, <3>5, <3>6
  <2> QED BY <2>2, <2>3
<1> HIDE DEF f, x, y
<1> DEFINE M == 256
<1>6. M \in Nat /\ f \in Values(M) /\ KYBER_N = M /\ 0..(M - 1) = 0..255
  BY <1>4 DEF KYBER_N
<1>7. \A i \in 0..(M - 1) : ProductTerm(a, b, n, i) = f[i]
  BY <1>5
<1> HIDE DEF M
<1>8. \E g : G(g)
  <2>1. PICK g : g = [i \in 0..M |-> IF i = 0 THEN 0
                                     ELSE g[i - 1] + f[i - 1]]
    BY <1>6, SumsExist
  <2>2. ASSUME NEW i \in 0..M
        PROVE  g[i] = IF i = 0 THEN 0
                      ELSE g[i - 1] + ProductTerm(a, b, n, i - 1)
    <3>1. g[i] = IF i = 0 THEN 0 ELSE g[i - 1] + f[i - 1]
      BY <2>1
    <3>2. CASE i = 0
      BY <3>1, <3>2
    <3>3. CASE i # 0
      <4>1. i - 1 \in 0..(M - 1)
        BY <1>6, <3>3
      <4>2. ProductTerm(a, b, n, i - 1) = f[i - 1]
        BY <1>7, <4>1
      <4> QED BY <3>1, <3>3, <4>2
    <3> QED BY <3>2, <3>3
  <2>3. g = [i \in 0..M |-> g[i]]
    BY <2>1
  <2>4. g = [i \in 0..M |-> IF i = 0 THEN 0
                   ELSE g[i - 1] + ProductTerm(a, b, n, i - 1)]
    BY <2>2, <2>3
  <2> QED BY <1>6, <2>4
<1> DEFINE s == CHOOSE h : G(h)
<1>9. G(s)
  <2> HIDE DEF G
  <2> QED BY <1>8
<1>10. ProductCoeff(a, b, n) = s[M]
  BY <1>6 DEF ProductCoeff
<1> HIDE DEF s
<1>11. Sums(s, f, M)
  <2>1. s = [i \in 0..M |-> IF i = 0 THEN 0
                   ELSE s[i - 1] + ProductTerm(a, b, n, i - 1)]
    BY <1>6, <1>9
  <2>2. s[0] = 0
    BY <1>6, <2>1
  <2>3. ASSUME NEW i \in 0..(M - 1) PROVE s[i + 1] = s[i] + f[i]
    <3>1. i + 1 \in 0..M /\ i + 1 # 0 /\ (i + 1) - 1 = i
      BY <1>6
    <3> DEFINE j == i + 1
    <3>2. j \in 0..M /\ j # 0 /\ j - 1 = i
      BY <3>1
    <3> HIDE DEF j
    <3>3. s[j] = s[j - 1] + ProductTerm(a, b, n, j - 1)
      BY <2>1, <3>2
    <3>4. ProductTerm(a, b, n, i) = f[i]
      BY <1>7
    <3> QED BY <3>2, <3>3, <3>4 DEF j
  <2> QED BY <2>2, <2>3 DEF Sums
<1>12. s[M] = Total(f, M) /\ Total(f, M) \in Int
  BY <1>6, <1>11, SumsTotal, TotalInt
<1>13. Total(f, 256) = Total(f, M)
  BY DEF M
<1> QED BY <1>1, <1>10, <1>12, <1>13

LEMMA InInterval ==
  ASSUME NEW lo \in Int, NEW hi \in Int, NEW x, Within(x, lo, hi)
  PROVE  x \in lo..hi
BY DEF Within

LEMMA OfInterval ==
  ASSUME NEW lo \in Int, NEW hi \in Int, NEW x \in lo..hi
  PROVE  Within(x, lo, hi)
BY DEF Within

LEMMA LastProduct ==
  ASSUME NEW a, NEW b, NEW a2, NEW b2,
         Bounded(a, 32767), Bounded(b, 32767), Bounded(a2, 1664), Bounded(b2, 1664),
         Multiple(a2, a, 1), Multiple(b2, b, 1), NEW q,
         Multiple(q, LevelProduct(a2, b2, 2), 169), Bounded(q, 6656)
  PROVE  Multiple(q, LevelProduct(a, b, 2), 169)
<1>1. a \in Poly /\ b \in Poly /\ a2 \in Poly /\ b2 \in Poly /\ q \in Poly
  BY DEF Bounded
<1> SUFFICES ASSUME NEW n \in Coeff
             PROVE  Congruent(q[n], 169 * LevelProduct(a, b, 2)[n])
  BY DEF Multiple
<1> DEFINE t == n \div 2  k == n % 2  c == Modulus(2, t)
           u == LevelProduct(a, b, 2)[n]  v == LevelProduct(a2, b2, 2)[n]
<1>2. t \in 0..((128 \div 1) - 1) /\ t \in 0..127 /\ k \in 0..(2 - 1)
  BY DEF Coeff, KYBER_N
<1>3. /\ u = Cyc(Blk(a, 2, t), Blk(b, 2, t), 2, c, k)
      /\ v = Cyc(Blk(a2, 2, t), Blk(b2, 2, t), 2, c, k)
  BY DEF LevelProduct
<1>4. c \in Int
  <2>1. basemul_zeta(2 * t) \in Int
    BY <1>2, SignedZeta DEF Within
  <2> QED BY <1>2, <2>1, SignedZeta
<1>5. \A i \in 0..(2 - 1) : 2 * t + i \in Coeff
  BY <1>2 DEF Coeff, KYBER_N
<1> HIDE DEF t, k, c, u, v
<1>6. /\ Blk(a, 2, t) \in Values(2) /\ Blk(b, 2, t) \in Values(2)
      /\ Blk(a2, 2, t) \in Values(2) /\ Blk(b2, 2, t) \in Values(2)
  <2>1. \A i \in 0..(2 - 1) : /\ a[2 * t + i] \in Int /\ b[2 * t + i] \in Int
                              /\ a2[2 * t + i] \in Int /\ b2[2 * t + i] \in Int
    BY <1>1, <1>5, PolyAt
  <2> QED BY <2>1 DEF Blk, Values
<1>7. /\ SameValues(Blk(a2, 2, t), Blk(a, 2, t), 2)
      /\ SameValues(Blk(b2, 2, t), Blk(b, 2, t), 2)
  <2> SUFFICES ASSUME NEW i \in 0..(2 - 1)
               PROVE  /\ Congruent(Blk(a2, 2, t)[i], Blk(a, 2, t)[i])
                      /\ Congruent(Blk(b2, 2, t)[i], Blk(b, 2, t)[i])
    BY DEF SameValues
  <2> DEFINE j == 2 * t + i
  <2>1. /\ Blk(a2, 2, t)[i] = a2[j] /\ Blk(a, 2, t)[i] = a[j]
        /\ Blk(b2, 2, t)[i] = b2[j] /\ Blk(b, 2, t)[i] = b[j]
    BY DEF Blk
  <2>2. j \in Coeff
    BY <1>5
  <2> HIDE DEF j
  <2>3. Congruent(a2[j], 1 * a[j]) /\ Congruent(b2[j], 1 * b[j])
    BY <2>2, MultipleAt
  <2>4. a[j] \in Int /\ b[j] \in Int
    BY <1>1, <2>2, PolyAt
  <2>5. 1 * a[j] = a[j] /\ 1 * b[j] = b[j]
    BY <2>4
  <2> QED BY <2>1, <2>3, <2>5
<1> DEFINE m == 2  f == 169
<1>8. m \in Nat /\ f \in Int /\ k \in 0..(m - 1)
  BY <1>2
<1>9. Congruent(v, u) /\ v \in Int /\ u \in Int
  <2> DEFINE x == Blk(a, 2, t)  y == Blk(b, 2, t)
             x2 == Blk(a2, 2, t)  y2 == Blk(b2, 2, t)
  <2>1. /\ x \in Values(m) /\ y \in Values(m) /\ x2 \in Values(m)
           /\ y2 \in Values(m)
        /\ SameValues(x2, x, m) /\ SameValues(y2, y, m)
        /\ u = Cyc(x, y, m, c, k) /\ v = Cyc(x2, y2, m, c, k)
    BY <1>3, <1>6, <1>7
  <2> HIDE DEF x, y, x2, y2, m
  <2>2. Congruent(c, c)
    BY <1>4, CongRefl
  <2>3. Congruent(Cyc(x2, y2, m, c, k), Cyc(x, y, m, c, k))
    BY <1>4, <1>8, <2>1, <2>2, CycCong
  <2>4. Cyc(x2, y2, m, c, k) \in Int /\ Cyc(x, y, m, c, k) \in Int
    BY <1>4, <1>8, <2>1, CycType
  <2> QED BY <2>1, <2>3, <2>4
<1>10. q[n] \in Int
  BY <1>1, PolyAt
<1>11. Congruent(q[n], f * v)
  <2>1. Congruent(q[n], 169 * LevelProduct(a2, b2, 2)[n])
    BY MultipleAt
  <2> QED BY <2>1 DEF v
<1> DEFINE e == f * v  g == f * u
<1>12. e \in Int /\ g \in Int
  BY <1>8, <1>9
<1>13. g = 169 * LevelProduct(a, b, 2)[n]
  BY DEF u
<1> HIDE DEF f
<1>14. Congruent(e, g)
  <2>1. Congruent(f, f)
    BY <1>8, CongRefl
  <2> QED BY <1>8, <1>9, <2>1, CongProduct
<1> HIDE DEF e, g
<1>15. Congruent(q[n], g)
  <2>1. Congruent(q[n], e)
    BY <1>11 DEF e
  <2> QED BY <1>10, <1>12, <1>14, <2>1, CongTrans
<1> QED BY <1>13, <1>15

(* The NTT multiplies modulo X^256 + 1, and no int16_t wraps on the way.    *)
THEOREM NttMultiplies ==
  ASSUME NEW a, NEW b, Bounded(a, 9471), Bounded(b, 9471), NEW n \in Coeff
  PROVE  /\ Congruent(NttProduct(a, b)[n], ProductCoeff(a, b, n))
         /\ Within(NttProduct(a, b)[n], -3328, 3328)
<1>1. PICK g : Turns(g, a)
  BY NttTurns
<1>2. PICK k : Turns(k, b)
  BY NttTurns
<1> DEFINE p == Products(g, k)
           u == ntt(a)  v == ntt(b)
           u2 == poly_reduce(u)  v2 == poly_reduce(v)
           q == poly_basemul_montgomery(u2, v2)
<1>3. /\ Bounded(u, 32767) /\ Bounded(v, 32767) /\ g[0] = a /\ k[0] = b
      /\ u = g[7] /\ v = k[7]
  <2>1. 7 \in 0..7 /\ 9471 + 3328 * 7 = 32767
    OBVIOUS
  <2>2. Bounded(g[7], 9471 + 3328 * 7) /\ Bounded(k[7], 9471 + 3328 * 7)
    BY <1>1, <1>2, <2>1, NttDescends
  <2>3. g[7] = u /\ k[7] = v /\ g[0] = a /\ k[0] = b
    BY <1>1, <1>2 DEF Turns
  <2> QED BY <2>1, <2>2, <2>3
<1>4. Tower(p)
  <2>1. ASSUME NEW i \in 1..7
        PROVE  /\ p[i - 1] \in Poly /\ p[i] \in Poly
               /\ Descends(p[i - 1], p[i], Half(i))
    BY <1>1, <1>2, ProductsDescend
  <2> HIDE DEF p
  <2> QED BY <2>1 DEF Tower
<1>5. p[0] = LevelProduct(a, b, 256) /\ p[7] = LevelProduct(u, v, 2)
  <2>1. Size(0) = 256 /\ Size(7) = 2
    BY HalfIs DEF Size
  <2> HIDE DEF u, v
  <2> QED BY <1>3, <2>1 DEF Products
<1>6. NttProduct(a, b) = invntt(q)
  BY DEF NttProduct, poly_ntt
<1> HIDE DEF p, u, v
<1>7. /\ Bounded(u2, 1664) /\ Multiple(u2, u, 1)
      /\ Bounded(v2, 1664) /\ Multiple(v2, v, 1)
  BY <1>3, PolyReduced
<1> HIDE DEF u2, v2
<1>8. Bounded(q, 6656) /\ Multiple(q, LevelProduct(u2, v2, 2), 169)
  BY <1>7, BasemulIs
<1> HIDE DEF q
<1>9. Multiple(q, p[7], 169)
  BY <1>3, <1>5, <1>7, <1>8, LastProduct
<1>10. PICK e : BackTurns(e, q)
  BY InvnttTurns
<1>11. Bounded(e[7], 6656) /\ Multiple(e[7], p[0], 21632)
  BY <1>4, <1>8, <1>9, <1>10, Climb
<1>12. invntt(q)[n] = fqmul(e[7][n], 1441)
  BY <1>10 DEF BackTurns
<1>13. /\ LevelProduct(a, b, 256)[n] \in Int
       /\ ProductCoeff(a, b, n) = LevelProduct(a, b, 256)[n]
  <2>1. a \in Poly /\ b \in Poly
    BY DEF Bounded
  <2> QED BY <2>1, ReferenceIs
<1> DEFINE x == e[7][n]  y == p[0][n]
<1>14. Within(x, -6656, 6656) /\ Congruent(x, 21632 * y)
  BY <1>11, BoundedAt, MultipleAt
<1>15. y \in Int /\ y = ProductCoeff(a, b, n)
  BY <1>5, <1>13
<1>16. invntt(q)[n] = fqmul(x, 1441)
  BY <1>12
<1> HIDE DEF x, y
<1>17. Within(fqmul(x, 1441), -3328, 3328) /\ Congruent(fqmul(x, 1441), y)
  BY <1>14, <1>15, Finished
<1> QED BY <1>6, <1>15, <1>16, <1>17

LEMMA ToCentred ==
  ASSUME NEW x, Within(x, -1664, 1664) PROVE x \in Centred
<1> DEFINE lo == -((KYBER_Q - 1) \div 2)  hi == (KYBER_Q - 1) \div 2
<1>1. lo = -1664 /\ hi = 1664
  BY DEF KYBER_Q
<1>2. Centred = lo..hi
  BY DEF Centred
<1>3. lo \in Int /\ hi \in Int /\ Within(x, lo, hi)
  BY <1>1
<1> HIDE DEF lo, hi
<1> QED BY <1>2, <1>3, InInterval

LEMMA ToFqmulRange ==
  ASSUME NEW x, Within(x, -3328, 3328)
  PROVE  x \in (1 - KYBER_Q)..(KYBER_Q - 1)
<1> DEFINE lo == 1 - KYBER_Q  hi == KYBER_Q - 1
<1>1. lo = -3328 /\ hi = 3328
  BY DEF KYBER_Q
<1>2. lo \in Int /\ hi \in Int /\ Within(x, lo, hi)
  BY <1>1
<1> HIDE DEF lo, hi
<1>3. x \in lo..hi
  BY <1>2, InInterval
<1> QED BY <1>3 DEF lo, hi

LEMMA BarrettHolds == BarrettExact
<1> SUFFICES ASSUME NEW a \in int16_t
             PROVE  /\ barrett_reduce(a) \in Centred
                    /\ Congruent(barrett_reduce(a), a)
  BY DEF BarrettExact
<1> DEFINE lo == -INT16_MAX - 1  hi == INT16_MAX
<1>1. lo = -32768 /\ hi = 32767
  BY DEF INT16_MAX
<1>2. lo \in Int /\ hi \in Int
  BY <1>1
<1>3. Within(a, lo, hi)
  <2>1. a \in lo..hi
    BY DEF int16_t
  <2> HIDE DEF lo, hi
  <2> QED BY <1>2, <2>1, OfInterval
<1>4. Within(a, -32768, 32767)
  BY <1>1, <1>3
<1>5. /\ Within(barrett_reduce(a), -1664, 1664)
      /\ Congruent(barrett_reduce(a), a)
  BY <1>4, Barrett
<1> QED BY <1>5, ToCentred

LEMMA MontgomeryHolds == MontgomeryExact
<1> SUFFICES ASSUME NEW c \in Coarse, NEW d \in Fine,
                    c * (KYBER_Q * 1024) + d * 13331 < KYBER_Q * 2^15
             PROVE  MontgomeryOf(c * (KYBER_Q * 1024) + d * 13331)
  BY DEF MontgomeryExact
<1> DEFINE a == c * (KYBER_Q * 1024) + d * 13331
           m == montgomery_reduce(a)
<1>1. Within(a, -109084672, 109084671)
  <2>1. c \in Int /\ d \in Int /\ -32 <= c /\ 0 <= d
    BY DEF Coarse, Fine
  <2>2. a \in Int /\ -109084672 <= a /\ a < 109084672
    BY <2>1, Literals DEF KYBER_Q
  <2> QED BY <2>2 DEF Within
<1> HIDE DEF a
<1>2. Within(m, -3328, 3328) /\ Congruent(m * 65536, a)
  BY <1>1, Montgomery
<1>3. m \in (1 - KYBER_Q)..(KYBER_Q - 1)
  <2> HIDE DEF m
  <2> QED BY <1>2, ToFqmulRange
<1>4. MontgomeryOf(a)
  BY <1>2, <1>3 DEF MontgomeryOf
<1> QED BY <1>4 DEF a

LEMMA Reductions == ReductionsExact
BY BarrettHolds, MontgomeryHolds DEF ReductionsExact

LEMMA SmallBounded ==
  ASSUME NEW f, f \in Poly, \A j \in Coeff : Within(f[j], -1664, 1664)
  PROVE  Bounded(f, 9471)
BY DEF Bounded, Within

LEMMA FlatSmall ==
  ASSUME NEW v, Within(v, -1664, 1664) PROVE Bounded(Flat(v), 9471)
<1>1. Flat(v) \in Poly /\ \A j \in Coeff : Flat(v)[j] = v
  BY DEF Flat, Poly, Within
<1> QED BY <1>1, SmallBounded

LEMMA MonomialSmall == ASSUME NEW n PROVE Bounded(Monomial(n), 9471)
<1>1. Monomial(n) \in Poly
      /\ \A j \in Coeff : Within(Monomial(n)[j], -1664, 1664)
  BY DEF Monomial, Poly, Within
<1> QED BY <1>1, SmallBounded

LEMMA SpreadSmall == ASSUME NEW m \in Int PROVE Bounded(Spread(m), 9471)
<1>1. ASSUME NEW j \in Coeff PROVE Within(Spread(m)[j], -1664, 1664)
  <2> DEFINE e == m * j * j + 7 * j
  <2>1. e \in Int
    <3>1. j \in Int
      BY DEF Coeff, KYBER_N
    <3>2. m * j \in Int
      BY <3>1
    <3>3. (m * j) * j \in Int
      BY <3>1, <3>2
    <3> QED BY <3>1, <3>3
  <2>2. Spread(m)[j] = (e % 3329) - 1664
    BY DEF Spread, KYBER_Q
  <2> HIDE DEF e
  <2> QED BY <2>1, <2>2 DEF Within
<1>2. Spread(m) = [j \in Coeff |-> Spread(m)[j]]
  BY DEF Spread
<1>3. Spread(m) \in Poly
  BY <1>1, <1>2 DEF Poly, Within
<1> QED BY <1>1, <1>3, SmallBounded

Multiplied(p, q) ==
  \A n \in Coeff : /\ Congruent(NttProduct(p, q)[n], ProductCoeff(p, q, n))
                   /\ NttProduct(p, q)[n] \in (1 - KYBER_Q)..(KYBER_Q - 1)

LEMMA NttMultiplied ==
  ASSUME NEW a, NEW b, Bounded(a, 9471), Bounded(b, 9471) PROVE Multiplied(a, b)
<1> SUFFICES ASSUME NEW n \in Coeff
             PROVE  /\ Congruent(NttProduct(a, b)[n], ProductCoeff(a, b, n))
                    /\ NttProduct(a, b)[n] \in (1 - KYBER_Q)..(KYBER_Q - 1)
  BY DEF Multiplied
<1>1. /\ Congruent(NttProduct(a, b)[n], ProductCoeff(a, b, n))
      /\ Within(NttProduct(a, b)[n], -3328, 3328)
  BY NttMultiplies
<1> QED BY <1>1, ToFqmulRange

LEMMA Products3 == ProductsExact
<1>1. /\ Bounded(Flat(1664), 9471) /\ Bounded(Flat(-1664), 9471)
      /\ Bounded(Monomial(255), 9471) /\ Bounded(Spread(3), 9471)
      /\ Bounded(Spread(5), 9471) /\ Bounded(Spread(11), 9471)
  <2>1. Within(1664, -1664, 1664) /\ Within(-1664, -1664, 1664)
    BY DEF Within
  <2> QED BY <2>1, FlatSmall, MonomialSmall, SpreadSmall
<1> DEFINE T == {<<Flat(1664), Flat(-1664)>>, <<Monomial(255), Spread(3)>>,
                 <<Spread(5), Spread(11)>>}
<1>3. \A ab \in T : Bounded(ab[1], 9471) /\ Bounded(ab[2], 9471)
  BY <1>1
<1>4. \A ab \in T : Multiplied(Tabulate(ab[1]), Tabulate(ab[2]))
  <2> HIDE DEF T
  <2> TAKE ab \in T
  <2> DEFINE p == Tabulate(ab[1]) q == Tabulate(ab[2])
  <2>1. p = ab[1] /\ q = ab[2]
    BY Tabulated
  <2>2. Bounded(p, 9471) /\ Bounded(q, 9471)
    BY <1>3, <2>1
  <2> HIDE DEF p, q
  <2>3. Multiplied(p, q)
    BY <2>2, NttMultiplied
  <2> QED BY <2>3 DEF p, q
<1> QED BY <1>4 DEF ProductsExact, Multiplied

(* The reductions of kyber/reduce.c are exact, and the product through the  *)
(* NTT of kyber/ntt.c is the product modulo X^256 + 1.                      *)
THEOREM RingIsExact == Spec => []RingExact
<1>1. RingExact
  BY Reductions, Products3 DEF RingExact
<1> QED BY <1>1, PTL

---------------------------------------------------------------------------
(* Rounding.                                                                *)

LEMMA ScaleFive ==
  ASSUME NEW u \in Int, 0 <= u, u <= 3328 PROVE scale5(u) = Rounded(u, 5)
<1> DEFINE k == (32 * u + 1664) \div 3329
           r == 32 * u + 1664 - 3329 * k
           w == u * 40318 + 2096536
<1>1. k \in Int /\ r \in Int /\ 0 <= r /\ r <= 3328
      /\ 32 * u + 1664 = 3329 * k + r
  OBVIOUS
<1>2. Rounded(u, 5) = k % 32
  <2>1. u * 32 + 1664 = 32 * u + 1664
    OBVIOUS
  <2> QED BY <2>1, Literals DEF Rounded, KYBER_Q
<1>3. scale5(u) = (w % 134217728) \div 4194304
  BY Literals DEF scale5
<1> HIDE DEF k, r
<1>4. 0 <= k /\ k <= 32
  BY <1>1
<1>5. 32 * w = 134218622 * k + 40318 * r
  BY <1>1
<1>6. w \in Int
  OBVIOUS
<1> HIDE DEF w
<1>7. CASE k = 32
  <2>1. 134217728 <= w /\ w < 134217728 + 4194304
    BY <1>1, <1>5, <1>6, <1>7
  <2> QED BY <1>2, <1>3, <1>6, <1>7, <2>1
<1>8. CASE k # 32
  <2> DEFINE j == u + 52 - 104 * k
  <2>1. j \in Int /\ r + k = 32 * j /\ k <= 31
    BY <1>1, <1>4, <1>8
  <2> HIDE DEF j
  <2>2. r + k <= 3328
    BY <1>1, <2>1
  <2>3. 4194304 * k <= w /\ w < 4194304 * (k + 1) /\ 0 <= w /\ w < 134217728
    BY <1>1, <1>4, <1>5, <1>6, <2>1, <2>2
  <2>4. w % 134217728 = w /\ w \div 4194304 = k
    BY <1>1, <1>6, <2>3
  <2>5. k % 32 = k
    BY <1>1, <1>4, <2>1
  <2> QED BY <1>2, <1>3, <2>4, <2>5
<1> QED BY <1>7, <1>8

LEMMA ScaleEleven ==
  ASSUME NEW u \in Int, 0 <= u, u <= 3328 PROVE scale11(u) = Rounded(u, 11)
<1> DEFINE k == (2048 * u + 1664) \div 3329
           r == 2048 * u + 1664 - 3329 * k
           w == u * 645084 + 524130
<1>1. /\ k \in Int /\ r \in Int /\ 0 <= r /\ r <= 3328
      /\ 2048 * u + 1664 = 3329 * k + r
  OBVIOUS
<1>2. Rounded(u, 11) = k % 2048
  <2>1. u * 2048 + 1664 = 2048 * u + 1664
    OBVIOUS
  <2> QED BY <2>1, Literals DEF Rounded, KYBER_Q
<1>3. scale11(u) = (w \div 1048576) % 2048
  BY Literals DEF scale11
<1> HIDE DEF k, r
<1>4. 0 <= k /\ k <= 2048
  BY <1>1
<1>5. 2048 * w <= 2147484636 * k + 645084 * r
      /\ 2147484636 * k + 645084 * r - 2048 <= 2048 * w
  BY <1>1
<1>6. w \in Int
  OBVIOUS
<1> DEFINE d == w \div 1048576
<1>7. d \in Int /\ 1048576 * d <= w /\ w < 1048576 * (d + 1)
  BY <1>6
<1> HIDE DEF d
<1>8. r <= 3325 => d = k
  BY <1>1, <1>4, <1>5, <1>6, <1>7
<1>9. r > 3325 => d = k
  BY <1>1, <1>4, <1>5, <1>6, <1>7 DEF w
<1>10. d = k
  BY <1>1, <1>8, <1>9
<1> QED BY <1>2, <1>3, <1>10 DEF d

LEMMA MessageBit ==
  ASSUME NEW a, Within(a, -1664, 1664)
  PROVE  tomsg_bit(a) = Rounded(NonNegative(a), 1)
<1> DEFINE n == 2 * a + 1665
           e == n * 80635
<1>1. a \in Int /\ -1664 <= a /\ a <= 1664
  BY DEF Within
<1>2. tomsg_bit(a) = (e \div 268435456) % 2
  BY Literals DEF tomsg_bit
<1>3. CASE a >= 0
  <2>1. NonNegative(a) = a
    BY <1>1, <1>3 DEF NonNegative
  <2>2. Rounded(a, 1) = ((a * 2 + 1664) \div 3329) % 2
    BY Literals DEF Rounded, KYBER_Q
  <2>3. (e \div 268435456) % 2 = ((a * 2 + 1664) \div 3329) % 2
    BY <1>1, <1>3
  <2> QED BY <1>2, <2>1, <2>2, <2>3
<1>4. CASE a < 0
  <2> DEFINE u == a + 3329
  <2>1. NonNegative(a) = u
    BY <1>1, <1>4 DEF NonNegative, KYBER_Q
  <2>2. Rounded(u, 1) = ((u * 2 + 1664) \div 3329) % 2
    BY Literals DEF Rounded, KYBER_Q
  <2>3. (e \div 268435456) % 2 = ((u * 2 + 1664) \div 3329) % 2
    BY <1>1, <1>4
  <2> QED BY <1>2, <2>1, <2>2, <2>3
<1> QED BY <1>1, <1>3, <1>4

LEMMA Rounding == RoundingExact
<1>1. ASSUME NEW u \in 0..(KYBER_Q - 1)
      PROVE  scale5(u) = Rounded(u, 5) /\ scale11(u) = Rounded(u, 11)
  <2>1. u \in Int /\ 0 <= u /\ u <= 3328
    BY DEF KYBER_Q
  <2> QED BY <2>1, ScaleFive, ScaleEleven
<1>2. ASSUME NEW a \in Centred PROVE tomsg_bit(a) = Rounded(NonNegative(a), 1)
  <2> DEFINE lo == -((KYBER_Q - 1) \div 2)  hi == (KYBER_Q - 1) \div 2
  <2>1. lo = -1664 /\ hi = 1664
    BY DEF KYBER_Q
  <2>2. lo \in Int /\ hi \in Int
    BY <2>1
  <2>3. a \in lo..hi
    BY DEF Centred
  <2> HIDE DEF lo, hi
  <2>4. Within(a, lo, hi)
    BY <2>2, <2>3, OfInterval
  <2> QED BY <2>1, <2>4, MessageBit
<1> QED BY <1>1, <1>2 DEF RoundingExact

---------------------------------------------------------------------------
(* Bits.                                                                    *)

LEMMA Quotient ==
  ASSUME NEW p \in Nat, NEW j \in Int, NEW k \in Int, 0 <= k, k < p, NEW x, x = p * j + k
  PROVE  x \div p = j /\ x % p = k
<1>1. x \in Int /\ p > 0
  OBVIOUS
<1> DEFINE q == x \div p  r == x % p
<1>2. q \in Int /\ r \in Int /\ 0 <= r /\ r < p /\ x = p * q + r
  BY <1>1
<1> HIDE DEF q, r
<1>3. p * (q - j) = k - r
  BY <1>1, <1>2
<1> DEFINE d == q - j
<1>4. d \in Int /\ p * d = k - r
  BY <1>2, <1>3
<1>5. d = 0
  <2>1. CASE d >= 1
    <3>1. p * d >= p
      BY <1>1, <1>4, <2>1
    <3> QED BY <1>2, <1>4, <3>1
  <2>2. CASE d <= -1
    <3>1. p * d <= -p
      BY <1>1, <1>4, <2>2
    <3> QED BY <1>2, <1>4, <3>1
  <2> QED BY <1>4, <2>1, <2>2
<1>6. q = j /\ r = k
  BY <1>2, <1>4, <1>5
<1> QED BY <1>6 DEF q, r

IsQuotient(x, p, q, r) ==
  q \in Int /\ r \in Int /\ 0 <= r /\ r < p /\ x = p * q + r

LEMMA Divided ==
  ASSUME NEW p \in Nat, p > 0, NEW x \in Int
  PROVE  IsQuotient(x, p, x \div p, x % p)
<1> DEFINE q == x \div p  r == x % p
<1>1. x \in Int /\ p > 0
  OBVIOUS
<1>2. q \in Int /\ r \in Int /\ 0 <= r /\ r < p /\ x = p * q + r
  BY <1>1
<1> HIDE DEF q, r
<1>3. IsQuotient(x, p, q, r)
  BY <1>2 DEF IsQuotient
<1> QED BY <1>3 DEF q, r

LEMMA Halved ==
  ASSUME NEW u \in Nat
  PROVE  u \div 2 \in Nat /\ IsQuotient(u, 2, u \div 2, u % 2)
<1>1. u \div 2 \in Nat
  OBVIOUS
<1> DEFINE p == 2
<1>2. p \in Nat /\ p > 0 /\ u \in Int
  OBVIOUS
<1> HIDE DEF p
<1>3. IsQuotient(u, p, u \div p, u % p)
  BY <1>2, Divided
<1> QED BY <1>1, <1>3 DEF p

Pow(k) == 2^k

LEMMA PowTable ==
  /\ Pow(0) = 1 /\ Pow(1) = 2 /\ Pow(2) = 4 /\ Pow(3) = 8 /\ Pow(4) = 16
  /\ Pow(5) = 32 /\ Pow(6) = 64 /\ Pow(7) = 128 /\ Pow(8) = 256
  /\ Pow(9) = 512 /\ Pow(10) = 1024 /\ Pow(11) = 2048 /\ Pow(12) = 4096
  /\ Pow(13) = 8192 /\ Pow(14) = 16384 /\ Pow(15) = 32768 /\ Pow(16) = 65536
  /\ Pow(17) = 131072 /\ Pow(18) = 262144 /\ Pow(19) = 524288
  /\ Pow(20) = 1048576 /\ Pow(21) = 2097152 /\ Pow(22) = 4194304
  /\ Pow(23) = 8388608 /\ Pow(24) = 16777216
BY DEF Pow

LEMMA PowNext ==
  ASSUME NEW k \in 0..23
  PROVE Pow(k + 1) = 2 * Pow(k) /\ Pow(k) \in Nat /\ Pow(k) > 0
BY PowTable

LEMMA PowSum ==
  ASSUME NEW a \in 0..12, NEW b \in 0..12
  PROVE  Pow(a + b) = Pow(a) * Pow(b) /\ Pow(a) \in Nat /\ Pow(a) > 0
<1> DEFINE S == {m \in 0..12 : Pow(a + m) = Pow(a) * Pow(m)}
<1>1. Pow(a) \in Nat /\ Pow(a) > 0 /\ Pow(0) = 1
  BY PowNext, PowTable
<1>2. 0 \in S
  BY <1>1
<1>3. ASSUME NEW m \in 0..11, m \in S PROVE m + 1 \in S
  <2> DEFINE l == a + m
  <2>1. /\ l \in 0..23 /\ m \in 0..23 /\ m + 1 \in 0..12 /\ l + 1 = a + (m + 1)
    OBVIOUS
  <2>2. Pow(l) = Pow(a) * Pow(m)
    BY <1>3
  <2> HIDE DEF l
  <2>3. Pow(l + 1) = 2 * Pow(l) /\ Pow(m + 1) = 2 * Pow(m) /\ Pow(m) \in Nat
    BY <2>1, PowNext
  <2>4. Pow(l + 1) = Pow(a) * Pow(m + 1)
    BY <1>1, <2>2, <2>3
  <2> QED BY <2>1, <2>4
<1> HIDE DEF S
<1>4. \A m \in 0..12 : m \in S
  <2>1. 12 \in Nat /\ 12 - 1 = 11
    OBVIOUS
  <2> QED BY <1>2, <1>3, <2>1, UpTo
<1> QED BY <1>1, <1>4 DEF S

(* How far bits are shifted, and how many a field has.                      *)
Amount == 0..12

LEMMA Amounts ==
  ASSUME NEW a \in Amount
  PROVE  /\ a \in 0..12 /\ a \in Nat /\ a \in Int /\ a <= 12
         /\ Pow(a) \in Nat /\ Pow(a) \in Int /\ Pow(a) > 0
<1>1. a \in 0..12 /\ a \in 0..23 /\ a \in Nat /\ a \in Int /\ a <= 12
  BY DEF Amount
<1>2. Pow(a) \in Nat /\ Pow(a) > 0
  BY <1>1, PowNext
<1> QED BY <1>1, <1>2

LEMMA PowParts ==
  ASSUME NEW a \in Amount, NEW b \in Amount, NEW c, c = a + b
  PROVE  Pow(c) = Pow(a) * Pow(b)
BY PowSum DEF Amount

Bit(x, k) == (x \div Pow(k)) % 2

(* The low bits of a sum are those of its low part, the high ones those of  *)
(* its high part.                                                           *)
LEMMA BitLow ==
  ASSUME NEW x \in Int, NEW z \in Int, NEW c \in Amount, NEW k \in Nat, k < c
  PROVE  Bit(x + Pow(c) * z, k) = Bit(x, k)
<1> DEFINE f == c - k - 1  l == 1 + k
           p == Pow(k)  e == Pow(f)  q == x \div p  r == x % p
           y == x + Pow(c) * z
<1>1. /\ k \in Amount /\ f \in Amount /\ l \in Amount /\ 1 \in Amount
      /\ c = l + f /\ l = 1 + k
  BY DEF Amount
<1> HIDE DEF f, l
<1>2. p \in Nat /\ p > 0 /\ e \in Nat
  BY <1>1, Amounts
<1>3. Pow(c) = (2 * p) * e
  <2>1. Pow(c) = Pow(l) * e
    BY <1>1, PowParts
  <2>2. Pow(l) = Pow(1) * p /\ Pow(1) = 2
    BY <1>1, PowParts, PowTable
  <2> QED BY <2>1, <2>2
<1> HIDE DEF p, e
<1>4. q \in Int /\ r \in Int /\ 0 <= r /\ r < p /\ x = p * q + r
  BY <1>2, Divided DEF IsQuotient
<1> HIDE DEF q, r
<1> DEFINE j == q + 2 * (e * z)
<1>5. j \in Int
  BY <1>2, <1>4
<1>6. y = p * j + r
  <2>1. ((2 * p) * e) * z = p * (2 * (e * z))
    BY <1>2
  <2>2. e * z \in Int
    BY <1>2
  <2> DEFINE u == 2 * (e * z)
  <2>3. u \in Int /\ y = x + p * u
    BY <1>3, <2>1, <2>2
  <2> HIDE DEF u, y
  <2>4. p * (q + u) = p * q + p * u
    BY <1>2, <1>4, <2>3
  <2> QED BY <1>2, <1>4, <2>3, <2>4 DEF u
<1> HIDE DEF j, y
<1>7. y \div p = j
  BY <1>2, <1>4, <1>5, <1>6, Quotient
<1>8. j % 2 = q % 2
  <2> DEFINE u == e * z
  <2>1. u \in Int
    BY <1>2
  <2>2. j = q + 2 * u
    BY DEF j
  <2> HIDE DEF u
  <2> QED BY <1>4, <2>1, <2>2
<1>9. Bit(y, k) = Bit(x, k)
  BY <1>7, <1>8 DEF Bit, p, q
<1> QED BY <1>9 DEF y

LEMMA BitHigh ==
  ASSUME NEW x \in Int, NEW z \in Int, NEW c \in Amount, NEW k \in Amount,
         0 <= x, x < Pow(c)
  PROVE  Bit(x + Pow(c) * z, c + k) = Bit(z, k)
<1> DEFINE p == Pow(c)  m == Pow(k)  q == z \div m  r == z % m
           y == x + p * z
<1>1. p \in Nat /\ m \in Nat /\ m > 0 /\ Pow(c + k) = p * m
  BY Amounts, PowParts
<1>2. x < p
  OBVIOUS
<1> HIDE DEF p, m
<1>3. q \in Int /\ r \in Int /\ 0 <= r /\ r < m /\ z = m * q + r
  BY <1>1, Divided DEF IsQuotient
<1> HIDE DEF q, r
<1> DEFINE b == p * m  s == p * r + x
<1>4. b \in Nat /\ s \in Int
  BY <1>1, <1>3
<1>5. 0 <= s /\ s < b
  <2>1. p * r >= 0 /\ p * (m - 1 - r) >= 0
    BY <1>1, <1>3
  <2>2. p * (m - 1 - r) = p * m - p - p * r
    BY <1>1, <1>3
  <2> QED BY <1>1, <1>2, <1>3, <2>1, <2>2
<1>6. y = b * q + s
  <2>1. p * (m * q + r) = (p * m) * q + p * r
    BY <1>1, <1>3
  <2> QED BY <1>1, <1>3, <2>1
<1> HIDE DEF b, s
<1>7. y \div b = q
  BY <1>3, <1>4, <1>5, <1>6, Quotient
<1>8. Bit(y, c + k) = Bit(z, k)
  BY <1>1, <1>7 DEF Bit, b, q, m
<1> QED BY <1>8 DEF y, p

LEMMA BitDown ==
  ASSUME NEW x \in Int, NEW c \in Amount, NEW k \in Amount
  PROVE  Bit(x \div Pow(c), k) = Bit(x, c + k)
<1> DEFINE p == Pow(c)  z == x \div p  y == x % p
<1>1. p \in Nat /\ p > 0
  BY Amounts
<1>2. z \in Int /\ y \in Int /\ 0 <= y /\ y < p /\ x = p * z + y
  BY <1>1, Divided DEF IsQuotient
<1>3. x = y + p * z
  BY <1>1, <1>2
<1> HIDE DEF z, y
<1>4. Bit(y + p * z, c + k) = Bit(z, k)
  BY <1>2, BitHigh
<1> QED BY <1>3, <1>4 DEF z

LEMMA BitTaken ==
  ASSUME NEW x \in Int, NEW c \in Amount, NEW k \in Nat, k < c
  PROVE  Bit(x % Pow(c), k) = Bit(x, k)
<1> DEFINE p == Pow(c)  z == x \div p  y == x % p
<1>1. p \in Nat /\ p > 0
  BY Amounts
<1>2. z \in Int /\ y \in Int /\ 0 <= y /\ y < p /\ x = p * z + y
  BY <1>1, Divided DEF IsQuotient
<1>3. x = y + p * z
  BY <1>1, <1>2
<1> HIDE DEF z, y
<1>4. Bit(y + p * z, k) = Bit(y, k)
  BY <1>2, BitLow
<1> QED BY <1>3, <1>4 DEF y

LEMMA BitsDetermine ==
  ASSUME NEW w \in Amount, NEW x \in Nat, NEW y \in Nat,
         x < Pow(w), y < Pow(w),
         \A k \in 0..(w - 1) : Bit(x, k) = Bit(y, k)
  PROVE  x = y
<1> DEFINE S == {m \in 0..12 : \A u, v \in Nat :
                  /\ u < Pow(m) /\ v < Pow(m)
                  /\ \A k \in 0..(m - 1) : Bit(u, k) = Bit(v, k)
                  => u = v}
<1>1. 0 \in S
  BY PowTable
<1>2. ASSUME NEW m \in 0..11, m \in S PROVE m + 1 \in S
  <2> SUFFICES ASSUME NEW u \in Nat, NEW v \in Nat, u < Pow(m + 1), v < Pow(m + 1),
                      \A k \in 0..m : Bit(u, k) = Bit(v, k)
               PROVE  u = v
    BY <1>2
  <2> DEFINE s == u \div 2  t == v \div 2  a == u % 2  b == v % 2
  <2>1. /\ s \in Nat /\ IsQuotient(u, 2, s, a)
        /\ t \in Nat /\ IsQuotient(v, 2, t, b)
    BY Halved
  <2>2. Pow(m + 1) = 2 * Pow(m) /\ Pow(m) \in Nat
    <3>1. m \in 0..23
      OBVIOUS
    <3> QED BY <3>1, PowNext
  <2>3. s < Pow(m) /\ t < Pow(m)
    <3> HIDE DEF s, t, a, b
    <3> QED BY <2>1, <2>2 DEF IsQuotient
  <2>4. a = b
    <3>1. Bit(u, 0) = a /\ Bit(v, 0) = b /\ 0 \in 0..m
      BY PowTable DEF Bit
    <3> QED BY <3>1
  <2>5. ASSUME NEW k \in 0..(m - 1) PROVE Bit(s, k) = Bit(t, k)
    <3>1. 1 \in Amount /\ k \in Amount /\ 1 + k \in 0..m
      BY DEF Amount
    <3>2. Bit(s, k) = Bit(u, 1 + k) /\ Bit(t, k) = Bit(v, 1 + k)
      <4>1. Pow(1) = 2
        BY PowTable
      <4>2. Bit(u \div Pow(1), k) = Bit(u, 1 + k)
            /\ Bit(v \div Pow(1), k) = Bit(v, 1 + k)
        BY <3>1, BitDown
      <4> QED BY <4>1, <4>2
    <3> QED BY <3>1, <3>2
  <2> HIDE DEF s, t, a, b
  <2>6. s = t
    BY <1>2, <2>1, <2>3, <2>5
  <2> QED BY <2>1, <2>4, <2>6 DEF IsQuotient
<1> HIDE DEF S
<1>3. \A m \in 0..12 : m \in S
  <2>1. 12 \in Nat /\ 12 - 1 = 11
    OBVIOUS
  <2> QED BY <1>1, <1>2, <2>1, UpTo
<1>4. w \in S
  BY <1>3, Amounts
<1> QED BY <1>4 DEF S

---------------------------------------------------------------------------
(* Packing: a cell of W bits that begins s bits into a field of w bits and  *)
(* goes on into the next one or two.                                        *)

Above(x, c, z) == x + Pow(c) * z

LEMMA BitsAbove ==
  ASSUME NEW x \in Int, NEW z \in Int, NEW c \in Amount
  PROVE  /\ \A k \in Nat : k < c => Bit(Above(x, c, z), k) = Bit(x, k)
         /\ 0 <= x /\ x < Pow(c) => \A k \in Amount, l \in Int :
              l = c + k => Bit(Above(x, c, z), l) = Bit(z, k)
         /\ Above(x, c, z) \in Int
<1>1. ASSUME NEW k \in Nat, k < c PROVE Bit(Above(x, c, z), k) = Bit(x, k)
  <2>1. Bit(x + Pow(c) * z, k) = Bit(x, k)
    BY <1>1, BitLow
  <2> QED BY <2>1 DEF Above
<1>2. ASSUME 0 <= x, x < Pow(c), NEW k \in Amount, NEW l \in Int, l = c + k
      PROVE  Bit(Above(x, c, z), l) = Bit(z, k)
  <2>1. Bit(x + Pow(c) * z, c + k) = Bit(z, k)
    BY <1>2, BitHigh
  <2> QED BY <1>2, <2>1 DEF Above
<1>3. Above(x, c, z) \in Int
  <2>1. Pow(c) \in Int
    BY Amounts
  <2> QED BY <2>1 DEF Above
<1> QED BY <1>1, <1>2, <1>3

(* What a field leaves behind its first s bits.                             *)
Behind(x, s) == x \div Pow(s)

LEMMA BehindBits ==
  ASSUME NEW s \in Amount, NEW u \in Amount, NEW v \in Amount, v = s + u,
         NEW x \in Nat, x < Pow(v)
  PROVE  /\ Behind(x, s) \in Int /\ 0 <= Behind(x, s) /\ Behind(x, s) < Pow(u)
         /\ \A k \in Amount : Bit(Behind(x, s), k) = Bit(x, s + k)
<1> DEFINE p == Pow(s)  q == Pow(u)  lo == x \div p  r == x % p
<1>0. Pow(v) = p * q
  BY PowParts
<1>1. /\ p \in Nat /\ p > 0 /\ q \in Nat
      /\ x \in Int /\ 0 <= x
  BY Amounts
<1>2. IsQuotient(x, p, lo, r)
  BY <1>1, Divided
<1>3. \A k \in Amount : Bit(lo, k) = Bit(x, s + k)
  <2>1. ASSUME NEW k \in Amount PROVE Bit(x \div Pow(s), k) = Bit(x, s + k)
    BY <1>1, BitDown
  <2> QED BY <2>1
<1>4. x < p * q
  BY <1>0
<1> HIDE DEF p, q, r, lo
<1>5. lo \in Int /\ r \in Int /\ 0 <= r /\ r < p /\ x = p * lo + r
  BY <1>2 DEF IsQuotient
<1>6. lo >= 0
  <2>1. CASE lo <= -1
    <3>1. p * lo <= -p
      BY <1>1, <1>5, <2>1
    <3> QED BY <1>1, <1>5, <3>1
  <2> QED BY <1>5, <2>1
<1>7. lo < q
  <2>1. CASE lo >= q
    <3>1. p * lo >= p * q
      BY <1>1, <1>5, <2>1
    <3> QED BY <1>1, <1>4, <1>5, <3>1
  <2> QED BY <1>1, <1>5, <2>1
<1>8. Behind(x, s) = lo
  BY DEF Behind, lo, p
<1> QED BY <1>3, <1>5, <1>6, <1>7, <1>8 DEF q

(* Bit k of y is one of a string that begins with u bits lo, goes on with   *)
(* the w bits x1 and ends with x2.                                          *)
BitOfThree(y, k, u, w, lo, x1, x2) ==
  /\ k < u => Bit(y, k) = Bit(lo, k)
  /\ \A l \in Amount : l = k - u /\ l < w => Bit(y, k) = Bit(x1, l)
  /\ \A l \in Amount : l = k - u - w => Bit(y, k) = Bit(x2, l)

LEMMA CellBits ==
  ASSUME NEW w \in Amount, NEW W \in Amount, NEW u \in Amount,
         NEW lo \in Int, 0 <= lo, lo < Pow(u),
         NEW x1 \in Int, 0 <= x1, x1 < Pow(w), NEW x2 \in Int,
         NEW k \in Amount, k < W
  PROVE  BitOfThree(Above(lo, u, Above(x1, w, x2)) % Pow(W),
                    k, u, w, lo, x1, x2)
<1> DEFINE z == Above(x1, w, x2)  y == Above(lo, u, z)
<1>2. /\ z \in Int
      /\ \A l \in Nat : l < w => Bit(z, l) = Bit(x1, l)
      /\ \A j \in Amount, l \in Int : l = w + j => Bit(z, l) = Bit(x2, j)
  BY BitsAbove
<1> HIDE DEF z
<1>4. /\ y \in Int
      /\ \A l \in Nat : l < u => Bit(y, l) = Bit(lo, l)
      /\ \A j \in Amount, l \in Int : l = u + j => Bit(y, l) = Bit(z, j)
  BY <1>2, BitsAbove
<1> HIDE DEF y
<1>5. Bit(y % Pow(W), k) = Bit(y, k)
  <2>1. k \in Nat
    BY Amounts
  <2> QED BY <1>4, <2>1, BitTaken
<1>6. ASSUME k < u PROVE Bit(y, k) = Bit(lo, k)
  BY <1>4, <1>6, Amounts
<1>7. ASSUME NEW j \in Amount, j = k - u PROVE Bit(y, k) = Bit(z, j)
  <2>1. k \in Int /\ k = u + j
    BY <1>7, Amounts
  <2> QED BY <1>4, <1>7, <2>1
<1>8. ASSUME NEW l \in Amount, l = k - u, l < w PROVE Bit(y, k) = Bit(x1, l)
  BY <1>2, <1>7, <1>8, Amounts
<1>9. ASSUME NEW l \in Amount, l = k - u - w PROVE Bit(y, k) = Bit(x2, l)
  <2> DEFINE j == k - u
  <2>1. j \in Amount /\ j = k - u /\ j = w + l /\ j \in Int
    BY <1>9 DEF Amount
  <2> HIDE DEF j
  <2> QED BY <1>2, <1>7, <2>1
<1> QED BY <1>5, <1>6, <1>8, <1>9 DEF y, z, BitOfThree
---------------------------------------------------------------------------
(* The cell at bit position at: it begins in field f, s bits in, and is put *)
(* together of n fields.                                                    *)
Lays(terms, w, W, from, at, f, n, s) ==
  /\ f \in Nat /\ s \in Amount /\ s < w /\ at = w * f + s
  /\ f + n <= from /\ s + W <= n * w /\ n \in 1..3
  /\ terms = CASE n = 1 -> <<<<f, -s>>>>
               [] n = 2 -> <<<<f, -s>>, <<f + 1, w - s>>>>
               [] n = 3 -> <<<<f, -s>>, <<f + 1, w - s>>,
                             <<f + 2, 2 * w - s>>>>

(* A group: Len(table) cells of W bits are the bits of from fields of w.    *)
Laid(table, w, W, from) ==
  /\ Len(table) * W = from * w
  /\ \A j \in 0..(Len(table) - 1) : \E f, n, s :
       Lays(table[j + 1], w, W, from, W * j, f, n, s)

LEMMA Laid12 == Laid(tobytes12, 12, 8, 2)
<1>0. Len(tobytes12) = 3
  BY DEF tobytes12
<1>1. Lays(tobytes12[1], 12, 8, 2, 0, 0, 1, 0)
  BY DEF tobytes12, Lays, Amount
<1>2. Lays(tobytes12[2], 12, 8, 2, 8, 0, 2, 8)
  BY DEF tobytes12, Lays, Amount
<1>3. Lays(tobytes12[3], 12, 8, 2, 16, 1, 1, 4)
  BY DEF tobytes12, Lays, Amount
<1>4. ASSUME NEW j \in 0..2
      PROVE  \E f, n, s : Lays(tobytes12[j + 1], 12, 8, 2, 8 * j, f, n, s)
  <2>1. CASE j = 0
    BY <1>1, <2>1
  <2>2. CASE j = 1
    BY <1>2, <2>2
  <2>3. CASE j = 2
    BY <1>3, <2>3
  <2> QED BY <2>1, <2>2, <2>3
<1> QED BY <1>0, <1>4 DEF Laid

LEMMA LaidFrom12 == Laid(frombytes12, 8, 12, 3)
<1>0. Len(frombytes12) = 2
  BY DEF frombytes12
<1>1. Lays(frombytes12[1], 8, 12, 3, 0, 0, 2, 0)
  BY DEF frombytes12, Lays, Amount
<1>2. Lays(frombytes12[2], 8, 12, 3, 12, 1, 2, 4)
  BY DEF frombytes12, Lays, Amount
<1>3. ASSUME NEW j \in 0..1
      PROVE  \E f, n, s : Lays(frombytes12[j + 1], 8, 12, 3, 12 * j, f, n, s)
  <2>1. CASE j = 0
    BY <1>1, <2>1
  <2>2. CASE j = 1
    BY <1>2, <2>2
  <2> QED BY <2>1, <2>2
<1> QED BY <1>0, <1>3 DEF Laid

LEMMA Laid5 == Laid(pack5, 5, 8, 8)
<1>0. Len(pack5) = 5
  BY DEF pack5
<1>1. Lays(pack5[1], 5, 8, 8, 0, 0, 2, 0)
  BY DEF pack5, Lays, Amount
<1>2. Lays(pack5[2], 5, 8, 8, 8, 1, 3, 3)
  BY DEF pack5, Lays, Amount
<1>3. Lays(pack5[3], 5, 8, 8, 16, 3, 2, 1)
  BY DEF pack5, Lays, Amount
<1>4. Lays(pack5[4], 5, 8, 8, 24, 4, 3, 4)
  BY DEF pack5, Lays, Amount
<1>5. Lays(pack5[5], 5, 8, 8, 32, 6, 2, 2)
  BY DEF pack5, Lays, Amount
<1>6. ASSUME NEW j \in 0..4
      PROVE  \E f, n, s : Lays(pack5[j + 1], 5, 8, 8, 8 * j, f, n, s)
  <2>1. CASE j = 0
    BY <1>1, <2>1
  <2>2. CASE j = 1
    BY <1>2, <2>2
  <2>3. CASE j = 2
    BY <1>3, <2>3
  <2>4. CASE j = 3
    BY <1>4, <2>4
  <2>5. CASE j = 4
    BY <1>5, <2>5
  <2> QED BY <2>1, <2>2, <2>3, <2>4, <2>5
<1> QED BY <1>0, <1>6 DEF Laid

LEMMA LaidFrom5 == Laid(unpack5, 8, 5, 5)
<1>0. Len(unpack5) = 8
  BY DEF unpack5
<1>1. Lays(unpack5[1], 8, 5, 5, 0, 0, 1, 0)
  BY DEF unpack5, Lays, Amount
<1>2. Lays(unpack5[2], 8, 5, 5, 5, 0, 2, 5)
  BY DEF unpack5, Lays, Amount
<1>3. Lays(unpack5[3], 8, 5, 5, 10, 1, 1, 2)
  BY DEF unpack5, Lays, Amount
<1>4. Lays(unpack5[4], 8, 5, 5, 15, 1, 2, 7)
  BY DEF unpack5, Lays, Amount
<1>5. Lays(unpack5[5], 8, 5, 5, 20, 2, 2, 4)
  BY DEF unpack5, Lays, Amount
<1>6. Lays(unpack5[6], 8, 5, 5, 25, 3, 1, 1)
  BY DEF unpack5, Lays, Amount
<1>7. Lays(unpack5[7], 8, 5, 5, 30, 3, 2, 6)
  BY DEF unpack5, Lays, Amount
<1>8. Lays(unpack5[8], 8, 5, 5, 35, 4, 1, 3)
  BY DEF unpack5, Lays, Amount
<1>9. ASSUME NEW j \in 0..7
      PROVE  \E f, n, s : Lays(unpack5[j + 1], 8, 5, 5, 5 * j, f, n, s)
  <2>1. CASE j = 0
    BY <1>1, <2>1
  <2>2. CASE j = 1
    BY <1>2, <2>2
  <2>3. CASE j = 2
    BY <1>3, <2>3
  <2>4. CASE j = 3
    BY <1>4, <2>4
  <2>5. CASE j = 4
    BY <1>5, <2>5
  <2>6. CASE j = 5
    BY <1>6, <2>6
  <2>7. CASE j = 6
    BY <1>7, <2>7
  <2>8. CASE j = 7
    BY <1>8, <2>8
  <2> QED BY <2>1, <2>2, <2>3, <2>4, <2>5, <2>6, <2>7, <2>8
<1> QED BY <1>0, <1>9 DEF Laid

LEMMA Laid11 == Laid(pack11, 11, 8, 8)
<1>0. Len(pack11) = 11
  BY DEF pack11
<1>1. Lays(pack11[1], 11, 8, 8, 0, 0, 1, 0)
  BY DEF pack11, Lays, Amount
<1>2. Lays(pack11[2], 11, 8, 8, 8, 0, 2, 8)
  BY DEF pack11, Lays, Amount
<1>3. Lays(pack11[3], 11, 8, 8, 16, 1, 2, 5)
  BY DEF pack11, Lays, Amount
<1>4. Lays(pack11[4], 11, 8, 8, 24, 2, 1, 2)
  BY DEF pack11, Lays, Amount
<1>5. Lays(pack11[5], 11, 8, 8, 32, 2, 2, 10)
  BY DEF pack11, Lays, Amount
<1>6. Lays(pack11[6], 11, 8, 8, 40, 3, 2, 7)
  BY DEF pack11, Lays, Amount
<1>7. Lays(pack11[7], 11, 8, 8, 48, 4, 2, 4)
  BY DEF pack11, Lays, Amount
<1>8. Lays(pack11[8], 11, 8, 8, 56, 5, 1, 1)
  BY DEF pack11, Lays, Amount
<1>9. Lays(pack11[9], 11, 8, 8, 64, 5, 2, 9)
  BY DEF pack11, Lays, Amount
<1>10. Lays(pack11[10], 11, 8, 8, 72, 6, 2, 6)
  BY DEF pack11, Lays, Amount
<1>11. Lays(pack11[11], 11, 8, 8, 80, 7, 1, 3)
  BY DEF pack11, Lays, Amount
<1>12. ASSUME NEW j \in 0..10
      PROVE  \E f, n, s : Lays(pack11[j + 1], 11, 8, 8, 8 * j, f, n, s)
  <2>1. CASE j = 0
    BY <1>1, <2>1
  <2>2. CASE j = 1
    BY <1>2, <2>2
  <2>3. CASE j = 2
    BY <1>3, <2>3
  <2>4. CASE j = 3
    BY <1>4, <2>4
  <2>5. CASE j = 4
    BY <1>5, <2>5
  <2>6. CASE j = 5
    BY <1>6, <2>6
  <2>7. CASE j = 6
    BY <1>7, <2>7
  <2>8. CASE j = 7
    BY <1>8, <2>8
  <2>9. CASE j = 8
    BY <1>9, <2>9
  <2>10. CASE j = 9
    BY <1>10, <2>10
  <2>11. CASE j = 10
    BY <1>11, <2>11
  <2> QED BY <2>1, <2>2, <2>3, <2>4, <2>5, <2>6, <2>7, <2>8, <2>9, <2>10,
             <2>11
<1> QED BY <1>0, <1>12 DEF Laid

LEMMA LaidFrom11 == Laid(unpack11, 8, 11, 11)
<1>0. Len(unpack11) = 8
  BY DEF unpack11
<1>1. Lays(unpack11[1], 8, 11, 11, 0, 0, 2, 0)
  BY DEF unpack11, Lays, Amount
<1>2. Lays(unpack11[2], 8, 11, 11, 11, 1, 2, 3)
  BY DEF unpack11, Lays, Amount
<1>3. Lays(unpack11[3], 8, 11, 11, 22, 2, 3, 6)
  BY DEF unpack11, Lays, Amount
<1>4. Lays(unpack11[4], 8, 11, 11, 33, 4, 2, 1)
  BY DEF unpack11, Lays, Amount
<1>5. Lays(unpack11[5], 8, 11, 11, 44, 5, 2, 4)
  BY DEF unpack11, Lays, Amount
<1>6. Lays(unpack11[6], 8, 11, 11, 55, 6, 3, 7)
  BY DEF unpack11, Lays, Amount
<1>7. Lays(unpack11[7], 8, 11, 11, 66, 8, 2, 2)
  BY DEF unpack11, Lays, Amount
<1>8. Lays(unpack11[8], 8, 11, 11, 77, 9, 2, 5)
  BY DEF unpack11, Lays, Amount
<1>9. ASSUME NEW j \in 0..7
      PROVE  \E f, n, s : Lays(unpack11[j + 1], 8, 11, 11, 11 * j, f, n, s)
  <2>1. CASE j = 0
    BY <1>1, <2>1
  <2>2. CASE j = 1
    BY <1>2, <2>2
  <2>3. CASE j = 2
    BY <1>3, <2>3
  <2>4. CASE j = 3
    BY <1>4, <2>4
  <2>5. CASE j = 4
    BY <1>5, <2>5
  <2>6. CASE j = 5
    BY <1>6, <2>6
  <2>7. CASE j = 6
    BY <1>7, <2>7
  <2>8. CASE j = 7
    BY <1>8, <2>8
  <2> QED BY <2>1, <2>2, <2>3, <2>4, <2>5, <2>6, <2>7, <2>8
<1> QED BY <1>0, <1>9 DEF Laid

LEMMA ShiftedDown ==
  ASSUME NEW x \in Nat, NEW s \in Amount PROVE Shifted(x, -s) = Behind(x, s)
<1>1. s \in Nat /\ -s \in Int /\ Pow(0) = 1
  BY Amounts, PowTable
<1>2. CASE s = 0
  <2>1. Shifted(x, -s) = x * Pow(0)
    BY <1>2 DEF Shifted, Pow
  <2>2. Behind(x, s) = x \div Pow(0)
    BY <1>2 DEF Behind
  <2> QED BY <1>1, <2>1, <2>2
<1>3. CASE s > 0
  <2>1. ~(-s >= 0) /\ -(-s) = s
    BY <1>1, <1>3
  <2> QED BY <2>1 DEF Shifted, Behind, Pow
<1> QED BY <1>1, <1>2, <1>3

LEMMA ShiftedUp ==
  ASSUME NEW x, NEW u \in Nat PROVE Shifted(x, u) = x * Pow(u)
BY DEF Shifted, Pow

LEMMA OrIs ==
  ASSUME NEW terms, NEW w \in Amount, NEW W \in Amount, NEW from \in Nat,
         NEW at, NEW f, NEW n, NEW s,
         Lays(terms, w, W, from, at, f, n, s),
         NEW v, \A c \in 0..(from - 1) : v[c] \in Nat
  PROVE  \E x1, x2 :
           /\ Or(v, terms) = Above(Behind(v[f], s), w - s, Above(x1, w, x2))
           /\ x1 = IF n > 1 THEN v[f + 1] ELSE 0
           /\ x2 = IF n > 2 THEN v[f + 2] ELSE 0
<1> DEFINE lo == Behind(v[f], s)  u == w - s
<1>1. /\ f \in Nat /\ s \in Amount /\ s < w /\ n \in 1..3 /\ f + n <= from
      /\ w \in Nat /\ s \in Nat /\ w <= 12
  BY Amounts DEF Lays
<1>2. u \in Amount /\ u \in Nat /\ Pow(u) \in Nat /\ Pow(w) \in Nat
  <2>1. u \in Amount /\ u \in Nat
    BY <1>1 DEF Amount
  <2> QED BY <2>1, Amounts
<1>3. v[f] \in Nat
  BY <1>1
<1>4. Shifted(v[f], -s) = lo /\ lo \in Int
  <2>1. Pow(s) \in Nat /\ Pow(s) > 0
    BY <1>1, Amounts
  <2>2. lo \in Int
    BY <1>3, <2>1 DEF Behind
  <2> QED BY <1>1, <1>3, <2>2, ShiftedDown
<1> HIDE DEF lo
<1>5. CASE n = 1
  <2>1. terms = <<<<f, -s>>>>
    BY <1>5 DEF Lays
  <2>2. Or(v, terms) = Shifted(v[f], -s) + 0 + 0
    BY <2>1 DEF Or
  <2>3. Above(lo, u, Above(0, w, 0)) = lo
    BY <1>2, <1>4 DEF Above
  <2>4. Or(v, terms) = Above(lo, u, Above(0, w, 0))
    BY <1>4, <2>2, <2>3
  <2> QED BY <1>5, <2>4 DEF lo
<1>6. CASE n = 2
  <2> DEFINE x1 == v[f + 1]
  <2>1. terms = <<<<f, -s>>, <<f + 1, u>>>>
    BY <1>6 DEF Lays
  <2>2. Or(v, terms) = Shifted(v[f], -s) + Shifted(x1, u) + 0
    <3> HIDE DEF u
    <3> QED BY <2>1 DEF Or
  <2>3. x1 \in Nat
    BY <1>1, <1>6
  <2> HIDE DEF x1
  <2>4. Above(lo, u, Above(x1, w, 0)) = lo + x1 * Pow(u)
    BY <1>2, <1>4, <2>3 DEF Above
  <2>5. Shifted(x1, u) = x1 * Pow(u) /\ x1 * Pow(u) \in Int
    BY <1>2, <2>3, ShiftedUp
  <2>6. Or(v, terms) = Above(lo, u, Above(x1, w, 0))
    <3> HIDE DEF u
    <3> QED BY <1>4, <2>2, <2>4, <2>5
  <2> QED BY <1>6, <2>6 DEF lo, x1
<1>7. CASE n = 3
  <2> DEFINE x1 == v[f + 1]  x2 == v[f + 2]  t == 2 * w - s
  <2>1. terms = <<<<f, -s>>, <<f + 1, u>>, <<f + 2, t>>>>
    BY <1>7 DEF Lays
  <2>2. Or(v, terms) = Shifted(v[f], -s) + Shifted(x1, u) + Shifted(x2, t)
    <3> HIDE DEF u, t
    <3> QED BY <2>1 DEF Or
  <2>3. x1 \in Nat /\ x2 \in Nat /\ t \in Nat /\ t = u + w
    BY <1>1, <1>7
  <2>4. Pow(t) = Pow(u) * Pow(w)
    BY <1>2, <2>3, PowParts
  <2> HIDE DEF x1, x2, t
  <2>5. Above(lo, u, Above(x1, w, x2)) = lo + x1 * Pow(u) + x2 * Pow(t)
    <3> DEFINE p == Pow(u)  q == Pow(w)
    <3>1. p \in Nat /\ q \in Nat /\ Pow(t) = p * q
      BY <1>2, <2>4
    <3>2. Above(lo, u, Above(x1, w, x2)) = lo + p * (x1 + q * x2)
      BY DEF Above
    <3> HIDE DEF p, q
    <3>3. p * (x1 + q * x2) = x1 * p + x2 * (p * q)
      BY <2>3, <3>1
    <3>4. x1 * p \in Int /\ x2 * (p * q) \in Int
      BY <2>3, <3>1
    <3> QED BY <1>4, <3>1, <3>2, <3>3, <3>4 DEF p
  <2>6. Shifted(x1, u) = x1 * Pow(u) /\ Shifted(x2, t) = x2 * Pow(t)
    BY <1>2, <2>3, ShiftedUp
  <2>7. Or(v, terms) = Above(lo, u, Above(x1, w, x2))
    <3> HIDE DEF u
    <3> QED BY <1>4, <2>2, <2>5, <2>6
  <2> QED BY <1>7, <2>7 DEF lo, x1, x2
<1> QED BY <1>1, <1>5, <1>6, <1>7

(* A cell's bit is the bit of the group at the same place.                  *)
SameBit(v, w, y, k, at, from) ==
  \E c \in 0..(from - 1), l \in Amount :
    l < w /\ w * c + l = at + k /\ Bit(y, k) = Bit(v[c], l)

LEMMA CellBit ==
  ASSUME NEW terms, NEW w \in Amount, NEW W \in Amount, NEW from \in Nat,
         NEW at, NEW f, NEW n, NEW s,
         Lays(terms, w, W, from, at, f, n, s),
         NEW v, \A c \in 0..(from - 1) : v[c] \in Nat /\ v[c] < Pow(w),
         NEW k \in Amount, k < W
  PROVE  SameBit(v, w, Or(v, terms) % Pow(W), k, at, from)
<1> DEFINE lo == Behind(v[f], s)  u == w - s  y == Or(v, terms) % Pow(W)
<1>1. /\ f \in Nat /\ s \in Amount /\ s < w /\ n \in 1..3 /\ f + n <= from
      /\ w \in Nat /\ s \in Nat /\ w <= 12 /\ at = w * f + s /\ s + W <= n * w
      /\ k \in Nat /\ W \in Nat
  BY Amounts DEF Lays
<1>2. u \in Amount /\ u \in Nat /\ s + u = w
  BY <1>1 DEF Amount
<1>3. v[f] \in Nat /\ v[f] < Pow(w)
  BY <1>1
<1>4. /\ lo \in Int /\ 0 <= lo /\ lo < Pow(u)
      /\ \A j \in Amount : Bit(lo, j) = Bit(v[f], s + j)
  <2> HIDE DEF u
  <2> QED BY <1>1, <1>2, <1>3, BehindBits
<1> HIDE DEF lo
<1>5. PICK x1, x2 :
           /\ Or(v, terms) = Above(lo, u, Above(x1, w, x2))
           /\ x1 = IF n > 1 THEN v[f + 1] ELSE 0
           /\ x2 = IF n > 2 THEN v[f + 2] ELSE 0
  BY OrIs DEF lo
<1>6. /\ x1 \in Int /\ 0 <= x1 /\ x1 < Pow(w) /\ x2 \in Int
  <2>1. 0 < Pow(w)
    BY Amounts
  <2>2. n > 1 => v[f + 1] \in Nat /\ v[f + 1] < Pow(w)
    BY <1>1
  <2>3. n > 2 => v[f + 2] \in Nat
    BY <1>1
  <2> QED BY <1>1, <1>5, <2>1, <2>2, <2>3
<1>7. /\ k < u => Bit(y, k) = Bit(lo, k)
      /\ \A l \in Amount : l = k - u /\ l < w => Bit(y, k) = Bit(x1, l)
      /\ \A l \in Amount : l = k - u - w => Bit(y, k) = Bit(x2, l)
  <2> DEFINE z == Above(lo, u, Above(x1, w, x2))
  <2>1. y = z % Pow(W)
    BY <1>5
  <2> HIDE DEF u, y
  <2>2. BitOfThree(Above(lo, u, Above(x1, w, x2)) % Pow(W),
                   k, u, w, lo, x1, x2)
    BY <1>2, <1>4, <1>6, CellBits
  <2> QED BY <2>1, <2>2 DEF BitOfThree
<1> HIDE DEF y
<1>8. CASE k < u
  <2> DEFINE l == s + k
  <2>1. l \in Amount /\ l < w /\ w * f + l = at + k /\ f \in 0..(from - 1)
    BY <1>1, <1>8 DEF Amount
  <2>2. Bit(y, k) = Bit(v[f], l)
    BY <1>4, <1>7, <1>8
  <2> HIDE DEF l
  <2> QED BY <2>1, <2>2 DEF SameBit, y
<1>9. CASE u <= k /\ k < u + w
  <2> DEFINE l == k - u  c == f + 1
  <2>1. l \in Amount /\ l < w /\ n > 1 /\ c \in 0..(from - 1)
    BY <1>1, <1>9 DEF Amount
  <2>2. w * c + l = at + k
    BY <1>1
  <2>3. Bit(y, k) = Bit(v[c], l)
    <3>1. x1 = v[c]
      BY <1>5, <2>1
    <3> HIDE DEF c
    <3>2. Bit(y, k) = Bit(x1, l)
      BY <1>7, <2>1
    <3> QED BY <3>1, <3>2
  <2> HIDE DEF l, c
  <2> QED BY <2>1, <2>2, <2>3 DEF SameBit, y
<1>10. CASE u + w <= k
  <2> DEFINE l == k - u - w  c == f + 2
  <2>1. l \in Amount /\ l < w /\ n > 2 /\ c \in 0..(from - 1)
    BY <1>1, <1>10 DEF Amount
  <2>2. w * c + l = at + k
    BY <1>1
  <2>3. Bit(y, k) = Bit(v[c], l)
    <3>1. x2 = v[c]
      BY <1>5, <2>1
    <3> HIDE DEF c
    <3>2. Bit(y, k) = Bit(x2, l)
      BY <1>7, <2>1
    <3> QED BY <3>1, <3>2
  <2> HIDE DEF l, c
  <2> QED BY <2>1, <2>2, <2>3 DEF SameBit, y
<1> QED BY <1>1, <1>2, <1>8, <1>9, <1>10 DEF y

LEMMA QuotientIs ==
  ASSUME NEW p \in Nat, NEW x, NEW q, NEW r, IsQuotient(x, p, q, r)
  PROVE  x \div p = q /\ x % p = r
<1>1. q \in Int /\ r \in Int /\ 0 <= r /\ r < p /\ x = p * q + r
  BY DEF IsQuotient
<1> QED BY <1>1, Quotient

(* G groups of from cells.                                                  *)
Groups(in, from, G) == IsSeq(in, from * G)

(* Where cell j of group g lies, in groups of L.                            *)
Index(L, g, j) == L * g + j + 1

GroupOf(in, from, g) == [c \in 0..(from - 1) |-> in[g * from + c + 1]]

Repacked(out, in, from, table, L, W, G) ==
  /\ IsSeq(out, L * G)
  /\ \A g \in 0..(G - 1), j \in 0..(L - 1) :
       out[Index(L, g, j)] = Or(GroupOf(in, from, g), table[j + 1]) % Pow(W)

LEMMA RepackAt ==
  ASSUME NEW in, NEW from \in Nat, from > 0, NEW G \in Nat,
         Groups(in, from, G), NEW table, NEW L \in Nat, L > 0,
         Len(table) = L, NEW W
  PROVE  Repacked(Repack(in, from, table, W), in, from, table, L, W, G)
<1> DEFINE n == (Len(in) \div from) * Len(table)
           f == [i \in 1..n |->
    LET group == (i - 1) \div Len(table)
        terms == table[((i - 1) % Len(table)) + 1]
    IN  Or([c \in 0..(from - 1) |-> in[group * from + c + 1]], terms) % 2^W]
<1>1. Len(in) = from * G
  BY IsSeqIsSeq DEF Groups
<1>2. Len(in) \div from = G
  <2> DEFINE x == from * G
  <2>1. x = from * G + 0 /\ 0 \in Int /\ G \in Int
    OBVIOUS
  <2> HIDE DEF x
  <2>2. x \div from = G
    BY <2>1, Quotient
  <2> QED BY <1>1, <2>2 DEF x
<1>3. n = L * G /\ n \in Nat
  <2>1. L * G = G * L /\ L * G \in Nat
    OBVIOUS
  <2> QED BY <1>2, <2>1
<1>4. Repack(in, from, table, W) = << >> \o f
  BY DEF Repack
<1>5. f = [i \in 1..n |-> f[i]]
  OBVIOUS
<1>6. ASSUME NEW g \in 0..(G - 1), NEW j \in 0..(L - 1)
      PROVE  f[L * g + j + 1] = Or(GroupOf(in, from, g), table[j + 1]) % Pow(W)
  <2> DEFINE i == L * g + j + 1  x == i - 1
  <2>1. x = L * g + j /\ i = x + 1
    OBVIOUS
  <2>2. i \in 1..n
    <3>1. L * g + L <= L * G
      <4>1. G - 1 - g \in Nat
        OBVIOUS
      <4> DEFINE d == G - 1 - g
      <4>2. L * d >= 0
        BY <4>1
      <4>3. L * d = L * G - L - L * g
        OBVIOUS
      <4> QED BY <4>2, <4>3
    <3>2. L * g \in Nat
      OBVIOUS
    <3> QED BY <1>3, <3>1, <3>2
  <2> HIDE DEF i
  <2>3. x \div L = g /\ x % L = j
    <3>1. g \in Int /\ j \in Int /\ 0 <= j /\ j < L
      OBVIOUS
    <3> HIDE DEF x
    <3>2. IsQuotient(x, L, g, j)
      BY <2>1, <3>1 DEF IsQuotient
    <3> QED BY <3>2, QuotientIs
  <2>4. f[i] = Or([c \in 0..(from - 1) |-> in[((i - 1) \div L) * from + c + 1]],
                  table[((i - 1) % L) + 1]) % 2^W
    <3> HIDE DEF n
    <3> QED BY <2>2
  <2> HIDE DEF f
  <2>5. f[i] = Or([c \in 0..(from - 1) |-> in[g * from + c + 1]],
                  table[j + 1]) % 2^W
    BY <2>3, <2>4
  <2> QED BY <2>5 DEF i, GroupOf, Pow
<1> HIDE DEF f, n
<1>8. ASSUME NEW g \in 0..(G - 1), NEW j \in 0..(L - 1)
      PROVE  f[Index(L, g, j)] = Or(GroupOf(in, from, g), table[j + 1]) % Pow(W)
  BY <1>6 DEF Index
<1>7. IsSeq(<< >> \o f, n) /\ << >> \o f = f
  BY <1>3, <1>5, Written
<1> QED BY <1>3, <1>4, <1>7, <1>8 DEF Repacked
LEMMA RepackBits ==
  ASSUME NEW table, NEW w \in Amount, w > 0, NEW W \in Amount, W > 0,
         NEW from \in Nat, from > 0, NEW L \in Nat, L > 0, Len(table) = L,
         Laid(table, w, W, from), NEW G \in Nat, NEW in, Groups(in, from, G),
         \A i \in 1..(from * G) : in[i] \in Nat /\ in[i] < Pow(w),
         NEW out, out = Repack(in, from, table, W),
         NEW b \in 0..(from * G * w - 1)
  PROVE  StreamBit(in, w, b) = StreamBit(out, W, b)
<1>1. /\ w \in Nat /\ W \in Nat /\ b \in Nat /\ b < from * G * w
      /\ from * G \in Nat /\ from * G * w \in Nat /\ L * W = from * w
  BY Amounts DEF Laid
<1> DEFINE i == b \div W  k == b % W  g == i \div L  j == i % L
<1>2. IsQuotient(b, W, i, k) /\ IsQuotient(i, L, g, j)
  <2>1. b \in Int
    BY <1>1
  <2>2. IsQuotient(b, W, i, k)
    BY <1>1, <2>1, Divided
  <2>3. i \in Int
    BY <2>2 DEF IsQuotient
  <2> HIDE DEF i
  <2> QED BY <2>2, <2>3, Divided
<1> HIDE DEF i, k, g, j
<1>3. /\ i \in Int /\ k \in Int /\ 0 <= k /\ k < W /\ b = W * i + k
      /\ g \in Int /\ j \in Int /\ 0 <= j /\ j < L /\ i = L * g + j
  BY <1>2 DEF IsQuotient
<1>4. b = from * w * g + W * j + k
  <2>1. W * (L * g + j) = (L * W) * g + W * j
    BY <1>1, <1>3
  <2> QED BY <1>1, <1>3, <2>1
<1>5. W * j + k \in Nat /\ W * j + k < from * w
  <2> DEFINE d == L - 1 - j  a == W * j  p == from * w
  <2>1. d \in Nat /\ a \in Nat /\ p \in Nat
    BY <1>1, <1>3
  <2>2. W * d >= 0
    BY <1>1, <2>1
  <2>3. W * d = p - W - a
    BY <1>1, <1>3
  <2> HIDE DEF d, a, p
  <2>4. W * d \in Int
    BY <1>1, <2>1
  <2>5. a + k \in Nat /\ a + k < p
    BY <1>1, <1>3, <2>1, <2>2, <2>3, <2>4
  <2> QED BY <2>5 DEF a, p
<1>6. 0 <= g /\ g < G
  <2> DEFINE p == from * w  x == W * j + k
  <2>0. p \in Nat /\ p > 0
    <3>1. w > 0 /\ from > 0
      OBVIOUS
    <3> QED BY <1>1, <3>1
  <2>2. from * G * w = p * G
    BY <1>1
  <2>3. x \in Nat /\ x < p
    BY <1>5
  <2> HIDE DEF p
  <2>4. p * g \in Int /\ p * G \in Int
    BY <1>3, <2>0
  <2>5. b = p * g + x
    <3>1. W * j \in Int
      BY <1>1, <1>3
    <3> DEFINE a == W * j
    <3>2. b = from * w * g + a + k
      BY <1>4
    <3>3. b = p * g + a + k
      BY <3>2 DEF p
    <3> HIDE DEF a
    <3>4. b = p * g + (a + k)
      BY <1>3, <2>4, <3>1, <3>3 DEF a
    <3> QED BY <3>4 DEF a
  <2> HIDE DEF x
  <2>1. p \in Nat /\ p > 0 /\ x \in Nat /\ x < p /\ b = p * g + x
    BY <2>0, <2>3, <2>5
  <2>6. CASE g <= -1
    <3>1. p * g <= -p
      BY <1>3, <2>1, <2>6
    <3> QED BY <1>1, <2>1, <2>4, <3>1
  <2>7. CASE g >= G
    <3>1. p * g >= p * G
      BY <1>3, <2>1, <2>7
    <3>2. b < p * G
      BY <1>1, <2>2
    <3> QED BY <1>1, <2>1, <2>4, <3>1, <3>2
  <2> QED BY <1>3, <2>6, <2>7
<1>7. g \in 0..(G - 1) /\ j \in 0..(L - 1) /\ k \in Amount
  <2>1. g \in 0..(G - 1) /\ j \in 0..(L - 1)
    BY <1>3, <1>6
  <2>2. W <= 12
    BY Amounts
  <2>3. k \in Amount
    BY <1>1, <1>3, <2>2 DEF Amount
  <2> QED BY <2>1, <2>3
<1> DEFINE v == GroupOf(in, from, g)  at == W * j
<1>8. ASSUME NEW c \in 0..(from - 1)
      PROVE  v[c] = in[from * g + c + 1] /\ v[c] \in Nat /\ v[c] < Pow(w)
  <2> DEFINE m == from * g + c + 1
  <2>1. v[c] = in[g * from + c + 1]
    BY DEF GroupOf
  <2>2. g * from + c + 1 = m
    BY <1>3
  <2>3. m \in 1..(from * G)
    <3>1. from * g >= 0
      BY <1>3, <1>6
    <3>2. G - 1 - g \in Nat
      BY <1>3, <1>6
    <3> DEFINE d == G - 1 - g
    <3>3. from * d >= 0
      BY <3>2
    <3>4. from * d = from * G - from - from * g
      BY <1>3
    <3> DEFINE e == from * g  h == from * G
    <3>5. e \in Int /\ h \in Int /\ 0 <= e /\ e <= h - from
      BY <1>1, <1>3, <3>1, <3>3, <3>4
    <3>6. m = e + c + 1
      OBVIOUS
    <3> HIDE DEF e, h, m
    <3>7. m \in 1..h
      BY <3>5, <3>6
    <3> QED BY <3>7 DEF h
  <2> HIDE DEF m, v
  <2> QED BY <2>1, <2>2, <2>3 DEF m
<1>9. PICK f, n, s : Lays(table[j + 1], w, W, from, at, f, n, s)
  BY <1>7 DEF Laid
<1> DEFINE y == Or(v, table[j + 1]) % Pow(W)
<1>10. SameBit(v, w, y, k, at, from)
  <2> HIDE DEF v, at
  <2> QED BY <1>3, <1>7, <1>8, <1>9, CellBit
<1>11. out[i + 1] = y
  <2>3. Repacked(Repack(in, from, table, W), in, from, table, L, W, G)
    BY RepackAt
  <2>1. Repack(in, from, table, W)[Index(L, g, j)] = y
    BY <1>7, <2>3 DEF Repacked
  <2> HIDE DEF y
  <2>2. Index(L, g, j) = i + 1
    BY <1>3 DEF Index
  <2> QED BY <2>1, <2>2
<1> HIDE DEF y, v
<1>12. PICK c \in 0..(from - 1), l \in Amount :
         l < w /\ w * c + l = at + k /\ Bit(y, k) = Bit(v[c], l)
  BY <1>10 DEF SameBit
<1>13. StreamBit(out, W, b) = Bit(y, k)
  BY <1>11 DEF StreamBit, Bit, Pow, i, k
<1> DEFINE m == from * g + c
<1>14. m \in Int /\ l \in Nat
  BY <1>3, Amounts
<1>15. b = w * m + l
  <2>1. w * (from * g + c) = from * w * g + w * c
    BY <1>1, <1>3
  <2>2. w * c \in Int /\ at \in Int /\ from * w * g \in Int
    BY <1>1, <1>3
  <2> HIDE DEF at
  <2>3. w * m + l = from * w * g + at + k
    BY <1>3, <1>12, <1>14, <2>1, <2>2
  <2> QED BY <1>4, <2>3 DEF at
<1>16. v[c] = in[m + 1]
  BY <1>8
<1> HIDE DEF m
<1>17. IsQuotient(b, w, m, l)
  BY <1>12, <1>14, <1>15 DEF IsQuotient
<1>18. b \div w = m /\ b % w = l
  BY <1>1, <1>17, QuotientIs
<1>19. StreamBit(in, w, b) = Bit(in[m + 1], l)
  BY <1>18 DEF StreamBit, Bit, Pow
<1> QED BY <1>12, <1>13, <1>16, <1>19

LEMMA OrInt ==
  ASSUME NEW terms, NEW w \in Amount, NEW W \in Amount, NEW from \in Nat,
         NEW at, NEW f, NEW n, NEW s,
         Lays(terms, w, W, from, at, f, n, s),
         NEW v, \A c \in 0..(from - 1) : v[c] \in Nat
  PROVE  Or(v, terms) \in Int
<1>1. /\ f \in Nat /\ s \in Amount /\ s < w /\ n \in 1..3 /\ f + n <= from
      /\ w \in Nat /\ s \in Nat /\ w <= 12
  BY Amounts DEF Lays
<1>2. PICK x1, x2 :
           /\ Or(v, terms) = Above(Behind(v[f], s), w - s, Above(x1, w, x2))
           /\ x1 = IF n > 1 THEN v[f + 1] ELSE 0
           /\ x2 = IF n > 2 THEN v[f + 2] ELSE 0
  BY OrIs
<1>3. x1 \in Int /\ x2 \in Int
  BY <1>1, <1>2
<1> DEFINE z == Above(x1, w, x2)  lo == Behind(v[f], s)  u == w - s
<1>4. z \in Int
  BY <1>3, BitsAbove
<1>5. lo \in Int
  <2>1. v[f] \in Nat /\ Pow(s) \in Nat /\ Pow(s) > 0
    BY <1>1, Amounts
  <2> QED BY <2>1 DEF Behind
<1>6. u \in Amount
  BY <1>1 DEF Amount
<1>7. Or(v, terms) = Above(lo, u, z)
  BY <1>2
<1> HIDE DEF z, lo, u
<1> QED BY <1>4, <1>5, <1>6, <1>7, BitsAbove

LEMMA PlaceOf ==
  ASSUME NEW L \in Nat, L > 0, NEW G \in Nat, NEW i \in 1..(L * G)
  PROVE  \E g \in 0..(G - 1), j \in 0..(L - 1) : i = Index(L, g, j)
<1> DEFINE x == i - 1  g == x \div L  j == x % L  n == L * G
<1>1. x \in Int /\ 0 <= x /\ x < n /\ n \in Nat
  <2>1. n \in Nat
    OBVIOUS
  <2> HIDE DEF n
  <2>2. i \in 1..n
    BY DEF n
  <2> QED BY <2>1, <2>2
<1>2. IsQuotient(x, L, g, j)
  <2> HIDE DEF x
  <2> QED BY <1>1, Divided
<1> HIDE DEF x, g, j, n
<1>3. g \in Int /\ j \in Int /\ 0 <= j /\ j < L /\ x = L * g + j
  BY <1>2 DEF IsQuotient
<1>4. L * g \in Int
  BY <1>3
<1>5. g >= 0
  <2>1. CASE g <= -1
    <3>1. L * g <= -L
      BY <1>3, <2>1
    <3> QED BY <1>1, <1>3, <1>4, <3>1
  <2> QED BY <1>3, <2>1
<1>6. g < G
  <2>1. CASE g >= G
    <3>1. L * g >= n
      BY <1>3, <2>1 DEF n
    <3> QED BY <1>1, <1>3, <1>4, <3>1
  <2> QED BY <1>3, <2>1
<1>7. i = Index(L, g, j)
  BY <1>3 DEF Index, x
<1>8. g \in 0..(G - 1) /\ j \in 0..(L - 1)
  BY <1>3, <1>5, <1>6
<1> QED BY <1>7, <1>8

(* Fields of w bits.                                                        *)
Fields(in, n, w) ==
  IsSeq(in, n) /\ \A i \in 1..n : in[i] \in Nat /\ in[i] < Pow(w)

LEMMA RepackFields ==
  ASSUME NEW table, NEW w \in Amount, w > 0, NEW W \in Amount, W > 0,
         NEW from \in Nat, from > 0, NEW L \in Nat, L > 0, Len(table) = L,
         Laid(table, w, W, from), NEW G \in Nat,
         NEW in, Fields(in, from * G, w)
  PROVE  Fields(Repack(in, from, table, W), L * G, W)
<1> DEFINE out == Repack(in, from, table, W)
<1>1. Groups(in, from, G)
  BY DEF Groups, Fields
<1>2. Repacked(out, in, from, table, L, W, G)
  BY <1>1, RepackAt
<1> HIDE DEF out
<1>3. ASSUME NEW i \in 1..(L * G) PROVE out[i] \in Nat /\ out[i] < Pow(W)
  <2>1. PICK g \in 0..(G - 1), j \in 0..(L - 1) : i = Index(L, g, j)
    BY PlaceOf
  <2> DEFINE v == GroupOf(in, from, g)
  <2>2. ASSUME NEW c \in 0..(from - 1) PROVE v[c] \in Nat
    <3>1. g \in Int /\ c \in Int /\ 0 <= c /\ c < from
      OBVIOUS
    <3>2. from * g >= 0
      OBVIOUS
    <3> DEFINE d == G - 1 - g
    <3>3. d \in Nat
      OBVIOUS
    <3>4. from * d >= 0
      BY <3>3
    <3> DEFINE e == g * from  h == from * G
    <3>5. from * d = h - from - e
      BY <3>1
    <3>6. e \in Int /\ h \in Int /\ 0 <= e /\ from * d \in Int
      BY <3>1, <3>2, <3>3
    <3>7. v[c] = in[e + c + 1]
      BY DEF GroupOf
    <3>8. \A m \in 1..h : in[m] \in Nat
      BY DEF Fields
    <3> HIDE DEF e, h, v, d
    <3>9. e + c + 1 \in 1..h
      BY <3>1, <3>4, <3>5, <3>6
    <3> QED BY <3>7, <3>8, <3>9
  <2>3. PICK f, n, s : Lays(table[j + 1], w, W, from, W * j, f, n, s)
    BY DEF Laid
  <2> DEFINE y == Or(v, table[j + 1])
  <2>4. y \in Int
    <3> HIDE DEF v
    <3> QED BY <2>2, <2>3, OrInt
  <2>5. out[i] = y % Pow(W)
    BY <1>2, <2>1 DEF Repacked
  <2> HIDE DEF y, v
  <2>6. Pow(W) \in Nat /\ Pow(W) > 0
    BY Amounts
  <2> QED BY <2>4, <2>5, <2>6
<1> QED BY <1>2, <1>3 DEF Repacked, Fields, out

LEMMA RepackSame ==
  ASSUME NEW table, NEW w \in Amount, w > 0, NEW W \in Amount, W > 0,
         NEW from \in Nat, from > 0, NEW L \in Nat, L > 0, Len(table) = L,
         Laid(table, w, W, from), NEW G \in Nat,
         NEW in, Fields(in, from * G, w)
  PROVE  SameBits(in, w, Repack(in, from, table, W), W)
<1> DEFINE out == Repack(in, from, table, W)
<1>1. IsSeq(in, from * G) /\ Groups(in, from, G)
      /\ \A i \in 1..(from * G) : in[i] \in Nat /\ in[i] < Pow(w)
  BY DEF Groups, Fields
<1>2. IsSeq(out, L * G)
  BY RepackFields DEF Fields
<1>3. Len(in) = from * G /\ Len(out) = L * G
  BY <1>1, <1>2, IsSeqIsSeq
<1>4. Len(in) * w = Len(out) * W
  <2>1. L * W = from * w /\ w \in Nat /\ W \in Nat
    BY Amounts DEF Laid
  <2>2. (from * G) * w = (from * w) * G /\ (L * G) * W = (L * W) * G
    BY <2>1
  <2> QED BY <1>3, <2>1, <2>2
<1>5. ASSUME NEW b \in 0..(from * G * w - 1)
      PROVE  StreamBit(in, w, b) = StreamBit(out, W, b)
  BY <1>1, RepackBits
<1> HIDE DEF out
<1>6. Len(in) * w = from * G * w
  BY <1>3
<1> QED BY <1>4, <1>5, <1>6 DEF SameBits, out

FieldGroups(in, from, G, w) == Fields(in, from * G, w)

LEMMA BackAgain ==
  ASSUME NEW pack, NEW unpack, NEW w \in Amount, w > 0, NEW W \in Amount, W > 0,
         NEW size \in Nat, size > 0, NEW L \in Nat, L > 0,
         Len(pack) = L, Len(unpack) = size,
         Laid(pack, w, W, size), Laid(unpack, W, w, L), NEW G \in Nat,
         NEW in, FieldGroups(in, size, G, w)
  PROVE  Repack(Repack(in, size, pack, W), L, unpack, w) = in
<1> DEFINE mid == Repack(in, size, pack, W)  out == Repack(mid, L, unpack, w)
           n == size * G
<1>1. Fields(mid, L * G, W) /\ SameBits(in, w, mid, W)
  <2>1. Fields(in, size * G, w)
    BY DEF FieldGroups
  <2> QED BY <2>1, RepackFields, RepackSame
<1> HIDE DEF mid
<1>2. Fields(out, n, w) /\ SameBits(mid, W, out, w)
  BY <1>1, RepackFields, RepackSame
<1> HIDE DEF out
<1>3. Fields(in, n, w) /\ n \in Nat /\ w \in Nat
  BY Amounts DEF FieldGroups
<1> HIDE DEF n
<1>4. IsSeq(in, n) /\ IsSeq(out, n) /\ Len(in) = n
  BY <1>2, <1>3, IsSeqIsSeq DEF Fields
<1>5. ASSUME NEW b \in 0..(n * w - 1)
      PROVE  StreamBit(in, w, b) = StreamBit(out, w, b)
  <2>1. StreamBit(in, w, b) = StreamBit(mid, W, b)
    BY <1>1, <1>4 DEF SameBits
  <2>2. b \in 0..(Len(mid) * W - 1)
    BY <1>1, <1>4 DEF SameBits
  <2>3. StreamBit(mid, W, b) = StreamBit(out, w, b)
    BY <1>2, <2>2 DEF SameBits
  <2> QED BY <2>1, <2>3
<1>6. ASSUME NEW i \in 1..n PROVE in[i] = out[i]
  <2>1. ASSUME NEW k \in 0..(w - 1) PROVE Bit(in[i], k) = Bit(out[i], k)
    <3> DEFINE m == i - 1  b == w * m + k
    <3>1. m \in Nat /\ k \in Nat /\ k < w /\ i = m + 1 /\ m <= n - 1
      BY <1>3
    <3>2. b \in Int /\ 0 <= b
      BY <1>3, <3>1
    <3>3. b < n * w
      <4> DEFINE d == n - 1 - m
      <4>1. d \in Nat
        BY <1>3, <3>1
      <4>2. w * d >= 0
        BY <1>3, <4>1
      <4>3. w * d = n * w - w - w * m
        BY <1>3, <3>1
      <4> DEFINE e == w * m  h == n * w  x == w * d
      <4>4. e \in Int /\ h \in Int /\ x >= 0 /\ x = h - w - e
        BY <1>3, <3>1, <4>2, <4>3
      <4> HIDE DEF e, h, x
      <4>5. e + k < h
        BY <1>3, <3>1, <4>4
      <4> QED BY <4>5 DEF e, h
    <3>4. n * w \in Int
      BY <1>3
    <3> HIDE DEF m
    <3>5. IsQuotient(b, w, m, k)
      BY <3>1 DEF IsQuotient
    <3> HIDE DEF b
    <3>6. b \div w = m /\ b % w = k
      BY <1>3, <3>5, QuotientIs
    <3>7. StreamBit(in, w, b) = StreamBit(out, w, b)
      BY <1>5, <3>2, <3>3, <3>4
    <3>8. /\ StreamBit(in, w, b) = Bit(in[m + 1], k)
          /\ StreamBit(out, w, b) = Bit(out[m + 1], k)
      BY <3>6 DEF StreamBit, Bit, Pow
    <3> QED BY <3>1, <3>7, <3>8
  <2>2. /\ in[i] \in Nat /\ in[i] < Pow(w)
        /\ out[i] \in Nat /\ out[i] < Pow(w)
    BY <1>2, <1>3 DEF Fields
  <2> QED BY <2>1, <2>2, BitsDetermine
<1>7. in = [i \in 1..n |-> in[i]] /\ out = [i \in 1..n |-> out[i]]
  BY <1>4 DEF IsSeq
<1>8. in = out
  BY <1>6, <1>7
<1> QED BY <1>8 DEF out, mid

(* A packing and its inverse, in groups.                                    *)
Packing(p) ==
  /\ p.w \in Amount /\ p.w > 0
  /\ p.size \in Nat /\ p.size > 0 /\ Len(p.unpack) = p.size
  /\ Len(p.pack) \in Nat /\ Len(p.pack) > 0
  /\ Laid(p.pack, p.w, 8, p.size) /\ Laid(p.unpack, 8, p.w, Len(p.pack))
  /\ (p.size * p.w) \div 8 = Len(p.pack)

LEMMA EachPacking ==
  ASSUME NEW p \in Packings PROVE Packing(p) /\ \E G \in Nat : p.size * G = 16
<1>1. CASE p = [w |-> 5, size |-> 8, pack |-> pack5, unpack |-> unpack5]
  <2>1. Len(pack5) = 5 /\ Len(unpack5) = 8
    BY DEF pack5, unpack5
  <2>2. p.w \in Amount /\ p.w = 5 /\ p.size = 8 /\ p.size * p.w = 40
        /\ p.pack = pack5 /\ p.unpack = unpack5
    BY <1>1 DEF Amount
  <2>5. Laid(p.pack, p.w, 8, p.size) /\ Laid(p.unpack, 8, p.w, Len(p.pack))
    BY <2>1, <2>2, Laid5, LaidFrom5
  <2>6. (p.size * p.w) \div 8 = Len(p.pack)
    BY <2>1, <2>2
  <2>7. Len(p.pack) = 5 /\ Len(p.unpack) = 8
    BY <2>1, <2>2
  <2>8. /\ p.w > 0 /\ p.size \in Nat /\ p.size > 0 /\ Len(p.unpack) = p.size
        /\ Len(p.pack) \in Nat /\ Len(p.pack) > 0
    BY <2>2, <2>7
  <2>3. Packing(p)
    BY <2>2, <2>5, <2>6, <2>8 DEF Packing
  <2>4. 2 \in Nat /\ p.size * 2 = 16
    BY <2>2
  <2> QED BY <2>3, <2>4
<1>2. CASE p = [w |-> 11, size |-> 8, pack |-> pack11, unpack |-> unpack11]
  <2>1. Len(pack11) = 11 /\ Len(unpack11) = 8
    BY DEF pack11, unpack11
  <2>2. p.w \in Amount /\ p.w = 11 /\ p.size = 8 /\ p.size * p.w = 88
        /\ p.pack = pack11 /\ p.unpack = unpack11
    BY <1>2 DEF Amount
  <2>5. Laid(p.pack, p.w, 8, p.size) /\ Laid(p.unpack, 8, p.w, Len(p.pack))
    BY <2>1, <2>2, Laid11, LaidFrom11
  <2>6. (p.size * p.w) \div 8 = Len(p.pack)
    BY <2>1, <2>2
  <2>7. Len(p.pack) = 11 /\ Len(p.unpack) = 8
    BY <2>1, <2>2
  <2>8. /\ p.w > 0 /\ p.size \in Nat /\ p.size > 0 /\ Len(p.unpack) = p.size
        /\ Len(p.pack) \in Nat /\ Len(p.pack) > 0
    BY <2>2, <2>7
  <2>3. Packing(p)
    BY <2>2, <2>5, <2>6, <2>8 DEF Packing
  <2>4. 2 \in Nat /\ p.size * 2 = 16
    BY <2>2
  <2> QED BY <2>3, <2>4
<1>3. CASE p = [w |-> 12, size |-> 2, pack |-> tobytes12,
                unpack |-> frombytes12]
  <2>1. Len(tobytes12) = 3 /\ Len(frombytes12) = 2
    BY DEF tobytes12, frombytes12
  <2>2. p.w \in Amount /\ p.w = 12 /\ p.size = 2 /\ p.size * p.w = 24
        /\ p.pack = tobytes12 /\ p.unpack = frombytes12
    BY <1>3 DEF Amount
  <2>5. Laid(p.pack, p.w, 8, p.size) /\ Laid(p.unpack, 8, p.w, Len(p.pack))
    BY <2>1, <2>2, Laid12, LaidFrom12
  <2>6. (p.size * p.w) \div 8 = Len(p.pack)
    BY <2>1, <2>2
  <2>7. Len(p.pack) = 3 /\ Len(p.unpack) = 2
    BY <2>1, <2>2
  <2>8. /\ p.w > 0 /\ p.size \in Nat /\ p.size > 0 /\ Len(p.unpack) = p.size
        /\ Len(p.pack) \in Nat /\ Len(p.pack) > 0
    BY <2>2, <2>7
  <2>3. Packing(p)
    BY <2>2, <2>5, <2>6, <2>8 DEF Packing
  <2>4. 8 \in Nat /\ p.size * 8 = 16
    BY <2>2
  <2> QED BY <2>3, <2>4
<1> QED BY <1>1, <1>2, <1>3 DEF Packings

(* However many whole groups of fields there are, the bytes are their bits, *)
(* least significant first, and unpacking gives the fields back.            *)
THEOREM FieldsComeBack ==
  ASSUME NEW p \in Packings, NEW G \in Nat, NEW in, Fields(in, p.size * G, p.w)
  PROVE  ComesBack(in, p)
<1>1. Packing(p) /\ 8 \in Amount
  BY EachPacking DEF Amount
<1> DEFINE w == p.w  size == p.size  pack == p.pack  unpack == p.unpack
           L == Len(pack)
<1>2. /\ w \in Amount /\ w > 0 /\ size \in Nat /\ size > 0
      /\ Len(unpack) = size /\ L \in Nat /\ L > 0 /\ Len(pack) = L
      /\ Laid(pack, w, 8, size) /\ Laid(unpack, 8, w, L)
      /\ (size * w) \div 8 = L /\ Fields(in, size * G, w)
  BY <1>1 DEF Packing
<1> HIDE DEF w, size, pack, unpack, L
<1>3. SameBits(in, w, Repack(in, size, pack, 8), 8)
  BY <1>1, <1>2, RepackSame
<1>4. Repack(Repack(in, size, pack, 8), L, unpack, w) = in
  <2>1. FieldGroups(in, size, G, w) /\ 8 > 0
    BY <1>2 DEF FieldGroups
  <2> QED BY <1>1, <1>2, <2>1, BackAgain
<1>5. /\ SameBits(in, w, Repack(in, size, pack, 8), 8)
      /\ Repack(Repack(in, size, pack, 8), (size * w) \div 8, unpack, w) = in
  BY <1>2, <1>3, <1>4
<1> QED BY <1>5 DEF w, size, pack, unpack, ComesBack

LEMMA Scattered ==
  ASSUME NEW m \in {1, 577, 1999}, NEW p \in Packings
  PROVE  ComesBack(<< >> \o [i \in 1..16 |-> (m * i * i + 5 * m) % 2^p.w], p)
<1> DEFINE f == [i \in 1..16 |-> (m * i * i + 5 * m) % 2^p.w]
           in == << >> \o f
           n == 16
<1>1. PICK G \in Nat : p.size * G = 16
  BY EachPacking
<1>2. ASSUME NEW i \in 1..16 PROVE f[i] \in Nat /\ f[i] < Pow(p.w)
  <2>1. p.w \in Amount
    BY EachPacking DEF Packing
  <2>2. Pow(p.w) \in Nat /\ Pow(p.w) > 0
    BY <2>1, Amounts
  <2> DEFINE x == m * i * i + 5 * m
  <2>3. x \in Int
    <3>1. m \in Int /\ i \in Int
      OBVIOUS
    <3> QED BY <3>1
  <2>4. f[i] = x % Pow(p.w)
    BY DEF Pow
  <2> HIDE DEF x, f
  <2> QED BY <2>2, <2>3, <2>4
<1>3. f = [i \in 1..n |-> f[i]] /\ n \in Nat
  OBVIOUS
<1> HIDE DEF f, n
<1>4. IsSeq(in, n) /\ in = f
  BY <1>3, Written
<1>5. Fields(in, p.size * G, p.w)
  <2>1. p.size * G = n /\ \A i \in 1..n : f[i] \in Nat /\ f[i] < Pow(p.w)
    BY <1>1, <1>2 DEF n
  <2> QED BY <1>4, <2>1 DEF Fields
<1> HIDE DEF in
<1>6. ComesBack(in, p)
  BY <1>5, FieldsComeBack
<1> QED BY <1>6 DEF in, f

LEMMA PackingHolds == PackingExact
BY Scattered DEF PackingExact

(* What is written of a polynomial is its rounded coefficients, bit by bit: *)
(* kyber/poly.c and polyvec.c.                                              *)
THEOREM CodingIsExact == Spec => []CodingExact
<1>1. CodingExact
  BY Rounding, PackingHolds DEF CodingExact
<1> QED BY <1>1, PTL
================================================================================
