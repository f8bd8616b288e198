------------------------------ MODULE ShareFormat ------------------------------
(***************************************************************************)
(* The `.shard` blob: its layout, the header parser (pqshard_inspect), how *)
(* a split writes one (write_header and the plain and sealed bodies), and  *)
(* how a combine opens one (recover_material).  No state.                  *)
(*                                                                         *)
(* Bytes are abstracted to what the code can tell apart.  The material of  *)
(* one split is a polynomial FAMILY; the y-material of a share is the      *)
(* family's POINT at the share's x; bytes that are no family's point (a    *)
(* flipped byte, say) are Junk.  BLAKE2b and the AEAD are taken as perfect *)
(* (external): a digest or tag IS the header and y-material it covers.     *)
(***************************************************************************)
EXTENDS Integers

CONSTANTS
  SetId,      (* values of the random 16-byte set_id                        *)
  Secret,     (* the secrets that get split                                 *)
  Phrase,     (* the non-empty passphrases                                  *)
  NoPhrase,   (* a NULL or empty passphrase                                 *)
  Junk,       (* bytes that carry no recoverable value                      *)
  Splits      (* the splits made so far                                     *)

ASSUME DistinctValues == NoPhrase \notin Phrase /\ Junk \notin Phrase

Byte == 0..255

PQSHARD_MIN_K      == 2
PQSHARD_MAX_N      == 255
PQSHARD_MAX_SECRET == 64 * 1024 * 1024

FORMAT_VERSION == 1
HDR_LEN        == 40
VERIFY_TAG_LEN == 16
PLAIN_HASH_LEN == 32
AEAD_ABYTES    == 16

(* salt, three u32 costs, then the hybrid block: wrap nonce, wrapped secret *)
(* key (Kyber sk, X448 sk, AEAD tag), KEM ciphertext; then the AEAD nonce.  *)
HYBRID_BLOCK_LEN  == 24 + (3168 + 56 + AEAD_ABYTES) + (1568 + 56)
SEALED_PREFIX_LEN == 16 + 12 + HYBRID_BLOCK_LEN + 24

---------------------------------------------------------------------------
(* Shamir, symbolically.                                                    *)

Family == [set_id: SetId, secret: Secret, k: PQSHARD_MIN_K..PQSHARD_MAX_N,
           len: 1..PQSHARD_MAX_SECRET]

Point == [family: Family, x: Byte]

ASSUME JunkAssumption == Junk \notin Family /\ Junk \notin Point

gf_eval(f, x) == [family |-> f, x |-> x]

(* shamir_combine's parameter check: it returns -1 on anything else.        *)
ShamirAccepts(xs, k) ==
  /\ k >= 2
  /\ \A i \in 0..(k - 1) : xs[i] # 0
  /\ \A i, j \in 0..(k - 1) : i # j => xs[i] # xs[j]

(* Lagrange interpolation at 0 through the first k points: a family comes   *)
(* back when all k points are its own and it has degree below k.            *)
shamir_combine(xs, ys, k) ==
  LET f == ys[0].family IN
  IF /\ ys[0] # Junk
     /\ f.k <= k
     /\ \A i \in 0..(k - 1) : ys[i] = gf_eval(f, xs[i])
  THEN f ELSE Junk

---------------------------------------------------------------------------
(* Argon2id costs (m_cost in KiB).                                          *)

Kdf == [t_cost: Nat, m_cost: Nat, parallelism: Nat]

KdfLevel == {"KDF_BASIC", "KDF_MEDIUM", "KDF_STRONG"}

kdf_params_for_level ==
  [KDF_BASIC  |-> [t_cost |-> 3, m_cost |-> 256 * 1024,      parallelism |-> 4],
   KDF_MEDIUM |-> [t_cost |-> 3, m_cost |-> 1024 * 1024,     parallelism |-> 4],
   KDF_STRONG |-> [t_cost |-> 4, m_cost |-> 4 * 1024 * 1024, parallelism |-> 8]]

(* Mutant: >= where the code has > against MAX_KDF_M_COST.                  *)
KdfAcceptedBelowMax(kp) ==
  /\ kp.t_cost \in 1..16
  /\ kp.parallelism \in 1..16
  /\ kp.m_cost >= 8 * kp.parallelism
  /\ kp.m_cost < 4 * 1024 * 1024

(* The bounds a combine puts on the costs it reads from a sealed share.     *)
KdfAccepted(kp) ==
  /\ kp.t_cost \in 1..16
  /\ kp.parallelism \in 1..16
  /\ kp.m_cost >= 8 * kp.parallelism
  /\ kp.m_cost <= 4 * 1024 * 1024

---------------------------------------------------------------------------
(* Header and blob.                                                         *)

Header == [magic: BOOLEAN, version: Byte, sealed: BOOLEAN, text: BOOLEAN,
           k: Byte, n: Byte, x: Byte, set_id: SetId,
           secret_len: Nat, mlen: Nat]

(* What derive_key turns into the master key (the salt is part of block).   *)
MasterKey == [phrase: Phrase, kdf: Kdf]

(* kdf: the costs the share states; block: the master key its hybrid block  *)
(* was wrapped under (Junk in a plain share, or once the salt or the block  *)
(* is damaged); auth: what the checksum or the AEAD tag covers.             *)
Blob == [hdr: Header, kdf: Kdf, block: MasterKey \cup {Junk},
         y: Point \cup {Junk},
         auth: [hdr: Header, y: Point \cup {Junk}] \cup {Junk}, len: Nat]

write_header(sealed, text, f, n, x) ==
  [magic |-> TRUE, version |-> FORMAT_VERSION, sealed |-> sealed,
   text |-> text, k |-> f.k, n |-> n, x |-> x, set_id |-> f.set_id,
   secret_len |-> f.len, mlen |-> f.len + VERIFY_TAG_LEN]

BlobLen(sealed, mlen) ==
  IF sealed THEN HDR_LEN + SEALED_PREFIX_LEN + mlen + AEAD_ABYTES
            ELSE HDR_LEN + mlen + PLAIN_HASH_LEN

(* The share a split writes for point x of family f.                        *)
MakeShare(f, text, n, x, phrase, kdf) ==
  LET sealed == phrase # NoPhrase
      hdr == write_header(sealed, text, f, n, x)
      y   == gf_eval(f, x)
  IN  [hdr |-> hdr, kdf |-> kdf,
       block |-> IF sealed THEN [phrase |-> phrase, kdf |-> kdf] ELSE Junk,
       y |-> y, auth |-> [hdr |-> hdr, y |-> y],
       len |-> BlobLen(sealed, hdr.mlen)]

(* A split that succeeded, and the shares it wrote.                         *)
Split == [family: Family, text: BOOLEAN, n: 1..PQSHARD_MAX_N,
          phrase: Phrase \cup {NoPhrase},
          kdf: {kdf_params_for_level[level] : level \in KdfLevel}]

(* pqshard_split refuses other k and n; the 16 random bytes of set_id are   *)
(* taken never to repeat.                                                   *)
ASSUME SplitsAssumption ==
  /\ Splits \subseteq Split
  /\ \A s \in Splits : s.family.k <= s.n
  /\ \A s, t \in Splits : s.family.set_id = t.family.set_id => s = t

SharesOf(s) == {MakeShare(s.family, s.text, s.n, x, s.phrase, s.kdf) :
                  x \in 1..s.n}

pqshard_inspect(b) ==
  /\ b.len >= HDR_LEN /\ b.hdr.magic
  /\ b.hdr.version = FORMAT_VERSION
  /\ b.hdr.k >= PQSHARD_MIN_K
  /\ b.hdr.x \in 1..PQSHARD_MAX_N
  /\ b.hdr.secret_len \in 1..PQSHARD_MAX_SECRET
  /\ b.hdr.mlen = b.hdr.secret_len + VERIFY_TAG_LEN
  /\ b.len = BlobLen(b.hdr.sealed, b.hdr.mlen)

(* The checksum (plain) or the AEAD tag (sealed) matches the bytes present. *)
Intact(b) == b.auth = [hdr |-> b.hdr, y |-> b.y]

(* hybrid_open, given the memory Argon2 asks for.                           *)
hybrid_open(b, p) == b.block = [phrase |-> p, kdf |-> b.kdf]

(* recover_material's verdict on a share under passphrase p, given that     *)
(* memory; "none" means the y-material was recovered.                       *)
recover_material(b, p) ==
  IF ~b.hdr.sealed THEN IF Intact(b) THEN "none" ELSE "integrity"
  ELSE IF p = NoPhrase THEN "needs_passphrase"
  ELSE IF ~KdfAccepted(b.kdf) THEN "unsafe_kdf"
  ELSE IF hybrid_open(b, p) /\ Intact(b) THEN "none" ELSE "wrong_passphrase"

================================================================================
