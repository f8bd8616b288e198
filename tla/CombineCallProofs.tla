--------------------------- MODULE CombineCallProofs ---------------------------
(***************************************************************************)
(* Theorems about pqshard_combine, for every set of blobs, every list      *)
(* length and every passphrase: its types, its clean exit, what it hands   *)
(* to shamir_combine, that it returns only the secret, that its message is *)
(* true, and, over genuine shares, that it keeps Reconstruct's promise.    *)
(***************************************************************************)
EXTENDS CombineGenuine, TLAPS

(* What a caller may pass are blobs.                                        *)
LEMMA BlobsAreBlobs == Blobs \subseteq Blob
BY BlobsAssumption DEF Blobs

Owned == {"ys", "xs", "material"}

(* Where the call is, and what it has allocated there.                      *)
Control ==
  /\ pc \in {"idle", "check", "alloc"} =>
       /\ got = 0 /\ heap = {} /\ ybuf = {}
       /\ ret = 0 /\ err = "none" /\ material = Junk /\ out = NoSecret
  /\ pc \in {"alloc", "load", "recover", "verify", "copy"} =>
       /\ nblobs >= PQSHARD_MIN_K /\ nblobs >= first.k
       /\ pqshard_inspect(blobs[0])
       /\ ret = 0 /\ err = "none"
  /\ pc \in {"load", "recover", "verify", "copy"} => heap = Owned
  /\ pc = "load" => ybuf = 0..(got - 1)
  /\ pc = "recover" => got < nblobs /\ ybuf = 0..got
  /\ pc \in {"verify", "copy"} => got = nblobs
  /\ pc = "copy" => TagMatches
  /\ pc = "cleanup" =>
       /\ ret = -1 => heap \subseteq Owned /\ err # "none"
       /\ ret = 0  => heap = Owned \cup {"secret"} /\ err = "none"
       /\ "ys" \notin heap => ybuf = {}
  /\ pc = "returned" =>
       /\ ybuf = {}
       /\ ret = -1 => heap = {} /\ err # "none"
       /\ ret = 0  => heap = {"secret"} /\ err = "none"
  /\ err # "shamir"

(* A share the loop has let through.                                        *)
Passed(b) == /\ pqshard_inspect(b) /\ SetMatches(b.hdr)
             /\ recover_material(b, passphrase) = "none"

(* The shares recovered so far, and what has been computed from them.       *)
Loaded ==
  /\ pc \in {"load", "recover", "verify", "copy"} =>
       /\ \A j \in 0..(got - 1) : /\ Passed(blobs[j])
                                  /\ xs[j] = blobs[j].hdr.x
                                  /\ ys[j] = blobs[j].y
       /\ \A j, l \in 0..(got - 1) : j # l => xs[j] # xs[l]
  /\ pc = "recover" => /\ pqshard_inspect(blobs[got])
                       /\ SetMatches(blobs[got].hdr)
                       /\ ~Seen(blobs[got].hdr.x)
  /\ pc \in {"verify", "copy"} => material = shamir_combine(xs, ys, first.k)

Result == pc \in {"cleanup", "returned"} /\ ret = 0 => Vouched(out.secret)

Inv == TypeOK /\ Control /\ Loaded /\ Result

---------------------------------------------------------------------------
(* What the helpers of ShareFormat guarantee.                               *)

(* A blob that parses has a threshold of at least 2 and an x from 1 to 255. *)
LEMMA InspectBounds ==
  ASSUME NEW b \in Blob, pqshard_inspect(b)
  PROVE  /\ b.hdr.k \in Byte /\ b.hdr.k >= 2
         /\ b.hdr.x \in Byte /\ b.hdr.x # 0
BY DEF Blob, Header, Byte, pqshard_inspect, PQSHARD_MIN_K, PQSHARD_MAX_N

(* recover_material answers "none" or one of its four messages, and "none"  *)
(* only for an intact share that the passphrase opens if it is sealed.      *)
LEMMA RecoverVerdict ==
  ASSUME NEW b \in Blob, NEW p
  PROVE  /\ recover_material(b, p) \in {"none", "integrity", "needs_passphrase",
                                        "unsafe_kdf", "wrong_passphrase"}
         /\ recover_material(b, p) = "none" =>
              Intact(b) /\ (b.hdr.sealed => hybrid_open(b, p))
BY DEF recover_material

(* Interpolation gives a family only if all k points are that family's.     *)
LEMMA CombineValue ==
  ASSUME NEW k \in Int, k >= 1, NEW xs_, NEW ys_,
         ys_[0] \in Point \cup {Junk},
         NEW f, f = shamir_combine(xs_, ys_, k)
  PROVE  /\ f \in Family \cup {Junk}
         /\ f # Junk => /\ f = ys_[0].family /\ f \in Family
                        /\ f.k <= k
                        /\ \A i \in 0..(k - 1) : ys_[i] = gf_eval(f, xs_[i])
BY DEF shamir_combine, Point

(* The threshold taken from the first share.                                *)
LEMMA FirstBounds ==
  ASSUME blobs[0] \in Blob, pqshard_inspect(blobs[0])
  PROVE  first.k \in Int /\ first.k >= 2
<1>1. blobs[0].hdr.k \in Byte /\ blobs[0].hdr.k >= 2
  BY InspectBounds
<1>2. QED
  BY <1>1 DEF first, Byte

---------------------------------------------------------------------------
(* Types.  Recover needs Control: there is a share at index got, and a      *)
(* success leaves "none".  Interpolate needs it for the first share.        *)
LEMMA TypeStep ==
  ASSUME TypeOK, Control, [Next]_vars
  PROVE  TypeOK'
<1> USE DEF TypeOK, args, Error, NoSecret, Return, Fail, Starve
<1>1. CASE Call
  <2>1. /\ nblobs' \in 0..MaxBlobs /\ blobs' \in [0..(nblobs' - 1) -> Blobs]
        /\ passphrase' \in Phrase \cup {NoPhrase}
    <3>1. PICK m \in 0..MaxBlobs, p \in Phrase \cup {NoPhrase}, pool \in Pools :
            nblobs' = m /\ passphrase' = p /\ blobs' \in [0..(m - 1) -> pool]
      BY <1>1 DEF Call
    <3>2. pool \subseteq Blobs
      BY DEF Blobs
    <3>3. QED
      BY <3>1, <3>2
  <2>2. got' = 0 /\ xs' = xs /\ ys' = ys /\ got = 0 /\ ybuf' = {}
    BY <1>1 DEF Call, Control
  <2>3. QED
    BY <1>1, <2>1, <2>2, BlobsAreBlobs, BlobsAssumption DEF Call
<1>2. CASE CheckFirst
  BY <1>2 DEF CheckFirst
<1>3. CASE Alloc
  BY <1>3, ZenonT(30) DEF Alloc
<1>4. CASE Load
  <2>1. ybuf' \subseteq 0..(nblobs - 1)
    <3>1. got \in 0..(nblobs - 1) /\ ybuf' \in {ybuf, ybuf \cup {got}}
      BY <1>4 DEF Load, LoadRejected
    <3>2. QED
      BY <3>1
  <2>2. /\ pc' \in {"recover", "cleanup"}
        /\ err' \in Error \cup {"none"} /\ ret' \in {0, -1}
        /\ starved' \in BOOLEAN
    BY <1>4 DEF Load, LoadRejected
  <2>3. QED
    BY <1>4, <2>1, <2>2 DEF Load
<1>5. CASE Recover
  <2>1. got < nblobs
    BY <1>5 DEF Recover, Control
  <2>2. blobs[got] \in Blob
    BY <2>1, BlobsAreBlobs, BlobsAssumption
  <2>3. CASE recover_material(blobs[got], passphrase) = "none"
    <3>1. got' = got + 1 /\ xs' = Append0(xs, blobs[got].hdr.x)
                        /\ ys' = Append0(ys, blobs[got].y)
      BY <1>5, <2>3 DEF Recover
    <3>2. blobs[got].hdr.x \in Byte /\ blobs[got].y \in Point \cup {Junk}
      BY <2>2 DEF Blob, Header
    <3>3. /\ xs' \in [0..(got' - 1) -> Byte]
          /\ ys' \in [0..(got' - 1) -> Point \cup {Junk}]
      BY <3>1, <3>2 DEF Append0
    <3>4. QED
      BY <1>5, <2>1, <2>3, <3>1, <3>3 DEF Recover
  <2>4. CASE recover_material(blobs[got], passphrase) # "none"
    BY <1>5, <2>2, <2>4, RecoverVerdict DEF Recover
  <2>5. QED
    BY <2>3, <2>4
<1>6. CASE KdfStarves
  BY <1>6 DEF KdfStarves
<1>7. CASE Interpolate
  <2>1. /\ got >= 2 /\ blobs[0] \in Blob /\ pqshard_inspect(blobs[0])
    BY <1>7, BlobsAreBlobs, BlobsAssumption DEF Interpolate, Control, PQSHARD_MIN_K
  <2>2. first.k \in Int /\ first.k >= 1
    BY <2>1, FirstBounds
  <2>3. ys[0] \in Point \cup {Junk}
    BY <2>1
  <2>4. shamir_combine(xs, ys, first.k) \in Family \cup {Junk}
    BY <2>2, <2>3, CombineValue
  <2>5. QED
    BY <1>7, <2>4 DEF Interpolate
<1>8. CASE VerifyTag
  BY <1>8 DEF VerifyTag
<1>9. CASE Copy
  <2>1. material \in Family
    BY <1>9 DEF Copy, Control, TagMatches
  <2>2. first.text \in BOOLEAN
    <3>1. blobs[0] \in Blob
      BY <1>9, BlobsAreBlobs, BlobsAssumption DEF Copy, Control, PQSHARD_MIN_K
    <3>2. QED
      BY <3>1 DEF first, Blob, Header
  <2>3. out' \in [secret: Secret \cup {Junk}, text: BOOLEAN]
    <3>1. material.secret \in Secret
      BY <2>1 DEF Family
    <3>2. QED
      BY <1>9, <2>2, <3>1 DEF Copy
  <2>4. /\ pc' = "cleanup" /\ heap' \subseteq {"ys", "xs", "material", "secret"}
        /\ err' \in Error \cup {"none"} /\ ret' \in {0, -1}
        /\ starved' \in BOOLEAN
    BY <1>9 DEF Copy
  <2>5. QED
    BY <1>9, <2>3, <2>4 DEF Copy
<1>10. CASE Cleanup
  BY <1>10 DEF Cleanup
<1>11. CASE Release
  <2>1. ybuf' = {} /\ heap' \subseteq heap
    BY <1>11 DEF Release, Control
  <2>2. /\ blobs' \in [0..(nblobs' - 1) -> Blobs]
        /\ xs' \in [0..(got' - 1) -> Byte]
        /\ ys' \in [0..(got' - 1) -> Point \cup {Junk}]
    BY <1>11 DEF Release, Empty
  <2>3. /\ nblobs' \in 0..MaxBlobs /\ got' \in 0..nblobs'
        /\ passphrase' \in Phrase \cup {NoPhrase}
    BY <1>11, BlobsAreBlobs, BlobsAssumption DEF Release
  <2>4. /\ material' \in Family \cup {Junk}
        /\ out' \in [secret: Secret \cup {Junk}, text: BOOLEAN]
    BY <1>11 DEF Release
  <2>5. /\ pc' = "idle" /\ err' = "none" /\ ret' = 0 /\ starved' = FALSE
    BY <1>11 DEF Release
  <2>6. QED
    BY <2>1, <2>2, <2>3, <2>4, <2>5
<1>12. CASE UNCHANGED vars
  BY <1>12 DEF vars
<1>13. QED
  BY <1>1, <1>2, <1>3, <1>4, <1>5, <1>6, <1>7, <1>8, <1>9, <1>10, <1>11, <1>12
  DEF Next

---------------------------------------------------------------------------
(* Control.  Interpolate is the one step that needs Loaded: what the loop   *)
(* has let through is what shamir_combine asks for, so that it never        *)
(* answers -1.                                                              *)
LEMMA LoopMeetsShamir ==
  ASSUME TypeOK, Control, Loaded, pc = "load", got = nblobs
  PROVE  first.k <= got /\ ShamirAccepts(xs, first.k)
<1>1. /\ got >= 2 /\ got >= first.k /\ blobs[0] \in Blob
      /\ pqshard_inspect(blobs[0])
  BY BlobsAreBlobs, BlobsAssumption DEF TypeOK, Control, PQSHARD_MIN_K
<1>2. first.k \in Int /\ first.k >= 2
  BY <1>1, FirstBounds
<1>3. ASSUME NEW j \in 0..(got - 1)
      PROVE  xs[j] # 0
  <2>1. blobs[j] \in Blob /\ pqshard_inspect(blobs[j]) /\ xs[j] = blobs[j].hdr.x
    BY BlobsAreBlobs, BlobsAssumption DEF TypeOK, Loaded, Passed
  <2>2. QED
    BY <2>1, InspectBounds
<1>4. \A j, l \in 0..(got - 1) : j # l => xs[j] # xs[l]
  BY DEF Loaded
<1>5. 0..(first.k - 1) \subseteq 0..(got - 1)
  BY <1>1, <1>2 DEF TypeOK
<1>6. QED
  BY <1>1, <1>2, <1>3, <1>4, <1>5 DEF ShamirAccepts

LEMMA ControlStep ==
  ASSUME TypeOK, Control, Loaded, [Next]_vars
  PROVE  Control'
<1> USE DEF Control, args, Owned, first, Return, Fail, Starve
<1>1. CASE Call
  BY <1>1 DEF Call, TypeOK
<1>2. CASE CheckFirst
  BY <1>2 DEF CheckFirst, TypeOK
<1>3. CASE Alloc
  BY <1>3 DEF Alloc, TypeOK
<1>4. CASE Load
  <2>1. CASE pc' = "cleanup"
    <3>1. /\ heap' = Owned /\ ret' = -1
          /\ err' \in {"not_a_share", "set_mismatch", "duplicate", "no_memory"}
      BY <1>4, <2>1 DEF Load, LoadRejected
    <3>2. QED
      BY <2>1, <3>1
  <2>2. CASE pc' = "recover"
    <3>1. /\ ybuf' = ybuf \cup {got} /\ got < nblobs
          /\ UNCHANGED <<nblobs, blobs, got, heap, err, ret>>
          /\ pc = "load"
      BY <1>4, <2>2 DEF Load, LoadRejected
    <3>2. ybuf' = 0..got'
      BY <3>1 DEF TypeOK
    <3>3. QED
      BY <2>2, <3>1, <3>2
  <2>3. QED
    BY <1>4, <2>1, <2>2 DEF Load, LoadRejected
<1>5. CASE Recover
  <2>1. blobs[got] \in Blob
    BY <1>5, BlobsAreBlobs, BlobsAssumption DEF Recover, TypeOK
  <2>2. CASE recover_material(blobs[got], passphrase) = "none"
    BY <1>5, <2>2 DEF Recover, TypeOK
  <2>3. CASE recover_material(blobs[got], passphrase) # "none"
    BY <1>5, <2>1, <2>3, RecoverVerdict DEF Recover, TypeOK
  <2>4. QED
    BY <2>2, <2>3
<1>6. CASE KdfStarves
  <2>1. /\ pc' = "cleanup" /\ heap' = Owned /\ ret' = -1
        /\ err' = "wrong_passphrase"
    BY <1>6 DEF KdfStarves
  <2>2. QED
    BY <2>1
<1>7. CASE Interpolate
  <2>1. first.k <= got /\ ShamirAccepts(xs, first.k)
    BY <1>7, LoopMeetsShamir DEF Interpolate
  <2>2. /\ pc' = "verify" /\ pc = "load" /\ got = nblobs
        /\ UNCHANGED <<args, got, heap, err, ret>>
    BY <1>7, <2>1 DEF Interpolate
  <2>3. QED
    BY <2>2
<1>8. CASE VerifyTag
  BY <1>8 DEF VerifyTag, TypeOK, TagMatches
<1>9. CASE Copy
  BY <1>9 DEF Copy, TypeOK
<1>10. CASE Cleanup
  BY <1>10 DEF Cleanup, TypeOK
<1>11. CASE Release
  BY <1>11 DEF Release, TypeOK
<1>12. CASE UNCHANGED vars
  BY <1>12 DEF vars, TagMatches
<1>13. QED
  BY <1>1, <1>2, <1>3, <1>4, <1>5, <1>6, <1>7, <1>8, <1>9, <1>10, <1>11, <1>12
  DEF Next

LEMMA LoadedStep ==
  ASSUME TypeOK, Control, Loaded, [Next]_vars
  PROVE  Loaded'
<1> USE DEF Loaded, args, first, Return, Fail, Starve
<1>1. CASE Call
  BY <1>1 DEF Call
<1>2. CASE CheckFirst
  BY <1>2 DEF CheckFirst
<1>3. CASE Alloc
  BY <1>3 DEF Alloc, Control
<1>4. CASE Load
  BY <1>4 DEF Load, LoadRejected, Passed, SetMatches, Seen
<1>5. CASE Recover
  BY <1>5, SMTT(30) DEF Recover, Append0, Passed, SetMatches, Seen, TypeOK
<1>6. CASE KdfStarves
  BY <1>6 DEF KdfStarves
<1>7. CASE Interpolate
  BY <1>7 DEF Interpolate, Passed, SetMatches
<1>8. CASE VerifyTag
  BY <1>8 DEF VerifyTag, Passed, SetMatches
<1>9. CASE Copy
  BY <1>9 DEF Copy
<1>10. CASE Cleanup
  BY <1>10 DEF Cleanup
<1>11. CASE Release
  BY <1>11 DEF Release
<1>12. CASE UNCHANGED vars
  BY <1>12 DEF vars, Passed, SetMatches, Seen
<1>13. QED
  BY <1>1, <1>2, <1>3, <1>4, <1>5, <1>6, <1>7, <1>8, <1>9, <1>10, <1>11, <1>12
  DEF Next

---------------------------------------------------------------------------
(* The result.  When the tag matches, the material is the family of the     *)
(* first share, and every point it was interpolated from is that family's.  *)
LEMMA TagVouches ==
  ASSUME TypeOK, Control, Loaded, pc = "copy"
  PROVE  Vouched(material.secret)
<1> DEFINE f == blobs[0].y.family
<1>1. /\ got = nblobs /\ got >= 2 /\ got >= first.k /\ got \in Nat
      /\ blobs[0] \in Blob /\ pqshard_inspect(blobs[0])
  BY BlobsAreBlobs, BlobsAssumption DEF TypeOK, Control, PQSHARD_MIN_K
<1>2. first.k \in Int /\ first.k >= 2
  BY <1>1, FirstBounds
<1>3. material # Junk /\ material.set_id = first.set_id
      /\ material.len = first.secret_len
  BY DEF Control, TagMatches
<1>4. ys[0] \in Point \cup {Junk} /\ ys[0] = blobs[0].y
  BY <1>1 DEF TypeOK, Loaded
<1>5. /\ material = f /\ f \in Family /\ f.k <= first.k
      /\ \A i \in 0..(first.k - 1) : ys[i] = gf_eval(f, xs[i])
  <2>1. material = shamir_combine(xs, ys, first.k)
    BY DEF Loaded
  <2>2. /\ material = ys[0].family /\ material \in Family /\ material.k <= first.k
        /\ \A i \in 0..(first.k - 1) : ys[i] = gf_eval(material, xs[i])
    BY <1>2, <1>3, <1>4, <2>1, CombineValue
  <2>3. QED
    BY <1>4, <2>2
<1>6. f.k \in Int
  BY <1>5 DEF Family
<1>7. 0..(f.k - 1) \subseteq 0..(first.k - 1) /\ 0..(f.k - 1) \subseteq 0..(got - 1)
  BY <1>1, <1>2, <1>5, <1>6
<1>8. ASSUME NEW i \in 0..(f.k - 1)
      PROVE  /\ Intact(blobs[i]) /\ blobs[i].y = gf_eval(f, blobs[i].hdr.x)
             /\ blobs[i].hdr.sealed => hybrid_open(blobs[i], passphrase)
  <2>1. /\ blobs[i] \in Blob /\ Passed(blobs[i])
        /\ xs[i] = blobs[i].hdr.x /\ ys[i] = blobs[i].y
    BY <1>1, <1>7, BlobsAreBlobs, BlobsAssumption DEF TypeOK, Loaded
  <2>2. /\ Intact(blobs[i])
        /\ blobs[i].hdr.sealed => hybrid_open(blobs[i], passphrase)
    BY <2>1, RecoverVerdict DEF Passed
  <2>3. QED
    BY <1>5, <1>7, <2>1, <2>2
<1>9. ASSUME NEW i \in 0..(f.k - 1), NEW j \in 0..(f.k - 1), i # j
      PROVE  blobs[i].hdr.x # blobs[j].hdr.x
  BY <1>7, <1>9 DEF Loaded
<1>10. f.k <= nblobs
  BY <1>1, <1>2, <1>5, <1>6
<1>11. QED
  BY <1>3, <1>5, <1>8, <1>9, <1>10 DEF Vouched

LEMMA ResultStep ==
  ASSUME Inv, [Next]_vars
  PROVE  Result'
<1> USE DEF args, first, Return, Fail, Starve
<1>1. CASE Copy
  <2>1. CASE ret' = 0
    <3>1. /\ pc = "copy" /\ UNCHANGED <<nblobs, blobs, passphrase>>
      BY <1>1 DEF Copy
    <3>2. pc' = "cleanup" /\ out'.secret = material.secret
      BY <1>1, <2>1 DEF Copy
    <3>3. Vouched(out.secret)'
      BY <3>1, <3>2, TagVouches DEF Inv, Vouched
    <3>4. QED
      BY <3>3 DEF Result
  <2>2. CASE ret' # 0
    BY <2>2 DEF Result
  <2>3. QED
    BY <2>1, <2>2
<1>2. CASE Cleanup
  BY <1>2 DEF Cleanup, Inv, Result, Vouched
<1>3. CASE UNCHANGED vars
  BY <1>3 DEF vars, Inv, Result, Vouched
<1>4. CASE Call \/ Alloc \/ Load \/ Recover \/ Interpolate \/ VerifyTag
  BY <1>4 DEF Call, Alloc, Load, LoadRejected, Recover, Interpolate, VerifyTag, Result
<1>5. CASE CheckFirst \/ KdfStarves \/ Release
  BY <1>5 DEF CheckFirst, KdfStarves, Release, Result
<1>6. QED
  BY <1>1, <1>2, <1>3, <1>4, <1>5 DEF Next

---------------------------------------------------------------------------
(* The message.                                                             *)

Told(e) == e \in DOMAIN Diagnosis /\ Diagnosis[e]

(* Want of memory ends a call, and a message is true from the step that     *)
(* gives it on: it speaks of the arguments and of starved, no more.         *)
Message ==
  /\ pc \in {"idle", "check", "alloc", "load", "recover", "verify", "copy"} =>
       ~starved
  /\ pc \in {"cleanup", "returned"} /\ ret = 0 => ~starved
  /\ pc \in {"cleanup", "returned"} /\ err # "none" => Told(err)

(* A call that was denied memory may say so, or that the passphrase is wrong.*)
LEMMA StarvedTells == starved => Told("no_memory") /\ Told("wrong_passphrase")
BY DEF Told, Diagnosis

LEMMA StarvedTellsNext ==
  starved' => Told("no_memory")' /\ Told("wrong_passphrase")'
BY StarvedTells, PTL

(* What the arguments say at the first share.                               *)
LEMMA FirstTells ==
  ASSUME TypeOK
  PROVE  /\ nblobs < 2 => Told("need_two")
         /\ nblobs >= 2 /\ ~pqshard_inspect(blobs[0]) => Told("not_a_share")
         /\ nblobs >= 2 /\ nblobs < first.k => Told("too_few")
<1>1. nblobs >= 2 => 0 \in Index
  BY DEF TypeOK, Index
<1>2. nblobs < 2 => Told("need_two")
  BY DEF Told, Diagnosis
<1>3. nblobs >= 2 /\ ~pqshard_inspect(blobs[0]) => Told("not_a_share")
  BY <1>1 DEF Told, Diagnosis
<1>4. nblobs >= 2 /\ nblobs < first.k => Told("too_few")
  BY <1>1 DEF Told, Diagnosis, first
<1>5. QED
  BY <1>2, <1>3, <1>4

(* Interpolation finds the family that all k points belong to.              *)
LEMMA CombineWhole ==
  ASSUME NEW k \in Int, k >= 1, NEW xs_, NEW ys_, xs_[0] \in Byte,
         NEW f \in Family, f.k <= k,
         \A i \in 0..(k - 1) : ys_[i] = gf_eval(f, xs_[i])
  PROVE  shamir_combine(xs_, ys_, k) = f
<1>1. 0 \in 0..(k - 1)
  OBVIOUS
<1>2. ys_[0] = gf_eval(f, xs_[0])
  BY <1>1
<1>3. ys_[0] # Junk /\ ys_[0].family = f
  BY <1>2, JunkAssumption DEF gf_eval, Point
<1>4. QED
  BY <1>3 DEF shamir_combine

(* If the tag does not match, no family with the first share's set_id,      *)
(* length and threshold has all the points.                                 *)
LEMMA TagDenies ==
  ASSUME TypeOK, Control, Loaded, pc = "verify", ~TagMatches
  PROVE  Told("verification")
<1>1. /\ got = nblobs /\ got >= 2 /\ got >= first.k /\ got \in Nat
      /\ blobs[0] \in Blob /\ pqshard_inspect(blobs[0])
  BY BlobsAreBlobs, BlobsAssumption DEF TypeOK, Control, PQSHARD_MIN_K
<1>2. first.k \in Int /\ first.k >= 2
  BY <1>1, FirstBounds
<1>3. ASSUME NEW i \in Index, blobs[i].y # Junk,
             NEW f, f = blobs[i].y.family,
             f.set_id = first.set_id, f.len = first.secret_len, f.k <= first.k,
             \A j \in Index : blobs[j].y = gf_eval(f, blobs[j].hdr.x)
      PROVE  FALSE
  <2>1. f \in Family
    <3>1. blobs[i] \in Blob
      BY BlobsAreBlobs, BlobsAssumption DEF TypeOK, Index
    <3>2. blobs[i].y \in Point
      BY <1>3, <3>1 DEF Blob
    <3>3. QED
      BY <1>3, <3>2 DEF Point
  <2>2. \A j \in 0..(first.k - 1) : j \in Index /\ j \in 0..(got - 1)
    BY <1>1, <1>2 DEF Index
  <2>3. \A j \in 0..(first.k - 1) : ys[j] = gf_eval(f, xs[j])
    BY <1>3, <2>2 DEF Loaded
  <2>4. xs[0] \in Byte
    BY <1>1 DEF TypeOK
  <2>5. material = f
    BY <1>2, <1>3, <2>1, <2>3, <2>4, CombineWhole DEF Loaded
  <2>6. QED
    BY <1>3, <2>1, <2>5, JunkAssumption DEF TagMatches
<1>4. ASSUME NEW i \in Index, blobs[i].y # Junk,
             NEW f, f = blobs[i].y.family
      PROVE  \/ f.set_id # first.set_id \/ f.len # first.secret_len
             \/ f.k > first.k
             \/ \E j \in Index : blobs[j].y # gf_eval(f, blobs[j].hdr.x)
  <2>1. f.k \in Int
    <3>1. blobs[i] \in Blob
      BY BlobsAreBlobs, BlobsAssumption DEF TypeOK, Index
    <3>2. blobs[i].y \in Point
      BY <1>4, <3>1 DEF Blob
    <3>3. QED
      BY <1>4, <3>2 DEF Point, Family
  <2>2. QED
    BY <1>2, <1>3, <1>4, <2>1
<1>5. QED
  BY <1>4 DEF Told, Diagnosis

(* What recover_material says of a share, as the diagnosis has it.          *)
LEMMA RecoverTells ==
  ASSUME NEW i \in Index, NEW r, r = recover_material(blobs[i], passphrase),
         r # "none"
  PROVE  Told(r)
<1>1. CASE ~blobs[i].hdr.sealed
  BY <1>1 DEF recover_material, Told, Diagnosis
<1>2. CASE blobs[i].hdr.sealed /\ passphrase = NoPhrase
  BY <1>2, ZenonT(30) DEF recover_material, Told, Diagnosis
<1>3. CASE /\ blobs[i].hdr.sealed /\ passphrase # NoPhrase
           /\ ~KdfAccepted(blobs[i].kdf)
  BY <1>3 DEF recover_material, Told, Diagnosis
<1>4. CASE /\ blobs[i].hdr.sealed /\ passphrase # NoPhrase
           /\ KdfAccepted(blobs[i].kdf)
  BY <1>4, ZenonT(30) DEF recover_material, Told, Diagnosis
<1>5. QED
  BY <1>1, <1>2, <1>3, <1>4

LEMMA MessageStep ==
  ASSUME Inv, Message, [Next]_vars
  PROVE  Message'
<1> USE DEF Message, args, Return, Fail, Starve
<1>1. CASE Call
  BY <1>1 DEF Call
<1>2. CASE CheckFirst
  <2>1. CASE pc' = "returned"
    <3>1. UNCHANGED <<nblobs, blobs, passphrase, starved>> /\ ~starved
      BY <1>2 DEF CheckFirst
    <3>2. Told(err')
      BY <1>2, <2>1, FirstTells DEF CheckFirst, Inv, PQSHARD_MIN_K
    <3>3. Told(err)'
      BY <3>1, <3>2 DEF Told, Diagnosis, Index, first
    <3>4. ret' = -1
      BY <1>2, <2>1 DEF CheckFirst
    <3>5. QED
      BY <2>1, <3>3, <3>4
  <2>2. CASE pc' = "alloc"
    BY <1>2, <2>2 DEF CheckFirst
  <2>3. QED
    BY <1>2, <2>1, <2>2 DEF CheckFirst
<1>3. CASE Alloc
  BY <1>3, StarvedTellsNext DEF Alloc
<1>4. CASE Load
  <2>1. got \in Index /\ blobs[got] \in Blob
    BY <1>4, BlobsAreBlobs, BlobsAssumption DEF Load, Inv, TypeOK, Index
  <2>2. 0 \in Index
    BY <1>4 DEF Load, Inv, TypeOK, Index
  <2>3. CASE ~starved' /\ pc' = "cleanup"
    <3>1. /\ UNCHANGED <<nblobs, blobs, passphrase, starved>> /\ ret' = -1
          /\ err' \in {"not_a_share", "set_mismatch", "duplicate"}
      BY <1>4, <2>3 DEF Load, LoadRejected
    <3>2. CASE err' = "not_a_share"
      BY <1>4, <2>1, <2>3, <3>2 DEF Load, LoadRejected, Told, Diagnosis, Index
    <3>3. CASE err' = "set_mismatch"
      BY <1>4, <2>1, <2>2, <2>3, <3>3
      DEF Load, LoadRejected, SetMatches, first, Told, Diagnosis, Index
    <3>4. CASE err' = "duplicate"
      <4>1. PICK j \in 0..(got - 1) : xs[j] = blobs[got].hdr.x
        BY <1>4, <2>3, <3>4 DEF Load, LoadRejected, Seen
      <4>2. j \in Index /\ j # got /\ blobs[j].hdr.x = blobs[got].hdr.x
        BY <1>4, <2>1, <4>1 DEF Load, Inv, TypeOK, Loaded, Index
      <4>3. QED
        BY <2>1, <2>3, <3>1, <3>4, <4>2 DEF Told, Diagnosis, Index
    <3>5. QED
      BY <3>1, <3>2, <3>3, <3>4
  <2>4. CASE starved' /\ pc' = "cleanup"
    <3>1. err' = "no_memory" /\ ret' = -1
      BY <1>4, <2>4 DEF Load, LoadRejected
    <3>2. Told(err)'
      BY <2>4, <3>1, StarvedTellsNext
    <3>3. QED
      BY <2>4, <3>1, <3>2
  <2>5. CASE pc' = "recover"
    BY <1>4, <2>5 DEF Load, LoadRejected
  <2>6. QED
    BY <1>4, <2>3, <2>4, <2>5 DEF Load, LoadRejected
<1>5. CASE Recover
  <2>1. CASE recover_material(blobs[got], passphrase) = "none"
    BY <1>5, <2>1 DEF Recover
  <2>2. CASE recover_material(blobs[got], passphrase) # "none"
    <3>1. got \in Index
      BY <1>5 DEF Recover, Inv, TypeOK, Control, Index
    <3>2. Told(err')
      BY <1>5, <2>2, <3>1, RecoverTells DEF Recover
    <3>3. /\ UNCHANGED <<nblobs, blobs, passphrase, starved>> /\ ~starved
          /\ pc' = "cleanup" /\ ret' = -1
      BY <1>5, <2>2 DEF Recover
    <3>4. Told(err)'
      BY <3>2, <3>3 DEF Told, Diagnosis, Index, first
    <3>5. QED
      BY <3>3, <3>4
  <2>3. QED
    BY <2>1, <2>2
<1>6. CASE KdfStarves
  BY <1>6, StarvedTellsNext DEF KdfStarves
<1>7. CASE Interpolate
  BY <1>7, LoopMeetsShamir DEF Interpolate, Inv
<1>8. CASE VerifyTag
  <2>1. CASE TagMatches
    BY <1>8, <2>1 DEF VerifyTag
  <2>2. CASE ~TagMatches
    <3>1. /\ UNCHANGED <<nblobs, blobs, passphrase, starved>> /\ ~starved
          /\ pc' = "cleanup" /\ ret' = -1 /\ err' = "verification"
      BY <1>8, <2>2 DEF VerifyTag
    <3>2. Told("verification")
      BY <1>8, <2>2, TagDenies DEF VerifyTag, Inv
    <3>3. Told("verification")'
      BY <3>1, <3>2 DEF Told, Diagnosis, Index, first
    <3>4. QED
      BY <3>1, <3>3
  <2>3. QED
    BY <2>1, <2>2
<1>9. CASE Copy
  BY <1>9, StarvedTellsNext DEF Copy, Inv, Control
<1>10. CASE Cleanup
  <2>1. /\ UNCHANGED <<nblobs, blobs, passphrase, starved, err, ret>>
        /\ pc = "cleanup" /\ pc' = "returned"
    BY <1>10 DEF Cleanup
  <2>2. Told(err) <=> Told(err)'
    BY <2>1 DEF Told, Diagnosis, Index, first
  <2>3. QED
    BY <2>1, <2>2
<1>11. CASE Release
  BY <1>11 DEF Release
<1>12. CASE UNCHANGED vars
  <2>1. UNCHANGED <<nblobs, blobs, passphrase, starved, err, ret, pc>>
    BY <1>12 DEF vars
  <2>2. Told(err) <=> Told(err)'
    BY <2>1 DEF Told, Diagnosis, Index, first
  <2>3. QED
    BY <2>1, <2>2
<1>13. QED
  BY <1>1, <1>2, <1>3, <1>4, <1>5, <1>6, <1>7, <1>8, <1>9, <1>10, <1>11, <1>12
  DEF Next

---------------------------------------------------------------------------
(* The invariant, and what it says.                                         *)

THEOREM Invariance == Spec => []Inv
<1>1. Init => Inv
  <2> SUFFICES ASSUME Init PROVE Inv
    OBVIOUS
  <2>1. TypeOK
    <3>1. /\ blobs \in [0..(nblobs - 1) -> Blobs]
          /\ xs \in [0..(got - 1) -> Byte]
          /\ ys \in [0..(got - 1) -> Point \cup {Junk}]
      BY DEF Init, Empty
    <3>2. /\ nblobs \in 0..MaxBlobs /\ got \in 0..nblobs
          /\ passphrase \in Phrase \cup {NoPhrase}
          /\ material \in Family \cup {Junk}
      BY BlobsAreBlobs, BlobsAssumption DEF Init
    <3>3. out \in [secret: Secret \cup {Junk}, text: BOOLEAN]
      BY DEF Init, NoSecret
    <3>4. /\ pc = "idle" /\ heap = {} /\ ybuf = {} /\ err = "none" /\ ret = 0
          /\ starved = FALSE
      BY DEF Init
    <3>5. QED
      BY <3>1, <3>2, <3>3, <3>4 DEF TypeOK
  <2>2. Control
    BY DEF Init, Control
  <2>3. Loaded
    BY DEF Init, Loaded
  <2>4. Result
    BY DEF Init, Result
  <2>5. QED
    BY <2>1, <2>2, <2>3, <2>4 DEF Inv
<1>2. Inv /\ [Next]_vars => Inv'
  BY TypeStep, ControlStep, LoadedStep, ResultStep DEF Inv
<1>3. QED
  BY <1>1, <1>2, PTL DEF Spec

(* Every variable of the call keeps its type.                               *)
THEOREM TypeCorrect == Spec => []TypeOK
BY Invariance, PTL DEF Inv

(* A success returns the secret of one split, on at least that split's      *)
(* threshold of intact shares at distinct points (pqshard_combine).         *)
THEOREM Soundness == Spec => []OnlyTheSecret
<1>1. Inv => OnlyTheSecret
  BY DEF Inv, Result, OnlyTheSecret
<1>2. QED
  BY <1>1, Invariance, PTL

(* The cleanup block leaves nothing behind, wherever it was entered from.   *)
THEOREM NoLeak == Spec => []CleanExit
<1>1. Inv => CleanExit
  BY DEF Inv, TypeOK, Control, CleanExit
<1>2. QED
  BY <1>1, Invariance, PTL

(* shamir_combine is only called on what it accepts.                        *)
THEOREM ShamirIsMet == Spec => []ShamirPrecondition
<1>1. Inv => ShamirPrecondition
  BY LoopMeetsShamir DEF Inv, Control, ShamirPrecondition
<1>2. QED
  BY <1>1, Invariance, PTL

(* The message of a failed call is true of the blobs and the passphrase.    *)
THEOREM Diagnoses == Spec => []DiagnosisIsTrue
<1>1. Init => Message
  BY DEF Init, Message
<1>2. Inv /\ Message /\ [Next]_vars => Message'
  BY MessageStep
<1>3. Message => DiagnosisIsTrue
  BY DEF Message, Told, DiagnosisIsTrue
<1>4. QED
  BY <1>1, <1>2, <1>3, Invariance, PTL DEF Spec

---------------------------------------------------------------------------
(* Genuine shares.                                                          *)

(* Shares that a caller may expect the secret of split s for.               *)
Deserved(s) ==
  /\ \A i \in Index : blobs[i] \in SharesOf(s)
  /\ \A i, j \in Index : i # j => blobs[i] # blobs[j]
  /\ (s.family.k - 1) \in Index
  /\ s.phrase # NoPhrase => passphrase = s.phrase

(* Success means every share passed the loop's checks, at its own point,    *)
(* and the result is what the first share carries.  Vouched says less: only *)
(* the first k shares matter to the secret, but a foreign share among the   *)
(* others is to be refused as well.                                         *)
Granted ==
  pc \in {"cleanup", "returned"} /\ ret = 0 =>
    /\ nblobs >= 2 /\ nblobs >= first.k
    /\ \A j \in Index : Passed(blobs[j])
    /\ \A j, l \in Index : j # l => blobs[j].hdr.x # blobs[l].hdr.x
    /\ out = [secret |-> blobs[0].y.family.secret, text |-> first.text]

---------------------------------------------------------------------------
(* The share of a split.                                                    *)

(* What a split writes opens under its passphrase, if it has one, and says  *)
(* in its header what the split was.                                        *)
LEMMA ShareFacts ==
  ASSUME NEW s \in Splits, NEW b \in SharesOf(s)
  PROVE  /\ s.family \in Family
         /\ b = MakeShare(s.family, s.text, s.n, b.hdr.x, s.phrase, s.kdf)
         /\ b.hdr.k = s.family.k /\ b.hdr.set_id = s.family.set_id
         /\ b.hdr.secret_len = s.family.len /\ b.hdr.text = s.text
         /\ b.hdr.sealed = (s.phrase # NoPhrase)
         /\ b.y = gf_eval(s.family, b.hdr.x)
         /\ b.hdr.sealed => b.block = [phrase |-> s.phrase, kdf |-> b.kdf]
         /\ Intact(b) /\ KdfAccepted(b.kdf) /\ pqshard_inspect(b)
<1> DEFINE sealed == s.phrase # NoPhrase
<1>1. PICK x \in 1..s.n :
        b = MakeShare(s.family, s.text, s.n, x, s.phrase, s.kdf)
  BY DEF SharesOf
<1>2. /\ s.family \in Family /\ s.n \in 1..PQSHARD_MAX_N
      /\ s.kdf \in {kdf_params_for_level[level] : level \in KdfLevel}
  BY SplitsAssumption DEF Split
<1>3. /\ b.hdr = write_header(sealed, s.text, s.family, s.n, x)
      /\ b.kdf = s.kdf /\ b.y = gf_eval(s.family, x)
      /\ b.auth = [hdr |-> b.hdr, y |-> b.y]
      /\ b.len = BlobLen(sealed, b.hdr.mlen)
      /\ sealed => b.block = [phrase |-> s.phrase, kdf |-> s.kdf]
  BY <1>1 DEF MakeShare
<1>4. /\ b.hdr.magic /\ b.hdr.version = FORMAT_VERSION
      /\ b.hdr.sealed = sealed /\ b.hdr.text = s.text
      /\ b.hdr.k = s.family.k /\ b.hdr.x = x
      /\ b.hdr.set_id = s.family.set_id /\ b.hdr.secret_len = s.family.len
      /\ b.hdr.mlen = s.family.len + VERIFY_TAG_LEN
  BY <1>3 DEF write_header
<1>5. KdfAccepted(b.kdf)
  BY <1>2, <1>3 DEF KdfLevel, kdf_params_for_level, KdfAccepted
<1>6. pqshard_inspect(b)
  <2>1. s.family.len \in 1..PQSHARD_MAX_SECRET /\ s.family.k >= PQSHARD_MIN_K
    BY <1>2 DEF Family, PQSHARD_MIN_K, PQSHARD_MAX_N
  <2>2. x \in 1..PQSHARD_MAX_N
    BY <1>2 DEF PQSHARD_MAX_N
  <2>3. b.len >= HDR_LEN
    <3>1. b.hdr.mlen \in Nat
      <4>1. s.family.len \in Nat
        <5>1. PQSHARD_MAX_SECRET \in Nat
          BY DEF PQSHARD_MAX_SECRET
        <5>2. QED
          BY <2>1, <5>1
      <4>2. QED
        BY <1>4, <4>1 DEF VERIFY_TAG_LEN
    <3> HIDE DEF sealed
    <3>2. QED
      BY <1>3, <3>1
      DEF BlobLen, HDR_LEN, SEALED_PREFIX_LEN, HYBRID_BLOCK_LEN, AEAD_ABYTES,
          PLAIN_HASH_LEN
  <2>4. QED
    BY <1>3, <1>4, <2>1, <2>2, <2>3 DEF pqshard_inspect
<1>7. Intact(b)
  BY <1>3 DEF Intact
<1>8. QED
  BY <1>1, <1>2, <1>3, <1>4, <1>5, <1>6, <1>7

---------------------------------------------------------------------------
(* Completeness: no message but that of starvation is true of shares that   *)
(* deserve their secret.                                                    *)
LEMMA NoExcuse ==
  ASSUME TypeOK, NEW s \in Splits, Deserved(s),
         NEW e, Told(e), ~starved
  PROVE  FALSE
<1>1. ASSUME NEW i \in Index
      PROVE  /\ blobs[i].hdr.k = s.family.k
             /\ blobs[i].hdr.set_id = s.family.set_id
             /\ blobs[i].hdr.secret_len = s.family.len
             /\ blobs[i].hdr.sealed = (s.phrase # NoPhrase)
             /\ blobs[i].y = gf_eval(s.family, blobs[i].hdr.x)
             /\ blobs[i].hdr.sealed => hybrid_open(blobs[i], passphrase)
             /\ blobs[i].hdr.sealed => passphrase = s.phrase
             /\ Intact(blobs[i]) /\ KdfAccepted(blobs[i].kdf)
             /\ pqshard_inspect(blobs[i])
  <2>1. blobs[i] \in SharesOf(s)
    BY DEF Deserved
  <2>2. /\ blobs[i].hdr.k = s.family.k
        /\ blobs[i].hdr.set_id = s.family.set_id
        /\ blobs[i].hdr.secret_len = s.family.len
        /\ blobs[i].hdr.sealed = (s.phrase # NoPhrase)
        /\ blobs[i].y = gf_eval(s.family, blobs[i].hdr.x)
        /\ blobs[i].hdr.sealed =>
             blobs[i].block = [phrase |-> s.phrase, kdf |-> blobs[i].kdf]
        /\ Intact(blobs[i]) /\ KdfAccepted(blobs[i].kdf)
        /\ pqshard_inspect(blobs[i])
    BY <2>1, ShareFacts
  <2>3. s.phrase # NoPhrase => passphrase = s.phrase
    BY DEF Deserved
  <2>4. QED
    BY <2>2, <2>3 DEF hybrid_open
<1>2. s.family \in Family /\ s.family.k \in Nat /\ s.family.k >= 2
  BY SplitsAssumption DEF Split, Family, PQSHARD_MIN_K
<1>3. nblobs \in Nat /\ nblobs >= 2 /\ nblobs >= s.family.k /\ 0 \in Index
  <2>1. nblobs \in Nat
    BY BlobsAssumption DEF TypeOK
  <2>2. (s.family.k - 1) \in 0..(nblobs - 1)
    BY DEF Deserved, Index
  <2>3. QED
    BY <1>2, <2>1, <2>2 DEF Index
<1>4. first.set_id = s.family.set_id /\ first.secret_len = s.family.len
      /\ first.k = s.family.k
  BY <1>1, <1>3 DEF first
<1>5. CASE e = "need_two"
  <2>1. nblobs < 2
    BY <1>5, ZenonT(30) DEF Told, Diagnosis
  <2>2. QED
    BY <1>3, <2>1
<1>6. CASE e = "not_a_share"
  BY <1>1, <1>6 DEF Told, Diagnosis
<1>7. CASE e = "too_few"
  BY <1>1, <1>2, <1>3, <1>7 DEF Told, Diagnosis
<1>8. CASE e = "no_memory"
  BY <1>8 DEF Told, Diagnosis
<1>9. CASE e = "set_mismatch"
  BY <1>1, <1>9 DEF Told, Diagnosis
<1>10. CASE e = "duplicate"
  <2>1. PICK i \in Index, j \in Index : i # j /\ blobs[i].hdr.x = blobs[j].hdr.x
    BY <1>10 DEF Told, Diagnosis
  <2>2. blobs[i] = blobs[j]
    <3>1. blobs[i] \in SharesOf(s) /\ blobs[j] \in SharesOf(s)
      BY DEF Deserved
    <3>2. /\ blobs[i] = MakeShare(s.family, s.text, s.n, blobs[i].hdr.x,
                                 s.phrase, s.kdf)
          /\ blobs[j] = MakeShare(s.family, s.text, s.n, blobs[j].hdr.x,
                                 s.phrase, s.kdf)
      BY <3>1, ShareFacts
    <3>3. QED
      BY <2>1, <3>2
  <2>3. QED
    BY <2>1, <2>2 DEF Deserved
<1>11. CASE e = "integrity"
  BY <1>1, <1>11 DEF Told, Diagnosis
<1>12. CASE e = "needs_passphrase"
  BY <1>1, <1>12, ZenonT(30) DEF Told, Diagnosis, Deserved
<1>13. CASE e = "unsafe_kdf"
  BY <1>1, <1>13 DEF Told, Diagnosis
<1>14. CASE e = "wrong_passphrase"
  BY <1>1, <1>14, ZenonT(30) DEF Told, Diagnosis
<1>15. CASE e = "verification"
  <2>1. \A i \in Index : blobs[i].y = gf_eval(s.family, blobs[i].hdr.x)
    BY <1>1
  <2>2. blobs[0].y # Junk /\ blobs[0].y.family = s.family
    <3>1. blobs[0] \in Blob
      BY <1>3, BlobsAreBlobs, BlobsAssumption DEF TypeOK, Index
    <3>2. blobs[0].y = [family |-> s.family, x |-> blobs[0].hdr.x]
      BY <1>3, <2>1 DEF gf_eval
    <3>3. blobs[0].y \in Point
      BY <1>2, <3>1, <3>2 DEF Point, Blob, Header
    <3>4. QED
      BY <3>2, <3>3, JunkAssumption
  <2>3. s.family \in {blobs[i].y.family : i \in {j \in Index : blobs[j].y # Junk}}
    BY <1>3, <2>2
  <2>4. QED
    BY <1>2, <1>4, <1>15, <2>1, <2>3 DEF Told, Diagnosis
<1>16. QED
  BY <1>5, <1>6, <1>7, <1>8, <1>9, <1>10, <1>11, <1>12, <1>13, <1>14, <1>15
  DEF Told, Diagnosis

---------------------------------------------------------------------------
(* Soundness: what succeeds deserves it.                                    *)

LEMMA GrantedStep ==
  ASSUME Inv, Granted, [Next]_vars
  PROVE  Granted'
<1> USE DEF args, first, Return, Fail, Starve
<1>1. CASE Copy
  <2>1. CASE ret' = 0
    <3>1. /\ pc = "copy" /\ UNCHANGED <<nblobs, blobs, passphrase>>
          /\ out' = [secret |-> material.secret, text |-> first.text]
      BY <1>1, <2>1 DEF Copy
    <3>2. got = nblobs /\ nblobs >= 2 /\ nblobs >= first.k
      BY <3>1 DEF Inv, Control, PQSHARD_MIN_K
    <3>3. material.secret = blobs[0].y.family.secret
      BY <3>1, TagVouches DEF Inv, Vouched
    <3>4. /\ \A j \in Index : Passed(blobs[j])
          /\ \A j, l \in Index : j # l => blobs[j].hdr.x # blobs[l].hdr.x
      BY <3>1, <3>2 DEF Inv, Loaded, Index
    <3>5. QED
      BY <3>1, <3>2, <3>3, <3>4 DEF Granted, Index, Passed, SetMatches
  <2>2. CASE ret' # 0
    BY <2>2 DEF Granted
  <2>3. QED
    BY <2>1, <2>2
<1>2. CASE Cleanup
  BY <1>2 DEF Cleanup, Granted, Index, Passed, SetMatches
<1>3. CASE UNCHANGED vars
  BY <1>3 DEF vars, Granted, Index, Passed, SetMatches
<1>4. CASE Call \/ Alloc \/ Load \/ Recover \/ Interpolate \/ VerifyTag
  BY <1>4 DEF Call, Alloc, Load, LoadRejected, Recover, Interpolate, VerifyTag, Granted
<1>5. CASE CheckFirst \/ KdfStarves \/ Release
  BY <1>5 DEF CheckFirst, KdfStarves, Release, Granted
<1>6. QED
  BY <1>1, <1>2, <1>3, <1>4, <1>5 DEF Next

(* Genuine shares that all passed belong to one split, and the result is    *)
(* that split's secret and flag.                                            *)
LEMMA OneSplit ==
  ASSUME Inv, Granted, Promised, pc \in {"cleanup", "returned"}, ret = 0
  PROVE  \E s \in Splits :
           /\ Deserved(s)
           /\ out = [secret |-> s.family.secret, text |-> s.text]
<1>1. /\ nblobs \in Nat /\ nblobs >= 2 /\ nblobs >= first.k /\ 0 \in Index
      /\ DOMAIN blobs = Index
      /\ passphrase \in Phrase \cup {NoPhrase}
  BY BlobsAssumption DEF Inv, TypeOK, Granted, Index
<1>2. ASSUME NEW j \in Index
      PROVE  \E t \in Splits : blobs[j] \in SharesOf(t)
  <2>1. blobs[j] \in Genuine
    BY <1>1 DEF Promised
  <2>2. Passed(blobs[j])
    BY DEF Granted
  <2>3. QED
    BY <1>1, <2>1, <2>2 DEF Genuine, Passed
<1>3. PICK s \in Splits : blobs[0] \in SharesOf(s)
  BY <1>1, <1>2
<1>4. first.set_id = s.family.set_id /\ first.k = s.family.k /\ first.text = s.text
  BY <1>3, ShareFacts DEF first
<1>5. ASSUME NEW j \in Index
      PROVE  blobs[j] \in SharesOf(s)
  <2>1. PICK t \in Splits : blobs[j] \in SharesOf(t)
    BY <1>2
  <2>2. blobs[j].hdr.set_id = t.family.set_id
    BY <2>1, ShareFacts
  <2>3. blobs[j].hdr.set_id = first.set_id
    BY DEF Granted, Passed, SetMatches
  <2>4. s = t
    BY <1>4, <2>2, <2>3, SplitsAssumption
  <2>5. QED
    BY <2>1, <2>4
<1>6. (s.family.k - 1) \in Index
  <2>1. s.family.k \in Nat /\ s.family.k >= 2
    BY SplitsAssumption DEF Split, Family, PQSHARD_MIN_K
  <2>2. QED
    BY <1>1, <1>4, <2>1 DEF Index
<1>7. ASSUME s.phrase # NoPhrase
      PROVE  passphrase = s.phrase
  <2>1. /\ blobs[0].hdr.sealed
        /\ blobs[0].block = [phrase |-> s.phrase, kdf |-> blobs[0].kdf]
    BY <1>3, <1>7, ShareFacts
  <2>2. recover_material(blobs[0], passphrase) = "none"
    BY <1>1 DEF Granted, Passed
  <2>3. hybrid_open(blobs[0], passphrase)
    BY <2>1, <2>2 DEF recover_material
  <2>4. [phrase |-> passphrase, kdf |-> blobs[0].kdf].phrase
          = [phrase |-> s.phrase, kdf |-> blobs[0].kdf].phrase
    BY <2>1, <2>3 DEF hybrid_open
  <2>5. QED
    BY <2>4
<1>8. \A i, j \in Index : i # j => blobs[i] # blobs[j]
  BY DEF Granted
<1>9. blobs[0].y.family = s.family
  <2>1. blobs[0].y = gf_eval(s.family, blobs[0].hdr.x)
    BY <1>3, ShareFacts
  <2>2. QED
    BY <2>1 DEF gf_eval
<1>10. QED
  BY <1>4, <1>5, <1>6, <1>7, <1>8, <1>9 DEF Deserved, Granted

---------------------------------------------------------------------------
(* The refinement.                                                          *)

(* Reconstruct's notion of what deserves a grant, at the mapped state.      *)
LEMMA SameShares ==
  ASSUME NEW s
  PROVE  Contract!SharesOf(s) = SharesOf(s)
BY DEF Contract!SharesOf, SharesOf, Contract!MakeShare, MakeShare,
       Contract!write_header, write_header, Contract!gf_eval, gf_eval,
       Contract!BlobLen, BlobLen, Contract!FORMAT_VERSION, FORMAT_VERSION,
       Contract!VERIFY_TAG_LEN, VERIFY_TAG_LEN, Contract!HDR_LEN, HDR_LEN,
       Contract!SEALED_PREFIX_LEN, SEALED_PREFIX_LEN,
       Contract!HYBRID_BLOCK_LEN, HYBRID_BLOCK_LEN,
       Contract!AEAD_ABYTES, AEAD_ABYTES,
       Contract!PLAIN_HASH_LEN, PLAIN_HASH_LEN

LEMMA SameDesert ==
  ASSUME TypeOK, Promised, NEW s
  PROVE  Contract!Acceptable(s) <=> Deserved(s)
<1>1. DOMAIN blobs = Index
  BY DEF TypeOK, Index
<1>2. QED
  BY <1>1, SameShares DEF Contract!Acceptable, Deserved

(* The arguments stay, and so does the promise about them.                  *)
Same == UNCHANGED <<blobs, passphrase>> /\ pc # "idle" /\ pc' # "idle"

LEMMA SamePromise ==
  ASSUME Same
  PROVE  Promised' = Promised
BY DEF Same, Promised, Genuine

(* A step within the call that the caller does not see.                     *)
LEMMA Unseen ==
  ASSUME Same, pc # "returned", pc' # "returned", starved' = starved
  PROVE  UNCHANGED Contract!rvars
BY SamePromise DEF Same, Contract!rvars

(* The step that finds no memory.                                           *)
LEMMA Starves ==
  ASSUME Same, pc # "returned", pc' # "returned", starved' = TRUE
  PROVE  Contract!Deny \/ UNCHANGED Contract!rvars
BY SamePromise DEF Same, Contract!rvars, Contract!Deny

(* The return with an error message that is true.                           *)
LEMMA Refuses ==
  ASSUME TypeOK, Same, pc # "returned", pc' = "returned", starved' = starved,
         ret' = -1, NEW e, Told(e)
  PROVE  Contract!Refuse \/ UNCHANGED Contract!rvars
<1>1. CASE Promised
  <2>1. starved \/ \A s \in Splits : ~Contract!Acceptable(s)
    BY <1>1, SameDesert, NoExcuse
  <2>2. Promised'
    BY <1>1, SamePromise
  <2>3. QED
    BY <1>1, <2>1, <2>2 DEF Same, Contract!Refuse
<1>2. CASE ~Promised
  BY <1>2, SamePromise DEF Same, Contract!rvars
<1>3. QED
  BY <1>1, <1>2

(* The return with the secret.                                              *)
LEMMA Grants ==
  ASSUME Inv, Granted, Same, pc = "cleanup", pc' = "returned",
         UNCHANGED <<starved, out, ret>>, ret = 0, ~starved
  PROVE  Contract!Grant \/ UNCHANGED Contract!rvars
<1>1. CASE Promised
  <2>1. PICK s \in Splits :
          Deserved(s) /\ out = [secret |-> s.family.secret, text |-> s.text]
    BY <1>1, OneSplit
  <2>2. Contract!Acceptable(s) /\ out = Contract!SecretOf(s)
    BY <1>1, <2>1, SameDesert DEF Inv, Contract!SecretOf
  <2>3. Promised'
    BY <1>1, SamePromise
  <2>4. QED
    BY <1>1, <2>2, <2>3 DEF Same, Contract!Grant
<1>2. CASE ~Promised
  BY <1>2, SamePromise DEF Same, Contract!rvars
<1>3. QED
  BY <1>1, <1>2

LEMMA StepImplements ==
  ASSUME Inv, Message, Message', Granted, [Next]_vars
  PROVE  [Contract!RNext]_(Contract!rvars)
<1> USE DEF args, Return, Fail, Starve, Same
<1>1. CASE Call
  BY <1>1 DEF Call, Message, Promised, Contract!RNext, Contract!Ask,
              Contract!rvars
<1>2. CASE CheckFirst
  <2>1. CASE pc' = "alloc"
    BY <1>2, <2>1, Unseen DEF CheckFirst
  <2>2. CASE pc' = "returned"
    <3>1. Told(err')
      BY <1>2, <2>2, FirstTells DEF CheckFirst, Inv, PQSHARD_MIN_K
    <3>2. QED
      BY <1>2, <2>2, <3>1, Refuses DEF CheckFirst, Inv, Contract!RNext
  <2>3. QED
    BY <1>2, <2>1, <2>2 DEF CheckFirst
<1>3. CASE Alloc \/ Load \/ Recover \/ KdfStarves \/ Interpolate
           \/ VerifyTag \/ Copy
  <2>1. /\ Same /\ pc # "returned" /\ pc' # "returned"
        /\ starved' = starved \/ starved' = TRUE
    BY <1>3 DEF Alloc, Load, LoadRejected, Recover, KdfStarves, Interpolate,
                VerifyTag, Copy
  <2>2. QED
    BY <2>1, Unseen, Starves DEF Contract!RNext
<1>4. CASE Cleanup
  <2>1. /\ Same /\ pc = "cleanup" /\ pc' = "returned"
        /\ UNCHANGED <<starved, out, ret, err>>
    BY <1>4 DEF Cleanup
  <2>2. CASE ret = 0
    BY <2>1, <2>2, Grants DEF Message, Contract!RNext
  <2>3. CASE ret = -1
    <3>1. Told(err)
      BY <2>1, <2>3 DEF Inv, Control, Message
    <3>2. QED
      BY <2>1, <2>3, <3>1, Refuses DEF Inv, Contract!RNext
  <2>4. QED
    BY <2>2, <2>3 DEF Inv, TypeOK
<1>5. CASE Release
  <2>1. ~Promised' /\ DOMAIN Empty = {}
    BY <1>5 DEF Release, Promised, Empty
  <2>2. CASE Promised
    BY <1>5, <2>1, <2>2 DEF Release, Contract!RNext, Contract!Forget
  <2>3. CASE ~Promised
    BY <1>5, <2>1, <2>3 DEF Release, Contract!rvars
  <2>4. QED
    BY <2>2, <2>3
<1>6. CASE UNCHANGED vars
  BY <1>6 DEF vars, Promised, Contract!rvars
<1>7. QED
  BY <1>1, <1>2, <1>3, <1>4, <1>5, <1>6 DEF Next

(* pqshard_combine keeps the promise of Reconstruct over genuine shares.    *)
THEOREM Implements == Spec => ImplementsContract
<1>1. Init => Contract!RInit /\ Granted /\ Message
  BY DEF Init, Promised, Contract!RInit, Empty, Granted, Message
<1>2. Inv /\ Message /\ [Next]_vars => Message'
  BY MessageStep
<1>3. Inv /\ Granted /\ [Next]_vars => Granted'
  BY GrantedStep
<1>4. Inv /\ Message /\ Message' /\ Granted /\ [Next]_vars
        => [Contract!RNext]_(Contract!rvars)
  BY StepImplements
<1>5. QED
  BY <1>1, <1>2, <1>3, <1>4, Invariance, PTL
  DEF Spec, ImplementsContract, Contract!RSpec

================================================================================
