--------------------------- MODULE SplitCallProofs ---------------------------
(***************************************************************************)
(* Theorems about pqshard_split, for every set of requests and passphrases *)
(* and every number of shares: its types, its clean exit, that a combine   *)
(* opens what it writes, and that it implements AtomicSplit.               *)
(***************************************************************************)
EXTENDS SplitCall, TLAPS

Working == {"material", "ys", "xs"}

(* pqshard_split's checks, as the caller of AtomicSplit knows them.         *)
Accepted == request.len \in 1..PQSHARD_MAX_SECRET /\ ThresholdValid

(* The blob that turn j of the emit loop writes.                            *)
ShareAt(j) == MakeShare(family, request.text, request.n, j + 1, request.phrase,
                        kdf_params_for_level[request.level])

(* The first m blobs are made, and no other.                                *)
Made(m) == out_blobs = [j \in Index |-> IF j < m THEN ShareAt(j) ELSE NULL]

(* What the call owns at each point, and how far it has come.               *)
Control ==
  /\ pc \in {"idle", "check", "alloc"} => i = 0 /\ heap = {} /\ ybuf = {}
  /\ pc \in {"idle", "check", "alloc", "alloc_ys"} =>
       out_blobs = [j \in Index |-> NULL]
  /\ pc \in {"idle", "check", "alloc", "alloc_ys", "emit", "fill"} =>
       err = "none" /\ ret = 0 /\ ~starved
  /\ pc \in {"alloc", "alloc_ys", "emit", "fill", "cleanup"} => Accepted
  /\ pc \in {"alloc_ys", "emit"} => heap = Working
  /\ pc = "fill" => heap = Working \cup {"blob"} /\ i < request.n
  /\ pc = "alloc_ys" => ybuf = 0..(i - 1)
  /\ pc \in {"emit", "fill"} => ybuf = Index /\ Made(i)
  /\ pc = "cleanup" => heap \subseteq Working /\ ("ys" \notin heap => ybuf = {})
  /\ pc = "returned" => heap = {} /\ ybuf = {}

(* A call that is over: all the shares, or none and a reason.               *)
Outcome ==
  pc \in {"cleanup", "returned"} =>
    /\ ret = 0  => err = "none" /\ ~starved /\ Accepted /\ Made(request.n)
    /\ ret = -1 => err # "none" /\ (starved \/ ~Accepted)
    /\ ret = -1 /\ pc = "returned" => out_blobs = [j \in Index |-> NULL]

Inv == TypeOK /\ Control /\ Outcome

---------------------------------------------------------------------------
(* The shares of an accepted request.                                       *)

LEMMA RequestTypes ==
  ASSUME NEW r \in Requests
  PROVE  /\ r.secret \in Secret /\ r.len \in Nat /\ r.text \in BOOLEAN
         /\ r.n \in Nat /\ r.k \in Nat /\ r.phrase \in Phrase \cup {NoPhrase}
         /\ r.level \in KdfLevel
BY RequestsAssumption DEF Request

(* An accepted request has a family of the format's range.                  *)
LEMMA FamilyIsFamily ==
  ASSUME request \in Requests, set_id \in SetId, Accepted
  PROVE  family \in Family
BY RequestTypes
DEF Accepted, ThresholdValid, family, Family, PQSHARD_MIN_K, PQSHARD_MAX_N

(* Each strength's costs are within the bounds a combine puts on them.      *)
LEMMA LevelsAreAccepted ==
  ASSUME NEW level \in KdfLevel
  PROVE  /\ kdf_params_for_level[level] \in Kdf
         /\ KdfAccepted(kdf_params_for_level[level])
BY DEF KdfLevel, kdf_params_for_level, Kdf, KdfAccepted

(* A share with an index from 1 to n is a blob.                             *)
LEMMA SharesAreBlobs ==
  ASSUME request \in Requests, set_id \in SetId, Accepted, NEW j \in Index
  PROVE  ShareAt(j) \in Blob
<1> DEFINE sealed == request.phrase # NoPhrase
           kdf == kdf_params_for_level[request.level]
           hdr == write_header(sealed, request.text, family, request.n, j + 1)
           y == gf_eval(family, j + 1)
<1>1. j + 1 \in Byte /\ request.n \in Byte /\ request.k \in Byte
  BY RequestTypes DEF Accepted, ThresholdValid, Index, Byte, PQSHARD_MIN_K,
                      PQSHARD_MAX_N
<1>2. hdr \in Header
  <2>1. /\ request.len \in Nat /\ request.len + VERIFY_TAG_LEN \in Nat
        /\ request.text \in BOOLEAN /\ FORMAT_VERSION \in Byte
    BY RequestTypes DEF VERIFY_TAG_LEN, FORMAT_VERSION, Byte
  <2>2. sealed \in BOOLEAN
    OBVIOUS
  <2> HIDE DEF sealed
  <2>3. QED
    BY <1>1, <2>1, <2>2 DEF write_header, family, Header
<1>3. y \in Point
  BY <1>1, FamilyIsFamily DEF gf_eval, Point
<1>4. kdf \in Kdf
  BY LevelsAreAccepted, RequestTypes
<1>5. (IF sealed THEN [phrase |-> request.phrase, kdf |-> kdf] ELSE Junk)
        \in MasterKey \cup {Junk}
  BY <1>4, RequestTypes DEF MasterKey
<1>6. BlobLen(sealed, hdr.mlen) \in Nat
  BY <1>2 DEF Header, BlobLen, HDR_LEN, SEALED_PREFIX_LEN, HYBRID_BLOCK_LEN,
              AEAD_ABYTES, PLAIN_HASH_LEN
<1> HIDE DEF sealed, kdf, hdr, y
<1>7. [hdr |-> hdr, y |-> y] \in [hdr: Header, y: Point \cup {Junk}]
  BY <1>2, <1>3
<1>8. ShareAt(j) =
        [hdr |-> hdr, kdf |-> kdf,
         block |-> IF sealed THEN [phrase |-> request.phrase, kdf |-> kdf] ELSE Junk,
         y |-> y, auth |-> [hdr |-> hdr, y |-> y],
         len |-> BlobLen(sealed, hdr.mlen)]
  BY DEF ShareAt, MakeShare, sealed, kdf, hdr, y
<1>9. QED
  BY <1>2, <1>3, <1>4, <1>5, <1>6, <1>7, <1>8 DEF Blob

(* A combine parses each share and opens it under the split's passphrase.   *)
LEMMA SharesOpen ==
  ASSUME request \in Requests, set_id \in SetId, Accepted, NEW j \in Index
  PROVE  /\ pqshard_inspect(ShareAt(j))
         /\ recover_material(ShareAt(j), request.phrase) = "none"
         /\ ShareAt(j).hdr.x = j + 1
         /\ ShareAt(j).y = gf_eval(family, j + 1)
<1>1. /\ j \in Nat /\ j + 1 \in 1..PQSHARD_MAX_N /\ request.k >= PQSHARD_MIN_K
      /\ request.k \in Nat /\ request.len \in Nat
  BY RequestTypes DEF Accepted, ThresholdValid, Index, PQSHARD_MIN_K,
                      PQSHARD_MAX_N
<1>2. /\ ShareAt(j).hdr = write_header(request.phrase # NoPhrase, request.text,
                                       family, request.n, j + 1)
      /\ ShareAt(j).kdf = kdf_params_for_level[request.level]
      /\ ShareAt(j).y = gf_eval(family, j + 1)
      /\ ShareAt(j).auth = [hdr |-> ShareAt(j).hdr, y |-> ShareAt(j).y]
      /\ ShareAt(j).len = BlobLen(request.phrase # NoPhrase, ShareAt(j).hdr.mlen)
      /\ request.phrase # NoPhrase => ShareAt(j).block =
           [phrase |-> request.phrase, kdf |-> kdf_params_for_level[request.level]]
  BY DEF ShareAt, MakeShare
<1>3. /\ ShareAt(j).hdr.magic /\ ShareAt(j).hdr.version = FORMAT_VERSION
      /\ ShareAt(j).hdr.sealed = (request.phrase # NoPhrase)
      /\ ShareAt(j).hdr.k = request.k /\ ShareAt(j).hdr.x = j + 1
      /\ ShareAt(j).hdr.secret_len = request.len
      /\ ShareAt(j).hdr.mlen = request.len + VERIFY_TAG_LEN
  BY <1>2 DEF write_header, family
<1>4. pqshard_inspect(ShareAt(j))
  <2>1. ShareAt(j).len >= HDR_LEN
    BY <1>1, <1>2, <1>3
    DEF BlobLen, HDR_LEN, SEALED_PREFIX_LEN, HYBRID_BLOCK_LEN, AEAD_ABYTES,
        PLAIN_HASH_LEN, VERIFY_TAG_LEN
  <2>2. QED
    BY <1>1, <1>2, <1>3, <2>1 DEF pqshard_inspect, Accepted
<1>5. recover_material(ShareAt(j), request.phrase) = "none"
  <2>1. Intact(ShareAt(j))
    BY <1>2 DEF Intact
  <2>2. KdfAccepted(ShareAt(j).kdf)
    BY <1>2, RequestTypes, LevelsAreAccepted
  <2>3. request.phrase # NoPhrase => hybrid_open(ShareAt(j), request.phrase)
    BY <1>2 DEF hybrid_open
  <2>4. QED
    BY <1>3, <2>1, <2>2, <2>3 DEF recover_material
<1>6. QED
  BY <1>2, <1>3, <1>4, <1>5

---------------------------------------------------------------------------
(* One lemma per part of the invariant, one step per action.                *)

LEMMA TypeStep ==
  ASSUME Inv, [Next]_vars
  PROVE  TypeOK'
<1> USE DEF TypeOK
<1>1. CASE Call
  BY <1>1, RequestTypes DEF Inv, Control, Call, Index
<1>2. CASE Check
  BY <1>2 DEF Inv, Check, Index
<1>3. CASE Alloc
  BY <1>3 DEF Inv, Alloc, Starve, Fail, Index
<1>4. CASE AllocY
  <2>1. i' \in 0..request.n /\ ybuf' \subseteq Index
    <3>1. request.n \in Nat /\ i \in 0..request.n /\ ybuf \subseteq Index
      BY RequestTypes DEF Inv
    <3>2. CASE UNCHANGED <<i, ybuf>>
      BY <3>1, <3>2
    <3>3. CASE ybuf' = ybuf \cup {i} /\ i' = i + 1
      BY <1>4, <3>1, <3>3 DEF AllocY, Index
    <3>4. QED
      BY <1>4, <3>2, <3>3 DEF AllocY
  <2>2. QED
    BY <1>4, <2>1 DEF Inv, AllocY, Starve, Fail, Index
<1>5. CASE ShamirSplit
  BY <1>5, RequestTypes DEF Inv, ShamirSplit, Fail, Index
<1>6. CASE EmitAlloc
  BY <1>6 DEF Inv, EmitAlloc, Starve, Fail, Index
<1>7. CASE Fill
  <2>1. i \in Index /\ i + 1 \in 0..request.n /\ Accepted
    BY <1>7, RequestTypes DEF Inv, Control, Fill, Index
  <2>2. share \in Blob
    BY <2>1, SharesAreBlobs DEF Inv, share, ShareAt
  <2>3. out_blobs' \in [Index' -> Blob \cup {NULL}]
    BY <1>7, <2>1, <2>2 DEF Inv, Fill, Index
  <2>4. QED
    BY <1>7, <2>1, <2>3 DEF Inv, Fill, Index
<1>8. CASE HybridBuildFails
  BY <1>8 DEF Inv, HybridBuildFails, Starve, Fail, Index
<1>9. CASE EmitDone
  BY <1>9 DEF Inv, EmitDone, Index
<1>10. CASE Cleanup
  BY <1>10 DEF Inv, Cleanup, Index
<1>11. CASE Release
  <2>1. 0 \in 0..request.n
    BY RequestTypes DEF Inv
  <2>2. QED
    BY <1>11, <2>1 DEF Inv, Release, Index
<1>12. CASE UNCHANGED vars
  BY <1>12 DEF Inv, vars, Index
<1>13. QED
  BY <1>1, <1>2, <1>3, <1>4, <1>5, <1>6, <1>7, <1>8, <1>9, <1>10, <1>11, <1>12
  DEF Next

LEMMA ControlStep ==
  ASSUME Inv, [Next]_vars
  PROVE  Control' /\ Outcome'
<1>0. request.n \in Nat /\ request.len \in Nat /\ i \in 0..request.n
  BY RequestTypes DEF Inv, TypeOK
<1> USE <1>0 DEF Inv, Control, Outcome
<1>1. CASE Call
  BY <1>1 DEF Call, Index
<1>2. CASE Check
  <2>1. CASE pc' = "returned"
    <3>1. /\ ret' = -1 /\ err' # "none" /\ ~Accepted
          /\ UNCHANGED <<request, i, heap, ybuf, out_blobs, starved>>
      <4>1. PQSHARD_MAX_SECRET \in Nat
        BY DEF PQSHARD_MAX_SECRET
      <4>2. request.len = 0 \/ request.len > PQSHARD_MAX_SECRET \/ ~ThresholdValid
        BY <1>2, <2>1 DEF Check
      <4>3. ~Accepted
        BY <4>1, <4>2 DEF Accepted
      <4>4. ret' = -1 /\ err' # "none"
        BY <1>2, <2>1 DEF Check
      <4>5. QED
        BY <1>2, <4>3, <4>4 DEF Check
    <3>2. QED
      BY <1>2, <2>1, <3>1 DEF Check, Index, Accepted, ThresholdValid
  <2>2. CASE pc' = "alloc"
    BY <1>2, <2>2 DEF Check, Index, Accepted, ThresholdValid
  <2>3. QED
    BY <1>2, <2>1, <2>2 DEF Check
<1>3. CASE Alloc
  BY <1>3 DEF Alloc, Starve, Fail, Index, Accepted, ThresholdValid, Working
<1>4. CASE AllocY
  <2>1. CASE Starve("no_memory")
    BY <1>4, <2>1 DEF AllocY, Starve, Fail, Index, Accepted, ThresholdValid,
                      Working
  <2>2. CASE UNCHANGED pc
    <3>1. i' = i + 1 /\ ybuf' = 0..(i' - 1)
      <4>1. ybuf = 0..(i - 1) /\ i' = i + 1 /\ ybuf' = ybuf \cup {i}
        BY <1>4, <2>2 DEF AllocY, Starve, Fail
      <4>2. i \in Nat /\ (i + 1) - 1 = i
        OBVIOUS
      <4>3. 0..i = 0..(i - 1) \cup {i}
        BY <4>2
      <4>4. QED
        BY <4>1, <4>2, <4>3
    <3>2. QED
      BY <1>4, <2>2, <3>1 DEF AllocY, Starve, Fail, Index, Accepted,
                              ThresholdValid, Working
  <2>3. QED
    BY <1>4, <2>1, <2>2 DEF AllocY
<1>5. CASE ShamirSplit
  <2>1. pc' = "emit" /\ i' = 0 /\ UNCHANGED <<err, ret>>
    BY <1>5 DEF ShamirSplit, Accepted, VERIFY_TAG_LEN
  <2>2. ybuf = Index /\ Made(0)
    BY <1>5 DEF ShamirSplit, Index, Made
  <2>3. Made(0)' /\ Index' = Index
    BY <1>5, <2>2 DEF ShamirSplit, Index, Made, ShareAt, family
  <2>4. QED
    BY <1>5, <2>1, <2>2, <2>3 DEF ShamirSplit, Accepted, ThresholdValid, Working
<1>6. CASE EmitAlloc
  BY <1>6 DEF EmitAlloc, Starve, Fail, Index, Accepted, ThresholdValid, Working,
              Made, ShareAt, family
<1>7. CASE Fill
  <2>1. out_blobs' = [j \in Index |-> IF j < i + 1 THEN ShareAt(j) ELSE NULL]
    <3>1. out_blobs = [j \in Index |-> IF j < i THEN ShareAt(j) ELSE NULL]
      BY <1>7 DEF Fill, Made
    <3>2. out_blobs' = [out_blobs EXCEPT ![i] = ShareAt(i)]
      BY <1>7 DEF Fill, share, ShareAt
    <3>3. i \in Nat /\ \A j \in Index : j \in Nat /\ (j < i + 1 <=> j < i \/ j = i)
      BY DEF Index
    <3>4. QED
      BY <3>1, <3>2, <3>3
  <2>2. Made(i)' /\ Index' = Index
    BY <1>7, <2>1 DEF Fill, Index, Made, ShareAt, family
  <2>3. heap' = Working /\ i' \in 0..request.n
    BY <1>7 DEF Fill, Working
  <2>4. QED
    BY <1>7, <2>2, <2>3 DEF Fill, Accepted, ThresholdValid
<1>8. CASE HybridBuildFails
  BY <1>8 DEF HybridBuildFails, Starve, Fail, Accepted, ThresholdValid, Working
<1>9. CASE EmitDone
  BY <1>9 DEF EmitDone, Index, Accepted, ThresholdValid, Working, Made, ShareAt,
              family
<1>10. CASE Cleanup
  <2>1. heap' = {} /\ ybuf' = {}
    BY <1>10 DEF Cleanup, TypeOK, Working
  <2>2. ret = -1 => out_blobs' = [j \in Index' |-> NULL]
    BY <1>10 DEF Cleanup, Index
  <2>3. ret = 0 => Made(request.n)'
    BY <1>10 DEF Cleanup, Index, Made, ShareAt, family
  <2>4. QED
    BY <1>10, <2>1, <2>2, <2>3 DEF Cleanup, Accepted, ThresholdValid
<1>11. CASE Release
  BY <1>11 DEF Release, Index
<1>12. CASE UNCHANGED vars
  BY <1>12 DEF vars, Index, Accepted, ThresholdValid, Working, Made, ShareAt,
               family
<1>13. QED
  BY <1>1, <1>2, <1>3, <1>4, <1>5, <1>6, <1>7, <1>8, <1>9, <1>10, <1>11, <1>12
  DEF Next

---------------------------------------------------------------------------
(* What a reader of the shares may rely on.                                 *)

(* After a success the array holds the share of every index.                *)
LEMMA SharesInOrder ==
  ASSUME Inv, pc = "returned", ret = 0
  PROVE  /\ Accepted /\ \A j \in Index : out_blobs[j] = ShareAt(j)
         /\ out_blobs = [j \in Index |-> ShareAt(j)]
<1>1. Accepted /\ Made(request.n)
  BY DEF Inv, Outcome
<1>2. request.n \in Nat
  BY RequestTypes DEF Inv, TypeOK
<1>3. \A j \in Index : j < request.n
  BY <1>2 DEF Index
<1>4. out_blobs = [j \in Index |-> ShareAt(j)]
  BY <1>1, <1>3 DEF Made
<1>5. QED
  BY <1>1, <1>4

(* Any k distinct shares satisfy shamir_combine and interpolate to the      *)
(* family: the points are its own, at x from 1, pairwise different.         *)
LEMMA AnyThreshold ==
  ASSUME Inv, pc = "returned", ret = 0,
         NEW pick \in [0..(request.k - 1) -> Index],
         \A l, m \in DOMAIN pick : l # m => pick[l] # pick[m],
         NEW xs_, xs_ = [m \in DOMAIN pick |-> out_blobs[pick[m]].hdr.x],
         NEW ys_, ys_ = [m \in DOMAIN pick |-> out_blobs[pick[m]].y]
  PROVE  ShamirAccepts(xs_, request.k) /\ shamir_combine(xs_, ys_, request.k) = family
<1>1. request \in Requests /\ set_id \in SetId /\ Accepted
  BY SharesInOrder DEF Inv, TypeOK
<1>2. request.k \in Nat /\ request.k >= 2 /\ DOMAIN pick = 0..(request.k - 1)
  BY <1>1, RequestTypes DEF Accepted, ThresholdValid, PQSHARD_MIN_K
<1>3. \A m \in 0..(request.k - 1) :
        /\ pick[m] \in Nat /\ xs_[m] = pick[m] + 1
        /\ ys_[m] = gf_eval(family, pick[m] + 1)
  <2>1. \A j \in Index : /\ j \in Nat /\ out_blobs[j].hdr.x = j + 1
                         /\ out_blobs[j].y = gf_eval(family, j + 1)
    BY <1>1, SharesInOrder, SharesOpen DEF Index
  <2>2. QED
    BY <1>2, <2>1
<1>4. ShamirAccepts(xs_, request.k)
  <2>1. \A m \in 0..(request.k - 1) : xs_[m] # 0
    BY <1>3
  <2>2. \A l, m \in 0..(request.k - 1) : l # m => pick[l] # pick[m]
    BY <1>2
  <2>3. \A l, m \in 0..(request.k - 1) : l # m => xs_[l] # xs_[m]
    <3> TAKE l, m \in 0..(request.k - 1)
    <3>1. /\ xs_[l] = pick[l] + 1 /\ pick[l] \in Nat
          /\ xs_[m] = pick[m] + 1 /\ pick[m] \in Nat
      BY <1>3
    <3>2. l # m => pick[l] # pick[m]
      BY <2>2
    <3>3. QED
      BY <3>1, <3>2
  <2>4. QED
    BY <1>2, <2>1, <2>3 DEF ShamirAccepts
<1>5. /\ 0 \in 0..(request.k - 1)
      /\ \A m \in 0..(request.k - 1) : ys_[m] = gf_eval(family, xs_[m])
  <2>1. 0 \in 0..(request.k - 1)
    BY <1>2
  <2>2. QED
    BY <1>3, <2>1
<1>6. ys_[0].family = family /\ family.k = request.k
  <2>1. ys_[0] = gf_eval(family, xs_[0])
    BY <1>5
  <2>2. QED
    BY <2>1 DEF gf_eval, family
<1>7. ys_[0] # Junk
  <2>1. pick[0] + 1 \in Byte
    <3>1. pick[0] \in Index /\ request.n \in Nat
      BY <1>1, <1>5, RequestTypes
    <3>2. request.n <= 255
      BY <1>1 DEF Accepted, ThresholdValid, PQSHARD_MAX_N
    <3>3. pick[0] \in Nat /\ pick[0] <= request.n - 1
      BY <3>1 DEF Index
    <3>4. \A p, n \in Nat : p <= n - 1 /\ n <= 255 => p + 1 \in Byte
      BY DEF Byte
    <3>5. QED
      BY <3>1, <3>2, <3>3, <3>4
  <2>2. gf_eval(family, pick[0] + 1) \in Point
    BY <1>1, <2>1, FamilyIsFamily DEF gf_eval, Point
  <2>3. QED
    BY <1>3, <1>5, <2>2, JunkAssumption
<1>8. shamir_combine(xs_, ys_, request.k) = family
  <2>1. request.k <= request.k
    BY <1>2
  <2>2. QED
    BY <1>5, <1>6, <1>7, <2>1 DEF shamir_combine
<1>9. QED
  BY <1>4, <1>8

---------------------------------------------------------------------------
(* The theorems.                                                            *)

THEOREM Invariance == Spec => []Inv
<1>1. Init => Inv
  <2> SUFFICES ASSUME Init PROVE Inv
    OBVIOUS
  <2>1. request.n \in Nat
    BY RequestTypes DEF Init
  <2>2. TypeOK
    <3>1. 0 \in 0..request.n /\ out_blobs \in [Index -> Blob \cup {NULL}]
      BY <2>1 DEF Init
    <3>2. QED
      BY <3>1 DEF Init, TypeOK
  <2>3. Control /\ Outcome
    BY DEF Init, Control, Outcome
  <2>4. QED
    BY <2>2, <2>3 DEF Inv
<1>2. Inv /\ [Next]_vars => Inv'
  BY TypeStep, ControlStep DEF Inv
<1>3. QED
  BY <1>1, <1>2, PTL DEF Spec

(* Every variable of the call keeps its type.                               *)
THEOREM TypeCorrect == Spec => []TypeOK
BY Invariance, PTL DEF Inv

(* Whichever allocation or build failed, nothing stays allocated            *)
(* (pqshard_split's cleanup block).                                         *)
THEOREM NoLeak == Spec => []SplitCleanExit
<1>1. Inv => SplitCleanExit
  BY DEF Inv, TypeOK, Control, Outcome, SplitCleanExit
<1>2. QED
  BY <1>1, Invariance, PTL

(* Any k of the n shares of any split give the secret's family back.        *)
THEOREM SplitThenCombine == Spec => []RoundTrip
<1>1. Inv => RoundTrip
  <2> SUFFICES ASSUME Inv, pc = "returned", ret = 0 PROVE RoundTrip
    BY DEF RoundTrip
  <2>1. \A j \in Index :
          /\ pqshard_inspect(out_blobs[j])
          /\ recover_material(out_blobs[j], request.phrase) = "none"
    BY SharesInOrder, SharesOpen DEF Inv, TypeOK
  <2>2. QED
    BY <2>1, AnyThreshold DEF RoundTrip
<1>2. QED
  BY <1>1, Invariance, PTL

---------------------------------------------------------------------------
(* The call implements AtomicSplit.                                         *)

(* The contract speaks of the same shares and the same limits.              *)
LEMMA SameShares ==
  ASSUME NEW f, NEW text, NEW n, NEW x, NEW phrase, NEW kdf
  PROVE  Contract!MakeShare(f, text, n, x, phrase, kdf)
           = MakeShare(f, text, n, x, phrase, kdf)
BY DEF MakeShare, Contract!MakeShare, write_header, Contract!write_header,
       gf_eval, Contract!gf_eval, BlobLen, Contract!BlobLen,
       VERIFY_TAG_LEN, Contract!VERIFY_TAG_LEN,
       FORMAT_VERSION, Contract!FORMAT_VERSION, HDR_LEN, Contract!HDR_LEN,
       SEALED_PREFIX_LEN, Contract!SEALED_PREFIX_LEN,
       HYBRID_BLOCK_LEN, Contract!HYBRID_BLOCK_LEN,
       AEAD_ABYTES, Contract!AEAD_ABYTES,
       PLAIN_HASH_LEN, Contract!PLAIN_HASH_LEN

LEMMA SameRequests == Accepted <=> Contract!Valid(request)
<1>1. /\ PQSHARD_MAX_SECRET = Contract!PQSHARD_MAX_SECRET
      /\ PQSHARD_MIN_K = Contract!PQSHARD_MIN_K
      /\ PQSHARD_MAX_N = Contract!PQSHARD_MAX_N
  BY DEF PQSHARD_MAX_SECRET, Contract!PQSHARD_MAX_SECRET,
         PQSHARD_MIN_K, Contract!PQSHARD_MIN_K,
         PQSHARD_MAX_N, Contract!PQSHARD_MAX_N
<1>2. QED
  BY <1>1 DEF Accepted, ThresholdValid, Contract!Valid

(* The contract's answer, once the call is over.                            *)
Answered ==
  /\ pc # "returned" => Answer = NULL
  /\ pc = "returned" /\ ret = -1 => Answer = NULL
  /\ pc = "returned" /\ ret = 0 => Answer = Contract!SharesFor(request, set_id)

(* A caller that looks after a success finds blobs, never NULL.             *)
LEMMA AnswerOfOutcome ==
  ASSUME Inv
  PROVE  Answered
<1>1. pc # "returned" => Answer = NULL
  BY DEF Answer
<1>2. pc = "returned" /\ ret = -1 => Answer = NULL
  BY DEF Inv, Outcome, Answer
<1>3. ASSUME pc = "returned", ret = 0
      PROVE  Answer = Contract!SharesFor(request, set_id)
  <2>1. /\ Accepted /\ request \in Requests /\ set_id \in SetId
        /\ out_blobs = [j \in Index |-> ShareAt(j)]
    BY <1>3, SharesInOrder DEF Inv, TypeOK
  <2>2. 0 \in Index
    BY <2>1, RequestTypes DEF Accepted, ThresholdValid, Index, PQSHARD_MIN_K
  <2>3. out_blobs[0] # NULL
    BY <2>1, <2>2, SharesAreBlobs, RequestsAssumption
  <2>4. Answer = out_blobs
    BY <1>3, <2>2, <2>3 DEF Answer
  <2>5. kdf_params_for_level = Contract!kdf_params_for_level
    BY DEF kdf_params_for_level, Contract!kdf_params_for_level
  <2>6. \A j \in Index : ShareAt(j) =
          Contract!MakeShare(family, request.text, request.n, j + 1,
                             request.phrase,
                             Contract!kdf_params_for_level[request.level])
    BY <2>5, SameShares DEF ShareAt
  <2>7. QED
    BY <2>1, <2>4, <2>6 DEF Contract!SharesFor, Index, family
<1>4. QED
  BY <1>1, <1>2, <1>3 DEF Answered

LEMMA AnswerNext == Inv' => Answered'
BY AnswerOfOutcome, PTL

(* Each step of the call is one of the contract, or invisible to it.        *)
LEMMA StepImplements ==
  ASSUME Inv, Inv', [Next]_vars
  PROVE  [Contract!ANext]_(Contract!avars)
<1>0. /\ Answered /\ Answered'
      /\ pc \in {"idle", "check", "alloc", "alloc_ys", "emit", "fill", "cleanup",
                 "returned"}
  BY AnswerOfOutcome, AnswerNext DEF Inv, TypeOK
<1> USE <1>0 DEF Contract!avars, Contract!ANext, Answered
<1>1. CASE Call
  BY <1>1 DEF Call, Contract!Ask, Inv, Control
<1>2. CASE Check
  <2>1. CASE pc' = "returned"
    <3>1. ret' = -1 /\ ~Accepted'  /\ UNCHANGED request
      BY <1>2, <2>1 DEF Check, Inv, Outcome, Control
    <3>2. ~Contract!Valid(request)
      BY <3>1, SameRequests DEF Accepted, ThresholdValid
    <3>3. QED
      BY <1>2, <2>1, <3>1, <3>2 DEF Check, Contract!Refuse
  <2>2. CASE pc' = "alloc"
    BY <1>2, <2>2 DEF Check
  <2>3. QED
    BY <1>2, <2>1, <2>2 DEF Check
<1>3. CASE Alloc
  BY <1>3 DEF Alloc, Starve, Fail, Contract!Deny
<1>4. CASE AllocY
  BY <1>4 DEF AllocY, Starve, Fail, Contract!Deny
<1>5. CASE ShamirSplit
  BY <1>5 DEF ShamirSplit, Fail, Accepted, VERIFY_TAG_LEN, Inv, Control
<1>6. CASE EmitAlloc
  BY <1>6 DEF EmitAlloc, Starve, Fail, Contract!Deny
<1>7. CASE Fill
  BY <1>7 DEF Fill
<1>8. CASE HybridBuildFails
  BY <1>8 DEF HybridBuildFails, Starve, Fail, Contract!Deny
<1>9. CASE EmitDone
  BY <1>9 DEF EmitDone
<1>10. CASE Cleanup
  <2>1. /\ pc = "cleanup" /\ pc' = "returned"
        /\ UNCHANGED <<request, set_id, ret, starved>>
    BY <1>10 DEF Cleanup
  <2>2. CASE ret = 0
    <3>1. ~starved /\ Contract!Valid(request)
      BY <2>1, <2>2, SameRequests DEF Inv, Outcome
    <3>2. Answer' = Contract!SharesFor(request, set_id) /\ set_id \in SetId
      BY <2>1, <2>2 DEF Inv, TypeOK, Contract!SharesFor
    <3>3. QED
      BY <2>1, <3>1, <3>2 DEF Contract!Grant
  <2>3. CASE ret = -1
    BY <2>1, <2>3, SameRequests DEF Contract!Refuse, Inv, Outcome
  <2>4. QED
    BY <2>2, <2>3 DEF Inv, TypeOK
<1>11. CASE Release
  BY <1>11 DEF Release, Contract!Forget
<1>12. CASE UNCHANGED vars
  BY <1>12 DEF vars, Answer, Index
<1>13. QED
  BY <1>1, <1>2, <1>3, <1>4, <1>5, <1>6, <1>7, <1>8, <1>9, <1>10, <1>11, <1>12
  DEF Next

(* share.h's promise: on success out_blobs[i] is the share of index i + 1,  *)
(* for every i; otherwise the array is empty, and an accepted request fails *)
(* only when memory or hybrid_build did.                                    *)
THEOREM Implements == Spec => ImplementsAtomicSplit
<1>1. Init => Contract!AInit
  BY DEF Init, Contract!AInit, Answer
<1>2. Inv /\ Inv' /\ [Next]_vars => [Contract!ANext]_(Contract!avars)
  BY StepImplements
<1>3. QED
  BY <1>1, <1>2, Invariance, PTL DEF Spec, ImplementsAtomicSplit, Contract!ASpec

==============================================================================
