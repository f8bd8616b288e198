------------------------------- MODULE SplitCall -------------------------------
(***************************************************************************)
(* One caller of pqshard_split (share.c).  Like cli.c and gui.c it hands   *)
(* over a calloc'd out_blobs array and frees what it gets back.  Every     *)
(* malloc of the call may fail, and so may hybrid_build: Argon2's memory,  *)
(* key generation or encapsulation.                                        *)
(***************************************************************************)
EXTENDS ShareFormat

CONSTANTS
  Requests,   (* the arguments a caller may pass                            *)
  NULL        (* an out_blobs[i] without a blob                             *)

Request == [secret: Secret, len: Nat, text: BOOLEAN, n: Nat, k: Nat,
            phrase: Phrase \cup {NoPhrase}, level: KdfLevel]

ASSUME RequestsAssumption == Requests \subseteq Request /\ NULL \notin Blob

VARIABLES
  pc,         (* where the call is                                          *)
  request,    (* its arguments                                              *)
  set_id,     (* the random set_id of this call                             *)
  i,          (* index of the current loop                                  *)
  heap,       (* the buffers malloc'd and not yet freed, but for ys[i]      *)
  ybuf,       (* the i with a malloc'd ys[i]                                *)
  out_blobs,  (* the caller's array                                         *)
  err, ret,   (* why it failed, and its return code                         *)
  starved     (* auxiliary: an allocation or hybrid_build failed            *)

vars == <<pc, request, set_id, i, heap, ybuf, out_blobs, err, ret, starved>>

Index == 0..(request.n - 1)

Init ==
  /\ pc = "idle" /\ request \in Requests /\ set_id \in SetId
  /\ i = 0 /\ heap = {} /\ ybuf = {}
  /\ out_blobs = [j \in Index |-> NULL]
  /\ err = "none" /\ ret = 0 /\ starved = FALSE

Fail(e) == pc' = "cleanup" /\ err' = e /\ ret' = -1
Starve(e) == Fail(e) /\ starved' = TRUE

---------------------------------------------------------------------------

Call ==
  /\ pc = "idle"
  /\ request' \in Requests
  /\ out_blobs' = [j \in Index' |-> NULL]
  /\ pc' = "check"
  /\ UNCHANGED <<set_id, i, heap, ybuf, err, ret, starved>>

(* The early returns; then the set_id is drawn.                             *)

(* Mutant: no upper bound on n.                                             *)
ThresholdValidUnbounded == request.k >= PQSHARD_MIN_K /\ request.n >= request.k

ThresholdValid ==
  /\ request.k >= PQSHARD_MIN_K
  /\ request.n >= request.k
  /\ request.n <= PQSHARD_MAX_N

Check ==
  /\ pc = "check"
  /\ \/ /\ \/ request.len = 0 /\ err' = "empty"
           \/ request.len > PQSHARD_MAX_SECRET /\ err' = "too_large"
           \/ /\ request.len \in 1..PQSHARD_MAX_SECRET
              /\ ~ThresholdValid
              /\ err' = "bad_threshold"
        /\ pc' = "returned" /\ ret' = -1 /\ UNCHANGED set_id
     \/ /\ request.len \in 1..PQSHARD_MAX_SECRET
        /\ ThresholdValid
        /\ set_id' \in SetId
        /\ pc' = "alloc" /\ UNCHANGED <<err, ret>>
  /\ UNCHANGED <<request, i, heap, ybuf, out_blobs, starved>>

Alloc ==
  /\ pc = "alloc"
  /\ heap' \in SUBSET {"material", "ys", "xs"}
  /\ \/ heap' = {"material", "ys", "xs"} /\ pc' = "alloc_ys"
        /\ UNCHANGED <<err, ret, starved>>
     \/ heap' # {"material", "ys", "xs"} /\ Starve("no_memory")
  /\ UNCHANGED <<request, set_id, i, ybuf, out_blobs>>

(* malloc of ys[i]; past the last one, shamir_split and back to i = 0.      *)
AllocY ==
  /\ pc = "alloc_ys" /\ i < request.n
  /\ \/ Starve("no_memory") /\ UNCHANGED <<i, ybuf>>
     \/ ybuf' = ybuf \cup {i} /\ i' = i + 1 /\ UNCHANGED <<pc, err, ret, starved>>
  /\ UNCHANGED <<request, set_id, heap, out_blobs>>

(* shamir_split repeats the parameter checks (shamir.c); AllocY cannot have *)
(* got here with others.                                                    *)
ShamirSplit ==
  /\ pc = "alloc_ys" /\ i = request.n
  /\ IF ThresholdValid /\ request.len + VERIFY_TAG_LEN > 0
     THEN pc' = "emit" /\ i' = 0 /\ UNCHANGED <<err, ret>>
     ELSE Fail("shamir") /\ UNCHANGED i
  /\ UNCHANGED <<request, set_id, heap, ybuf, out_blobs, starved>>

---------------------------------------------------------------------------
(* One turn of the emit loop: room for blob i, then its contents.           *)

EmitAlloc ==
  /\ pc = "emit" /\ i < request.n
  /\ \/ Starve("no_memory") /\ UNCHANGED heap
     \/ /\ heap' = heap \cup {"blob"}
        /\ pc' = "fill" /\ UNCHANGED <<err, ret, starved>>
  /\ UNCHANGED <<request, set_id, i, ybuf, out_blobs>>

(* xs[i] is i + 1, ys[i] the family's value there (shamir_split).           *)
family == [set_id |-> set_id, secret |-> request.secret, k |-> request.k,
           len |-> request.len]

(* Mutant: x-coordinates from 0.                                            *)
shareFromZero == MakeShare(family, request.text, request.n, i, request.phrase,
                           kdf_params_for_level[request.level])

share == MakeShare(family, request.text, request.n, i + 1, request.phrase,
                   kdf_params_for_level[request.level])

Fill ==
  /\ pc = "fill"
  /\ out_blobs' = [out_blobs EXCEPT ![i] = share]
  /\ heap' = heap \ {"blob"}              (* the array owns it now *)
  /\ i' = i + 1 /\ pc' = "emit"
  /\ UNCHANGED <<request, set_id, ybuf, err, ret, starved>>

(* Mutant: the blob under construction is forgotten.                        *)
HybridBuildFailsLeak ==
  /\ pc = "fill" /\ request.phrase # NoPhrase
  /\ Starve("hybrid")
  /\ UNCHANGED <<request, set_id, i, heap, ybuf, out_blobs>>

HybridBuildFails ==
  /\ pc = "fill" /\ request.phrase # NoPhrase
  /\ heap' = heap \ {"blob"}
  /\ Starve("hybrid")
  /\ UNCHANGED <<request, set_id, i, ybuf, out_blobs>>

EmitDone ==
  /\ pc = "emit" /\ i = request.n
  /\ pc' = "cleanup" /\ ret' = 0
  /\ UNCHANGED <<request, set_id, i, heap, ybuf, out_blobs, err, starved>>

(* Mutant: the shares made before the failure stay.                         *)
CleanupKeepsBlobs ==
  /\ pc = "cleanup"
  /\ heap' = heap \ {"material", "ys", "xs"}
  /\ ybuf' = IF "ys" \in heap THEN ybuf \ Index ELSE ybuf
  /\ pc' = "returned"
  /\ UNCHANGED <<request, set_id, i, out_blobs, err, ret, starved>>

(* On failure the blobs already produced go too.                            *)
Cleanup ==
  /\ pc = "cleanup"
  /\ heap' = heap \ {"material", "ys", "xs"}
  /\ ybuf' = IF "ys" \in heap THEN ybuf \ Index ELSE ybuf
  /\ out_blobs' = IF ret # 0 THEN [j \in Index |-> NULL] ELSE out_blobs
  /\ pc' = "returned"
  /\ UNCHANGED <<request, set_id, i, err, ret, starved>>

(* The caller has written the shares to files and frees them.               *)
Release ==
  /\ pc = "returned"
  /\ out_blobs' = [j \in Index |-> NULL]
  /\ pc' = "idle" /\ i' = 0 /\ err' = "none" /\ ret' = 0 /\ starved' = FALSE
  /\ UNCHANGED <<request, set_id, heap, ybuf>>

Next == \/ Call \/ Check \/ Alloc \/ AllocY \/ ShamirSplit \/ EmitAlloc
        \/ Fill \/ HybridBuildFails \/ EmitDone \/ Cleanup \/ Release

Spec == Init /\ [][Next]_vars

---------------------------------------------------------------------------
(* Properties.                                                              *)

(* Every variable keeps its type.                                           *)
TypeOK ==
  /\ pc \in {"idle", "check", "alloc", "alloc_ys", "emit", "fill", "cleanup",
             "returned"}
  /\ request \in Requests /\ set_id \in SetId /\ i \in 0..request.n
  /\ heap \subseteq {"material", "ys", "xs", "blob"} /\ ybuf \subseteq Index
  /\ out_blobs \in [Index -> Blob \cup {NULL}]
  /\ err \in {"none", "empty", "too_large", "bad_threshold", "no_memory",
              "shamir", "hybrid"}
  /\ ret \in {0, -1} /\ starved \in BOOLEAN

(* Wherever the call failed, in whichever share and whichever loop, it has  *)
(* freed its working buffers, every ys[i] and the blob it was filling.      *)
SplitCleanExit ==
  pc \in {"idle", "returned"} =>
    heap = {} /\ ybuf = {} /\ (ret = -1 <=> err # "none")

(* What a split writes, a combine reads: every share parses and opens under *)
(* the same passphrase, and any k of them, in any order, interpolate to the *)
(* material that was split.  At every strength the split offers, and at     *)
(* the smallest and largest secret and index.                               *)
RoundTrip ==
  pc = "returned" /\ ret = 0 =>
    /\ \A j \in Index : /\ pqshard_inspect(out_blobs[j])
                        /\ recover_material(out_blobs[j], request.phrase) = "none"
    /\ \A pick \in [0..(request.k - 1) -> Index] :
         LET xs == [m \in DOMAIN pick |-> out_blobs[pick[m]].hdr.x]
             ys == [m \in DOMAIN pick |-> out_blobs[pick[m]].y]
         IN  (\A l, m \in DOMAIN pick : l # m => pick[l] # pick[m]) =>
               /\ ShamirAccepts(xs, request.k)
               /\ shamir_combine(xs, ys, request.k) = family

(* What the caller finds in its array on return.                            *)
Answer == IF pc = "returned" /\ \E j \in Index : out_blobs[j] # NULL
          THEN out_blobs ELSE NULL

Contract == INSTANCE AtomicSplit WITH
  state  <- CASE pc = "idle" -> "idle"
              [] pc = "returned" -> "answered"
              [] OTHER -> "asked",
  answer <- Answer

(* All n shares of one split in index order, or an array as empty as the    *)
(* caller gave it; the requests that are refused with memory to spare are   *)
(* exactly the invalid ones.                                                *)
ImplementsAtomicSplit == Contract!ASpec

================================================================================
