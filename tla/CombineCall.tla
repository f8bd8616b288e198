------------------------------ MODULE CombineCall ------------------------------
(***************************************************************************)
(* One caller of pqshard_combine (share.c): it hands over a list of share  *)
(* blobs and a passphrase, the call runs to its return, and the caller     *)
(* gives a recovered secret back with pqshard_free_secret before the next  *)
(* call.  Every allocation of the call may fail, and so may Argon2, which  *)
(* asks for up to 4 GiB.                                                   *)
(*                                                                         *)
(* The blobs are whatever files the user names: good shares, shares of     *)
(* other splits, the same file twice, damaged files.                       *)
(***************************************************************************)
EXTENDS ShareFormat

CONSTANTS
  Pools,      (* sets of blobs, those a caller may pass together            *)
  MaxBlobs    (* bound on the length of the list passed                     *)

ASSUME BlobsAssumption == Pools \subseteq SUBSET Blob /\ MaxBlobs \in Nat

Blobs == UNION Pools

VARIABLES
  pc,         (* where the call is                                          *)
  nblobs,     (* argument: the number of blobs                              *)
  blobs,      (* argument: the blobs, from index 0                          *)
  passphrase, (* argument                                                   *)
  got,        (* shares recovered so far; the loop index i runs with it     *)
  xs, ys,     (* their x-coordinates and y-material                         *)
  material,   (* the interpolated bytes                                     *)
  heap,       (* the buffers malloc'd and not yet freed, but for ys[i]      *)
  ybuf,       (* the i with a malloc'd ys[i]                                *)
  err,        (* why the call failed                                        *)
  ret,        (* its return code                                            *)
  out,        (* *out_secret and *out_is_text                               *)
  starved     (* auxiliary: the system denied this call memory              *)

args == <<nblobs, blobs, passphrase>>
vars == <<pc, args, got, xs, ys, material, heap, ybuf, err, ret, out, starved>>

Error == {"need_two", "not_a_share", "too_few", "no_memory", "set_mismatch",
          "duplicate", "integrity", "needs_passphrase", "unsafe_kdf",
          "wrong_passphrase", "shamir", "verification"}

NoSecret == [secret |-> Junk, text |-> FALSE]
first    == blobs[0].hdr
Empty    == [i \in {} |-> Junk]

Init ==
  /\ pc = "idle"
  /\ nblobs = 0 /\ blobs = Empty /\ passphrase = NoPhrase
  /\ got = 0 /\ xs = Empty /\ ys = Empty /\ material = Junk
  /\ heap = {} /\ ybuf = {}
  /\ err = "none" /\ ret = 0 /\ out = NoSecret /\ starved = FALSE

---------------------------------------------------------------------------
(* The early returns, before anything is allocated, and `goto cleanup`.     *)

Return(e) == pc' = "returned" /\ err' = e /\ ret' = -1
Fail(e)   == pc' = "cleanup"  /\ err' = e /\ ret' = -1

Starve == starved' = TRUE /\ Fail("no_memory")

---------------------------------------------------------------------------

Call ==
  /\ pc = "idle"
  /\ \E m \in 0..MaxBlobs, p \in Phrase \cup {NoPhrase}, pool \in Pools :
       /\ nblobs' = m /\ passphrase' = p
       /\ blobs' \in [0..(m - 1) -> pool]
  /\ pc' = "check"
  /\ UNCHANGED <<got, xs, ys, material, heap, ybuf, err, ret, out, starved>>

CheckFirst ==
  /\ pc = "check"
  /\ \/ nblobs < PQSHARD_MIN_K /\ Return("need_two")
     \/ /\ nblobs >= PQSHARD_MIN_K
        /\ ~pqshard_inspect(blobs[0])
        /\ Return("not_a_share")
     \/ /\ nblobs >= PQSHARD_MIN_K
        /\ pqshard_inspect(blobs[0])
        /\ nblobs < first.k
        /\ Return("too_few")
     \/ /\ nblobs >= PQSHARD_MIN_K
        /\ pqshard_inspect(blobs[0])
        /\ nblobs >= first.k
        /\ pc' = "alloc" /\ UNCHANGED <<err, ret>>
  /\ UNCHANGED <<args, got, xs, ys, material, heap, ybuf, out, starved>>

(* Three allocations, looked at together: any of them may have failed.      *)
Alloc ==
  /\ pc = "alloc"
  /\ heap' \in SUBSET {"ys", "xs", "material"}
  /\ \/ /\ heap' = {"ys", "xs", "material"}
        /\ pc' = "load" /\ UNCHANGED <<err, ret, starved>>
     \/ heap' # {"ys", "xs", "material"} /\ Starve
  /\ UNCHANGED <<args, got, xs, ys, material, ybuf, out>>

---------------------------------------------------------------------------
(* One turn of the loop: check share i, make room for it, recover it.       *)

(* Mutant: the share counts are compared too, before the checksum is.       *)
SetMatchesCount(h) ==
  /\ h.set_id = first.set_id /\ h.k = first.k /\ h.n = first.n
  /\ h.secret_len = first.secret_len

SetMatches(h) ==
  h.set_id = first.set_id /\ h.k = first.k /\ h.secret_len = first.secret_len

(* Mutant: only the share before is looked at.                              *)
SeenJustBefore(x) == got > 0 /\ xs[got - 1] = x

Seen(x) == \E j \in 0..(got - 1) : xs[j] = x

LoadRejected(e) == /\ Fail(e)
                   /\ UNCHANGED <<ybuf, starved>>

Load ==
  /\ pc = "load" /\ got < nblobs
  /\ LET b == blobs[got] IN
     \/ ~pqshard_inspect(b) /\ LoadRejected("not_a_share")
     \/ /\ pqshard_inspect(b)
        /\ ~SetMatches(b.hdr)
        /\ LoadRejected("set_mismatch")
     \/ /\ pqshard_inspect(b) /\ SetMatches(b.hdr)
        /\ Seen(b.hdr.x)
        /\ LoadRejected("duplicate")
     \/ /\ pqshard_inspect(b) /\ SetMatches(b.hdr) /\ ~Seen(b.hdr.x)
        /\ \/ ybuf' = ybuf /\ Starve
           \/ /\ ybuf' = ybuf \cup {got}
              /\ pc' = "recover" /\ UNCHANGED <<err, ret, starved>>
  /\ UNCHANGED <<args, got, xs, ys, material, heap, out>>

(* Mutant: the arrays have room for the shares so far only.                 *)
AppendNoRoom(f, v) == [f EXCEPT ![got] = v]

Append0(f, v) == [j \in 0..got |-> IF j = got THEN v ELSE f[j]]

Recover ==
  /\ pc = "recover"
  /\ LET b == blobs[got]
         r == recover_material(b, passphrase)
     IN  \/ /\ r = "none"
            /\ ys' = Append0(ys, b.y) /\ xs' = Append0(xs, b.hdr.x)
            /\ got' = got + 1
            /\ pc' = "load" /\ UNCHANGED <<err, ret>>
         \/ /\ r # "none"
            /\ Fail(r) /\ UNCHANGED <<got, xs, ys>>
  /\ UNCHANGED <<args, material, heap, ybuf, out, starved>>

(* derive_key returns -1: Argon2 did not get the memory the share asks for. *)
(* recover_material reports that like a failed unwrap.                      *)
KdfStarves ==
  /\ pc = "recover"
  /\ blobs[got].hdr.sealed /\ passphrase # NoPhrase
  /\ KdfAccepted(blobs[got].kdf)
  /\ Fail("wrong_passphrase") /\ starved' = TRUE
  /\ UNCHANGED <<args, got, xs, ys, material, heap, ybuf, out>>

---------------------------------------------------------------------------

(* ShamirPrecondition below: the ELSE is never taken.                       *)
Interpolate ==
  /\ pc = "load" /\ got = nblobs
  /\ IF ShamirAccepts(xs, first.k)
     THEN /\ material' = shamir_combine(xs, ys, first.k)
          /\ pc' = "verify" /\ UNCHANGED <<err, ret>>
     ELSE Fail("shamir") /\ UNCHANGED material
  /\ UNCHANGED <<args, got, xs, ys, heap, ybuf, out, starved>>

(* Mutant: the tag is computed over the secret alone.                       *)
TagMatchesSecret == material # Junk

(* The tag inside the material is that of this set_id and this secret.      *)
TagMatches == /\ material # Junk
              /\ material.set_id = first.set_id
              /\ material.len = first.secret_len

VerifyTag ==
  /\ pc = "verify"
  /\ \/ TagMatches /\ pc' = "copy" /\ UNCHANGED <<err, ret>>
     \/ ~TagMatches /\ Fail("verification")
  /\ UNCHANGED <<args, got, xs, ys, material, heap, ybuf, out, starved>>

Copy ==
  /\ pc = "copy"
  /\ \/ Starve /\ UNCHANGED <<heap, out>>
     \/ /\ heap' = heap \cup {"secret"}
        /\ out' = [secret |-> material.secret, text |-> first.text]
        /\ pc' = "cleanup" /\ ret' = 0 /\ UNCHANGED <<err, starved>>
  /\ UNCHANGED <<args, got, xs, ys, material, ybuf>>

(* Mutant: the cleanup loop runs over the shares recovered, to got.         *)
CleanupToGot ==
  /\ pc = "cleanup"
  /\ heap' = heap \ {"material", "ys", "xs"}
  /\ ybuf' = IF "ys" \in heap THEN ybuf \ (0..(got - 1)) ELSE ybuf
  /\ pc' = "returned"
  /\ UNCHANGED <<args, got, xs, ys, material, err, ret, out, starved>>

(* Every ys[i] below nblobs that is not NULL is freed, if ys itself is not. *)
Cleanup ==
  /\ pc = "cleanup"
  /\ heap' = heap \ {"material", "ys", "xs"}
  /\ ybuf' = IF "ys" \in heap THEN ybuf \ (0..(nblobs - 1)) ELSE ybuf
  /\ pc' = "returned"
  /\ UNCHANGED <<args, got, xs, ys, material, err, ret, out, starved>>

(* The caller is done with the result: pqshard_free_secret.                 *)
Release ==
  /\ pc = "returned"
  /\ heap' = heap \ {"secret"} /\ out' = NoSecret
  /\ pc' = "idle"
  /\ nblobs' = 0 /\ blobs' = Empty /\ passphrase' = NoPhrase
  /\ got' = 0 /\ xs' = Empty /\ ys' = Empty /\ material' = Junk
  /\ err' = "none" /\ ret' = 0 /\ starved' = FALSE
  /\ UNCHANGED ybuf

Next == \/ Call \/ CheckFirst \/ Alloc \/ Load \/ Recover \/ KdfStarves
        \/ Interpolate \/ VerifyTag \/ Copy \/ Cleanup \/ Release

Spec == Init /\ [][Next]_vars

---------------------------------------------------------------------------
(* Properties.                                                              *)

(* Every variable keeps its type; the loop's bookkeeping (got shares have   *)
(* an x, a y and a buffer) is part of it.                                   *)
TypeOK ==
  /\ pc \in {"idle", "check", "alloc", "load", "recover", "verify", "copy",
             "cleanup", "returned"}
  /\ nblobs \in 0..MaxBlobs
  /\ blobs \in [0..(nblobs - 1) -> Blobs]
  /\ passphrase \in Phrase \cup {NoPhrase}
  /\ got \in 0..nblobs
  /\ xs \in [0..(got - 1) -> Byte]
  /\ ys \in [0..(got - 1) -> Point \cup {Junk}]
  /\ material \in Family \cup {Junk}
  /\ heap \subseteq {"ys", "xs", "material", "secret"}
  /\ ybuf \subseteq 0..(nblobs - 1)
  /\ err \in Error \cup {"none"} /\ ret \in {0, -1}
  /\ out \in [secret: Secret \cup {Junk}, text: BOOLEAN]
  /\ starved \in BOOLEAN

(* Whatever files are passed, a call that succeeds returns the secret of a  *)
(* split of that set_id and length, and only on that split's own threshold  *)
(* of shares, whatever threshold the headers state: intact, at pairwise     *)
(* distinct points, each opened by the passphrase if it is sealed (share.h: *)
(* "any K of which reconstruct it"; shamir.h: "any K-1 reveal nothing").    *)
Vouched(secret) ==
  LET f    == blobs[0].y.family
      Used == 0..(f.k - 1)
  IN  /\ secret = f.secret
      /\ f.set_id = first.set_id /\ f.len = first.secret_len
      /\ f.k <= nblobs
      /\ \A i \in Used :
           /\ Intact(blobs[i])
           /\ blobs[i].y = gf_eval(f, blobs[i].hdr.x)
           /\ blobs[i].hdr.sealed => hybrid_open(blobs[i], passphrase)
      /\ \A i, j \in Used : i # j => blobs[i].hdr.x # blobs[j].hdr.x

OnlyTheSecret == pc = "returned" /\ ret = 0 => Vouched(out.secret)

(* Whichever step failed, the call leaves nothing of its own behind: no     *)
(* buffer, no y-material, and a secret in the caller's hands exactly when   *)
(* it returns 0 (share.c's single cleanup block).                           *)
CleanExit ==
  pc \in {"idle", "returned"} =>
    /\ ybuf = {}
    /\ heap = IF pc = "returned" /\ ret = 0 THEN {"secret"} ELSE {}
    /\ ret = -1 <=> err # "none"

(* The loop establishes what shamir_combine needs, so that its -1 is never  *)
(* seen: at least k shares, each with its buffer still allocated, at        *)
(* distinct non-zero points.                                                *)
ShamirPrecondition ==
  /\ pc = "load" /\ got = nblobs =>
       /\ first.k <= got /\ ShamirAccepts(xs, first.k)
       /\ ybuf = 0..(got - 1)
  /\ err # "shamir"

(* The message a failed call leaves is true of what it was given.  The two  *)
(* causes the code itself does not tell apart, a wrong passphrase and       *)
(* Argon2 out of memory, are not told apart here.                           *)
Index == 0..(nblobs - 1)
Diagnosis ==
  [need_two         |-> nblobs < 2,
   not_a_share      |-> \E i \in Index : ~pqshard_inspect(blobs[i]),
   too_few          |-> \E i \in Index : nblobs < blobs[i].hdr.k,
   no_memory        |-> starved,
   set_mismatch     |-> \E i, j \in Index :
                          \/ blobs[i].hdr.set_id # blobs[j].hdr.set_id
                          \/ blobs[i].hdr.k # blobs[j].hdr.k
                          \/ blobs[i].hdr.secret_len # blobs[j].hdr.secret_len,
   duplicate        |-> \E i, j \in Index :
                          i # j /\ blobs[i].hdr.x = blobs[j].hdr.x,
   integrity        |-> \E i \in Index : ~blobs[i].hdr.sealed /\ ~Intact(blobs[i]),
   needs_passphrase |-> passphrase = NoPhrase /\ \E i \in Index : blobs[i].hdr.sealed,
   unsafe_kdf       |-> \E i \in Index : ~KdfAccepted(blobs[i].kdf),
   wrong_passphrase |-> starved \/ \E i \in Index : /\ blobs[i].hdr.sealed
                                                  /\ \/ ~hybrid_open(blobs[i], passphrase)
                                                     \/ ~Intact(blobs[i]),
   verification     |-> \A f \in {blobs[i].y.family : i \in {j \in Index : blobs[j].y # Junk}} :
                          \/ f.set_id # first.set_id
                          \/ f.len # first.secret_len
                          \/ f.k > first.k
                          \/ \E i \in Index : blobs[i].y # gf_eval(f, blobs[i].hdr.x)]

DiagnosisIsTrue ==
  pc = "returned" /\ err # "none" => err \in DOMAIN Diagnosis /\ Diagnosis[err]

---------------------------------------------------------------------------
(* What the source says and the code does not keep.                         *)

(* "catches wrong/foreign shares that nonetheless matched the set metadata, *)
(* or any silent inconsistency": a success vouches for every share passed.  *)
ForeignSharesCaught ==
  pc = "returned" /\ ret = 0 =>
    \A i \in Index : blobs[i].y = gf_eval(blobs[0].y.family, blobs[i].hdr.x)

================================================================================
