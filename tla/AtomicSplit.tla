------------------------------ MODULE AtomicSplit ------------------------------
(***************************************************************************)
(* What a split promises its caller (share.h: "On success out_blobs[i]     *)
(* receives a malloc'd buffer ... for i in [0, n)"): all n shares of one   *)
(* family over the caller's secret, in index order, or nothing.            *)
(***************************************************************************)
EXTENDS ShareFormat

CONSTANT
  NULL        (* the answer that carries no shares                          *)

VARIABLES state, request, starved, answer

avars == <<state, request, starved, answer>>

(* 2 <= threshold <= shares <= 255, and 1 byte to 64 MiB of secret.         *)
Valid(r) == /\ r.len \in 1..PQSHARD_MAX_SECRET
            /\ PQSHARD_MIN_K <= r.k /\ r.k <= r.n /\ r.n <= PQSHARD_MAX_N

SharesFor(r, id) ==
  LET f == [set_id |-> id, secret |-> r.secret, k |-> r.k, len |-> r.len]
  IN  [i \in 0..(r.n - 1) |->
         MakeShare(f, r.text, r.n, i + 1, r.phrase, kdf_params_for_level[r.level])]

AInit == state = "idle" /\ starved = FALSE /\ answer = NULL

Ask == state = "idle" /\ state' = "asked" /\ UNCHANGED <<starved, answer>>

Deny == /\ state = "asked" /\ starved' = TRUE
        /\ UNCHANGED <<state, request, answer>>

Grant == /\ state = "asked" /\ state' = "answered"
         /\ Valid(request) /\ ~starved
         /\ \E id \in SetId : answer' = SharesFor(request, id)
         /\ UNCHANGED <<request, starved>>

Refuse == /\ state = "asked" /\ state' = "answered"
          /\ ~Valid(request) \/ starved
          /\ UNCHANGED <<request, starved, answer>>

Forget == /\ state = "answered" /\ state' = "idle"
          /\ starved' = FALSE /\ answer' = NULL

ANext == Ask \/ Deny \/ Grant \/ Refuse \/ Forget

ASpec == AInit /\ [][ANext]_avars

================================================================================
