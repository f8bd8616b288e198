---------------------------- MODULE CombineGenuine ----------------------------
(***************************************************************************)
(* pqshard_combine, over the calls where every blob is a share some split  *)
(* wrote, or one that was damaged since: nobody computed a fresh checksum  *)
(* or AEAD tag over changed bytes.  There CombineCall implements           *)
(* Reconstruct.                                                            *)
(***************************************************************************)
EXTENDS CombineCall

CONSTANT Refused

(* The blobs that, if they can be opened under some passphrase, are as      *)
(* written.                                                                 *)
Genuine ==
  {b \in Blobs : \A p \in Phrase \cup {NoPhrase} :
     pqshard_inspect(b) /\ recover_material(b, p) = "none"
       => \E s \in Splits : b \in SharesOf(s)}

Promised == pc # "idle" /\ \A i \in DOMAIN blobs : blobs[i] \in Genuine

Contract == INSTANCE Reconstruct WITH
  state   <- CASE ~Promised -> "idle"
               [] Promised /\ pc = "returned" -> "answered"
               [] OTHER -> "asked",
  shares  <- IF Promised THEN blobs ELSE Empty,
  phrase  <- IF Promised THEN passphrase ELSE NoPhrase,
  starved <- Promised /\ starved,
  answer  <- IF Promised /\ pc = "returned" /\ ret = 0 THEN out ELSE Refused

(* The call keeps the promise: any K shares of a split give its secret and  *)
(* its text flag back, in whatever order the files are named and whatever   *)
(* else fails to happen; one damaged, foreign or repeated share anywhere in *)
(* the list, or one share too few, gives a refusal.                         *)
ImplementsContract == Contract!RSpec

================================================================================
