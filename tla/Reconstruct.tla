------------------------------ MODULE Reconstruct ------------------------------
(***************************************************************************)
(* What a combine promises its caller (share.h: "any K of which            *)
(* reconstruct it", "passphrase is required iff the shares are sealed"):   *)
(* shares of one split, no file twice, as many as its threshold or more,   *)
(* in any order, under its passphrase if it has one, give the secret of    *)
(* that split; anything else is refused.  Only want of memory excuses a    *)
(* refusal.  How shares are checked and interpolated is left open.         *)
(***************************************************************************)
EXTENDS ShareFormat

CONSTANT
  Refused     (* the answer that carries no secret                          *)

VARIABLES state, shares, phrase, starved, answer

rvars == <<state, shares, phrase, starved, answer>>

Acceptable(s) ==
  /\ \A i \in DOMAIN shares : shares[i] \in SharesOf(s)
  /\ \A i, j \in DOMAIN shares : i # j => shares[i] # shares[j]
  /\ (s.family.k - 1) \in DOMAIN shares
  /\ s.phrase # NoPhrase => phrase = s.phrase

SecretOf(s) == [secret |-> s.family.secret, text |-> s.text]

RInit ==
  /\ state = "idle" /\ DOMAIN shares = {} /\ phrase = NoPhrase
  /\ starved = FALSE /\ answer = Refused

Ask ==
  /\ state = "idle" /\ state' = "asked"
  /\ phrase' \in Phrase \cup {NoPhrase}
  /\ starved' = FALSE /\ UNCHANGED answer

Deny ==
  /\ state = "asked" /\ starved' = TRUE
  /\ UNCHANGED <<state, shares, phrase, answer>>

Grant ==
  /\ state = "asked" /\ state' = "answered"
  /\ ~starved
  /\ \E s \in Splits : Acceptable(s) /\ answer' = SecretOf(s)
  /\ UNCHANGED <<shares, phrase, starved>>

Refuse ==
  /\ state = "asked" /\ state' = "answered"
  /\ starved \/ \A s \in Splits : ~Acceptable(s)
  /\ answer' = Refused
  /\ UNCHANGED <<shares, phrase, starved>>

Forget ==
  /\ state = "answered" /\ state' = "idle"
  /\ DOMAIN shares' = {} /\ phrase' = NoPhrase
  /\ starved' = FALSE /\ answer' = Refused

RNext == Ask \/ Deny \/ Grant \/ Refuse \/ Forget

RSpec == RInit /\ [][RNext]_rvars

================================================================================
