-------------------------------- MODULE TextEdit --------------------------------
(***************************************************************************)
(* What an entry buffer promises: a text of characters, edited by position,*)
(* and a signal to the entry that says what was edited where.              *)
(***************************************************************************)
EXTENDS Integers, Sequences

CONSTANT Pastes   (* the strings inserted                                   *)

VARIABLES text, signal

Inserted(at, s)    == [kind |-> "inserted", at |-> at, chars |-> s]
Deleted(at, count) == [kind |-> "deleted", at |-> at, count |-> count]

Init == text = <<>> /\ signal = [kind |-> "none"]

Insert ==
  \E at \in 0..Len(text), s \in Pastes :
    /\ signal' = Inserted(at, s)
    /\ text' = SubSeq(text, 1, at) \o s \o SubSeq(text, at + 1, Len(text))

Delete ==
  \E at \in 0..(Len(text) - 1) : \E count \in 1..(Len(text) - at) :
    /\ signal' = Deleted(at, count)
    /\ text' = SubSeq(text, 1, at) \o SubSeq(text, at + count + 1, Len(text))

Clear == text' = <<>> /\ UNCHANGED signal

Spec == Init /\ [][Insert \/ Delete \/ Clear]_<<text, signal>>

================================================================================
