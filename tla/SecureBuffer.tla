------------------------------ MODULE SecureBuffer ------------------------------
(***************************************************************************)
(* secure_buffer.c: the text of a passphrase entry, in UTF-8, in one       *)
(* allocation that is grown, shifted and wiped by hand, with its bytes and *)
(* its characters counted apart.  A byte is <<c, j>>, the j-th of those of *)
(* character c.                                                            *)
(***************************************************************************)
EXTENDS Integers, Sequences, FiniteSets

CONSTANTS
  Char,
  width,      (* the bytes of a character                                   *)
  Pastes,     (* the strings inserted                                       *)
  MaxChars    (* bound on the text                                          *)

NUL   == <<"NUL", 1>>
fresh == <<"fresh", 1>>   (* what sodium_malloc fills an allocation with    *)

ASSUME SecureBufferAssumption ==
  /\ {"NUL", "fresh"} \cap Char = {} /\ width \in [Char -> 1..4]
  /\ Pastes \subseteq Seq(Char) \ {<<>>} /\ MaxChars \in Nat

VARIABLES
  mem,        (* text[0..cap-1]; empty once freed                           *)
  n_bytes, n_chars,
  alive,      (* neither finalized nor aborted                              *)
  signal      (* the last one emitted                                       *)

buffer == <<mem, n_bytes, n_chars, alive>>
vars   == <<buffer, signal>>

cap == Cardinality(DOMAIN mem)

(* The bytes of a string.                                                   *)
Encode(s) ==
  LET bytes[c \in 0..Len(s)] ==
        IF c = 0 THEN <<>>
        ELSE bytes[c - 1] \o [j \in 1..width[s[c]] |-> <<s[c], j>>]
  IN  bytes[Len(s)]

(* g_utf8_offset_to_pointer: from lead byte to lead byte, p times.          *)
Offset(p) ==
  LET skip(b) == IF b[1] \in Char /\ b[2] = 1 THEN width[b[1]] ELSE 1
      off[q \in 0..p] ==
        IF q = 0 THEN 0 ELSE LET at == off[q - 1] IN at + skip(mem[at])
  IN  off[p]

(* Mutant: the terminator's byte is forgotten.                              *)
GrownNoRoom(need) ==
  IF need <= cap + 1 THEN mem
  ELSE [b \in 0..(2 * cap - 1) |-> IF b <= n_bytes THEN mem[b] ELSE fresh]

(* ensure_cap: double until need fits (G_MAXSIZE is out of reach), and copy *)
(* text and NUL.                                                            *)
Grown(need) ==
  LET size[c \in Nat] == IF c >= need THEN c ELSE size[2 * c]
      newcap == size[IF cap = 0 THEN 32 ELSE cap]
  IN  IF need <= cap THEN mem
      ELSE [b \in 0..(newcap - 1) |-> IF cap = 0 THEN IF b = 0 THEN NUL ELSE fresh
                                      ELSE IF b <= n_bytes THEN mem[b] ELSE fresh]

Init ==
  /\ mem = [b \in 0..31 |-> IF b = 0 THEN NUL ELSE fresh]
  /\ n_bytes = 0 /\ n_chars = 0 /\ alive = TRUE
  /\ signal = [kind |-> "none"]

(* Mutant: only the terminator is written.                                  *)
TerminatedOnly(m, len) == [m EXCEPT ![len] = NUL]

(* The terminator, and sodium_memzero of all behind it.                     *)
Terminated(m, len) == [b \in DOMAIN m |-> IF b >= len THEN NUL ELSE m[b]]

(* Mutant: position is taken for a byte offset.                             *)
seb_insert_textByteOffset(position, s) ==
  LET bytes == Encode(s)
      k     == Len(bytes)
      base  == Grown(n_bytes + k + 1)
  IN  /\ mem' = Terminated([b \in DOMAIN base |->
                   IF b \in position..(position + k - 1) THEN bytes[b - position + 1]
                   ELSE IF b \in (position + k)..(n_bytes + k - 1) THEN base[b - k]
                   ELSE base[b]], n_bytes + k)
      /\ n_bytes' = n_bytes + k /\ n_chars' = n_chars + Len(s)
      /\ signal' = [kind |-> "inserted", at |-> position, chars |-> s]
      /\ UNCHANGED alive

seb_insert_text(position, s) ==
  LET bytes == Encode(s)
      k     == Len(bytes)
      at    == Offset(position)
      base  == Grown(n_bytes + k + 1)
  IN  /\ mem' = Terminated([b \in DOMAIN base |->
                   IF b \in at..(at + k - 1) THEN bytes[b - at + 1]
                   ELSE IF b \in (at + k)..(n_bytes + k - 1) THEN base[b - k]
                   ELSE base[b]], n_bytes + k)
      /\ n_bytes' = n_bytes + k /\ n_chars' = n_chars + Len(s)
      /\ signal' = [kind |-> "inserted", at |-> position, chars |-> s]
      /\ UNCHANGED alive

(* Mutant: the clamp forgets the position.                                  *)
ClampedToText(position, n) == IF n > n_chars THEN n_chars ELSE n

Clamped(position, n) == IF position + n > n_chars THEN n_chars - position ELSE n

seb_delete_text(position, n) ==
  LET cut == Clamped(position, n) IN
  /\ cut > 0
  /\ \E start \in {Offset(position)}, end \in {Offset(position + cut)} :
       LET len == n_bytes - (end - start) IN
       /\ mem' = Terminated([b \in DOMAIN mem |->
                   IF b \in start..(len - 1) THEN mem[b + end - start] ELSE mem[b]], len)
       /\ n_bytes' = len /\ n_chars' = n_chars - cut
  /\ signal' = [kind |-> "deleted", at |-> position, count |-> cut]
  /\ UNCHANGED alive

(* GTK brings the position into the text before it calls.                   *)
Insert ==
  /\ alive
  /\ \E position \in 0..n_chars, s \in Pastes :
       n_chars + Len(s) <= MaxChars /\ seb_insert_text(position, s)

Delete ==
  /\ alive
  /\ \E position, n \in 0..n_chars : seb_delete_text(position, n)

(* ensure_cap gets no locked memory: g_error ends the process.              *)
Abort ==
  /\ alive
  /\ \E s \in Pastes : n_chars + Len(s) <= MaxChars /\ n_bytes + Len(Encode(s)) + 1 > cap
  /\ alive' = FALSE
  /\ UNCHANGED <<mem, n_bytes, n_chars, signal>>

secure_entry_buffer_finalize ==
  /\ alive
  /\ mem' = <<>> /\ n_bytes' = 0 /\ n_chars' = 0 /\ alive' = FALSE
  /\ UNCHANGED signal

Next == Insert \/ Delete \/ Abort \/ secure_entry_buffer_finalize

Spec == Init /\ [][Next]_vars

---------------------------------------------------------------------------
(* Properties.                                                              *)

(* Every variable keeps its type, the text and its terminator within the    *)
(* allocation.                                                              *)
TypeOK ==
  /\ cap \in Nat /\ DOMAIN mem = 0..(cap - 1)
  /\ \A b \in DOMAIN mem : mem[b] \in (Char \X (1..4)) \cup {NUL, fresh}
  /\ n_bytes \in Nat /\ (n_bytes < cap \/ ~alive)
  /\ n_chars \in 0..MaxChars /\ alive \in BOOLEAN

Live == IF n_bytes = 0 THEN <<>> ELSE [b \in 1..n_bytes |-> mem[b - 1]]

(* The characters whose first byte is in the live part.                     *)
Decoded ==
  LET read[b \in 0..n_bytes] ==
        IF b = 0 THEN <<>>
        ELSE IF mem[b - 1][2] = 1 THEN Append(read[b - 1], mem[b - 1][1])
        ELSE read[b - 1]
  IN  read[n_bytes]

(* The two counts agree with the bytes and with each other: the live part   *)
(* is n_chars whole characters, none of them split by a growth, an insertion*)
(* or a deletion, and the terminator follows it.                            *)
CountsAgree ==
  /\ Live = Encode(Decoded) /\ n_chars = Len(Decoded)
  /\ cap > 0 => mem[n_bytes] = NUL

(* "stale secret bytes never linger ... between the terminator and the      *)
(* allocation end": nothing the user has deleted, and no byte shifted away, *)
(* is left behind the text.                                                 *)
NothingLingers ==
  \A b \in DOMAIN mem : b > n_bytes => mem[b] \in {NUL, fresh}

Text == INSTANCE TextEdit WITH text <- Decoded

(* "behaviour (UTF-8 positions, etc.) is identical": the buffer is a text   *)
(* edited by character positions, and the signals tell the entry, which     *)
(* moves its cursor by them, what was edited where.                         *)
EditsText == Text!Spec

================================================================================
