-------------------------------- MODULE GfInit --------------------------------
(***************************************************************************)
(* gf_init of shamir.c called by several threads: two windows of the GUI   *)
(* have each a worker in shamir_split or shamir_combine.  gf_ready and the *)
(* tables are plain variables, with no lock or fence around them, so a     *)
(* store made by one thread is seen by the others some time later and in   *)
(* any order.  What is stored in an entry never differs.                   *)
(***************************************************************************)
EXTENDS Integers

CONSTANTS
  Thread,
  Entries     (* entries of gf_exp and gf_log, in the order they are stored *)

VARIABLES
  stored,     (* the entries set for everybody                              *)
  flag,       (* gf_ready, as everybody sees it                             *)
  buffer,     (* the stores of a thread that only itself sees so far; ready *)
              (* is that of gf_ready                                        *)
  pc,
  turn,       (* the entries its build has stored                           *)
  misread     (* auxiliary: a thread has read an entry that was not set     *)

race_vars == <<stored, flag, buffer, pc, turn, misread>>

Entry == 1..Entries
ready == 0

Visible(t) == stored \cup buffer[t]

RaceInit ==
  /\ stored = {} /\ flag = FALSE /\ buffer = [t \in Thread |-> {}]
  /\ pc = [t \in Thread |-> "idle"] /\ turn = [t \in Thread |-> 0]
  /\ misread = FALSE

Goto(t, label) == pc' = [pc EXCEPT ![t] = label]

Call(t) ==
  /\ pc[t] = "idle"
  /\ Goto(t, IF flag \/ ready \in buffer[t] THEN "use" ELSE "build")
  /\ turn' = [turn EXCEPT ![t] = 0]
  /\ UNCHANGED <<stored, flag, buffer, misread>>

Build(t) ==
  /\ pc[t] = "build" /\ turn[t] < Entries
  /\ turn' = [turn EXCEPT ![t] = @ + 1]
  /\ buffer' = [buffer EXCEPT ![t] = @ \cup {turn[t] + 1}]
  /\ UNCHANGED <<stored, flag, pc, misread>>

Ready(t) ==
  /\ pc[t] = "build" /\ turn[t] = Entries
  /\ buffer' = [buffer EXCEPT ![t] = @ \cup {ready}]
  /\ Goto(t, "use")
  /\ UNCHANGED <<stored, flag, turn, misread>>

(* gf_mul and gf_div read the tables.                                       *)
Use(t) ==
  /\ pc[t] = "use"
  /\ \E e \in Entry : misread' = (misread \/ e \notin Visible(t))
  /\ UNCHANGED <<stored, flag, buffer, pc, turn>>

Return(t) ==
  /\ pc[t] = "use"
  /\ Goto(t, "idle")
  /\ UNCHANGED <<stored, flag, buffer, turn, misread>>

(* A store of t reaches everybody, before or after the others.              *)
Drain(t) ==
  /\ \E s \in buffer[t] :
       /\ buffer' = [buffer EXCEPT ![t] = @ \ {s}]
       /\ stored' = IF s = ready THEN stored ELSE stored \cup {s}
       /\ flag' = (flag \/ s = ready)
  /\ UNCHANGED <<pc, turn, misread>>

RaceNext == \E t \in Thread :
  Call(t) \/ Build(t) \/ Ready(t) \/ Use(t) \/ Return(t) \/ Drain(t)

RaceSpec == RaceInit /\ [][RaceNext]_race_vars

---------------------------------------------------------------------------
(* Properties.                                                              *)

(* Every variable keeps its type.                                           *)
RaceTypeOK ==
  /\ stored \subseteq Entry /\ flag \in BOOLEAN
  /\ buffer \in [Thread -> SUBSET (Entry \cup {ready})]
  /\ pc \in [Thread -> {"idle", "build", "use"}]
  /\ turn \in [Thread -> 0..Entries]
  /\ misread \in BOOLEAN

(* "Multiplication goes through log/antilog tables built once at first use":*)
(* whoever multiplies, with others at the build or ahead of it, reads       *)
(* entries that are set (gf_mul, gf_div behind gf_init).                    *)
TablesAreBuilt == ~misread

(* How far the race goes: an entry that is not set is read only while       *)
(* stores of another thread are on their way.  So a single thread always    *)
(* finds the tables built (the command line), and so does everyone once the *)
(* first builds are seen by all.                                            *)
MisreadsOnlyInARace ==
  [][misread' => \/ misread
                 \/ \E t, u \in Thread : t # u /\ pc[t] = "use" /\ buffer[u] # {}
    ]_race_vars

================================================================================
