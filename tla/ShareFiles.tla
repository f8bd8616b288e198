------------------------------ MODULE ShareFiles ------------------------------
(***************************************************************************)
(* How a split puts its n shares on disk (write_shares in gui.c, the last  *)
(* part of cmd_split in cli.c): for each share fopen "wb", fwrite, fclose, *)
(* over whatever has that name.  A writer is one split that has its blobs: *)
(* a CLI process, or a worker of the GUI.  The writers here share folder,  *)
(* prefix and n, hence the file names, with a complete set already there.  *)
(*                                                                         *)
(* A file is a row of blocks, each written by one writer.  fwrite writes   *)
(* all but the last block of a share and leaves that one to stdio's        *)
(* buffer; a share smaller than the buffer is a single block.              *)
(***************************************************************************)
EXTENDS Integers, FiniteSets

CONSTANTS
  Writer,     (* the splits that write                                      *)
  Old,        (* the split whose shares are there                           *)
  n,          (* shares of each of them                                     *)
  threshold,  (* its k                                                      *)
  size,       (* the blocks of one of its shares                            *)
  MaxBlocks,  (* bound on them                                              *)
  Absent      (* a block that is not there: past the end, or a hole         *)

Set   == Writer \cup {Old}
Index == 1..n
Block == 1..MaxBlocks

ASSUME ShareFilesAssumption ==
  /\ Old \notin Writer /\ Absent \notin Set
  /\ n \in Nat \ {0} /\ MaxBlocks \in Nat /\ threshold \in [Set -> Index]
  /\ size \in [Set -> Block]

VARIABLES
  file,       (* the blocks of each share file                              *)
  pc,         (* of each writer                                             *)
  i,          (* the share it is at                                         *)
  lost        (* auxiliary: the <<w, x>> whose last block fclose could not  *)
              (* write                                                      *)

files_vars == <<file, pc, i, lost>>

Blocks(s) == [b \in Block |-> IF b <= size[s] THEN s ELSE Absent]

FilesInit ==
  /\ file = [x \in Index |-> Blocks(Old)]
  /\ pc = [w \in Writer |-> "open"] /\ i = [w \in Writer |-> 1]
  /\ lost = {}

Goto(w, label) == pc' = [pc EXCEPT ![w] = label]

Put(w, blocks) ==
  file' = [file EXCEPT ![i[w]] =
             [b \in Block |-> IF b \in blocks THEN w ELSE file[i[w]][b]]]

(* The path is too long, or fopen fails: the split has failed.              *)
OpenFails(w) ==
  /\ pc[w] = "open"
  /\ Goto(w, "failed")
  /\ UNCHANGED <<file, i, lost>>

(* Mutant: every file of the set is opened, and so truncated, first.        *)
OpenAll(w) ==
  /\ pc[w] = "open"
  /\ file' = [x \in Index |-> IF x < i[w] THEN file[x] ELSE [b \in Block |-> Absent]]
  /\ Goto(w, "write")
  /\ UNCHANGED <<i, lost>>

Open(w) ==
  /\ pc[w] = "open"
  /\ file' = [file EXCEPT ![i[w]] = [b \in Block |-> Absent]]
  /\ Goto(w, "write")
  /\ UNCHANGED <<i, lost>>

(* Mutant: the loop runs on after a failed write.                           *)
WriteGoesOn(w) ==
  /\ pc[w] = "write"
  /\ \E m \in 0..(size[w] - 1) : Put(w, 1..m)
  /\ Goto(w, "close")
  /\ UNCHANGED <<i, lost>>

(* A write that comes short ends the split, file i half written.            *)
Write(w) ==
  /\ pc[w] = "write"
  /\ \E m \in 0..(size[w] - 1) :
       /\ Put(w, 1..m)
       /\ Goto(w, IF m = size[w] - 1 THEN "close" ELSE "failed")
  /\ UNCHANGED <<i, lost>>

(* fclose writes the last block; nobody looks whether it could.             *)
Close(w) ==
  /\ pc[w] = "close"
  /\ \/ Put(w, {size[w]}) /\ UNCHANGED lost
     \/ lost' = lost \cup {<<w, i[w]>>} /\ UNCHANGED file
  /\ i' = [i EXCEPT ![w] = @ + 1]
  /\ Goto(w, IF i[w] = n THEN "done" ELSE "open")

(* The process is killed, and what stdio held is gone.                      *)
Stop(w) ==
  /\ pc[w] \in {"open", "write", "close"}
  /\ Goto(w, "stopped")
  /\ UNCHANGED <<file, i, lost>>

FilesNext == \E w \in Writer :
  OpenFails(w) \/ Open(w) \/ Write(w) \/ Close(w) \/ Stop(w)

FilesSpec == FilesInit /\ [][FilesNext]_files_vars

---------------------------------------------------------------------------
(* Properties.                                                              *)

(* Every variable keeps its type.                                           *)
FilesTypeOK ==
  /\ file \in [Index -> [Block -> Set \cup {Absent}]]
  /\ pc \in [Writer -> {"open", "write", "close", "done", "failed", "stopped"}]
  /\ i \in [Writer -> 1..(n + 1)]
  /\ lost \subseteq Writer \X Index

Whole(s, x)    == file[x] = Blocks(s)
Recoverable(s) == Cardinality({x \in Index : Whole(s, x)}) >= threshold[s]

(* One writer over a complete set: when n covers both thresholds, a stop or *)
(* a failure at any point, in the middle of a file too, leaves enough whole *)
(* files of the old set or of the new.  Each file lost in fclose costs one. *)
OneSetSurvives ==
  \A w \in Writer :
    threshold[Old] + threshold[w] + Cardinality(lost) <= n
      => Recoverable(Old) \/ Recoverable(w)

(* One writer: a split that reports success has written all its shares, but *)
(* for those lost in fclose; none of the set before is left to be mixed in. *)
SuccessIsWhole ==
  \A w \in Writer : pc[w] = "done" =>
    \A x \in Index : Whole(w, x) \/ <<w, x>> \in lost

================================================================================
