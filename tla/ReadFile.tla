-------------------------------- MODULE ReadFile --------------------------------
(***************************************************************************)
(* How the two programs read a share or secret file into memory: cli.c     *)
(* doubles a buffer until the end of the stream (read_all), gui.c asks for *)
(* the size first (read_file).  Reads may fail, and so may allocations.    *)
(***************************************************************************)
EXTENDS ShareFormat

CONSTANT
  Sizes       (* lengths of files                                           *)

ASSUME SizesAssumption == Sizes \subseteq Nat

VARIABLES
  step, tool,
  length,     (* bytes in the file                                          *)
  cap, len,   (* bytes allocated, and read so far                           *)
  rc,
  broken      (* auxiliary: an allocation or a read failed                  *)

read_vars == <<step, tool, length, cap, len, rc, broken>>

ReadInit ==
  /\ step = "idle" /\ tool \in {"cli", "gui"} /\ length \in Sizes
  /\ cap = 0 /\ len = 0 /\ rc = 0 /\ broken = FALSE

Return(r) == step' = "returned" /\ rc' = r

Break == Return(-1) /\ broken' = TRUE

(* fopen, malloc, fread, realloc, fseek and ftell: any of them.             *)
Fails ==
  /\ \/ step \in {"idle", "read"}
     \/ step = "grow" /\ cap <= PQSHARD_MAX_SECRET
  /\ Break
  /\ UNCHANGED <<tool, length, cap, len>>

---------------------------------------------------------------------------
(* cli.c                                                                    *)

cli_open ==
  /\ step = "idle" /\ tool = "cli"
  /\ cap' = 65536
  /\ step' = "read"
  /\ UNCHANGED <<tool, length, len, rc, broken>>

(* Mutant: >= where the code has > against PQSHARD_MAX_SECRET.              *)
read_all_growBelowMax ==
  /\ step = "grow"
  /\ \/ cap >= PQSHARD_MAX_SECRET /\ Return(-2) /\ UNCHANGED cap
     \/ /\ cap < PQSHARD_MAX_SECRET
        /\ cap' = 2 * cap
        /\ step' = "read" /\ UNCHANGED rc
  /\ UNCHANGED <<tool, length, len, broken>>

read_all_grow ==
  /\ step = "grow"
  /\ \/ cap > PQSHARD_MAX_SECRET /\ Return(-2) /\ UNCHANGED cap
     \/ /\ cap <= PQSHARD_MAX_SECRET
        /\ cap' = 2 * cap
        /\ step' = "read" /\ UNCHANGED rc
  /\ UNCHANGED <<tool, length, len, broken>>

(* Mutants: a full buffer is taken for the end; a chunk's size for the room.*)
read_all_freadFullIsEnd ==
  /\ step = "read" /\ tool = "cli"
  /\ len' = IF length < cap THEN length ELSE cap
  /\ Return(0)
  /\ UNCHANGED <<tool, length, cap, broken>>

read_all_freadWholeCap ==
  /\ step = "read" /\ tool = "cli"
  /\ LET r == IF length - len < cap THEN length - len ELSE cap IN
     \/ r > 0 /\ len' = len + r
        /\ step' = (IF len' = cap THEN "grow" ELSE "read") /\ UNCHANGED rc
     \/ r = 0 /\ Return(0) /\ UNCHANGED len
  /\ UNCHANGED <<tool, length, cap, broken>>

(* fread fills the room there is or reaches the end; nothing more is the end. *)
read_all_fread ==
  /\ step = "read" /\ tool = "cli"
  /\ LET r == IF length < cap THEN length - len ELSE cap - len IN
     \/ r > 0 /\ len' = len + r
        /\ step' = (IF len' = cap THEN "grow" ELSE "read") /\ UNCHANGED rc
     \/ r = 0 /\ Return(0) /\ UNCHANGED len
  /\ UNCHANGED <<tool, length, cap, broken>>

---------------------------------------------------------------------------
(* gui.c                                                                    *)

gui_measure ==
  /\ step = "idle" /\ tool = "gui"
  /\ \/ length > PQSHARD_MAX_SECRET + 4096 /\ Return(-1) /\ UNCHANGED cap
     \/ /\ length <= PQSHARD_MAX_SECRET + 4096
        /\ cap' = IF length = 0 THEN 1 ELSE length
        /\ step' = "read" /\ UNCHANGED rc
  /\ UNCHANGED <<tool, length, len, broken>>

gui_fread ==
  /\ step = "read" /\ tool = "gui"
  /\ len' = length
  /\ Return(0)
  /\ UNCHANGED <<tool, length, cap, broken>>

ReadNext == \/ Fails
        \/ cli_open \/ read_all_grow \/ read_all_fread
        \/ gui_measure \/ gui_fread

ReadSpec == ReadInit /\ [][ReadNext]_read_vars

---------------------------------------------------------------------------
(* Properties.                                                              *)

(* Every variable keeps its type, and a read stays within its buffer.       *)
ReadTypeOK ==
  /\ step \in {"idle", "read", "grow", "returned"} /\ tool \in {"cli", "gui"}
  /\ length \in Sizes /\ cap \in 0..(2 * PQSHARD_MAX_SECRET)
  /\ len \in 0..cap
  /\ rc \in {0, -1, -2} /\ broken \in BOOLEAN

(* A read that succeeds has the whole file, also when the file ends where   *)
(* the buffer does: a share one byte short would be called corrupt, a       *)
(* secret would be split one byte short.                                    *)
ReadIsWhole == step = "returned" /\ rc = 0 => len = length

LongestShare == BlobLen(TRUE, PQSHARD_MAX_SECRET + VERIFY_TAG_LEN)

(* A limit never stands between a tool and a share that a split can write.  *)
ReadsEveryShare(t) ==
  step = "returned" /\ tool = t /\ rc # 0 /\ ~broken => length > LongestShare

(* The CLI's limit, twice PQSHARD_MAX_SECRET by way of the doubling, leaves *)
(* room for the header and seal of the largest secret.                      *)
CliReadsEveryShare == ReadsEveryShare("cli")

(* "any file (binary-safe), up to 64 MiB", "over one shared, GTK-free       *)
(* crypto core" (README.md): the GUI reads back what either tool writes.    *)
GuiReadsEveryShare == ReadsEveryShare("gui")

================================================================================
