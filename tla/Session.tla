------------------------------- MODULE Session ------------------------------
(***************************************************************************)
(* The two front ends at work in one folder: runs of the pqshard command   *)
(* (cli.c) and of the window's Run button (gui.c), one after the other,    *)
(* each from what the user gave it to what it left on disk, on the screen  *)
(* and as its exit status.  pqshard_split and pqshard_combine are what     *)
(* their callers are promised; any call to the C library may fail.         *)
(*                                                                         *)
(* A line of text is a sequence of pieces; a piece in Long is as long as   *)
(* the passphrase buffer holds.  A file holds pieces or share x of a       *)
(* split.  An exit status of the GUI is 0 for a job with rc == 0, and 1    *)
(* for one with an error or a dialog that declined to start it.            *)
(***************************************************************************)
EXTENDS Integers, Sequences, Functions, TLC

CONSTANTS
  Commands,     (* what the user may run, with what the user means by it    *)
  MaxRuns,      (* bound on the runs                                        *)
  OldFiles,     (* the files there are before the first                     *)
  OldSplits,    (* the splits whose shares are among them                   *)
  Dirs,         (* folders there are                                        *)
  TooLong,      (* names no path buffer has room for                        *)
  NoField,      (* those of them no field of a Job has room for             *)
  Binary,       (* pieces that are no UTF-8 text                            *)
  Long,         (* pieces of MAX_PASS - 1 bytes                             *)
  Dashed,       (* arguments of combine that begin with '-' and go on       *)
  MAX_PATHS,    (* places in paths[] (256)                                  *)
  Number(_),    (* atoi                                                     *)
  NULL          (* a pointer that points nowhere                            *)

(* argv and the window's list of files are lists of names.                  *)
ASSUME SessionAssumption ==
  /\ MaxRuns \in Nat /\ MAX_PATHS \in Nat
  /\ \A c \in Commands :
       /\ c.args \in Seq(STRING)
       /\ c.tool = "gui" /\ c.form.op # "split" => c.form.paths \in Seq(STRING)
  /\ \A p \in DOMAIN OldFiles : OldFiles[p].of \in 0..Len(OldSplits)

VARIABLES
  pc,           (* the step about to run                                    *)
  cmd,          (* the run                                                  *)
  rest,         (* arguments not looked at yet                              *)
  opt,          (* what the options say                                     *)
  mem,          (* locals: the secret, the passphrase, blobs read, index    *)
  heap,         (* what is allocated                                        *)
  input,        (* what stdin and the terminal still have to deliver        *)
  files,        (* the files there are                                      *)
  splits,       (* the splits made, by number (the set id)                  *)
  out,          (* exit status, the secret on the screen, shares told of    *)
  env,          (* auxiliary: a call has failed; data was lost in silence   *)
  before,       (* auxiliary: files and splits when the run began           *)
  runs          (* how many there have been                                 *)

vars == <<pc, cmd, rest, opt, mem, heap, input, files, splits, out, env,
          before, runs>>

(* What only parsing, and only computing, leaves alone.                     *)
world == <<heap, input, files, splits, env, before, runs, cmd>>
ghost == <<before, runs, cmd>>

NL == "newline"

Data(bytes)  == [bytes |-> bytes, of |-> 0, x |-> 0]
Share(id, x) == [bytes |-> <<"a share">>, of |-> id, x |-> x]
Cut          == Data(<<"cut short">>)
Text(v)      == IF v = "" THEN << >> ELSE <<v>>

Defaults == [n |-> 5, k |-> 3, seal |-> FALSE, level |-> "medium",
             infile |-> NULL, text |-> NULL, outdir |-> ".",
             prefix |-> "secret", outfile |-> NULL, paths |-> << >>]

NoMem == [secret |-> << >>, is_text |-> FALSE, pass |-> << >>,
          pass1 |-> << >>, i |-> 1, sealed |-> FALSE, blobs |-> << >>]
NoOut == [exit |-> 0, shown |-> << >>, told |-> << >>]

Init ==
  /\ pc = "done" /\ cmd = NULL /\ rest = << >> /\ opt = Defaults
  /\ mem = NoMem /\ heap = {} /\ input = [stdin |-> << >>, tty |-> << >>]
  /\ files = OldFiles /\ splits = OldSplits
  /\ out = NoOut /\ env = [fault |-> FALSE, lost |-> FALSE]
  /\ before = [files |-> files, splits |-> splits] /\ runs = 0

Gui   == cmd.tool = "gui"
Fault == env' = [env EXCEPT !.fault = TRUE]
Goto(label) == pc' = label /\ UNCHANGED out

Exit(status) == pc' = "done" /\ out' = [out EXCEPT !.exit = status]

(* The user starts a program, or presses Run.                               *)
Begin ==
  /\ pc = "done" /\ runs < MaxRuns
  /\ cmd' \in Commands
  /\ pc' = IF cmd'.tool = "gui" THEN "on_run" ELSE "main"
  /\ rest' = cmd'.args /\ input' = [stdin |-> cmd'.stdin, tty |-> cmd'.tty]
  /\ opt' = Defaults /\ mem' = NoMem /\ heap' = {} /\ out' = NoOut
  /\ env' = [fault |-> FALSE, lost |-> FALSE]
  /\ before' = [files |-> files, splits |-> splits]
  /\ runs' = runs + 1
  /\ UNCHANGED <<files, splits>>

---------------------------------------------------------------------------
(* The command line.                                                        *)

(* The command: nothing is done before the library is ready.                *)
Main ==
  /\ pc = "main"
  /\ \/ Exit(1) /\ Fault /\ UNCHANGED rest
     \/ rest = << >> /\ Exit(1) /\ UNCHANGED <<rest, env>>
     \/ /\ rest # << >> /\ UNCHANGED env
        /\ LET a == Head(rest) IN
           \/ a \in {"-h", "--help", "-V", "--version"} /\ Exit(0)
           \/ a \in {"split", "combine", "inspect"} /\ Goto(a)
           \/ /\ a \notin {"-h", "--help", "-V", "--version"}
              /\ a \notin {"split", "combine", "inspect"}
              /\ Exit(1)
        /\ rest' = Tail(rest)
  /\ UNCHANGED <<opt, mem, heap, input, files, splits, ghost>>

ValueOf == "-n" :> "n" @@ "-k" :> "k" @@ "-f" :> "infile" @@ "-t" :> "text"
             @@ "-o" :> "outdir" @@ "-p" :> "prefix" @@ "--kdf" :> "level"

(* An option and the value behind it, if there is one.                      *)
SplitValue(a) ==
  /\ a \in DOMAIN ValueOf /\ Len(rest) > 1
  /\ LET v == rest[2] IN
     IF a = "--kdf" /\ v \notin {"basic", "medium", "strong"}
     THEN Exit(1) /\ UNCHANGED <<opt, rest>>
     ELSE /\ opt' = [opt EXCEPT ![ValueOf[a]] =
                       IF a \in {"-n", "-k"} THEN Number(v)
                       ELSE IF a = "-t" THEN Text(v) ELSE v]
          /\ rest' = Tail(Tail(rest))
          /\ Goto("split")

SplitSeal(a) ==
  /\ a \in {"-s", "--seal"}
  /\ opt' = [opt EXCEPT !.seal = TRUE]
  /\ rest' = Tail(rest) /\ Goto("split")

SplitUnexpected(a) ==
  /\ ~(a \in DOMAIN ValueOf /\ Len(rest) > 1) /\ a \notin {"-s", "--seal"}
  /\ Exit(1) /\ UNCHANGED <<opt, rest>>

cmd_split ==
  /\ pc = "split"
  /\ \/ /\ rest # << >>
        /\ LET a == Head(rest) IN
           SplitValue(a) \/ SplitSeal(a) \/ SplitUnexpected(a)
     \/ /\ rest = << >> /\ UNCHANGED <<opt, rest>>
        /\ IF opt.n < opt.k \/ opt.k < 2 \/ opt.n > 255
           THEN Exit(1) ELSE Goto("gather")
  /\ UNCHANGED <<mem, world>>

CombineOption(a) ==
  \/ /\ a = "-o" /\ Len(rest) > 1
     /\ opt' = [opt EXCEPT !.outfile = rest[2]]
     /\ rest' = Tail(Tail(rest)) /\ Goto("combine")
  \/ /\ a \in {"--seal", "-s"}
     /\ opt' = [opt EXCEPT !.seal = TRUE]
     /\ rest' = Tail(rest) /\ Goto("combine")
  \/ /\ a \in Dashed \ {"--seal", "-s"} /\ ~(a = "-o" /\ Len(rest) > 1)
     /\ Exit(1) /\ UNCHANGED <<opt, rest>>

CombinePath(a) ==
  /\ a \notin Dashed
  /\ IF Len(opt.paths) >= MAX_PATHS
     THEN Exit(1) /\ UNCHANGED <<opt, rest>>
     ELSE /\ opt' = [opt EXCEPT !.paths = Append(@, a)]
          /\ rest' = Tail(rest) /\ Goto("combine")

cmd_combine ==
  /\ pc = "combine"
  /\ \/ /\ rest # << >>
        /\ CombineOption(Head(rest)) \/ CombinePath(Head(rest))
     \/ /\ rest = << >> /\ UNCHANGED <<opt, rest>>
        /\ IF Len(opt.paths) < 2 THEN Exit(1) ELSE Goto("alloc_combine")
  /\ UNCHANGED <<mem, world>>

(* What pqshard_inspect says of a file's bytes.                             *)
IsShare(f)  == f.of # 0
IsSealed(f) == IsShare(f) /\ splits[f.of].pass # << >>

(* inspect goes on behind a file that fails; an empty list is refused.      *)
cmd_inspect ==
  /\ pc = "inspect" /\ mem' = [mem EXCEPT !.i = 2]
  /\ \/ /\ rest = << >>
        /\ pc' = "done"
        /\ out' = [out EXCEPT !.exit = IF mem.i = 1 THEN 1 ELSE @]
        /\ UNCHANGED <<rest, env>>
     \/ /\ rest # << >> /\ rest' = Tail(rest) /\ UNCHANGED pc
        /\ LET f == Head(rest) IN
           \/ /\ f \in DOMAIN files /\ IsShare(files[f])
              /\ out' = [out EXCEPT !.told = Append(@, files[f])]
              /\ UNCHANGED env
           \/ /\ f \in DOMAIN files => ~IsShare(files[f])
              /\ out' = [out EXCEPT !.exit = 1] /\ UNCHANGED env
           \/ /\ out' = [out EXCEPT !.exit = 1] /\ Fault
  /\ UNCHANGED <<opt, heap, input, files, splits, ghost>>

---------------------------------------------------------------------------
(* The window: what is in its fields when Run is pressed.                   *)

FormDeclined(f) ==
  \/ f.seal /\ f.pw = << >>
  \/ \E i \in DOMAIN f.pw : f.pw[i] \in Long /\ Len(f.pw) > 1
  \/ f.op = "split" /\ \/ f.k < 2 \/ f.n < f.k
                       \/ f.outdir \in NoField \cup {""}
                       \/ f.prefix \in NoField
  \/ f.op = "combine" /\ \/ Len(f.paths) < 2
                         \/ f.to_file /\ f.outfile \in NoField \cup {""}

(* The job takes a copy of the fields; a passphrase only if sealing is on,  *)
(* or to combine with.  A split gathers its secret before it starts.        *)
on_run ==
  /\ pc = "on_run"
  /\ LET f == cmd.form IN
     \/ FormDeclined(f) /\ Exit(1) /\ UNCHANGED <<opt, mem>>
     \/ /\ ~FormDeclined(f)
        /\ opt' = IF f.op = "split"
                  THEN [Defaults EXCEPT
                          !.n = f.n, !.k = f.k, !.seal = f.seal,
                          !.level = f.level, !.infile = f.infile,
                          !.text = f.text, !.outdir = f.outdir,
                          !.prefix = IF f.prefix = "" THEN @ ELSE f.prefix]
                  ELSE [Defaults EXCEPT
                          !.paths = f.paths,
                          !.outfile = IF f.to_file THEN f.outfile ELSE NULL]
        /\ mem' = [mem EXCEPT !.pass =
                     IF f.seal \/ f.op = "combine" THEN f.pw ELSE << >>]
        /\ Goto(IF f.op = "split" THEN "gather" ELSE "start")
  /\ UNCHANGED <<rest, heap, input, files, splits, env, ghost>>

(* The thread may not start: job_free frees what the job holds.             *)
start_job ==
  /\ pc = "start"
  /\ \/ /\ UNCHANGED <<heap, env>>
        /\ Goto(IF cmd.form.op = "split" THEN "alloc_split"
                ELSE "alloc_combine")
     \/ Exit(1) /\ Fault /\ heap' = {}
  /\ UNCHANGED <<rest, opt, mem, input, files, splits, ghost>>

---------------------------------------------------------------------------
(* Split.                                                                   *)

DropNewline(s) ==
  IF s # << >> /\ s[Len(s)] = NL THEN SubSeq(s, 1, Len(s) - 1) ELSE s

(* Mutant: the newline stays, for echo as for a file.                       *)
Source_newline_kept ==
  IF opt.text # NULL THEN [bytes |-> opt.text, is_text |-> TRUE]
  ELSE IF opt.infile # NULL
       THEN [bytes |-> files[opt.infile].bytes, is_text |-> FALSE]
  ELSE [bytes |-> input.stdin, is_text |-> TRUE]

(* Where the secret comes from: -t before -f before stdin.                  *)
Source ==
  IF opt.text # NULL THEN [bytes |-> opt.text, is_text |-> TRUE]
  ELSE IF opt.infile # NULL
       THEN [bytes |-> files[opt.infile].bytes, is_text |-> FALSE]
  ELSE [bytes |-> DropNewline(input.stdin), is_text |-> TRUE]

FromFile  == opt.text = NULL /\ opt.infile # NULL
FromStdin == opt.text = NULL /\ opt.infile = NULL

Gather ==
  /\ pc = "gather"
  /\ \/ Exit(1) /\ Fault /\ UNCHANGED <<mem, heap>>
     \/ /\ FromFile /\ opt.infile \notin DOMAIN files
        /\ Exit(1) /\ UNCHANGED <<mem, heap, env>>
     \/ /\ FromFile => opt.infile \in DOMAIN files
        /\ UNCHANGED env
        /\ IF Source.bytes = << >>
           THEN Exit(1) /\ UNCHANGED <<mem, heap>>
           ELSE /\ mem' = [mem EXCEPT !.secret = Source.bytes,
                                      !.is_text = Source.is_text]
                /\ heap' = heap \cup {"secret"}
                /\ Goto(IF Gui THEN "start"
                        ELSE IF opt.seal THEN "ask" ELSE "alloc_split")
  /\ input' = IF FromStdin THEN [input EXCEPT !.stdin = << >>] ELSE input
  /\ UNCHANGED <<rest, opt, files, splits, ghost>>

(* fgets and the newline taken off: a line, or as much of it as fits.       *)
Ends(in) == {i \in DOMAIN in : in[i] = NL \/ in[i] \in Long \/ i = Len(in)}
LineEnd(in) == CHOOSE i \in Ends(in) : \A j \in Ends(in) : i <= j
LineOf(in) == DropNewline(SubSeq(in, 1, LineEnd(in)))

(* /dev/tty is flushed around every read, and a line cut off with it; stdin *)
(* is used where there is no terminal and keeps what did not fit.           *)
Behind(in, i) == SubSeq(in, i + 1, Len(in))
NextLine(in) == CHOOSE i \in DOMAIN in :
                  in[i] = NL /\ \A j \in 1..(i - 1) : in[j] # NL

Terminal == cmd.has_tty
Lines    == IF Terminal THEN input.tty ELSE input.stdin
Taken    == IF Terminal
            THEN [input EXCEPT !.tty = Behind(@, NextLine(@))]
            ELSE [input EXCEPT !.stdin = Behind(@, LineEnd(@))]

(* A prompt that got a line, and one that met the end of the input.         *)
read_passphrase(into) ==
  /\ Lines # << >> /\ input' = Taken
  /\ mem' = [mem EXCEPT ![into] = LineOf(Lines)]

NoLine == Lines = << >> /\ UNCHANGED <<input, mem>>

AskToSeal ==
  /\ pc = "ask"
  /\ \/ read_passphrase("pass") /\ Goto("confirm") /\ UNCHANGED heap
     \/ NoLine /\ Exit(1) /\ heap' = heap \ {"secret"}
  /\ UNCHANGED <<rest, opt, files, splits, env, ghost>>

Confirm ==
  /\ pc = "confirm"
  /\ \/ /\ read_passphrase("pass1")
        /\ IF mem'.pass1 = mem.pass /\ mem.pass # << >>
           THEN Goto("alloc_split") /\ UNCHANGED heap
           ELSE Exit(1) /\ heap' = heap \ {"secret"}
     \/ NoLine /\ Exit(1) /\ heap' = heap \ {"secret"}
  /\ UNCHANGED <<rest, opt, files, splits, env, ghost>>

(* blobs and lens.  Where one of them cannot be had, cli.c frees neither;   *)
(* gui.c frees both.  The secret is freed (by job_free in the GUI).         *)
Alloc(next) ==
  /\ \/ /\ heap' = heap \cup {"blobs", "lens"}
        /\ Goto(next) /\ UNCHANGED env
     \/ /\ Exit(1) /\ Fault
        /\ heap' \in IF Gui THEN {{}} ELSE {{}, {"blobs"}, {"lens"}}
  /\ UNCHANGED <<rest, opt, mem, input, splits, ghost>>

AllocSplit == pc = "alloc_split" /\ Alloc("pqshard_split") /\ UNCHANGED files

(* The call: all the shares of a new split, or none.  cli.c frees the       *)
(* secret right after it.                                                   *)
pqshard_split ==
  /\ pc = "pqshard_split"
  /\ \/ /\ splits' = Append(splits,
              [secret |-> mem.secret, is_text |-> mem.is_text, n |-> opt.n,
               k |-> opt.k, pass |-> IF opt.seal THEN mem.pass ELSE << >>,
               level |-> opt.level])
        /\ heap' = (IF Gui THEN heap ELSE heap \ {"secret"}) \cup {"shares"}
        /\ Goto("write") /\ UNCHANGED env
     \/ /\ Exit(1) /\ Fault
        /\ heap' = {} /\ UNCHANGED splits
  /\ UNCHANGED <<rest, opt, mem, input, files, ghost>>

SharePath(i) == opt.outdir \o "/" \o opt.prefix \o "." \o ToString(i)
                  \o "of" \o ToString(opt.n) \o ".shard"

Put(path, content) ==
  files' = [p \in DOMAIN files \cup {path} |->
              IF p = path THEN content ELSE files[p]]

(* One turn of the loop: no room for the path, no such file, a short write, *)
(* or the share; what fclose could not write nobody hears of.               *)
WriteShare ==
  /\ pc = "write" /\ mem.i <= opt.n
  /\ \/ /\ \/ {opt.outdir, opt.prefix} \cap TooLong # {}
           \/ opt.outdir \notin Dirs
        /\ Exit(1) /\ heap' = {} /\ UNCHANGED <<mem, files, env>>
     \/ /\ {opt.outdir, opt.prefix} \cap TooLong = {} /\ opt.outdir \in Dirs
        /\ LET path == SharePath(mem.i) IN
           \/ /\ Put(path, Share(Len(splits), mem.i))
              /\ mem' = [mem EXCEPT !.i = @ + 1]
              /\ UNCHANGED <<pc, out, heap, env>>
           \/ /\ Put(path, Cut) /\ env' = [env EXCEPT !.lost = TRUE]
              /\ mem' = [mem EXCEPT !.i = @ + 1]
              /\ UNCHANGED <<pc, out, heap>>
           \/ /\ Put(path, Cut) \/ UNCHANGED files
              /\ Exit(1) /\ Fault /\ heap' = {} /\ UNCHANGED mem
  /\ UNCHANGED <<rest, opt, input, splits, ghost>>

SplitDone ==
  /\ pc = "write" /\ mem.i > opt.n
  /\ Exit(0) /\ heap' = {}
  /\ UNCHANGED <<rest, opt, mem, input, files, splits, env, ghost>>

---------------------------------------------------------------------------
(* Combine.                                                                 *)

(* Mutant: the outfile is opened, and so emptied, before there is anything  *)
(* to put in it.                                                            *)
AllocCombine_opens_outfile ==
  /\ pc = "alloc_combine" /\ Alloc("read")
  /\ files' = IF opt.outfile = NULL THEN files
              ELSE (opt.outfile :> Data(<< >>)) @@ files

AllocCombine == pc = "alloc_combine" /\ Alloc("read") /\ UNCHANGED files

(* Mutant: a share that cannot be read ends the run without freeing those   *)
(* that could.                                                              *)
ReadShare_fail_leaks ==
  /\ pc = "read" /\ mem.i <= Len(opt.paths)
  /\ LET path == opt.paths[mem.i] IN
     \/ /\ path \in DOMAIN files
        /\ mem' = [mem EXCEPT !.blobs = Append(@, files[path]), !.i = @ + 1,
                               !.sealed = @ \/ IsSealed(files[path])]
        /\ heap' = heap \cup {"shares"}
        /\ UNCHANGED <<pc, out, env>>
     \/ path \notin DOMAIN files /\ Exit(1) /\ UNCHANGED <<mem, heap, env>>
     \/ Exit(1) /\ Fault /\ UNCHANGED <<mem, heap>>
  /\ UNCHANGED <<rest, opt, input, files, splits, ghost>>

(* One file.  cli.c looks whether it is a sealed share; see AskToCombine.   *)
ReadShare ==
  /\ pc = "read" /\ mem.i <= Len(opt.paths)
  /\ LET path == opt.paths[mem.i] IN
     \/ /\ path \in DOMAIN files
        /\ mem' = [mem EXCEPT !.blobs = Append(@, files[path]), !.i = @ + 1,
                               !.sealed = @ \/ IsSealed(files[path])]
        /\ heap' = heap \cup {"shares"}
        /\ UNCHANGED <<pc, out, env>>
     \/ /\ path \notin DOMAIN files
        /\ Exit(1) /\ heap' = {} /\ UNCHANGED <<mem, env>>
     \/ Exit(1) /\ Fault /\ heap' = {} /\ UNCHANGED mem
  /\ UNCHANGED <<rest, opt, input, files, splits, ghost>>

(* Mutant: only --seal asks for the passphrase.                             *)
WantsPhrase_option_only == ~Gui /\ opt.seal

WantsPhrase == ~Gui /\ (mem.sealed \/ opt.seal)

AskToCombine ==
  /\ pc = "read" /\ mem.i > Len(opt.paths)
  /\ \/ /\ ~WantsPhrase
        /\ Goto("pqshard_combine") /\ UNCHANGED <<mem, heap, input>>
     \/ /\ WantsPhrase /\ read_passphrase("pass")
        /\ Goto("pqshard_combine") /\ UNCHANGED heap
     \/ WantsPhrase /\ NoLine /\ Exit(1) /\ heap' = {}
  /\ UNCHANGED <<rest, opt, files, splits, env, ghost>>

(* What pqshard_combine accepts, and of which split it answers the secret.  *)
Accepts(blobs, pass) ==
  LET id == blobs[1].of IN
  /\ id # 0 /\ Len(blobs) >= splits[id].k
  /\ \A i \in DOMAIN blobs : blobs[i].of = id
  /\ \A i, j \in DOMAIN blobs : blobs[i].x = blobs[j].x => i = j
  /\ splits[id].pass # << >> => pass = splits[id].pass

(* cli.c frees the shares right after the call; gui.c at the end.           *)
pqshard_combine ==
  /\ pc = "pqshard_combine"
  /\ \/ /\ Accepts(mem.blobs, mem.pass)
        /\ LET s == splits[mem.blobs[1].of] IN
           mem' = [mem EXCEPT !.secret = s.secret, !.is_text = s.is_text]
        /\ heap' = (IF Gui THEN heap ELSE {}) \cup {"secret"}
        /\ Goto("deliver") /\ UNCHANGED env
     \/ /\ ~Accepts(mem.blobs, mem.pass)
        /\ Exit(1) /\ heap' = {} /\ UNCHANGED <<mem, env>>
     \/ Exit(1) /\ Fault /\ heap' = {} /\ UNCHANGED mem
  /\ UNCHANGED <<rest, opt, input, files, splits, ghost>>

(* A text view takes UTF-8 only, and shows nothing of anything else.        *)
Showable(secret) == Gui => \A i \in DOMAIN secret : secret[i] \notin Binary

(* To a file, which is opened only now, or to stdout or the screen.         *)
Deliver ==
  /\ pc = "deliver" /\ heap' = {}
  /\ \/ /\ opt.outfile = NULL
        /\ pc' = "done" /\ UNCHANGED files
        /\ \/ /\ Showable(mem.secret) /\ UNCHANGED env
              /\ out' = [out EXCEPT !.shown = mem.secret]
           \/ ~Showable(mem.secret) /\ UNCHANGED <<out, env>>
           \/ ~Gui /\ UNCHANGED out /\ env' = [env EXCEPT !.lost = TRUE]
     \/ /\ opt.outfile # NULL
        /\ \/ Put(opt.outfile, Data(mem.secret)) /\ Exit(0) /\ UNCHANGED env
           \/ /\ Put(opt.outfile, Cut) /\ Exit(0)
              /\ env' = [env EXCEPT !.lost = TRUE]
           \/ (Put(opt.outfile, Cut) \/ UNCHANGED files) /\ Exit(1) /\ Fault
  /\ UNCHANGED <<rest, opt, mem, input, splits, ghost>>

Next ==
  \/ Begin \/ Main \/ cmd_split \/ cmd_combine \/ cmd_inspect \/ on_run
  \/ start_job \/ Gather \/ AskToSeal \/ Confirm \/ AllocSplit \/ pqshard_split
  \/ WriteShare \/ SplitDone
  \/ AllocCombine \/ ReadShare \/ AskToCombine \/ pqshard_combine \/ Deliver

Spec == Init /\ [][Next]_vars

---------------------------------------------------------------------------
(* Properties.  cmd.meant is what the user means by the run, in the words   *)
(* of the usage text and the window's labels; the steps above never look.   *)

Ended    == pc = "done" /\ runs > 0
Meant    == cmd.meant
Status   == out.exit
Excused  == env.fault

(* A split that reports success has all its n shares on disk under the      *)
(* names it said, shares of one new split of the secret that was meant,     *)
(* with the n, k, passphrase and KDF level meant; what was meant properly   *)
(* is never refused for another reason than a failing call, and what cannot *)
(* be done is refused.  (Data lost in fclose is lost in silence.)           *)
SplitKeepsItsWord ==
  Ended /\ Meant.op = "split" =>
    IF Status = 0
    THEN /\ Len(splits) = Len(before.splits) + 1
         /\ splits[Len(splits)] =
              [Meant.split EXCEPT !.secret =
                 IF Meant.from = NULL THEN @
                 ELSE before.files[Meant.from].bytes]
         /\ \A i \in 1..Meant.split.n :
              files[Meant.where[i]] = Share(Len(splits), i) \/ env.lost
    ELSE Excused

(* The secret delivered, where it was meant to go, is that of the one split *)
(* all the shares named belong to, whichever program made them; shares that *)
(* suffice, with the right passphrase, are never refused without a failing  *)
(* call; inspect reports success only of files that are all shares, and     *)
(* tells of them; what cannot be meant is refused.  (The window's screen    *)
(* stays empty over a binary secret, and the job is still a success.)       *)
VerdictIsRight ==
  /\ Ended /\ Meant.op = "combine" =>
       LET there == \A p \in Range(Meant.shares) : p \in DOMAIN before.files
           given == [i \in DOMAIN Meant.shares |->
                       before.files[Meant.shares[i]]]
           right == there /\ Accepts(given, Meant.pass)
       IN  IF Status = 0
           THEN /\ right
                /\ LET secret == splits[given[1].of].secret IN
                   IF Meant.to = "screen"
                   THEN out.shown = secret \/ env.lost \/ ~Showable(secret)
                   ELSE files[Meant.to] = Data(secret) \/ env.lost
           ELSE ~right \/ Excused
  /\ Ended /\ Meant.op = "inspect" =>
       LET ok == {p \in Range(Meant.shares) :
                    p \in DOMAIN files /\ files[p].of # 0}
       IN  /\ Status = 0 => Range(out.told) = {files[p] : p \in ok}
                            /\ ok = Range(Meant.shares)
           /\ Status = 1 => ok # Range(Meant.shares) \/ Excused
  /\ Ended /\ Meant.op = "nothing" => Status = 1
  /\ Ended /\ Meant.op = "help" => Status = 0 \/ Excused

(* A run changes no file but those it was meant to write; one that refuses  *)
(* (a wrong passphrase, too few shares, an option that is none) leaves them *)
(* too as they were, unless a write failed on the way.                      *)
FilesKept ==
  Ended =>
    LET mine == IF Meant.op = "split" THEN Range(Meant.where)
                ELSE IF Meant.op = "combine" THEN {Meant.to} ELSE {}
    IN  \A p \in DOMAIN files :
          \/ p \in DOMAIN before.files /\ files[p] = before.files[p]
          \/ p \in mine /\ (Status = 0 \/ Excused)

(* Every way out has freed the secret, the shares and their arrays.  The    *)
(* one exception is cli.c where only one of the two arrays could be had.    *)
BuffersFreed ==
  Ended /\ heap # {} =>
    /\ ~Gui /\ Excused /\ Status = 1
    /\ heap \in {{"blobs"}, {"lens"}}
============================================================================
