----------------------------- MODULE SessionProofs -----------------------------
(***************************************************************************)
(* What a run of either program leaves behind, for every command line,     *)
(* form and input, whatever the user means by it and whichever calls fail: *)
(* no buffer, and on disk and on the screen nothing but a new split's      *)
(* shares or the secret of shares that a combine accepts.                  *)
(***************************************************************************)
EXTENDS Session, SequenceTheorems, TLAPS

(* The split a run adds to those there were.                                *)
NewSplit ==
  [secret |-> mem.secret, is_text |-> mem.is_text, n |-> opt.n, k |-> opt.k,
   pass |-> IF opt.seal THEN mem.pass ELSE << >>, level |-> opt.level]

(* The files a combine was given, as they were when it began.               *)
Found == /\ \A j \in DOMAIN opt.paths : opt.paths[j] \in DOMAIN before.files
         /\ mem.blobs = [j \in 1..Len(opt.paths) |-> before.files[opt.paths[j]]]

Kept(p) == p \in DOMAIN before.files /\ files[p] = before.files[p]

(* Of the files, only those a split names are written, each with the share  *)
(* of the new split that its name tells, or cut short.                      *)
SharesWritten ==
  /\ splits = Append(before.splits, NewSplit)
  /\ out.shown = << >>
  /\ \A p \in DOMAIN files :
       Kept(p) \/ \E i \in Nat \ {0} :
                    /\ i <= opt.n /\ p = SharePath(i)
                    /\ \/ files[p] = Share(Len(splits), i)
                       \/ files[p] = Cut /\ (env.lost \/ env.fault)

(* The secret of the one split all the files belong to goes to the screen,  *)
(* or to the one file named for it.                                         *)
SecretDelivered ==
  /\ splits = before.splits /\ Found /\ Accepts(mem.blobs, mem.pass)
  /\ LET secret == splits[mem.blobs[1].of].secret IN
     /\ out.shown \in {<< >>, secret}
     /\ \A p \in DOMAIN files :
          Kept(p) \/ /\ p = opt.outfile /\ out.shown = << >>
                     /\ \/ files[p] = Data(secret)
                        \/ files[p] = Cut /\ (env.lost \/ env.fault)

(* A run that wrote or showed anything is a split, or a combine of shares   *)
(* it accepts, and it either succeeded or met a failing call; no other run  *)
(* (a refusal above all) changes any file.  No file ever goes.              *)
EffectIsEarned ==
  Ended =>
    /\ DOMAIN before.files \subseteq DOMAIN files
    /\ \/ files = before.files /\ out.shown = << >>
       \/ /\ Status = IF Excused THEN 1 ELSE 0
          /\ SharesWritten \/ SecretDelivered

---------------------------------------------------------------------------
(* The inductive invariant.                                                 *)

Labels ==
  {"main", "split", "combine", "inspect", "on_run", "start", "gather", "ask",
   "confirm", "alloc_split", "pqshard_split", "write", "alloc_combine", "read",
   "pqshard_combine", "deliver", "done"}

(* The two jobs of the window; a split's has gathered its secret.           *)
StartsSplit   == pc = "start" /\ cmd.form.op = "split"
StartsCombine == pc = "start" /\ cmd.form.op # "split"

Shape ==
  /\ pc \in Labels
  /\ env \in [fault: BOOLEAN, lost: BOOLEAN]
  /\ DOMAIN out = {"exit", "shown", "told"}
  /\ DOMAIN mem = {"secret", "is_text", "pass", "pass1", "i", "sealed", "blobs"}
  /\ DOMAIN opt = {"n", "k", "seal", "level", "infile", "text", "outdir",
                   "prefix", "outfile", "paths"}
  /\ DOMAIN before = {"files", "splits"}
  /\ pc # "done" => cmd \in Commands /\ rest \in Seq(STRING)
  /\ pc \in {"on_run", "start"} => Gui
  /\ pc = "gather" /\ Gui => cmd.form.op = "split"
  /\ pc \in {"main", "split"} => ~Gui

(* What is allocated where nothing failed, and where the one leak is.       *)
Heap ==
  /\ pc \in {"main", "split", "combine", "inspect", "on_run", "gather",
             "alloc_combine"} => heap = {}
  /\ StartsCombine => heap = {}
  /\ pc \in {"ask", "confirm", "alloc_split"} \/ StartsSplit => heap = {"secret"}
  /\ pc = "done" /\ heap # {} =>
       ~Gui /\ Excused /\ Status = 1 /\ heap \in {{"blobs"}, {"lens"}}

(* Nothing is written or shown before "write" and "deliver".                *)
Quiet ==
  /\ pc \notin {"write", "done"} =>
       files = before.files /\ splits = before.splits /\ out.shown = << >>
  /\ pc \notin {"done", "inspect"} => out.exit = 0 /\ ~env.fault
  /\ pc \in {"main", "split", "on_run", "start", "gather", "ask", "confirm",
             "alloc_split", "pqshard_split", "combine", "alloc_combine"} =>
       mem.i = 1
  /\ pc \in {"main", "combine", "on_run", "alloc_combine"} \/ StartsCombine =>
       mem.blobs = << >>
  /\ pc \in {"combine", "alloc_combine", "read", "pqshard_combine", "deliver"} =>
       opt.paths \in Seq(STRING)
  /\ StartsCombine => opt.paths \in Seq(STRING)
  /\ pc = "main" => opt.paths = << >>

Writing ==
  pc = "write" =>
    /\ DOMAIN before.files \subseteq DOMAIN files
    /\ mem.i \in Nat \ {0} /\ SharesWritten
    /\ mem.i = 1 => files = before.files
    /\ mem.i > 1 => {opt.outdir, opt.prefix} \cap TooLong = {} /\ opt.outdir \in Dirs

Reading ==
  /\ pc = "read" =>
       /\ mem.i \in 1..(Len(opt.paths) + 1)
       /\ \A j \in 1..(mem.i - 1) : opt.paths[j] \in DOMAIN before.files
       /\ mem.blobs = [j \in 1..(mem.i - 1) |-> before.files[opt.paths[j]]]
  /\ pc \in {"pqshard_combine", "deliver"} => Found
  /\ pc = "deliver" => /\ Accepts(mem.blobs, mem.pass)
                       /\ mem.secret = splits[mem.blobs[1].of].secret

Inv == Shape /\ Heap /\ Quiet /\ Writing /\ Reading /\ EffectIsEarned

---------------------------------------------------------------------------
(* One lemma per part of the invariant, one step per action that can        *)
(* disturb it.                                                              *)

(* Arguments are looked at from the front, one or two at a time.            *)
LEMMA RestStep ==
  ASSUME rest \in Seq(STRING),
         \/ rest' = rest
         \/ rest # << >> /\ rest' = Tail(rest)
         \/ rest # << >> /\ Len(rest) > 1 /\ rest' = Tail(Tail(rest))
  PROVE  rest' \in Seq(STRING)
<1>1. CASE rest # << >>
  <2>1. Tail(rest) \in Seq(STRING) /\ Len(Tail(rest)) = Len(rest) - 1
    BY <1>1, HeadTailProperties
  <2>2. Len(rest) > 1 => Tail(rest) # << >>
    BY <2>1, LenProperties, EmptySeq
  <2>3. Len(rest) > 1 => Tail(Tail(rest)) \in Seq(STRING)
    BY <2>1, <2>2, HeadTailProperties
  <2>4. QED
    BY <1>1, <2>1, <2>3
<1>2. CASE rest = << >>
  BY <1>2
<1>3. QED
  BY <1>1, <1>2

LEMMA ShapeStep ==
  ASSUME Inv, [Next]_vars
  PROVE  Shape'
<1> USE DEF Inv, Shape, Labels, world, ghost, Goto, Exit, Fault, Gui,
            StartsSplit, StartsCombine
<1>1. CASE Begin
  BY <1>1, SessionAssumption
  DEF Begin, Defaults, NoMem, NoOut
<1>2. CASE Main
  <2>1. /\ rest \in Seq(STRING) /\ cmd \in Commands /\ ~Gui
        /\ UNCHANGED <<mem, opt, cmd, before>>
    BY <1>2 DEF Main
  <2>2. rest' \in Seq(STRING)
    <3>1. rest' = rest \/ (rest # << >> /\ rest' = Tail(rest))
      BY <1>2 DEF Main
    <3>2. QED
      BY <2>1, <3>1, RestStep
  <2>3. pc' \in {"split", "combine", "inspect", "done"}
    BY <1>2 DEF Main
  <2>4. env' \in [fault: BOOLEAN, lost: BOOLEAN] /\ DOMAIN out' = DOMAIN out
    BY <1>2 DEF Main
  <2>5. QED
    BY <2>1, <2>2, <2>3, <2>4
<1>3. CASE cmd_split
  <2>1. /\ rest \in Seq(STRING) /\ cmd \in Commands /\ ~Gui
        /\ UNCHANGED <<mem, env, cmd, before>>
    BY <1>3 DEF cmd_split
  <2>2. DOMAIN opt' = DOMAIN opt
    BY <1>3 DEF cmd_split, SplitValue, SplitSeal, SplitUnexpected
  <2>3. \/ rest' = rest
        \/ rest # << >> /\ rest' = Tail(rest)
        \/ rest # << >> /\ Len(rest) > 1 /\ rest' = Tail(Tail(rest))
    BY <1>3 DEF cmd_split, SplitValue, SplitSeal, SplitUnexpected
  <2>4. rest' \in Seq(STRING)
    BY <2>1, <2>3, RestStep
  <2>5. pc' \in {"split", "gather", "done"} /\ DOMAIN out' = DOMAIN out
    BY <1>3 DEF cmd_split, SplitValue, SplitSeal, SplitUnexpected
  <2>6. QED
    BY <2>1, <2>2, <2>4, <2>5
<1>4. CASE cmd_combine
  <2>1. rest \in Seq(STRING) /\ UNCHANGED <<mem, env, cmd, before>> /\ cmd \in Commands
    BY <1>4 DEF cmd_combine
  <2>2. DOMAIN opt' = DOMAIN opt
    BY <1>4 DEF cmd_combine, CombineOption, CombinePath
  <2>3. \/ rest' = rest
        \/ rest # << >> /\ rest' = Tail(rest)
        \/ rest # << >> /\ Len(rest) > 1 /\ rest' = Tail(Tail(rest))
    BY <1>4 DEF cmd_combine, CombineOption, CombinePath
  <2>4. rest' \in Seq(STRING)
    BY <2>1, <2>3, RestStep
  <2>5. pc' \in {"combine", "alloc_combine", "done"} /\ DOMAIN out' = DOMAIN out
    BY <1>4 DEF cmd_combine, CombineOption, CombinePath
  <2>6. QED
    BY <2>1, <2>2, <2>4, <2>5
<1>5. CASE cmd_inspect
  <2>1. rest \in Seq(STRING) /\ UNCHANGED <<opt, cmd, before>> /\ cmd \in Commands
    BY <1>5 DEF cmd_inspect
  <2>2. rest' \in Seq(STRING)
    <3>1. rest' = rest \/ (rest # << >> /\ rest' = Tail(rest))
      BY <1>5 DEF cmd_inspect
    <3>2. QED
      BY <2>1, <3>1, RestStep
  <2>3. /\ pc' \in {"inspect", "done"} /\ DOMAIN out' = DOMAIN out
        /\ DOMAIN mem' = DOMAIN mem
    BY <1>5 DEF cmd_inspect
  <2>4. env' \in [fault: BOOLEAN, lost: BOOLEAN]
    BY <1>5 DEF cmd_inspect
  <2>5. QED
    BY <2>1, <2>2, <2>3, <2>4
<1>6. CASE on_run
  BY <1>6 DEF on_run, Defaults
<1>7. CASE Gather
  BY <1>7 DEF Gather
<1>8. CASE AskToSeal
  BY <1>8 DEF AskToSeal, read_passphrase, NoLine
<1>9. CASE Confirm
  BY <1>9 DEF Confirm, read_passphrase, NoLine
<1>10. CASE AllocSplit
  BY <1>10 DEF AllocSplit, Alloc
<1>11. CASE pqshard_split
  BY <1>11 DEF pqshard_split
<1>12. CASE WriteShare
  BY <1>12 DEF WriteShare
<1>13. CASE SplitDone
  BY <1>13 DEF SplitDone
<1>14. CASE AllocCombine
  BY <1>14 DEF AllocCombine, Alloc
<1>15. CASE ReadShare
  BY <1>15 DEF ReadShare
<1>16. CASE AskToCombine
  BY <1>16 DEF AskToCombine, read_passphrase, NoLine
<1>17. CASE pqshard_combine
  BY <1>17 DEF pqshard_combine
<1>18. CASE Deliver
  BY <1>18 DEF Deliver
<1>19. CASE UNCHANGED vars
  BY <1>19 DEF vars
<1>20. CASE start_job
  BY <1>20 DEF start_job
<1>21. QED
  BY <1>1, <1>2, <1>3, <1>4, <1>5, <1>6, <1>7, <1>8, <1>9, <1>10, <1>11, <1>12,
     <1>13, <1>14, <1>15, <1>16, <1>17, <1>18, <1>19, <1>20 DEF Next

LEMMA HeapStep ==
  ASSUME Inv, [Next]_vars
  PROVE  Heap'
<1> USE DEF Inv, Shape, Labels, Heap, Status, Excused, StartsSplit, StartsCombine,
            world, ghost, Goto, Exit, Fault, Gui
<1>1. CASE Begin
  BY <1>1 DEF Begin
<1>2. CASE Main
  BY <1>2 DEF Main
<1>3. CASE cmd_split
  <2>1. pc = "split" /\ pc' \in {"split", "gather", "done"}
    BY <1>3 DEF cmd_split, SplitValue, SplitSeal, SplitUnexpected
  <2>2. UNCHANGED <<heap, cmd, env, runs>>
    BY <1>3 DEF cmd_split
  <2>3. QED
    BY <2>1, <2>2
<1>4. CASE cmd_combine
  <2>1. pc = "combine" /\ pc' \in {"combine", "alloc_combine", "done"}
    BY <1>4 DEF cmd_combine, CombineOption, CombinePath
  <2>2. UNCHANGED <<heap, cmd, env, runs>>
    BY <1>4 DEF cmd_combine
  <2>3. QED
    BY <2>1, <2>2
<1>5. CASE cmd_inspect
  BY <1>5 DEF cmd_inspect
<1>6. CASE on_run
  BY <1>6 DEF on_run
<1>7. CASE Gather
  <2>1. /\ pc = "gather" /\ UNCHANGED <<cmd, runs>>
        /\ \/ pc' = "done" /\ heap' = heap
           \/ /\ pc' \in {"start", "ask", "alloc_split"}
              /\ pc' = "start" => Gui
              /\ heap' = heap \cup {"secret"}
    BY <1>7 DEF Gather
  <2>2. QED
    BY <2>1
<1>8. CASE AskToSeal
  BY <1>8 DEF AskToSeal
<1>9. CASE Confirm
  BY <1>9 DEF Confirm
<1>10. CASE AllocSplit
  <2>1. CASE heap' = heap \cup {"blobs", "lens"}
    BY <1>10, <2>1 DEF AllocSplit, Alloc
  <2>2. CASE heap' # heap \cup {"blobs", "lens"}
    <3>1. /\ UNCHANGED <<cmd, runs>> /\ pc' = "done"
          /\ env'.fault /\ out'.exit = 1
      BY <1>10, <2>2 DEF AllocSplit, Alloc
    <3>2. CASE Gui
      BY <1>10, <2>2, <3>1, <3>2 DEF AllocSplit, Alloc
    <3>3. CASE ~Gui
      <4>1. heap' \in {{}, {"blobs"}, {"lens"}}
        BY <1>10, <2>2, <3>3 DEF AllocSplit, Alloc
      <4>2. QED
        BY <3>1, <3>3, <4>1
    <3>4. QED
      BY <3>2, <3>3
  <2>3. QED
    BY <2>1, <2>2
<1>11. CASE pqshard_split
  BY <1>11 DEF pqshard_split
<1>12. CASE WriteShare
  BY <1>12 DEF WriteShare
<1>13. CASE SplitDone
  BY <1>13 DEF SplitDone
<1>14. CASE AllocCombine
  <2>1. CASE heap' = heap \cup {"blobs", "lens"}
    BY <1>14, <2>1 DEF AllocCombine, Alloc
  <2>2. CASE heap' # heap \cup {"blobs", "lens"}
    <3>1. /\ UNCHANGED <<cmd, runs>> /\ pc' = "done"
          /\ env'.fault /\ out'.exit = 1
      BY <1>14, <2>2 DEF AllocCombine, Alloc
    <3>2. CASE Gui
      BY <1>14, <2>2, <3>1, <3>2 DEF AllocCombine, Alloc
    <3>3. CASE ~Gui
      <4>1. heap' \in {{}, {"blobs"}, {"lens"}}
        BY <1>14, <2>2, <3>3 DEF AllocCombine, Alloc
      <4>2. QED
        BY <3>1, <3>3, <4>1
    <3>4. QED
      BY <3>2, <3>3
  <2>3. QED
    BY <2>1, <2>2
<1>15. CASE ReadShare
  BY <1>15 DEF ReadShare
<1>16. CASE AskToCombine
  BY <1>16 DEF AskToCombine
<1>17. CASE pqshard_combine
  BY <1>17 DEF pqshard_combine
<1>18. CASE Deliver
  BY <1>18 DEF Deliver
<1>19. CASE UNCHANGED vars
  BY <1>19 DEF vars
<1>20. CASE start_job
  BY <1>20 DEF start_job
<1>21. QED
  BY <1>1, <1>2, <1>3, <1>4, <1>5, <1>6, <1>7, <1>8, <1>9, <1>10, <1>11, <1>12,
     <1>13, <1>14, <1>15, <1>16, <1>17, <1>18, <1>19, <1>20 DEF Next

(* The list of files grows by the names on the command line.                *)
LEMMA PathsStep ==
  ASSUME Inv, [Next]_vars
  PROVE  /\ pc' \in {"combine", "alloc_combine", "read", "pqshard_combine",
                     "deliver"} => opt'.paths \in Seq(STRING)
         /\ pc' = "main" => opt'.paths = << >>
         /\ StartsCombine' => opt'.paths \in Seq(STRING)
<1> USE DEF Inv, Shape, Quiet, Labels, world, ghost, Goto, Exit, Fault,
            StartsCombine
<1>1. CASE Begin
  BY <1>1 DEF Begin, Defaults
<1>2. CASE Main
  <2>1. << >> \in Seq(STRING)
    BY EmptySeq
  <2>2. QED
    BY <1>2, <2>1 DEF Main
<1>3. CASE cmd_split
  BY <1>3 DEF cmd_split, SplitValue, SplitSeal, SplitUnexpected
<1>4. CASE cmd_combine
  <2>1. opt.paths \in Seq(STRING) /\ rest \in Seq(STRING)
    BY <1>4 DEF cmd_combine
  <2>2. \/ opt'.paths = opt.paths
        \/ rest # << >> /\ opt'.paths = Append(opt.paths, Head(rest))
    BY <1>4 DEF cmd_combine, CombineOption, CombinePath
  <2>3. rest # << >> => Append(opt.paths, Head(rest)) \in Seq(STRING)
    BY <2>1, HeadTailProperties, AppendProperties
  <2>4. pc' # "main"
    BY <1>4 DEF cmd_combine, CombineOption, CombinePath
  <2>5. QED
    BY <2>1, <2>2, <2>3, <2>4
<1>5. CASE cmd_inspect
  BY <1>5 DEF cmd_inspect
<1>6. CASE on_run
  <2>1. CASE pc' = "start"
    <3>1. /\ cmd \in Commands /\ cmd.form.op # "split"
          /\ opt'.paths = cmd.form.paths
      BY <1>6, <2>1 DEF on_run, Defaults
    <3>2. QED
      BY <1>6, <2>1, <3>1, SessionAssumption DEF on_run, Gui
  <2>2. CASE pc' # "start"
    BY <1>6, <2>2 DEF on_run
  <2>3. QED
    BY <2>1, <2>2
<1>7. CASE Gather \/ AskToSeal \/ Confirm \/ AllocSplit \/ pqshard_split
  BY <1>7 DEF Gather, AskToSeal, Confirm, AllocSplit, Alloc, pqshard_split
<1>8. CASE WriteShare \/ SplitDone
  BY <1>8 DEF WriteShare, SplitDone
<1>9. CASE start_job \/ AllocCombine \/ ReadShare \/ AskToCombine
           \/ pqshard_combine \/ Deliver
  BY <1>9 DEF start_job, AllocCombine, Alloc, ReadShare, AskToCombine,
              pqshard_combine, Deliver
<1>10. CASE UNCHANGED vars
  BY <1>10 DEF vars
<1>11. QED
  BY <1>1, <1>2, <1>3, <1>4, <1>5, <1>6, <1>7, <1>8, <1>9, <1>10 DEF Next

LEMMA QuietStep ==
  ASSUME Inv, [Next]_vars
  PROVE  Quiet'
<1> USE DEF Inv, Shape, Quiet, Labels, world, ghost, Goto, Exit, Fault,
            StartsCombine
<1>1. CASE Begin
  BY <1>1, PathsStep DEF Begin, NoMem, NoOut
<1>2. CASE Main
  BY <1>2, PathsStep DEF Main
<1>3. CASE cmd_split
  BY <1>3, PathsStep DEF cmd_split, SplitValue, SplitSeal, SplitUnexpected
<1>4. CASE cmd_combine
  BY <1>4, PathsStep DEF cmd_combine, CombineOption, CombinePath
<1>5. CASE cmd_inspect
  BY <1>5, PathsStep DEF cmd_inspect
<1>6. CASE on_run
  BY <1>6, PathsStep DEF on_run
<1>7. CASE Gather
  BY <1>7, PathsStep DEF Gather
<1>8. CASE AskToSeal \/ Confirm
  BY <1>8, PathsStep DEF AskToSeal, Confirm, read_passphrase, NoLine
<1>9. CASE AllocSplit \/ pqshard_split
  BY <1>9, PathsStep DEF AllocSplit, Alloc, pqshard_split
<1>10. CASE WriteShare \/ SplitDone
  BY <1>10, PathsStep DEF WriteShare, SplitDone
<1>11. CASE AllocCombine \/ ReadShare
  BY <1>11, PathsStep DEF AllocCombine, Alloc, ReadShare
<1>12. CASE AskToCombine
  BY <1>12, PathsStep DEF AskToCombine, read_passphrase, NoLine
<1>13. CASE pqshard_combine \/ Deliver
  BY <1>13, PathsStep DEF pqshard_combine, Deliver
<1>14. CASE UNCHANGED vars
  BY <1>14, PathsStep DEF vars
<1>15. CASE start_job
  BY <1>15, PathsStep DEF start_job
<1>16. QED
  BY <1>1, <1>2, <1>3, <1>4, <1>5, <1>6, <1>7, <1>8, <1>9, <1>10, <1>11, <1>12,
     <1>13, <1>14, <1>15 DEF Next

(* Writing.                                                                 *)

(* The call that made the split; nothing is written yet.                    *)
LEMMA WritingBegins ==
  ASSUME Inv, pqshard_split
  PROVE  Writing'
<1> USE DEF Inv, Shape, Quiet, Goto, Exit, Fault
<1>1. CASE pc' = "write"
  <2>1. /\ files' = before'.files /\ mem'.i = 1 /\ out'.shown = << >>
        /\ UNCHANGED <<mem, opt, before>>
        /\ splits' = Append(before.splits, NewSplit)
    BY <1>1 DEF pqshard_split, ghost, NewSplit
  <2>2. NewSplit' = NewSplit
    BY <2>1 DEF NewSplit
  <2>3. QED
    BY <2>1, <2>2 DEF Writing, SharesWritten, Kept
<1>2. CASE pc' # "write"
  BY <1>2 DEF Writing
<1>3. QED
  BY <1>1, <1>2

(* What Put leaves.                                                         *)
LEMMA PutOne ==
  ASSUME NEW path, NEW content, Put(path, content)
  PROVE  /\ DOMAIN files \subseteq DOMAIN files' /\ files'[path] = content
         /\ \A p \in DOMAIN files' : p # path => p \in DOMAIN files /\ files'[p] = files[p]
BY DEF Put

(* One turn that writes something.                                          *)
LEMMA ShareWritten ==
  ASSUME Inv, WriteShare, NEW content, Put(SharePath(mem.i), content),
         \/ content = Share(Len(splits), mem.i)
         \/ content = Cut /\ (env'.lost \/ env'.fault),
         env.lost => env'.lost, env.fault => env'.fault,
         mem' = [mem EXCEPT !.i = @ + 1] \/ mem' = mem,
         out'.shown = out.shown
  PROVE  SharesWritten' /\ DOMAIN before.files \subseteq DOMAIN files'
<1>1. /\ pc = "write" /\ mem.i <= opt.n /\ mem.i \in Nat \ {0}
      /\ UNCHANGED <<opt, splits, before>>
  BY DEF WriteShare, Inv, Writing, ghost
<1>2. NewSplit' = NewSplit
  BY <1>1 DEF NewSplit, Inv, Shape
<1>3. /\ SharesWritten /\ DOMAIN before.files \subseteq DOMAIN files
  BY <1>1 DEF Inv, Writing
<1>4. \A i : SharePath(i)' = SharePath(i)
  BY <1>1 DEF SharePath
<1>5. ASSUME NEW p \in DOMAIN files'
      PROVE  Kept(p)' \/ \E i \in Nat \ {0} :
                           /\ i <= opt'.n /\ p = SharePath(i)'
                           /\ \/ files'[p] = Share(Len(splits'), i)
                              \/ files'[p] = Cut /\ (env'.lost \/ env'.fault)
  <2>1. CASE p = SharePath(mem.i)
    <3>1. files'[p] = content
      BY <2>1, PutOne
    <3>2. QED
      BY <1>1, <1>4, <2>1, <3>1
  <2>2. CASE p # SharePath(mem.i)
    <3>1. p \in DOMAIN files /\ files'[p] = files[p]
      BY <2>2, PutOne
    <3>2. CASE Kept(p)
      BY <1>1, <3>1, <3>2 DEF Kept
    <3>3. CASE ~Kept(p)
      BY <1>1, <1>3, <1>4, <3>1, <3>3 DEF SharesWritten
    <3>4. QED
      BY <3>2, <3>3
  <2>3. QED
    BY <2>1, <2>2
<1>6. QED
  BY <1>1, <1>2, <1>3, <1>5, PutOne DEF SharesWritten

(* And one that does not.                                                   *)
LEMMA StillWritten ==
  ASSUME Shape, SharesWritten, UNCHANGED <<files, splits, opt, mem, before>>,
         env.lost => env'.lost, env.fault => env'.fault,
         out'.shown = out.shown
  PROVE  SharesWritten'
<1>1. NewSplit' = NewSplit /\ \A i : SharePath(i)' = SharePath(i)
  BY DEF NewSplit, SharePath
<1>2. QED
  BY <1>1 DEF SharesWritten, Kept

(* A turn of the loop: the share is written, and perhaps cut short, or the  *)
(* run is over; on the first turn there is a reason that nothing needed a   *)
(* call to find.                                                            *)
LEMMA WriteTurn ==
  ASSUME Inv, WriteShare
  PROVE  /\ SharesWritten' /\ DOMAIN before'.files \subseteq DOMAIN files'
         /\ \/ /\ pc' = "write" /\ mem'.i = mem.i + 1
               /\ {opt'.outdir, opt'.prefix} \cap TooLong = {}
               /\ opt'.outdir \in Dirs
            \/ pc' = "done" /\ out'.exit = 1 /\ env'.fault
            \/ pc' = "done" /\ files' = before'.files /\ out'.shown = << >>
<1> USE DEF Inv, Shape, Quiet, Writing, Goto, Exit, Fault, ghost
<1>1. /\ pc = "write" /\ mem.i <= opt.n /\ mem.i \in Nat \ {0} /\ SharesWritten
      /\ UNCHANGED <<opt, splits, before>> /\ out'.shown = out.shown
      /\ DOMAIN before.files \subseteq DOMAIN files
  BY DEF WriteShare
<1>2. CASE /\ \/ {opt.outdir, opt.prefix} \cap TooLong # {}
              \/ opt.outdir \notin Dirs
           /\ Exit(1) /\ UNCHANGED <<mem, files, env>>
  <2>1. SharesWritten'
    BY <1>1, <1>2, StillWritten
  <2>2. mem.i = 1
    BY <1>1, <1>2
  <2>3. QED
    BY <1>1, <1>2, <2>1, <2>2 DEF SharesWritten
<1>3. CASE /\ {opt.outdir, opt.prefix} \cap TooLong = {} /\ opt.outdir \in Dirs
           /\ Put(SharePath(mem.i), Share(Len(splits), mem.i))
           /\ mem' = [mem EXCEPT !.i = @ + 1] /\ UNCHANGED <<pc, env>>
  <2>1. SharesWritten' /\ DOMAIN before.files \subseteq DOMAIN files'
    BY <1>1, <1>3, ShareWritten
  <2>2. QED
    BY <1>1, <1>3, <2>1
<1>4. CASE /\ {opt.outdir, opt.prefix} \cap TooLong = {} /\ opt.outdir \in Dirs
           /\ Put(SharePath(mem.i), Cut) /\ env' = [env EXCEPT !.lost = TRUE]
           /\ mem' = [mem EXCEPT !.i = @ + 1] /\ UNCHANGED pc
  <2>1. SharesWritten' /\ DOMAIN before.files \subseteq DOMAIN files'
    BY <1>1, <1>4, ShareWritten
  <2>2. QED
    BY <1>1, <1>4, <2>1
<1>5. CASE Put(SharePath(mem.i), Cut) /\ Exit(1) /\ Fault /\ UNCHANGED mem
  <2>1. env'.fault /\ (env.lost => env'.lost) /\ out'.exit = 1
    BY <1>5
  <2>2. SharesWritten' /\ DOMAIN before.files \subseteq DOMAIN files'
    BY <1>1, <1>5, <2>1, ShareWritten
  <2>3. QED
    BY <1>1, <1>5, <2>1, <2>2
<1>6. CASE UNCHANGED files /\ Exit(1) /\ Fault /\ UNCHANGED mem
  <2>1. env'.fault /\ (env.lost => env'.lost) /\ out'.exit = 1
    BY <1>6
  <2>2. SharesWritten'
    BY <1>1, <1>6, <2>1, StillWritten
  <2>3. QED
    BY <1>1, <1>6, <2>1, <2>2
<1>7. QED
  BY <1>2, <1>3, <1>4, <1>5, <1>6 DEF WriteShare

LEMMA WritingStep ==
  ASSUME Inv, [Next]_vars
  PROVE  Writing'
<1>1. CASE pqshard_split
  BY <1>1, WritingBegins
<1>2. CASE WriteShare
  BY <1>2, WriteTurn DEF Writing, Inv, WriteShare
<1>3. CASE UNCHANGED vars
  <2>1. SharesWritten => SharesWritten'
    BY <1>3, StillWritten DEF vars, Inv
  <2>2. QED
    BY <1>3, <2>1 DEF Inv, Writing, vars
<1>4. CASE Begin \/ Main \/ cmd_split \/ cmd_combine \/ cmd_inspect \/ on_run
           \/ start_job
  <2>1. pc' # "write"
    BY <1>4 DEF Begin, Main, cmd_split, SplitValue, SplitSeal, SplitUnexpected,
                cmd_combine, CombineOption, CombinePath, cmd_inspect, on_run,
                start_job,
                Goto, Exit
  <2>2. QED
    BY <2>1 DEF Writing
<1>5. CASE Gather \/ AskToSeal \/ Confirm \/ AllocSplit \/ SplitDone
           \/ AllocCombine \/ ReadShare \/ AskToCombine \/ pqshard_combine
           \/ Deliver
  <2>1. pc' # "write"
    BY <1>5 DEF Gather, AskToSeal, Confirm, AllocSplit, Alloc, SplitDone,
                AllocCombine, ReadShare, AskToCombine, pqshard_combine, Deliver,
                Goto, Exit
  <2>2. QED
    BY <2>1 DEF Writing
<1>6. QED
  BY <1>1, <1>2, <1>3, <1>4, <1>5 DEF Next

(* Reading.                                                                 *)

(* One more file: the list of blobs is that of the names so far.            *)
LEMMA OneMoreBlob ==
  ASSUME NEW paths, NEW old, NEW i \in Nat \ {0}, NEW bs, NEW b,
         bs = [j \in 1..(i - 1) |-> old[paths[j]]], b = old[paths[i]]
  PROVE  Append(bs, b) = [j \in 1..i |-> old[paths[j]]]
<1> DEFINE S == {old[paths[j]] : j \in 1..i}
           new == [j \in 1..i |-> old[paths[j]]]
<1>1. bs \in Seq(S) /\ Len(bs) = i - 1 /\ b \in S
  OBVIOUS
<1>2. /\ Append(bs, b) \in Seq(S) /\ Len(Append(bs, b)) = i
      /\ \A j \in 1..(i - 1) : Append(bs, b)[j] = bs[j]
      /\ Append(bs, b)[i] = b
  BY <1>1, AppendProperties
<1>3. new \in Seq(S) /\ Len(new) = i
  OBVIOUS
<1>4. \A j \in 1..i : Append(bs, b)[j] = new[j]
  BY <1>2
<1>5. QED
  BY <1>2, <1>3, <1>4, SeqEqual

(* What was read, and the verdict on it, stay where nothing touches them.   *)
LEMMA FoundKept ==
  ASSUME UNCHANGED <<opt, before>>, mem'.blobs = mem.blobs, Found
  PROVE  Found'
<1> DEFINE given == [j \in 1..Len(opt.paths) |-> before.files[opt.paths[j]]]
<1>1. given' = given
  OBVIOUS
<1>2. mem'.blobs = given'
  BY <1>1 DEF Found
<1> QED
  BY <1>2 DEF Found

LEMMA AcceptsKept ==
  ASSUME UNCHANGED splits, mem'.blobs = mem.blobs, mem'.pass = mem.pass,
         Accepts(mem.blobs, mem.pass)
  PROVE  Accepts(mem.blobs, mem.pass)'
BY Zenon DEF Accepts

LEMMA ReadingStep ==
  ASSUME Inv, [Next]_vars
  PROVE  Reading'
<1> USE DEF Inv, Shape, Quiet, world, ghost, Goto, Exit, Fault
<1>1. CASE AllocCombine
  <2>1. Len(opt.paths) \in Nat
    BY <1>1, LenProperties DEF AllocCombine
  <2>2. CASE pc' = "read"
    <3>1. mem.i = 1 /\ mem.blobs = << >> /\ UNCHANGED <<opt, mem, before>>
      BY <1>1 DEF AllocCombine, Alloc
    <3>2. mem'.i = 1 /\ mem'.blobs = << >> /\ mem'.i - 1 = 0
      BY <3>1
    <3>3. mem'.blobs = [j \in 1..(mem'.i - 1) |-> before'.files[opt'.paths[j]]]
      <4>1. << >> = [j \in 1..0 |-> before'.files[opt'.paths[j]]]
        OBVIOUS
      <4>2. QED
        BY <3>2, <4>1, Zenon
    <3>4. QED
      BY <2>1, <2>2, <3>1, <3>2, <3>3 DEF Reading
  <2>3. CASE pc' # "read"
    BY <1>1, <2>3 DEF AllocCombine, Alloc, Reading
  <2>4. QED
    BY <2>2, <2>3
<1>2. CASE ReadShare
  <2>1. CASE pc' = "read"
    <3>1. /\ pc = "read" /\ mem.i <= Len(opt.paths) /\ opt.paths[mem.i] \in DOMAIN files
          /\ mem'.i = mem.i + 1
          /\ mem'.blobs = Append(mem.blobs, files[opt.paths[mem.i]])
          /\ UNCHANGED <<opt, files, before>> /\ files = before.files
      BY <1>2, <2>1 DEF ReadShare
    <3>2. Len(opt.paths) \in Nat /\ mem.i \in Nat \ {0}
      BY <3>1, LenProperties DEF Reading
    <3>3. mem'.blobs = [j \in 1..mem.i |-> before.files[opt.paths[j]]]
      BY <3>1, <3>2, OneMoreBlob DEF Reading
    <3>4. QED
      BY <2>1, <3>1, <3>2, <3>3 DEF Reading
  <2>2. CASE pc' # "read"
    BY <1>2, <2>2 DEF ReadShare, Reading
  <2>3. QED
    BY <2>1, <2>2
<1>3. CASE AskToCombine
  <2>1. CASE pc' = "pqshard_combine"
    <3>1. /\ pc = "read" /\ mem.i > Len(opt.paths) /\ UNCHANGED <<opt, before>>
          /\ mem'.blobs = mem.blobs
      BY <1>3, <2>1 DEF AskToCombine, read_passphrase
    <3>2. Len(opt.paths) \in Nat /\ DOMAIN opt.paths = 1..Len(opt.paths)
      BY <3>1, LenProperties
    <3>3. mem.i = Len(opt.paths) + 1
      BY <3>1, <3>2 DEF Reading
    <3>4. QED
      BY <2>1, <3>1, <3>2, <3>3 DEF Reading, Found
  <2>2. CASE pc' # "pqshard_combine"
    BY <1>3, <2>2 DEF AskToCombine, Reading
  <2>3. QED
    BY <2>1, <2>2
<1>4. CASE pqshard_combine
  <2>1. CASE pc' = "deliver"
    <3>1. /\ Accepts(mem.blobs, mem.pass) /\ Found
          /\ mem'.secret = splits[mem.blobs[1].of].secret
          /\ mem'.blobs = mem.blobs /\ mem'.pass = mem.pass
          /\ UNCHANGED <<opt, splits, before>>
      BY <1>4, <2>1 DEF pqshard_combine, Reading
    <3>2. Accepts(mem.blobs, mem.pass)'
      BY <3>1, AcceptsKept
    <3>3. Found'
      BY <3>1, FoundKept
    <3>4. QED
      BY <2>1, <3>1, <3>2, <3>3 DEF Reading
  <2>2. CASE pc' # "deliver"
    BY <1>4, <2>2 DEF pqshard_combine, Reading
  <2>3. QED
    BY <2>1, <2>2
<1>5. CASE UNCHANGED vars
  <2>1. UNCHANGED <<pc, mem, opt, splits, before>>
    BY <1>5 DEF vars
  <2>2. Found => Found'
    BY <2>1, Zenon DEF Found
  <2>3. Accepts(mem.blobs, mem.pass) => Accepts(mem.blobs, mem.pass)'
    BY <2>1, Zenon DEF Accepts
  <2>4. QED
    BY <2>1, <2>2, <2>3 DEF Reading
<1>6. CASE Begin \/ Main \/ cmd_split \/ cmd_combine \/ cmd_inspect \/ on_run
           \/ start_job
  <2>1. pc' \notin {"read", "pqshard_combine", "deliver"}
    BY <1>6 DEF Begin, Main, cmd_split, SplitValue, SplitSeal, SplitUnexpected,
                cmd_combine, CombineOption, CombinePath, cmd_inspect, on_run,
                start_job
  <2>2. QED
    BY <2>1 DEF Reading
<1>7. CASE Gather \/ AskToSeal \/ Confirm \/ AllocSplit \/ pqshard_split
           \/ WriteShare \/ SplitDone \/ Deliver
  <2>1. pc' \notin {"read", "pqshard_combine", "deliver"}
    BY <1>7 DEF Gather, AskToSeal, Confirm, AllocSplit, Alloc, pqshard_split,
                WriteShare, SplitDone, Deliver
  <2>2. QED
    BY <2>1 DEF Reading
<1>8. QED
  BY <1>1, <1>2, <1>3, <1>4, <1>5, <1>6, <1>7 DEF Next

---------------------------------------------------------------------------
(* The effect of the run.                                                   *)

LEMMA DeliverStep ==
  ASSUME Inv, Deliver
  PROVE  EffectIsEarned'
<1> DEFINE secret == splits[mem.blobs[1].of].secret
<1>1. /\ Found /\ Accepts(mem.blobs, mem.pass) /\ mem.secret = secret
      /\ files = before.files /\ splits = before.splits /\ out.shown = << >>
      /\ out.exit = 0 /\ ~env.fault
      /\ UNCHANGED <<mem, opt, splits, before>>
  BY DEF Deliver, Inv, Quiet, Reading, ghost
<1>2. /\ env \in [fault: BOOLEAN, lost: BOOLEAN]
      /\ DOMAIN out = {"exit", "shown", "told"}
  BY DEF Inv, Shape
<1>3. Found' /\ Accepts(mem.blobs, mem.pass)' /\ secret' = secret
  <2>1. Found'
    BY <1>1, Zenon DEF Found
  <2>2. Accepts(mem.blobs, mem.pass)'
    BY <1>1, Zenon DEF Accepts
  <2>3. QED
    BY <1>1, <2>1, <2>2
<1> HIDE DEF secret
<1>4. CASE out' = [out EXCEPT !.shown = mem.secret] /\ UNCHANGED <<files, env>>
  <2>1. out'.shown = secret /\ out'.exit = 0 /\ ~env'.fault
    BY <1>1, <1>2, <1>4
  <2>2. \A p \in DOMAIN files' : Kept(p)'
    BY <1>1, <1>4 DEF Kept
  <2>3. SecretDelivered'
    BY <1>1, <1>3, <2>1, <2>2 DEF SecretDelivered, secret
  <2>4. QED
    BY <1>1, <1>4, <2>1, <2>3 DEF EffectIsEarned, Status, Excused
<1>5. ASSUME NEW content, Put(opt.outfile, content),
             \/ content = Data(secret)
             \/ content = Cut /\ (env'.lost \/ env'.fault),
             out'.shown = << >>
      PROVE  SecretDelivered' /\ DOMAIN before'.files \subseteq DOMAIN files'
  <2>1. /\ DOMAIN files \subseteq DOMAIN files' /\ files'[opt.outfile] = content
        /\ \A p \in DOMAIN files' :
             p # opt.outfile => p \in DOMAIN files /\ files'[p] = files[p]
    BY <1>5, PutOne
  <2>2. ASSUME NEW p \in DOMAIN files'
        PROVE  Kept(p)' \/ /\ p = opt'.outfile /\ out'.shown = << >>
                           /\ \/ files'[p] = Data(secret')
                              \/ files'[p] = Cut /\ (env'.lost \/ env'.fault)
    BY <1>1, <1>3, <1>5, <2>1 DEF Kept
  <2>3. QED
    BY <1>1, <1>3, <1>5, <2>1, <2>2 DEF SecretDelivered, secret
<1>6. CASE Put(opt.outfile, Data(mem.secret)) /\ Exit(0) /\ UNCHANGED env
  <2>1. out'.shown = << >> /\ out'.exit = 0 /\ ~env'.fault
    BY <1>1, <1>2, <1>6 DEF Exit
  <2>2. QED
    BY <1>1, <1>5, <1>6, <2>1 DEF EffectIsEarned, Status, Excused
<1>7. CASE Put(opt.outfile, Cut) /\ Exit(0) /\ env' = [env EXCEPT !.lost = TRUE]
  <2>1. out'.shown = << >> /\ out'.exit = 0 /\ ~env'.fault /\ env'.lost
    BY <1>1, <1>2, <1>7 DEF Exit
  <2>2. QED
    BY <1>5, <1>7, <2>1 DEF EffectIsEarned, Status, Excused
<1>8. CASE Put(opt.outfile, Cut) /\ Exit(1) /\ Fault
  <2>1. out'.shown = << >> /\ out'.exit = 1 /\ env'.fault
    BY <1>1, <1>2, <1>8 DEF Exit, Fault
  <2>2. QED
    BY <1>5, <1>8, <2>1 DEF EffectIsEarned, Status, Excused
<1>9. CASE UNCHANGED files /\ out'.shown = << >>
  BY <1>1, <1>9 DEF EffectIsEarned
<1>10. (UNCHANGED out \/ Exit(1)) => out'.shown = << >>
  BY <1>1, <1>2 DEF Exit
<1>11. QED
  BY <1>4, <1>6, <1>7, <1>8, <1>9, <1>10 DEF Deliver

LEMMA EffectStep ==
  ASSUME Inv, [Next]_vars
  PROVE  EffectIsEarned'
<1> USE DEF EffectIsEarned, Ended, Status, Excused
<1>1. CASE Deliver
  BY <1>1, DeliverStep
<1>2. CASE WriteShare
  <2>1. ~env.fault /\ out.exit = 0
    BY <1>2 DEF WriteShare, Inv, Quiet
  <2>2. QED
    BY <1>2, <2>1, WriteTurn
<1>3. CASE SplitDone
  <2>1. /\ SharesWritten /\ DOMAIN before.files \subseteq DOMAIN files /\ ~env.fault
        /\ UNCHANGED <<files, splits, opt, mem, before, env>>
        /\ out'.shown = out.shown /\ out'.exit = 0
    BY <1>3 DEF SplitDone, Inv, Shape, Quiet, Writing, Exit, ghost
  <2>2. SharesWritten'
    BY <2>1, StillWritten DEF Inv
  <2>3. QED
    BY <2>1, <2>2
<1>4. CASE UNCHANGED vars
  <2>1. SharesWritten => SharesWritten'
    BY <1>4, StillWritten DEF vars, Inv
  <2>2. SecretDelivered => SecretDelivered'
    BY <1>4, Zenon DEF vars, SecretDelivered, Found, Accepts, Kept
  <2>3. QED
    BY <1>4, <2>1, <2>2 DEF vars, Inv
<1>5. CASE Begin
  BY <1>5 DEF Begin
<1>6. CASE Main \/ cmd_split \/ cmd_combine \/ cmd_inspect \/ on_run
           \/ start_job
  <2>1. /\ files' = before'.files /\ out'.shown = << >>
    BY <1>6 DEF Main, cmd_split, SplitValue, SplitSeal, SplitUnexpected,
                cmd_combine, CombineOption, CombinePath, cmd_inspect, on_run,
                start_job,
                Goto, Exit, world, ghost, Inv, Shape, Quiet
  <2>2. QED
    BY <2>1
<1>7. CASE Gather \/ AskToSeal \/ Confirm \/ AllocSplit \/ pqshard_split
           \/ AllocCombine \/ ReadShare \/ AskToCombine \/ pqshard_combine
  <2>1. /\ files' = before'.files /\ out'.shown = << >>
    BY <1>7 DEF Gather, AskToSeal, Confirm, AllocSplit, Alloc, pqshard_split,
                AllocCombine, ReadShare, AskToCombine, pqshard_combine,
                Goto, Exit, ghost, Inv, Shape, Quiet
  <2>2. QED
    BY <2>1
<1>8. QED
  BY <1>1, <1>2, <1>3, <1>4, <1>5, <1>6, <1>7 DEF Next

---------------------------------------------------------------------------
(* The invariant, and what it says.                                         *)

THEOREM Invariance == Spec => []Inv
<1>1. Init => Inv
  BY DEF Init, Inv, Shape, Labels, Heap, Quiet, Writing, Reading, EffectIsEarned,
         Ended, Defaults, NoMem, NoOut, StartsSplit, StartsCombine
<1>2. Inv /\ [Next]_vars => Inv'
  BY ShapeStep, HeapStep, QuietStep, WritingStep, ReadingStep, EffectStep DEF Inv
<1>3. QED
  BY <1>1, <1>2, PTL DEF Spec

(* Whichever way a run ends, it has freed the secret, the shares and their  *)
(* arrays, but for one array of cli.c's where the other could not be had.   *)
THEOREM NoLeak == Spec => []BuffersFreed
<1>1. Inv => BuffersFreed
  BY DEF Inv, Heap, BuffersFreed, Ended
<1>2. QED
  BY <1>1, Invariance, PTL

(* What a run wrote or showed are the shares of the split it made, or the   *)
(* secret of the shares it was given, and its exit status says so; a run    *)
(* that refuses has changed no file (cmd_split, cmd_combine, do_split,      *)
(* do_combine).                                                             *)
THEOREM Effect == Spec => []EffectIsEarned
BY Invariance, PTL DEF Inv

================================================================================
