---------------------------- MODULE GuiJobsProofs ----------------------------
(***************************************************************************)
(* Theorems about the windows, jobs and dialogs of gui.c, for any number   *)
(* of windows and of jobs, dialogs nested to any depth.  And about the     *)
(* files a job writes and reads, as a run of the command does: for every n,*)
(* thresholds, size of a share and length of a file.                       *)
(***************************************************************************)
EXTENDS GuiJobs, ShareFiles, ReadFile, FiniteSetTheorems, SequenceTheorems,
        TLAPS

PendingJobs == {j \in Job : Pending(j)}

(* An App before activate allocates it, with a window, and after; it lives  *)
(* as long as its window or its job does.                                   *)
Apps ==
  \A a \in App :
    /\ app[a] = "unborn" => run_button[a] /\ current_job[a] = NULL
    /\ app[a] = "live" <=> window[a] \/ current_job[a] # NULL
    /\ window[a] => (run_button[a] <=> current_job[a] = NULL)
    /\ pulse_id[a] => current_job[a] # NULL

(* current_job and the jobs with a worker or idle source name each other.   *)
Owners ==
  /\ \A a \in App : current_job[a] # NULL =>
       job[current_job[a]] \in {"worker", "idle"} /\ owner[current_job[a]] = a
  /\ \A j \in Job : job[j] \in {"worker", "idle"} =>
       owner[j] \in App /\ current_job[owner[j]] = j
  /\ \A j \in Job : job[j] = "dialog" => owner[j] \in App /\ window[owner[j]]

(* A window with a dialog cannot be closed; the jobs that wait in a dialog  *)
(* are each in one frame of the stack.                                      *)
Dialogs ==
  /\ \A d \in 1..Len(dialogs) :
       /\ window[dialogs[d].app]
       /\ dialogs[d].job # NULL => job[dialogs[d].job] = "dialog"
  /\ \A j \in Job : job[j] = "dialog" =>
       \E d \in 1..Len(dialogs) : dialogs[d].job = j
  /\ \A d, l \in 1..Len(dialogs) :
       dialogs[d].job = dialogs[l].job /\ dialogs[d].job # NULL => d = l

(* holds counts the pending jobs, and the program ends with none.           *)
Holds ==
  /\ IsFiniteSet(PendingJobs) /\ holds = Cardinality(PendingJobs)
  /\ ~running => holds = 0 /\ dialogs = <<>> /\ \A a \in App : ~window[a]

Inv == TypeOK /\ Apps /\ Owners /\ Dialogs /\ Holds

---------------------------------------------------------------------------
(* The holds: a job that starts or is freed moves the count by one.         *)

LEMMA PendingGrows ==
  ASSUME TypeOK, Holds, NEW j \in Job, job[j] = "unborn",
         job' = [job EXCEPT ![j] = "worker"], holds' = holds + 1
  PROVE  IsFiniteSet(PendingJobs') /\ holds' = Cardinality(PendingJobs')
<1>1. PendingJobs' = PendingJobs \cup {j} /\ j \notin PendingJobs
  BY DEF PendingJobs, Pending, TypeOK
<1>2. QED
  BY <1>1, FS_AddElement DEF Holds

LEMMA PendingShrinks ==
  ASSUME TypeOK, Holds, NEW j \in Job, Pending(j),
         job_free(j), holds' = holds - 1
  PROVE  IsFiniteSet(PendingJobs') /\ holds' = Cardinality(PendingJobs')
<1>1. PendingJobs' = PendingJobs \ {j} /\ j \in PendingJobs
  BY DEF PendingJobs, Pending, TypeOK, job_free
<1>2. QED
  BY <1>1, FS_RemoveElement DEF Holds

LEMMA PendingSame ==
  ASSUME Holds, UNCHANGED holds, \A j \in Job : Pending(j)' <=> Pending(j)
  PROVE  IsFiniteSet(PendingJobs') /\ holds' = Cardinality(PendingJobs')
<1>1. PendingJobs' = PendingJobs
  BY DEF PendingJobs
<1>2. QED
  BY <1>1 DEF Holds

(* While a job is pending the application is held.                          *)
LEMMA Held ==
  ASSUME Holds, NEW j \in Job, Pending(j)
  PROVE  holds # 0
<1>1. j \in PendingJobs
  BY DEF PendingJobs
<1>2. QED
  BY <1>1, FS_EmptySet DEF Holds

(* The stack of nested dialogs, as a function of the call's depth.          *)
LEMMA PushedFrame ==
  ASSUME TypeOK, NEW a \in App, NEW j \in Job \cup {NULL}, Push(a, j)
  PROVE  /\ dialogs' \in Seq(Frame)
         /\ Len(dialogs) \in Nat /\ Len(dialogs') = Len(dialogs) + 1
         /\ \A d \in 1..Len(dialogs) : dialogs'[d] = dialogs[d]
         /\ dialogs'[Len(dialogs) + 1] = [app |-> a, job |-> j]
<1>1. [app |-> a, job |-> j] \in Frame /\ dialogs \in Seq(Frame)
  BY DEF Frame, TypeOK
<1>2. QED
  BY <1>1, AppendProperties, LenProperties DEF Push

LEMMA PoppedFrame ==
  ASSUME TypeOK, dialogs # <<>>,
         dialogs' = SubSeq(dialogs, 1, Len(dialogs) - 1)
  PROVE  /\ dialogs' \in Seq(Frame)
         /\ Len(dialogs) \in Nat \ {0} /\ Len(dialogs') = Len(dialogs) - 1
         /\ \A d \in 1..Len(dialogs') : dialogs'[d] = dialogs[d]
         /\ \A d \in 1..Len(dialogs) : dialogs[d] \in Frame
<1>1. dialogs \in Seq(Frame)
  BY DEF TypeOK
<1>2. Len(dialogs) \in Nat \ {0}
  BY <1>1, EmptySeq
<1>3. \A d \in 1..Len(dialogs) : dialogs[d] \in Frame
  BY <1>1, ElementOfSeq
<1> DEFINE m == Len(dialogs) - 1
<1>4. m \in Nat /\ 1..m \subseteq 1..Len(dialogs)
  BY <1>2
<1>5. \A d \in 1..m : dialogs[d] \in Frame
  BY <1>3, <1>4
<1>6. dialogs' = SubSeq(dialogs, 1, m)
  OBVIOUS
<1> HIDE DEF m
<1>7. /\ dialogs' \in Seq(Frame)
      /\ Len(dialogs') = IF 1 <= m THEN m - 1 + 1 ELSE 0
      /\ \A d \in 1..(m - 1 + 1) : dialogs'[d] = dialogs[1 + d - 1]
  BY <1>4, <1>5, <1>6, SubSeqProperties
<1>8. Len(dialogs') = m /\ \A d \in 1..m : dialogs'[d] = dialogs[d]
  BY <1>4, <1>7
<1>9. QED
  BY <1>2, <1>3, <1>7, <1>8 DEF m

LEMMA Frames ==
  ASSUME TypeOK
  PROVE  \A d \in 1..Len(dialogs) :
           dialogs[d].app \in App /\ dialogs[d].job \in Job \cup {NULL}
<1>1. \A d \in 1..Len(dialogs) : dialogs[d] \in Frame
  BY ElementOfSeq DEF TypeOK
<1>2. QED
  BY <1>1 DEF Frame

(* With no dialog up the stack has no frame.                                *)
LEMMA NoFrame ==
  ASSUME TypeOK, dialogs = <<>>
  PROVE  Len(dialogs) = 0
BY EmptySeq

---------------------------------------------------------------------------
(* One lemma per action: it preserves the invariant.                        *)

LEMMA ActivateStep ==
  ASSUME Inv, NEW a \in App, activate(a)
  PROVE  Inv'
<1> USE DEF activate
<1>1. TypeOK'
  BY DEF Inv, TypeOK
<1>2. Apps'
  BY DEF Inv, TypeOK, Apps
<1>3. Owners'
  BY DEF Inv, TypeOK, Owners
<1>4. Dialogs'
  BY DEF Inv, TypeOK, Dialogs
<1>5. Holds'
  BY PendingSame DEF Inv, Holds, Pending
<1>6. QED
  BY <1>1, <1>2, <1>3, <1>4, <1>5 DEF Inv

LEMMA OpenDialogStep ==
  ASSUME Inv, NEW a \in App, OpenDialog(a)
  PROVE  Inv'
<1> USE DEF OpenDialog, ui
<1>1. /\ dialogs' \in Seq(Frame) /\ Len(dialogs') = 1
      /\ dialogs'[1] = [app |-> a, job |-> NULL]
      /\ Len(dialogs) = 0 /\ window[a] /\ running
  BY PushedFrame, NoFrame DEF Inv, Reachable
<1>2. TypeOK'
  BY <1>1 DEF Inv, TypeOK
<1>3. Apps'
  BY DEF Inv, Apps
<1>4. Owners'
  BY DEF Inv, Owners
<1>5. Dialogs'
  BY <1>1 DEF Inv, Dialogs
<1>6. Holds'
  BY <1>1, PendingSame DEF Inv, Holds, Pending
<1>7. QED
  BY <1>2, <1>3, <1>4, <1>5, <1>6 DEF Inv

LEMMA OnRunStep ==
  ASSUME Inv, NEW a \in App, NEW j \in Job, on_run(a, j)
  PROVE  Inv'
<1> USE NullAssumption DEF on_run
<1>1. window[a] /\ run_button[a] /\ running /\ current_job[a] = NULL
  BY DEF Inv, Apps, Reachable
<1>2. TypeOK'
  BY DEF Inv, TypeOK
<1>3. Apps'
  BY <1>1 DEF Inv, TypeOK, Apps
<1>4. Owners'
  BY <1>1 DEF Inv, TypeOK, Owners
<1>5. Dialogs'
  BY DEF Inv, TypeOK, Dialogs
<1>6. Holds'
  BY <1>1, PendingGrows DEF Inv, Holds
<1>7. QED
  BY <1>2, <1>3, <1>4, <1>5, <1>6 DEF Inv

LEMMA ThreadFailsStep ==
  ASSUME Inv, NEW a \in App, NEW j \in Job, ThreadFails(a, j)
  PROVE  Inv'
<1> USE NullAssumption DEF ThreadFails, stop_pulse, job_free
<1>1. window[a] /\ run_button[a] /\ running /\ current_job[a] = NULL
  BY DEF Inv, Apps, Reachable
<1>2. TypeOK'
  BY DEF Inv, TypeOK
<1>3. Apps'
  BY <1>1 DEF Inv, TypeOK, Apps
<1>4. Owners'
  BY <1>1 DEF Inv, TypeOK, Owners
<1>5. Dialogs'
  BY DEF Inv, TypeOK, Dialogs
<1>6. Holds'
  BY <1>1, PendingSame DEF Inv, TypeOK, Holds, Pending
<1>7. QED
  BY <1>2, <1>3, <1>4, <1>5, <1>6 DEF Inv

LEMMA WorkerStep ==
  ASSUME Inv, NEW j \in Job, worker_thread(j)
  PROVE  Inv'
<1> USE DEF worker_thread, ui
<1>1. TypeOK'
  BY DEF Inv, TypeOK
<1>2. Apps'
  BY DEF Inv, Apps
<1>3. Owners'
  BY DEF Inv, TypeOK, Owners
<1>4. Dialogs'
  BY DEF Inv, TypeOK, Dialogs
<1>5. Holds'
  BY PendingSame DEF Inv, TypeOK, Holds, Pending
<1>6. QED
  BY <1>1, <1>2, <1>3, <1>4, <1>5 DEF Inv

(* The frame popped was the only one of its job.                            *)
LEMMA CloseDialogStep ==
  ASSUME Inv, CloseDialog
  PROVE  Inv'
<1> DEFINE top == dialogs[Len(dialogs)]
<1>1. /\ dialogs' \in Seq(Frame)
      /\ Len(dialogs) \in Nat \ {0} /\ Len(dialogs') = Len(dialogs) - 1
      /\ \A d \in 1..Len(dialogs') : dialogs'[d] = dialogs[d]
      /\ \A d \in 1..Len(dialogs) : dialogs[d] \in Frame
  BY PoppedFrame DEF Inv, CloseDialog
<1>2. top \in Frame /\ top.job \in Job \cup {NULL}
  BY <1>1 DEF Frame
<1>3. \/ top.job = NULL /\ UNCHANGED <<job, holds>>
      \/ top.job # NULL /\ job_free(top.job) /\ holds' = holds - 1
  BY DEF CloseDialog
<1>4. running /\ UNCHANGED <<app, ui, owner, running>>
  BY DEF CloseDialog, Inv, Holds
<1>5. top.job # NULL => top.job \in Job /\ job[top.job] = "dialog"
  BY <1>1, <1>2 DEF Inv, Dialogs
<1>6. TypeOK'
  <2>1. job' \in [Job -> {"unborn", "worker", "idle", "dialog", "freed"}]
    BY <1>3 DEF Inv, TypeOK, job_free
  <2>2. holds' \in Int
    BY <1>3 DEF Inv, TypeOK
  <2>3. QED
    BY <1>1, <1>4, <2>1, <2>2 DEF Inv, TypeOK, ui
<1>7. Apps'
  BY <1>4 DEF Inv, Apps, ui
<1>8. Owners'
  BY <1>3, <1>4, <1>5 DEF Inv, TypeOK, Owners, ui, job_free
<1>9. Dialogs'
  <2>1. \A j \in Job : job'[j] = "dialog" => job[j] = "dialog" /\ j # top.job
    BY <1>3, <1>5, NullAssumption DEF Inv, TypeOK, job_free
  <2>2. \A j \in Job : job'[j] = "dialog" =>
          \E d \in 1..Len(dialogs') : dialogs'[d].job = j
    BY <1>1, <2>1 DEF Inv, Dialogs
  <2>3. \A d \in 1..Len(dialogs') : dialogs[d].job # NULL =>
          /\ dialogs[d].job \in Job /\ job[dialogs[d].job] = "dialog"
          /\ dialogs[d].job # top.job
    BY <1>1 DEF Inv, Dialogs, Frame
  <2>4. \A d \in 1..Len(dialogs') :
          dialogs'[d].job # NULL => job'[dialogs'[d].job] = "dialog"
    BY <1>1, <1>3, <1>5, <2>3 DEF Inv, TypeOK, job_free
  <2>5. \A d \in 1..Len(dialogs') : window'[dialogs'[d].app]
    BY <1>1, <1>4 DEF Inv, Dialogs, ui
  <2>6. \A d, l \in 1..Len(dialogs') :
          dialogs'[d].job = dialogs'[l].job /\ dialogs'[d].job # NULL => d = l
    BY <1>1 DEF Inv, Dialogs
  <2>7. QED
    BY <2>2, <2>4, <2>5, <2>6 DEF Dialogs
<1>10. Holds'
  <2>1. CASE top.job = NULL
    BY <1>3, <1>4, <2>1, PendingSame DEF Inv, Holds, Pending
  <2>2. CASE top.job # NULL
    BY <1>3, <1>4, <1>5, <2>2, PendingShrinks DEF Inv, Holds, Pending
  <2>3. QED
    BY <2>1, <2>2
<1>11. QED
  BY <1>6, <1>7, <1>8, <1>9, <1>10 DEF Inv

LEMMA DestroyStep ==
  ASSUME Inv, NEW a \in App, on_window_destroy(a)
  PROVE  Inv'
<1> USE DEF on_window_destroy, stop_pulse
<1>1. /\ running /\ window[a] /\ Len(dialogs) = 0 /\ dialogs = <<>>
      /\ app[a] = "live"
  BY NoFrame DEF Inv, Apps, Reachable
<1>2. \A j \in Job : job[j] # "dialog"
  BY <1>1 DEF Inv, Dialogs
<1>3. TypeOK'
  BY DEF Inv, TypeOK
<1>4. Apps'
  BY <1>1 DEF Inv, TypeOK, Apps
<1>5. Owners'
  BY <1>2 DEF Inv, TypeOK, Owners
<1>6. Dialogs'
  BY <1>1, <1>2 DEF Inv, Dialogs
<1>7. Holds'
  BY <1>1, PendingSame DEF Inv, Holds, Pending
<1>8. QED
  BY <1>3, <1>4, <1>5, <1>6, <1>7 DEF Inv

LEMMA PulseStep ==
  ASSUME Inv, NEW a \in App, pulse_cb(a)
  PROVE  Inv'
<1> USE DEF pulse_cb
<1>1. TypeOK'
  BY DEF Inv, TypeOK
<1>2. Apps'
  BY DEF Inv, TypeOK, Apps
<1>3. Owners'
  BY DEF Inv, Owners
<1>4. Dialogs'
  BY DEF Inv, Dialogs
<1>5. Holds'
  BY PendingSame DEF Inv, Holds, Pending
<1>6. QED
  BY <1>1, <1>2, <1>3, <1>4, <1>5 DEF Inv

LEMMA ExitStep ==
  ASSUME Inv, Exit
  PROVE  Inv'
<1> USE DEF Exit, ui
<1>1. TypeOK'
  BY DEF Inv, TypeOK
<1>2. Apps' /\ Owners' /\ Dialogs'
  BY DEF Inv, Apps, Owners, Dialogs
<1>3. Holds'
  BY PendingSame DEF Inv, Holds, Pending
<1>4. QED
  BY <1>1, <1>2, <1>3 DEF Inv

(* What every idle callback finds: the window's only job, not in a dialog;  *)
(* and what it does before it looks at the window.                          *)
TakesResult(a, j) ==
  /\ running /\ job[j] = "idle" /\ owner[j] = a
  /\ current_job[a] = j /\ app[a] = "live"
  /\ current_job' = [current_job EXCEPT ![a] = NULL]
  /\ stop_pulse(a)
  /\ UNCHANGED <<window, owner, running>>

LEMMA IdleJob ==
  ASSUME Inv, NEW j \in Job, job_finished_idle(j)
  PROVE  \E a \in App :
           /\ TakesResult(a, j)
           /\ WindowGone(a, j) \/ ResultInStatus(a, j) \/ ResultInDialog(a, j)
<1>1. owner[j] \in App /\ current_job[owner[j]] = j
  BY DEF job_finished_idle, Inv, Owners
<1>2. app[owner[j]] = "live"
  BY <1>1, NullAssumption DEF Inv, Apps
<1>3. QED
  BY <1>1, <1>2 DEF job_finished_idle, TakesResult

(* The window was closed under the job: the App is freed with it.           *)
LEMMA WindowGoneStep ==
  ASSUME Inv, NEW a \in App, NEW j \in Job,
         TakesResult(a, j), WindowGone(a, j)
  PROVE  Inv'
<1> USE DEF TakesResult, WindowGone, stop_pulse, job_free
<1>1. TypeOK'
  BY DEF Inv, TypeOK
<1>2. Apps'
  BY NullAssumption DEF Inv, TypeOK, Apps
<1>3. Owners'
  BY NullAssumption DEF Inv, TypeOK, Owners
<1>4. Dialogs'
  <2>1. \A l \in Job : job'[l] = "dialog" <=> job[l] = "dialog"
    BY DEF Inv, TypeOK
  <2>2. \A d \in 1..Len(dialogs) : dialogs[d].job \in Job \cup {NULL}
    BY Frames DEF Inv
  <2>3. QED
    BY <2>1, <2>2 DEF Inv, Dialogs
<1>5. Holds'
  BY PendingShrinks DEF Inv, Holds, Pending
<1>6. QED
  BY <1>1, <1>2, <1>3, <1>4, <1>5 DEF Inv

LEMMA ResultInStatusStep ==
  ASSUME Inv, NEW a \in App, NEW j \in Job,
         TakesResult(a, j), ResultInStatus(a, j)
  PROVE  Inv'
<1> USE DEF TakesResult, ResultInStatus, stop_pulse, job_free
<1>1. TypeOK'
  BY DEF Inv, TypeOK
<1>2. Apps'
  BY NullAssumption DEF Inv, TypeOK, Apps
<1>3. Owners'
  BY NullAssumption DEF Inv, TypeOK, Owners
<1>4. Dialogs'
  BY SMTT(30) DEF Inv, TypeOK, Dialogs
<1>5. Holds'
  BY PendingShrinks DEF Inv, Holds, Pending
<1>6. QED
  BY <1>1, <1>2, <1>3, <1>4, <1>5 DEF Inv

(* The result's dialog may open over other windows' dialogs, and over this  *)
(* window's own.                                                            *)
LEMMA ResultInDialogStep ==
  ASSUME Inv, NEW a \in App, NEW j \in Job,
         TakesResult(a, j), ResultInDialog(a, j)
  PROVE  Inv'
<1> USE DEF TakesResult, ResultInDialog, stop_pulse
<1>0. owner[j] = a /\ window[a]
  OBVIOUS
<1>1. /\ dialogs' \in Seq(Frame)
      /\ Len(dialogs) \in Nat /\ Len(dialogs') = Len(dialogs) + 1
      /\ \A d \in 1..Len(dialogs) : dialogs'[d] = dialogs[d]
      /\ dialogs'[Len(dialogs) + 1] = [app |-> a, job |-> j]
  BY PushedFrame DEF Inv
<1>2. TypeOK'
  BY <1>1 DEF Inv, TypeOK
<1>3. Apps'
  BY NullAssumption DEF Inv, TypeOK, Apps
<1>4. Owners'
  BY NullAssumption DEF Inv, TypeOK, Owners
<1>5. Dialogs'
  <2>1. \A d \in 1..Len(dialogs) : dialogs'[d].job # j
    BY <1>1, NullAssumption DEF Inv, Dialogs
  <2>2. \A l \in Job : job'[l] = "dialog" <=> job[l] = "dialog" \/ l = j
    BY DEF Inv, TypeOK
  <2>3. \A d \in 1..Len(dialogs') :
          d \in 1..Len(dialogs) \/ d = Len(dialogs) + 1
    BY <1>1
  <2>4. \A d \in 1..Len(dialogs) : dialogs[d].job \in Job \cup {NULL}
    BY Frames DEF Inv
  <2>5. \A d \in 1..Len(dialogs') :
          /\ window'[dialogs'[d].app]
          /\ dialogs'[d].job # NULL => job'[dialogs'[d].job] = "dialog"
    BY <1>1, <2>2, <2>3, <2>4 DEF Inv, Dialogs
  <2>6. \A l \in Job : job'[l] = "dialog" =>
          \E d \in 1..Len(dialogs') : dialogs'[d].job = l
    BY <1>1, <2>2 DEF Inv, Dialogs
  <2>7. \A d, l \in 1..Len(dialogs') :
          dialogs'[d].job = dialogs'[l].job /\ dialogs'[d].job # NULL => d = l
    BY <1>1, <2>1, <2>3 DEF Inv, Dialogs
  <2>8. QED
    BY <2>5, <2>6, <2>7 DEF Dialogs
<1>6. Holds'
  <2>1. \A l \in Job : Pending(l)' <=> Pending(l)
    BY DEF Inv, TypeOK, Pending
  <2>2. QED
    BY <2>1, PendingSame DEF Inv, Holds
<1>7. QED
  BY <1>2, <1>3, <1>4, <1>5, <1>6 DEF Inv

---------------------------------------------------------------------------
(* The theorems.                                                            *)

THEOREM Invariance == Spec => []Inv
<1>1. Init => Inv
  <2> SUFFICES ASSUME Init PROVE Inv
    OBVIOUS
  <2>1. TypeOK
    BY EmptySeq DEF Init, TypeOK
  <2>2. Len(dialogs) = 0
    BY <2>1, NoFrame DEF Init
  <2>3. Apps /\ Owners
    BY NullAssumption, ZenonT(30) DEF Init, Apps, Owners
  <2>4. Dialogs
    BY <2>2 DEF Init, Dialogs
  <2>5. PendingJobs = {}
    BY DEF Init, PendingJobs, Pending
  <2>6. Holds
    BY <2>5, FS_EmptySet DEF Init, Holds
  <2>7. QED
    BY <2>1, <2>3, <2>4, <2>6 DEF Inv
<1>2. Inv /\ [Next]_vars => Inv'
  <2> SUFFICES ASSUME Inv, [Next]_vars PROVE Inv'
    OBVIOUS
  <2>1. ASSUME NEW j \in Job, job_finished_idle(j) PROVE Inv'
    BY <2>1, IdleJob, WindowGoneStep, ResultInStatusStep, ResultInDialogStep
  <2>2. CASE UNCHANGED vars
    BY <2>2 DEF vars, ui, Inv, TypeOK, Apps, Owners, Dialogs, Holds,
                PendingJobs, Pending
  <2>3. QED
    BY <2>1, <2>2, ActivateStep, OpenDialogStep, DestroyStep, PulseStep,
       OnRunStep, ThreadFailsStep, WorkerStep, CloseDialogStep, ExitStep
    DEF Next
<1>3. QED
  BY <1>1, <1>2, PTL DEF Spec

(* Every variable of the program keeps its type.                            *)
THEOREM TypeCorrect == Spec => []TypeOK
BY Invariance, PTL DEF Inv

(* No callback still to run, no nested frame and no window points at a      *)
(* freed App or Job (gui.c's job_finished_idle and on_window_destroy).      *)
THEOREM PointersLive == Spec => []NoDanglingPointer
<1>1. Inv => NoDanglingPointer
  <2> SUFFICES ASSUME Inv PROVE NoDanglingPointer
    OBVIOUS
  <2>1. \A a \in App : window[a] \/ pulse_id[a] => app[a] = "live"
    BY DEF Inv, Apps
  <2>2. \A j \in Job :
          Pending(j) => owner[j] \in App /\ app[owner[j]] = "live"
    BY NullAssumption DEF Inv, Apps, Owners, Pending
  <2>3. \A a \in App :
          current_job[a] # NULL => job[current_job[a]] \in {"worker", "idle"}
    BY DEF Inv, Owners
  <2>4. DOMAIN dialogs = 1..Len(dialogs)
    BY LenProperties DEF Inv, TypeOK
  <2>5. \A d \in 1..Len(dialogs) : dialogs[d].app \in App
    BY Frames DEF Inv
  <2>6. \A d \in DOMAIN dialogs :
          /\ app[dialogs[d].app] = "live"
          /\ dialogs[d].job # NULL => job[dialogs[d].job] = "dialog"
    BY <2>1, <2>4, <2>5 DEF Inv, Dialogs
  <2>7. QED
    BY <2>1, <2>2, <2>3, <2>6 DEF NoDanglingPointer
<1>2. QED
  BY <1>1, Invariance, PTL

(* A window never has two jobs under way, and its button tells (on_run).    *)
THEOREM OneJob == Spec => []OneJobPerWindow
<1>1. Inv => OneJobPerWindow
  BY DEF Inv, Apps, Owners, OneJobPerWindow
<1>2. QED
  BY <1>1, Invariance, PTL

(* g_application_hold and g_application_release match, so the program ends  *)
(* only when every job is freed, and every App with it.                     *)
THEOREM HoldsMatch == Spec => []HoldsBalance
<1>1. Inv => HoldsBalance
  <2> SUFFICES ASSUME Inv PROVE HoldsBalance
    OBVIOUS
  <2>1. holds = Cardinality({j \in Job : Pending(j)})
    BY DEF Inv, Holds, PendingJobs
  <2>2. ASSUME ~running, NEW a \in App PROVE app[a] # "live"
    <3>1. ~window[a] /\ holds = 0
      BY <2>2 DEF Inv, Holds
    <3>2. ASSUME current_job[a] # NULL PROVE FALSE
      <4>1. current_job[a] \in Job /\ Pending(current_job[a])
        BY <3>2 DEF Inv, TypeOK, Owners, Pending
      <4>2. QED
        BY <3>1, <4>1, Held DEF Inv
    <3>3. QED
      BY <3>1, <3>2 DEF Inv, Apps
  <2>3. QED
    BY <2>1, <2>2 DEF HoldsBalance
<1>2. QED
  BY <1>1, Invariance, PTL

---------------------------------------------------------------------------
(* Share files being written over older ones (ShareFiles): with one writer  *)
(* at work, neither its success nor its death at any point loses the        *)
(* secret.                                                                  *)

(* The files behind the writer are the new set's or lost; those before it   *)
(* are the old set's; the one it is at holds what it has written so far.    *)
Progress(w) ==
  /\ \A x \in Index : x < i[w] => Whole(w, x) \/ <<w, x>> \in lost
  /\ \A x \in Index : x > i[w] => Whole(Old, x)
  /\ pc[w] = "close" => \A b \in Block : b # size[w] =>
       file[i[w]][b] = IF b < size[w] THEN w ELSE Absent
  /\ pc[w] = "write" => file[i[w]] = [b \in Block |-> Absent]
  /\ pc[w] = "done" <=> i[w] = n + 1
  /\ \A x \in Index : <<w, x>> \in lost => x < i[w]

(* FilesInv is what every step preserves.                                   *)
FilesInv == FilesTypeOK /\ \A w \in Writer : Progress(w)

---------------------------------------------------------------------------

(* A share has a last block, and blocks before it.                          *)
LEMMA SizeBounds ==
  ASSUME NEW w \in Writer
  PROVE  /\ size[w] \in Block /\ size[w] \in Nat /\ size[w] >= 1
         /\ w \in Set /\ Old \in Set /\ n \in Nat /\ Absent \notin Set
         /\ \A m \in 0..(size[w] - 1) : \A b \in 1..m : b \in Block /\ b < size[w]
BY ShareFilesAssumption DEF Block, Set

(* A step that leaves the types and the bookkeeping of the only writer right. *)
LEMMA FilesStep ==
  ASSUME NEW w, Writer = {w}, FilesInv, [FilesNext]_files_vars
  PROVE  FilesInv'
<1> USE DEF FilesInv, Progress
<1>w. w \in Writer
  OBVIOUS
<1>b. /\ size[w] \in Block /\ size[w] \in Nat /\ size[w] >= 1
      /\ w \in Set /\ Old \in Set /\ n \in Nat /\ Absent \notin Set
      /\ \A m \in 0..(size[w] - 1) : \A b \in 1..m : b \in Block /\ b < size[w]
  BY <1>w, SizeBounds
<1>t. /\ file \in [Index -> [Block -> Set \cup {Absent}]]
      /\ pc \in [Writer -> {"open", "write", "close", "done", "failed", "stopped"}]
      /\ i \in [Writer -> 1..(n + 1)]
      /\ lost \subseteq Writer \X Index
  BY DEF FilesTypeOK
<1>i. i[w] \in 1..(n + 1) /\ i[w] \in Nat
  BY <1>t, <1>w, <1>b
<1>1. CASE OpenFails(w)
  BY <1>1, <1>w, <1>t, <1>i, <1>b DEF OpenFails, Goto, FilesTypeOK, Whole
<1>2. CASE Open(w)
  <2>1. i[w] \in Index
    BY <1>2, <1>t, <1>i, <1>b, <1>w DEF Open, Index
  <2>2. FilesTypeOK'
    BY <1>2, <2>1, <1>t, <1>w DEF Open, Goto, FilesTypeOK
  <2>3. Progress(w)'
    BY <1>2, <2>1, <1>t, <1>i, <1>b, <1>w DEF Open, Goto, Whole, Index
  <2> QED
    BY <2>2, <2>3
<1>3. CASE Write(w)
  <2>1. i[w] \in Index
    BY <1>3, <1>t, <1>i, <1>b, <1>w DEF Write, Index
  <2>2. PICK m \in 0..(size[w] - 1) :
          /\ Put(w, 1..m)
          /\ Goto(w, IF m = size[w] - 1 THEN "close" ELSE "failed")
    BY <1>3 DEF Write
  <2>3. /\ file' = [file EXCEPT ![i[w]] = [b \in Block |-> IF b \in 1..m THEN w ELSE file[i[w]][b]]]
        /\ UNCHANGED <<i, lost>>
        /\ pc' = [pc EXCEPT ![w] = IF m = size[w] - 1 THEN "close" ELSE "failed"]
    BY <1>3, <2>2 DEF Write, Put, Goto
  <2>4. FilesTypeOK'
    BY <2>3, <2>1, <1>t, <1>w, <1>b DEF FilesTypeOK
  <2>5. file'[i[w]] = [b \in Block |-> IF b \in 1..m THEN w ELSE Absent]
    BY <1>3, <2>1, <2>3, <1>t, <1>w DEF Write
  <2>6. \A x \in Index : x # i[w] => file'[x] = file[x]
    BY <2>1, <2>3, <1>t
  <2>7. Progress(w)'
    <3>1. pc'[w] = "close" => \A b \in Block : b # size[w] =>
            file'[i[w]][b] = IF b < size[w] THEN w ELSE Absent
      <4>1. pc'[w] = "close" => m = size[w] - 1
        BY <2>3, <1>t, <1>w
      <4>2. \A b \in Block : file'[i[w]][b] = IF b \in 1..m THEN w ELSE Absent
        BY <2>5
      <4>3. m = size[w] - 1 => \A b \in Block : b \in 1..m <=> b < size[w]
        BY <1>b DEF Block
      <4> QED
        BY <4>1, <4>2, <4>3
    <3>2. pc'[w] \notin {"write", "done"} /\ pc[w] = "write"
      BY <1>3, <2>3, <1>t, <1>w DEF Write
    <3> QED
      BY <3>1, <3>2, <2>1, <2>3, <2>6, <1>t, <1>i, <1>w, <1>b DEF Whole
  <2> QED
    BY <2>4, <2>7
<1>4. CASE Close(w)
  <2>1. i[w] \in Index /\ pc[w] = "close"
    BY <1>4, <1>t, <1>i, <1>b, <1>w DEF Close, Index
  <2>2. /\ i' = [i EXCEPT ![w] = i[w] + 1]
        /\ pc' = [pc EXCEPT ![w] = IF i[w] = n THEN "done" ELSE "open"]
    BY <1>4 DEF Close, Goto
  <2>3. i'[w] = i[w] + 1 /\ i'[w] \in 1..(n + 1)
        /\ pc'[w] = IF i[w] = n THEN "done" ELSE "open"
    BY <2>1, <2>2, <1>t, <1>w, <1>b DEF Index
  <2>6. pc'[w] \notin {"close", "write"} /\ (pc'[w] = "done" <=> i'[w] = n + 1)
    BY <2>3, <1>i, <1>b
  <2>4. CASE Put(w, {size[w]}) /\ UNCHANGED lost
    <3>1. file' = [file EXCEPT ![i[w]] =
                     [b \in Block |-> IF b \in {size[w]} THEN w ELSE file[i[w]][b]]]
      BY <2>4 DEF Put
    <3>2. file'[i[w]] = Blocks(w)
      <4>1. file'[i[w]] = [b \in Block |-> IF b = size[w] THEN w ELSE file[i[w]][b]]
        BY <3>1, <2>1, <1>t
      <4>2. \A b \in Block : b # size[w] =>
              file[i[w]][b] = IF b < size[w] THEN w ELSE Absent
        BY <2>1, <1>w
      <4>3. \A b \in Block : file'[i[w]][b] = IF b <= size[w] THEN w ELSE Absent
        BY <4>1, <4>2, <1>b DEF Block
      <4> QED
        BY <4>1, <4>3 DEF Blocks
    <3>3. \A x \in Index : x # i[w] => file'[x] = file[x]
      BY <2>1, <3>1, <1>t
    <3>4. FilesTypeOK'
      BY <3>1, <2>1, <2>2, <2>3, <2>4, <1>t, <1>w, <1>b DEF FilesTypeOK
    <3>5. \A x \in Index : x < i'[w] => Whole(w, x)' \/ <<w, x>> \in lost'
      BY <3>2, <3>3, <2>1, <2>3, <2>4, <1>i, <1>w DEF Whole, Index, Blocks
    <3>6. \A x \in Index : x > i'[w] => Whole(Old, x)'
      BY <3>3, <2>1, <2>3, <1>i, <1>w DEF Whole, Index, Blocks
    <3>7. \A x \in Index : <<w, x>> \in lost' => x < i'[w]
      BY <2>3, <2>4, <1>i, <1>w DEF Index
    <3>8. Progress(w)'
      BY <3>5, <3>6, <3>7, <2>3, <2>6, <2>4, <1>i, <1>b, <1>w
    <3> QED
      BY <3>4, <3>8
  <2>5. CASE lost' = lost \cup {<<w, i[w]>>} /\ UNCHANGED file
    <3>1. FilesTypeOK'
      BY <2>5, <2>1, <2>2, <2>3, <1>t, <1>w, <1>b DEF FilesTypeOK
    <3>2. \A x \in Index : x < i'[w] => Whole(w, x)' \/ <<w, x>> \in lost'
      BY <2>1, <2>3, <2>5, <1>i, <1>w DEF Whole, Index, Blocks
    <3>3. \A x \in Index : x > i'[w] => Whole(Old, x)'
      BY <2>1, <2>3, <2>5, <1>i, <1>w DEF Whole, Index, Blocks
    <3>4. \A x \in Index : <<w, x>> \in lost' => x < i'[w]
      BY <2>1, <2>3, <2>5, <1>i, <1>w DEF Index
    <3>5. Progress(w)'
      BY <3>2, <3>3, <3>4, <2>6, <2>3, <1>i, <1>b, <1>w
    <3> QED
      BY <3>1, <3>5
  <2> QED
    BY <1>4, <2>4, <2>5 DEF Close
<1>5. CASE Stop(w)
  BY <1>5, <1>w, <1>t, <1>i, <1>b DEF Stop, Goto, FilesTypeOK, Whole
<1>6. CASE UNCHANGED files_vars
  BY <1>6 DEF files_vars, FilesTypeOK, Whole
<1> QED
  BY <1>1, <1>2, <1>3, <1>4, <1>5, <1>6 DEF FilesNext

(* At the start every file is the old set's, whole.                         *)
LEMMA Start ==
  ASSUME FilesInit
  PROVE  FilesInv
<1>1. Blocks(Old) \in [Block -> Set \cup {Absent}]
  BY DEF Blocks, Set
<1>2. n \in Nat /\ n >= 1
  BY ShareFilesAssumption
<1>3. FilesTypeOK
  BY <1>1, <1>2 DEF FilesInit, FilesTypeOK
<1>4. ASSUME NEW w \in Writer PROVE Progress(w)
  BY <1>2, <1>4 DEF FilesInit, Progress, Whole, Index
<1> QED
  BY <1>3, <1>4 DEF FilesInv

(* As many files are lost as the auxiliary variable says.                   *)
LEMMA LostCount ==
  ASSUME NEW w, Writer = {w}, FilesTypeOK
  PROVE  LET L == {x \in Index : <<w, x>> \in lost} IN
         /\ IsFiniteSet(L) /\ IsFiniteSet(lost)
         /\ Cardinality(L) <= Cardinality(lost)
         /\ Cardinality(L) \in Nat /\ Cardinality(lost) \in Nat
<1> DEFINE L == {x \in Index : <<w, x>> \in lost}
           f == [x \in L |-> <<w, x>>]
<1>1. IsFiniteSet(Index)
  <2>1. 1 \in Int /\ n \in Int
    BY ShareFilesAssumption
  <2> QED
    BY <2>1, FS_Interval DEF Index
<1>2. IsFiniteSet(lost)
  <2>1. IsFiniteSet(Writer)
    BY FS_Singleton
  <2>2. IsFiniteSet(Writer \X Index)
    BY <1>1, <2>1, FS_Product
  <2> QED
    BY <2>2, FS_Subset DEF FilesTypeOK
<1>3. f \in Injection(L, lost)
  BY DEF Injection, IsInjective
<1>4. IsFiniteSet(L) /\ Cardinality(L) <= Cardinality(lost)
  BY <1>2, <1>3, FS_Injection
<1> QED
  BY <1>2, <1>4, FS_CardinalityType

(* Behind the writer there are all its shares but the lost ones, in front   *)
(* of it all the old ones; if the former are too few, the latter are not.   *)
LEMMA Survival ==
  ASSUME NEW w, Writer = {w}, FilesInv
  PROVE  OneSetSurvives
<1> DEFINE L == {x \in Index : <<w, x>> \in lost}
           New == {x \in Index : Whole(w, x)}
           Rest == {x \in Index : Whole(Old, x)}
<1>1. /\ n \in Nat /\ i[w] \in 1..(n + 1) /\ w \in Writer
      /\ threshold[Old] \in Nat /\ threshold[w] \in Nat
  BY ShareFilesAssumption DEF FilesInv, FilesTypeOK, Set, Index
<1>2. /\ IsFiniteSet(L) /\ Cardinality(L) <= Cardinality(lost)
      /\ Cardinality(L) \in Nat /\ Cardinality(lost) \in Nat
  BY LostCount DEF FilesInv
<1>3. IsFiniteSet(Index)
  BY <1>1, FS_Interval DEF Index
<1>4. /\ IsFiniteSet(New) /\ Cardinality(New) \in Nat
      /\ IsFiniteSet(Rest) /\ Cardinality(Rest) \in Nat
  BY <1>3, FS_Subset, FS_CardinalityType
<1>5. Cardinality(New) >= i[w] - 1 - Cardinality(lost)
  <2> DEFINE Behind == 1..(i[w] - 1)
  <2>1. IsFiniteSet(Behind) /\ Cardinality(Behind) = i[w] - 1
    <3>1. 1 \in Int /\ i[w] - 1 \in Int
      BY <1>1
    <3>2. IsFiniteSet(Behind) /\ Cardinality(Behind) = IF 1 > i[w] - 1 THEN 0 ELSE i[w] - 1 - 1 + 1
      BY <3>1, FS_Interval
    <3> HIDE DEF Behind
    <3> QED
      BY <3>2, <1>1
  <2>2. (Behind \ L) \subseteq New
    BY <1>1 DEF FilesInv, Progress, Index
  <2>3. Cardinality(Behind \ L) <= Cardinality(New)
    BY <2>2, <1>4, FS_Subset
  <2>4. Cardinality(Behind \ L) = Cardinality(Behind) - Cardinality(Behind \cap L)
    BY <2>1, FS_Difference
  <2>5. /\ Cardinality(Behind \cap L) <= Cardinality(L)
        /\ Cardinality(Behind \cap L) \in Nat
    BY <1>2, FS_Intersection, FS_CardinalityType
  <2>6. Cardinality(Behind \ L) \in Nat
    BY <2>1, FS_Difference, FS_CardinalityType
  <2> HIDE DEF Behind, New, L
  <2> QED
    BY <2>1, <2>3, <2>4, <2>5, <2>6, <1>1, <1>2, <1>4
<1>6. Cardinality(Rest) >= n - i[w]
  <2> DEFINE Ahead == (i[w] + 1)..n
  <2>1. IsFiniteSet(Ahead) /\ Cardinality(Ahead) >= n - i[w] /\ Cardinality(Ahead) \in Nat
    <3>1. i[w] + 1 \in Int /\ n \in Int
      BY <1>1
    <3>2. /\ IsFiniteSet(Ahead)
          /\ Cardinality(Ahead) = IF i[w] + 1 > n THEN 0 ELSE n - (i[w] + 1) + 1
      BY <3>1, FS_Interval
    <3> HIDE DEF Ahead
    <3> QED
      BY <3>2, <1>1
  <2>2. Ahead \subseteq Rest
    BY <1>1 DEF FilesInv, Progress, Index
  <2>3. Cardinality(Ahead) <= Cardinality(Rest)
    BY <2>2, <1>4, FS_Subset
  <2> HIDE DEF Ahead, Rest
  <2> QED
    BY <2>1, <2>3, <1>1, <1>4
<1>7. ASSUME threshold[Old] + threshold[w] + Cardinality(lost) <= n
      PROVE  Cardinality(New) >= threshold[w] \/ Cardinality(Rest) >= threshold[Old]
  <2> HIDE DEF New, Rest, L
  <2> QED
    BY <1>1, <1>2, <1>4, <1>5, <1>6, <1>7
<1> QED
  BY <1>7 DEF OneSetSurvives, Recoverable

---------------------------------------------------------------------------

(* With one writer, FilesInv holds throughout.                              *)
THEOREM FilesInvariance ==
  ASSUME NEW w, Writer = {w}
  PROVE  FilesSpec => []FilesInv
<1>1. FilesInit => FilesInv
  BY Start
<1>2. FilesInv /\ [FilesNext]_files_vars => FilesInv'
  BY FilesStep
<1> QED
  BY <1>1, <1>2, PTL DEF FilesSpec

(* A stop, a full disk or a file that cannot be opened, anywhere in the     *)
(* writing of a set over an older one, leaves one of the two recoverable    *)
(* (write_shares, cmd_split), if n is at least the sum of their thresholds  *)
(* and of the files fclose lost.                                            *)
THEOREM Survives ==
  ASSUME NEW w, Writer = {w}
  PROVE  FilesSpec => []OneSetSurvives
<1>1. FilesInv => OneSetSurvives
  BY Survival
<1> QED
  BY <1>1, FilesInvariance, PTL

(* A split that reports success has written all its shares but those lost   *)
(* in fclose, which it does not check.                                      *)
THEOREM Success ==
  ASSUME NEW w, Writer = {w}
  PROVE  FilesSpec => []SuccessIsWhole
<1>1. FilesInv => SuccessIsWhole
  BY ShareFilesAssumption DEF FilesInv, Progress, SuccessIsWhole, Index
<1> QED
  BY <1>1, FilesInvariance, PTL

---------------------------------------------------------------------------
(* How the two programs read a file (ReadFile), for files of every length:  *)
(* a read that succeeds is whole, and the command's limit lets every share  *)
(* by.                                                                      *)

(* The sizes read_all's buffer takes: 64 KiB, doubled up to eleven times.   *)
Caps == {65536, 131072, 262144, 524288, 1048576, 2097152, 4194304, 8388608,
         16777216, 33554432, 67108864, 134217728}

(* The command reads on only while there is room, and makes room only when  *)
(* there is none; its buffer is never past the second multiple of 64 MiB.   *)
CliReading ==
  tool = "cli" =>
    /\ step \in {"read", "grow"} => cap \in Caps /\ len <= length
    /\ step = "read" => len < cap
    /\ step = "grow" => len = cap
    /\ step = "returned" /\ rc # 0 => broken \/ length >= 2 * PQSHARD_MAX_SECRET

(* The window has asked for the size first.                                 *)
GuiReading ==
  tool = "gui" =>
    /\ step # "grow"
    /\ step = "read" => length <= cap

ReadInv ==
  /\ ReadTypeOK
  /\ step = "idle" => cap = 0 /\ len = 0
  /\ CliReading /\ GuiReading
  /\ ReadIsWhole

---------------------------------------------------------------------------

LEMMA Limits ==
  /\ PQSHARD_MAX_SECRET \in Nat /\ PQSHARD_MAX_SECRET >= 4096
  /\ LongestShare \in Nat /\ LongestShare < 2 * PQSHARD_MAX_SECRET
BY SMT
DEF PQSHARD_MAX_SECRET, LongestShare, BlobLen, HDR_LEN, SEALED_PREFIX_LEN,
    HYBRID_BLOCK_LEN, AEAD_ABYTES, VERIFY_TAG_LEN

(* A buffer that is not past the limit may double; one that is has the last *)
(* of its sizes.                                                            *)
LEMMA Doubling ==
  ASSUME NEW c \in Caps
  PROVE  /\ c \in Nat /\ c > 0 /\ c <= 2 * PQSHARD_MAX_SECRET
         /\ c <= PQSHARD_MAX_SECRET => 2 * c \in Caps
         /\ c > PQSHARD_MAX_SECRET => c = 2 * PQSHARD_MAX_SECRET
BY SMT DEF Caps, PQSHARD_MAX_SECRET

LEMMA ReadStep ==
  ASSUME ReadInv, [ReadNext]_read_vars
  PROVE  ReadInv'
<1>0. /\ length \in Nat /\ len \in Nat /\ cap \in Nat /\ len <= cap
      /\ cap <= 2 * PQSHARD_MAX_SECRET /\ PQSHARD_MAX_SECRET \in Nat
  BY Limits, SizesAssumption DEF ReadInv, ReadTypeOK
<1> USE DEF ReadInv, ReadTypeOK, CliReading, GuiReading, ReadIsWhole, Return
<1>1. CASE Fails
  BY <1>0, <1>1 DEF Fails, Break
<1>2. CASE cli_open
  <2>1. cap' \in Caps
    BY <1>2, SMT DEF cli_open, Caps
  <2>2. cap' \in Nat /\ cap' > 0 /\ cap' <= 2 * PQSHARD_MAX_SECRET
    BY <2>1, Doubling
  <2>3. /\ step' = "read" /\ step = "idle" /\ tool = "cli"
        /\ UNCHANGED <<tool, length, len, rc, broken>>
    BY <1>2 DEF cli_open
  <2>4. QED
    BY <1>0, <2>1, <2>2, <2>3
<1>3. CASE read_all_grow
  <2>1. tool = "cli" /\ cap \in Caps /\ len = cap /\ len <= length
    BY <1>3 DEF read_all_grow
  <2>2. CASE cap > PQSHARD_MAX_SECRET
    <3>1. length >= 2 * PQSHARD_MAX_SECRET
      BY <1>0, <2>1, <2>2, Doubling
    <3>2. step' = "returned" /\ rc' = -2 /\ cap' = cap
      BY <1>0, <1>3, <2>2 DEF read_all_grow
    <3>3. QED
      BY <1>0, <1>3, <2>1, <3>1, <3>2 DEF read_all_grow
  <2>3. CASE cap <= PQSHARD_MAX_SECRET
    <3>1. 2 * cap \in Caps /\ cap > 0
      BY <2>1, <2>3, Doubling
    <3>2. step' = "read" /\ cap' = 2 * cap /\ rc' = rc
      BY <1>0, <1>3, <2>3 DEF read_all_grow
    <3>3. QED
      BY <1>0, <1>3, <2>1, <2>3, <3>1, <3>2 DEF read_all_grow
  <2>4. QED
    BY <1>0, <2>2, <2>3
<1>4. CASE read_all_fread
  <2>1. tool = "cli" /\ cap \in Caps /\ len < cap /\ len <= length
    BY <1>4 DEF read_all_fread
  <2>2. CASE length < cap
    BY <1>0, <1>4, <2>1, <2>2 DEF read_all_fread
  <2>3. CASE length >= cap
    BY <1>0, <1>4, <2>1, <2>3 DEF read_all_fread
  <2>4. QED
    BY <1>0, <2>2, <2>3
<1>5. CASE gui_measure
  <2>1. cap' \in Nat /\ cap' <= 2 * PQSHARD_MAX_SECRET /\ len <= cap'
    BY <1>0, <1>5, Limits DEF gui_measure
  <2>2. QED
    BY <1>0, <1>5, <2>1 DEF gui_measure
<1>6. CASE gui_fread
  BY <1>0, <1>6 DEF gui_fread
<1>7. CASE UNCHANGED read_vars
  BY <1>7 DEF read_vars
<1>8. QED
  BY <1>1, <1>2, <1>3, <1>4, <1>5, <1>6, <1>7 DEF ReadNext

THEOREM ReadInvariance ==
  ReadSpec => []ReadInv
<1>1. ReadInit => ReadInv
  <2> SUFFICES ASSUME ReadInit PROVE ReadInv
    OBVIOUS
  <2>1. cap \in 0..(2 * PQSHARD_MAX_SECRET) /\ len \in 0..cap
    BY Limits DEF ReadInit
  <2>2. QED
    BY <2>1 DEF ReadInit, ReadInv, ReadTypeOK, CliReading, GuiReading, ReadIsWhole
<1>2. QED
  BY <1>1, ReadStep, PTL DEF ReadSpec

(* Every variable keeps its type, and no read leaves its buffer, however    *)
(* long the file is (read_all in cli.c, read_file in gui.c).                *)
THEOREM ReadTypeCorrect ==
  ReadSpec => []ReadTypeOK
BY ReadInvariance, PTL DEF ReadInv

(* A read that succeeds has all of the file, also when the file ends where  *)
(* the buffer does.                                                         *)
THEOREM ReadWhole ==
  ReadSpec => []ReadIsWhole
BY ReadInvariance, PTL DEF ReadInv

(* read_all's limit is past every share that a split can write.             *)
THEOREM EveryShare ==
  ReadSpec => []CliReadsEveryShare
<1>1. ReadInv => CliReadsEveryShare
  BY Limits, SizesAssumption
  DEF ReadInv, ReadTypeOK, CliReading, CliReadsEveryShare, ReadsEveryShare
<1>2. QED
  BY <1>1, ReadInvariance, PTL

================================================================================
