-------------------------------- MODULE GuiJobs --------------------------------
(***************************************************************************)
(* The GTK program (gui.c): windows, the worker thread each may have, the  *)
(* idle callback in which the main thread takes a worker's result, modal   *)
(* dialogs, the progress pulse, and the holds that keep the application    *)
(* running.  What a job computes is SplitCall and CombineCall.             *)
(*                                                                         *)
(* gtk_dialog_run runs the main loop inside the callback that calls it, so *)
(* idle callbacks, timeouts and activations of the application are         *)
(* dispatched while callbacks below are half way through.  dialogs is that *)
(* stack.  Of GTK is assumed (external): a modal dialog holds the input    *)
(* grab, so while one is up the user reaches only the newest; a window     *)
(* counts as a hold; g_application_run returns when no hold is left.       *)
(***************************************************************************)
EXTENDS Integers, Sequences, FiniteSets

CONSTANTS
  App,        (* App structures that activate may allocate: bounds windows   *)
  Job,        (* Job structures that on_run may allocate: bounds jobs        *)
  NULL

ASSUME NullAssumption == NULL \notin App /\ NULL \notin Job

VARIABLES
  app,        (* each App: "unborn", "live" or "freed"                      *)
  window,     (* it has a window (window_gone is FALSE)                     *)
  run_button, (* sensitive                                                  *)
  pulsing,    (* the flag                                                   *)
  pulse_id,   (* its timeout source is installed                            *)
  current_job,
  job,        (* each Job: "unborn", with its "worker", in the "idle" queue,*)
              (* in its result's "dialog", or "freed"                       *)
  owner,      (* job->app                                                   *)
  holds,      (* g_application_hold less g_application_release              *)
  dialogs,    (* the nested gtk_dialog_run calls, newest last               *)
  running     (* g_application_run has not returned                         *)

ui   == <<window, run_button, pulsing, pulse_id, current_job>>
vars == <<app, ui, job, owner, holds, dialogs, running>>

Frame == [app: App, job: Job \cup {NULL}]

(* The user can reach a window, not a dialog in front of it.                *)
Reachable(a) == running /\ window[a] /\ dialogs = <<>>

(* Mutant: the arguments in the wrong order.                                *)
PushSwapped(a, j) == dialogs' = Append(dialogs, [app |-> j, job |-> a])

Push(a, j) == dialogs' = Append(dialogs, [app |-> a, job |-> j])

stop_pulse(a) == /\ pulsing'  = [pulsing EXCEPT ![a] = FALSE]
                 /\ pulse_id' = [pulse_id EXCEPT ![a] = FALSE]

job_free(j) == job' = [job EXCEPT ![j] = "freed"]

---------------------------------------------------------------------------

(* The application starts with its first activation.                        *)
Init ==
  \E a \in App :
    /\ app = [b \in App |-> IF b = a THEN "live" ELSE "unborn"]
    /\ window = [b \in App |-> b = a]
    /\ run_button = [b \in App |-> TRUE]
    /\ pulsing = [b \in App |-> FALSE] /\ pulse_id = [b \in App |-> FALSE]
    /\ current_job = [b \in App |-> NULL]
    /\ job = [j \in Job |-> "unborn"] /\ owner = [j \in Job |-> NULL]
    /\ holds = 0 /\ dialogs = <<>> /\ running = TRUE

(* The user launches the program again: a second window in this process.    *)
activate(a) ==
  /\ running /\ app[a] = "unborn"
  /\ app' = [app EXCEPT ![a] = "live"]
  /\ window' = [window EXCEPT ![a] = TRUE]
  /\ UNCHANGED <<run_button, pulsing, pulse_id, current_job, job, owner,
                 holds, dialogs, running>>

(* About, a file chooser, or a warning of on_run or gather_secret, after    *)
(* which on_run returns.                                                    *)
OpenDialog(a) ==
  /\ Reachable(a)
  /\ Push(a, NULL)
  /\ UNCHANGED <<app, ui, job, owner, holds, running>>

(* Mutant: the button stays sensitive.                                      *)
on_runTwice(a, j) ==
  /\ Reachable(a) /\ run_button[a]
  /\ job[j] = "unborn"
  /\ job' = [job EXCEPT ![j] = "worker"] /\ owner' = [owner EXCEPT ![j] = a]
  /\ pulsing' = [pulsing EXCEPT ![a] = TRUE]
  /\ pulse_id' = [pulse_id EXCEPT ![a] = TRUE]
  /\ current_job' = [current_job EXCEPT ![a] = j]
  /\ holds' = holds + 1
  /\ UNCHANGED <<app, window, run_button, dialogs, running>>

(* on_run with a form it accepts: a new Job, and start_job.                 *)
on_run(a, j) ==
  /\ Reachable(a) /\ run_button[a]
  /\ job[j] = "unborn"
  /\ job' = [job EXCEPT ![j] = "worker"] /\ owner' = [owner EXCEPT ![j] = a]
  /\ run_button' = [run_button EXCEPT ![a] = FALSE]
  /\ pulsing' = [pulsing EXCEPT ![a] = TRUE]
  /\ pulse_id' = [pulse_id EXCEPT ![a] = TRUE]
  /\ current_job' = [current_job EXCEPT ![a] = j]
  /\ holds' = holds + 1
  /\ UNCHANGED <<app, window, dialogs, running>>

(* The same, but g_thread_try_new fails: start_job takes it all back.       *)
ThreadFails(a, j) ==
  /\ Reachable(a) /\ run_button[a]
  /\ job[j] = "unborn"
  /\ owner' = [owner EXCEPT ![j] = a]
  /\ current_job' = [current_job EXCEPT ![a] = NULL]
  /\ stop_pulse(a) /\ job_free(j)
  /\ UNCHANGED <<app, window, run_button, holds, dialogs, running>>

(* The worker has its result and calls g_idle_add.                          *)
worker_thread(j) ==
  /\ job[j] = "worker"
  /\ job' = [job EXCEPT ![j] = "idle"]
  /\ UNCHANGED <<app, ui, owner, holds, dialogs, running>>

---------------------------------------------------------------------------
(* job_finished_idle, in the main loop or one nested in it.                 *)

(* Mutants: free_app, or the release, is left out.                          *)
WindowGoneKeepsApp(a, j) ==
  /\ ~window[a]
  /\ job_free(j) /\ holds' = holds - 1
  /\ UNCHANGED <<app, run_button, dialogs>>

WindowGoneKeepsHold(a, j) ==
  /\ ~window[a]
  /\ job_free(j)
  /\ app' = [app EXCEPT ![a] = "freed"]
  /\ UNCHANGED <<run_button, holds, dialogs>>

WindowGone(a, j) ==
  /\ ~window[a]
  /\ job_free(j) /\ holds' = holds - 1
  /\ app' = [app EXCEPT ![a] = "freed"]
  /\ UNCHANGED <<run_button, dialogs>>

(* A split, or a secret saved to a file: a status line, no dialog.          *)
ResultInStatus(a, j) ==
  /\ window[a]
  /\ run_button' = [run_button EXCEPT ![a] = TRUE]
  /\ job_free(j) /\ holds' = holds - 1
  /\ UNCHANGED <<app, dialogs>>

(* Mutant: the button stays off while the dialog is up.                     *)
ResultInDialogButtonOff(a, j) ==
  /\ window[a]
  /\ Push(a, j) /\ job' = [job EXCEPT ![j] = "dialog"]
  /\ UNCHANGED <<app, run_button, holds>>

(* A recovered text or an error: a dialog, and the rest once it is closed.  *)
ResultInDialog(a, j) ==
  /\ window[a]
  /\ run_button' = [run_button EXCEPT ![a] = TRUE]
  /\ Push(a, j) /\ job' = [job EXCEPT ![j] = "dialog"]
  /\ UNCHANGED <<app, holds>>

job_finished_idle(j) ==
  /\ running /\ job[j] = "idle"
  /\ LET a == owner[j] IN
       /\ current_job' = [current_job EXCEPT ![a] = NULL]
       /\ stop_pulse(a)
       /\ WindowGone(a, j) \/ ResultInStatus(a, j) \/ ResultInDialog(a, j)
  /\ UNCHANGED <<window, owner, running>>

(* Mutant: the hold is kept after a result's dialog.                        *)
CloseDialogKeepsHold ==
  /\ dialogs # <<>>
  /\ dialogs' = SubSeq(dialogs, 1, Len(dialogs) - 1)
  /\ LET j == dialogs[Len(dialogs)].job IN
       \/ j = NULL /\ UNCHANGED job
       \/ j # NULL /\ job_free(j)
  /\ UNCHANGED <<app, ui, owner, holds, running>>

(* The user closes the dialog in front; the callback that opened it goes    *)
(* on: to its end, or to the rest of job_finished_idle.                     *)
CloseDialog ==
  /\ dialogs # <<>>
  /\ dialogs' = SubSeq(dialogs, 1, Len(dialogs) - 1)
  /\ LET j == dialogs[Len(dialogs)].job IN
       \/ j = NULL /\ UNCHANGED <<job, holds>>
       \/ j # NULL /\ job_free(j) /\ holds' = holds - 1
  /\ UNCHANGED <<app, ui, owner, running>>

(* Mutant: the App goes with its window.                                    *)
on_window_destroyFrees(a) ==
  /\ Reachable(a)
  /\ window' = [window EXCEPT ![a] = FALSE]
  /\ stop_pulse(a) /\ app' = [app EXCEPT ![a] = "freed"]
  /\ UNCHANGED <<run_button, current_job, job, owner, holds, dialogs, running>>

(* With a job under way the App is left to job_finished_idle.               *)
on_window_destroy(a) ==
  /\ Reachable(a)
  /\ window' = [window EXCEPT ![a] = FALSE]
  /\ \/ /\ current_job[a] # NULL
        /\ UNCHANGED <<app, pulsing, pulse_id>>
     \/ /\ current_job[a] = NULL
        /\ stop_pulse(a) /\ app' = [app EXCEPT ![a] = "freed"]
  /\ UNCHANGED <<run_button, current_job, job, owner, holds, dialogs, running>>

(* The timeout that removes itself; while pulsing it changes nothing here.  *)
pulse_cb(a) ==
  /\ running /\ pulse_id[a]
  /\ pulsing[a] => ~window[a]
  /\ pulse_id' = [pulse_id EXCEPT ![a] = FALSE]
  /\ UNCHANGED <<app, window, run_button, pulsing, current_job, job, owner,
                 holds, dialogs, running>>

(* g_application_run returns, and main with it.                             *)
Exit ==
  /\ running /\ dialogs = <<>>
  /\ holds = 0 /\ \A a \in App : ~window[a]
  /\ running' = FALSE
  /\ UNCHANGED <<app, ui, job, owner, holds, dialogs>>

Next ==
  \/ \E a \in App : activate(a) \/ OpenDialog(a) \/ on_window_destroy(a) \/ pulse_cb(a)
  \/ \E a \in App, j \in Job : on_run(a, j) \/ ThreadFails(a, j)
  \/ \E j \in Job : worker_thread(j) \/ job_finished_idle(j)
  \/ CloseDialog \/ Exit

(* The scheduler runs every worker and the main loop dispatches every idle  *)
(* callback, in a nested loop too.  The user owes the program nothing: no   *)
(* fairness on clicks, not even that a dialog is ever closed.               *)
Fairness ==
  /\ \A j \in Job : WF_vars(worker_thread(j)) /\ WF_vars(job_finished_idle(j))
  /\ WF_vars(Exit)

Spec == Init /\ [][Next]_vars /\ Fairness

---------------------------------------------------------------------------
(* Properties.                                                              *)

Pending(j) == job[j] \in {"worker", "idle", "dialog"}

(* Every variable keeps its type.                                           *)
TypeOK ==
  /\ app \in [App -> {"unborn", "live", "freed"}]
  /\ window \in [App -> BOOLEAN] /\ run_button \in [App -> BOOLEAN]
  /\ pulsing \in [App -> BOOLEAN] /\ pulse_id \in [App -> BOOLEAN]
  /\ current_job \in [App -> Job \cup {NULL}]
  /\ job \in [Job -> {"unborn", "worker", "idle", "dialog", "freed"}]
  /\ owner \in [Job -> App \cup {NULL}]
  /\ holds \in Int /\ dialogs \in Seq(Frame) /\ running \in BOOLEAN

(* No callback that is still to run, and none half way through under a      *)
(* dialog, holds a pointer to a freed App or Job: not a worker's job, not   *)
(* the pulse timeout, not a nested frame, not the window, not current_job.  *)
NoDanglingPointer ==
  /\ \A a \in App : window[a] \/ pulse_id[a] => app[a] = "live"
  /\ \A j \in Job : Pending(j) => owner[j] \in App /\ app[owner[j]] = "live"
  /\ \A a \in App : current_job[a] # NULL => job[current_job[a]] \in {"worker", "idle"}
  /\ \A i \in DOMAIN dialogs :
       /\ app[dialogs[i].app] = "live"
       /\ dialogs[i].job # NULL => job[dialogs[i].job] = "dialog"

(* One current_job is enough: a window never has two jobs under way, the    *)
(* one it has is current_job, the button is off exactly that long, and the  *)
(* progress pulse does not outlast it.                                      *)
OneJobPerWindow ==
  \A a \in App :
    /\ \A j \in Job : owner[j] = a /\ job[j] \in {"worker", "idle"} => current_job[a] = j
    /\ window[a] => (run_button[a] <=> current_job[a] = NULL)
    /\ pulse_id[a] => current_job[a] # NULL

(* Each job holds the application exactly until it is freed; so the program *)
(* never ends under a worker, and when it ends every App has been freed.    *)
HoldsBalance ==
  /\ holds = Cardinality({j \in Job : Pending(j)})
  /\ ~running => \A a \in App : app[a] # "live"

(* Whatever the user leaves open, a window gets its button back or is       *)
(* closed.                                                                  *)
ButtonComesBack == \A a \in App : ~run_button[a] ~> (run_button[a] \/ ~window[a])

(* A closed window's App is freed, even when a worker had to finish first.  *)
ClosedIsFreed == \A a \in App : app[a] = "live" /\ ~window[a] ~> app[a] = "freed"

(* With all windows closed the process ends, unless a new one is opened.    *)
AllClosedEnds == (\A a \in App : ~window[a]) ~> (~running \/ \E a \in App : window[a])

================================================================================
