----------------------------- MODULE AppLifecycle -----------------------------
(***************************************************************************)
(* The life of the application (app/app.cpp): run() registers sinks that   *)
(* point into its UiModel on two process-wide buses, starts a thread that  *)
(* refreshes the log panel and a thread that loads, assigns and writes,    *)
(* gives the screen to the user, waits for both threads when the user      *)
(* quits, and takes the worker's result.                                   *)
(*                                                                         *)
(* The buses (infra/progress_bus.cpp, ui/result_bus.cpp) copy a sink under *)
(* their mutex and call it after unlocking.  A copied sink keeps pointing  *)
(* to the model whatever happens to the bus, so nothing but the order of   *)
(* joins and destructors keeps a call away from a model that is gone.      *)
(***************************************************************************)
EXTENDS Integers, Sequences, FiniteSets

CONSTANTS
    Helpers,    \* the search's worker threads, see ParallelBatches
    StatusCalls,\* bound: status calls a search thread makes
    None        \* no pending call

ASSUME NoneAssumption == None \notin {"model", "noop"}
ASSUME StatusCallsAssumption == StatusCalls \in Nat
ASSUME HelpersAssumption == "worker" \notin Helpers

Status(text) == [bus |-> "progress", text |-> text]
Result(text) == [bus |-> "result",   text |-> text]

\* report_failure: the header, then the error in its place.
ReportFailure == <<Status("failed"), Status("error")>>

VARIABLES
    main,           \* where run() is
    model,          \* what the panels show: status and result; alive or not
    sinks,          \* the sinks on the progress and result buses
    running,        \* BackgroundThreads::running_
    log_thread,
    worker,         \* stage of the worker thread
    todo,           \* bus calls the worker makes before its next stage
    outcome,        \* result of the stages so far
    call,           \* the sink a worker or helper has copied and not called
    left,           \* status calls each helper may still make
    box,            \* WorkerResultBox::result_
    refresh,        \* ScopedRefreshLoop's thread and flag
    exit_result     \* what run() returns

work == <<worker, todo, outcome, call, left>>
vars == <<main, model, sinks, running, log_thread, work, box, refresh,
          exit_result>>

Callers == {"worker"} \cup Helpers

Init ==
    /\ main = "start"
    /\ model = [alive |-> FALSE, status |-> "none", panel |-> "none"]
    /\ sinks = [progress |-> "noop", result |-> "noop"]
    /\ running = TRUE
    /\ log_thread = "off"
    /\ worker = "off"
    /\ todo = <<>>
    /\ outcome = "ok"
    /\ call = [c \in Callers |-> None]
    /\ left = [h \in Helpers |-> StatusCalls]
    /\ box = "empty"
    /\ refresh = [thread |-> "off", running |-> TRUE]
    /\ exit_result = "none"

-----------------------------------------------------------------------------
(* Plausible defects of the definitions below: PROJECT.json names the       *)
(* property that each of them breaks.  No specification uses them.          *)

\* Two sinks of the same shape, registered the wrong way round.
Show_Swapped(msg) ==
    IF msg.bus = "progress" THEN [model EXCEPT !.panel = msg.text]
                            ELSE [model EXCEPT !.status = msg.text]

\* The rollback waits for a log thread that nobody has told to stop.
StartWorkerFails_NoFlag ==
    /\ main = "start_worker"
    /\ main' = "rollback"
    /\ UNCHANGED <<model, sinks, running, log_thread, work, box, refresh,
                   exit_result>>

\* The rollback lets the log thread go instead of waiting for it.
Rethrow_Detach ==
    /\ main = "rollback"
    /\ main' = "terminated"
    /\ model' = [model EXCEPT !.alive = FALSE]
    /\ sinks' = [progress |-> "noop", result |-> "noop"]
    /\ UNCHANGED <<running, log_thread, work, box, refresh, exit_result>>

\* running_ is not cleared before the joins.
StopBackground_NoFlag ==
    /\ main = "stop"
    /\ main' = "join_worker"
    /\ UNCHANGED <<model, sinks, running, log_thread, work, box, refresh,
                   exit_result>>

\* The worker is detached when the user quits.
JoinWorker_Detach ==
    /\ main = "join_worker"
    /\ main' = "join_log_thread"
    /\ UNCHANGED <<model, sinks, running, log_thread, work, box, refresh,
                   exit_result>>

\* The result of run_worker is dropped.
HandOff_Dropped ==
    /\ main # "terminated"
    /\ worker = "hand_off"
    /\ todo = <<>>
    /\ worker' = "done"
    /\ UNCHANGED <<main, model, sinks, running, log_thread, todo, outcome,
                   call, left, box, refresh, exit_result>>

\* A bus call is made again instead of the next one.
Deliver_Repeats(c) ==
    /\ main # "terminated"
    /\ call[c] # None
    /\ call' = [call EXCEPT ![c] = None]
    /\ UNCHANGED <<main, model, sinks, running, log_thread, worker, todo,
                   outcome, left, box, refresh, exit_result>>

-----------------------------------------------------------------------------
\* UiModel::set_status_lines and set_result_snapshot.
Show(msg) ==
    IF msg.bus = "progress" THEN [model EXCEPT !.status = msg.text]
                            ELSE [model EXCEPT !.panel = msg.text]

-----------------------------------------------------------------------------
(* run(), on the main thread                                               *)

\* The model, its sinks, the placeholder and the first status line.
SetUp ==
    /\ main = "start"
    /\ main' = "start_log_thread"
    /\ sinks' = [progress |-> "model", result |-> "model"]
    /\ model' = [alive |-> TRUE, status |-> "waiting", panel |-> "pending"]
    /\ UNCHANGED <<running, log_thread, work, box, refresh, exit_result>>

StartLogThread ==
    /\ main = "start_log_thread"
    /\ main' = "start_worker"
    /\ log_thread' = "check"
    /\ UNCHANGED <<model, sinks, running, work, box, refresh, exit_result>>

StartWorker ==
    /\ main = "start_worker"
    /\ main' = "start_ui"
    /\ worker' = "load"
    /\ UNCHANGED <<model, sinks, running, log_thread, todo, outcome, call,
                   left, box, refresh, exit_result>>

\* The worker's std::thread throws: the log thread is told to stop.
StartWorkerFails ==
    /\ main = "start_worker"
    /\ main' = "rollback"
    /\ running' = FALSE
    /\ UNCHANGED <<model, sinks, log_thread, work, box, refresh, exit_result>>

\* The log thread has been joined.  Nobody catches what is thrown again: the
\* language leaves open whether the locals of run() are destroyed before the
\* process is terminated.
Rethrow ==
    /\ main = "rollback"
    /\ log_thread = "done"
    /\ main' = "terminated"
    /\ \/ UNCHANGED <<model, sinks>>
       \/ /\ model' = [model EXCEPT !.alive = FALSE]
          /\ sinks' = [progress |-> "noop", result |-> "noop"]
    /\ UNCHANGED <<running, log_thread, work, box, refresh, exit_result>>

\* ui::run: the screen and the thread that asks it to redraw.
StartUi ==
    /\ main = "start_ui"
    /\ main' = "ui"
    /\ refresh' = [refresh EXCEPT !.thread = "check"]
    /\ UNCHANGED <<model, sinks, running, log_thread, work, box, exit_result>>

\* q, Esc or Ctrl+C ends screen.Loop, at any moment.  ~ScopedRefreshLoop.
Quit ==
    /\ main = "ui"
    /\ main' = "join_refresh"
    /\ refresh' = [refresh EXCEPT !.running = FALSE]
    /\ UNCHANGED <<model, sinks, running, log_thread, work, box, exit_result>>

JoinRefresh ==
    /\ main = "join_refresh"
    /\ refresh.thread = "done"
    /\ main' = "stop"
    /\ UNCHANGED <<model, sinks, running, log_thread, work, box, refresh,
                   exit_result>>

\* ~BackgroundThreads: running_ = false, join the worker, join the log thread.
StopBackground ==
    /\ main = "stop"
    /\ main' = "join_worker"
    /\ running' = FALSE
    /\ UNCHANGED <<model, sinks, log_thread, work, box, refresh, exit_result>>

JoinWorker ==
    /\ main = "join_worker"
    /\ worker = "done"
    /\ main' = "join_log_thread"
    /\ UNCHANGED <<model, sinks, running, log_thread, work, box, refresh,
                   exit_result>>

JoinLogThread ==
    /\ main = "join_log_thread"
    /\ log_thread = "done"
    /\ main' = "take"
    /\ UNCHANGED <<model, sinks, running, log_thread, work, box, refresh,
                   exit_result>>

\* worker_result.take(): "worker result missing" if nothing was set.
TakeResult ==
    /\ main = "take"
    /\ main' = "clear_progress"
    /\ exit_result' = IF box = "empty" THEN "missing" ELSE box
    /\ box' = "empty"
    /\ UNCHANGED <<model, sinks, running, log_thread, work, refresh>>

\* The locals of run() are destroyed in the reverse of their order.
ClearProgressSinks ==
    /\ main = "clear_progress"
    /\ main' = "clear_result"
    /\ sinks' = [sinks EXCEPT !.progress = "noop"]
    /\ UNCHANGED <<model, running, log_thread, work, box, refresh,
                   exit_result>>

ClearResultSink ==
    /\ main = "clear_result"
    /\ main' = "destroy_model"
    /\ sinks' = [sinks EXCEPT !.result = "noop"]
    /\ UNCHANGED <<model, running, log_thread, work, box, refresh,
                   exit_result>>

DestroyModel ==
    /\ main = "destroy_model"
    /\ main' = "exited"
    /\ model' = [model EXCEPT !.alive = FALSE]
    /\ UNCHANGED <<sinks, running, log_thread, work, box, refresh,
                   exit_result>>

Main ==
    \/ SetUp       \/ StartLogThread  \/ StartWorker \/ StartWorkerFails
    \/ Rethrow     \/ StartUi         \/ Quit        \/ JoinRefresh
    \/ StopBackground \/ JoinWorker   \/ JoinLogThread \/ TakeResult
    \/ ClearProgressSinks \/ ClearResultSink \/ DestroyModel

-----------------------------------------------------------------------------
(* The log thread and the redraw thread                                    *)

\* while (running) { model.set_log_lines(...); sleep }
LogThread ==
    /\ main # "terminated"
    /\ \/ /\ log_thread = "check"
          /\ log_thread' = IF running THEN "set_log_lines" ELSE "done"
       \/ /\ log_thread = "set_log_lines"
          /\ log_thread' = "check"
    /\ UNCHANGED <<main, model, sinks, running, work, box, refresh,
                   exit_result>>

\* while (running) { sleep; screen.PostEvent(...) }
RefreshThread ==
    /\ main # "terminated"
    /\ \/ /\ refresh.thread = "check"
          /\ refresh' = [refresh EXCEPT !.thread =
                            IF refresh.running THEN "post" ELSE "done"]
       \/ /\ refresh.thread = "post"
          /\ refresh' = [refresh EXCEPT !.thread = "check"]
    /\ UNCHANGED <<main, model, sinks, running, log_thread, work, box,
                   exit_result>>

-----------------------------------------------------------------------------
(* The worker thread                                                       *)

\* A stage ends, with its result and the bus calls it then makes.
EndStage(from, to, result, calls) ==
    /\ main # "terminated"
    /\ worker = from
    /\ todo = <<>>
    /\ worker' = to
    /\ outcome' = result
    /\ todo' = calls
    /\ UNCHANGED <<main, model, sinks, running, log_thread, call, left, box,
                   refresh, exit_result>>

\* data_source.load()
Load ==
    \/ EndStage("load", "override", "ok", <<>>)
    \/ EndStage("load", "hand_off", "error", ReportFailure)

\* apply_runtime_override_policy
Override ==
    \/ EndStage("override", "assign", "ok", <<>>)
    \/ EndStage("override", "hand_off", "error", ReportFailure)

AssignmentFailed == <<Result("unavailable")>> \o ReportFailure

\* The search's threads outlive it.
Assign_Detached ==
    \/ EndStage("assign", "write", "ok", <<Status("writing")>>)
    \/ EndStage("assign", "hand_off", "error", AssignmentFailed)

\* run_timetable_assignment: the search has joined its threads when it ends.
Assign ==
    /\ \A h \in Helpers : call[h] = None
    /\ \/ EndStage("assign", "write", "ok", <<Status("writing")>>)
       \/ EndStage("assign", "hand_off", "error", AssignmentFailed)

\* write_assignment_output_files, then the summary for the result panel,
\* whose failure is only a warning.
Write ==
    \/ \E summary \in {"summary", "no_summary"} :
            EndStage("write", "hand_off", "ok",
                     <<Status("written"), Result(summary), Status("ready")>>)
    \/ EndStage("write", "hand_off", "error", AssignmentFailed)

\* An exception leaves the assignment: std::terminate.
Throw ==
    /\ worker = "assign"
    /\ main # "terminated"
    /\ main' = "terminated"
    /\ UNCHANGED <<model, sinks, running, log_thread, work, box, refresh,
                   exit_result>>

\* worker_result.set(...), which refuses a second result; the thread ends.
HandOff ==
    /\ main # "terminated"
    /\ worker = "hand_off"
    /\ todo = <<>>
    /\ box' = IF box = "empty" THEN outcome ELSE box
    /\ worker' = "done"
    /\ UNCHANGED <<main, model, sinks, running, log_thread, todo, outcome,
                   call, left, refresh, exit_result>>

-----------------------------------------------------------------------------
(* A bus call of the worker or of a search thread: copy, unlock, deliver    *)

NextCall(c) == IF c = "worker" THEN Head(todo) ELSE Status("searching")

CopySink(c) ==
    /\ main # "terminated"
    /\ call[c] = None
    /\ IF c = "worker" THEN todo # <<>> ELSE worker = "assign" /\ left[c] > 0
    /\ call' = [call EXCEPT ![c] = sinks[NextCall(c).bus]]
    /\ left' = IF c = "worker" THEN left ELSE [left EXCEPT ![c] = @ - 1]
    /\ UNCHANGED <<main, model, sinks, running, log_thread, worker, todo,
                   outcome, box, refresh, exit_result>>

Deliver(c) ==
    /\ main # "terminated"
    /\ call[c] # None
    /\ model' = IF call[c] = "model" THEN Show(NextCall(c)) ELSE model
    /\ call' = [call EXCEPT ![c] = None]
    /\ todo' = IF c = "worker" THEN Tail(todo) ELSE todo
    /\ UNCHANGED <<main, sinks, running, log_thread, worker, outcome, left,
                   box, refresh, exit_result>>

Worker == Load \/ Override \/ Assign \/ Write \/ HandOff

Next ==
    \/ Main \/ LogThread \/ RefreshThread
    \/ Worker \/ Throw
    \/ \E c \in Callers : CopySink(c) \/ Deliver(c)

\* Every thread is scheduled, and loading, assigning and writing end; the user
\* need not quit.
Fairness ==
    /\ WF_vars(Main /\ ~Quit)
    /\ WF_vars(LogThread) /\ WF_vars(RefreshThread)
    /\ WF_vars(Load) /\ WF_vars(Override) /\ WF_vars(Assign) /\ WF_vars(Write)
    /\ WF_vars(HandOff)
    /\ WF_vars(CopySink("worker"))
    /\ \A c \in Callers : WF_vars(Deliver(c))

Spec == Init /\ [][Next]_vars /\ Fairness

-----------------------------------------------------------------------------
(* Properties                                                              *)

Texts  == {"none", "waiting", "searching", "writing", "written", "ready",
           "failed", "error"}
Panels == {"none", "pending", "summary", "no_summary", "unavailable"}
MainPCs == {"start", "start_log_thread", "start_worker", "rollback",
            "start_ui", "ui", "join_refresh", "stop", "join_worker",
            "join_log_thread", "take", "clear_progress", "clear_result",
            "destroy_model", "exited", "terminated"}

\* The variables keep their types.
TypeOK ==
    /\ main \in MainPCs
    /\ model \in [alive : BOOLEAN, status : Texts, panel : Panels]
    /\ sinks \in [progress : {"model", "noop"}, result : {"model", "noop"}]
    /\ running \in BOOLEAN
    /\ log_thread \in {"off", "check", "set_log_lines", "done"}
    /\ worker \in {"off", "load", "override", "assign", "write", "hand_off",
                   "done"}
    /\ \A i \in DOMAIN todo : todo[i] \in [bus : {"progress", "result"},
                                           text : Texts \cup Panels]
    /\ outcome \in {"ok", "error"}
    /\ call \in [Callers -> {"model", "noop", None}]
    /\ left \in [Helpers -> 0 .. StatusCalls]
    /\ box \in {"empty", "ok", "error"}
    /\ refresh \in [thread : {"off", "check", "post", "done"},
                    running : BOOLEAN]
    /\ exit_result \in {"none", "missing", "ok", "error"}

\* No thread touches what run() or ui::run has destroyed, at the end of run() or
\* when the worker could not be started: neither a bus call that copied its sink
\* before the bus was cleared, nor the log thread (the model), nor the redraw
\* thread (the screen).
NoUseAfterDestruction ==
    /\ (\E c \in Callers : call[c] = "model") => model.alive
    /\ log_thread = "set_log_lines" => model.alive
    /\ \A b \in DOMAIN sinks : sinks[b] = "model" => model.alive
    /\ refresh.thread = "post" => main \in {"ui", "join_refresh", "terminated"}

\* run() returns the worker's own result, never "worker result missing", even
\* when the user quits first; and it returns with no thread left behind.
ResultIsTaken ==
    /\ exit_result \in {"none", outcome}
    /\ main = "exited" =>
        /\ exit_result = outcome
        /\ worker = "done" /\ log_thread = "done" /\ refresh.thread = "done"

\* Once the worker has handed its result over, the panels tell the same story:
\* "ready" and a summary, or an error, and no message of a search thread that
\* arrived late.
PanelsMatchOutcome ==
    worker = "done" =>
        IF outcome = "ok"
        THEN model.status = "ready" /\ model.panel \in {"summary", "no_summary"}
        ELSE /\ model.status = "error"
             /\ model.panel \in {"pending", "unavailable"}

\* The user who quits gets the shell back, once the worker is done.
QuitReturns == main = "join_refresh" ~> main \in {"exited", "terminated"}

\* The worker ends by itself, also when nobody quits.
WorkerEnds == main = "start_ui" ~> (worker = "done" \/ main = "terminated")

\* A worker that cannot be started leaves nobody waiting for the log thread.
FailedStartEnds == main = "rollback" ~> main = "terminated"

\* Nobody waits for another for ever.
EveryoneEnds == QuitReturns /\ WorkerEnds /\ FailedStartEnds
=============================================================================
