--------------------------- MODULE RunOutcome_proof ---------------------------
(***************************************************************************)
(* Proofs about what is left of a run.                                     *)
(*                                                                         *)
(* On the screen (AppLifecycle), for any set of search threads and any     *)
(* number of their status calls: in whatever order the user, the worker    *)
(* and the other threads take their steps, run() destroys nothing that is  *)
(* still used, and returns the worker's result.                            *)
(*                                                                         *)
(* In the directory (OutputFiles), for any outputs, any number of runs     *)
(* into it and any number of losses.                                       *)
(***************************************************************************)
EXTENDS AppLifecycle, OutputFiles, FiniteSetTheorems, TLAPS

\* Where run() is, as far as the other threads can tell.
BeforeLog    == {"start", "start_log_thread"}
BeforeWorker == BeforeLog \cup {"start_worker", "rollback"}
BeforeUi     == BeforeWorker \cup {"start_ui"}
Taken        == {"clear_progress", "clear_result", "destroy_model", "exited"}
Joined       == Taken \cup {"take"}
AfterUi      == Joined \cup {"stop", "join_worker", "join_log_thread"}

\* What run() owns is there between its construction and its destruction; a
\* process that is terminated may have destroyed it, when nobody was left to use
\* it.
Owned ==
    /\ main # "terminated" =>
          /\ model.alive <=> main \notin {"start", "exited"}
          /\ sinks.progress = "model" <=>
                main \notin {"start", "clear_result", "destroy_model", "exited"}
          /\ sinks.result = "model" <=>
                main \notin {"start", "destroy_model", "exited"}
    /\ main = "terminated" /\ ~model.alive =>
          /\ worker = "off" /\ log_thread = "done"
          /\ sinks.progress = "noop" /\ sinks.result = "noop"

\* Which threads there can be, given where run() is.
Threads ==
    /\ main \in BeforeLog => log_thread = "off"
    /\ main \in BeforeWorker => worker = "off"
    /\ worker = "off" => main \in BeforeWorker \cup {"terminated"}
    /\ main \in BeforeUi => refresh.thread = "off"
    /\ main \in AfterUi => refresh.thread = "done"
    /\ main \in Joined \cup {"join_log_thread"} => worker = "done"
    /\ main \in Joined => log_thread = "done"

\* A call is pending only while its caller works, and goes to the model.
Calls ==
    /\ \A h \in Helpers : call[h] # None => worker = "assign"
    /\ call["worker"] # None => todo # <<>>
    /\ \A c \in Callers : call[c] \in {"model", None}

\* The worker's result is in the box from the worker's end until it is taken.
Boxed ==
    /\ box = IF worker = "done" /\ main \notin Taken THEN outcome ELSE "empty"
    /\ exit_result = IF main \in Taken THEN outcome ELSE "none"

\* Of a run that is written, the calls that remain and what the panels show.
Success ==
    \E s \in {"summary", "no_summary"} :
        \/ todo = <<Status("written"), Result(s), Status("ready")>>
        \/ todo = <<Result(s), Status("ready")>>
        \/ todo = <<Status("ready")>> /\ model.panel = s
        \/ todo = <<>> /\ model.panel = s /\ model.status = "ready"

\* And of a run that failed.
Failure ==
    \/ todo = <<Result("unavailable"), Status("failed"), Status("error")>>
    \/ /\ todo = <<Status("failed"), Status("error")>>
       /\ model.panel \in {"pending", "unavailable"}
    \/ /\ todo = <<Status("error")>>
       /\ model.panel \in {"pending", "unavailable"}
    \/ /\ todo = <<>> /\ model.status = "error"
       /\ model.panel \in {"pending", "unavailable"}

\* What the panels show, stage by stage of the worker.
Story ==
    /\ worker \in {"off", "load", "override", "assign", "write"} =>
          /\ outcome = "ok"
          /\ main # "start" => model.panel = "pending"
    /\ worker \in {"off", "load", "override", "assign", "done"} => todo = <<>>
    /\ worker = "write" => todo = <<>> \/ todo = <<Status("writing")>>
    /\ worker = "hand_off" => IF outcome = "ok" THEN Success ELSE Failure
    /\ PanelsMatchOutcome

IInv == TypeOK /\ Owned /\ Threads /\ Calls /\ Boxed /\ Story

-----------------------------------------------------------------------------
Stages == {"off", "load", "override", "assign", "write", "hand_off", "done"}

\* Calls of the two buses, with texts that they know.
BusCalls(calls) ==
    \A i \in DOMAIN calls :
        calls[i] \in [bus : {"progress", "result"}, text : Texts \cup Panels]

LEMMA BusCallsAre ==
    /\ BusCalls(<<>>)
    /\ BusCalls(<<Status("writing")>>)
    /\ BusCalls(<<Status("ready")>>)
    /\ BusCalls(<<Status("error")>>)
    /\ BusCalls(ReportFailure)
    /\ BusCalls(<<Result("unavailable"), Status("failed"), Status("error")>>)
    /\ \A s \in {"summary", "no_summary"} :
          /\ BusCalls(<<Status("written"), Result(s), Status("ready")>>)
          /\ BusCalls(<<Result(s), Status("ready")>>)
<1> USE DEF BusCalls, Status, Result, Texts, Panels
<1>1. BusCalls(<<>>)
  OBVIOUS
<1>2. \A text \in {"writing", "ready", "error"} : BusCalls(<<Status(text)>>)
  OBVIOUS
<1>3. BusCalls(ReportFailure)
  BY DEF ReportFailure
<1>4. BusCalls(<<Result("unavailable"), Status("failed"), Status("error")>>)
  OBVIOUS
<1>5. ASSUME NEW s \in {"summary", "no_summary"}
      PROVE  /\ BusCalls(<<Status("written"), Result(s), Status("ready")>>)
             /\ BusCalls(<<Result(s), Status("ready")>>)
  OBVIOUS
<1> QED BY <1>1, <1>2, <1>3, <1>4, <1>5

\* The calls of a worker are few and written out.
LEMMA ShortSequences ==
    /\ \A a : Tail(<<a>>) = <<>> /\ Head(<<a>>) = a /\ <<a>> # <<>>
    /\ \A a, b : Tail(<<a, b>>) = <<b>> /\ Head(<<a, b>>) = a /\ <<a, b>> # <<>>
    /\ \A a, b, c : /\ Tail(<<a, b, c>>) = <<b, c>> /\ Head(<<a, b, c>>) = a
                    /\ <<a, b, c>> # <<>>
<1>1. \A a : Tail(<<a>>) = <<>> /\ Head(<<a>>) = a /\ <<a>> # <<>>
  OBVIOUS
<1>2. \A a, b : Tail(<<a, b>>) = <<b>> /\ Head(<<a, b>>) = a /\ <<a, b>> # <<>>
  OBVIOUS
<1>3. \A a, b, c : /\ Tail(<<a, b, c>>) = <<b, c>> /\ Head(<<a, b, c>>) = a
                   /\ <<a, b, c>> # <<>>
  OBVIOUS
<1> QED BY <1>1, <1>2, <1>3

LEMMA AssignmentFailedIs ==
    AssignmentFailed =
        <<Result("unavailable"), Status("failed"), Status("error")>>
<1> DEFINE a == Result("unavailable")
           b == Status("failed")
           c == Status("error")
           s == <<a>> \o <<b, c>>
<1> HIDE DEF a, b, c
<1>1. <<a>> \in Seq({a, b, c}) /\ <<b, c>> \in Seq({a, b, c})
  OBVIOUS
<1>2. Len(s) = 3 /\ s[1] = a /\ s[2] = b /\ s[3] = c /\ s \in Seq({a, b, c})
  BY <1>1
<1> HIDE DEF s
<1>3. s = <<a, b, c>>
  BY <1>2
<1> QED BY <1>3 DEF AssignmentFailed, ReportFailure, s, a, b, c

LEMMA InitInv == Init => IInv
  BY NoneAssumption, StatusCallsAssumption
  DEF Init, IInv, TypeOK, Owned, Threads, Calls, Boxed, Story, Success, Failure,
      PanelsMatchOutcome, BeforeLog, BeforeWorker, BeforeUi, Taken, Joined,
      AfterUi, MainPCs, Texts, Panels, Callers
\* The story is told by the worker's variables and the model alone.
LEMMA StoryKept ==
    Story /\ UNCHANGED <<worker, todo, outcome, model>>
          /\ (main = "start" => main' = "start") => Story'
<1> SUFFICES ASSUME Story, UNCHANGED <<worker, todo, outcome, model>>,
                    main = "start" => main' = "start"
             PROVE  Story'
  OBVIOUS
<1>1. Success' <=> Success
  BY DEF Success
<1>2. Failure' <=> Failure
  BY DEF Failure
<1>3. worker' = worker /\ todo' = todo /\ outcome' = outcome /\ model' = model
  OBVIOUS
<1> HIDE DEF Success, Failure
<1> QED BY <1>1, <1>2, <1>3, Zenon DEF Story, PanelsMatchOutcome

\* One step of run().
LEMMA MainStep == IInv /\ Main => IInv'
<1> SUFFICES ASSUME IInv, Main PROVE IInv'
  OBVIOUS
<1> USE NoneAssumption
    DEF IInv, TypeOK, Owned, Threads, Calls, Boxed, BeforeLog, BeforeWorker,
        BeforeUi, Taken, Joined, AfterUi, MainPCs, Callers, work
<1>1. CASE SetUp
  <2>1. outcome = "ok" /\ worker = "off" /\ todo = <<>>
    BY <1>1 DEF SetUp, Story
  <2> QED BY <1>1, <2>1 DEF SetUp, Texts, Panels, Story, PanelsMatchOutcome
<1>2. CASE StartLogThread \/ StartWorkerFails
  BY <1>2, StoryKept, ZenonT(60) DEF StartLogThread, StartWorkerFails
<1>12. CASE Rethrow
  <2>1. worker = "off" /\ log_thread = "done" /\ model.alive
    BY <1>12 DEF Rethrow
  <2>2. CASE UNCHANGED <<model, sinks>>
    BY <1>12, <2>1, <2>2, StoryKept DEF Rethrow
  <2>3. CASE /\ model' = [model EXCEPT !.alive = FALSE]
             /\ sinks' = [progress |-> "noop", result |-> "noop"]
    BY <1>12, <2>1, <2>3 DEF Rethrow, Story, PanelsMatchOutcome
  <2> QED BY <1>12, <2>2, <2>3 DEF Rethrow
<1>3. CASE StartWorker
  BY <1>3 DEF StartWorker, Story, PanelsMatchOutcome
<1>4. CASE StartUi
  BY <1>4, StoryKept DEF StartUi
<1>9. CASE Quit
  <2>1. Story' /\ TypeOK'
    BY <1>9, StoryKept, ZenonT(60) DEF Quit
  <2>2. Owned' /\ Threads'
    BY <1>9 DEF Quit
  <2>3. Calls' /\ Boxed'
    BY <1>9 DEF Quit
  <2> QED BY <2>1, <2>2, <2>3
<1>10. CASE JoinRefresh
  BY <1>10, StoryKept DEF JoinRefresh
<1>11. CASE StopBackground
  <2>1. Story' /\ TypeOK'
    BY <1>11, StoryKept, ZenonT(60) DEF StopBackground
  <2>2. Owned' /\ Threads'
    BY <1>11 DEF StopBackground
  <2>3. Calls' /\ Boxed'
    BY <1>11 DEF StopBackground
  <2> QED BY <2>1, <2>2, <2>3
<1>5. CASE JoinWorker \/ JoinLogThread
  BY <1>5, StoryKept DEF JoinWorker, JoinLogThread
<1>6. CASE TakeResult
  BY <1>6, StoryKept DEF TakeResult
<1>7. CASE ClearProgressSinks \/ ClearResultSink
  BY <1>7, StoryKept DEF ClearProgressSinks, ClearResultSink
<1>8. CASE DestroyModel
  <2>1. worker = "done"
    BY <1>8 DEF DestroyModel
  <2> QED BY <1>8, <2>1 DEF DestroyModel, Story, PanelsMatchOutcome
<1> QED BY <1>1, <1>2, <1>3, <1>4, <1>5, <1>6, <1>7, <1>8,
           <1>9, <1>10, <1>11, <1>12 DEF Main

\* One step of the log thread or of the redraw thread.
LEMMA PanelThreadsStep == IInv /\ (LogThread \/ RefreshThread) => IInv'
  BY StoryKept
  DEF IInv, TypeOK, Owned, Threads, Calls, Boxed, BeforeLog, BeforeWorker,
      BeforeUi, Taken, Joined, AfterUi, MainPCs, Callers, work, LogThread,
      RefreshThread

\* The end of a stage of the worker: what it says next begins its story.
LEMMA EndStageStep ==
    ASSUME IInv,
           NEW from \in {"load", "override", "assign", "write"},
           NEW to \in {"override", "assign", "write", "hand_off"},
           NEW result \in {"ok", "error"}, NEW calls,
           EndStage(from, to, result, calls),
           from = "assign" => \A h \in Helpers : call[h] = None,
           BusCalls(calls),
           Story'
    PROVE  IInv'
  BY NoneAssumption
  DEF EndStage, IInv, TypeOK, Owned, Threads, Calls, Boxed, BeforeLog, BusCalls,
      BeforeWorker, BeforeUi, Taken, Joined, AfterUi, MainPCs, Callers, work

\* One stage of the worker.
LEMMA WorkerStep == IInv /\ (Worker \/ Throw) => IInv'
<1> SUFFICES ASSUME IInv, Worker \/ Throw PROVE IInv'
  OBVIOUS
<1> USE BusCallsAre
<1>0. /\ IInv
      /\ worker \in {"load", "override", "assign", "write"} =>
            outcome = "ok" /\ (main # "start" => model.panel = "pending")
  BY DEF IInv, Story
<1>1. CASE Load \/ Override
  <2>1. CASE EndStage("load", "override", "ok", <<>>)
    BY <1>0, <2>1, EndStageStep DEF EndStage, Story, PanelsMatchOutcome
  <2>2. CASE EndStage("override", "assign", "ok", <<>>)
    BY <1>0, <2>2, EndStageStep DEF EndStage, Story, PanelsMatchOutcome
  <2>3. ASSUME NEW from \in {"load", "override"},
               EndStage(from, "hand_off", "error", ReportFailure)
        PROVE  IInv'
    <3>1. main # "start"
      BY <2>3, <1>0 DEF EndStage, IInv, Threads, BeforeWorker, BeforeLog
    <3>2. Failure'
      BY <2>3, <1>0, <3>1 DEF EndStage, Failure, ReportFailure
    <3>3. Story'
      BY <2>3, <3>2 DEF EndStage, Story, PanelsMatchOutcome
    <3> QED BY <2>3, <3>3, EndStageStep DEF ReportFailure
  <2> QED BY <1>1, <2>1, <2>2, <2>3 DEF Load, Override
<1>2. ASSUME NEW from \in {"assign", "write"},
             EndStage(from, "hand_off", "error", AssignmentFailed),
             from = "assign" => \A h \in Helpers : call[h] = None
      PROVE  IInv'
  <2>1. Failure'
    BY <1>2, AssignmentFailedIs DEF EndStage, Failure
  <2>2. Story'
    BY <1>2, <2>1 DEF EndStage, Story, PanelsMatchOutcome
  <2> QED BY <1>2, <2>2, EndStageStep, AssignmentFailedIs
<1>3. CASE Assign
  <2>1. CASE EndStage("assign", "write", "ok", <<Status("writing")>>)
    <3>1. Story'
      BY <1>0, <2>1 DEF EndStage, Story, PanelsMatchOutcome
    <3> QED BY <1>3, <2>1, <3>1, EndStageStep DEF Assign
  <2> QED BY <1>2, <1>3, <2>1 DEF Assign
<1>4. CASE Write
  <2>1. ASSUME NEW s \in {"summary", "no_summary"},
               EndStage("write", "hand_off", "ok",
                        <<Status("written"), Result(s), Status("ready")>>)
        PROVE  IInv'
    <3>1. Success'
      BY <2>1 DEF EndStage, Success
    <3>2. Story'
      BY <2>1, <3>1 DEF EndStage, Story, PanelsMatchOutcome
    <3> QED BY <2>1, <3>2, EndStageStep
  <2> QED BY <1>2, <1>4, <2>1 DEF Write
<1>5. CASE HandOff
  <2>1. Story'
    BY <1>5, ShortSequences
    DEF HandOff, IInv, Story, PanelsMatchOutcome, Success, Failure
  <2> QED BY <1>5, <2>1
      DEF HandOff, IInv, TypeOK, Owned, Threads, Calls, Boxed, BeforeLog,
          BeforeWorker, BeforeUi, Taken, Joined, AfterUi, MainPCs, Callers, work
<1>6. CASE Throw
  BY <1>6, StoryKept
  DEF Throw, IInv, TypeOK, Owned, Threads, Calls, Boxed, BeforeLog,
      BeforeWorker, BeforeUi, Taken, Joined, AfterUi, MainPCs, Callers, work
<1> QED BY <1>1, <1>3, <1>4, <1>5, <1>6 DEF Worker

\* A bus call: the sink is copied, then the text is shown.
LEMMA CopySinkStep == ASSUME IInv, NEW c \in Callers, CopySink(c) PROVE IInv'
<1> USE NoneAssumption
    DEF IInv, TypeOK, Owned, Threads, Calls, Boxed, BeforeLog, BeforeWorker,
        BeforeUi, Taken, Joined, AfterUi, MainPCs, Callers, work
<1>1. worker \notin {"off", "done"}
  BY DEF CopySink, Story
<1>2. sinks[NextCall(c).bus] = "model"
  <2>1. sinks.progress = "model" /\ sinks.result = "model"
    BY <1>1 DEF CopySink
  <2>2. CASE c = "worker"
    <3>1. Head(todo) = todo[1] /\ 1 \in DOMAIN todo
      BY <2>2, ShortSequences DEF CopySink, Story, Success, Failure
    <3>2. Head(todo).bus \in {"progress", "result"}
      BY <3>1
    <3> QED BY <2>1, <2>2, <3>2 DEF NextCall
  <2>3. CASE c # "worker"
    BY <2>1, <2>3 DEF NextCall, Status
  <2> QED BY <2>2, <2>3
<1>3. call' = [call EXCEPT ![c] = "model"]
  BY <1>2 DEF CopySink
<1>4. Calls'
  BY <1>3, HelpersAssumption DEF CopySink
<1>5. left' \in [Helpers -> 0 .. StatusCalls]
  BY StatusCallsAssumption DEF CopySink
<1>6. Story'
  BY StoryKept DEF CopySink
<1>7. TypeOK'
  BY <1>3, <1>5 DEF CopySink
<1>8. Owned' /\ Threads' /\ Boxed'
  BY DEF CopySink
<1> QED BY <1>4, <1>6, <1>7, <1>8

\* A text goes to its own panel, and the rest is as it was.
OnPanels ==
    \/ \E text \in Texts : model' = [model EXCEPT !.status = text]
    \/ \E text \in Panels : model' = [model EXCEPT !.panel = text]

\* The calls that a story has still to make are calls of the two buses.
LEMMA StoryTypes == Story' /\ worker' \in Stages => BusCalls(todo')
<1> SUFFICES ASSUME Story', worker' \in Stages PROVE BusCalls(todo')
  OBVIOUS
<1>1. CASE worker' = "hand_off" /\ outcome' = "ok"
  <2>1. PICK s \in {"summary", "no_summary"} :
           \/ todo' = <<Status("written"), Result(s), Status("ready")>>
           \/ todo' = <<Result(s), Status("ready")>>
           \/ todo' = <<Status("ready")>>
           \/ todo' = <<>>
    BY <1>1 DEF Story, Success
  <2> QED BY <2>1, BusCallsAre
<1>2. CASE worker' = "hand_off" /\ outcome' # "ok"
  <2>1. \/ todo' = <<Result("unavailable"), Status("failed"), Status("error")>>
        \/ todo' = <<Status("failed"), Status("error")>>
        \/ todo' = <<Status("error")>>
        \/ todo' = <<>>
    BY <1>2 DEF Story, Failure
  <2> QED BY <2>1, BusCallsAre DEF ReportFailure
<1>3. CASE worker' # "hand_off"
  <2>1. todo' = <<>> \/ todo' = <<Status("writing")>>
    BY <1>3 DEF Story, Stages
  <2> QED BY <2>1, BusCallsAre
<1> QED BY <1>1, <1>2, <1>3

\* What a delivered call leaves alone.
LEMMA CallMade ==
    ASSUME IInv, NEW c \in Callers,
           call' = [call EXCEPT ![c] = None],
           UNCHANGED <<main, sinks, running, log_thread, worker, outcome, left,
                       box, refresh, exit_result>>,
           OnPanels,
           c = "worker" \/ todo' = todo,
           Story'
    PROVE  IInv'
<1> USE NoneAssumption
<1>1. BusCalls(todo)'
  <2>1. worker' \in Stages
    BY DEF IInv, TypeOK, Stages
  <2> QED BY <2>1, StoryTypes
<1>2. /\ model' \in [alive : BOOLEAN, status : Texts, panel : Panels]
      /\ model'.alive = model.alive
  BY DEF IInv, TypeOK, OnPanels
<1>3. call' \in [Callers -> {"model", "noop", None}]
  BY DEF IInv, TypeOK
<1>4. TypeOK'
  BY <1>1, <1>2, <1>3 DEF IInv, TypeOK, BusCalls
<1>5. Calls'
  BY DEF IInv, TypeOK, Calls, Callers
<1>6. Owned' /\ Threads' /\ Boxed'
  BY <1>2 DEF IInv, Owned, Threads, Boxed
<1> QED BY <1>4, <1>5, <1>6 DEF IInv

LEMMA DeliverStep == ASSUME IInv, NEW c \in Callers, Deliver(c) PROVE IInv'
<1> USE NoneAssumption
<1>1. /\ call[c] = "model" /\ model' = Show(NextCall(c))
      /\ call' = [call EXCEPT ![c] = None]
      /\ UNCHANGED <<main, sinks, running, log_thread, worker, outcome, left,
                     box, refresh, exit_result>>
  BY DEF IInv, Calls, Deliver
<1>2. CASE c = "worker"
  <2>1. todo # <<>> /\ todo' = Tail(todo) /\ NextCall(c) = Head(todo)
    BY <1>1, <1>2 DEF IInv, Calls, Deliver, NextCall
  <2>2. worker \in {"write", "hand_off"}
    BY <2>1 DEF IInv, TypeOK, Story
  <2>3. CASE worker = "write"
    <3>1. Head(todo) = Status("writing") /\ todo' = <<>>
      BY <2>1, <2>3, ShortSequences DEF IInv, Story
    <3>2. model' = [model EXCEPT !.status = "writing"]
      BY <1>1, <2>1, <3>1 DEF Show, Status
    <3>3. OnPanels
      BY <3>2 DEF OnPanels, Texts
    <3>4. Story'
      BY <1>1, <2>3, <3>1, <3>2 DEF IInv, TypeOK, Story, PanelsMatchOutcome
    <3> QED BY <1>1, <1>2, <3>3, <3>4, CallMade
  <2>4. CASE worker = "hand_off" /\ outcome = "ok"
    <3>1. Success
      BY <2>4 DEF IInv, Story
    <3>2. PICK s \in {"summary", "no_summary"} :
             \/ todo = <<Status("written"), Result(s), Status("ready")>>
             \/ todo = <<Result(s), Status("ready")>>
             \/ todo = <<Status("ready")>> /\ model.panel = s
      BY <2>1, <3>1 DEF Success
    <3>3. CASE todo = <<Status("written"), Result(s), Status("ready")>>
      <4>1. /\ todo' = <<Result(s), Status("ready")>>
            /\ model' = [model EXCEPT !.status = "written"]
        BY <1>1, <2>1, <3>3, ShortSequences DEF Show, Status
      <4>2. Success'
        BY <4>1 DEF Success
      <4>3. OnPanels
        BY <4>1 DEF OnPanels, Texts
      <4>4. Story'
        BY <1>1, <2>4, <4>2 DEF Story, PanelsMatchOutcome
      <4> QED BY <1>1, <1>2, <4>3, <4>4, CallMade
    <3>4. CASE todo = <<Result(s), Status("ready")>>
      <4>1. /\ todo' = <<Status("ready")>>
            /\ model' = [model EXCEPT !.panel = s]
        BY <1>1, <2>1, <3>4, ShortSequences DEF Show, Result
      <4>2. Success'
        BY <4>1 DEF Success, IInv, TypeOK
      <4>3. OnPanels
        BY <4>1 DEF OnPanels, Panels
      <4>4. Story'
        BY <1>1, <2>4, <4>2 DEF Story, PanelsMatchOutcome
      <4> QED BY <1>1, <1>2, <4>3, <4>4, CallMade
    <3>5. CASE todo = <<Status("ready")>> /\ model.panel = s
      <4>1. /\ todo' = <<>>
            /\ model' = [model EXCEPT !.status = "ready"]
        BY <1>1, <2>1, <3>5, ShortSequences DEF Show, Status
      <4>2. Success'
        BY <3>5, <4>1 DEF Success, IInv, TypeOK
      <4>3. OnPanels
        BY <4>1 DEF OnPanels, Texts
      <4>4. Story'
        BY <1>1, <2>4, <4>2 DEF Story, PanelsMatchOutcome
      <4> QED BY <1>1, <1>2, <4>3, <4>4, CallMade
    <3> QED BY <3>2, <3>3, <3>4, <3>5
  <2>5. CASE worker = "hand_off" /\ outcome # "ok"
    <3>1. Failure
      BY <2>5 DEF IInv, Story
    <3>2. CASE todo = <<Result("unavailable"), Status("failed"),
                        Status("error")>>
      <4>1. /\ todo' = <<Status("failed"), Status("error")>>
            /\ model' = [model EXCEPT !.panel = "unavailable"]
        BY <1>1, <2>1, <3>2, ShortSequences DEF Show, Result
      <4>2. Failure'
        BY <4>1 DEF Failure, IInv, TypeOK
      <4>3. OnPanels
        BY <4>1 DEF OnPanels, Panels
      <4>4. Story'
        BY <1>1, <2>5, <4>2 DEF Story, PanelsMatchOutcome
      <4> QED BY <1>1, <1>2, <4>3, <4>4, CallMade
    <3>3. CASE /\ todo = <<Status("failed"), Status("error")>>
               /\ model.panel \in {"pending", "unavailable"}
      <4>1. /\ todo' = <<Status("error")>>
            /\ model' = [model EXCEPT !.status = "failed"]
        BY <1>1, <2>1, <3>3, ShortSequences DEF Show, Status
      <4>2. Failure'
        BY <3>3, <4>1 DEF Failure, IInv, TypeOK
      <4>3. OnPanels
        BY <4>1 DEF OnPanels, Texts
      <4>4. Story'
        BY <1>1, <2>5, <4>2 DEF Story, PanelsMatchOutcome
      <4> QED BY <1>1, <1>2, <4>3, <4>4, CallMade
    <3>4. CASE /\ todo = <<Status("error")>>
               /\ model.panel \in {"pending", "unavailable"}
      <4>1. /\ todo' = <<>>
            /\ model' = [model EXCEPT !.status = "error"]
        BY <1>1, <2>1, <3>4, ShortSequences DEF Show, Status
      <4>2. Failure'
        BY <3>4, <4>1 DEF Failure, IInv, TypeOK
      <4>3. OnPanels
        BY <4>1 DEF OnPanels, Texts
      <4>4. Story'
        BY <1>1, <2>5, <4>2 DEF Story, PanelsMatchOutcome
      <4> QED BY <1>1, <1>2, <4>3, <4>4, CallMade
    <3> QED BY <2>1, <3>1, <3>2, <3>3, <3>4 DEF Failure
  <2> QED BY <2>2, <2>3, <2>4, <2>5
<1>3. CASE c # "worker"
  <2>1. worker = "assign" /\ todo' = todo
    BY <1>1, <1>3 DEF IInv, Calls, Callers, Deliver
  <2>2. model' = [model EXCEPT !.status = "searching"]
    BY <1>1, <1>3 DEF Show, NextCall, Status
  <2>3. OnPanels
    BY <2>2 DEF OnPanels, Texts
  <2>4. Story'
    BY <1>1, <2>1, <2>2 DEF IInv, TypeOK, Story, PanelsMatchOutcome
  <2> QED BY <1>1, <2>1, <2>3, <2>4, CallMade
<1> QED BY <1>2, <1>3

LEMMA IInvStep == IInv /\ [Next]_vars => IInv'
<1> SUFFICES ASSUME IInv, [Next]_vars PROVE IInv'
  OBVIOUS
<1>1. CASE Main \/ LogThread \/ RefreshThread
  BY <1>1, MainStep, PanelThreadsStep
<1>2. CASE Worker \/ Throw
  BY <1>2, WorkerStep
<1>3. ASSUME NEW c \in Callers, CopySink(c) \/ Deliver(c) PROVE IInv'
  BY <1>3, CopySinkStep, DeliverStep
<1>4. CASE UNCHANGED vars
  <2>1. Story'
    BY <1>4, StoryKept DEF vars, work, IInv
  <2> QED BY <1>4, <2>1
          DEF vars, work, IInv, TypeOK, Owned, Threads, Calls, Boxed
<1> QED BY <1>1, <1>2, <1>3, <1>4 DEF Next

LEMMA Invariant == Spec => []IInv
<1> QED BY InitInv, IInvStep, PTL DEF Spec

-----------------------------------------------------------------------------
\* Every variable keeps its type.
THEOREM TypeCorrect == Spec => []TypeOK
<1>1. IInv => TypeOK
  BY DEF IInv
<1> QED BY <1>1, Invariant, PTL

\* Whenever the user quits, no thread touches what run() has destroyed: a copied
\* sink, the log thread and the redraw thread all end before their targets do.
THEOREM NothingDangles == Spec => []NoUseAfterDestruction
<1>1. IInv => NoUseAfterDestruction
  <2> SUFFICES ASSUME IInv PROVE NoUseAfterDestruction
    OBVIOUS
  <2> USE NoneAssumption
      DEF IInv, Owned, Threads, Calls, Story, BeforeLog, BeforeWorker, BeforeUi,
          Taken, Joined, AfterUi, Callers
  <2>1. (\E c \in Callers : call[c] = "model") => model.alive
    <3> SUFFICES ASSUME NEW c \in Callers, call[c] = "model" PROVE model.alive
      OBVIOUS
    <3>1. worker \notin {"off", "done"}
      BY Zenon
    <3> QED BY <3>1
  <2>2. log_thread = "set_log_lines" => model.alive
    OBVIOUS
  <2>3. \A b \in DOMAIN sinks : sinks[b] = "model" => model.alive
    BY DEF TypeOK
  <2>4. refresh.thread = "post" => main \in {"ui", "join_refresh", "terminated"}
    BY DEF TypeOK, MainPCs
  <2> QED BY <2>1, <2>2, <2>3, <2>4 DEF NoUseAfterDestruction
<1> QED BY <1>1, Invariant, PTL

\* run() returns what the worker has come to, with no thread left behind.
THEOREM ResultIsReturned == Spec => []ResultIsTaken
<1>1. IInv => ResultIsTaken
  BY DEF IInv, Boxed, Threads, ResultIsTaken, Taken, Joined, AfterUi
<1> QED BY <1>1, Invariant, PTL

\* When the worker is done, the panels tell of its result and nothing older.
THEOREM PanelsTellTheResult == Spec => []PanelsMatchOutcome
<1>1. IInv => PanelsMatchOutcome
  BY DEF IInv, Story
<1> QED BY <1>1, Invariant, PTL

------------------------------------------------------------------------------
(* The directory: which files there are.                                   *)

Places == 1 .. Len(Files)

\* The files are written one after another, each once.
LEMMA FilesAreDistinct ==
    /\ Len(Files) = 12
    /\ DOMAIN Files = Places
    /\ \A i, j \in Places : Files[i] = Files[j] => i = j
    /\ FileNames = {Files[i] : i \in Places}
    /\ \A i \in Places : Files[i] \in FileNames
<1>1. Len(Files) = 12 /\ DOMAIN Files = 1 .. 12
  BY DEF Files
<1>2. \A i, j \in 1 .. 12 : Files[i] = Files[j] => i = j
  <2> SUFFICES ASSUME NEW i \in 1 .. 12, NEW j \in 1 .. 12, Files[i] = Files[j]
               PROVE  i = j
    OBVIOUS
  <2> QED BY DEF Files
<1>3. FileNames = {Files[i] : i \in Places}
  BY <1>1 DEF FileNames, Range, Places
<1> QED BY <1>1, <1>2, <1>3 DEF Places

-----------------------------------------------------------------------------
(* The inductive invariant                                                 *)

FilesTypes ==
    /\ run \in Nat /\ lost \in Nat /\ position \in 0 .. Len(Files)
    /\ phase \in {"idle", "preparing", "writing", "written", "failed"}
    /\ disk = [f \in FileNames |-> disk[f]]
    /\ \A f \in FileNames : disk[f].run \in Nat /\ disk[f].whole \in BOOLEAN

\* No file is from a later run than the ones written before it.
Ordered ==
    /\ \A i, j \in Places : i < j => disk[Files[i]].run >= disk[Files[j]].run
    /\ \A f \in FileNames : disk[f].run <= run

\* While a run is writing, what it has overwritten is what it has come to.
Progress ==
    /\ phase \in {"preparing", "writing", "written"} =>
            /\ run > 0 /\ output \in Outputs
            /\ \A i \in Places : disk[Files[i]].run = run <=> i <= position
    /\ phase = "preparing" => position = 0
    /\ phase = "written" => position = Len(Files)

\* What it has not overwritten is what was there.
Kept ==
    \A f \in FileNames :
        IF f \in Overwritten THEN disk[f].of = output ELSE disk[f] = before[f]

\* A full run whose contents are refused touches nothing.
Refused ==
    /\ phase = "preparing" => disk = before
    /\ phase \in {"writing", "written"} => ~Full(output) \/ Sound(output)
    /\ phase = "failed" /\ Full(output) /\ ~Sound(output) => disk = before

\* Only a loss nobody noticed or the end of a run leaves part of a file.
Cut == {f \in Overwritten : ~disk[f].whole}
FewCut ==
    /\ Cardinality(Cut) <= lost + 1
    /\ phase \in {"preparing", "writing", "written"} => Cardinality(Cut) <= lost

FilesIInv == FilesTypes /\ Ordered /\ Progress /\ Kept /\ Refused /\ FewCut

-----------------------------------------------------------------------------
(* Overwriting one file                                                    *)

\* What every step that writes the next file does, whether all of its contents
\* reach the disk or not.
LEMMA Overwriting ==
    ASSUME FilesIInv, phase = "writing", position < Len(Files), NEW whole \in BOOLEAN,
           Written(Files[position + 1], whole), UNCHANGED <<run, output, before>>
    PROVE  /\ disk' = [f \in FileNames |-> disk'[f]]
           /\ \A f \in FileNames : disk'[f].run \in Nat /\ disk'[f].whole \in BOOLEAN
           /\ Ordered' /\ Kept'
           /\ \A i \in Places : disk'[Files[i]].run = run <=> i <= position + 1
           /\ Cut' = IF whole THEN Cut ELSE Cut \cup {Files[position + 1]}
<1> DEFINE next == Files[position + 1]
<1>1. position + 1 \in Places /\ position \in Nat /\ run \in Nat /\ run > 0
  BY FilesAreDistinct DEF FilesIInv, FilesTypes, Progress, Places
<1>2. next \in FileNames /\ disk'[next] = [of |-> output, run |-> run, whole |-> whole]
  BY <1>1, FilesAreDistinct DEF Written, FilesIInv, FilesTypes
<1>3. \A f \in FileNames : f # next => disk'[f] = disk[f]
  BY DEF Written, FilesIInv, FilesTypes
<1>4. \A i \in Places : i # position + 1 => Files[i] # next
  BY <1>1, FilesAreDistinct
<1>5. \A i \in Places : i # position + 1 => disk'[Files[i]] = disk[Files[i]]
  BY <1>3, <1>4, FilesAreDistinct
<1>6. /\ disk' = [f \in FileNames |-> disk'[f]]
      /\ \A f \in FileNames : disk'[f].run \in Nat /\ disk'[f].whole \in BOOLEAN
  BY <1>1, <1>2, <1>3 DEF Written, FilesIInv, FilesTypes
<1>7. \A i \in Places : disk'[Files[i]].run = run <=> i <= position + 1
  <2>1. disk'[next].run = run
    BY <1>2
  <2>2. \A i \in Places : disk[Files[i]].run = run <=> i <= position
    BY DEF FilesIInv, Progress
  <2> QED BY <1>1, <1>5, <2>1, <2>2 DEF Places
<1>8. \A f \in FileNames : disk'[f].run <= run
  BY <1>1, <1>2, <1>3 DEF FilesIInv, Ordered
<1>9. Ordered'
  <2>1. ASSUME NEW i \in Places, NEW j \in Places, i < j
        PROVE  disk'[Files[i]].run >= disk'[Files[j]].run
    <3>1. CASE i <= position + 1
      BY <1>1, <1>6, <1>7, <1>8, <3>1, FilesAreDistinct
    <3>2. CASE ~(i <= position + 1)
      <4>1. disk'[Files[i]] = disk[Files[i]] /\ disk'[Files[j]] = disk[Files[j]]
        BY <1>1, <1>5, <2>1, <3>2 DEF Places
      <4> QED BY <2>1, <4>1 DEF FilesIInv, Ordered
    <3> QED BY <3>1, <3>2
  <2> QED BY <1>8, <2>1 DEF Ordered
<1>10. /\ Overwritten' = Overwritten \cup {next}
       /\ next \notin Overwritten
  <2>1. disk[next].run # run
    BY <1>1 DEF FilesIInv, Progress
  <2> QED BY <1>1, <1>2, <1>3, <2>1 DEF Overwritten
<1>11. Kept'
  <2> SUFFICES ASSUME NEW f \in FileNames
               PROVE  IF f \in Overwritten' THEN disk'[f].of = output ELSE disk'[f] = before[f]
    BY DEF Kept
  <2>1. CASE f = next
    BY <1>2, <1>10, <2>1
  <2>2. CASE f # next
    BY <1>3, <1>10, <2>2 DEF FilesIInv, Kept
  <2> QED BY <2>1, <2>2
<1>12. Cut' = IF whole THEN Cut ELSE Cut \cup {next}
  <2>1. Overwritten \subseteq FileNames
    BY DEF Overwritten
  <2> QED BY <1>2, <1>3, <1>10, <2>1 DEF Cut
<1> QED BY <1>6, <1>7, <1>9, <1>11, <1>12

\* There are finitely many files, and one more is cut at most.
LEMMA CutIsFinite ==
    /\ IsFiniteSet(Cut)
    /\ Cardinality(Cut) \in Nat
    /\ \A f : Cardinality(Cut \cup {f}) <= Cardinality(Cut) + 1
<1>1. IsFiniteSet(FileNames)
  <2> DEFINE at == [i \in Places |-> Files[i]]
  <2>1. IsFiniteSet(Places)
    <3>1. Places = 1 .. 12 /\ 1 \in Int /\ 12 \in Int
      BY FilesAreDistinct DEF Places
    <3> QED BY <3>1, FS_Interval
  <2>2. at \in Surjection(Places, FileNames)
    BY FilesAreDistinct DEF Surjection
  <2> HIDE DEF at
  <2> QED BY <2>1, <2>2, FS_Surjection
<1>2. Cut \in SUBSET FileNames
  BY DEF Cut, Overwritten
<1>3. IsFiniteSet(Cut)
  BY <1>1, <1>2, FS_Subset
<1>4. Cardinality(Cut) \in Nat
  BY <1>3, FS_CardinalityType
<1>5. ASSUME NEW f PROVE Cardinality(Cut \cup {f}) <= Cardinality(Cut) + 1
  <2>1. Cardinality(Cut \cup {f}) =
            IF f \in Cut THEN Cardinality(Cut) ELSE Cardinality(Cut) + 1
    BY <1>3, FS_AddElement
  <2> QED BY <1>4, <2>1
<1> QED BY <1>3, <1>4, <1>5

-----------------------------------------------------------------------------
(* Every step preserves the invariant                                      *)

\* The directory is empty at first.
LEMMA FilesIInvInit == FilesInit => FilesIInv
<1> SUFFICES ASSUME FilesInit PROVE FilesIInv
  OBVIOUS
<1>1. /\ disk = [f \in FileNames |-> Absent(output)]
      /\ \A f \in FileNames : disk[f] = [of |-> output, run |-> 0, whole |-> FALSE]
      /\ before = disk /\ run = 0 /\ lost = 0 /\ position = 0 /\ phase = "idle"
  BY DEF FilesInit, Absent
<1>2. Overwritten = {} /\ Cut = {}
  BY <1>1 DEF Overwritten, Cut
<1>3. \A f \in FileNames : disk[f].run = 0 /\ disk[f].whole = FALSE
  BY <1>1
<1>8. disk = [f \in FileNames |-> disk[f]]
  BY <1>1
<1>7. FilesTypes
  <2>1. position \in 0 .. Len(Files)
    BY <1>1, FilesAreDistinct
  <2>2. run \in Nat /\ lost \in Nat /\ phase = "idle"
    BY <1>1
  <2>3. \A f \in FileNames : disk[f].run \in Nat /\ disk[f].whole \in BOOLEAN
    <3>1. 0 \in Nat /\ FALSE \in BOOLEAN
      OBVIOUS
    <3> QED BY <1>3, <3>1, Zenon
  <2> QED BY <1>8, <2>1, <2>2, <2>3, Zenon DEF FilesTypes
<1>4. Ordered
  <2>1. \A i \in Places : disk[Files[i]].run = 0
    BY <1>3, FilesAreDistinct
  <2> QED BY <1>1, <1>3, <2>1 DEF Ordered
<1>5. FewCut
  BY <1>1, <1>2, FS_EmptySet DEF FewCut
<1>6. Progress /\ Kept /\ Refused
  BY <1>1, <1>2 DEF Progress, Kept, Refused
<1> QED BY <1>4, <1>5, <1>6, <1>7 DEF FilesIInv

\* A run begins: everything there is from an earlier one.
LEMMA BeginStep ==
    ASSUME FilesIInv, NEW o \in Outputs, Begin(o)
    PROVE  FilesIInv'
<1>1. /\ run' = run + 1 /\ output' = o /\ phase' = "preparing" /\ position' = 0
      /\ before' = disk /\ disk' = disk /\ lost' = lost
  BY DEF Begin
<1>2. \A f \in FileNames : disk'[f].run # run'
  BY <1>1 DEF FilesIInv, FilesTypes, Ordered
<1>3. Overwritten' = {} /\ Cut' = {}
  BY <1>2 DEF Overwritten, Cut
<1>4. FilesTypes' /\ Ordered'
  <2>1. run \in Nat /\ \A f \in FileNames : disk[f].run \in Nat /\ disk[f].run <= run
    BY DEF FilesIInv, FilesTypes, Ordered
  <2>2. Ordered'
    BY <1>1, <2>1 DEF FilesIInv, Ordered
  <2>3. position' \in 0 .. Len(Files)
    BY <1>1, FilesAreDistinct
  <2>4. disk' = [f \in FileNames |-> disk'[f]]
    BY <1>1 DEF FilesIInv, FilesTypes
  <2>5. \A f \in FileNames : disk'[f].run \in Nat /\ disk'[f].whole \in BOOLEAN
    BY <1>1 DEF FilesIInv, FilesTypes
  <2>6. FilesTypes'
    BY <1>1, <2>1, <2>3, <2>4, <2>5 DEF FilesIInv, FilesTypes
  <2> QED BY <2>2, <2>6
<1>5. Progress'
  <2>1. run' > 0 /\ o \in Outputs
    BY <1>1 DEF FilesIInv, FilesTypes
  <2>2. \A i \in Places : disk'[Files[i]].run # run' /\ ~(i <= 0)
    BY <1>2, FilesAreDistinct DEF Places
  <2> QED BY <1>1, <2>1, <2>2 DEF Progress
<1>6. Kept' /\ Refused'
  BY <1>1, <1>3 DEF Kept, Refused
<1>7. FewCut'
  BY <1>1, <1>3, FS_EmptySet DEF FilesIInv, FilesTypes, FewCut
<1> QED BY <1>4, <1>5, <1>6, <1>7 DEF FilesIInv

\* A step that leaves the files alone changes the phase only.
LEMMA Untouched ==
    ASSUME FilesIInv, UNCHANGED <<disk, run, output, before, lost, position>>,
           phase' \in {"idle", "preparing", "writing", "written", "failed"},
           Progress', Refused',
           phase' \in {"preparing", "writing", "written"}
                => phase \in {"preparing", "writing", "written"}
    PROVE  FilesIInv'
<1>1. Overwritten' = Overwritten
  BY DEF Overwritten
<1>2. Cut' = Cut
  BY <1>1 DEF Cut
<1>3. FilesTypes' /\ Ordered' /\ Kept'
  BY <1>1 DEF FilesIInv, FilesTypes, Ordered, Kept
<1>4. FewCut'
  BY <1>2 DEF FilesIInv, FewCut
<1> QED BY <1>3, <1>4 DEF FilesIInv

\* The next file is written: whole, or cut by a loss that is counted, or by the
\* end of the run.
LEMMA WritingStep ==
    ASSUME FilesIInv, phase = "writing", position < Len(Files), NEW whole \in BOOLEAN,
           Written(Files[position + 1], whole), UNCHANGED <<run, output, before>>,
           \/ phase' = "writing" /\ position' = position + 1
                /\ lost' = IF whole THEN lost ELSE lost + 1
           \/ phase' \in {"failed", "idle"} /\ UNCHANGED <<position, lost>>
    PROVE  FilesIInv'
<1>1. /\ position \in Nat /\ lost \in Nat /\ run \in Nat /\ run > 0
      /\ output \in Outputs
  BY DEF FilesIInv, FilesTypes, Progress
<1>2. /\ disk' = [f \in FileNames |-> disk'[f]]
      /\ \A f \in FileNames : disk'[f].run \in Nat /\ disk'[f].whole \in BOOLEAN
      /\ Ordered' /\ Kept'
      /\ \A i \in Places : disk'[Files[i]].run = run <=> i <= position + 1
      /\ Cut' = IF whole THEN Cut ELSE Cut \cup {Files[position + 1]}
  BY Overwriting
<1>3. FilesTypes'
  BY <1>1, <1>2, FilesAreDistinct DEF FilesIInv, FilesTypes
<1>4. Progress'
  BY <1>1, <1>2 DEF Progress
<1>5. Refused'
  BY DEF FilesIInv, Refused
<1>6. FewCut'
  <2>1. /\ Cardinality(Cut)' = Cardinality(Cut')
        /\ Cardinality(Cut) \in Nat /\ Cardinality(Cut) <= lost
        /\ Cardinality(Cut \cup {Files[position + 1]}) <= Cardinality(Cut) + 1
    BY CutIsFinite DEF FilesIInv, FewCut
  <2>2. Cardinality(Cut') \in Nat
    <3>1. (IsFiniteSet(Cut) /\ Cardinality(Cut) \in Nat)'
      BY CutIsFinite, PTL
    <3> QED BY <3>1
  <2>3. CASE whole
    <3>1. Cut' = Cut
      BY <1>2, <2>3
    <3> QED BY <1>1, <2>1, <2>3, <3>1 DEF FewCut
  <2>4. CASE ~whole
    <3>1. Cut' = Cut \cup {Files[position + 1]}
      BY <1>2, <2>4
    <3>2. Cardinality(Cut') <= lost + 1
      BY <1>1, <2>1, <2>2, <3>1
    <3> QED BY <1>1, <2>2, <2>4, <3>2 DEF FewCut
  <2> QED BY <2>3, <2>4
<1> QED BY <1>2, <1>3, <1>4, <1>5, <1>6 DEF FilesIInv

LEMMA FilesIInvStep == FilesIInv /\ [FilesNext]_files_vars => FilesIInv'
<1> SUFFICES ASSUME FilesIInv, [FilesNext]_files_vars PROVE FilesIInv'
  OBVIOUS
<1>1. ASSUME NEW o \in Outputs, Begin(o) PROVE FilesIInv'
  BY <1>1, BeginStep
<1>2. CASE Prepare
  <2>1. /\ UNCHANGED <<disk, run, output, before, lost, position>>
        /\ phase = "preparing" /\ phase' \in {"writing", "failed"}
        /\ phase' = "writing" => ~Full(output) \/ Sound(output)
    BY <1>2 DEF Prepare, Fail
  <2>2. Progress'
    BY <2>1 DEF FilesIInv, Progress
  <2>3. Refused'
    BY <2>1 DEF FilesIInv, Refused
  <2> QED BY <2>1, <2>2, <2>3, Untouched
<1>3. CASE WriteFile
  BY <1>3, WritingStep DEF WriteFile
<1>4. CASE LoseOnClose
  BY <1>4, WritingStep DEF LoseOnClose
<1>5. CASE NotOpened
  <2>1. /\ UNCHANGED <<disk, run, output, before, lost, position>>
        /\ phase = "writing" /\ phase' = "failed"
    BY <1>5 DEF NotOpened, Fail
  <2>2. Progress' /\ Refused'
    BY <2>1 DEF FilesIInv, Progress, Refused
  <2> QED BY <2>1, <2>2, Untouched
<1>6. CASE NotWritten
  BY <1>6, WritingStep DEF NotWritten, Fail
<1>7. CASE Finish
  <2>1. /\ UNCHANGED <<disk, run, output, before, lost, position>>
        /\ phase = "writing" /\ phase' = "written" /\ position = Len(Files)
    BY <1>7 DEF Finish
  <2>2. Progress' /\ Refused'
    BY <2>1 DEF FilesIInv, Progress, Refused
  <2> QED BY <2>1, <2>2, Untouched
<1>8. CASE Crash
  <2>1. CASE UNCHANGED disk
    <3>1. /\ UNCHANGED <<disk, run, output, before, lost, position>>
          /\ phase' = "idle"
      BY <1>8, <2>1 DEF Crash
    <3>2. Progress' /\ Refused'
      BY <3>1 DEF Progress, Refused
    <3> QED BY <3>1, <3>2, Untouched
  <2>2. CASE phase = "writing" /\ position < Len(Files)
             /\ Written(Files[position + 1], FALSE)
    BY <1>8, <2>2, WritingStep DEF Crash
  <2> QED BY <1>8, <2>1, <2>2 DEF Crash
<1>9. CASE UNCHANGED files_vars
  <2>1. UNCHANGED <<disk, run, output, before, lost, position, phase>>
    BY <1>9 DEF files_vars
  <2>2. Progress' /\ Refused' /\ phase' \in {"idle", "preparing", "writing", "written", "failed"}
    BY <2>1 DEF FilesIInv, FilesTypes, Progress, Refused
  <2> QED BY <2>1, <2>2, Untouched
<1> QED BY <1>1, <1>2, <1>3, <1>4, <1>5, <1>6, <1>7, <1>8, <1>9 DEF FilesNext

-----------------------------------------------------------------------------
(* Theorems                                                                *)

\* The inductive invariant holds in every reachable state.
THEOREM FilesInvariant == FilesSpec => []FilesIInv
BY FilesIInvInit, FilesIInvStep, PTL DEF FilesSpec

\* Whatever run fails or dies, and wherever: the directory tells which run has
\* touched which file, a success has touched all of them, no more is cut than
\* has been lost, and what is whole is of one run.  What the tables of one run
\* tell of each other is a matter of data, so that it is assumed here.
THEOREM DirectoryTellsTheRun ==
    ASSUME \A o \in Outputs : Sound(o) => TablesAgree(OutputOf(o))
    PROVE  FilesSpec => []FilesTellTheRun
<1>1. FilesIInv => FilesTellTheRun
  <2> SUFFICES ASSUME FilesIInv PROVE FilesTellTheRun
    OBVIOUS
  <2>1. \A i, j \in DOMAIN Files : i < j => disk[Files[i]].run >= disk[Files[j]].run
    BY FilesAreDistinct DEF FilesIInv, Ordered
  <2>2. phase = "written" => Overwritten = FileNames
    BY FilesAreDistinct DEF FilesIInv, Progress, Overwritten, Places
  <2>3. /\ Cardinality(Cut) <= lost + 1
        /\ phase = "written" => Cardinality(Cut) <= lost
    BY DEF FilesIInv, FewCut
  <2>4. phase = "written" => {f \in FileNames : ~disk[f].whole} = Cut
    BY <2>2 DEF Cut
  <2>5. \A f \in FileNames \ Overwritten : disk[f] = before[f]
    BY DEF FilesIInv, Kept
  <2>6. \A f \in FileNames : disk[f].whole =>
            disk[f].of = IF f \in Overwritten THEN output ELSE before[f].of
    BY DEF FilesIInv, Kept
  <2>7. phase = "failed" /\ Full(output) /\ ~Sound(output) => disk = before
    BY DEF FilesIInv, Refused
  <2>8. phase = "written" /\ Sound(output) => TablesAgree(OutputOf(output))
    BY DEF FilesIInv, Progress
  <2> QED BY <2>1, <2>2, <2>3, <2>4, <2>5, <2>6, <2>7, <2>8 DEF FilesTellTheRun, Cut
<1> QED BY <1>1, FilesInvariant, PTL
==============================================================================
