------------------------------ MODULE SearchPlan ------------------------------
(***************************************************************************)
(* From an assignment input to the search trees it runs and back: the      *)
(* pipeline's dispatch on the calculation formulation, the profile checks, *)
(* the search-time domain, one task per demand row, one tree job per       *)
(* origin, one batch of projection slots per job, and the results that the *)
(* batches deliver to tasks, pairs or counts.                              *)
(*                                                                         *)
(* A tree is what it finds: the connections of its origin and targets that *)
(* board inside its domain.  How it finds them is OdDayTree's subject, what*)
(* it keeps of them CompleteConnections', and the loading of the day paths *)
(* is DemandSplit's; the OD-day formulation ends here with its batches     *)
(* planned.  run.entry = "library" is a caller of the planning functions   *)
(* that does not go through the pipeline's profile checks.                 *)
(***************************************************************************)
EXTENDS TimeDomain, TLC

CONSTANTS
    Zones,                  \* the declared zones, positive numbers
    Connections,            \* what the timetable offers between two zones:
                            \* from, to, board, access, arrival
    Runs                    \* the inputs: configurations with their demand

VARIABLES
    run, phase,
    execution,              \* the search-time domain, or NoExecution
    batches,                \* the planned batches
    delivered,              \* the batches whose results have been taken
    results,                \* connections by task, or counts by pair
    outcome                 \* the kind of result, "failed" included

vars == <<run, phase, execution, batches, delivered, results, outcome>>

NoExecution == [slices |-> <<>>]

Intervals == run.intervals

Period == [before |-> run.pre, after |-> run.post]

-----------------------------------------------------------------------------
(* Profiles: the combinations of settings a formulation may run with. *)

Profile(formulation) ==
    CASE formulation = "od_day" ->
           [diagnostic |-> FALSE, mode |-> "origin_period", origins |-> "declared",
            source |-> "service_day", destinations |-> "declared",
            projection |-> "od_day_pairs", retention |-> "tree"]
      [] formulation = "timed" ->
           [diagnostic |-> TRUE, mode |-> "origin_period", origins |-> "active",
            source |-> "service_day", destinations |-> "demand",
            projection |-> "demand_tasks", retention |-> "slot"]
      [] formulation = "all_zone" ->
           [diagnostic |-> TRUE, mode |-> "origin_period", origins |-> "declared",
            source |-> "service_day", destinations |-> "declared",
            projection |-> "completion_targets", retention |-> "tree"]

\* The demand-task formulation is refused whatever its settings.
ProfileAccepted(config) ==
    /\ config.formulation # "demand_task"
    /\ \A field \in DOMAIN Profile(config.formulation) :
          config[field] = Profile(config.formulation)[field]

\* validate_search_execution_projection_contract
ProjectionContract(config) ==
    /\ config.workers > 0 /\ config.workerMemory > 0
    /\ config.mode = "interval_local" => config.projection = "demand_tasks"
    /\ config.retention = "tree" => config.projection # "demand_tasks"
    /\ ProfileAccepted(config)

\* Full path output is for diagnostic runs only.
ExportAccepted(config) == config.export = "full_path" => config.diagnostic

-----------------------------------------------------------------------------
(* Tasks, jobs and batches. *)

ActiveRows == SelectSeq(run.demand, LAMBDA r : r.passengers > 0)

\* validate_search_task_builder_input, and build_search_tasks' lookup.
TasksDefined ==
    /\ IntervalIdsUnique(Intervals)
    /\ run.demand # <<>> => \A i \in DOMAIN Intervals : Intervals[i].start < Intervals[i].end
    /\ \A r \in Active(run.demand) : \E x \in ToSet(Intervals) : x.id = r.interval

\* build_search_tasks: one task for each row with passengers, in file order.
Tasks ==
    [i \in DOMAIN ActiveRows |->
        [index    |-> i,
         from     |-> ActiveRows[i].from,
         to       |-> ActiveRows[i].to,
         interval |-> IntervalOf(Intervals, ActiveRows[i].interval),
         domain   |-> Normalized({Expanded(IntervalOf(Intervals, ActiveRows[i].interval), NoPadding)})]]

TasksFrom(o) == {i \in DOMAIN Tasks : Tasks[i].from = o}

Ascending(S) == SetToSortSeq(S, <)

TreeOrigins ==
    IF run.origins = "declared" THEN Zones ELSE {Tasks[i].from : i \in DOMAIN Tasks}

TargetsOf(o) ==
    Ascending({Tasks[i].to : i \in TasksFrom(o)}
              \cup (IF run.destinations = "declared" THEN Zones ELSE {}))

\* A task of an undeclared zone, or an origin nobody has a domain for, fails the plan.
JobsDefined ==
    /\ run.origins = "declared" => \A i \in DOMAIN Tasks : Tasks[i].from \in Zones
    /\ run.destinations = "declared" => /\ Zones # {}
                                        /\ \A i \in DOMAIN Tasks : Tasks[i].to \in Zones
    /\ \A o \in TreeOrigins : HasDomain(execution, o)

Job(o) ==
    [from    |-> o,
     domain  |-> DomainOf(execution, o),
     targets |-> TargetsOf(o),
     tasks   |-> Ascending(TasksFrom(o))]

\* build_[declared_]origin_period_search_tree_jobs, in the order of the zones.
Jobs == LET origins == Ascending(TreeOrigins)
        IN  [j \in DOMAIN origins |-> Job(origins[j])]

TaskSlot(i) == [kind |-> "demand_task", from |-> Tasks[i].from, to |-> Tasks[i].to, task |-> i]

TargetSlot(kind, o, d) == [kind |-> kind, from |-> o, to |-> d, task |-> 0]

SlotsOf(job) ==
    CASE run.projection = "demand_tasks" ->
           [s \in DOMAIN job.tasks |-> TaskSlot(job.tasks[s])]
      [] run.projection = "od_day_pairs" ->
           [s \in DOMAIN job.targets |-> TargetSlot("od_day_pair", job.from, job.targets[s])]
      [] run.projection = "completion_targets" ->
           [s \in DOMAIN job.targets |-> TargetSlot("completion_target", job.from, job.targets[s])]

OriginPeriodBatch(job) ==
    [from |-> job.from, interval |-> 0, domain |-> job.domain,
     targets |-> job.targets, slots |-> SlotsOf(job)]

\* build_interval_local_search_batches: tasks with one key share a batch.
BatchKey(t) == <<t.from, t.interval.id, t.domain>>

BatchWith(planned, t) ==
    LET same == {b \in DOMAIN planned :
                    <<planned[b].from, planned[b].interval, planned[b].domain>> = BatchKey(t)}
    IN  IF same = {}
        THEN Append(planned, [from |-> t.from, interval |-> t.interval.id, domain |-> t.domain,
                              targets |-> <<t.to>>, slots |-> <<TaskSlot(t.index)>>])
        ELSE LET b == Min(same)
             IN  [planned EXCEPT
                    ![b].targets = IF t.to \in ToSet(@) THEN @ ELSE Append(@, t.to),
                    ![b].slots   = Append(@, TaskSlot(t.index))]

PlannedBatches ==
    IF run.mode = "interval_local"
    THEN FoldLeft(BatchWith, <<>>, Tasks)
    ELSE LET jobs == Jobs IN [j \in DOMAIN jobs |-> OriginPeriodBatch(jobs[j])]

\* validate_search_batch_projection_contract
BatchContract(planned) ==
    \A b \in DOMAIN planned :
       LET batch == planned[b]
       IN  /\ (batch.interval = 0) <=> (run.mode = "origin_period")
           /\ IsInjective(batch.targets)
           /\ \A s \in DOMAIN batch.slots :
                 LET slot == batch.slots[s]
                 IN  /\ slot.from = batch.from
                     /\ slot.to \in ToSet(batch.targets)
                     /\ IF run.projection = "demand_tasks"
                        THEN /\ slot.kind = "demand_task"
                             /\ slot.task \in DOMAIN Tasks
                             /\ slot.from = Tasks[slot.task].from
                             /\ slot.to = Tasks[slot.task].to
                             /\ run.mode = "interval_local" =>
                                   Tasks[slot.task].interval.id = batch.interval
                        ELSE slot.task = 0 /\ slot.to = batch.targets[s]

\* validate_od_day_production_batches, and per batch the production contract.
OdDayContract(planned) ==
    run.projection = "od_day_pairs" =>
       /\ Len(planned) = IF run.origins = "declared" THEN Cardinality(Zones)
                                                     ELSE Cardinality(TreeOrigins)
       /\ \A b \in DOMAIN planned :
             /\ planned[b].interval = 0
             /\ planned[b].domain # <<>>
             /\ Len(planned[b].targets) = Len(planned[b].slots)
             /\ run.destinations = "declared" => Len(planned[b].targets) = Cardinality(Zones)

-----------------------------------------------------------------------------
(* What a tree finds, and what a slot takes of it. *)

Departure(c) == c.board - c.access

Found(batch) ==
    {c \in Connections : /\ c.from = batch.from
                         /\ c.to \in ToSet(batch.targets)
                         /\ InDomain(batch.domain, c.board)}

\* connection_admissible_for_demand_segment, by departure or by arrival.
Admissible(c, interval) ==
    LET reference == IF run.basis = "departure" THEN Departure(c) ELSE c.arrival
    IN  /\ InWindow(Expanded(interval, Period), reference)
        /\ run.positiveDelta
           \/ IF run.basis = "departure" THEN Departure(c) <= interval.end
                                         ELSE interval.start <= c.arrival

Taken(batch, slot) ==
    {c \in Found(batch) : /\ c.to = slot.to
                          /\ slot.kind = "demand_task" => Admissible(c, Tasks[slot.task].interval)}

\* A batch without targets or slots is skipped.
Skipped(batch) == batch.targets = <<>> \/ batch.slots = <<>>

\* A bug: the first boarding is asked for, not the walk before it.
StartsEarly_ByBoarding(batch) ==
    /\ run.projection = "demand_tasks" /\ ~Skipped(batch)
    /\ \E c \in Found(batch), slot \in ToSet(batch.slots) :
          c.to = slot.to /\ c.board < 0

\* make_connection, of what arrives at the zone of a demand task, admissible or
\* not: it fails the tree if the walk to the first boarding began before midnight.
\* Here everything found arrives; a real tree may have cut it off by then.
StartsEarly(batch) ==
    /\ run.projection = "demand_tasks" /\ ~Skipped(batch)
    /\ \E c \in Found(batch), slot \in ToSet(batch.slots) :
          c.to = slot.to /\ Departure(c) < 0

\* materialize_demand_task_search_result: a slot knows the task it fills.
IntoTasks(filled, batch) ==
    [t \in DOMAIN filled |->
        LET mine == {s \in DOMAIN batch.slots : batch.slots[s].task = t}
        IN  IF Skipped(batch) \/ mine = {} THEN filled[t]
                                           ELSE Taken(batch, batch.slots[Max(mine)])]

\* CountOnlyAllZoneSearchResultSink::accept
IntoCounts(counts, batch) ==
    IF Skipped(batch) THEN counts
    ELSE [p \in {<<batch.from, batch.slots[s].to>> : s \in DOMAIN batch.slots} |->
             Cardinality(Taken(batch, CHOOSE slot \in ToSet(batch.slots) : slot.to = p[2]))] @@ counts

\* validate_search_step_output: a demand row from a zone to itself is planned and
\* searched, but none of its connections is accepted.
OutputValid(filled) ==
    \A t \in DOMAIN filled : \A c \in filled[t] :
       /\ c.from # c.to /\ c.from = Tasks[t].from /\ c.to = Tasks[t].to
       /\ Admissible(c, Tasks[t].interval)
       /\ Departure(c) >= 0 /\ Departure(c) <= c.arrival

-----------------------------------------------------------------------------

Init ==
    /\ run \in Runs
    /\ phase = "checks"
    /\ execution = NoExecution
    /\ batches = <<>>
    /\ delivered = {}
    /\ results = <<>>
    /\ outcome = "none"

Fail ==
    /\ phase' = "ended" /\ outcome' = "failed"
    /\ UNCHANGED <<run, execution, batches, delivered, results>>

\* run_timetable_assignment_pipeline_with_context, up to the search.
CheckProfile ==
    /\ phase = "checks"
    /\ run.entry = "pipeline"
    /\ IF ~ExportAccepted(run) THEN Fail
       ELSE IF ~run.calculate
       THEN /\ phase' = "ended" /\ outcome' = "disabled"
            /\ UNCHANGED <<run, execution, batches, delivered, results>>
       ELSE IF ~ProfileAccepted(run) \/ (run.capacity /\ run.formulation # "all_zone") THEN Fail
       ELSE /\ phase' = "tasks"
            /\ UNCHANGED <<run, execution, batches, delivered, results, outcome>>

EnterLibrary ==
    /\ phase = "checks"
    /\ run.entry = "library"
    /\ phase' = "tasks"
    /\ UNCHANGED <<run, execution, batches, delivered, results, outcome>>

\* prepare_validated_search_step
BuildTasks ==
    /\ phase = "tasks"
    /\ IF ~TasksDefined THEN Fail
       ELSE /\ phase' = "domain"
            /\ UNCHANGED <<run, execution, batches, delivered, results, outcome>>

\* prepare_pipeline_search_time_domain_execution, for interval-local trees.
NoDomainNeeded ==
    /\ phase = "domain"
    /\ run.mode = "interval_local"
    /\ phase' = "planning"
    /\ UNCHANGED <<run, execution, batches, delivered, results, outcome>>

\* prepare_full_period_search_time_domain_execution
TakeFullPeriod ==
    /\ phase = "domain"
    /\ run.mode = "origin_period" /\ run.source # "demand_induced"
    /\ IF ~FullPeriodDefined(run.source, Intervals) THEN Fail
       ELSE /\ execution' = FullPeriod(run.source, Intervals, Period)
            /\ phase' = "planning"
            /\ UNCHANGED <<run, batches, delivered, results, outcome>>

\* prepare_search_time_domain_execution: plan, build, validate, adapt.
TakeDemandInduced ==
    /\ phase = "domain"
    /\ run.mode = "origin_period" /\ run.source = "demand_induced"
    /\ LET adaptation == Planned(run.stage, run.windows)
       IN  CASE adaptation = "refused" -> Fail
             [] adaptation = "off" -> /\ phase' = "planning"
                                      /\ UNCHANGED <<run, execution, batches, delivered, results, outcome>>
             [] OTHER ->
                  IF ~BuilderInputValid(run.demand, Intervals, run.policy) THEN Fail
                  ELSE LET catalog == Catalog(run.windows, run.demand, Intervals, Padding(run.policy))
                       IN  IF /\ CatalogValid(catalog) /\ CoversDemand(catalog, run.demand)
                              /\ Adaptable(catalog, adaptation)
                              /\ ExecutionValid(Adapted(catalog, adaptation))
                           THEN /\ execution' = Adapted(catalog, adaptation)
                                /\ phase' = "planning"
                                /\ UNCHANGED <<run, batches, delivered, results, outcome>>
                           ELSE Fail

\* plan_search_batches.  The capacity-aware cost is refused with an origin's period.
PlanBatches ==
    /\ phase = "planning"
    /\ IF \/ run.entry = "pipeline" /\ (~ProjectionContract(run) \/ run.capacity)
          \/ run.mode = "origin_period" /\ (execution = NoExecution \/ ~JobsDefined)
       THEN Fail
       ELSE /\ batches' = PlannedBatches
            /\ IF BatchContract(batches') /\ OdDayContract(batches')
               THEN IF run.projection = "od_day_pairs"
                    THEN phase' = "ended" /\ outcome' = "od_day" /\ results' = results
                    ELSE /\ phase' = "searching" /\ outcome' = outcome
                         /\ results' = IF run.projection = "demand_tasks"
                                       THEN [t \in DOMAIN Tasks |-> {}] ELSE <<>>
               ELSE phase' = "ended" /\ outcome' = "failed" /\ results' = results
            /\ UNCHANGED <<run, execution, delivered>>

\* Trees of a demand search run one after another, those of an all-zone search in
\* any order: each worker hands its counts to the sink under the sink's lock.
DeliverBatch(b) ==
    /\ phase = "searching"
    /\ b \in DOMAIN batches \ delivered
    /\ run.projection = "demand_tasks" => \A a \in 1 .. (b - 1) : a \in delivered
    /\ IF StartsEarly(batches[b]) THEN Fail
       ELSE /\ results' = IF run.projection = "demand_tasks"
                          THEN IntoTasks(results, batches[b])
                          ELSE IntoCounts(results, batches[b])
            /\ delivered' = delivered \cup {b}
            /\ UNCHANGED <<run, phase, execution, batches, outcome>>

\* run_validated_search_step, after the search.
FinishSearch ==
    /\ phase = "searching"
    /\ delivered = DOMAIN batches
    /\ IF run.projection = "demand_tasks" /\ run.entry = "pipeline" /\ ~OutputValid(results)
       THEN Fail
       ELSE /\ phase' = "ended"
            /\ outcome' = IF run.projection = "demand_tasks" THEN "timed" ELSE "all_zone"
            /\ UNCHANGED <<run, execution, batches, delivered, results>>

Next ==
    \/ CheckProfile \/ EnterLibrary \/ BuildTasks
    \/ NoDomainNeeded \/ TakeFullPeriod \/ TakeDemandInduced
    \/ PlanBatches
    \/ \E b \in DOMAIN batches : DeliverBatch(b)
    \/ FinishSearch

Spec == Init /\ [][Next]_vars
-----------------------------------------------------------------------------
(* What a run owes its input, said without windows, slots and jobs.         *)

Horizon == (0 - DayEnd) .. (2 * DayEnd)

\* May a tree of origin o (for an interval, in interval-local search) look for
\* a first boarding at t?
Searched(o, interval, t) ==
    CASE run.mode = "interval_local" ->
           InWindow(Expanded(IntervalOf(Intervals, interval), NoPadding), t)
      [] run.mode = "origin_period" /\ run.source = "service_day" -> 0 <= t /\ t <= DayEnd
      [] run.mode = "origin_period" /\ run.source = "assignment_period" ->
           \E x \in ToSet(Intervals) : x.start - run.pre <= t /\ t <= x.end + run.post
      [] run.mode = "origin_period" /\ run.source = "demand_induced" ->
           \E r \in Active(run.demand) :
              /\ run.windows = "global" \/ r.from = o
              /\ InWindow(Expanded(IntervalOf(Intervals, r.interval), Padding(run.policy)), t)

\* Declared, or only named by the demand.
Named == Zones \cup UNION {{r.from, r.to} : r \in Active(run.demand)}

PairsSearched ==
    {p \in Named \X Named :
        /\ \/ run.origins = "declared" /\ p[1] \in Zones
           \/ \E r \in Active(run.demand) : r.from = p[1]
        /\ \/ run.destinations = "declared" /\ p[2] \in Zones
           \/ \E r \in Active(run.demand) : r.from = p[1] /\ r.to = p[2]}

SlotsOfPair(p) ==
    {x \in UNION {{b} \X DOMAIN batches[b].slots : b \in DOMAIN batches} :
        LET slot == batches[x[1]].slots[x[2]] IN <<slot.from, slot.to>> = p}

SlotsOfTask(t) ==
    {x \in UNION {{b} \X DOMAIN batches[b].slots : b \in DOMAIN batches} :
        batches[x[1]].slots[x[2]].task = t}

\* What row t's zones are offered where its settings look for boardings.
OnOffer(t) ==
    {c \in Connections : /\ c.from = Tasks[t].from /\ c.to = Tasks[t].to
                         /\ Searched(c.from, Tasks[t].interval.id, c.board)}

Wanted(t) == {c \in OnOffer(t) : Admissible(c, Tasks[t].interval)}

\* Every reason for refusing an input: those the code documents, and what the
\* search makes of two kinds of rows, a connection that starts before midnight
\* and, in the pipeline, a connection of a zone with itself.
Refusable ==
    \/ run.entry = "pipeline" /\
          \/ run.formulation = "demand_task" \/ run.capacity \/ 0 \in {run.workers, run.workerMemory}
          \/ [x \in DOMAIN Profile("timed") |-> run[x]] # Profile(run.formulation)
          \/ run.export = "full_path" /\ ~run.diagnostic
    \/ ~IntervalIdsUnique(Intervals)
    \/ \E r \in Active(run.demand) : \A x \in ToSet(Intervals) : x.id # r.interval
    \/ \E x \in ToSet(Intervals) : x.start >= x.end
    \/ run.source = "assignment_period" /\ Intervals = <<>>
    \/ \E r \in Active(run.demand) :
          \/ run.origins = "declared" /\ r.from \notin Zones
          \/ run.destinations = "declared" /\ r.to \notin Zones
    \/ run.mode = "origin_period" /\ run.source = "demand_induced" /\
          \/ run.stage = "disabled"
          \/ run.stage = "global_strict" /\ run.windows # "global"
          \/ run.stage = "per_origin_strict" /\ run.windows = "per_od"
          \/ ~PaddingResolvable(run.policy)
          \/ run.projection = "od_day_pairs" /\ Active(run.demand) = {}
          \/ /\ run.windows # "global" /\ run.origins = "declared"
             /\ \E o \in Zones : \A r \in Active(run.demand) : r.from # o
    \/ /\ run.projection = "demand_tasks"
       /\ \E t \in DOMAIN Tasks : \E c \in OnOffer(t) : Departure(c) < 0
    \/ /\ run.projection = "demand_tasks" /\ run.entry = "pipeline"
       /\ \E t \in DOMAIN Tasks : \E c \in Wanted(t) : c.from = c.to

\* Whatever the settings, a run that is not refused for a reason the input shows
\* searches, for every demand row with passengers, exactly the boardings its
\* settings ask for, and gives the row exactly the admissible connections that
\* board there, whichever rows share a tree and whichever batch ends first, none
\* of them starting before midnight; a run that counts pairs counts each declared pair once.
TasksAreServed ==
    /\ \A b \in DOMAIN batches :
          /\ \A t \in Horizon :
                InDomain(batches[b].domain, t)
                   <=> Searched(batches[b].from, batches[b].interval, t)
          /\ run.mode = "origin_period" =>
                \A c \in DOMAIN batches : batches[c].from = batches[b].from => b = c
    /\ batches # <<>> /\ run.projection = "demand_tasks" =>
          \A t \in DOMAIN Tasks :
             \E b \in DOMAIN batches : \E s \in DOMAIN batches[b].slots :
                /\ SlotsOfTask(t) = {<<b, s>>}
                /\ batches[b].slots[s].to = Tasks[t].to
                /\ Tasks[t].to \in ToSet(batches[b].targets)
    /\ batches # <<>> /\ run.projection # "demand_tasks" =>
          \A p \in Named \X Named :
             Cardinality(SlotsOfPair(p)) = IF p \in PairsSearched THEN 1 ELSE 0
    /\ outcome = "timed" => \A t \in DOMAIN Tasks :
          results[t] = Wanted(t) /\ \A c \in results[t] : Departure(c) >= 0
    /\ outcome = "all_zone" =>
          /\ DOMAIN results = PairsSearched
          /\ \A p \in PairsSearched :
                results[p] = Cardinality({c \in Connections :
                    c.from = p[1] /\ c.to = p[2] /\ Searched(p[1], 0, c.board)})
    /\ outcome = "failed" => Refusable
=============================================================================
