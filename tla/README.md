# A verification development for timetable-transit-assigment

The program assigns public-transport demand to timetable connections. It reads a
network, a timetable and an origin-destination matrix, searches the connections of
every origin with a branch-and-bound tree, chooses and splits demand over them,
accumulates loads, and writes files, while a terminal interface shows progress.

This directory holds TLA+ modules translated from the C++ sources, the TLC
configurations that check them on small instances, and TLAPS proofs. Line numbers
below are those of the sources; `PROJECT.json` maps every definition to the lines it
stands for.

## 1. Inventory

| Component | State | Operations | What is hard | What makes it correct |
|---|---|---|---|---|
| Input reading (`infra/pair_file_data_source.cpp`, `presegmented_input_*`, `params_txt_*`) | the paths found when the source is made; the input | make a source, load segments, capacities, demand and settings | files come and go between making and loading; rows contradict each other; built-in settings and those of params.txt | what is loaded is what the files say, and what they may not say is refused |
| Preprocessing (`preprocessing/`, `search/preprocessed_network.cpp`, `search/od_day/supply_graph.cpp`) | route and connection segments, sorted indices, the day-level graph | build ride and walk segments, give canonical ids, sort, bucket, check | ids of two builders meet; trips that overtake; loops; lookups by bounds in sorted arrays | the network is the timetable, and every lookup finds what is there |
| Search time domains and planning (`search_time_domain*.cpp`, `search/pipeline/`, `projection/`) | windows, tasks, jobs, batches, slots | merge windows, plan tasks and trees, deliver results | windows that touch at a point; departures before midnight; modes that exclude each other | each task gets what its window and zones admit, and each result goes to its own task |
| Parallel origin runtime (`search/runtime/parallel.*`, `od_day_runner.cpp`) | claim counter, completed and cancelled counters, cancellation token, futures | claim, search, re-check the token, count, deliver to the sink, complete; spawn, gather, unwind | many workers, errors and exceptions at any step, a caller's frame captured by reference | each origin delivered at most once, all of them on success, errors reported, no worker outlives the frame |
| By-origin accumulation (`assignment/detail/pipeline_od_day.cpp`) | choice, split, summary and load accumulators | the origin sink: load demand, append, accumulate | fails between two of its effects; origins come in any order | the parts list the same origins, and add up to the split of the whole day |
| OD-day search tree (`search/tree`, `search/runtime/batch_tree_execution.cpp`, `batch_runner.cpp`, `accepted_successor_application.cpp`) | branch arena, two frontier layers, phase counts, statistics | pop, expand, evaluate a successor, enqueue, compact, swap levels, stop, clean up | queued branches die unvisited; compaction runs inside an expansion | every branch is queued, expanding or released; nothing alive is dropped; the search ends |
| Node connection sets C_y (`search/frontier/retention_operations.cpp`, `node_connection_retention.cpp`, `relations/`) | entries by arrival, summary, label registry | relevance, tolerance, insertion, stale removal | incremental summary, labels that die by ancestor | the entries are mutually nondominated, the summary is theirs, an entry has a branch behind it |
| Interval-based search (`demand_runner.cpp`, `all_zone_runner.cpp`, `continuation_filter.cpp`) | arena with live children, active masks, metrics by search state, per-slot retention | the same tree with other retention; masks of tasks and targets; suffix bounds | a branch is freed with its last child; a bound from what is kept so far; dominance between prefixes of one state | the slots hold what a search without pruning would have found |
| Residual reachability and lower bounds (`search/residual`, `search/pruning`) | reverse graph, closures, bounds | build, validate, query | a fixpoint over a relaxed automaton with transfers left | bounds never exceed the truth, and no completion is cut off |
| Retention of complete connections and choice (`complete_connection_retention.cpp`, `connection_admissibility.cpp`, `choice/choice.cpp`) | the alternatives of a slot or task | retain, finalize, admit, refine | connections arrive in an order nobody chose; a refused one never returns; minima are taken over what is left | the result is the one that all connections at hand would give |
| Day-path retention and choice (`projection/day_path`, `day_path/`) | alternatives by path signature, each with supports and a representative | retain a support, drop dominated paths, enforce a cap, choose within tolerances | a path stays or goes with the order of completion; caps | no efficient connection is lost without caps, and none silently with them |
| Split and demand projection (`split/`) | shares by entry, elementary loads | impedance, independence, weights, suppression, residual, projection, checks | rounding; demand of pairs without connections; duplicates | what goes in comes out: demand is assigned or named unassigned |
| Capacity-aware assignment (`capacity_aware/`, `capacity/`, `detail/pipeline_capacity.cpp`) | the averaged load state, the candidate, the search cost index | search, split, average, compare, assess | state of the last iteration read in the next; missing and zero capacities | the state is the mean of the candidates; search and split see one cost |
| Output assembly (`output_assembly.cpp`, `output_loads.cpp`, `skim.cpp`, `output_validation.cpp`) | loads, skims, pair results, summaries | assemble in five modes, check one against the other | the same passengers counted by segment, route, stop, pair and interval | the numbers add up to the split |
| Output files (`infra/assignment_output_files.cpp`, `projection/csv.cpp`, `summary.cpp`) | twelve files in a directory | prepare, write one after another | a run that fails or dies half-way over the files of an earlier one | what the directory tells is of the run it says, as far as that run came |
| Application (`app/app.cpp`, `ui/ui.cpp`) | threads, `running_`, `WorkerResultBox`, the `UiModel` | run, worker stages, log thread, redraw thread, quit | the user quits at any moment; destructors order the joins | nothing is used after its destruction, the result is returned |
| Buses (`infra/progress_bus.cpp`, `ui/result_bus.cpp`) | the registered sinks | set, clear, publish | a sink is copied under the lock and called outside it | as above |
| Logging (`infra/logging.cpp`, `log_buffer.cpp`), `mathfp` | a bounded buffer behind a mutex; none | push, snapshot | nothing waits on it | not modelled |

How they interact. `main` starts the application; its worker thread runs load, assign
and write in turn. Loading makes an input of the files of a directory. Assign
preprocesses it into a network, plans a search and dispatches on the formulation. The
OD-day formulation runs one tree per origin in its own threads, each handing the
origin's result to a sink of the pipeline under a mutex, which chooses, splits and
loads it at once; the formulations by departure and arrival times run batches of trees
and choose and split afterwards. The tree asks C_y, or the metrics of its search
states, about every extension, and the answer may kill what is queued. The output is
assembled from choice and split and checked against both, and then written. Everybody
publishes text on the progress bus, whose sink writes to the model that the redraw
thread draws.

## 2. Modules

| Module | Models | State and actions |
|---|---|---|
| `ParallelBatches` | `parallel.hpp`, `parallel.cpp`, the step of `od_day_runner.cpp`, the sink of `pipeline_od_day.cpp` | a program counter per worker; one action per access to shared memory; `Spawn`, `Gather`, `Return`, `Unwind` for the caller; every fault the code can meet (`CanFail`) |
| `OriginDelivery` | the contract of `OdDayOriginResultSink` | `Deliver`, `Succeed`, `Fail`; implemented by `ParallelBatches` |
| `AppLifecycle` | `app.cpp`, `ui.cpp`, both buses, the panels' contents | one action per statement of `run()` that matters to other threads; worker stages; `CopySink` and `Deliver` as two steps |
| `BranchSteps` | `branch_transition.cpp`, `branch_state.cpp`, `branch_metrics.cpp` | operators: phases, metrics, cycles, for both kinds of tree |
| `NodeConnections` | the algebra of one C_y: `Dominates`, `Relevant`, `WithinTolerance`, `Insert`, `Summary` | operators |
| `OdDayTree` | one origin's tree | `Pop`, `RejectPrefix`, `RejectCandidate`, `AcceptCandidate`, `FinishExpansion`, `AdvanceLevel`, `Stop`, `Exhaust`, `Cancel` |
| `ResidualReachability` | `residual_reachability.cpp`, `search/residual/` | operators: the reverse graph, what can be reached with how many transfers left, three lower bounds |
| `TimedTree` | one batch of demand tasks or completion targets: `batch_runner.cpp`, `continuation_filter.cpp`, `branch_arena.hpp` | prepare, pop, one action per fate of a successor (completed, cut, queued), levels, cancellation, finalization |
| `CompleteConnections` | the algebra of complete connections: `Dominates`, `Better`, `Within` | operators |
| `ExactRetention` | one slot of an interval-based search and the choice step of its demand task | `Offer` in any order, `FinishSearch`, `Choose`, `FinishChoice` |
| `DayPathRetention` | one slot of an OD-day search, by day path, and its choice | `DayOffer` in any order, under each retention policy, and `DayFinish` |
| `TimeDomain` | search-time domains and their catalogs | operators |
| `SearchPlan` | from the input to the tree jobs and back: dispatch, profile checks, tasks, jobs, batches, slots, delivery | one action per stage of the pipeline |
| `SegmentRows`, `RuntimeParams` | what rows and settings mean | operators |
| `InputReading` | the three kinds of data source | make a source; read the files one by one, while they come and go |
| `NetworkIndex` | `segments_index.*`, the day-level supply graph | operators: sorted indices, buckets, the searches in them |
| `Preprocessing` | `route_segments.cpp`, `connection_segments.cpp`, `preprocessed_network.cpp` | a step per stage, from raw supply or from segments built elsewhere |
| `InputNetwork` | the composition of `InputReading` and `Preprocessing` | what is loaded is what is preprocessed |
| `SplitKernel` | impedance, independence, weights, suppression and residual of one entry | operators |
| `DemandSplit` | `split.cpp`, `load_projection.cpp`, the accumulation of origins | deliver an origin in any order, finish; `WholeDay` and `TimedSplit` at once |
| `CapacityIteration` | `load_state_iteration.cpp`, `capacity_index.cpp`, `overload*.cpp` | one iteration, and the report |
| `PassengerLoads`, `OutputAssembly` | `output_loads.cpp`, `skim.cpp`, `output_assembly.cpp`, `output_validation.cpp` | the run of `DemandSplit`, or the other modes at once, then assembly and checks |
| `OutputTables`, `OutputFiles` | the rows of the twelve files; writing them | begin, prepare, write, lose, fail, crash, run after run |
| `MC*` | | constants, small supplies and cases, unions of modules that one run explores side by side, and a stuttering step once the program has ended |
| `*_proof` | | theorems about `ParallelBatches`, `OdDayTree` with `NodeConnections`, `TimedTree` with `ResidualReachability` (`TimedTree_proof`, `TimedPaths_proof`), `ExactRetention` and `DayPathRetention` (`Retention_proof`), `CapacityIteration` with `SplitKernel`, `InputReading` with `SegmentRows` and `RuntimeParams`, `AppLifecycle` and `OutputFiles` (`RunOutcome_proof`) |

Composition. `ParallelBatches` treats a tree as one step with two ends, exhausted or
stopped, or an error; `OdDayTree` opens that step, and its `state` ends in the same
values. What `OdDayTree` completes is what `DayPathRetention` is offered: any
connection, in any order, once each. `ExactRetention` is the same question for the
interval-based searches, where overlapping windows may complete a trace twice, and
`TimedTree` uses the same algebra (`INSTANCE CompleteConnections`) in the search itself.
`DayPathRetention` has an instance of it for the connections of a day, so that
`MCRetention` extends both retentions, each with its own connections and tolerances.
`SearchPlan` plans the batches `TimedTree` runs: a batch there has the kinds, scopes and
settings that plans lead to. `InputNetwork` instances both `InputReading` and
`Preprocessing`; `OutputAssembly` extends `DemandSplit`, so the numbers it reports come
from the split of an actual delivery, and `OutputFiles` extends `OutputTables`, whose
rows it writes. `DemandSplit` and `CapacityIteration` share `SplitKernel`.
`AppLifecycle` treats the search as threads that publish status and are joined before
the assignment ends, which is what `NoWorkerOutlivesCall` establishes of
`ParallelBatches`.

### What is abstracted

* `ParallelBatches`: results are origin numbers; choice, split and load computations
  are the fact that an origin's part has been merged. The order of the origins in the
  accumulation is the order of delivery, as in the code.
* `AppLifecycle`: texts are names; what load, override, assign and write do is their
  outcome and the calls they make. Uncaught exceptions terminate the process; whether
  the stack is unwound first is open, as the language leaves it. Of the threads only the
  worker may fail to start.
* Both trees: impedance is linear in its components, so a branch carries its value.
* `OdDayTree`: a ride's support envelope is its single label. The relation `Barred`
  stands for the rules on transfers between the same trip, the same line and repeated
  stops on a loop, which `TimedTree` spells out. The time domain is the union of its
  windows: a ride that two overlapping windows contain is visited once, where the code
  visits it twice. Within a bucket of successors every order is possible. Memory limits
  of the production run default to none and never trip; capacity exposure is zero
  because the OD-day runner accepts only base impedance. Completed connections go to a
  set: what a projection slot then retains is not part of the module. The `walk_time`
  and `fare` minima of the summary, which no tolerance reads, are left out. Absent and
  empty C_y are the same. Both layers of the pruning plan are on and retention is per
  tree: the contract of the production batch refuses anything else
  (`projection/contract.cpp:87-106`).
* `TimedTree`: search costs are the base ones, without capacity exposure; a key of a
  search state holds trip, line, occurrence and phase, as the code's does. References
  into the arena survive appends because the arena is a deque, so only freed slots are a
  danger. Cancellation comes at any moment before a checkpoint. Of a result, metrics and
  trace are kept, not the diagnostics.
* `ResidualReachability`: closures are computed as least fixpoints by transfers left;
  the order in which the code's queue relaxes edges is left out.
* `CompleteConnections`: a connection is its trace with its metrics, whole numbers for
  the doubles of the code. `Within` compares with every member where the code compares
  with the minimum, the same because multipliers are not negative.
* `ExactRetention`: results are sets, though the code sorts them, and the choice step
  takes them in any order. The retained count that a completion target records is the
  size of `found`.
* `DayPathRetention`: supports are a set; where the code breaks a tie by position the
  tied supports have equal metrics. `truth` is a second retention without caps, kept
  only to state what a cap may change. A failed search discards the slot. Production
  searches use `DayPathRetentionConfig{}`, the unbounded policy; the other two exist in
  the code and are checked with it. Caps on alternatives are at least one.
* `TimeDomain`, `SearchPlan`: times are integers; a tree is what it finds, the
  connections of its origin and targets that board inside its domain. All that is found
  arrives; that a real tree may cut a branch before `make_connection` can refuse it is
  in `TimedTree`.
* `SplitKernel` and what uses it: doubles are whole multiples of `1/Unit` and quotients
  are truncated, so that products do not add up by themselves, as rounded ones do not.
  Weights are quotients, Kirchhoff with exponent one; logarithms and exponentials are
  left out. In `CapacityIteration` loads are in `1/LoadUnit`, a multiple of every
  iteration number, so that averages are exact.
* `SegmentRows`, `RuntimeParams`, `InputReading`: the grammars of the files are left
  out: a row or a setting is a record, or unreadable. Checks that only accept or refuse
  a file of settings are one predicate. The settings of `searchExecution` that say how
  many workers run and what is logged are left out.
* `Preprocessing`, `NetworkIndex`: lengths of rides are left out, nothing of the search
  reads them; means are truncated; Boost's Dijkstra is any tree of shortest paths;
  positions count from 1.
* `OutputAssembly`, `OutputTables`: skims are of journey time, transfers, fare and split
  impedance; how a row is put into text is left out; a chosen connection stands for its
  day path.
* `OutputFiles`: a file's content is which output it was made of, by which run, and
  whether it is whole.

## 3. Runs

| Run | States | What it asks |
|---|---|---|
| `parallel_batches` | 341,406 | three workers, three origins, every fault at every step: deliveries, counters, errors, termination, refinement of `OriginDelivery` |
| `app_lifecycle` | 5,912 | worker, two search threads with two status calls each, log and redraw threads, the user quitting at any time, the worker failing to start |
| `od_day_tree` | 68,249 | 288 supplies around fixed walks, 128 of them made such that dominance is safe under extension, 32 with a walk that may begin before midnight; barred transfers, capped waits, tolerances that bite; cancellation at any step; what the pruned tree loses, when it fails, and that it ends |
| `od_day_tree_checked` | violated | the phase checks switched on; see the findings |
| `retention` | 65,303 | seven connections of a demand task in every order under all settings of kind, switches and basis; nine connections of four day paths in every order under five policies |
| `exact_retention_direct` | violated | the choice step and the switch for direct connections |
| `timed_search` | 95,790 | the plan of a search (three profiles with every setting changed, every mode, scope and domain of the library, seven demand files), and the trees it runs: eleven timetables, sixteen kinds of batch |
| `timed_search_exact` | violated | what exact pruning may cost a demand task |
| `raw_supply` | violated | that a raw supply can be built at all |
| `input_network` | 49,323 | three kinds of source over directories with every sort of row, demand and settings while files come and go; the network built of what was loaded; raw supply and segments from elsewhere |
| `output_assembly` | 183,400 | 65 demand files split in every order of origins; the reports of every mode; up to four rounds of the capacity-aware iteration; several runs writing into one directory, failing and dying anywhere |
| `output_files_lost` | violated | what a reported success says of the files |

What the properties say.

* `AccumulationSound`, `Accounting`, `ErrorIsReported`, `NoWorkerOutlivesCall`,
  `CallEnds`, `ImplementsDelivery`: the pool, see section 4.
* `NoUseAfterDestruction`, `ResultIsTaken`, `PanelsMatchOutcome`, `EveryoneEnds`: the
  application, see section 4. The first and the last also cover the rollback of
  `BackgroundThreads` (`app.cpp:203-209`): when the worker cannot be started, the log
  thread has ended before the exception leaves, and the wait for it ends. (The types of
  `ParallelBatches` and `AppLifecycle` are left to the proofs, `TypeCorrect`.)
* `FrontierSound`: every branch of an OD-day tree is queued once, expanding or released;
  counts by phase and statistics add up; layers are depths; the branch whose successors
  are being tried stays alive while compaction runs underneath. `EntriesPursued`,
  `DropsOnlyDead`, `NothingLost`, `SearchEnds`, `ConnectionSetsCanonical`: an entry that
  rejects candidates stands for something the tree goes on with, dead branches alone are
  dropped, and where dominance is safe nothing is lost. `FailsOnlyEarly`: a completed
  branch is made into a connection at once (`complete_connection.cpp:252`), which is
  refused if its access walk would begin before midnight (`connection.cpp:222`); that is
  the only failure of the search, and an unpruned search would meet it too. Of timed
  trees the property of that name says the same: only demand tasks make connections
  (`complete_connection.cpp:636`), and one that fails was on offer.
* `ExactlyNondominated`, `FoundExactly`, `ChosenExactly`, `TurnedOutForGood`: a demand
  task's slot and choice are what all connections at once would give, whatever the
  order. `EfficientExactly`, `BestAreKept`, `SaturationIsReported`, `ChoiceSeesAll`: the
  same of day paths, as far as it holds of them.
* `TasksAreServed`: what is planned covers what each task may use, and results come back
  to their own task; a refused run has a reason its input shows, a connection that
  starts before midnight (admissible or not) among them, and no task is given one.
  `ArenaSound`: a slot is freed when its last child is, no sooner, and every path read
  through parents is there. `TreeIsExact`: the slots hold what a search of all legal
  paths (a definition of its own, over the timetable) would have kept, as far as a tree
  that does not prune prefixes promises it, and suffix bounds never exceed the truth.
  `SafePruningLosesNothing`: exact pruning of prefixes loses nothing either, on
  timetables that keep the contract it names (`ExtensionSafe`, for the code's
  `ExtensionSafeCurrentState`): whatever follows on a dominated prefix, a path through
  the dominating one of the same state matches or dominates, in no more legs.
* `LoadTellsTheFiles`, `NetworkTellsTheFiles`, `NetworkIsTimetable`: what is loaded, and
  what is built of it, is what the files or the supply say; what is refused is wrong;
  lookups find the earliest connection, the segments of an endpoint, nothing else.
* `DaySplitIsWhole`: the parts of all origins in any order are the split of the day, and
  demand is assigned, suppressed or named unassigned. `LoadStateIsMean`,
  `OneCostPerIteration`: the capacity-aware iteration. `OutputAddsUp`: loads, skims, pair
  results and summaries agree with the split and with each other in every mode, and a
  refused output has a reason. `FilesTellTheRun`: what a directory tells after runs that
  succeed, fail or die.

Bounds and why they suffice.

* Three workers and three origins: a worker can be on its second origin while another
  fails and a third waits for the sink; errors can come from several workers in both
  orders; every worker can overshoot the claim counter. What holds here is proved below
  for every number of either.
* Two status calls per search thread: one may be copied and pending while another is
  still to come. Proved below for any number.
* Supplies of `od_day_tree`: four stops and eight rides, chosen so that a label dies
  while its branches are queued, while a branch that descends from it has entries
  elsewhere, and after it was expanded; so that a walk back reaches a node from a later
  level than a ride; so that a tolerance rejects; and so that the last ride returns to a
  visited stop. In 32 supplies a long walk meets a ride too soon; in some of them what it
  leads to is turned out before it arrives, so that the search succeeds. The compaction
  thresholds of the code (thousands) are constants, set to
  two, so that compaction happens in the middle of a scan.
* Connections of `retention`: two traces of equal metrics, a direct connection that
  dominates, a chain of three, ones outside each side of the admissible window; for day
  paths, a path two of whose supports are dominated, by two different paths, a path
  dominated until its second connection comes, and caps of one and two. Repeated offers
  are allowed in `ExactRetention`. What holds of `ExactRetention` is proved below
  without a bound.
* Timetables of `timed_search`: subsets of fifteen rides over four stops and departures
  8 to 12 (0 to 12 where a day begins before midnight), at most two transfers: a line
  that comes by a stop twice, departures that tie, prefixes that dominate without being
  admissible, two walks from one vehicle to one stop, a stop come back to, nothing but
  walks. Batches: pruning off, exact and approximate; direct connections barred from
  dominating; phase checks off; tolerances; both references; retention by tree and by
  slot; no wait at the end; no slots.
* Files of `input_network`: one or two rows of every sort that the code tells apart, and
  one change of the directory between any two reads; one fault at a time in a supply,
  since the first one ends the step.
* Demand of `output_assembly`: two intervals, three origins, six rows, among them one
  without passengers, an unknown pair and a row twice; alternatives that share a vehicle,
  change twice, or share a day path. Four iterations:
  `LoadUnit` is 12, so that means of up to four loads stay whole. Two runs into one
  directory, so that the second can fail, die or lose a file over the remains of the
  first.
* Deadlock is checked wherever a run can only end in its final state; the MC modules add
  one self-loop for the state in which the program has returned. It is switched off in
  `MCInputNetwork.cfg` and in the configurations of `raw_supply` and `output_files_lost`,
  whose steps end when the input is loaded and built, or the last run is over.

Fairness. `ParallelBatches`: the caller and every worker are threads of the operating
system, so each takes its enabled step eventually; a mutex wait is a guard. A search
that never returned would break this, and `SearchEnds` is the reason it does not.
`AppLifecycle`: threads run, loading, assigning and writing end, and the user is under no
fairness at all: the wait for the shell starts from the moment of quitting. `OdDayTree`:
the tree is a sequential loop, so weak fairness of its step.

Each property has a mutant, a change of one definition like a plausible slip in the
code, that the property catches (`PROJECT.json`, "mutants"; the mutants are
definitions ending in an underscore and a word, and no specification uses them).

### Findings

* `validate_phase_invariants` (`od_day_tree_checked`). The field's comment
  (`search_execution_config.hpp:285`) calls it a diagnostic switch that "must not change
  the mathematical search contract". `accepted_successor_application.cpp:35-46` clears
  `parent_branch` of an OD-day branch and then validates, and `model/branch.cpp:86-88`
  demands a parent before the first boarding, so with the switch on every OD-day search
  fails at its first access walk. The counterexample has five states.
* `refine_complete_connection_ptrs` (`exact_retention_direct`;
  `complete_connection_retention.cpp:381-397`) retains with the default dominance
  configuration, so the choice step lets a direct connection dominate whatever
  `deactivateDominanceOfDirectConnections` says, while the search slot obeys it. The
  configuration's comment (`complete_connection_retention.hpp:19-27`) speaks of the
  alternatives of one OD-time task. With the switch off, choice confirms the result of
  search (`ChosenExactly`, proved). Day-path retention has no such switch at all.
* Exact pruning (`timed_search_exact`; `branch_state_projection.cpp:36`) compares
  prefixes by a key without time, while a transfer may wait only so long: two prefixes
  that leave one vehicle at different stops and walk to the same one share a key, and the
  earlier turns out the later although only the later can catch the next vehicle. The
  comments promise that the layer "is mathematically exact" (`search_pruning.hpp:161`).
* Raw supply (`raw_supply`; `preprocessed_network.cpp:375`): rides and walks each count
  their route segment ids from 0, and the collection is then refused for the duplicates.
  `reindex_route_segments`, which would help, is never called.
* `write_text_file` (`output_files_lost`; `assignment_output_files.cpp:84`) looks at the
  stream after `write()` only; what fails when the stream is closed is not noticed, and
  the run reports that its results are written.

### What else the runs showed

Search and retention.

* Rebuilding the summary after a dominated entry leaves a C_y is redundant: the entry
  that turned it out is at least as good in all that the summary holds. After stale
  entries leave, the rebuild matters.
* `NothingLost` needs its hypothesis, `DominanceSafe`. With capped waits or barred transfers a
  dominated prefix may be the only one with a continuation; the retention rule loses it
  by design.
* The three deletion switches of `ConnectionDeletionConfig` never change what is
  admissible: the hard support already asks that the reference time be within the window
  (`connection_admissibility.cpp:163-194`). Only `consider_positive_delta_t` can.
* Which dominated day paths, and which of their supports, are still there at the end
  depends on the order of completion. Choice may reject every path, because impedance,
  journey time and transfers are minimised separately. A path's representative is its
  first support.
* In timed trees a demand task may also lose an admissible connection because its prefix
  is dominated by one that is not admissible (`MatchedOrShadowed`). Approximate pruning
  by suffix bounds may cut the connection with the smallest journey time, so the final
  filter may keep more than a complete evaluation would: only containment is claimed.
  With `allow_end_wait` off no connection completes at all, since every completion ends
  with an egress walk; the built-in default is on (`pair_file_data_source.cpp:228`).

Planning.

* The pipeline runs three profiles only; demand-induced domains, interval-local plans and
  capacity-aware search are there for callers of the library. `pipeline_od_day.cpp:106`
  refuses the capacity-aware mode, `pipeline_validation.cpp:95` switches the timed
  demand-task assignment off, so `TimedSplit` and `CapacityIteration` have no caller in
  the application.
* The source's day is [0, 24 h]: a connection that boards later is never searched. An
  access walk that is longer than the time of the first boarding gives a negative
  departure, and `make_connection` fails the whole run as soon as such a branch completes
  (`complete_connection.cpp:252` and `:636`, `connection.cpp:222`), before anyone asks
  whether it is admissible, and for callers of the library too. If a better connection
  cuts the branch before it arrives, the run succeeds.
* A row from a zone to itself is planned and searched, and refused in the result of the
  search (`validation/search.cpp:42`), if it has found anything.

Input.

* The single-file source can load walks only (any ride fails route inference), and the
  directory source never loads. Two trips of a route with different run times on one leg
  refuse the file. Overnight rows are dropped one by one: the gaps stay, and the dropped
  rows still count for routes and zones.
* A row given twice, or a zone without walks, loads and is refused only when the network
  is built. Zones of the demand are not compared with those of the network at load.
* `README.md:84-86` names `generated_demand/`; the code reads
  `generated_demand_informative_300/` (`pair_file_data_source.cpp:281`).
* Naming only `resultProjection = demand tasks` gives a configuration the pipeline
  refuses. A positive `volCapRatioFactor` switches the capacity-aware mode on, which the
  default pipeline refuses. Built-in limits are in seconds (`30.0`, `10.0`), those of
  `params.txt` in minutes. A `params.txt` written after the source was made is ignored,
  and one removed after it fails the load.
* A route without trips is an error even when policies are not strict; overnight handling
  is reached only when an arrival is after the departure at one stop; shortest walks may
  lead through zones; `deduplicate_walk_segments` can never find a duplicate.

Output.

* A row of demand without passengers that doubles another is refused after everything has
  been calculated (`skim.cpp:195` or the totals of the output); doubled rows with
  passengers are refused by the conservation check of the split. The timed split drops
  the demand of tasks without connections without naming it.
* The loads a capacity-aware run returns are the last candidate's, which may differ from
  the converged state by up to `(n-1) * delta`; the search cost index fails on a zero
  capacity of an item nobody uses, once there is any load.
* In production `connections.csv` and `segments.csv` are written with a header only,
  which the header's comment does not say (`assignment_output_files.hpp:58-61`); the
  totals of routes and stops reach no CSV; `report_written_results` never names
  `skim_matrix.csv`. The full profile makes all contents before it touches a file, the
  production profile makes them as it goes.

## 4. Proofs

Eight modules, each for every value of the constants.

`ParallelBatches_proof`: any `BatchCount`, `WorkerCount` and `CanFail`, from
`CountAssumption` (a positive number of workers when there is a batch, which
`search_batch_worker_count` ensures) and `FaultAssumption`. The properties are not
inductive by themselves: that an origin is not delivered twice needs that two workers
never hold the same batch, which needs that a held batch is below the claim counter. The
invariant `IInv` is the conjunction of named parts, each with its own preservation
lemma: types and ownership (`TypeStep`, `OwnershipStep`), the order in which workers are
spawned (`SpawnOrderStep`), mutual exclusion in the sink (`MutexStep`), what a stopped
tree implies (`StoppedStep`), what is quiet after the call (`QuietStep`), which errors
have been gathered (`GatheredStep`), what the accumulation lists (`ListedStep`), its
coherence when no one is in the sink (`CoherentStep`), and where each claimed batch is
(`CoveredStep`). `IInvInit` and `IInvStep` combine them.

| Theorem | Establishes |
|---|---|
| `TypeCorrect` | the types |
| `AccumulationIsSound` | the four below that concern the accumulation, together |
| `DeliveryIsUnique` | no origin twice |
| `StoppedTreesAreDropped` | the empty result of a cancelled tree is never delivered |
| `AccumulationAgrees` | choice, loads and summary agree when the sink is free |
| `SuccessIsTotal` | success means every origin delivered |
| `ErrorsAreReported` | an error of any worker is the call's |
| `FrameOutlivesWorkers` | no worker when the frame is gone |
| `Refinement` | every behaviour implements `OriginDelivery` |
| `CountersAccount` | every batch claimed is in a count, with a worker, or lost with an error; the claim counter overshoots by one per worker at most; an Ok has counted every origin once |

The last one, about the counters of the pool, has an invariant of its own. The counts
are sizes of sets of workers, so the invariant `Counted` relates each counter to the
number of workers at some places, and `AtMoves` says by how much one worker's move
changes such a number. `Counted` is stronger than `Accounting` in three parts that an Ok
needs: a claim beyond the last batch is of a worker that has returned, pairs are counted
from just before the sink on, and a batch is marked cancelled after the token only.

`OdDayTree_proof` begins with the algebra of one C_y, whatever it holds. The scan that
takes entries out is a recursive function on positions; what holds of its results is
shown by the least number for which it fails (`LeastNumber`, `UpTo`), since the
induction theorem of the library has an operator for a parameter. A selection keeps the
order and each entry once (`SelectionKeeps`), an insertion goes after the last entry that
does not arrive later (`InsertPlaces`). `Kernel` is what the property
`ConnectionSetsCanonical` asks of the entries: ordered by arrival, mutually nondominated,
labels once.

| Lemma | Establishes |
|---|---|
| `InsertKeepsKernel` | an insertion of a relevant candidate keeps the entries so |
| `InsertKeepsSummary` | the summary, improved or recomputed, is that of the entries after it |

Of the tree itself it has: any finite set of nodes, any supplies, limits, tolerances and
compaction thresholds, from `NodesAssumption`, `LegsAssumption`, `LimitsAssumption` and
`TolerancesAssumption`. None of the properties is inductive. `IInv` is

* `Typing`, `Labelled` (labels are allocated after those of their ancestors) and
  `Expanding` (where the loop is);
* `Queued`, `Counted`, `Levels`: a branch is queued once, in hand or released, the counts
  are those of the layers, a layer is a level of the tree. Compaction scans the layers
  in the middle of an expansion; `Shrunk` is all that the other parts need to know of
  its outcome, and a scan that does not happen is a case of it;
* `Canonic`: each C_y has `Kernel`, and its cached summary is its own;
* `Pursued`: a live entry has a branch or a connection behind it;
* `ExpandedStaysActive`: the branch in hand is alive. The loop over its successors goes on
  with it whatever they turn out, so a candidate must never turn out a label the branch
  descends from. That needs `Descent`: the entries under those labels are of the branch's
  own prefixes (`PrefixOf`: no later, no more transfers, no dearer), and an extension never
  dominates its own prefix (`PrefixNotDominated`), since a walk takes time from before the
  departure or after the arrival and a ride arrives no earlier than it departs.

Each action has its lemma (`PopKeeps`, `AdvanceKeeps`, `AcceptKeeps`, ...), and the one
that accepts a candidate, with all that it does to labels, sets, layers and counts, has
one lemma per part of the invariant.

| Theorem | Establishes |
|---|---|
| `Invariant` | `IInv` always holds |
| `Types`, `Frontier` | the types; the frontier is kept right under compaction |
| `ConnectionSets` | every C_y stays canonical, with the summary of its entries |
| `Pursuit` | what an entry rejects candidates for is pursued or has arrived |
| `OnlyEarlyStartsFail` | the search fails only where one without pruning would complete a connection that starts before midnight, if the phase checks are off |
| `OnlyDeadDropped` | only branches with a dead label leave the queues unexpanded, if there is a destination |
| `NothingIsLost` | where dominance is safe, a finished search holds a match for every prefix a search without pruning would reach, if there is a destination |

The hypotheses of the last three are needed: with the phase checks on nearly every search
fails (the finding about `validate_phase_invariants`), and without destinations a branch is
dropped as soon as it is popped, alive or not (`batch_tree_execution.cpp:276`).

That dead branches are all that is dropped says nothing about what they would have become.
`NothingIsLost` does, under `DominanceSafe`, which names the supplies on which a
dominating prefix can do all that the dominated one can: no transfer walks, no barred or
overlong transfers, waiting as dear as riding, nothing beyond the tolerances. It is the
claim behind pruning by C_y, and it is not local: a label that is turned out kills its
whole subtree, also branches that are already expanded, and what turned it out may itself
be turned out later. The argument is in the second half of the module.

* What a prefix may do next depends on its `Foot` alone: its node, its phase and its
  metrics. A foot that `Covers` another (same node, as good in each criterion) may do
  whatever the other may and covers it again, with as many transfers to spare as before
  (`MimicStep`); `From` is all that legs lead to from a foot, and `Mimic` carries the
  step along it.
* The program forgets the prefix of a label once its branch is released. `History` puts
  it back: a sequence of prefixes, one for each label, that fits parents, branches and
  entries. The invariant says only that there is one.
* `NoneLost`: every foot a search without pruning would get to (`Targets`) is `Held` by a
  live entry as good, or can be got to, or past, through a successor that is still to be
  tried of a branch that lives (`Promised`). `LInv` is `IInv` together with this, the
  history, and `Shallow` (no living branch that was expanded is deeper than one still to
  come), while the search has neither failed nor been stopped.
* A candidate is turned down because it closes a cycle, and then the earlier visit covers
  it (`RevisitIsCovered`), or because an entry dominates it, since nothing is beyond the
  tolerances (`RejectedIsDominated`). What dominates it may itself be expanded already and
  what descends from it turned down or turned out, so that the promise rests with somebody
  else again. That this is no circle is `Rejection`: of what would be lost, take something
  with the fewest transfers; what was expanded before has fewer (`ShallowerTransfersLess`),
  so what it leads to is promised.
* A candidate that is accepted kills labels with all that descends from them. Each death
  has a cause among the entries turned out (`DeathHasACause`), which the candidate covers,
  and so it goes on to promise all that was promised below it (`TurnedOutIsCovered`,
  `CandidatePromises`).
* At the end nothing is left to try, so all targets are held, and every prefix of
  `Unpruned` stands on a target (`UnprunedAreTargets`, `NothingLostHolds`).

`TimedTree_proof`: any batch (network, tasks or targets, plan of pruning, tolerances),
cancelled at any moment or not, from `BatchesAssumption` (what the runners build),
`LegsAssumption` (rides end at stops, take no less than no time, and cost no less than
nothing; destinations are no stops), `OriginAssumption` (the origin is no stop), and the
assumptions on limits, weights and tolerances (whole numbers, not negative, as
`search/policy.cpp` has them). `ArenaSound` is not inductive: it speaks of ancestors and
descendants, and a step knows of parents and counts. `IInv` is local:

* `Counts`: a branch knows whether it is held (queued or expanded), it lives exactly
  while it is held or has a child that lives, and its count is that of its living
  children. A release frees a whole chain of ancestors at once, along a recursion over
  parents; `UpIsChain` says that what it frees are exactly those that were waiting for
  their last child, and `ReleaseKeeps` that the three are right of everyone again.
* `Right`: the phase, mask and tasks of a branch fit its leg and its parent. That no phase
  check refuses a candidate is `CandidateIsRight`, case by case (`OnlyCyclesAreRejected`).
* `Leveled`: the branches of a layer have changed equally often, and those of the next
  once more.
* `Typing` and `Queued`.

`LivingHaveAncestors` and `LivingAreHeld` lead from there to all ancestors and to some
descendant. That no residual model is refused (`PrepareSucceeds`, `ResidualIsValid`) is
a theorem of its own: its recursions have solutions (`GrownExists`, `DistanceExists`, by
a rank that every leg lowers), and only natural numbers solve the one of the distances
(`DistanceIsNat`).

The second half of the module is about what the tree gives up. A branch is cut where the
residual model says that a zone is out of reach, and a task is dropped where a lower bound
is dominated by, or intolerable beside, what the task has kept. That this is safe is the
claim of `residual/types.hpp`, and it takes four steps:

* the rounds that collect the residual states reach a fixpoint: the legs left from a state
  are bounded (`Depth`), and `RoundsReachDepth` has every state of that depth by that round,
  so the states are closed under all steps (`StatesAreClosed`);
* every leg the tree may take is a step of the residual model that costs no more
  (`LegIsStep`): edges have the least time over all rides between two stops, waiting and
  fares only add;
* so along any run of such legs (`Journey`) that ends at the zone, the distance never
  exceeds what is still to come (`JourneyIsBounded`), and the lower bound of a branch is
  one of every connection it can become (`NothingReachableIsCut`);
* dominance and tolerances pass from the bound to the connection (`BoundTurnsOut`).

`JInv` adds to `IInv` where branches stand (`Afoot`), that the residual model is that of the
batch, and that what a slot keeps is a front (`SlotsRight`). A cut is decided by what the
slot has kept at that moment, and kept connections are dropped later; `NoUseIsForGood` says
that this never makes a lost connection welcome again: whatever replaces a connection
dominates all that it dominated, and its tolerances are no wider (`ExceedsMore`).

`TimedPaths_proof` extends it. Its first part proves `TreeIsExact`: what a tree finds is
what a definition that knows nothing of branches, levels, masks, bounds or slots says the
timetable offers, all legal paths (`LegalPaths`) with what is `Measured` of each as a
whole.

* A legal path is one of legs that `MayFollow` each other (`MayFollowIs`): walks and rides
  alternate, so its first ride is its second leg and its last ride one of the last two.
  What `Measured` sums over the whole path is what `Extend` has added leg by leg
  (`AlongIs`, by cases on the first walk, the first ride and every later leg;
  `MeasuredIs`). A path has no more legs than `LongestSuffix` (`LengthIsBounded`), so the
  levels of `LegalPaths` miss none (`LegalPathsAre`).
* `KInv` adds to `JInv` that each branch stands where the path through its parents leads
  (`Leads`), that this path is legal, and that what a slot keeps is measured of whole
  paths to its zone. `SuccessorFollows` and `FollowerIsSuccessor` say that the successors
  of a branch are the legs that may follow its path, no fewer and no more.
* `Covered` is what a search must not lose: each path to a slot's zone is `Settled` (kept,
  or of no use to the slot, which is for good) or `Pending`: a branch in hand has begun it,
  and has the slot among its tasks. A branch that is expanded passes the path on to the
  successor that takes its next leg (`PendingIsSuccessor`, `ScanLeaves`); a candidate that
  a mask would drop can get to the zone, so it is not dropped, and one that a bound cuts
  settles the path (`CutIsSettled`).
* At the end nothing is in hand, so all is settled. Among finitely or infinitely many
  connections on offer each has one of the best at or below it (`BestBelow`: nothing takes
  less than no time or costs less than nothing), so what is tolerable beside the best is
  tolerable beside everything, and no cut and no slot has ever turned it down.

With exact pruning prefixes turn each other out, which is right only under a condition on
the timetable (the finding about exact pruning). `ExtensionSafe` states it of whole paths,
as the code's contract puts it (`search_pruning.hpp:94-107`), and `PruningLosesNothing`
proves that it is enough. `Covered` cannot hold here: the path that is turned out may be
gone on with by nobody, and what dominates it may be turned out itself, or was retained
for a slot that has long dropped its branch. `PInv` follows the path to others instead:

* `Passed`: a branch has come by a point of the path with the slot among its tasks, or the
  path is settled; it stays so while the arena only grows (`StepsGrow`).
* `Source`: metrics known at a search state are those of a beginning of paths that was
  passed, for each slot they prune for. With retention for the whole tree that includes
  slots whose task was dropped earlier; what they might have had from there is settled
  (`AllServed`, `ServedAhead`), and so it is where a state is known but no branch was born.
* `Followed`: a path that a branch has come by goes on with a branch in hand, or it is
  `Overtaken`: a path no worse was passed, with fewer legs still to go. A candidate that is
  turned out has a source that dominates it (`TurnedOutIsOvertaken`), and the contract
  gives the path through that source.

At the end nothing goes on, so of the paths no worse than a given one take one that was
passed with the fewest legs to go; nothing overtakes it, so it is settled
(`NoWorseIsSettled`). This is why `ExtensionSafe` bounds the number of legs, of which the
code's comment says nothing: without a bound two paths might each be lost to the other's
beginning. A settled path is kept, or
dominated by a kept one, or outside the slot's window, which is `MatchedOrShadowed`. Which
timetables keep the contract is a matter of data: the run evaluates it for every batch. It
is broken in four of the eleven timetables, when the current stop is the reference, which
is where the finding comes from, and kept in 156 of the 176 batches.

For these proofs `TimedTree` was changed where it could not be reasoned about: the sums of
`Measured` are sums over all legs, the rides of a path are their positions, and a slot's
zone is known to be one of the batch's targets (`batch_state.cpp:48-73`). `TreeIsExact` is
now what holds of every tree; what holds only under exact pruning is a property of its own.

| Theorem | Establishes |
|---|---|
| `Invariant` | `IInv` always holds |
| `ArenaIsSound` | what is held has all its ancestors, what lives is needed, counts, phases, masks and levels agree with the legs |
| `ResidualIsValid` | the residual model of any timetable passes its own validation |
| `NothingReachableIsCut` | what legs lead to, the residual model knows, and its bounds are bounds of the connection |
| `NothingUsefulIsCut` | a tree looks on, from where it goes next, for every zone it may reach, except for tasks that have no use for what they would get |
| `NoUseIsForGood` | a connection a slot has no use for, it never has use for again |
| `OnlyUsefulIsFound` | a task is given only what its own connections leave undominated and tolerable |
| `TracesInvariant` | a branch is where the path through its parents leads, and what is kept is measured of whole legal paths |
| `NoPathIsLost` | without pruning of prefixes each path to a slot is kept, of no use, or still begun by a branch in hand |
| `OnlyEarlyStartsFail` | a tree fails only by a connection on offer to one of its demand tasks' zones that starts before midnight |
| `TreeFindsExactly` | a tree that is done has kept the undominated, or found the tolerable, of all its timetable offers |
| `PruningLosesNothing` | with exact pruning, where its contract holds, a best connection is matched in what is kept, or dominated by one outside the slot's window |

`Retention_proof`, of a demand task: any set of connections with whole-number metrics,
finite or not, from `MetricsAssumption`, `ChoiceTolerancesAssumption`, `ExactOnlyAssumption`,
`ConfigsAssumption` and `WindowAssumption`. That `retained` equals the nondominated of
what was offered is not what one carries through a step: to show that a connection
turned out is still dominated needs a retained one that dominates it, and for an infinite
set that does not follow from the equality. The invariant is `Exact(b, S, T)`: `S` is
drawn from `T`, none of it dominates another, and each one of `T` left out is dominated
by one of `S`. `RetainKeepsExact` shows that `Retain` keeps it (by transitivity of
dominance, with or without the switch), `ExactIsNondominated` turns it into the equality,
and the minima over retained and offered agree because what is dominated never is a
minimum alone. `TaskInvStep` has one lemma per action.

| Theorem | Establishes |
|---|---|
| `TypeCorrect` | the types |
| `SlotsAreExact` | the slot holds exactly the nondominated eligible connections |
| `ResultsAreExact` | the result of search is what all eligible connections at hand would give |
| `ChoicesAreExact` | choice adds dominance only, and nothing when the switch is off |
| `NothingComesBack` | a connection refused or turned out is never retained again |

`Retention_proof`, of a day: any connections with whole-number metrics, any number of day
paths and any set of policies, from `PathsAssumption`, `DayChoiceAssumption` and
`PoliciesAssumption`. Three facts carry it.

* Preference is a plain lexicographic order. `Better` asks for dominance before it
  compares criteria, but what dominates is ahead in the list of criteria anyway
  (`BetterIsLexical`), so preference is transitive and a finite set has a best and a worst
  member (`BestExists`, `WorstExists`, `WorstPathExists`), which the `CHOOSE`s then are.
* The scan that drops dominated paths looks at each path once, against those then left.
  `ScanLeaves` says what is left all the same: no path dominates another, and every path
  dropped is dominated by one that stays (dominance of paths is transitive, and a scan
  of numbered paths has a first one at which something goes wrong). So dropping paths
  uncovers no connection (`ScanCovers`).
* The best path is never dropped (`TopSurvives`): what dominated it would be preferred to
  it, and where a cap takes away the worst of the paths while the best is the worst too,
  all are equally good.

`DayInv` is `Typing` (each path's supports are its own completed connections and its
representative is one none of them is preferred to), `NoPathDominated`, `Covers` (without
caps every completed connection is a support or dominated by one), `Tops` (a path left
is represented by a connection none is preferred to), `SaturationIsReported` and `Chosen`.
Each step is a `RetainPath`, of which one lemma per part says what it leaves
(`RetainPathKeeps`, `UnboundedCovers`, `CapFailsOrNothing`).

| Theorem | Establishes |
|---|---|
| `DayInvariant`, `DayTypes` | `DayInv` and the types |
| `NeitherTooMuchNorTooLittle` | no path is kept that another dominates, and without caps every efficient connection is a support |
| `TheBestStays` | the best of a path and the best of the slot outlive every cap |
| `SaturationShows` | until a cap is reported as an error, it has changed nothing |
| `ChoiceIsOfAll` | the choice over supports is a choice over all completed connections |

`CapacityIteration_proof`: any weights, demands, timetables, capacities, settings and
tolerances, from the assumptions of `SplitKernel` (`UnitAssumption`,
`SuppressionAssumption`, `ScalesAssumption`, `QualitiesAssumption`: whole numbers, scales
not zero) and `ConstantsAssumption` (finite inputs of whole numbers, rides that pass a
stop, a `LoadUnit` that every iteration number divides), which the run evaluates. Three
layers:

* Sums. `Total` adds up a function over its domain by a recursion the library defines with
  `CHOOSE`; `SumExists` and `PartialTakesOut` derive from it that a sum is that of any one
  value and of the rest, and with `SetInduction` follow the laws everything else uses:
  sums are monotone, scale, split over disjoint sets, and stay the same when the terms are
  renamed or grouped (`SumsAreMonotone`, `SumsScale`, `SumsSplit`, `SumsReindex`,
  `SumsByGroup`).
* The split. Quotients are truncated, so no sum of shares is whole by itself;
  `RoundingLeaves` says that what truncation leaves to the residual is never negative, at
  each of the three places that project (`ProbabilitiesAreWhole`, `ProjectionIsWhole`,
  `CompactionIsWhole`), and that the residual, being the heaviest, gets no less than its
  own quotient.
* The iteration. `IInv` is the two properties made inductive: that `n` times the average is
  `LoadUnit` times the sum of all candidates holds at every key, also at those dropped
  because their average is zero (`MsaIsMean`, `MeanAnywhere`), for which the candidates
  must be loads of naturals (`CandidateIsLoad`, which rests on the split); that the last
  loads are near follows from the same equation (`LastLoadsAreNear`). `PrefixesAddUp`
  compares the index with the split: the place of a position in the order tells which
  positions lie before it (`LowerBoundOrders`), and a ride all of whose items are covered
  has all its positions in the index (`RideIsIndexed`). `CoveredSucceeds` turns that into
  the only cause of failure, and `RowsAddUp` counts the passengers of the assessment by
  renaming rows by their keys.

| Theorem | Establishes |
|---|---|
| `SplitIsWhole` | probabilities add up to one and passengers to the demand, none negative |
| `HeavierGetsNoLess` | less weight never gets more; equal weight does only as the residual |
| `KernelRepeatsTheSplit` | the second projection changes nothing, and every view of the loads adds up |
| `MeanOfTheCandidates` | the load state is the mean of the candidates, and how near the last one is |
| `OneCostForBoth` | search and split charge the same, failures want a capacity, the assessment is complete |

`RunOutcome_proof` has two halves, what is left of a run on the screen and in the
directory. The first is about `AppLifecycle`: any set of search threads and any number of
status calls, from `NoneAssumption`, `StatusCallsAssumption` and `HelpersAssumption`. None
of the properties is inductive: that a copied sink is alive needs that a pending call has
a working caller (`Calls`), that a working caller keeps `run()` from going past its joins
(`Threads`), and that the model lives until then, or until the log thread of a run whose
worker could not be started has ended (`Owned`). `Boxed` follows the worker's
result from hand to hand, and `Story` lists, for each stage of the worker, the bus calls
still to come with what the panels show already; a call delivered moves one line down that
list (`DeliverStep`).

| Theorem | Establishes |
|---|---|
| `TypeCorrect` | the types |
| `NothingDangles` | no thread touches what `run()` has destroyed |
| `ResultIsReturned` | `run()` returns the worker's result, with no thread left |
| `PanelsTellTheResult` | the panels agree with the result, and no late message spoils them |

The second half of `RunOutcome_proof`: any outputs, any number of runs into the directory
and of losses. `FilesTellTheRun` is not inductive: that the files are ordered by run after
a run that failed needs that a run overwrites exactly those it has come to (`Progress`)
and that no file is from a later run than the present one (`Ordered`); that few files are
cut needs that a reported success or a run under way has cut none beyond what was lost
(`FewCut`). `Overwriting` is the one lemma about the steps that touch a file, `Untouched`
about those that do not. That the tables of one output agree with each other
(`TablesAgree`) is a matter of data; it is a hypothesis of the theorem, and the run checks
it.

| Theorem | Establishes |
|---|---|
| `DirectoryTellsTheRun` | what a directory tells after runs that succeed, fail or die anywhere |

`InputReading_proof`: any cases (source, files, what comes late), with any number of
rows, zones and settings, and any number of changes to the directory, from
`FilesAssumption`: what the readers leave of a file they accept is a sequence of rows,
a matrix of whole numbers, settings that are numbers where a number is read. What a
file that is refused holds is open. `LoadTellsTheFiles` speaks of loads that have
ended; `LoadInv` says for each phase what is known by then.

* `PathsKnown`: the files found were files when the source was made. They may be gone by
  the time they are read, which fails the load, but they do not turn into others.
* `RowsKnown`: `Holds(built, next)`, that what is built so far is what the rows before the
  next one give. Overnight rows leave no connection, so the connection of a row is not at
  its number: its place is the count of the rows kept up to it (`PlaceIsNext`,
  `PlacesAreTaken`). A row finds its segment by ride and route, and the one it finds is
  what the row itself would have made, since what it does not compare is checked
  (`SegmentIsThere`).
* Routes are numbers given in the order of the first trip with a signature.
  `RoutesAreSignatures` has them equal just when the signatures are, and
  `SignatureTellsPattern` has those equal just when it is one trip or the trips call at
  the same stops at the same positions. A trip with a position missing, or with fewer than
  two calls, is a route of its own; that a trip of a kept row has two calls follows from
  the checks of that row.
* A matrix is read cell by cell without its zeros. `MatrixIsTold` matches entries with
  cells one to one, so that the counts agree also where a matrix names a zone twice, which
  nothing refuses.
* `SettingsAreTold`: a setting that is named is taken, one that is not is the built-in
  one, whole seconds for minutes, and which of the ways to name the execution wins.

| Theorem | Establishes |
|---|---|
| `WhatIsLoadedIsInTheFiles` | a load that succeeds holds what the files say |

The proof found two faults of the model. A few of its definitions were a `CASE` whose
guards overlap; TLC takes the first that holds, as the code does, but TLA+ leaves the
choice open, and nothing could be proved of them. They are nested `IF`s now. And the
property assumed that a matrix names each zone once.

Only model-checked, and why. Liveness (`CallEnds`, `EveryoneEnds`, `SearchEnds`) and
`ENABLED` are out of the prover's reach. `TasksAreServed` compares what is planned for a
batch of tasks with what each could find. `DaySplitIsWhole` and `OutputAddsUp` relate
tables built with folds over sequences of rows; `NetworkTellsTheFiles` and
`NetworkIsTimetable` are about indices built by sorting and folding, that is, recursion
over data. `DirectoryTellsTheRun` is proved of the directory alone, the run checks it of
the directory with what is written.

## 5. Plan

Done, with proofs: the parallel runtime with its contract and its counters; the
application; the OD-day tree and C_y; retention and choice of connections and of day
paths; the arena of the timed trees, the residual model, the safety of their cuts, what
the trees find and what exact pruning costs them; the split of one entry; the
capacity-aware iteration; the reading of input; the directory of output files. Done
without: domains and planning; preprocessing and indices; the split of whole days, and the
output.

What would come next, in this order.

1. The capacity-aware search cost inside `TimedTree`, so that `CapacityIteration` drives
   actual trees instead of a set of candidates.
2. An abstract tree that both `OdDayTree` and `TimedTree` implement.
3. For TLAPS: what the split of one entry establishes, carried to the accumulation of
   origins (`DaySplitIsWhole`), and the lookups of `NetworkIndex`, whose sorted arrays are
   sequences that can be specified without folds.

## 6. Not modelled

* `logging` and `log_buffer`: a bounded buffer behind its own mutex; nothing waits on it
  and no decision is taken on what is in it.
* `mathfp`: a generic library; its `Expected` appears as the outcome of each step.
* Drawing, focus, scrolling and the clipboard.
* The grammars of the files and the wording and number formats of what is written.
* Logarithms and exponentials of impedance transforms and of logit choice, which are real
  arithmetic, and memory limits and diagnostics of a search, which no default run meets.
