------------------------------- MODULE TimedTree -------------------------------
(***************************************************************************)
(* One tree of a search by departure and arrival times: a batch of demand  *)
(* tasks or of completion targets (search/runtime/batch_runner.cpp,        *)
(* batch_tree_execution.cpp, continuation_filter.cpp).  A branch carries   *)
(* the tasks and targets it still serves.  An extension is retained by a   *)
(* slot when it reaches the slot's zone; otherwise it loses what cannot be *)
(* reached from it any more, what the connections a slot has already kept  *)
(* would turn out, and what retained branches dominate, and is queued with *)
(* what remains, in its own level if it walks and in the next if it rides. *)
(* A branch lives in the arena until all its descendants are closed.       *)
(***************************************************************************)
EXTENDS NodeConnections, ResidualReachability, SequencesExt

CONSTANTS
    Origin,
    Batches,               \* batches with the supply and settings of their run
    MinWait, MaxWait,   \* TransferLimits
    ChoiceTolerances

ASSUME BatchesAssumption ==
    \A j \in Batches :
        /\ j.kind \in {"demand_task", "completion_target"}
        /\ j.plan \in {"disabled", "exact", "approximate"}
        /\ j.scope \in {"tree", "slot"}
        /\ j.kind = "demand_task" => j.scope = "slot" /\ ~j.cancellable
        /\ j.kind = "completion_target" =>
              [s \in DOMAIN j.slots |-> j.slots[s].to] = j.targets
        /\ \A s \in DOMAIN j.slots : j.slots[s].to \in Range(j.targets)

\* A search starts at a zone (OdConnectionSearch), and its limits and
\* tolerances are not negative (search/policy.cpp).
ASSUME OriginAssumption == Origin \notin Stops
ASSUME WaitsAssumption == MinWait \in Nat /\ MaxWait \in Nat
ASSUME ChoiceTolerancesAssumption ==
    ChoiceTolerances \in [imp_mult : Nat, imp_add : Nat, jt_mult : Nat,
                          jt_add : Nat, nt_mult : Nat, nt_add : Nat]

\* Rides end at stops, take no less than no time and cost no less than
\* nothing; zones are where walks come from and go to.
ASSUME LegsAssumption ==
    \A j \in Batches :
        /\ Range(j.targets) \cap Stops = {}
        /\ \A l \in j.network :
            \/ l.kind = "walk" /\ l.time \in Nat
            \/ /\ l.kind = "ride" /\ l.to \in Stops
               /\ l.dep \in Int /\ l.arr \in Int /\ l.dep <= l.arr
               /\ l.fare \in Nat

VARIABLES
    job,
    stopping,       \* the cancellation flag the workers share
    state,          \* where the tree is, and how it ended
    residual,       \* ResidualReachability of the batch
    arena,          \* BranchArena with the projection states of its branches
    current, next,  \* SearchLevelExpansion's two layers
    expanding,      \* the branch whose successors are being tried
    todo,           \* its successors still to be tried
    kept,           \* the complete connections of each slot
    known,          \* NodeMetricMap: metrics by scope and search state
    found           \* SearchSlotResult of each slot

tree_vars == <<job, stopping, state, residual, arena, current, next, expanding,
               todo, kept, known, found>>

Complete == INSTANCE CompleteConnections WITH
                Connections <- {}, ExactOnly <- FALSE

TimedRide(from, start, to, position, service, dep, arr, fare) ==
    [kind |-> "ride", from |-> from, start |-> start, to |-> to,
     position |-> position, trip |-> service.trip, line |-> service.line,
     route |-> service.route, dep |-> dep, arr |-> arr, fare |-> fare]

Root ==
    [leg |-> [kind |-> "none"], parent |-> None, live |-> 0, self |-> FALSE,
     alive |-> TRUE, node |-> Origin, phase |-> "AtOrigin",
     m |-> [boarded |-> FALSE, dep |-> 0, now |-> 0, access |-> 0, nt |-> 0,
            imp |-> 0],
     tasks |-> {}, targets |-> {}]

TreeInit ==
    /\ job \in Batches
    /\ stopping = FALSE
    /\ state = "prepare"
    /\ residual = <<>>
    /\ arena = <<>>
    /\ current = <<>> /\ next = <<>>
    /\ expanding = None
    /\ todo = {}
    /\ kept = <<>> /\ known = <<>> /\ found = <<>>

-------------------------------------------------------------------------------
(* Successors. *)

\* branch_connection_segments: the legs a branch carries with it
\* (support_prefix) are those its parents led by.
PathTo(i) ==
    LET path[k \in 0 .. Len(arena)] ==
            IF k = None \/ arena[k].parent = None THEN <<>>
            ELSE Append(path[arena[k].parent], arena[k].leg)
    IN  path[i]

Branch(i) == [node |-> arena[i].node, phase |-> arena[i].phase,
              path |-> PathTo(i), m |-> arena[i].m, parent |-> arena[i].parent]

Rides(path) == {k \in DOMAIN path : path[k].kind = "ride"}
LastRide(path) == path[Max(Rides(path))]

ActiveZones(i) == {job.targets[t] : t \in arena[i].targets}

\* admissible_walk_extension_transition, can_start_transfer_walk
WalkAdmitted(i, leg) ==
    \/ arena[i].phase = "AtOrigin" /\ leg.to \in Stops
    \/ /\ arena[i].phase = "AfterTimedRide"
       /\ \/ leg.to \in ActiveZones(i)
          \/ leg.to \in Stops /\ arena[i].m.nt < MaxTransfers

\* same_trip_continuation_arrival: when the vehicle left behind is where the
\* ride goes.
Continuations(last, leg) ==
    {c \in job.network :
        /\ c.kind = "ride" /\ c.trip = last.trip
        /\ c.line = last.line /\ c.route = last.route
        /\ c.from = last.to /\ c.start = last.position
        /\ c.position = leg.position}

\* A bug: a loop may be cut short though it gains nothing.
Reboards_AtNoGain(last, leg) ==
    /\ leg.route = last.route /\ leg.from = last.to
    /\ last.position < leg.start

\* is_repeated_stop_reboarding_transfer, improves_repeated_stop_reboarding:
\* a line may be changed for itself only where its route comes by again.
Reboards(last, leg) ==
    /\ leg.route = last.route /\ leg.from = last.to
    /\ last.position < leg.start
    /\ \E c \in Continuations(last, leg) : leg.arr < c.arr

\* timed_successor_insertability_rejection, is_branch_extension_feasible
RideAdmitted(i, leg) ==
    /\ arena[i].phase \notin {"AtOrigin", "Completed"}
    /\ IF arena[i].m.boarded
       THEN LET last == LastRide(PathTo(i))
            IN  /\ arena[i].m.nt < MaxTransfers
                /\ leg.trip # last.trip
                /\ leg.line = last.line => Reboards(last, leg)
                /\ leg.dep - arena[i].m.now \in MinWait .. MaxWait
       ELSE leg.dep \in job.departures

Successors(i) ==
    {leg \in job.network :
        /\ leg.from = arena[i].node
        /\ \/ leg.kind = "walk" /\ WalkAdmitted(i, leg)
           \/ leg.kind = "ride" /\ RideAdmitted(i, leg)}

-------------------------------------------------------------------------------
(* The arena. *)

\* Bugs: a branch is freed under its descendants; the release stops at the
\* branch itself.
Freed_UnderChildren(slots, i) == IF slots[i].alive THEN {i} ELSE {}
Freed_Alone(slots, i) ==
    IF slots[i].live # 0 \/ ~slots[i].alive THEN {} ELSE {i}

\* release_branch_if_closed: with a branch goes every ancestor that was
\* waiting for its last child.
Freed(slots, i) ==
    LET up[k \in 0 .. Len(slots)] ==
            IF k # None /\ slots[k].self /\ slots[k].alive /\ slots[k].live = 1
            THEN {k} \cup up[slots[k].parent] ELSE {}
    IN  IF slots[i].live # 0 \/ ~slots[i].alive THEN {}
        ELSE {i} \cup up[slots[i].parent]

Release(slots, i) ==
    LET freed == Freed(slots, i)
        Closed(k) == Cardinality({c \in freed : slots[c].parent = k})
    IN  [k \in DOMAIN slots |->
            [slots[k] EXCEPT !.self  = @ \/ k = i,
                             !.alive = @ /\ k \notin freed,
                             !.live  = @ - Min({@, Closed(k)})]]

\* append_branch
Appended(branch) ==
    Append([arena EXCEPT ![branch.parent].live = @ + 1], branch)

-------------------------------------------------------------------------------
(* What a branch may still serve. *)

\* A bug: the transfer to come is counted already.
MaskKey_OneLess(b) == Key(b.node, b.phase, Max({0, MaxTransfers - b.m.nt - 1}))

\* reachability_mask_key, remaining_transfer_budget
MaskKey(b) == Key(b.node, b.phase, MaxTransfers - b.m.nt)

ReachableTargets(b, targets) ==
    {t \in targets : Feasible(residual, job.targets[t], MaskKey(b))}

ReachableTasks(b, tasks) ==
    {t \in tasks : Feasible(residual, job.slots[t].to, MaskKey(b))}

\* completion_metric_lower_bound; before boarding a branch has no departure.
LowerBound(b, suffix) ==
    [Metrics(b.m) EXCEPT !.arr = @ + suffix.jt, !.jt = @ + suffix.jt,
                         !.nt = @ + suffix.nt, !.imp = @ + suffix.imp]

\* A bug: departures do not count.
TurnedOutBy_AnyDeparture(b, c, bound) ==
    /\ b.m.boarded /\ Complete!CanDominate(job.direct_barred, c)
    /\ c.arr <= bound.arr /\ c.imp <= bound.imp /\ c.nt <= bound.nt

\* complete_connection_dominates_completion_lower_bound
TurnedOutBy(b, c, bound) ==
    b.m.boarded /\ Complete!Dominates(job.direct_barred, c, bound)

\* evaluate_suffix_lower_bound_pruning: whatever becomes of the branch, the
\* slot's connections turn it out or make it intolerable.
Hopeless(b, slot) ==
    LET zone == job.slots[slot].to
        bounds == residual[zone].bounds
        bound == LowerBound(b, bounds[MaskKey(b)])
    IN  /\ kept[slot] # {}
        /\ zone \in DOMAIN residual /\ MaskKey(b) \in DOMAIN bounds
        /\ \/ \E c \in kept[slot] : TurnedOutBy(b, c, bound)
           \/ /\ job.rollout = "exact_and_approximate"
              /\ ~Complete!Within(bound, kept[slot])

-------------------------------------------------------------------------------
(* Retention of partial branches. *)

\* A bug: the vehicle one has left is no part of the state.
StateKey_NoTrip(b) ==
    LET last == LastRide(b.path)
        occurrence == IF job.reference = "last_timed" \/ b.phase = "AfterTimedRide"
                      THEN <<last.to, last.position>> ELSE <<>>
    IN  <<b.node, occurrence, b.phase>>

\* search_node_key; before the first ride, and with the current stop as the
\* reference after a walk, no stop occurrence is part of it.
StateKeyBy(reference, b) ==
    LET last == LastRide(b.path)
        occurrence == IF reference = "last_timed" \/ b.phase = "AfterTimedRide"
                      THEN <<last.to, last.position>> ELSE <<>>
    IN  <<b.node, occurrence, b.phase, last.trip, last.line>>

StateKey(b) == StateKeyBy(job.reference, b)

KnownAt(scope, b) ==
    IF <<scope, StateKey(b)>> \in DOMAIN known
    THEN known[<<scope, StateKey(b)>>] ELSE <<>>

\* evaluate_search_pruning of what is known at the branch's search state.
Retains(scope, b) ==
    \/ ~b.m.boarded \/ job.plan = "disabled"
    \/ LET entries == KnownAt(scope, b) IN
       IF job.plan = "approximate"
       THEN Accepts(entries, Summary(entries), Metrics(b.m))
       ELSE Relevant(entries, Metrics(b.m))

\* insert_exact_pruning_metrics_in_place, for the scopes that accept.
KnownAfter(scopes, b) ==
    IF ~b.m.boarded \/ job.plan = "disabled" THEN known
    ELSE LET new == {<<scope, StateKey(b)>> : scope \in scopes}
         IN  [k \in DOMAIN known \cup new |->
                IF k \in new THEN Insert(KnownAt(k[1], b), Metrics(b.m), None)
                ELSE known[k]]

-------------------------------------------------------------------------------
(* Complete connections. *)

Connection(b) == [path |-> b.path, dep |-> b.m.dep, arr |-> b.m.now,
                  nt |-> b.m.nt, imp |-> b.m.imp]

\* connection_admissible_for_demand_segment; a completion target takes all.
Admissible(slot, c) ==
    LET s == job.slots[slot] IN
    job.kind = "demand_task" =>
        (IF s.basis = "departure" THEN c.dep ELSE c.arr) \in s.window

\* retain_exact_complete_connection, retain_exact_compact_complete_connection
Retained(slot, c) ==
    IF \/ ~Admissible(slot, c)
       \/ \E k \in kept[slot] : Complete!Dominates(job.direct_barred, k, c)
    THEN kept[slot]
    ELSE {k \in kept[slot] : ~Complete!Dominates(job.direct_barred, c, k)} \cup {c}

\* A bug: only the first slot of a zone is served.
CompletedSlots_First(i, b) ==
    {t \in arena[i].tasks : /\ job.slots[t].to = b.node /\ job.allow_end_wait
                            /\ \A u \in arena[i].tasks : job.slots[u].to = b.node => t <= u}

\* apply_projection_sink: the active slots of the zone.  A connection ends
\* with a walk, and allow_end_wait decides whether it may.
CompletedSlots(i, b) ==
    {t \in arena[i].tasks : job.slots[t].to = b.node /\ job.allow_end_wait}

-------------------------------------------------------------------------------
(* The tree. *)

\* search_batch_connections, make_search_batch_state,
\* initialize_search_batch_root
Prepare ==
    LET r == Residual(job.network, Range(job.targets))
        tasks == {t \in DOMAIN job.slots : Feasible(r, job.slots[t].to, MaskKey(Root))}
        targets == {t \in DOMAIN job.targets : Feasible(r, job.targets[t], MaskKey(Root))}
    IN  /\ state = "prepare"
        /\ IF job.targets = <<>> \/ job.slots = <<>>
           THEN /\ state' = "skipped"
                /\ UNCHANGED <<residual, arena, current, kept>>
           ELSE /\ state' = IF /\ Valid(r)
                               /\ job.kind = "completion_target" => tasks = targets
                            THEN "level" ELSE "failed"
                /\ residual' = r
                /\ arena' = <<[Root EXCEPT !.tasks = tasks, !.targets = targets]>>
                /\ current' = <<1>>
                /\ kept' = [s \in DOMAIN job.slots |-> {}]
        /\ UNCHANGED <<job, stopping, next, expanding, todo, known, found>>

\* request_search_cancellation; nobody cancels a batch of demand tasks.
Cancel ==
    /\ job.cancellable /\ ~stopping
    /\ state \in {"level", "advanced", "scan"}
    /\ stopping' = TRUE
    /\ UNCHANGED <<job, state, residual, arena, current, next, expanding, todo,
                   kept, known, found>>

Stop ==
    /\ state = "level" /\ stopping /\ current \o next # <<>>
    /\ state' = "stopped"
    /\ UNCHANGED <<job, stopping, residual, arena, current, next, expanding,
                   todo, kept, known, found>>

\* advance_search_level
AdvanceLevel ==
    /\ state = "level" /\ ~stopping
    /\ current = <<>> /\ next # <<>>
    /\ state' = "advanced"
    /\ current' = next
    /\ next' = <<>>
    /\ UNCHANGED <<job, stopping, residual, arena, expanding, todo, kept, known,
                   found>>

Pop ==
    LET i == Head(current)
        idle == \/ arena[i].targets = {}
                \/ arena[i].node \notin Stops /\ arena[i].m.boarded
    IN  /\ state = "advanced" \/ (state = "level" /\ ~stopping)
        /\ current # <<>>
        /\ current' = Tail(current)
        /\ IF idle
           THEN /\ state' = "level"
                /\ arena' = Release(arena, i)
                /\ UNCHANGED <<expanding, todo>>
           ELSE /\ state' = "scan"
                /\ expanding' = i
                /\ todo' = Successors(i)
                /\ UNCHANGED arena
        /\ UNCHANGED <<job, stopping, residual, next, kept, known, found>>

\* A bug: the parent is cleared, as it is in an OD-day search.
Candidate_Orphaned(leg) ==
    LET b == Branch(expanding)
    IN  [node |-> leg.to, phase |-> NextPhase(b, leg), path |-> Append(b.path, leg),
         m |-> Extend(b.m, leg), parent |-> None]

\* transition_search_branch_with_diagnostics
Candidate(leg) ==
    LET b == Branch(expanding)
    IN  [node |-> leg.to, phase |-> NextPhase(b, leg), path |-> Append(b.path, leg),
         m |-> Extend(b.m, leg), parent |-> expanding]

Visiting(leg) ==
    /\ state = "scan" /\ ~stopping
    /\ leg \in todo
    /\ \A l \in todo : Bucket(leg) <= Bucket(l)
    /\ todo' = todo \ {leg}

Cycles(leg) == Revisits(Branch(expanding), leg)

Invalid(leg) == job.validate /\ ~PhaseInvariant(Candidate(leg))

\* evaluate_tree_successor_step turns a cycle away; the phase check of
\* apply_accepted_successor fails the run.
RejectStep(leg) ==
    /\ Visiting(leg)
    /\ Cycles(leg) \/ Invalid(leg)
    /\ state' = IF Cycles(leg) THEN state ELSE "failed"
    /\ UNCHANGED <<job, stopping, residual, arena, current, next, expanding,
                   kept, known, found>>

\* make_connection, of the first slot that takes the branch: a connection
\* that starts before midnight is refused, whether or not it is admissible.
\* A completion target makes no connections.
StartsEarly(i, b) ==
    job.kind = "demand_task" /\ CompletedSlots(i, b) # {} /\ b.m.dep < 0

\* A zone is reached; what was asked for there is retained, by every slot, or
\* fails the run.
CompleteStep(leg) ==
    LET b == Candidate(leg) IN
    /\ Visiting(leg)
    /\ ~Cycles(leg) /\ ~Invalid(leg) /\ b.node \notin Stops
    /\ IF StartsEarly(expanding, b)
       THEN state' = "failed" /\ UNCHANGED kept
       ELSE /\ kept' = [s \in DOMAIN kept |->
                          IF s \in CompletedSlots(expanding, b)
                          THEN Retained(s, Connection(b)) ELSE kept[s]]
            /\ UNCHANGED state
    /\ UNCHANGED <<job, stopping, residual, arena, current, next, expanding,
                   known, found>>

\* filter_continuation_projection, enqueue_projected_branch.  The tree's own
\* retention comes before the tasks', and keeps a branch nobody may want.
ContinueStep(leg) ==
    LET b == Candidate(leg)
        targets == ReachableTargets(b, arena[expanding].targets)
        hopeful == {t \in ReachableTasks(b, arena[expanding].tasks) : ~Hopeless(b, t)}
        wanted == targets # {} /\ (job.scope = "tree" => Retains("tree", b))
        tasks == IF ~wanted THEN {}
                 ELSE IF job.scope = "tree" THEN hopeful
                 ELSE {t \in hopeful : Retains(t, b)}
        branch == [Root EXCEPT !.leg = leg, !.parent = expanding, !.node = b.node,
                       !.phase = b.phase, !.m = b.m, !.tasks = tasks,
                       !.targets = IF job.kind = "completion_target" THEN tasks
                                   ELSE targets]
        \* successor_level_placement
        sooner == leg.kind = "walk" \/ ~arena[expanding].m.boarded
    IN  /\ Visiting(leg)
        /\ ~Cycles(leg) /\ ~Invalid(leg) /\ b.node \in Stops
        /\ known' = KnownAfter(IF job.scope = "tree" /\ wanted THEN {"tree"}
                               ELSE IF job.scope = "tree" THEN {} ELSE tasks, b)
        /\ IF tasks = {} THEN UNCHANGED <<arena, current, next>>
           ELSE /\ arena' = Appended(branch)
                /\ current' = IF sooner THEN Append(current, Len(arena'))
                              ELSE current
                /\ next' = IF sooner THEN next ELSE Append(next, Len(arena'))
        /\ UNCHANGED <<job, stopping, state, residual, expanding, kept, found>>

FinishExpansion ==
    /\ state = "scan"
    /\ todo = {} \/ stopping
    /\ arena' = Release(arena, expanding)
    /\ expanding' = None
    /\ todo' = {}
    /\ state' = IF todo = {} THEN "level" ELSE "stopped"
    /\ UNCHANGED <<job, stopping, residual, current, next, kept, known, found>>

\* finalize_complete_connection_retention
Final(slot) ==
    {c \in kept[slot] :
        job.rollout = "exact_and_approximate" => Complete!Within(c, kept[slot])}

\* finalize_search_batch_results: connections for tasks, counts for targets.
Exhaust ==
    /\ state = "level" /\ current \o next = <<>>
    /\ state' = "exhausted"
    /\ found' = [s \in DOMAIN kept |->
                    IF job.kind = "completion_target" THEN Cardinality(Final(s))
                    ELSE Final(s)]
    /\ UNCHANGED <<job, stopping, residual, arena, current, next, expanding,
                   todo, kept, known>>

Visit == \E leg \in todo :
    RejectStep(leg) \/ CompleteStep(leg) \/ ContinueStep(leg)

TreeNext == Prepare \/ Cancel \/ Stop \/ AdvanceLevel \/ Pop \/ Visit
            \/ FinishExpansion \/ Exhaust

TreeSpec == TreeInit /\ [][TreeNext]_tree_vars

TreeEnded == state \in {"skipped", "exhausted", "stopped", "failed"}

-------------------------------------------------------------------------------
(* The arena and the frontier. *)

Queue == current \o next
Held == Range(Queue) \cup ({expanding} \ {None})

AncestorsIn(slots, i) ==
    LET up[k \in 0 .. Len(slots)] ==
            IF k = None \/ slots[k].parent = None THEN {}
            ELSE {slots[k].parent} \cup up[slots[k].parent]
    IN  up[i]

AncestorsOf(i) == AncestorsIn(arena, i)

Living == {i \in DOMAIN arena : arena[i].alive}

\* A slot is read, when its branch comes up and when its children close,
\* without asking whether the branch is still there (branch_at), and a release
\* goes up the parents.  In every state: what is queued or expanded is queued
\* once and has all its ancestors; what lives is held or has a descendant that
\* is, so that nothing is left when the tree is done; the counts of living
\* children are right; phases, masks and depths agree with the legs that
\* led there.
ArenaSound ==
    /\ IsInjective(Queue) /\ expanding \notin Range(Queue)
    /\ \A i \in Held : \A k \in {i} \cup AncestorsOf(i) : k \in Living
    /\ \A i \in Living :
        /\ \E h \in Held : i \in {h} \cup AncestorsOf(h)
        /\ i # 1 => PhaseInvariant(Branch(i))
        /\ arena[i].tasks = ReachableTasks(Branch(i), arena[i].tasks)
        /\ i # 1 => arena[i].tasks # {} /\ arena[i].tasks \subseteq arena[arena[i].parent].tasks
    /\ \A i \in DOMAIN arena :
        arena[i].live = Cardinality({c \in Living : arena[c].parent = i})
    /\ state \in {"level", "scan"} =>
        \A i \in Range(current), k \in Range(next) : arena[k].m.nt = arena[i].m.nt + 1
                                                \/ ~arena[i].m.boarded

-------------------------------------------------------------------------------
(* The connections a tree may find, by whole sequences of legs. *)

\* One may change to a vehicle of the same line only where the line comes by
\* twice, into a vehicle that has been round already and gets there first.
Overtakes(network, last, ride) ==
    /\ ride.trip # last.trip
    /\ ride.line = last.line =>
        /\ ride.route = last.route /\ ride.from = last.to /\ last.position < ride.start
        /\ \E own \in network :
            /\ own.kind = "ride" /\ own.trip = last.trip
            /\ own.line = last.line /\ own.route = last.route
            /\ own.from = last.to /\ own.start = last.position
            /\ own.position = ride.position
            /\ ride.arr < own.arr

\* What a traveller from the origin may do, leg by leg, in a timetable: a
\* network and the departures a search looks for.
LegAllowed(t, path, k) ==
    LET leg == path[k]
        before == {r \in Rides(path) : r < k}
        last == path[Max(before)]
        walked == IF path[k - 1].kind = "walk" THEN path[k - 1].time ELSE 0
    IN  /\ leg.from = IF k = 1 THEN Origin ELSE path[k - 1].to
        /\ IF leg.kind = "walk"
           THEN /\ k > 1 => path[k - 1].kind = "ride"
                /\ k = 1 => leg.to \in Stops
                /\ leg.to \notin {path[h].to : h \in 1 .. k - 1} \cup {leg.from}
           ELSE /\ k > 1
                /\ \A h \in before : <<path[h].to, path[h].position>> # <<leg.to, leg.position>>
                /\ IF before = {} THEN leg.dep \in t.departures
                   ELSE /\ Overtakes(t.network, last, leg)
                        /\ leg.dep - last.arr - walked \in MinWait .. MaxWait

Legal(t, path) ==
    /\ \A k \in DOMAIN path : LegAllowed(t, path, k)
    /\ \A k \in 1 .. Len(path) - 1 : path[k].to \in Stops
    /\ Cardinality(Rides(path)) <= MaxTransfers + 1

LegalPaths(t) ==
    LET longer(p) == {Append(p, l) : l \in t.network}
        level[n \in 0 .. LongestSuffix] ==
            IF n = 0 THEN {<<>>}
            ELSE {p \in UNION {longer(q) : q \in level[n - 1]} : Legal(t, p)}
    IN  UNION {level[n] : n \in 1 .. LongestSuffix}

Total(numbers) ==
    LET upto[n \in 0 .. Len(numbers)] == IF n = 0 THEN 0 ELSE upto[n - 1] + numbers[n]
    IN  upto[Len(numbers)]

OnRides(path, Of(_)) == [k \in DOMAIN path |-> IF k \in Rides(path) THEN Of(path[k]) ELSE 0]
Walking(path) == [k \in DOMAIN path |-> IF k \in Rides(path) THEN 0 ELSE path[k].time]

\* The metrics of a path with a ride.
Measured(path) ==
    LET dep == path[Min(Rides(path))].dep - path[1].time
        arr == path[Max(Rides(path))].arr + path[Len(path)].time
        transfers == Cardinality(Rides(path)) - 1
        riding == Total(OnRides(path, LAMBDA l : l.arr - l.dep))
        walking == Total(Walking(path))
        waiting == (arr - dep) - riding - walking
    IN  [path |-> path, dep |-> dep, arr |-> arr, nt |-> transfers,
         imp |-> riding + WalkWeight * walking + WaitWeight * waiting
                   + TransferPenalty * transfers
                   + Total(OnRides(path, LAMBDA l : l.fare))]

CompletePaths(t) == {p \in LegalPaths(t) : p[Len(p)].to \notin Stops}

Timetable(j) == [network |-> j.network, departures |-> j.departures]

\* Everything each timetable offers.
Offers == [t \in {Timetable(j) : j \in Batches} |->
              {Measured(p) : p \in CompletePaths(t)}]

Offered == Offers[Timetable(job)]

\* A tree fails only where the timetable offers a demand task a connection
\* that starts before midnight: neither the residual model nor a phase check
\* ever refuses what the search itself has made.
FailsOnlyEarly ==
    state = "failed" =>
        /\ job.kind = "demand_task"
        /\ \E c \in Offered, s \in DOMAIN job.slots :
            c.dep < 0 /\ job.slots[s].to = c.path[Len(c.path)].to

OfferedTo(slot) ==
    {c \in Offered : /\ c.path[Len(c.path)].to = job.slots[slot].to
                         /\ Admissible(slot, c)}

Undominated(S) ==
    {c \in S : \A d \in S : ~Complete!Dominates(job.direct_barred, d, c)}

Vectors(S) == {[dep |-> c.dep, arr |-> c.arr, nt |-> c.nt, imp |-> c.imp] : c \in S}

\* One of the slot's best is matched in the slot, or something on offer
\* outside the slot's window dominates it.
MatchedOrShadowed(slot, c) ==
    \/ Vectors({c}) \subseteq Vectors(kept[slot])
    \/ \E d \in Offered :
        /\ d.path[Len(d.path)].to = job.slots[slot].to /\ ~Admissible(slot, d)
        /\ Complete!Dominates(job.direct_barred, d, c)

NoneLost(slot) ==
    \A c \in Undominated(OfferedTo(slot)) : MatchedOrShadowed(slot, c)

\* What is kept is on offer, admissible, and none turns out another; without
\* pruning on the way it is all of the best.
KeptExactly(slot) ==
    IF ~job.allow_end_wait THEN kept[slot] = {}
    ELSE /\ kept[slot] \subseteq OfferedTo(slot)
         /\ kept[slot] = Undominated(kept[slot])
         /\ job.rollout = "exact_only" /\ job.plan = "disabled" =>
                kept[slot] = Undominated(OfferedTo(slot))

\* With tolerances, a tree may be cut where nothing tolerable is left: no
\* connection is lost that is tolerable beside all the best.
TolerableFound(slot) ==
    LET best == Undominated(OfferedTo(slot))
        tolerable == {c \in best : Complete!Within(c, best)}
    IN  job.allow_end_wait /\ job.plan = "disabled" =>
            IF job.kind = "completion_target"
            THEN found[slot] >= Cardinality(tolerable)
            ELSE tolerable \subseteq found[slot]

\* Where the first k legs of a path lead.
After(path, k) ==
    LET prefix[n \in 0 .. k] ==
            IF n = 0 THEN [node |-> Origin, phase |-> "AtOrigin", m |-> Root.m]
            ELSE [node |-> path[n].to, phase |-> NextPhase(prefix[n - 1], path[n]),
                  m |-> Extend(prefix[n - 1].m, path[n])]
    IN  prefix[k]

\* The residual model promises: if a suffix is impossible in it, it is
\* impossible in the timetable (residual/types.hpp); and no suffix is
\* better than its bounds.  Checked of every suffix of every connection
\* on offer, from the metrics of the prefix and of the whole.
SuffixesAreBounded ==
    \A c \in Offered : LET zone == c.path[Len(c.path)].to IN
    zone \in DOMAIN residual => \A k \in 1 .. Len(c.path) - 1 :
        LET at == After(c.path, k)
            bound == LowerBound(at, residual[zone].bounds[MaskKey(at)])
        IN  /\ Feasible(residual, zone, MaskKey(at))
            /\ bound.jt <= c.arr - c.dep /\ bound.nt <= c.nt /\ bound.imp <= c.imp
            /\ at.m.boarded => bound.arr <= c.arr

\* A tree that has run to its end has found what the timetable offers.
TreeIsExact ==
    state = "exhausted" =>
        /\ SuffixesAreBounded
        /\ \A slot \in DOMAIN job.slots : KeptExactly(slot) /\ TolerableFound(slot)

\* What a path that may still go on is compared by.
KeyOf(j, path) ==
    LET at == After(path, Len(path))
    IN  StateKeyBy(j.reference, [node |-> at.node, phase |-> at.phase, path |-> path])

MetricsOf(path) == Metrics(After(path, Len(path)).m)

NoWorse(j, d, c) ==
    Vectors({d}) = Vectors({c}) \/ Complete!Dominates(j.direct_barred, d, c)

\* "ExtensionSafeCurrentState": however one goes on in a search state, one who
\* came there by a path that dominates may arrive no worse, in no more legs.
ExtensionSafe(j) ==
    LET legal == LegalPaths(Timetable(j))
        begun == {p \in legal : p[Len(p)].to \in Stops /\ Rides(p) # {}}
        whole == CompletePaths(Timetable(j))
    IN  \A p, q \in begun :
            KeyOf(j, p) = KeyOf(j, q) /\ Dominates(MetricsOf(p), MetricsOf(q)) =>
                \A c \in whole : IsPrefix(q, c) =>
                    \E d \in whole :
                        /\ IsPrefix(p, d) /\ Len(d) - Len(p) <= Len(c) - Len(q)
                        /\ d[Len(d)].to = c[Len(c)].to
                        /\ NoWorse(j, Measured(d), Measured(c))

SafeBatches == {j \in Batches : ExtensionSafe(j)}

\* With exact pruning, in a timetable where the contract holds, a best
\* connection is lost only to what matches it, or because prefixes are compared
\* whether or not they are admissible.
SafePruningLosesNothing ==
    state = "exhausted" /\ job \in SafeBatches
    /\ job.plan = "exact" /\ job.rollout = "exact_only" /\ job.allow_end_wait =>
        \A slot \in DOMAIN job.slots : NoneLost(slot)

\* "This layer is mathematically exact" under the contract
\* ExtensionSafeCurrentState (search_pruning.hpp:161-172): states with one key
\* have the same future, so that what exact pruning turns out is never missed.
ExactPruningLosesNothing ==
    state = "exhausted" /\ job.plan = "exact" /\ job.rollout = "exact_only" =>
        \A slot \in DOMAIN job.slots : NoneLost(slot)
================================================================================
