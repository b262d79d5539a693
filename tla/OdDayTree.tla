------------------------------ MODULE OdDayTree ------------------------------
(***************************************************************************)
(* One origin's connection tree in an OD-day search                        *)
(* (search/tree/tree_runner.hpp, search/runtime/batch_tree_execution.cpp): *)
(* branches are expanded level by level; every extension is offered to the *)
(* C_y of the node it reaches, and an extension C_y accepts may turn out   *)
(* entries there, which kills their labels and with them every branch that *)
(* descends from those labels, queued or not, without visiting it.  Dead   *)
(* branches are dropped when they come up or when the frontier is          *)
(* compacted, dead entries when their set is next used.                    *)
(***************************************************************************)
EXTENDS NodeConnections

CONSTANTS
    Origin,             \* the zone the tree is rooted at
    Destinations,       \* the declared zones
    Networks,           \* the supplies considered, each a set of legs
    Barred,             \* pairs of rides no transfer may join: the same trip
                        \* or line, see branch_state.cpp
    TimeDomain,         \* departures a first ride may have, the windows of
                        \* the search time domain taken together
    MinWait, MaxWait,   \* TransferLimits
    CompactionMinRemoved, CompactionMinSize,    \* kOdDayFrontierCompaction...
    ValidatePhaseInvariants                     \* a diagnostic switch

Zones == Destinations \cup {Origin}
Nodes == Zones \cup Stops

ASSUME NodesAssumption == /\ Zones \cap Stops = {}
                          /\ IsFiniteSet(Nodes)
ASSUME LegsAssumption ==
    \A l \in UNION Networks :
        /\ l.from \in Nodes /\ l.to \in Nodes
        /\ \/ l.kind = "walk" /\ l.time \in Nat
           \/ /\ l.kind = "ride" /\ {l.from, l.to} \subseteq Stops
              /\ l.dep \in Nat /\ l.arr \in Nat /\ l.dep <= l.arr
              /\ l.fare \in Nat
ASSUME LimitsAssumption ==
    /\ {MinWait, MaxWait, CompactionMinRemoved, CompactionMinSize} \subseteq Nat
    /\ MinWait <= MaxWait
    /\ ValidatePhaseInvariants \in BOOLEAN

VARIABLES
    network,        \* the legs of this run
    cancelled,      \* the cancellation flag the workers share
    state,          \* where run_search_tree_levels is, and how it ended
    branches,       \* BranchArena: every branch ever appended
    released,       \* the slots whose branch is gone
    current, next,  \* SearchLevelExpansion's two layers
    counts,         \* its branch counts by phase, for both layers
    expanding,      \* the branch whose successors are being tried
    todo,           \* its successors still to be tried
    labels,         \* RetainedConnectionLabelRegistry
    sets, summary,  \* C_y of each node and its summary
    removed_since,  \* c_y_removed_since_frontier_compaction
    completed,      \* connections handed to the projection slots
    stats           \* expanded, stale and compacted branches

arena    == <<branches, released>>
frontier == <<current, next, counts>>
cy       == <<labels, sets, summary>>
vars == <<network, cancelled, state, arena, frontier, expanding, todo, cy,
          removed_since, completed, stats>>

NoCounts == [p \in Phases |-> 0]

Root == [node |-> Origin, phase |-> "AtOrigin", path |-> <<>>,
         m |-> [boarded |-> FALSE, dep |-> 0, now |-> 0, access |-> 0,
                nt |-> 0, imp |-> 0],
         label |-> None, parent |-> None]

Init ==
    /\ network \in Networks
    /\ cancelled = FALSE
    /\ state = "level"
    /\ branches = <<Root>>
    /\ released = {}
    /\ current = <<1>>
    /\ next = <<>>
    /\ counts = [current |-> [NoCounts EXCEPT !["AtOrigin"] = 1],
                 next |-> NoCounts]
    /\ expanding = None
    /\ todo = {}
    /\ labels = <<>>
    /\ sets = [y \in Nodes |-> <<>>]
    /\ summary = [y \in Nodes |-> {}]
    /\ removed_since = 0
    /\ completed = {}
    /\ stats = [expanded |-> 0, stale |-> 0, compacted |-> 0]

------------------------------------------------------------------------------
\* retained_connection_label_active: the label and all its ancestors are.
ActiveIn(registry, label) ==
    LET chain[l \in 0 .. Len(registry)] ==
            l # None => registry[l].active /\ chain[registry[l].parent]
    IN  chain[label]

Active(label) == ActiveIn(labels, label)

\* for_each_search_successor: the walks the phase admits, transfer walks
\* only while a transfer is left, and the rides that the time domain, the
\* transfer budget and the waiting limits admit.
WalkAdmitted(b, leg) ==
    \/ b.phase = "AtOrigin" /\ leg.to \in Stops
    \/ /\ b.phase = "AfterTimedRide"
       /\ \/ leg.to \in Destinations
          \/ leg.to \in Stops /\ b.m.nt < MaxTransfers

LastRide(b) ==
    b.path[Max({i \in DOMAIN b.path : b.path[i].kind = "ride"})]

RideAdmitted(b, leg) ==
    /\ b.phase \notin {"AtOrigin", "Completed"}
    /\ IF b.m.boarded
       THEN /\ b.m.nt < MaxTransfers
            /\ <<LastRide(b), leg>> \notin Barred
            /\ leg.dep - b.m.now \in MinWait .. MaxWait
       ELSE leg.dep \in TimeDomain

Successors(b) ==
    {leg \in network :
        /\ leg.from = b.node
        /\ \/ leg.kind = "walk" /\ WalkAdmitted(b, leg)
           \/ leg.kind = "ride" /\ RideAdmitted(b, leg)}

------------------------------------------------------------------------------
\* The frontier: decrement_phase_stats and compact_od_day_frontiers.
Minus(n, k) == IF n > k THEN n - k ELSE 0

\* A bug: what follows the first dead branch is erased with it.
Dropped_ToTheEnd(queue, registry) ==
    {queue[j] : j \in {k \in DOMAIN queue :
        \E h \in 1 .. k : ~ActiveIn(registry, branches[queue[h]].label)}}
    \ released

Dropped(queue, registry) ==
    {i \in Range(queue) \ released : ~ActiveIn(registry, branches[i].label)}

Kept(queue, registry) ==
    Selected(queue, Range(queue) \ (released \cup Dropped(queue, registry)))

\* A bug: compaction leaves the counts alone.
CountsWithout_Ignored(count, dropped) == count

CountsWithout(count, dropped) ==
    [p \in Phases |->
        Minus(count[p], Cardinality({i \in dropped : branches[i].phase = p}))]

Compacted(registry) ==
    [current |-> Kept(current, registry),
     next    |-> Kept(next, registry),
     counts  |-> [current |-> CountsWithout(counts.current,
                                            Dropped(current, registry)),
                  next    |-> CountsWithout(counts.next,
                                            Dropped(next, registry))],
     dropped |-> Dropped(current, registry) \cup Dropped(next, registry),
     removed |-> Len(current) + Len(next) - Len(Kept(current, registry))
                   - Len(Kept(next, registry))]

------------------------------------------------------------------------------
\* Another worker failed, or the run was cancelled from outside.
Cancel ==
    /\ ~cancelled
    /\ cancelled' = TRUE
    /\ UNCHANGED <<network, state, arena, frontier, expanding, todo, cy,
                   removed_since, completed, stats>>

\* The checkpoint before every iteration.
Stop ==
    /\ state = "level" /\ current \o next # <<>> /\ cancelled
    /\ state' = "stopped"
    /\ UNCHANGED <<network, cancelled, arena, frontier, expanding, todo, cy,
                   removed_since, completed, stats>>

\* Bugs: the next layer is not taken over; or before the current one is
\* finished; or what was compacted is not reported.
AdvanceLevel_NoSwap ==
    /\ state = "level" /\ ~cancelled
    /\ current = <<>> /\ next # <<>>
    /\ removed_since' = 0
    /\ UNCHANGED <<network, cancelled, state, arena, frontier, expanding,
                   todo, cy, completed, stats>>

AdvanceLevel_Early ==
    LET c == Compacted(labels)
    IN  /\ state = "level" /\ ~cancelled
        /\ next # <<>>
        /\ state' = IF c.next = <<>> THEN "level" ELSE "pop"
        /\ current' = c.next
        /\ next' = c.current
        /\ counts' = [current |-> c.counts.next, next |-> c.counts.current]
        /\ released' = released \cup c.dropped
        /\ removed_since' = 0
        /\ stats' = [stats EXCEPT !.compacted = @ + c.removed]
        /\ UNCHANGED <<network, cancelled, branches, expanding, todo, cy,
                       completed>>

\* before_level_advance compacts; advance_search_level swaps the layers.
AdvanceLevel ==
    LET c == Compacted(labels)
    IN  /\ state = "level" /\ ~cancelled
        /\ current = <<>> /\ next # <<>>
        /\ state' = IF c.next = <<>> THEN "level" ELSE "pop"
        /\ current' = c.next
        /\ next' = c.current
        /\ counts' = [current |-> c.counts.next, next |-> NoCounts]
        /\ released' = released \cup c.dropped
        /\ removed_since' = 0
        /\ stats' = [stats EXCEPT !.compacted = @ + c.removed]
        /\ UNCHANGED <<network, cancelled, branches, expanding, todo, cy,
                       completed>>

\* pop_current_search_level_branch, synchronize_od_day_frontier_branch, and
\* the start of the expansion.
Pop ==
    LET i == Head(current)
        b == branches[i]
        idle == Destinations = {} \/ (b.node \in Zones /\ b.m.boarded)
    IN  /\ state = "pop" \/ (state = "level" /\ ~cancelled)
        /\ current # <<>>
        /\ current' = Tail(current)
        /\ counts' = [counts EXCEPT !.current[b.phase] = Minus(@, 1)]
        /\ IF Active(b.label) /\ ~idle
           THEN /\ state' = "scan"
                /\ expanding' = i
                /\ todo' = Successors(b)
                /\ UNCHANGED released
           ELSE /\ state' = "level"
                /\ released' = released \cup {i}
                /\ UNCHANGED <<expanding, todo>>
        /\ stats' = IF Active(b.label)
                    THEN [stats EXCEPT !.expanded = @ + 1]
                    ELSE [stats EXCEPT !.stale = @ + 1]
        /\ UNCHANGED <<network, cancelled, branches, next, cy, removed_since,
                       completed>>

Visiting(leg) ==
    /\ state = "scan" /\ ~cancelled
    /\ leg \in todo
    /\ \A l \in todo : Bucket(leg) <= Bucket(l)
    /\ todo' = todo \ {leg}

Branch == branches[expanding]

\* A bug: an entry whose ancestor died counts as alive.
Fresh_OwnFlagOnly(y) ==
    Selected(sets[y], {e \in Range(sets[y]) : labels[e.label].active})

\* remove_inactive_node_connection_metrics
Fresh(y) ==
    Selected(sets[y], {e \in Range(sets[y]) : Active(e.label)})

\* A bug: the summary outlives the entries it was made of.
FreshSummary_Stale(y) == summary[y]

FreshSummary(y) ==
    IF Fresh(y) = sets[y] THEN summary[y] ELSE Summary(Fresh(y))

\* evaluate_connection_prefix_before_branch finds a cycle, or the transfer
\* limit is exceeded, before C_y is touched.
Barren(leg) ==
    \/ Revisits(Branch, leg)
    \/ Extend(Branch.m, leg).nt > MaxTransfers

RejectPrefix(leg) ==
    /\ Visiting(leg)
    /\ Barren(leg)
    /\ UNCHANGED <<network, cancelled, state, arena, frontier, expanding, cy,
                   removed_since, completed, stats>>

Wanted(leg) ==
    /\ ~Barren(leg)
    /\ Accepts(Fresh(leg.to), FreshSummary(leg.to),
               Metrics(Extend(Branch.m, leg)))

\* C_y drops its dead entries and rejects the candidate.
RejectCandidate(leg) ==
    /\ Visiting(leg)
    /\ ~Barren(leg) /\ ~Wanted(leg)
    /\ sets' = [sets EXCEPT ![leg.to] = Fresh(leg.to)]
    /\ summary' = [summary EXCEPT ![leg.to] = FreshSummary(leg.to)]
    /\ UNCHANGED <<network, cancelled, state, arena, frontier, expanding,
                   labels, removed_since, completed, stats>>

\* Bugs: the branch keeps its parent's label; or takes the next label.
Candidate_ParentLabel(leg, label) ==
    [node |-> leg.to, phase |-> NextPhase(Branch, leg),
     path |-> Append(Branch.path, leg), m |-> Extend(Branch.m, leg),
     label |-> Branch.label, parent |-> None]

Candidate_NextLabel(leg, label) ==
    [node |-> leg.to, phase |-> NextPhase(Branch, leg),
     path |-> Append(Branch.path, leg), m |-> Extend(Branch.m, leg),
     label |-> label + 1, parent |-> None]

\* transition_search_branch_with_diagnostics, with the label C_y allocated;
\* apply_accepted_successor clears the parent of an OD-day branch.
Candidate(leg, label) ==
    [node |-> leg.to, phase |-> NextPhase(Branch, leg),
     path |-> Append(Branch.path, leg), m |-> Extend(Branch.m, leg),
     label |-> label, parent |-> None]

\* A bug: a label is mistaken for its index in the registry.
Registered_OffByOne(turned_out) ==
    Append([l \in DOMAIN labels |->
                [labels[l] EXCEPT !.active = @ /\ l + 1 \notin turned_out]],
           [active |-> TRUE, parent |-> Branch.label])

\* deactivate_retained_connection_label, allocate_retained_connection_label
Registered(turned_out) ==
    Append([l \in DOMAIN labels |->
                [labels[l] EXCEPT !.active = @ /\ l \notin turned_out]],
           [active |-> TRUE, parent |-> Branch.label])

\* retain_od_day_completed_branch_as_day_path makes the connection of a branch
\* that arrives, and make_connection refuses one that starts before midnight:
\* its first boarding comes sooner than its access walk is long.
StartsEarly(b) == b.node \in Destinations /\ b.m.dep < 0

\* C_y accepts: dominated labels die, the frontier may be compacted at once,
\* and the candidate is checked, handed to its projection slot, or queued.
\* An error is kept while the other successors are skipped.
AcceptCandidate(leg) ==
    LET y == leg.to
        label == Len(labels) + 1
        m == Metrics(Extend(Branch.m, leg))
        turned_out == DominatedLabels(Fresh(y), m)
        registry == Registered(turned_out)
        removals == removed_since + Cardinality(turned_out)
                      + Len(sets[y]) - Len(Fresh(y))
        compact == /\ removals >= CompactionMinRemoved
                   /\ Len(current) + Len(next) >= CompactionMinSize
        c == IF compact THEN Compacted(registry)
             ELSE [current |-> current, next |-> next, counts |-> counts,
                   dropped |-> {}, removed |-> 0]
        branch == Candidate(leg, label)
        valid == /\ ValidatePhaseInvariants => PhaseInvariant(branch)
                 /\ ~StartsEarly(branch)
        queued == valid /\ y \in Stops
    IN  /\ Visiting(leg)
        /\ Wanted(leg)
        /\ labels' = registry
        /\ sets' = [sets EXCEPT ![y] = Insert(Fresh(y), m, label)]
        /\ summary' = [summary EXCEPT ![y] =
               SummaryAfterInsert(Fresh(y), FreshSummary(y), m, label)]
        /\ removed_since' = IF compact THEN 0 ELSE removals
        /\ stats' = [stats EXCEPT !.compacted = @ + c.removed]
        /\ current' = c.current
        /\ IF queued
           THEN /\ branches' = Append(branches, branch)
                /\ next' = Append(c.next, Len(branches) + 1)
                /\ counts' = [c.counts EXCEPT !.next[branch.phase] = @ + 1]
           ELSE /\ next' = c.next
                /\ counts' = c.counts
                /\ UNCHANGED branches
        /\ completed' = IF valid /\ y \in Destinations
                        THEN completed \cup {branch.path} ELSE completed
        /\ released' = released \cup c.dropped
        /\ state' = IF valid THEN state ELSE "failing"
        /\ UNCHANGED <<network, cancelled, expanding>>

\* Where the tree goes after an expansion: a successor that saw the
\* cancellation stops it, even after one that failed.
Scanned ==
    \/ state = "scan" /\ todo = {} /\ state' = "level"
    \/ state = "failing" /\ state' = "failed"
    \/ /\ state \in {"scan", "failing"} /\ todo # {} /\ cancelled
       /\ state' = "stopped"

\* A bug: the slot of an expanded branch is never released.
FinishExpansion_KeepsSlot ==
    /\ Scanned
    /\ expanding' = None
    /\ todo' = {}
    /\ UNCHANGED <<network, cancelled, arena, frontier, cy, removed_since,
                   completed, stats>>

\* for_each_successor has returned: release the branch, then stop, report the
\* error, or go on.
FinishExpansion ==
    /\ Scanned
    /\ released' = released \cup {expanding}
    /\ expanding' = None
    /\ todo' = {}
    /\ UNCHANGED <<network, cancelled, branches, frontier, cy, removed_since,
                   completed, stats>>

\* The frontier is exhausted; run_search_batch cleans C_y up
\* (remove_inactive_node_connection_sets) and checks the labels left in it
\* (validate_retained_connection_label_sync).
Exhaust ==
    /\ state = "level" /\ current \o next = <<>>
    /\ sets' = [y \in Nodes |-> Fresh(y)]
    /\ summary' = [y \in Nodes |-> FreshSummary(y)]
    /\ state' = IF \A y \in Nodes : \A i \in DOMAIN sets'[y] :
                       Active(sets'[y][i].label)
                THEN "exhausted" ELSE "failed"
    /\ UNCHANGED <<network, cancelled, arena, frontier, expanding, todo,
                   labels, removed_since, completed, stats>>

Examine == \E leg \in todo :
    RejectPrefix(leg) \/ RejectCandidate(leg) \/ AcceptCandidate(leg)

Tree == Stop \/ AdvanceLevel \/ Pop \/ Examine \/ FinishExpansion \/ Exhaust

Next == Tree \/ Cancel

Spec == Init /\ [][Next]_vars /\ WF_vars(Tree)

------------------------------------------------------------------------------
\* The types of the state.
Metric == [dep : Int, arr : Int, jt : Int, nt : Nat, imp : Nat]

TypeOK ==
    /\ network \in Networks
    /\ cancelled \in BOOLEAN
    /\ state \in {"level", "pop", "scan", "failing",
                  "stopped", "exhausted", "failed"}
    /\ \A i \in DOMAIN branches :
        /\ branches[i].node \in Nodes /\ branches[i].phase \in Phases
        /\ branches[i].label \in 0 .. Len(labels)
        /\ branches[i].m.nt \in 0 .. MaxTransfers
    /\ released \subseteq DOMAIN branches
    /\ expanding \in {None} \cup DOMAIN branches
    /\ todo \subseteq network
    /\ counts \in [{"current", "next"} -> [Phases -> Nat]]
    /\ \A l \in DOMAIN labels :
        /\ labels[l].active \in BOOLEAN
        /\ labels[l].parent \in 0 .. l - 1
    /\ \A y \in Nodes : \A i \in DOMAIN sets[y] :
        /\ sets[y][i].m \in Metric
        /\ sets[y][i].label \in DOMAIN labels
    /\ stats \in [{"expanded", "stale", "compacted"} -> Nat]

\* Every branch is queued once, being expanded, or released, and never two
\* of these: front() is read without asking whether the slot is alive
\* (batch_tree_execution.cpp:195), and a slot nobody releases is memory the
\* tree keeps to its end.
Queue == current \o next

EachBranchOnce ==
    /\ \A i, j \in DOMAIN Queue : Queue[i] = Queue[j] => i = j
    /\ expanding \notin Range(Queue)
    /\ Range(Queue) \cup ({expanding} \ {None}) = DOMAIN branches \ released

\* The branch counts by phase, decremented without a check that they do not
\* fall short (level_expansion.cpp:43), are those of the two layers, and what
\* a run reports adds up to the branches appended: each was expanded, skipped
\* as stale, or compacted away, or is still queued.
CountsAgree ==
    LET Of(queue, p) ==
            Cardinality({i \in DOMAIN queue : branches[queue[i]].phase = p})
    IN  /\ \A p \in Phases : /\ counts.current[p] = Of(current, p)
                             /\ counts.next[p] = Of(next, p)
        /\ Len(branches) = stats.expanded + stats.stale + stats.compacted
                              + Len(Queue)

\* Every C_y is what its class comment says, dead entries included.
ConnectionSetsCanonical ==
    \A y \in Nodes : Canonical(sets[y], summary[y])

\* A candidate never turns out a label its own branch descends from: the
\* loop over the successors goes on with the branch it started with.
ExpandedStaysActive ==
    state = "scan" => Active(branches[expanding].label)

\* An entry that is alive, and so rejects candidates, stands for a branch
\* the tree goes on with, or for a connection handed to a projection slot.
\* An entry nobody pursues would lose the connections it rejects, to a tree
\* whose result counts.
EntriesPursued ==
    state \notin {"failing", "failed", "stopped"} =>
        \A y \in Nodes : \A i \in DOMAIN sets[y] :
            \/ ~Active(sets[y][i].label)
            \/ \E b \in DOMAIN branches :
                /\ branches[b].label = sets[y][i].label
                /\ branches[b].node = y
                /\ Metrics(branches[b].m) = sets[y][i].m
            \/ \E path \in completed : path[Len(path)].to = y

\* The layers are levels of the tree: all branches of the current one have
\* as many legs as the branch being expanded, those of the next one more.
LevelsAreDepths ==
    LET Depth(i) == Len(branches[i].path)
        level == Range(current) \cup ({expanding} \ {None})
    IN  /\ \A i, j \in level : Depth(i) = Depth(j)
        /\ \A i, j \in Range(next) : Depth(i) = Depth(j)
        /\ \A i \in level, j \in Range(next) : Depth(j) = Depth(i) + 1

\* The bookkeeping of the frontier, which is compacted inside the callback of
\* the expansion that is using it.
FrontierSound ==
    /\ EachBranchOnce
    /\ CountsAgree
    /\ ExpandedStaysActive
    /\ LevelsAreDepths

\* A branch leaves the queues unexpanded only when its label is dead.
DropsOnlyDead ==
    [][\A i \in released' \ released :
        i = expanding \/ ~ActiveIn(labels', branches[i].label)]_vars

\* A tree ends: no branch has endless descendants, no level is swapped for
\* itself.
SearchEnds == <>(state \in {"exhausted", "stopped", "failed"})

\* Every prefix a search that prunes nothing would reach.  No connection has
\* more legs: a walk first, and between rides, and last.
MaxLegs == 2 * MaxTransfers + 3

Unpruned ==
    LET step(b) == {[node |-> l.to, phase |-> NextPhase(b, l),
                     path |-> Append(b.path, l), m |-> Extend(b.m, l)] :
                    l \in {k \in Successors(b) : ~Revisits(b, k)}}
        level[n \in 0 .. MaxLegs] ==
            IF n = 0 THEN {[node |-> Origin, phase |-> "AtOrigin",
                            path |-> <<>>, m |-> Root.m]}
            ELSE UNION {step(b) : b \in level[n - 1]}
    IN  UNION {level[n] : n \in 1 .. MaxLegs}

\* A search fails only for a connection that starts before midnight, and only
\* where a search that prunes nothing would come upon one.  Neither the labels
\* left in C_y nor the phase checks fail it: these are "a diagnostic switch"
\* that "must not change the mathematical search contract"
\* (search_execution_config.hpp:285).
FailsOnlyEarly ==
    state \in {"failing", "failed"} => \E b \in Unpruned : StartsEarly(b)

\* Where a prefix that dominates another may do all that the other may, at no
\* more cost: there are no transfer walks, no wait is beyond the limit and no
\* transfer barred, no day starts before its access walks would, waiting costs
\* what riding and walking cost (or nothing), and no prefix is beyond the
\* tolerances beside another.
DominanceSafe ==
    LET walks == {l \in network : l.kind = "walk"}
        rides == {l \in network : l.kind = "ride"}
    IN  /\ \A w \in walks :
            /\ w.from \in Stops => w.to \notin Stops
            /\ w.from = Origin => \A t \in TimeDomain : w.time < t
        /\ \A r, l \in rides :
            /\ <<r, l>> \notin Barred
            /\ r.to = l.from => l.dep - r.arr <= MaxWait
        /\ \/ WaitWeight = 0
           \/ WaitWeight = 1 /\ WalkWeight = 1 /\ \A r \in rides : r.fare = 0
        /\ \A b, c \in Unpruned :
            b.node = c.node =>
                WithinTolerance(Improved({}, Metrics(c.m)), Metrics(b.m))

\* There, no connection is lost: what a search without pruning would reach,
\* some entry left matches or dominates, whatever was turned out on the way.
NothingLost ==
    state = "exhausted" /\ DominanceSafe =>
        \A b \in Unpruned : \E i \in DOMAIN sets[b.node] :
            LET e == sets[b.node][i] IN
            \/ e.m = Metrics(b.m)
            \/ Dominates(e.m, Metrics(b.m))
==============================================================================
