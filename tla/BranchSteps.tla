------------------------------ MODULE BranchSteps ------------------------------
(***************************************************************************)
(* What one connection segment does to a search branch, whichever search   *)
(* it belongs to (search/generation/branch_transition.cpp,                 *)
(* search/branch_state.cpp, search/relations/branch_metrics.cpp): the phase*)
(* it leads to, the metrics it adds, and whether it closes a cycle.        *)
(***************************************************************************)
EXTENDS Integers, Sequences, Functions

CONSTANTS
    Stops,
    MaxTransfers,                               \* TransferLimits
    WalkWeight, WaitWeight, TransferPenalty     \* SearchImpedance

ASSUME MaxTransfersAssumption == MaxTransfers \in Nat
ASSUME WeightsAssumption ==
    {WalkWeight, WaitWeight, TransferPenalty} \subseteq Nat

None == 0

Phases == {"AtOrigin", "BeforeFirstBoarding", "AfterTimedRide",
           "AfterTransferWalk", "Completed"}

\* A connection segment: a walk, or a ride between two stop occurrences.
Walk(from, to, time) == [kind |-> "walk", from |-> from, to |-> to,
                         time |-> time]
Ride(from, to, position, dep, arr, fare) ==
    [kind |-> "ride", from |-> from, to |-> to, position |-> position,
     dep |-> dep, arr |-> arr, fare |-> fare]

\* The branch has been at the node, or at the stop occurrence, before.
Visited(b) == {b.node} \cup {b.path[i].to : i \in DOMAIN b.path}
Occurrences(b) ==
    {<<l.to, l.position>> : l \in {m \in Range(b.path) : m.kind = "ride"}}
Revisits(b, leg) ==
    IF leg.kind = "walk" THEN leg.to \in Visited(b)
    ELSE <<leg.to, leg.position>> \in Occurrences(b)

\* walk_extension_transition_table, timed_extension_transition
NextPhase(b, leg) ==
    IF leg.kind = "ride" THEN "AfterTimedRide"
    ELSE IF b.phase = "AtOrigin" THEN "BeforeFirstBoarding"
    ELSE IF leg.to \notin Stops THEN "Completed" ELSE "AfterTransferWalk"

\* extend_metrics_with_walk, extend_metrics_with_timed; the impedance is
\* linear in its components, so it is carried along.
Extend(m, leg) ==
    CASE leg.kind = "walk" /\ ~m.boarded ->
            [m EXCEPT !.access = @ + leg.time,
                      !.imp = @ + WalkWeight * leg.time]
      [] leg.kind = "walk" /\ m.boarded ->
            [m EXCEPT !.now = @ + leg.time,
                      !.imp = @ + WalkWeight * leg.time]
      [] leg.kind = "ride" /\ ~m.boarded ->
            [m EXCEPT !.boarded = TRUE, !.dep = leg.dep - m.access,
                      !.now = leg.arr,
                      !.imp = @ + (leg.arr - leg.dep) + leg.fare]
      [] OTHER ->
            [m EXCEPT !.now = leg.arr, !.nt = @ + 1,
                      !.imp = @ + WaitWeight * (leg.dep - m.now)
                                + TransferPenalty
                                + (leg.arr - leg.dep) + leg.fare]

\* make_day_path_pruning_metrics: before boarding, the walk starts at zero.
Metrics(m) ==
    LET dep == IF m.boarded THEN m.dep ELSE 0
        arr == IF m.boarded THEN m.now ELSE m.access
    IN  [dep |-> dep, arr |-> arr, jt |-> arr - dep, nt |-> m.nt,
         imp |-> m.imp]

\* validate_search_branch_phase_invariants of a branch that is not the root
PhaseInvariant(b) ==
    CASE b.phase = "BeforeFirstBoarding" ->
            b.node \in Stops /\ b.parent # None /\ ~b.m.boarded
      [] b.phase \in {"AfterTimedRide", "AfterTransferWalk"} ->
            b.node \in Stops /\ b.m.boarded
      [] OTHER -> b.node \notin Stops /\ b.m.boarded

\* The successors come in buckets: the egress walks, then the transfer
\* walks (or the access walks), then the rides; any order within a bucket.
Bucket(leg) == IF leg.kind = "ride" THEN 3 ELSE IF leg.to \in Stops THEN 2 ELSE 1
================================================================================
