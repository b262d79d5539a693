-------------------------- MODULE ResidualReachability --------------------------
(***************************************************************************)
(* What is left of a search once departures, arrivals and waits are        *)
(* forgotten (search/residual/, search/residual_reachability.cpp): from    *)
(* which nodes, in which phase and with how many transfers left, a zone    *)
(* can still be reached, and at what cost at least.  A tree is cut where   *)
(* the answer is that it cannot, or not well enough.                       *)
(***************************************************************************)
EXTENDS BranchSteps, FiniteSetsExt

LegTime(leg) == IF leg.kind = "walk" THEN leg.time ELSE leg.arr - leg.dep

Parallel(network, leg) ==
    {l \in network : l.kind = leg.kind /\ l.from = leg.from /\ l.to = leg.to}

\* build_residual_reverse_graph: of parallel legs the fastest stands for all.
ReverseGraph(network) ==
    {[kind |-> l.kind, from |-> l.from, to |-> l.to,
      time |-> Min({LegTime(p) : p \in Parallel(network, l)})] : l \in network}

Key(node, phase, left) == [node |-> node, phase |-> phase, left |-> left]

Step(edge, phase, left, transfers) ==
    [before |-> Key(edge.from, phase, left),
     jt     |-> edge.time,
     nt     |-> transfers,
     imp    |-> IF edge.kind = "walk" THEN WalkWeight * edge.time
                ELSE edge.time + TransferPenalty * transfers]

\* Bugs: a first ride that uses a transfer up; a transfer that waits.
Steps_FirstRideTransfers(graph, key) ==
    LET Into(kind) == {e \in graph : e.kind = kind /\ e.to = key.node}
        stops(S) == {e \in S : e.from \in Stops}
    IN  CASE key.phase \in {"Completed", "AfterTransferWalk"} ->
               {Step(e, "AfterTimedRide", key.left, 0) : e \in stops(Into("walk"))}
          [] key.phase = "BeforeFirstBoarding" ->
               {Step(e, "AtOrigin", key.left, 0) :
                    e \in Into("walk") \ stops(Into("walk"))}
          [] key.phase = "AfterTimedRide" ->
               {Step(e, phase, key.left + 1, 1) :
                    e \in IF key.left < MaxTransfers THEN stops(Into("ride")) ELSE {},
                    phase \in {"BeforeFirstBoarding", "AfterTimedRide",
                               "AfterTransferWalk"}}
          [] OTHER -> {}

Steps_Waiting(graph, key) ==
    LET Into(kind) == {e \in graph : e.kind = kind /\ e.to = key.node}
        stops(S) == {e \in S : e.from \in Stops}
        Waited(s) == [s EXCEPT !.jt = @ + 1]
    IN  CASE key.phase \in {"Completed", "AfterTransferWalk"} ->
               {Step(e, "AfterTimedRide", key.left, 0) : e \in stops(Into("walk"))}
          [] key.phase = "BeforeFirstBoarding" ->
               {Step(e, "AtOrigin", key.left, 0) :
                    e \in Into("walk") \ stops(Into("walk"))}
          [] key.phase = "AfterTimedRide" ->
               {Step(e, "BeforeFirstBoarding", key.left, 0) : e \in stops(Into("ride"))}
               \cup {Waited(Step(e, phase, key.left + 1, 1)) :
                    e \in IF key.left < MaxTransfers THEN stops(Into("ride")) ELSE {},
                    phase \in {"AfterTimedRide", "AfterTransferWalk"}}
          [] OTHER -> {}

\* residual_predecessor_transitions: the states one leg before a state.
Steps(graph, key) ==
    LET Into(kind) == {e \in graph : e.kind = kind /\ e.to = key.node}
        stops(S) == {e \in S : e.from \in Stops}
    IN  CASE key.phase \in {"Completed", "AfterTransferWalk"} ->
               {Step(e, "AfterTimedRide", key.left, 0) : e \in stops(Into("walk"))}
          [] key.phase = "BeforeFirstBoarding" ->
               {Step(e, "AtOrigin", key.left, 0) :
                    e \in Into("walk") \ stops(Into("walk"))}
          [] key.phase = "AfterTimedRide" ->
               {Step(e, "BeforeFirstBoarding", key.left, 0) : e \in stops(Into("ride"))}
               \cup {Step(e, phase, key.left + 1, 1) :
                    e \in IF key.left < MaxTransfers THEN stops(Into("ride")) ELSE {},
                    phase \in {"AfterTimedRide", "AfterTransferWalk"}}
          [] OTHER -> {}

\* A bug: one arrives with all transfers left.
Seeds_AllLeft(destination) == {Key(destination, "Completed", MaxTransfers)}

Seeds(destination) == {Key(destination, "Completed", left) : left \in 0 .. MaxTransfers}

\* A suffix has at most an access walk, MaxTransfers + 1 rides, a walk after
\* each, and nothing else.
LongestSuffix == 2 * MaxTransfers + 3

WithPredecessors(graph, known) ==
    known \cup UNION {{s.before : s \in Steps(graph, k)} : k \in known}

\* build_residual_reachable_states
ReachableStates(graph, destination) ==
    LET grown[n \in 0 .. LongestSuffix] ==
            IF n = 0 THEN Seeds(destination)
            ELSE WithPredecessors(graph, grown[n - 1])
    IN  grown[LongestSuffix]

\* The ways on: a step and the state that is after it.
WaysOn(graph, states) ==
    UNION {{[s |-> s, key |-> next] : s \in Steps(graph, next)} : next \in states}

WaysFrom(ways, k) == {w \in ways : w.s.before = k}

Distances(criterion, ways, destination, states) ==
    LET least[k \in states] ==
            IF k \in Seeds(destination) THEN 0
            ELSE Min({w.s[criterion] + least[w.key] : w \in WaysFrom(ways, k)})
    IN  least

\* build_residual_suffix_lower_bounds: three shortest distances, each on its
\* own, so that no single suffix need attain them together.
LowerBounds(graph, destination, states) ==
    LET ways == WaysOn(graph, states)
        jt   == Distances("jt", ways, destination, states)
        nt   == Distances("nt", ways, destination, states)
        imp  == Distances("imp", ways, destination, states)
    IN  [k \in states |-> [jt |-> jt[k], nt |-> nt[k], imp |-> imp[k]]]

\* build_residual_reachability, once for each destination.
Residual(network, destinations) ==
    LET graph == ReverseGraph(network)
    IN  [d \in destinations |->
            LET states == ReachableStates(graph, d)
            IN  [states |-> states, bounds |-> LowerBounds(graph, d, states)]]

\* validate_destination_residual_reachability
Valid(residual) ==
    \A d \in DOMAIN residual :
        LET states == residual[d].states
            bounds == residual[d].bounds
        IN  /\ Seeds(d) \subseteq states
            /\ \A k \in states :
                /\ k.left \in 0 .. MaxTransfers
                /\ k.phase = "Completed" => k.node = d
                /\ (k.phase \in {"AtOrigin", "Completed"}) = (k.node \notin Stops)
                /\ k.left < MaxTransfers => [k EXCEPT !.left = @ + 1] \in states
                /\ k \in DOMAIN bounds
                /\ bounds[k].jt >= 0 /\ bounds[k].nt >= 0 /\ bounds[k].imp >= 0
            /\ DOMAIN bounds \subseteq states

\* evaluate_residual_reachability: a zone nothing is known of stays feasible.
Feasible(residual, destination, key) ==
    destination \in DOMAIN residual =>
        IF key.phase = "Completed" THEN key.node = destination
        ELSE key \in residual[destination].states
================================================================================
