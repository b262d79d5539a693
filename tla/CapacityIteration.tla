-------------------------- MODULE CapacityIteration --------------------------
(***************************************************************************)
(* The capacity-aware assignment: search, choice and split are repeated    *)
(* under the loads they produce, averaged (method of successive averages), *)
(* until the averages settle or max_iterations is reached                  *)
(* (detail/pipeline_capacity.cpp, split/split.cpp, capacity_aware).        *)
(*                                                                         *)
(* A load state is in 1/LoadUnit of a passenger; LoadUnit is a multiple of *)
(* every iteration number, so that averages are exact.  A demand entry is  *)
(*   [interval, passengers, connections]                                   *)
(* and a connection is an alternative of SplitKernel with its legs, each   *)
(*   [trip, from, to, duration].                                           *)
(***************************************************************************)
EXTENDS SplitKernel, Sequences, SequencesExt

CONSTANTS
    MaxIterations, LoadUnit,
    AbsoluteTolerance,      \* in 1/LoadUnit
    RelativeTolerance,      \* in 1/Unit
    SearchRatio,            \* impedance.volume_capacity_ratio
    SplitRatio,             \* PerceivedJourneyTime.volCapRatioFactor
    ImpedanceTolerance,     \* of the choice step
    IntervalOf,             \* interval id -> [start, end]
    Entries,                \* the positive demand, a sequence
    CapacitySets,           \* the capacity inputs tried: from items to
                            \*   passengers; an item is <<trip, position>>
    Modes                   \* the settings tried: [search, split : BOOLEAN]

\* What is asked of the constants: numbers where the code has numbers, inputs
\* that are finite, and rides that pass a stop.
RideLegs == [trip : Nat, from : Nat, to : Nat, duration : Nat]
Alternatives == [dep : Int, arr : Int, pjt : Int, fare : Int, legs : Seq(RideLegs)]
ConstantsAssumption ==
    /\ MaxIterations \in Nat \ {0} /\ LoadUnit \in Nat \ {0} /\ SplitRatio \in Int
    /\ \A n \in 1 .. MaxIterations : LoadUnit % n = 0
    /\ IsFiniteSet(DOMAIN IntervalOf)
    /\ \A a \in DOMAIN IntervalOf : {IntervalOf[a].start, IntervalOf[a].end} \subseteq Int
    /\ Entries \in Seq([interval : DOMAIN IntervalOf, passengers : Nat,
                        connections : Seq(Alternatives)])
    /\ \A k \in DOMAIN Entries : \A c \in Range(Entries[k].connections) :
          \A l \in DOMAIN c.legs : c.legs[l].from < c.legs[l].to
    /\ \A cap \in CapacitySets :
          /\ IsFiniteSet(DOMAIN cap) /\ DOMAIN cap \subseteq Nat \X Nat
          /\ \A i \in DOMAIN cap : cap[i] \in Nat
    /\ Modes \subseteq [search : BOOLEAN, split : BOOLEAN]

Policies == {"VolumeCapacityRatio", "ExcessVolumeCapacityRatio"}

VARIABLES
    mode, policy, capacity,   \* of the input
    iteration,
    load_state,               \* <<interval, item>> -> load in 1/LoadUnit
    candidate,                \* last_loads, in passengers
    total,                    \* history: what all the candidates add up to
    delta,                    \* the diagnostics: max_absolute, converged
    converged,
    rows,                     \* the overload assessment
    status                    \* "iterating", "stopped", "reported", "failed"

vars == <<mode, policy, capacity, iteration, load_state, candidate, total,
          delta, converged, rows, status>>

At(f, k) == IF k \in DOMAIN f THEN f[k] ELSE 0

------------------------------------------------------------------------------
(* capacity_aware/penalty.cpp, exposure.cpp                                *)

\* vehicle_journey_items_occupied
Items(leg) == {<<leg.trip, i>> : i \in leg.from .. leg.to - 1}
ItemsOf(c) == UNION {Items(c.legs[l]) : l \in DOMAIN c.legs}

\* capacity_ratio and capacity_penalty of an item that has a capacity, in
\* 1/Unit of the policy's ratio.
Penalty(interval, item) ==
    LET ratio == (Unit * At(load_state, <<interval, item>>))
                    \div (LoadUnit * capacity[item])
    IN  IF policy = "VolumeCapacityRatio" THEN ratio ELSE AtLeast(0, ratio - Unit)

\* validate_capacity_coverage_for_choice_result, ensure_positive_capacity
Covered(items) == \A i \in items : At(capacity, i) > 0

\* accumulate_ride_leg_capacity_exposure: item by item, as the split sees it.
Exposure(c, interval) ==
    Total([l \in DOMAIN c.legs |->
        (c.legs[l].duration
            * Total([i \in Items(c.legs[l]) |-> Penalty(interval, i)]))
          \div (Unit * (c.legs[l].to - c.legs[l].from))])

------------------------------------------------------------------------------
(* search/cost: what search sees, through an index built once a iteration  *)

\* search_capacity_load_intervals
LoadedIntervals == {k[1] : k \in DOMAIN load_state}

\* capacity_trip_positions
TripPositions(trip) == {i[2] : i \in {j \in DOMAIN capacity : j[1] = trip}}

\* std::lower_bound in the positions in order.
LowerBound(positions, x) == Cardinality({k \in positions : k < x})

\* build_search_capacity_cost_index asks for the ratio of every item in every
\* interval that has a load, used or not.
IndexIsBuilt == LoadedIntervals # {} => Covered(DOMAIN capacity)

\* penalty_prefixes: what the first n positions of a trip add up to.
Prefix(interval, trip, n) ==
    LET positions == TripPositions(trip)
    IN  Total([k \in {j \in positions : LowerBound(positions, j) < n} |->
                  Penalty(interval, <<trip, k>>)])

\* A bug: the position where the passenger alights is paid for.
PenaltySum_Closed(interval, leg) ==
    LET positions == TripPositions(leg.trip)
        begin == LowerBound(positions, leg.from)
        end   == AtMost(Cardinality(positions), LowerBound(positions, leg.to) + 1)
    IN  IF interval \notin LoadedIntervals THEN 0
        ELSE Prefix(interval, leg.trip, end) - Prefix(interval, leg.trip, begin)

\* search_capacity_penalty_sum, in an index that has the leg's positions.
PenaltySum(interval, leg) ==
    LET positions == TripPositions(leg.trip)
        begin == LowerBound(positions, leg.from)
        end   == LowerBound(positions, leg.to)
    IN  IF interval \notin LoadedIntervals THEN 0
        ELSE Prefix(interval, leg.trip, end) - Prefix(interval, leg.trip, begin)

\* Its check that no position in the occupied range lacks a capacity.
RangeIsCovered(leg) ==
    LET positions == TripPositions(leg.trip)
    IN  LowerBound(positions, leg.to) - LowerBound(positions, leg.from)
            = leg.to - leg.from

\* search_capacity_exposure
SearchExposure(c, interval) ==
    Total([l \in DOMAIN c.legs |->
        (c.legs[l].duration * PenaltySum(interval, c.legs[l]))
          \div (Unit * (c.legs[l].to - c.legs[l].from))])

\* search_impedance: base_search_impedance, and the exposure if search is
\* aware of capacities.
SearchCost(c, interval) ==
    c.pjt + QFare * c.fare
        + (IF mode.search THEN SearchRatio * SearchExposure(c, interval) ELSE 0)

SearchSucceeds ==
    mode.search =>
        /\ IndexIsBuilt
        /\ \A k \in DOMAIN Entries : \A c \in Range(Entries[k].connections) :
              \A l \in DOMAIN c.legs : RangeIsCovered(c.legs[l])

------------------------------------------------------------------------------
(* One evaluation of search, choice and split                              *)

\* Search and choice keep what is not far from the best of the task: the
\* places of these connections, whose order they keep.
Chosen(e) ==
    LET cost(i) == SearchCost(e.connections[i], e.interval)
    IN  {i \in DOMAIN e.connections :
            \A j \in DOMAIN e.connections : cost(i) <= cost(j) + ImpedanceTolerance}

\* run_validated_single_split_step demands capacities when it uses them.
SplitSucceeds ==
    mode.split => \A k \in DOMAIN Entries :
        \A i \in Chosen(Entries[k]) : Covered(ItemsOf(Entries[k].connections[i]))

\* apply_capacity_to_split_alternatives
Adjusted(c, interval) ==
    IF mode.split
    THEN [c EXCEPT !.pjt = @ + SplitRatio * Exposure(c, interval)]
    ELSE c

\* What the chosen connections of entry k get of it.
SharesOf(k) ==
    LET e == Entries[k]
    IN  With([i \in Chosen(e) |-> Adjusted(e.connections[i], e.interval)], LAMBDA as :
        SplitShares(as, [i \in DOMAIN as |-> as[i].dep], IntervalOf[e.interval],
                    e.passengers).passengers)

\* What entry k loads with how many, one ride for each share.
Rides(k) ==
    LET e == Entries[k]
    IN  With(SharesOf(k), LAMBDA shares :
            {[entry |-> k, share |-> i, passengers |-> shares[i],
              loads |-> {<<e.interval, item>> : item \in ItemsOf(e.connections[i])}] :
                i \in {j \in DOMAIN shares : shares[j] > 0}})

\* build_vehicle_journey_item_loads
CandidateLoads ==
    With(UNION {Rides(k) : k \in DOMAIN Entries}, LAMBDA rides :
        [key \in UNION {r.loads : r \in rides} |->
            Total([r \in {x \in rides : key \in x.loads} |-> r.passengers])])

------------------------------------------------------------------------------
(* capacity_aware/load_state_iteration.cpp                                 *)

Positive(f) == [k \in {x \in DOMAIN f : f[x] > 0} |-> f[k]]

\* A bug: an item the candidate does not load keeps what it had.
Msa_KeepsUnloaded(previous, loads, n) ==
    Positive([k \in DOMAIN previous \cup DOMAIN loads |->
        IF k \in DOMAIN loads
        THEN ((n - 1) * At(previous, k) + LoadUnit * loads[k]) \div n
        ELSE previous[k]])

\* msa_update_load_state with alpha = 1/n
Msa(previous, loads, n) ==
    Positive([k \in DOMAIN previous \cup DOMAIN loads |->
        ((n - 1) * At(previous, k) + LoadUnit * At(loads, k)) \div n])

\* load_state_delta
Keys(f, g) == DOMAIN f \cup DOMAIN g
MaxAbsolute(f, g) == Max({0} \cup {Distance(At(f, k), At(g, k)) : k \in Keys(f, g)})
WithinRelative(f, g) ==
    \A k \in Keys(f, g) :
        Unit * Distance(At(f, k), At(g, k))
            <= RelativeTolerance * Max({LoadUnit, At(f, k), At(g, k)})

\* capacity_iteration_converged
Converged(f, g) == MaxAbsolute(f, g) <= AbsoluteTolerance \/ WithinRelative(f, g)

------------------------------------------------------------------------------
(* capacity/overload.cpp, overload_assessment.cpp                          *)

\* vehicle_journey_item_overload_status
OverloadStatus(passengers, limit) ==
    IF limit = 0 THEN "ZeroCapacity"
    ELSE IF passengers > limit THEN "Overloaded" ELSE "Ok"

\* assess_vehicle_journey_item_overload: a row for every interval and item
\* with a capacity, and one for every load without.
Assessment(loads) ==
    {[key |-> <<a, i>>, passengers |-> At(loads, <<a, i>>),
      excess |-> AtLeast(0, At(loads, <<a, i>>) - capacity[i]),
      status |-> OverloadStatus(At(loads, <<a, i>>), capacity[i])] :
        a \in DOMAIN IntervalOf, i \in DOMAIN capacity}
    \cup
    {[key |-> k, passengers |-> loads[k], excess |-> 0,
      status |-> "MissingCapacity"] :
        k \in {x \in DOMAIN loads : x[2] \notin DOMAIN capacity}}

------------------------------------------------------------------------------
Init ==
    /\ mode \in Modes
    /\ policy \in Policies
    /\ capacity \in CapacitySets
    /\ iteration = 0
    /\ load_state = <<>>
    /\ candidate = <<>>
    /\ total = <<>>
    /\ delta = 0
    /\ converged = FALSE
    /\ rows = {}
    /\ status = "iterating"

\* The body of run_capacity_aware_assignment_iteration_layer, or of
\* iterate_capacity_aware_split, which searches once with the base cost.
Iterate ==
    /\ status = "iterating"
    /\ IF SearchSucceeds /\ SplitSucceeds
       THEN \E n \in {iteration + 1}, loads \in {CandidateLoads} :
            \E next \in {Msa(load_state, loads, n)} :
                /\ iteration' = n
                /\ load_state' = next
                /\ candidate' = loads
                /\ total' = [k \in Keys(total, loads) |-> At(total, k) + At(loads, k)]
                /\ IF mode.search \/ mode.split
                   THEN /\ delta' = MaxAbsolute(load_state, next)
                        /\ converged' = Converged(load_state, next)
                        /\ status' = IF converged' \/ n = MaxIterations
                                     THEN "stopped" ELSE status
                   ELSE /\ status' = "stopped"
                        /\ UNCHANGED <<delta, converged>>
       ELSE /\ status' = "failed"
            /\ UNCHANGED <<iteration, load_state, candidate, total, delta, converged>>
    /\ UNCHANGED <<mode, policy, capacity, rows>>

\* validate_capacity_aware_split_step_output, and the assessment of the output.
Report ==
    /\ status = "stopped"
    /\ IF ~converged /\ (mode.search \/ mode.split) /\ iteration # MaxIterations
       THEN status' = "failed" /\ UNCHANGED rows
       ELSE status' = "reported" /\ rows' = Assessment(candidate)
    /\ UNCHANGED <<mode, policy, capacity, iteration, load_state, candidate,
                   total, delta, converged>>

Next == Iterate \/ Report

Spec == Init /\ [][Next]_vars /\ WF_vars(Next)

------------------------------------------------------------------------------
\* The load state an iteration is searched and split under is the mean of all
\* the candidates before it, whatever became of single items in between; so
\* the loads that are returned, the last candidate's alone, may differ from it
\* by up to iteration - 1 times the change that was found small enough, and by
\* no more.
LoadStateIsMean ==
    /\ \A k \in Keys(load_state, total) :
          iteration * At(load_state, k) = LoadUnit * At(total, k)
    /\ \A k \in DOMAIN load_state : load_state[k] > 0
    /\ status # "iterating" /\ (mode.search \/ mode.split) =>
          \A k \in Keys(load_state, candidate) :
              Distance(LoadUnit * At(candidate, k), At(load_state, k))
                  <= (iteration - 1) * delta

\* Search and split charge a connection the same in one iteration, though one
\* takes differences of prefix sums in an index and the other adds items up;
\* a run fails only for want of a capacity where someone may ride, or in an
\* index that covers all; and every load is reported once.
OneCostPerIteration ==
    /\ status = "iterating" /\ IndexIsBuilt =>
          \A k \in DOMAIN Entries : \A c \in Range(Entries[k].connections) :
              Covered(ItemsOf(c)) =>
                  Exposure(c, Entries[k].interval) = SearchExposure(c, Entries[k].interval)
    /\ status = "failed" =>
          ~ Covered(DOMAIN capacity
                      \cup UNION {ItemsOf(c) : c \in
                             UNION {Range(Entries[k].connections) : k \in DOMAIN Entries}})
    /\ status = "reported" =>
          /\ \A r, s \in rows : r.key = s.key => r = s
          /\ \A k \in DOMAIN candidate : \E r \in rows :
                r.key = k /\ r.passengers = candidate[k]
          /\ Total([r \in rows |-> r.passengers]) = Total(candidate)
          /\ mode.split => \A r \in rows : r.status = "ZeroCapacity" => r.passengers = 0
==============================================================================
