---------------------------- MODULE OutputAssembly ----------------------------
(***************************************************************************)
(* What a run reports (assignment/output_assembly.cpp, output_loads.cpp,   *)
(* skim.cpp, output_validation.cpp): the split of the day, or of the       *)
(* demand tasks, seen as loads, as skims, pair by pair, and in a summary,  *)
(* which are then checked against each other.                              *)
(*                                                                         *)
(* The OD-day run is the one of DemandSplit, followed by the assembly of   *)
(* its output; the other modes assemble theirs at once.  A day path is     *)
(* the routes and positions of its rides, and all its supports differ in   *)
(* nothing but their times; a chosen connection stands for its path.       *)
(***************************************************************************)
EXTENDS DemandSplit, PassengerLoads

CONSTANTS
    Modes,           \* the outputs built: "OdDay", "Timed", "Disabled",
                     \*   "AllZone", "TimedDiagnostics"
    SkimConfigs,     \* [enabled, func, quantile, low_share, volume_weighted]
    Assessments,     \* [calculate, input, capacity]: input is "missing" or "loaded"
    Trees            \* the results of the all-zone trees, in order:
                     \*   [origin, destination, connection_count]

VARIABLES
    mode, skim_config, assessment,
    stage,           \* what is assembled next
    position,        \* how many shares, or pairs, are
    segment_loads, stop_loads,
    output

output_vars == <<mode, skim_config, assessment, stage, position, segment_loads,
                 stop_loads, output>>
all_vars == <<vars, output_vars>>

Pairs == {Pair(e) : e \in Range(demand)}

------------------------------------------------------------------------------
(* Choice, search and demand by pair: detail/grouping.hpp                  *)

Signature(s) == [i \in DOMAIN s.legs |->
                    [route |-> RouteOf[s.legs[i].trip],
                     from |-> s.legs[i].from, to |-> s.legs[i].to]]

\* The connections of a pair: in an OD-day run one for each day path, its
\* first support; otherwise what the tasks chose, each once.
Representatives(supports) ==
    FoldLeft(LAMBDA rs, s :
                IF \E r \in Range(rs) : Signature(r) = Signature(s) THEN rs
                ELSE Append(rs, s),
             <<>>, supports)
ChosenByTasks(p) ==
    SelectSeq(choice[p], LAMBDA s :
        \E e \in Range(demand) : Pair(e) = p /\ Admissible(s, e.interval))
Connections(p) ==
    IF p \notin DOMAIN choice THEN <<>>
    ELSE IF mode = "OdDay" THEN Representatives(choice[p]) ELSE ChosenByTasks(p)

\* The connection of a share: connection_of(alternative).
ConnectionIndex(share) ==
    LET of == Connections(Pair(share))
    IN  {i \in DOMAIN of :
            IF mode = "OdDay" THEN Signature(of[i]) = Signature(share.support)
            ELSE of[i] = share.support}

\* How many connections the search found; the choice never adds one.
SearchCount(p) == IF p \in DOMAIN choice THEN Len(choice[p]) ELSE 0

\* collect_all_ods, in the order of their keys
AllOds ==
    SetToSortSeq({p \in DOMAIN choice : SearchCount(p) > 0} \cup Pairs, Before)

SharesOf(e) == SelectSeq(split.shares, LAMBDA s : Key(s) = Key(e))

------------------------------------------------------------------------------
(* What is checked before anything is assembled                            *)

\* validate_split_shares_are_od_day_choice_local, .._are_task_local
SharesAreLocal ==
    \A s \in Range(split.shares) : ConnectionIndex(s) # {}

\* validate_od_day_split_runtime_contract, of the positive rows
RuntimeContract ==
    /\ Unique(split.certificates)
    /\ \A e \in {x \in Range(demand) : Positive(x)} :
         \E c \in {x \in Range(split.certificates) : Key(x) = Key(e)} :
           \E shares \in {SharesOf(e)} :
            /\ c.passengers = e.passengers
            /\ c.candidate = c.admissible + c.rejected
            /\ (c.admissible > 0) <=> (shares # <<>>)
            /\ IF shares = <<>>
               THEN /\ \E u \in Range(split.unassigned) : Key(u) = Key(e)
                    /\ c.reason # "none" /\ c.share_count = 0
                    /\ c.assigned = 0 /\ c.unassigned = e.passengers
               ELSE /\ \A s \in Range(shares) : Admissible(s.support, e.interval)
                    /\ c.reason = "none" /\ c.share_count = Len(shares)
                    /\ c.assigned = SumOver(shares, Passengers)
                    /\ c.probability = SumOver(shares, Probability)
                    /\ c.unassigned = 0 /\ c.probability = Unit

\* validate_loads_are_split_projection
LoadsAreProjection ==
    Total(segment_loads)
        = SumOver(split.shares, LAMBDA s : s.passengers * Len(s.support.legs))

------------------------------------------------------------------------------
(* Skims, skim.cpp                                                         *)

Metrics == {"journey_time", "transfers", "fare", "split_impedance"}
Metric(name, s) ==
    CASE name = "journey_time" -> s.support.arr - s.support.dep
      [] name = "transfers" -> Len(s.support.legs) - 1
      [] name = "fare" -> s.support.fare
      [] name = "split_impedance" ->
            Impedance(s.support, ReferenceTime(s.support), Intervals[s.interval])

WeightOf(s) == IF skim_config.volume_weighted THEN s.passengers ELSE 1

\* low_impedance_connection_count
LowImpedanceCount(n) ==
    IF n = 0 \/ skim_config.low_share = 0 THEN 0
    ELSE AtMost(n, (skim_config.low_share * n + Unit - 1) \div Unit)

\* Sorting keeps the order of shares with equal values.
SortedByMetric(shares, name) ==
    LET less(i, j) == \/ Metric(name, shares[i]) < Metric(name, shares[j])
                      \/ Metric(name, shares[i]) = Metric(name, shares[j]) /\ i < j
    IN  With(SetToSortSeq(DOMAIN shares, less), LAMBDA order :
            SubSeq([k \in DOMAIN order |-> shares[order[k]]], 1, Len(order)))

\* take_low_impedance_prefix of derive_skim_alternatives
Included(shares) ==
    With(SelectSeq(shares, LAMBDA s : WeightOf(s) > 0), LAMBDA weighty :
        SubSeq(SortedByMetric(weighty, "split_impedance"), 1,
               LowImpedanceCount(Len(weighty))))

\* A bug: the mean is divided by the number of shares, not by their weight.
Mean_Unweighted(shares, name) ==
    MapThenSumSet(LAMBDA i : Metric(name, shares[i]) * WeightOf(shares[i]), DOMAIN shares)
        \div Len(shares)

\* weighted_mean and weighted_quantile of shares that have a weight each
Mean(shares, name) ==
    MapThenSumSet(LAMBDA i : Metric(name, shares[i]) * WeightOf(shares[i]), DOMAIN shares)
        \div MapThenSumSet(LAMBDA i : WeightOf(shares[i]), DOMAIN shares)
Quantile(shares, name) ==
    With(SortedByMetric(shares, name), LAMBDA sorted :
        LET upto(k) == MapThenSumSet(LAMBDA i : WeightOf(sorted[i]), 1 .. k)
            reached == {k \in DOMAIN sorted :
                            upto(k) * Unit >= skim_config.quantile * upto(Len(sorted))}
        IN  Metric(name, sorted[Min(reached)]))

\* aggregate_skim_values
Aggregate(shares, name) ==
    IF shares = <<>> THEN 0
    ELSE IF skim_config.func = "mean" THEN Mean(shares, name) ELSE Quantile(shares, name)

\* build_skim_entry.  The tasks of an OD-day run are made up from its shares,
\* those of a run by demand tasks have all their chosen connections.
SkimEntry(e) ==
    With(SharesOf(e), LAMBDA shares :
    With(Included(shares), LAMBDA included :
        [origin |-> e.origin, destination |-> e.destination, interval |-> e.interval,
         demand |-> e.passengers, assigned |-> SumOver(shares, Passengers),
         connections |-> IF mode = "OdDay" THEN Len(shares)
                         ELSE Len(IntervalAlternatives(e)),
         included |-> Len(included),
         metric |-> [name \in Metrics |-> Aggregate(included, name)]]))

SkimMatrix(status) == [status |-> status, entries |-> <<>>]

\* validate_assignment_skim_matrix
SkimEntryValid(x) ==
    /\ x.included <= x.connections
    /\ \A name \in Metrics : x.metric[name] >= 0
    /\ x.included = 0 => \A name \in Metrics : x.metric[name] = 0

------------------------------------------------------------------------------
(* Overload, as far as the output is concerned                             *)

OverloadSkipped == [status |-> "SkippedAssignmentDisabled", items |-> <<>>]

\* build_elementary_segment_overload_assessment_output: the loads again, and a
\* row without passengers for what has a capacity and no load.
OverloadOf(item_loads) ==
    IF ~assessment.calculate THEN [status |-> "DisabledByConfig", items |-> <<>>]
    ELSE IF assessment.input = "missing"
    THEN [status |-> "MissingCapacityInput", items |-> <<>>]
    ELSE [status |-> "Calculated",
          items |-> item_loads @@
            [k \in [interval : DOMAIN Intervals, item : assessment.capacity] |-> 0]]

------------------------------------------------------------------------------
(* The results of the pairs                                                *)

NoSummary == [paths |-> 0, candidates |-> 0, admissible |-> 0,
              unassigned_rows |-> 0, unassigned |-> 0]
SplitSummary(p) ==
    LET of(xs) == SelectSeq(xs, LAMBDA x : Pair(x) = p)
        certificates == of(split.certificates)
    IN  [paths |-> Len(Connections(p)),
         candidates |-> Max({0} \cup {c.candidate : c \in Range(certificates)}),
         admissible |-> SumOver(certificates, LAMBDA c : c.admissible),
         unassigned_rows |-> Len(of(split.unassigned)),
         unassigned |-> SumOver(of(split.unassigned), Passengers)]

\* build_assignment_interval
IntervalResult(e) ==
    With(SharesOf(e), LAMBDA shares :
        [interval |-> e.interval, demand |-> e.passengers,
         assigned |-> SumOver(shares, Passengers),
         shares |-> [i \in DOMAIN shares |->
            [connection |-> Min(ConnectionIndex(shares[i])),
             passengers |-> shares[i].passengers,
             probability |-> shares[i].probability]]])

NoResult(p) ==
    [origin |-> p[1], destination |-> p[2], demand |-> 0, assigned |-> 0,
     connections |-> <<>>, intervals |-> <<>>, searched |-> 0, chosen |-> 0,
     summary |-> NoSummary]

\* append_demand_intervals: a row of the demand is an interval of its pair.
WithIntervals(r) ==
    LET rows == SelectSeq(demand, LAMBDA e : Pair(e) = Pair(r))
        results == [i \in DOMAIN rows |-> IntervalResult(rows[i])]
    IN  [r EXCEPT !.intervals = results, !.demand = SumOver(rows, Passengers),
                  !.assigned = SumOver(results, LAMBDA x : x.assigned)]

\* build_assignment_od_result
OdResult(p) ==
    WithIntervals([NoResult(p) EXCEPT
        !.searched = SearchCount(p), !.connections = Connections(p),
        !.chosen = Len(Connections(p)),
        !.summary = IF mode = "OdDay" THEN SplitSummary(p) ELSE NoSummary])

\* summarize_split_totals, over the pairs the choice or the split speaks of
SplitTotal(field) ==
    LET pairs == DOMAIN choice \cup {Pair(x) : x \in Range(split.certificates)
                                                     \cup Range(split.unassigned)}
    IN  IF mode = "OdDay"
        THEN SumOver(SetToSortSeq(pairs, Before), LAMBDA p : SplitSummary(p)[field]) ELSE 0

\* build_output_summary and build_od_day_output_summary
CalculatedSummary(results) ==
    [ods |-> Len(results), shares |-> Len(split.shares),
     searched |-> SumOver(AllOds, SearchCount),
     chosen |-> SumOver(AllOds, LAMBDA p : Len(Connections(p))),
     demand |-> SumOver(demand, Passengers),
     assigned |-> SumOver(split.shares, Passengers),
     paths |-> SplitTotal("paths"),
     candidates |-> SplitTotal("candidates"),
     admissible |-> SplitTotal("admissible"),
     unassigned_rows |-> IF mode = "OdDay" THEN Len(split.unassigned) ELSE 0,
     unassigned |-> IF mode = "OdDay" THEN SumOver(split.unassigned, Passengers) ELSE 0]

\* build_disabled_, _all_zone_search_ and _timed_connection_diagnostics_output_summary
SummaryWithout(results, total) ==
    [ods |-> Len(results), shares |-> 0,
     searched |-> IF mode = "Disabled" THEN 0
                  ELSE SumOver(results, LAMBDA r : r.searched),
     chosen |-> 0, demand |-> total, assigned |-> 0, paths |-> 0,
     candidates |-> 0, admissible |-> 0, unassigned_rows |-> 0, unassigned |-> 0]

------------------------------------------------------------------------------
(* output_validation.cpp                                                   *)

\* validate_od_result_semantics
OdResultValid(r) ==
    /\ r.chosen = Len(r.connections)
    /\ \A x \in Range(r.intervals) :
          /\ \A s \in Range(x.shares) : s.connection \in DOMAIN r.connections
          /\ x.assigned = SumOver(x.shares, Passengers)
    /\ r.demand = SumOver(r.intervals, LAMBDA x : x.demand)
    /\ r.assigned = SumOver(r.intervals, LAMBDA x : x.assigned)

\* validate_skim_matrix_matches_output
SkimMatches(o) ==
    LET rows == FlattenSeq([i \in DOMAIN o.results |->
                    SubSeq([k \in DOMAIN o.results[i].intervals |->
                        [origin |-> o.results[i].origin,
                         destination |-> o.results[i].destination,
                         interval |-> o.results[i].intervals[k].interval,
                         demand |-> o.results[i].intervals[k].demand,
                         assigned |-> o.results[i].intervals[k].assigned]],
                        1, Len(o.results[i].intervals))])
    IN  o.skim.entries # <<>> =>
            /\ Unique(rows) /\ Len(rows) = Len(o.skim.entries)
            /\ \A x \in Range(o.skim.entries) : \E r \in Range(rows) :
                  Key(r) = Key(x) /\ r.demand = x.demand /\ r.assigned = x.assigned

\* validate_calculated_overload_uses_elementary_loads
OverloadUsesLoads(o) ==
    o.overload.status = "Calculated" =>
        \A k \in DOMAIN loads :
            k \in DOMAIN o.overload.items /\ o.overload.items[k] = loads[k]

\* The results of the modes that assign nothing.
NothingAssigned(o) ==
    /\ o.loads = NoLoads /\ o.overload = OverloadSkipped
    /\ o.skim.status # "Calculated"
    /\ o.summary.chosen = 0 /\ o.summary.shares = 0 /\ o.summary.assigned = 0
    /\ mode = "Disabled" => o.summary.searched = 0
    /\ mode # "Disabled" => o.summary.demand = 0
    /\ \A r \in Range(o.results) :
          r.connections = <<>> /\ r.assigned = 0
            /\ (mode # "Disabled" => r.intervals = <<>>)

\* validate_output_summary_semantics
OutputValid(o) ==
    LET sum(Of(_)) == SumOver(o.results, Of)
    IN  /\ mode \notin {"OdDay", "Timed"} => NothingAssigned(o)
        /\ \A r \in Range(o.results) : OdResultValid(r)
        /\ LoadsValid(o.loads)
        /\ OverloadUsesLoads(o)
        /\ SkimMatches(o)
        /\ o.summary.ods = Len(o.results)
        /\ o.summary.searched = sum(LAMBDA r : r.searched)
        /\ o.summary.chosen = sum(LAMBDA r : r.chosen)
        /\ o.summary.shares = sum(LAMBDA r : SumOver(r.intervals, LAMBDA i : Len(i.shares)))
        /\ o.summary.paths = sum(LAMBDA r : r.summary.paths)
        /\ o.summary.candidates = sum(LAMBDA r : r.summary.candidates)
        /\ o.summary.admissible = sum(LAMBDA r : r.summary.admissible)
        /\ o.summary.unassigned_rows = sum(LAMBDA r : r.summary.unassigned_rows)
        /\ o.summary.demand = sum(LAMBDA r : r.demand)
        /\ o.summary.assigned = sum(LAMBDA r : r.assigned)
        /\ o.summary.unassigned = sum(LAMBDA r : r.summary.unassigned)

------------------------------------------------------------------------------
NoOutput == [loads |-> NoLoads, skim |-> SkimMatrix("SkippedAssignmentDisabled"),
             overload |-> OverloadSkipped, results |-> <<>>, summary |-> <<>>]

OutputInit ==
    /\ Init
    /\ mode \in Modes
    /\ skim_config \in SkimConfigs
    /\ assessment \in Assessments
    /\ stage = IF mode \in {"OdDay", "Timed"} THEN "assigning" ELSE "unassigned"
    /\ position = 0
    /\ segment_loads = <<>> /\ stop_loads = <<>>
    /\ output = NoOutput

Advance(to) == stage' = to /\ position' = 0
Settings == <<mode, skim_config, assessment>>
Built == <<segment_loads, stop_loads, output>>

\* The search, choice and split of the day, of which the output sees the end.
AssignDay ==
    /\ stage = "assigning" /\ mode = "OdDay"
    /\ Next
    /\ UNCHANGED output_vars

\* A run by demand tasks up to its output.
AssignTasks ==
    /\ stage = "assigning" /\ mode = "Timed" /\ state = "loading"
    /\ \E shares \in {TimedSplit} :
          IF TimedInputValid /\ TimedOutputValid(shares)
          THEN /\ split' = [Nothing EXCEPT !.shares = shares]
               /\ loads' = LoadsOf(shares) /\ state' = "done"
          ELSE state' = "failed" /\ UNCHANGED <<split, loads>>
    /\ UNCHANGED <<basis, demand, choice, waiting, output_vars>>

\* The beginning of build_od_day_assignment_output_impl, and of
\* build_assignment_output_impl.
CheckSplit ==
    /\ stage = "assigning" /\ state = "done"
    /\ Advance(IF /\ SharesAreLocal
                  /\ mode = "OdDay" => RuntimeContract
                  /\ IsProjection(loads, split.shares)
               THEN "loads" ELSE "failed")
    /\ UNCHANGED <<vars, Settings, Built>>

\* build_assignment_loads, one share at a time
AddShareLoad ==
    /\ stage = "loads"
    /\ position < Len(split.shares)
    /\ \E share \in {split.shares[position + 1]} :
          /\ segment_loads' = WithSegments(segment_loads, share)
          /\ stop_loads' = WithStops(stop_loads, share)
    /\ position' = position + 1
    /\ UNCHANGED <<vars, Settings, stage, output>>

FinishLoads ==
    /\ stage = "loads"
    /\ position = Len(split.shares)
    /\ output' = [output EXCEPT !.loads = Materialized(segment_loads, stop_loads)]
    /\ Advance(IF LoadsAreProjection THEN "skims" ELSE "failed")
    /\ UNCHANGED <<vars, Settings, segment_loads, stop_loads>>

\* build_assignment_skim_matrix; build_demand_lookup refuses two rows for one
\* pair and interval, whatever their passengers.
BuildSkims ==
    /\ stage = "skims"
    /\ IF ~skim_config.enabled
       THEN /\ output' = [output EXCEPT !.skim = SkimMatrix("DisabledByConfig")]
            /\ Advance("overload")
       ELSE \E entries \in {SubSeq([i \in DOMAIN demand |-> SkimEntry(demand[i])],
                                   1, Len(demand))} :
            /\ output' = [output EXCEPT !.skim =
                            [status |-> "Calculated", entries |-> entries]]
            /\ Advance(IF Unique(demand) /\ \A x \in Range(entries) : SkimEntryValid(x)
                       THEN "overload" ELSE "failed")
    /\ UNCHANGED <<vars, Settings, segment_loads, stop_loads>>

AssessOverload ==
    /\ stage = "overload"
    /\ output' = [output EXCEPT !.overload = OverloadOf(loads)]
    /\ Advance("results")
    /\ UNCHANGED <<vars, Settings, segment_loads, stop_loads>>

BuildOdResult ==
    /\ stage = "results"
    /\ position < Len(AllOds)
    /\ output' = [output EXCEPT !.results = Append(@, OdResult(AllOds[position + 1]))]
    /\ position' = position + 1
    /\ UNCHANGED <<vars, Settings, stage, segment_loads, stop_loads>>

\* validate_output_summary_semantics ends every mode.
Finished(o) ==
    /\ output' = o
    /\ Advance(IF OutputValid(o) THEN "built" ELSE "failed")

BuildSummary ==
    /\ stage = "results"
    /\ position = Len(AllOds)
    /\ Finished([output EXCEPT !.summary = CalculatedSummary(output.results)])
    /\ UNCHANGED <<vars, Settings, segment_loads, stop_loads>>

SkimUnassigned ==
    SkimMatrix(IF skim_config.enabled THEN "SkippedAssignmentDisabled"
               ELSE "DisabledByConfig")
Unassigned(results, total) ==
    [NoOutput EXCEPT !.skim = SkimUnassigned, !.results = results,
                     !.summary = SummaryWithout(results, total)]

\* build_assignment_disabled_output_impl: all that is known is the demand.
BuildDisabled ==
    /\ stage = "unassigned" /\ mode = "Disabled"
    /\ LET pairs == SetToSortSeq(Pairs, Before)
       IN  Finished(Unassigned([i \in DOMAIN pairs |-> WithIntervals(NoResult(pairs[i]))],
                               SumOver(demand, Passengers)))
    /\ UNCHANGED <<vars, Settings, segment_loads, stop_loads>>

\* build_timed_connection_diagnostics_output_impl
BuildTimedDiagnostics ==
    /\ stage = "unassigned" /\ mode = "TimedDiagnostics"
    /\ LET pairs == SetToSortSeq({p \in DOMAIN choice : SearchCount(p) > 0}, Before)
       IN  Finished(Unassigned(
                [i \in DOMAIN pairs |->
                    [NoResult(pairs[i]) EXCEPT !.searched = SearchCount(pairs[i])]], 0))
    /\ UNCHANGED <<vars, Settings, segment_loads, stop_loads>>

\* build_all_zone_search_output_impl: a row for each target of each tree.
BuildAllZone ==
    /\ stage = "unassigned" /\ mode = "AllZone"
    /\ Finished(Unassigned(
            [i \in DOMAIN Trees |-> [NoResult(Pair(Trees[i])) EXCEPT
                                        !.searched = Trees[i].connection_count]], 0))
    /\ UNCHANGED <<vars, Settings, segment_loads, stop_loads>>

OutputNext ==
    \/ AssignDay \/ AssignTasks \/ CheckSplit
    \/ AddShareLoad \/ FinishLoads \/ BuildSkims \/ AssessOverload
    \/ BuildOdResult \/ BuildSummary
    \/ BuildDisabled \/ BuildTimedDiagnostics \/ BuildAllZone

OutputSpec == OutputInit /\ [][OutputNext]_all_vars /\ WF_all_vars(OutputNext)

------------------------------------------------------------------------------
Sum(S, Of(_)) == MapThenSumSet(Of, S)

\* At every stop who rides in rides on, or gets off; who leaves was on board,
\* or has got on.  Every passenger of an interval starts once and ends once, and
\* a segment load is on just the items between its stops.
FlowsBalance ==
    \A a \in DOMAIN Intervals :
      \E at \in {{k \in DOMAIN stop_loads : k.interval = a}},
         taken \in {SumOver(split.shares, LAMBDA s :
                        IF s.interval = a THEN s.passengers ELSE 0)} :
        LET flow(k) == stop_loads[k]
        IN  /\ \A k \in at :
                  /\ flow(k).incoming = flow(k).alighting + flow(k).through
                  /\ flow(k).outgoing = flow(k).boarding + flow(k).through
            /\ Sum(at, LAMBDA k : flow(k).boarding - flow(k).transfer_boarding) = taken
            /\ Sum(at, LAMBDA k : flow(k).alighting - flow(k).transfer_alighting) = taken
            /\ \A k \in {x \in DOMAIN loads : x.interval = a} :
                  loads[k] = Sum({s \in DOMAIN segment_loads :
                                    s.interval = a /\ k.item \in Occupied(s)},
                                 LAMBDA s : segment_loads[s])

\* A passenger who rides on in one vehicle has not changed: each share's
\* transfers are the changes of vehicle in its rides.
TransfersAreChanges ==
    Sum(DOMAIN stop_loads, LAMBDA k : stop_loads[k].transfer_boarding)
        = SumOver(split.shares, LAMBDA s : s.passengers *
            Cardinality({i \in 2 .. Len(s.support.legs) :
                s.support.legs[i].trip # s.support.legs[i - 1].trip
                    \/ s.support.legs[i].from # s.support.legs[i - 1].to}))

\* A skim lies between the values of the shares it is of, and with all of them
\* included it is a mean, or a quantile, of their passengers.
SkimsAreBetween ==
    \A x \in Range(output.skim.entries) :
        LET shares == SelectSeq(split.shares, LAMBDA s : Key(s) = Key(x))
        IN  \A name \in Metrics :
                LET values == {Metric(name, s) : s \in Range(shares)}
                IN  IF shares = <<>> \/ x.included = 0 THEN x.metric[name] = 0
                    ELSE Min(values) <= x.metric[name] /\ x.metric[name] <= Max(values)

\* The rows of the demand are reported with what became of them: assigned to a
\* connection of the path they took, or left, and nothing is left out.
RowsAreReported ==
    \A e \in Range(demand) :
      \E r \in {x \in Range(output.results) : Pair(x) = Pair(e)} :
        \E i \in {x \in Range(r.intervals) : x.interval = e.interval} :
          /\ i.demand = e.passengers
          /\ i.assigned \in {0, e.passengers}
          /\ \E shares \in {SharesOf(e)} :
                \A k \in DOMAIN i.shares :
                    Signature(r.connections[i.shares[k].connection])
                        = Signature(shares[k].support)

\* The split of an OD-day run, origin by origin as the sink of the search gets
\* them (load_origin_day_path_demand): it fails for a double row only, its
\* origins add up to the split of the day, and heavier alternatives get more.
DaySplitIsWhole ==
    mode = "OdDay" => FailsOnDuplicatesOnly /\ OriginsAddUp /\ HeavierGetsMore

\* What a run reports agrees with the split and with itself: flows at the
\* stops, loads, skims, pairs and totals; and the checks at the end
\* (validate_output_summary_semantics) never throw a finished run away unless
\* two rows of the demand are for one pair and interval.  Two rows of which
\* one has no passengers come this far.
OutputAddsUp ==
    /\ stage = "failed" => ~Unique(demand)
    /\ stage = "built" /\ mode \in {"OdDay", "Timed"} =>
        /\ FlowsBalance /\ TransfersAreChanges
        /\ SkimsAreBetween /\ RowsAreReported
        /\ mode = "OdDay" =>
             output.summary.assigned + output.summary.unassigned = output.summary.demand
==============================================================================
