---------------------------- MODULE PassengerLoads ----------------------------
(***************************************************************************)
(* The loads a run reports (assignment/output_loads.cpp): the passengers   *)
(* of every ride segment, their sums over lines, routes and trips, and     *)
(* what happens to them at the stops.                                      *)
(*                                                                         *)
(* A share is a record [interval, passengers, support], its support has    *)
(* the ride legs, [trip, from, to] with positions of the trip's stops.     *)
(***************************************************************************)
EXTENDS Integers, Sequences, SequencesExt, FiniteSetsExt, Functions, TLC

CONSTANTS
    StopAt,     \* trip -> position -> stop
    RouteOf,    \* trip -> route
    LineOf      \* route -> line

\* segment_load_key
SegmentKey(a, leg) ==
    [interval |-> a, line |-> LineOf[RouteOf[leg.trip]], route |-> RouteOf[leg.trip],
     trip |-> leg.trip, from |-> leg.from, to |-> leg.to]

Bumped(f, k, n) == IF k \in DOMAIN f THEN [f EXCEPT ![k] = @ + n] ELSE f @@ (k :> n)

\* accumulate_share_load: every ride leg of the support the share took.
WithSegments(loads, share) ==
    IF share.passengers > 0
    THEN FoldLeft(LAMBDA f, leg :
                    Bumped(f, SegmentKey(share.interval, leg), share.passengers),
                  loads, share.support.legs)
    ELSE loads

\* A bug: riding on counts as a transfer.
SameTripContinuation_Never(leg, next) == FALSE

\* same_trip_continuation: the passenger stays seated between two ride legs.
SameTripContinuation(leg, next) == leg.trip = next.trip /\ leg.to = next.from

NoFlow == [boarding |-> 0, alighting |-> 0, transfer_boarding |-> 0,
           transfer_alighting |-> 0, incoming |-> 0, outgoing |-> 0, through |-> 0]

Plus(v, w) == [part \in DOMAIN v |-> v[part] + w[part]]
WithFlow(flows, k, v) ==
    IF k \in DOMAIN flows THEN [flows EXCEPT ![k] = Plus(@, v)]
    ELSE flows @@ (k :> Plus(NoFlow, v))

\* What leg i of legs does with n passengers where it starts, and where it ends.
FlowFrom(legs, i, n) ==
    LET first == i = 1
        seated == ~first /\ SameTripContinuation(legs[i - 1], legs[i])
    IN  [NoFlow EXCEPT !.outgoing = n,
                       !.through = IF seated THEN n ELSE 0,
                       !.boarding = IF seated THEN 0 ELSE n,
                       !.transfer_boarding = IF seated \/ first THEN 0 ELSE n]
FlowTo(legs, i, n) ==
    LET last == i = Len(legs)
        seated == ~last /\ SameTripContinuation(legs[i], legs[i + 1])
    IN  [NoFlow EXCEPT !.incoming = n,
                       !.alighting = IF seated THEN 0 ELSE n,
                       !.transfer_alighting = IF seated \/ last THEN 0 ELSE n]

\* accumulate_share_stop_load
WithStops(flows, share) ==
    LET legs == share.support.legs
        n    == share.passengers
        At(i, position) == [interval |-> share.interval,
                            stop |-> StopAt[legs[i].trip][position]]
    IN  IF n > 0
        THEN FoldLeft(LAMBDA f, i :
                WithFlow(WithFlow(f, At(i, legs[i].from), FlowFrom(legs, i, n)),
                         At(i, legs[i].to), FlowTo(legs, i, n)),
                flows, [i \in DOMAIN legs |-> i])
        ELSE flows

------------------------------------------------------------------------------
(* materialize_loads                                                       *)

\* The segment loads summed over those that Of maps to one key.
SummedBy(segments, Of(_)) ==
    [k \in {Of(s) : s \in DOMAIN segments} |->
        LET of == {s \in DOMAIN segments : Of(s) = k}
        IN  [passengers |-> MapThenSumSet(LAMBDA s : segments[s], of),
             count |-> Cardinality(of)]]

LineKey(s)  == [interval |-> s.interval, line |-> s.line]
RouteKey(s) == [interval |-> s.interval, line |-> s.line, route |-> s.route]
TripKey(s)  == [interval |-> s.interval, line |-> s.line, route |-> s.route,
                trip |-> s.trip]
RouteTotalKey(s) == [line |-> s.line, route |-> s.route]

\* The flows of all intervals at one stop, and what passes it in all.
StopTotals(flows) ==
    [stop \in {k.stop : k \in DOMAIN flows} |->
        LET At(part) == MapThenSumSet(LAMBDA k : flows[k][part],
                                      {k \in DOMAIN flows : k.stop = stop})
        IN  [boarding |-> At("boarding"), alighting |-> At("alighting"),
             incoming |-> At("incoming"), outgoing |-> At("outgoing"),
             through |-> At("through"),
             total |-> At("boarding") + At("alighting") + At("through")]]

Materialized(segments, flows) ==
    [segments |-> segments, lines |-> SummedBy(segments, LineKey),
     routes |-> SummedBy(segments, RouteKey),
     route_totals |-> SummedBy(segments, RouteTotalKey),
     trips |-> SummedBy(segments, TripKey),
     stops |-> flows, stop_totals |-> StopTotals(flows)]

NoLoads == Materialized(<<>>, <<>>)

\* validate_loads_semantics: the sums once more, from the segments alone.
LoadsValid(loads) ==
    LET ends(s) == {[interval |-> s.interval, stop |-> StopAt[s.trip][s.from]],
                    [interval |-> s.interval, stop |-> StopAt[s.trip][s.to]]}
        Starting(k) == {s \in DOMAIN loads.segments :
            [interval |-> s.interval, stop |-> StopAt[s.trip][s.from]] = k}
        Ending(k) == {s \in DOMAIN loads.segments :
            [interval |-> s.interval, stop |-> StopAt[s.trip][s.to]] = k}
        Sum(segments) == MapThenSumSet(LAMBDA s : loads.segments[s], segments)
    IN  /\ loads.lines = SummedBy(loads.segments, LineKey)
        /\ loads.routes = SummedBy(loads.segments, RouteKey)
        /\ loads.trips = SummedBy(loads.segments, TripKey)
        /\ DOMAIN loads.stops = UNION {ends(s) : s \in DOMAIN loads.segments}
        /\ \A k \in DOMAIN loads.stops :
              /\ loads.stops[k].outgoing = Sum(Starting(k))
              /\ loads.stops[k].incoming = Sum(Ending(k))
              /\ loads.stops[k].transfer_boarding <= loads.stops[k].boarding
              /\ loads.stops[k].transfer_alighting <= loads.stops[k].alighting
==============================================================================
