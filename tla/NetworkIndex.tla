---------------------------- MODULE NetworkIndex ----------------------------
(***************************************************************************)
(* The sorted indices over route and connection segments                   *)
(* (preprocessing/segments_index), what they are asked for, and the        *)
(* day-level supply graph the OD-day search runs on                        *)
(* (search/od_day/supply_graph).                                           *)
(*                                                                         *)
(* An endpoint is <<kind, id>> with Stop = 0 and Zone = 1; kinds of        *)
(* segments are Line = 0 and Walk = 1, so that comparing tuples is the     *)
(* code's comparison of keys.  A route segment is a record                 *)
(*   [id, kind, from, to, fromPos, toPos, line, route, path, run]          *)
(* (positions, line and route are 0 for a walk, the path empty for a ride) *)
(* and a connection segment                                                *)
(*   [id, route, trip, dep, arr, fare]; trip, dep and arr are None for a   *)
(* walk, a fare may be None for both.  The positions a ride repeats from   *)
(* its route segment are not kept.                                         *)
(***************************************************************************)
EXTENDS Integers, Sequences, SequencesExt, FiniteSets, FiniteSetsExt

Stop == 0
Zone == 1
Line == 0
Walk == 1
None == -1

-----------------------------------------------------------------------------
(* Order. *)

\* a and b are tuples of integers of one length.
KeyLess(a, b) ==
    \E i \in DOMAIN a : a[i] < b[i] /\ \A j \in 1 .. i - 1 : a[j] = b[j]

\* x after all that are not greater.
InsertBy(Key(_), sorted, x) ==
    LET after == Cardinality({i \in DOMAIN sorted : ~ KeyLess(Key(x), Key(sorted[i]))})
    IN  SubSeq(sorted, 1, after) \o <<x>> \o SubSeq(sorted, after + 1, Len(sorted))

SortedBy(Key(_), seq) == FoldLeft(LAMBDA sorted, x : InsertBy(Key, sorted, x), <<>>, seq)

RouteSegmentKey(r) == r.from \o r.to \o <<r.kind, r.line, r.route, r.id>>

OccurrenceFrom(r) == <<r.from[2], r.fromPos>>
OccurrenceTo(r) == <<r.to[2], r.toPos>>

LineRouteKey(r) == OccurrenceFrom(r) \o OccurrenceTo(r) \o <<r.line, r.route, r.id>>

\* A bug: rides of one occurrence in the order of their arrivals.
TimedKey_ByArrival(ref) ==
    OccurrenceFrom(ref.r) \o <<ref.c.arr, ref.c.dep>> \o OccurrenceTo(ref.r)
        \o <<ref.c.trip, ref.r.fromPos, ref.r.toPos, ref.r.id, ref.c.id>>

\* A connection segment c with its route segment r.
TimedKey(ref) ==
    OccurrenceFrom(ref.r) \o <<ref.c.dep, ref.c.arr>> \o OccurrenceTo(ref.r)
        \o <<ref.c.trip, ref.r.fromPos, ref.r.toPos, ref.r.id, ref.c.id>>

WalkKey(ref) == ref.r.from \o ref.r.to \o <<ref.r.id, ref.c.id>>

BoardingKey(ref) ==
    <<ref.r.from[2], ref.c.dep, ref.c.arr>> \o OccurrenceFrom(ref.r) \o <<ref.r.id, ref.c.id>>

-----------------------------------------------------------------------------
(* Buckets. *)

Numbers(n) == [i \in 1 .. n |-> i]

\* build_buckets over a sorted sequence: where each key starts, then the end.
Bucketed(sorted, Key(_), Id(_)) ==
    LET starts == SelectSeq(Numbers(Len(sorted)),
                            LAMBDA i : i = 1 \/ Key(sorted[i]) # Key(sorted[i - 1]))
    IN  [order   |-> [i \in DOMAIN sorted |-> Id(sorted[i])],
         buckets |-> [b \in DOMAIN starts |-> Key(sorted[starts[b]])],
         offsets |-> [b \in DOMAIN starts |-> starts[b] - 1] \o <<Len(sorted)>>]

\* std::lower_bound over the bucket keys, then equality.
FindBucket(index, key) ==
    LET notLess == {b \in DOMAIN index.buckets : ~ KeyLess(index.buckets[b], key)}
    IN  IF notLess # {} /\ index.buckets[Min(notLess)] = key THEN {Min(notLess)} ELSE {}

\* lookup_from: the ids under a key, empty when it has no bucket.
Lookup(index, key) ==
    IF FindBucket(index, key) = {} THEN <<>>
    ELSE LET b == CHOOSE b \in FindBucket(index, key) : TRUE
         IN  SubSeq(index.order, index.offsets[b] + 1, index.offsets[b + 1])

-----------------------------------------------------------------------------
(* The indices of a network whose ids are positions. *)

RefOf(routes, c) == [c |-> c, r |-> routes[c.route]]

IsTimed(c) == c.trip # None

\* make_connection_ref: a known route, of the connection's mode.
RefsDefined(routes, connections) ==
    \A c \in ToSet(connections) :
       c.route \in DOMAIN routes /\ (IsTimed(c) <=> routes[c.route].kind = Line)

SegmentId(r) == r.id
ConnectionId(ref) == ref.c.id
RefFrom(ref) == ref.r.from
RefOccurrence(ref) == OccurrenceFrom(ref.r)
RefStop(ref) == <<ref.r.from[2]>>
SegmentFrom(r) == r.from

\* build_route_segment_index
RouteIndex(routes) ==
    [line |-> Bucketed(SortedBy(LineRouteKey, SelectSeq(routes, LAMBDA r : r.kind = Line)),
                       OccurrenceFrom, SegmentId),
     walk |-> Bucketed(SortedBy(RouteSegmentKey, SelectSeq(routes, LAMBDA r : r.kind = Walk)),
                       SegmentFrom, SegmentId)]

TimedRefs(routes, connections) ==
    LET timed == SelectSeq(connections, IsTimed)
    IN  [i \in DOMAIN timed |-> RefOf(routes, timed[i])]

WalkRefs(routes, connections) ==
    LET walks == SelectSeq(connections, LAMBDA c : ~ IsTimed(c))
    IN  SortedBy(WalkKey, [i \in DOMAIN walks |-> RefOf(routes, walks[i])])

\* The walks of the index that lead from one kind of endpoint to another.
WalkSplit(walks, fromKind, toKind) ==
    Bucketed(SelectSeq(walks, LAMBDA ref : ref.r.from[1] = fromKind /\ ref.r.to[1] = toKind),
             RefFrom, ConnectionId)

\* build_connection_segment_index; times are those of the timed order.
ConnectionIndex(routes, connections) ==
    LET timed    == SortedBy(TimedKey, TimedRefs(routes, connections))
        boarding == SortedBy(BoardingKey, timed)
        walks    == WalkRefs(routes, connections)
    IN  [timed      |-> Bucketed(timed, RefOccurrence, ConnectionId),
         departures |-> [i \in DOMAIN timed |-> timed[i].c.dep],
         boarding   |-> Bucketed(boarding, RefStop, ConnectionId),
         walk       |-> Bucketed(walks, RefFrom, ConnectionId),
         access     |-> WalkSplit(walks, Zone, Stop),
         transfer   |-> WalkSplit(walks, Stop, Stop),
         egress     |-> WalkSplit(walks, Stop, Zone)]

\* next_connection_from: {} when nothing departs any more.
NextConnection(index, occurrence, time) ==
    UNION {LET onTime == {i \in index.timed.offsets[b] + 1 .. index.timed.offsets[b + 1] :
                             index.departures[i] >= time}
           IN  IF onTime = {} THEN {} ELSE {index.timed.order[Min(onTime)]} :
              b \in FindBucket(index.timed, occurrence)}

\* validate_index_offsets
OffsetsValid(index) ==
    /\ Len(index.offsets) = Len(index.buckets) + 1
    /\ Head(index.offsets) = 0 /\ Last(index.offsets) = Len(index.order)

-----------------------------------------------------------------------------
(* The day-level supply graph: one edge for all segments that look the     *)
(* same to a day path, with the connections that support it.               *)

AccessWalk == 0
TransferWalk == 1
EgressWalk == 2
Ride == 3

\* production_day_path_leg: kind, endpoints, and line and route of a ride.
Leg(kind, r) == <<kind>> \o r.from \o r.to \o <<r.line, r.route>>
LegFrom(leg) == SubSeq(leg, 2, 3)
LegTo(leg) == SubSeq(leg, 4, 5)

\* The legs of the connections in the order of (from, leg).
Legs(routes, connections, kind, order) ==
    SortedBy(LAMBDA leg : LegFrom(leg) \o leg,
             SetToSeq({Leg(kind, routes[connections[c].route]) : c \in ToSet(order)}))

Support(routes, connections, leg, order) ==
    SelectSeq(order, LAMBDA c : Leg(leg[1], routes[connections[c].route]) = leg)

RunTime(routes, connections, c) == routes[connections[c].route].run

\* A walk edge takes its first walk's time for its smallest, a ride edge the smallest.
SupplyEdge(routes, connections, leg, support) ==
    [leg            |-> leg,
     support        |-> support,
     representative |-> Head(support),
     minRun         |-> IF leg[1] = Ride
                        THEN Min({RunTime(routes, connections, c) : c \in ToSet(support)})
                        ELSE RunTime(routes, connections, Head(support)),
     representativeRun  |-> RunTime(routes, connections, Head(support)),
     representativeFare |-> Max({connections[Head(support)].fare, 0})]

EdgesOf(routes, connections, kind, order) ==
    LET legs == Legs(routes, connections, kind, order)
    IN  [e \in DOMAIN legs |->
           SupplyEdge(routes, connections, legs[e], Support(routes, connections, legs[e], order))]

\* ensure_day_level_node: nodes are endpoints, in the order they are met.
WithNode(nodes, endpoint) == IF endpoint \in ToSet(nodes) THEN nodes ELSE Append(nodes, endpoint)

SupplyGraph(routes, connections, index) ==
    LET edges == EdgesOf(routes, connections, AccessWalk, index.access.order)
                   \o EdgesOf(routes, connections, TransferWalk, index.transfer.order)
                   \o EdgesOf(routes, connections, EgressWalk, index.egress.order)
                   \o EdgesOf(routes, connections, Ride, index.boarding.order)
        nodes == FoldLeft(LAMBDA met, e : WithNode(WithNode(met, LegFrom(e.leg)), LegTo(e.leg)),
                          <<>>, edges)
    IN  [nodes    |-> nodes,
         edges    |-> edges,
         outgoing |-> [n \in DOMAIN nodes |->
                         SelectSeq(Numbers(Len(edges)),
                                   LAMBDA e : LegFrom(edges[e].leg) = nodes[n])]]

\* validate_production_day_level_supply_graph
SupplyGraphValid(graph, routes, connections) ==
    \A e \in ToSet(graph.edges) :
       /\ e.support # <<>>
       /\ \A c \in ToSet(e.support) : Leg(e.leg[1], routes[connections[c].route]) = e.leg

\* runtime supports by endpoint, as the search asks for them
SupportsFrom(graph, kind, endpoint) ==
    SelectSeq(graph.edges, LAMBDA e : e.leg[1] = kind /\ LegFrom(e.leg) = endpoint)
=============================================================================
