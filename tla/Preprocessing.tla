--------------------------- MODULE Preprocessing ---------------------------
(***************************************************************************)
(* From the supply of an input to the network the searches run on: ride    *)
(* segments route by route, walk segments endpoint by endpoint, connection *)
(* segments route segment by route segment, canonical ids, indices, the    *)
(* checks of the step, and the day-level supply graph.  An input brings    *)
(* either raw supply (lines, routes, trips, walk links) or segments that   *)
(* somebody else has built.                                                *)
(*                                                                         *)
(* Positions count from 1.  Lengths of ride segments are left out: nothing *)
(* of the search reads them.  Boost's Dijkstra is any tree of shortest     *)
(* paths: which of several equally light ones is not the code's choice.    *)
(* Means are truncated.                                                    *)
(***************************************************************************)
EXTENDS NetworkIndex, TLC

CONSTANTS
    Inputs,         \* what a run may be given
    Day             \* 24 hours

VARIABLES
    input, phase,
    left,           \* what the phase has not worked through: routes, endpoints, segments
    rides, walks,   \* route segments as they are built
    links,          \* the walk graph: endpoints and the best link between two of them
    routes, connections,    \* the segments of the network
    index,          \* [route, connection], or <<>>
    graph,          \* the day-level supply graph, or <<>>
    fareScale,
    outcome

vars == <<input, phase, left, rides, walks, links, routes, connections,
          index, graph, fareScale, outcome>>

params == input.params

\* By ascending id, or as the file has them.
InOrder(seq) == IF params.stable THEN SortedBy(LAMBDA x : <<x.id>>, seq) ELSE seq

-----------------------------------------------------------------------------
(* Ride segments (preprocessing/route_segments.cpp). *)

TripsOf(route) == InOrder(SelectSeq(input.trips, LAMBDA t : t.route = route.id))

\* The trip serves the k-th and the k'-th stop of the route at these places.
Serves(trip, route, k, l) ==
    /\ l <= Len(trip.times)
    /\ trip.times[k].stop = route.stops[k] /\ trip.times[l].stop = route.stops[l]

Duration(trip, k, l) == trip.times[l].arr - trip.times[k].dep

Edges(route) == 1 .. Len(route.stops) - 1

\* consecutive_stop_duration, of every trip that has both stops.
Durations(route, k) ==
    LET serving == SelectSeq(TripsOf(route), LAMBDA t : Serves(t, route, k, k + 1))
    IN  [i \in DOMAIN serving |-> Duration(serving[i], k, k + 1)]

Sum(seq) == FoldLeft(+, 0, seq)

\* statistics.hpp, of a sequence that is not empty.
Statistic(kind, values) ==
    LET sorted == SortedBy(LAMBDA v : <<v>>, values)
        count  == Len(values)
    IN  CASE kind = "mean"    -> Sum(values) \div count
          [] kind = "median"  -> IF count % 2 = 1 THEN sorted[count \div 2 + 1]
                                 ELSE (sorted[count \div 2] + sorted[count \div 2 + 1]) \div 2
          [] kind = "minimum" -> sorted[1]
          [] kind = "p95"     -> sorted[(95 * (count - 1)) \div 100 + 1]

DurationsValid(route) ==
    \A k \in Edges(route) : \A i \in DOMAIN Durations(route, k) : Durations(route, k)[i] >= 0

Unserved(route) == \E k \in Edges(route) : Durations(route, k) = <<>>

\* build_cumulative_metrics
RunTimeUpTo(route, j) == Sum([k \in 1 .. j - 1 |-> Statistic(params.aggregation, Durations(route, k))])

RideSegment(route, i, j, id) ==
    [id |-> id, kind |-> Line, from |-> <<Stop, route.stops[i]>>, to |-> <<Stop, route.stops[j]>>,
     fromPos |-> i, toPos |-> j, line |-> route.line, route |-> route.id, path |-> <<>>,
     run |-> RunTimeUpTo(route, j) - RunTimeUpTo(route, i)]

\* Every i < j, in lexicographic order.
OccurrencePairs(route) ==
    SortedBy(LAMBDA p : p, SetToSeq({p \in (DOMAIN route.stops) \X (DOMAIN route.stops) : p[1] < p[2]}))

\* build_ordered_occurrence_line_route_segments; ids go on counting from nextId.
RideSegments(route, nextId) ==
    LET pairs == OccurrencePairs(route)
    IN  [p \in DOMAIN pairs |-> RideSegment(route, pairs[p][1], pairs[p][2], nextId + p - 1)]

-----------------------------------------------------------------------------
(* Walk segments. *)

Weight(link) ==
    CASE params.walkCost = "time"     -> link.time
      [] params.walkCost = "length"   -> link.length
      [] params.walkCost = "weighted" -> params.timeWeight * link.time + params.lengthWeight * link.length

LinkById(id) == CHOOSE l \in ToSet(input.links) : l.id = id

\* The first of the lightest links from u to v.
BestLink(u, v) ==
    LET between == SelectSeq(InOrder(input.links), LAMBDA l : l.from = u /\ l.to = v)
        lightest == {i \in DOMAIN between : \A j \in DOMAIN between :
                                               Weight(between[i]) <= Weight(between[j])}
    IN  between[Min(lightest)]

\* Endpoints in the order they are met, sorted when ordering is stable.
Endpoints ==
    LET met == FoldLeft(LAMBDA seen, l : WithNode(WithNode(seen, l.from), l.to), <<>>, InOrder(input.links))
    IN  IF params.stable THEN SortedBy(LAMBDA e : e, met) ELSE met

\* build_walk_graph_data
WalkGraph ==
    [endpoints |-> Endpoints,
     best |-> [pair \in {<<l.from, l.to>> : l \in ToSet(input.links)} |-> BestLink(pair[1], pair[2])]]

Unreached == 10000

\* Distances from s, by relaxing every edge once for each endpoint.
Distances(s) ==
    LET relaxed(dist) ==
            [v \in DOMAIN dist |->
               Min({dist[v]} \cup {dist[pair[1]] + Weight(links.best[pair]) :
                                     pair \in {p \in DOMAIN links.best :
                                                 p[2] = v /\ dist[p[1]] < Unreached}})]
    IN  FoldLeft(LAMBDA dist, e : relaxed(dist),
                 [v \in ToSet(links.endpoints) |-> IF v = s THEN 0 ELSE Unreached],
                 links.endpoints)

\* recover_path: up the parents, at most as many steps as there are endpoints.
PathTo(parent, s, t) ==
    FoldLeft(LAMBDA path, e :
                LET first == IF path = <<>> THEN t ELSE Head(path).from
                IN  IF first = s THEN path ELSE <<links.best[<<parent[first], first>>]>> \o path,
             <<>>, links.endpoints)

\* Parents on shortest paths that lead back to s.
ShortestTrees(s, dist) ==
    LET reached == {v \in DOMAIN dist : dist[v] < Unreached} \ {s}
        before(v) == {u \in DOMAIN dist : /\ <<u, v>> \in DOMAIN links.best
                                          /\ dist[u] + Weight(links.best[<<u, v>>]) = dist[v]}
        trees == {parent \in [reached -> UNION {before(v) : v \in reached}] :
                    \A v \in reached : parent[v] \in before(v)}
    IN  {parent \in trees : \A v \in reached : Head(PathTo(parent, s, v)).from = s}

Ids(path) == [i \in DOMAIN path |-> path[i].id]

WalkSegment(s, t, path, id) ==
    [id |-> id, kind |-> Walk, from |-> s, to |-> t, fromPos |-> 0, toPos |-> 0,
     line |-> 0, route |-> 0, path |-> Ids(path), run |-> Sum([i \in DOMAIN path |-> path[i].time])]

\* One segment for every endpoint reached, in the order of the endpoints.
WalkSegmentsFrom(s, parent, nextId) ==
    LET targets == SelectSeq(links.endpoints, LAMBDA t : t \in DOMAIN parent)
    IN  [i \in DOMAIN targets |->
           WalkSegment(s, targets[i], PathTo(parent, s, targets[i]), nextId + i - 1)]

-----------------------------------------------------------------------------
(* Connection segments (preprocessing/connection_segments.cpp). *)

RoutesById(id) == SelectSeq(input.routes, LAMBDA r : r.id = id)

\* A trip of no route is an error, or nobody's.
TripsAreKnown == \A t \in ToSet(input.trips) : RoutesById(t.route) # <<>>

LineIdsUnique == \A i, j \in DOMAIN input.lines : input.lines[i].id = input.lines[j].id => i = j

TripsOfLine(line) ==
    InOrder(SelectSeq(input.trips, LAMBDA t : /\ RoutesById(t.route) # <<>>
                                                /\ Head(RoutesById(t.route)).line = line))

FareDefined(line) == \E l \in ToSet(input.lines) : l.id = line /\ l.fare >= 0

Fare(line) == (CHOOSE l \in ToSet(input.lines) : l.id = line).fare

\* extract_trip_times: an arrival before the departure is the next day's, if the policy says so.
Arrival(trip, r) ==
    LET arr == trip.times[r.toPos].arr
    IN  IF arr < trip.times[r.fromPos].dep THEN arr + Day ELSE arr

TripFits(trip, r) ==
    /\ r.toPos <= Len(trip.times)
    /\ trip.times[r.fromPos].stop = r.from[2] /\ trip.times[r.toPos].stop = r.to[2]
    /\ trip.times[r.toPos].arr < trip.times[r.fromPos].dep => params.overnight /\ params.addDay

\* make_connection_segment refuses times before the day begins.
Instantiable(trip, r) == trip.times[r.fromPos].dep >= 0

Timed(trip, r, id) ==
    [id |-> id, route |-> r.id, trip |-> trip.id, dep |-> trip.times[r.fromPos].dep,
     arr |-> Arrival(trip, r), fare |-> Fare(r.line)]

Walked(r, id) == [id |-> id, route |-> r.id, trip |-> None, dep |-> None, arr |-> None, fare |-> None]

TripsFor(r) == SelectSeq(TripsOfLine(r.line), LAMBDA t : t.route = r.route)

FittingTrips(r) == SelectSeq(TripsFor(r), LAMBDA t : TripFits(t, r))

\* Strict: every trip of the route has to fit.
InstantiationDefined(r) ==
    r.kind = Line =>
       IF TripsOfLine(r.line) = <<>> THEN ~ params.strictTrips
       ELSE /\ FareDefined(r.line)
            /\ params.strictTrips => \A t \in ToSet(TripsFor(r)) : TripFits(t, r)
            /\ \A t \in ToSet(FittingTrips(r)) : Instantiable(t, r)

Instantiated(r, nextId) ==
    IF r.kind = Walk THEN <<Walked(r, nextId)>>
    ELSE [i \in DOMAIN FittingTrips(r) |-> Timed(FittingTrips(r)[i], r, nextId + i - 1)]

-----------------------------------------------------------------------------
(* Canonical ids and validation (search/preprocessed_network.cpp). *)

NoDuplicates(Key(_), seq) == \A i, j \in DOMAIN seq : Key(seq[i]) = Key(seq[j]) => i = j

TopologyKey(r) == <<r.kind, r.from, r.to, r.fromPos, r.toPos, r.line, r.route, r.path>>

\* validate_route_segments
RouteSegmentsValid(segments, allowEmpty) ==
    (segments # <<>> \/ allowEmpty) /\ NoDuplicates(TopologyKey, segments)

\* validate_unique_route_segment_ids
RouteIdsUnique(segments) == NoDuplicates(SegmentId, segments)

CanonicalRoutes(segments) == [i \in DOMAIN segments |-> [segments[i] EXCEPT !.id = i]]

PositionOf(segments, id) == CHOOSE i \in DOMAIN segments : segments[i].id = id

CanonicalConnections(segments, cs) ==
    [i \in DOMAIN cs |-> [cs[i] EXCEPT !.id = i, !.route = PositionOf(segments, cs[i].route)]]

\* make_connection_segment's checks, which validate_connection_segments repeats.
TimesConsistent(c) == c.dep # None => c.dep >= 0 /\ c.arr >= c.dep

ModeConsistent(c, r) ==
    /\ r.kind = Line <=> c.trip # None
    /\ r.kind = Line <=> c.dep # None

SegmentConsistent(c, r) == TimesConsistent(c) /\ ModeConsistent(c, r)

ConnectionKey(c) == <<c.route, c.trip, c.dep, c.arr, c.fare>>

ConnectionSegmentsValid(cs, segments, allowEmpty) ==
    /\ cs # <<>> \/ allowEmpty
    /\ \A c \in ToSet(cs) : SegmentConsistent(c, segments[c.route])
    /\ NoDuplicates(ConnectionKey, cs)

\* finalize_preprocessed_network up to the indices
Finalizable(segments, cs, allowEmpty) ==
    /\ RouteSegmentsValid(segments, allowEmpty)
    /\ RouteIdsUnique(segments)
    /\ \A c \in ToSet(cs) : \E r \in ToSet(segments) : r.id = c.route
    /\ ConnectionSegmentsValid(CanonicalConnections(segments, cs), CanonicalRoutes(segments), allowEmpty)
    /\ RefsDefined(CanonicalRoutes(segments), CanonicalConnections(segments, cs))

PositiveFares == SelectSeq([i \in DOMAIN connections |-> connections[i].fare], LAMBDA f : f > 0)

\* compute_fare_scale: 1 unless there is a positive one.
FareScaleOf(normalization) ==
    CASE normalization.kind = "none"  -> 1
      [] normalization.kind = "fixed" -> IF normalization.scale > 0 THEN normalization.scale ELSE 1
      [] OTHER ->
           IF PositiveFares = <<>> THEN 1 ELSE Max({1, Statistic(normalization.kind, PositiveFares)})

\* validate_preprocessing_step_output
NetworkUsable ==
    /\ routes # <<>> /\ connections # <<>>
    /\ \A name \in {"line", "walk"} : OffsetsValid(index.route[name])
    /\ \A name \in {"timed", "boarding", "walk", "access", "transfer", "egress"} :
          OffsetsValid(index.connection[name])
    /\ Len(index.route.line.order) + Len(index.route.walk.order) = Len(routes)
    /\ Len(index.connection.timed.order) + Len(index.connection.walk.order) = Len(connections)
    /\ Len(index.connection.boarding.order) = Len(index.connection.timed.order)
    /\ Len(index.connection.access.order) + Len(index.connection.transfer.order)
          + Len(index.connection.egress.order) <= Len(index.connection.walk.order)
    /\ \E key \in ToSet(index.connection.walk.buckets) : key[1] = Zone

-----------------------------------------------------------------------------
Init ==
    /\ input \in Inputs
    /\ phase = "input" /\ left = <<>>
    /\ rides = <<>> /\ walks = <<>> /\ links = <<>>
    /\ routes = <<>> /\ connections = <<>>
    /\ index = <<>> /\ graph = <<>> /\ fareScale = 0
    /\ outcome = "none"

Fail ==
    /\ phase' = "done" /\ outcome' = "failed"
    /\ UNCHANGED <<input, left, rides, walks, links, routes, connections, index, graph, fareScale>>

\* validate_preprocessing_step_input: nothing to run on.
RefuseInput ==
    /\ phase = "input" /\ ~ input.presegmented
    /\ input.routes = <<>> /\ input.trips = <<>> /\ input.links = <<>>
    /\ Fail

TakeSegments ==
    /\ phase = "input" /\ input.presegmented
    /\ phase' = "segments"
    /\ routes' = input.segments /\ connections' = input.connections
    /\ UNCHANGED <<input, left, rides, walks, links, index, graph, fareScale, outcome>>

TakeRaw ==
    /\ phase = "input" /\ ~ input.presegmented
    /\ input.routes # <<>> \/ input.trips # <<>> \/ input.links # <<>>
    /\ phase' = "rides" /\ left' = InOrder(input.routes)
    /\ UNCHANGED <<input, rides, walks, links, routes, connections, index, graph, fareScale, outcome>>

\* One route: an error, nothing, or all its segments.
BuildRides ==
    /\ phase = "rides" /\ left # <<>>
    /\ \E route \in {Head(left)} :
          IF \/ Len(route.stops) < 2
             \/ TripsOf(route) # <<>> /\ DurationsValid(route) /\ Unserved(route) /\ ~ params.strictTimes
          THEN /\ left' = Tail(left)
               /\ UNCHANGED <<input, phase, rides, walks, links, routes, connections, index, graph,
                              fareScale, outcome>>
          ELSE IF TripsOf(route) = <<>> \/ ~ DurationsValid(route) \/ Unserved(route)
          THEN Fail
          ELSE /\ left' = Tail(left)
               /\ rides' = rides \o RideSegments(route, Len(rides))
               /\ UNCHANGED <<input, phase, walks, links, routes, connections, index, graph,
                              fareScale, outcome>>

\* build_walk_graph_data
BuildWalkGraph ==
    /\ phase = "rides" /\ left = <<>>
    /\ IF \E l \in ToSet(input.links) : Weight(l) < 0
       THEN Fail
       ELSE /\ phase' = "walks" /\ links' = WalkGraph /\ left' = WalkGraph.endpoints
            /\ UNCHANGED <<input, rides, walks, routes, connections, index, graph, fareScale, outcome>>

\* Dijkstra from one endpoint, and a segment for each endpoint it reaches.
BuildWalks ==
    /\ phase = "walks" /\ left # <<>>
    /\ \E dist \in {Distances(Head(left))} :
          \E parent \in ShortestTrees(Head(left), dist) :
             walks' = walks \o WalkSegmentsFrom(Head(left), parent, Len(walks))
    /\ left' = Tail(left)
    /\ UNCHANGED <<input, phase, rides, links, routes, connections, index, graph, fareScale, outcome>>

\* Rides and walks together, sorted; then the trips are grouped by line.
SortSegments ==
    /\ phase = "walks" /\ left = <<>>
    /\ \E all \in {IF params.stable THEN SortedBy(RouteSegmentKey, rides \o walks) ELSE rides \o walks} :
          IF \/ ~ RouteSegmentsValid(all, TRUE)
             \/ params.strictTrips /\ ~ TripsAreKnown
             \/ ~ LineIdsUnique
          THEN Fail
          ELSE /\ phase' = "connections" /\ routes' = all /\ left' = all
               /\ UNCHANGED <<input, rides, walks, links, connections, index, graph, fareScale, outcome>>

\* append_route_connection_segments
Instantiate ==
    /\ phase = "connections" /\ left # <<>>
    /\ IF ~ InstantiationDefined(Head(left))
       THEN Fail
       ELSE /\ connections' = connections \o Instantiated(Head(left), Len(connections))
            /\ left' = Tail(left)
            /\ UNCHANGED <<input, phase, rides, walks, links, routes, index, graph, fareScale, outcome>>

SegmentsBuilt ==
    /\ phase = "connections" /\ left = <<>>
    /\ phase' = "segments"
    /\ UNCHANGED <<input, left, rides, walks, links, routes, connections, index, graph, fareScale, outcome>>

\* finalize_preprocessed_network; only segments that were built may be none.
Finalize ==
    /\ phase = "segments"
    /\ IF ~ Finalizable(routes, connections, ~ input.presegmented)
       THEN Fail
       ELSE /\ phase' = "network"
            /\ routes' = CanonicalRoutes(routes)
            /\ connections' = CanonicalConnections(routes, connections)
            /\ index' = [route      |-> RouteIndex(routes'),
                         connection |-> ConnectionIndex(routes', connections')]
            /\ UNCHANGED <<input, left, rides, walks, links, graph, fareScale, outcome>>

\* The fare scale, the checks of the step, and the graph the OD-day search builds.
UseNetwork ==
    /\ phase = "network"
    /\ IF ~ NetworkUsable
       THEN Fail
       ELSE \E built \in {SupplyGraph(routes, connections, index.connection)} :
               /\ graph' = built
               /\ outcome' = IF SupplyGraphValid(built, routes, connections) THEN "built" ELSE "failed"
               /\ fareScale' = FareScaleOf(input.normalization)
               /\ phase' = "done"
               /\ UNCHANGED <<input, left, rides, walks, links, routes, connections, index>>

Next ==
    \/ RefuseInput \/ TakeSegments \/ TakeRaw \/ BuildRides \/ BuildWalkGraph \/ BuildWalks
    \/ SortSegments \/ Instantiate \/ SegmentsBuilt \/ Finalize \/ UseNetwork

Spec == Init /\ [][Next]_vars

-----------------------------------------------------------------------------
(* What the network promises. *)

BuiltFromRaw == ~ input.presegmented /\ phase \in {"segments", "network", "done"}

\* What a ride is, whatever its ids.
RideOf(r, c) == [route |-> r.route, at |-> r.fromPos, to |-> r.toPos, trip |-> c.trip,
                 dep |-> c.dep, arr |-> c.arr, fare |-> c.fare]

\* The rides of the timetable: any two calls of a trip that are the route's, in time.
Offered ==
    UNION {{[route |-> route.id, at |-> i, to |-> j, trip |-> t.id, dep |-> t.times[i].dep,
             arr |-> t.times[j].arr + (IF t.times[j].arr < t.times[i].dep THEN Day ELSE 0),
             fare |-> Fare(route.line)] :
               <<t, i, j>> \in {x \in ToSet(TripsOf(route)) \X (DOMAIN route.stops) \X (DOMAIN route.stops) :
                                  /\ x[2] < x[3] /\ Serves(x[1], route, x[2], x[3])
                                  /\ \/ x[1].times[x[3]].arr >= x[1].times[x[2]].dep
                                     \/ params.overnight /\ params.addDay}} :
              route \in {r \in ToSet(input.routes) : Len(r.stops) > 1 /\ ~ Unserved(r)}}

\* The order of connections is one of their contents, not of the files.
ContentKey(c) ==
    IF IsTimed(c) THEN LET r == rides[c.route + 1]
                       IN  r.from \o r.to \o <<Line, r.line, r.route, r.fromPos, r.toPos, c.trip>>
    ELSE LET r == walks[c.route + 1] IN r.from \o r.to \o <<Walk, 0, 0, 0, 0, 0>>

RidesAreOffered ==
    BuiltFromRaw /\ phase = "segments" =>
       \E timed \in {SelectSeq(connections, IsTimed)} :
          /\ {RideOf(rides[c.route + 1], c) : c \in ToSet(timed)} = Offered
          /\ Len(timed) = Cardinality(Offered)
          /\ Len(connections) = Len(timed) + Len(walks)
          /\ params.stable => \A i \in 2 .. Len(connections) :
                                 KeyLess(ContentKey(connections[i - 1]), ContentKey(connections[i]))

PathWeight(path) == Sum([i \in DOMAIN path |-> Weight(LinkById(path[i]))])

IsChain(w) ==
    /\ LinkById(Head(w.path)).from = w.from /\ LinkById(Last(w.path)).to = w.to
    /\ \A i \in 2 .. Len(w.path) : LinkById(w.path[i - 1]).to = LinkById(w.path[i]).from

\* No link shortens a walk, or leads on to where no walk does.
WalksAreShortest ==
    BuiltFromRaw /\ phase = "segments" =>
       /\ \A w \in ToSet(walks) : IsChain(w)
       /\ NoDuplicates(LAMBDA w : <<w.from, w.to>>, walks)
       /\ \A s \in ToSet(links.endpoints) : \A l \in ToSet(input.links) :
             \A before \in {0 : x \in {s} \cap {l.from}}
                             \cup {PathWeight(w.path) : w \in {w \in ToSet(walks) : w.from = s /\ w.to = l.from}} :
                \/ l.to = s
                \/ \E w \in ToSet(walks) :
                      w.from = s /\ w.to = l.to /\ PathWeight(w.path) <= before + Weight(l)

Indexed == index # <<>>

RouteOf(c) == routes[connections[c].route]

Ascending(Key(_), seq) == \A i \in 2 .. Len(seq) : ~ KeyLess(Key(seq[i]), Key(seq[i - 1]))

DepartureKey(c) == <<connections[c].dep>>

\* An index holds under each key what starts there, rides by their departure.
Holds(bucketed, members, Key(_)) ==
    /\ \A i \in members : i \in ToSet(Lookup(bucketed, Key(i)))
    /\ \A key \in ToSet(bucketed.buckets) : \A i \in ToSet(Lookup(bucketed, key)) :
          i \in members /\ Key(i) = key
    /\ Len(bucketed.order) = Cardinality(members)

TimedIds == {c \in DOMAIN connections : IsTimed(connections[c])}

WalkIds(fromKinds, toKinds) ==
    {c \in DOMAIN connections \ TimedIds : RouteOf(c).from[1] \in fromKinds /\ RouteOf(c).to[1] \in toKinds}

IndexAnswers ==
    Indexed =>
       /\ Holds(index.route.line, {i \in DOMAIN routes : routes[i].kind = Line}, LAMBDA i : OccurrenceFrom(routes[i]))
       /\ Holds(index.route.walk, {i \in DOMAIN routes : routes[i].kind = Walk}, LAMBDA i : routes[i].from)
       /\ Holds(index.connection.timed, TimedIds, LAMBDA c : OccurrenceFrom(RouteOf(c)))
       /\ Holds(index.connection.boarding, TimedIds, LAMBDA c : <<RouteOf(c).from[2]>>)
       /\ Holds(index.connection.walk, WalkIds({Stop, Zone}, {Stop, Zone}), LAMBDA c : RouteOf(c).from)
       /\ Holds(index.connection.access, WalkIds({Zone}, {Stop}), LAMBDA c : RouteOf(c).from)
       /\ Holds(index.connection.transfer, WalkIds({Stop}, {Stop}), LAMBDA c : RouteOf(c).from)
       /\ Holds(index.connection.egress, WalkIds({Stop}, {Zone}), LAMBDA c : RouteOf(c).from)
       /\ \A stop \in ToSet(index.connection.boarding.buckets) :
             Ascending(DepartureKey, Lookup(index.connection.boarding, stop))

\* The next ride from a call at a time is the earliest there is.
NextIsEarliest ==
    Indexed =>
       \A occurrence \in {OccurrenceFrom(RouteOf(c)) : c \in TimedIds} :
          \E there \in {{c \in TimedIds : OccurrenceFrom(RouteOf(c)) = occurrence}} :
             \A time \in UNION {{connections[c].dep, connections[c].dep + 1} : c \in TimedIds} :
                \E later \in {{c \in there : connections[c].dep >= time}} :
                   /\ later = {} <=> NextConnection(index.connection, occurrence, time) = {}
                   /\ \A next \in NextConnection(index.connection, occurrence, time) :
                         /\ next \in later
                         /\ \A c \in later : connections[next].dep <= connections[c].dep

\* Every ride, and every walk between the right kinds, supports one edge of the graph.
SupplyIsNetwork ==
    graph # <<>> =>
       /\ \A c \in TimedIds :
             \E e \in ToSet(SupportsFrom(graph, Ride, RouteOf(c).from)) : c \in ToSet(e.support)
       /\ \A c \in TimedIds \cup WalkIds({Zone}, {Stop}) \cup WalkIds({Stop}, {Stop}) \cup WalkIds({Stop}, {Zone}) :
             Cardinality({e \in DOMAIN graph.edges : c \in ToSet(graph.edges[e].support)}) = 1
       /\ \A e \in ToSet(graph.edges) :
             e.leg[1] = Ride => /\ Ascending(DepartureKey, e.support)
                                /\ \A c \in ToSet(e.support) : e.minRun <= RouteOf(c).run
       /\ \A n \in DOMAIN graph.nodes : \A e \in DOMAIN graph.edges :
             e \in ToSet(graph.outgoing[n]) <=> LegFrom(graph.edges[e].leg) = graph.nodes[n]

\* Supply without a fault in it.
CleanRaw ==
    /\ ~ input.presegmented
    /\ LineIdsUnique /\ TripsAreKnown
    /\ NoDuplicates(SegmentId, input.routes)
    /\ \E l \in ToSet(input.links) : l.from[1] = Zone
    /\ \A l \in ToSet(input.links) : Weight(l) >= 0 /\ l.from # l.to
    /\ \A r \in ToSet(input.routes) :
          /\ Len(r.stops) > 1 /\ TripsOf(r) # <<>> /\ FareDefined(r.line)
          /\ \A t \in ToSet(TripsOf(r)) :
                /\ [k \in DOMAIN t.times |-> t.times[k].stop] = r.stops
                /\ \A k \in DOMAIN t.times : 0 <= t.times[k].arr /\ t.times[k].arr <= t.times[k].dep
                /\ \A k \in Edges(r) : t.times[k].dep <= t.times[k + 1].arr

\* route_segments.cpp, connection_segments.cpp, segments_index.cpp and
\* supply_graph.cpp: the segments are the rides of the timetable and the
\* shortest walks of the links, whatever the order of the files; every lookup
\* of an index finds exactly what starts there, the next ride being the
\* earliest; every connection supports one edge of the day-level graph; and a
\* raw supply without fault fails only if it has rides.
NetworkIsTimetable ==
    /\ RidesAreOffered /\ WalksAreShortest
    /\ IndexAnswers /\ NextIsEarliest /\ SupplyIsNetwork
    /\ CleanRaw /\ outcome = "failed" => rides # <<>>

\* preprocessed_network.hpp:33 promises a network for the input model: a raw
\* supply without fault, zones and their walks included, gets one.
CleanSupplyIsBuilt == CleanRaw => outcome # "failed"
=============================================================================
