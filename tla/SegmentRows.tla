---------------------------- MODULE SegmentRows ----------------------------
(***************************************************************************)
(* What the rows of a connection segments file mean                        *)
(* (infra/segments_csv.cpp, infra/txt_single_file_segments.cpp,            *)
(* infra/presegmented_input_*.cpp).                                        *)
(*                                                                         *)
(* A row is a ride of a trip from stop to stop, or a walk between stops    *)
(* and zones; -1 is written for what a row does not have.  Times and       *)
(* lengths are integers.  A file is unreadable when a column is missing, a *)
(* row has too many or too few cells, or a cell is not a number.           *)
(***************************************************************************)
EXTENDS Integers, FiniteSets, Sequences

Missing == -1

RowType == [fromZone : Int, fromStop : Int, toZone : Int, toStop : Int, line : Int,
            trip : Int, route : Int, fromIndex : Int, toIndex : Int,
            dep : Int, arr : Int, time : Int, length : Int, fare : Int]

\* The first line has neither a comma nor a space: read as a CSV of one column.
Readable(file) == file.readable /\ file.separator \in {"comma", "space"}

ZonesNamed(rows) ==
    {z \in UNION {{rows[i].fromZone, rows[i].toZone} : i \in DOMAIN rows} : z >= 0}

\* is_overnight_timed_row: over before it began.
Overnight(row) == row.line # Missing /\ row.dep >= 0 /\ row.arr >= 0 /\ row.arr < row.dep

\* parse_connection_segments_csv; the zones are those the rows name.
CsvColumns(file) ==
    [rows |-> file.rows, given |-> file.routes, zones |-> ZonesNamed(file.rows),
     fit |-> TRUE]

\* parse_segments_file: one line per column, no trips, positions or routes, and
\* the zones on a line of their own.  build_declared_zone_set refuses a zone that
\* is there twice or negative.
TxtReadable(file) == file.readable /\ file.lines = 11
TxtZonesFit(file) ==
    /\ \A i \in DOMAIN file.zones : file.zones[i] >= 0
    /\ Cardinality({file.zones[i] : i \in DOMAIN file.zones}) = Len(file.zones)
TxtColumns(file) ==
    [rows  |-> [i \in DOMAIN file.rows |->
                  [file.rows[i] EXCEPT !.trip = Missing, !.route = Missing,
                                       !.fromIndex = Missing, !.toIndex = Missing]],
     given |-> FALSE,
     zones |-> {file.zones[i] : i \in DOMAIN file.zones},
     fit   |-> TxtZonesFit(file)]

-----------------------------------------------------------------------------
(* infer_presegmented_route_ids: trips of a line that call at the same     *)
(* stops in the same positions ride one route.                             *)

Rides(rows) == {i \in DOMAIN rows : rows[i].line # Missing}
Indexed(row) == row.fromIndex # Missing /\ row.toIndex # Missing

TripsOf(rows) == {rows[i].trip : i \in Rides(rows)}
RowsOfTrip(rows, trip) == {i \in Rides(rows) : rows[i].trip = trip}

Calls(rows, trip) ==
    UNION {{<<rows[i].fromIndex, rows[i].fromStop>>, <<rows[i].toIndex, rows[i].toStop>>} :
              i \in {j \in RowsOfTrip(rows, trip) : Indexed(rows[j])}}

Inferable(rows) ==
    \A i \in Rides(rows) :
       /\ rows[i].trip # Missing
       /\ \A j \in RowsOfTrip(rows, rows[i].trip) : rows[j].line = rows[i].line
       /\ \A c, d \in Calls(rows, rows[i].trip) : c[1] = d[1] => c = d

\* Mutant: overnight rows are dropped before routes are inferred.
Signature_OfKept(rows, trip) ==
    LET kept == {i \in RowsOfTrip(rows, trip) : ~Overnight(rows[i])}
    IN  [line  |-> rows[CHOOSE i \in RowsOfTrip(rows, trip) : TRUE].line,
         calls |-> {<<rows[i].fromIndex, rows[i].fromStop>> : i \in kept}
                   \cup {<<rows[i].toIndex, rows[i].toStop>> : i \in kept},
         alone |-> IF \A i \in kept : Indexed(rows[i]) THEN Missing ELSE trip]

\* A trip with a row without positions rides a route of its own.
Signature(rows, trip) ==
    [line  |-> rows[CHOOSE i \in RowsOfTrip(rows, trip) : TRUE].line,
     calls |-> Calls(rows, trip),
     alone |-> IF /\ \A i \in RowsOfTrip(rows, trip) : Indexed(rows[i])
                  /\ Cardinality(Calls(rows, trip)) >= 2
               THEN Missing ELSE trip]

\* Routes are numbered from 0 in the order of their first trips.
Inferred(rows) ==
    [i \in DOMAIN rows |->
       IF i \notin Rides(rows) THEN Missing
       ELSE LET first == CHOOSE t \in TripsOf(rows) :
                           /\ Signature(rows, t) = Signature(rows, rows[i].trip)
                           /\ \A u \in TripsOf(rows) :
                                 Signature(rows, u) = Signature(rows, rows[i].trip) => t <= u
            IN  Cardinality({Signature(rows, t) : t \in {u \in TripsOf(rows) : u < first}})]

-----------------------------------------------------------------------------
(* process_segment_row. *)

FromPosition(row) == IF row.fromIndex # Missing THEN row.fromIndex ELSE 0
ToPosition(row)   == IF row.toIndex # Missing THEN row.toIndex ELSE 1

\* parse_endpoint: a stop (of a ride: where it is on the route) or a zone.
From(row) ==
    IF row.fromZone # Missing THEN <<"zone", row.fromZone>>
    ELSE IF row.line = Missing THEN <<"stop", row.fromStop>>
    ELSE <<"stop", row.fromStop, FromPosition(row)>>
To(row) ==
    IF row.toZone # Missing THEN <<"zone", row.toZone>>
    ELSE IF row.line = Missing THEN <<"stop", row.toStop>>
    ELSE <<"stop", row.toStop, ToPosition(row)>>

Endpoint(zone, stop) == (zone = Missing) # (stop = Missing) /\ zone >= Missing /\ stop >= Missing

RideFits(row, route) ==
    /\ row.trip # Missing /\ route # Missing /\ row.dep >= 0
    /\ (row.fromIndex = Missing) = (row.toIndex = Missing)
    /\ row.fromIndex # Missing => row.toIndex > row.fromIndex
    /\ row.fromStop # Missing /\ row.toStop # Missing
    /\ row.time = row.arr - row.dep

WalkFits(row, route) ==
    /\ From(row) # To(row)
    /\ row.dep = Missing /\ row.trip = Missing /\ route = Missing
    /\ row.fromIndex = Missing /\ row.toIndex = Missing

\* interpret_segment_row, and the checks of the two factories behind it.
RowFits(row, route) ==
    /\ \A x \in {row.line, row.trip, route, row.fromIndex, row.toIndex, row.dep, row.arr,
                 row.fare} : x >= Missing
    /\ Endpoint(row.fromZone, row.fromStop) /\ Endpoint(row.toZone, row.toStop)
    /\ (row.dep = Missing) = (row.arr = Missing)
    /\ IF row.line # Missing THEN RideFits(row, route) ELSE WalkFits(row, route)
    /\ row.time >= 0 /\ row.length >= 0

\* collect_model_entities
StopsOf(row) == {x \in {row.fromStop, row.toStop} : x # Missing}
ZonesOf(row) == {x \in {row.fromZone, row.toZone} : x # Missing}

SegmentOf(row, route) ==
    [from |-> From(row), to |-> To(row), line |-> row.line, route |-> route,
     time |-> row.time, length |-> row.length]

\* Mutant: the key of a ride does not hold its route.
SameRide_OfAnyRoute(s, t) ==
    s.line # Missing /\ s.from = t.from /\ s.to = t.to /\ s.line = t.line

\* A LineRouteKey; walks have none.
SameRide(s, t) ==
    s.line # Missing /\ s.from = t.from /\ s.to = t.to /\ s.line = t.line /\ s.route = t.route

\* make_connection_segment
ConnectionOf(row, segment) ==
    [segment |-> segment, trip |-> row.trip, fromIndex |-> row.fromIndex, toIndex |-> row.toIndex,
     dep |-> row.dep, arr |-> row.arr, fare |-> row.fare]

\* build_route_segment_for_row: the segment of a ride that is there already is
\* used again, and must be as long and take as long.
SegmentFits(segments, new) ==
    \A k \in DOMAIN segments :
       SameRide(segments[k], new) => segments[k].time = new.time /\ segments[k].length = new.length

Built(built, row, route) ==
    LET new   == SegmentOf(row, route)
        known == {k \in DOMAIN built.segments : SameRide(built.segments[k], new)}
        at    == IF known = {} THEN Len(built.segments) + 1 ELSE CHOOSE k \in known : TRUE
    IN  [segments    |-> IF known = {} THEN Append(built.segments, new) ELSE built.segments,
         connections |-> Append(built.connections, ConnectionOf(row, at)),
         stops       |-> built.stops \cup StopsOf(row),
         zones       |-> built.zones \cup ZonesOf(row),
         lines       |-> IF row.line # Missing THEN built.lines \cup {row.line} ELSE built.lines,
         dropped     |-> built.dropped]

NothingBuilt == [segments |-> <<>>, connections |-> <<>>, stops |-> {}, zones |-> {},
                 lines |-> {}, dropped |-> 0]
=============================================================================
