---------------------------- MODULE InputNetwork ----------------------------
(***************************************************************************)
(* From the files of a directory to the network the searches run on: what  *)
(* the pair source loads (InputReading) is what the run preprocesses       *)
(* (Preprocessing), its segments having been built row by row by the       *)
(* source.  A caller of the library may also come with an input of its     *)
(* own, raw or in segments (detail/pipeline_search.cpp).                   *)
(***************************************************************************)
EXTENDS InputReading

CONSTANTS
    Inputs,         \* what a caller of the library may come with
    Hours           \* 24 hours

VARIABLES
    supply, step, left, rides, walks, links, segments, connections,
    index, graph, fareScale, outcome    \* of the preprocessing

network_vars == <<supply, step, left, rides, walks, links, segments, connections,
                  index, graph, fareScale, outcome>>
all_vars == <<vars, network_vars>>

Net == INSTANCE Preprocessing WITH
          Day <- Hours, input <- supply, phase <- step, routes <- segments

-----------------------------------------------------------------------------
IsRide(s) == s.line # Missing
PlaceKey(x) == <<IF x[1] = "zone" THEN Net!Zone ELSE Net!Stop, x[2]>>

\* A bug: next_walk_id does not count.
SegmentLoaded_OneWalk(k) ==
    LET s == built.segments[k]
    IN  [id      |-> k - 1,
         kind    |-> IF IsRide(s) THEN Net!Line ELSE Net!Walk,
         from    |-> PlaceKey(s.from),
         to      |-> PlaceKey(s.to),
         fromPos |-> IF IsRide(s) THEN s.from[3] ELSE 0,
         toPos   |-> IF IsRide(s) THEN s.to[3] ELSE 0,
         line    |-> IF IsRide(s) THEN s.line ELSE 0,
         route   |-> IF IsRide(s) THEN s.route ELSE 0,
         path    |-> IF IsRide(s) THEN <<>> ELSE <<0>>,
         run     |-> s.time]

\* The k-th segment of the rows; next_walk_id counts the walks.
SegmentLoaded(k) ==
    LET s == built.segments[k]
        walked == Cardinality({j \in 1..k : ~IsRide(built.segments[j])})
    IN  [id      |-> k - 1,
         kind    |-> IF IsRide(s) THEN Net!Line ELSE Net!Walk,
         from    |-> PlaceKey(s.from),
         to      |-> PlaceKey(s.to),
         fromPos |-> IF IsRide(s) THEN s.from[3] ELSE 0,
         toPos   |-> IF IsRide(s) THEN s.to[3] ELSE 0,
         line    |-> IF IsRide(s) THEN s.line ELSE 0,
         route   |-> IF IsRide(s) THEN s.route ELSE 0,
         path    |-> IF IsRide(s) THEN <<>> ELSE <<walked - 1>>,
         run     |-> s.time]

ConnectionLoaded(i) ==
    LET c == built.connections[i]
    IN  [id |-> i - 1, route |-> c.segment - 1, trip |-> c.trip,
         dep |-> c.dep, arr |-> c.arr, fare |-> c.fare]

\* make_assignment_input: segments instead of raw supply; params.txt says
\* nothing of the fare normalization, nor of how raw supply is to be taken.
AssignmentInput ==
    [presegmented  |-> TRUE,
     lines |-> <<>>, routes |-> <<>>, trips |-> <<>>, links |-> <<>>, params |-> <<>>,
     segments      |-> [k \in DOMAIN built.segments |-> SegmentLoaded(k)],
     connections   |-> [i \in DOMAIN built.connections |-> ConnectionLoaded(i)],
     normalization |-> [kind |-> "median", scale |-> 1]]

\* run_validated_preprocessing_step, on what a pair source has loaded.
Preprocess ==
    /\ Loaded /\ SourceOf(case) = "pair" /\ step = "waiting"
    /\ supply' = AssignmentInput
    /\ step' = "input"
    /\ UNCHANGED <<vars, left, rides, walks, links, segments, connections,
                   index, graph, fareScale, outcome>>

-----------------------------------------------------------------------------
NetworkInit ==
    /\ left = <<>> /\ rides = <<>> /\ walks = <<>> /\ links = <<>>
    /\ segments = <<>> /\ connections = <<>>
    /\ index = <<>> /\ graph = <<>> /\ fareScale = 0 /\ outcome = "none"

\* The application's run reads files; a caller of the library reads none.
ApplicationInit == Init /\ NetworkInit /\ supply = <<>> /\ step = "waiting"
LibraryInit     == Init /\ NetworkInit /\ supply \in Inputs /\ step = "input"

InputNext ==
    \/ step = "waiting" /\ Next /\ UNCHANGED network_vars
    \/ Preprocess
    \/ step # "waiting" /\ Net!Next /\ UNCHANGED vars

InputSpec == (ApplicationInit \/ LibraryInit) /\ [][InputNext]_all_vars

-----------------------------------------------------------------------------
\* Connection c of the network is what the row says.
Tells(c, row) ==
    LET s == segments[connections[c].route]
    IN  /\ connections[c].trip = row.trip /\ connections[c].fare = row.fare
        /\ connections[c].dep = row.dep /\ connections[c].arr = row.arr
        /\ s.from = PlaceKey(From(row)) /\ s.to = PlaceKey(To(row)) /\ s.run = row.time
        /\ (s.kind = Net!Line) = (row.line # Missing)

FoundAt(bucketed, key, row) == \E c \in Net!ToSet(Net!Lookup(bucketed, key)) : Tells(c, row)

\* A search finds every row where it looks: a ride among the boardings at its
\* stop, a walk at its end, and the next ride of a trip at the call the last
\* one came to.
RowsAreFound ==
    /\ Len(connections) = Cardinality(KeptRows)
    /\ \A i \in KeptRows :
          LET row == columns.rows[i]
          IN  IF row.line # Missing
              THEN FoundAt(index.connection.boarding, <<row.fromStop>>, row)
              ELSE FoundAt(index.connection.walk, PlaceKey(From(row)), row)
    /\ \A i, j \in KeptRows :
          LET came == columns.rows[i]  goes == columns.rows[j]
          IN  /\ came.line # Missing /\ came.trip = goes.trip
              /\ came.toIndex # Missing /\ came.toIndex = goes.fromIndex
              => FoundAt(index.connection.timed, <<came.toStop, came.toIndex>>, goes)

\* Two rows that are one ride.
RideTwice ==
    \E i, j \in KeptRows : i < j /\ columns.rows[i].line # Missing
                                  /\ columns.rows[i] = columns.rows[j]

\* What loads is searchable: a network is built of a loaded input, with every
\* row that is not overnight to be found in it, unless no row is left, no walk
\* leaves a zone, or a ride is there twice (load_pair_assignment_input,
\* build_preprocessed_network_from_segments, validate_preprocessing_step_output).
NetworkTellsTheFiles ==
    Loaded /\ step = "done" =>
       IF \/ KeptRows = {} \/ RideTwice
          \/ ~\E i \in KeptRows : columns.rows[i].line = Missing
                                  /\ columns.rows[i].fromZone # Missing
       THEN outcome = "failed"
       ELSE outcome = "built" /\ RowsAreFound

\* The network of any input is its timetable (Preprocessing).
NetworkIsTimetable == step # "waiting" => Net!NetworkIsTimetable
=============================================================================
