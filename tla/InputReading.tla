---------------------------- MODULE InputReading ----------------------------
(***************************************************************************)
(* From the files of a directory to the input of a run                     *)
(* (infra/data_sources.cpp, infra/pair_file_data_source.cpp,               *)
(* infra/single_file_data_source.cpp, infra/file_data_source.cpp and what  *)
(* they call).                                                             *)
(*                                                                         *)
(* A source finds out where its files are when it is made, and reads them  *)
(* when it is asked to load, one after another; in between, files may come *)
(* and go.  The first thing that is wrong ends the load.                   *)
(***************************************************************************)
EXTENDS SegmentRows, RuntimeParams

CONSTANTS
    Cases,          \* names of directories to read, and of each:
    SourceOf(_),    \*   "pair", "single" or "dir"
    FilesOf(_),     \*   path -> what is in the file, a record with a field "folder"
    LateOf(_),      \*   the paths that are not there at first
    MaxChanges      \* bound: files that come or go

\* What the readers leave of the files they can read.
RowsRead(file) == ~file.folder /\ Readable(file) =>
    file.rows \in Seq(RowType) /\ file.routes \in BOOLEAN
TxtRead(file) == ~file.folder /\ TxtReadable(file) => file.rows \in Seq(RowType)
MatrixRead(file) == ~file.folder /\ file.readable =>
    /\ file.destinations \in Seq(Int)
    /\ file.rows \in Seq([origin : Int, cells : Seq(Int)])
ParamsRead(file) == ~file.folder /\ file.readable =>
    \A x \in Numbers : IsNumber(file.root, x) => ValueAt(file.root, x) \in Int

ASSUME FilesAssumption == \A c \in Cases :
    /\ SourceOf(c) \in {"pair", "single", "dir"}
    /\ \A path \in DOMAIN FilesOf(c) :
          /\ path \in {<<"segments">>, <<"7064", "segments">>} => RowsRead(FilesOf(c)[path])
          /\ path = <<"file">>   => TxtRead(FilesOf(c)[path])
          /\ path = <<"matrix">> => MatrixRead(FilesOf(c)[path])
          /\ path = <<"params">> => ParamsRead(FilesOf(c)[path])

VARIABLES
    case, contents, \* the directory, and path -> what is in the file
    files,          \* the paths there are
    changes,
    paths,          \* what the source found: use -> path or None
    phase,          \* "new", "segments", "routes", "rows", "capacity", "demand",
                    \*   "settings", "loaded" or "failed"
    columns,        \* the rows of the segments, whether they name routes, the zones
    routes,         \* the route of each row
    next, built,    \* the next row, and what those before it gave
    input           \* the capacities, intervals, demand and settings

vars == <<case, contents, files, changes, paths, phase, columns, routes, next, built, input>>

None == <<>>
NoPaths == [segments |-> None]
Data(path)    == contents[path]
There(path)   == path \in files
Regular(path) == There(path) /\ ~Data(path).folder

-----------------------------------------------------------------------------
(* Making a source. *)

\* resolve_pair_support_file: in the directory itself, or among generated demand.
Support(name) ==
    LET generated == <<"generated_demand_informative_300", name>>
    IN  IF There(<<name>>) THEN <<name>> ELSE generated

Segments == IF There(<<"7064", "segments">>) THEN <<"7064", "segments">> ELSE <<"segments">>
Optional(path) == IF Regular(path) THEN path ELSE None

\* resolve_pair_demand_paths: a daily matrix is preferred to intervals and demand.
DemandFound ==
    IF There(<<"matrix">>) THEN Regular(<<"matrix">>)
    ELSE Regular(Support("intervals")) /\ Regular(Support("demand"))

PairFound == Regular(Segments) /\ DemandFound
PairPaths ==
    [segments  |-> Segments,
     intervals |-> IF There(<<"matrix">>) THEN None ELSE Support("intervals"),
     demand    |-> IF There(<<"matrix">>) THEN <<"matrix">> ELSE Support("demand"),
     params    |-> Optional(<<"params">>),
     capacity  |-> Optional(<<"capacity">>)]

\* ensure_required_input_files_present and ensure_params_file_present
DirFiles == {"stops", "trips", "stop_times", "walk_links", "od", "params.json"}

Found ==
    CASE SourceOf(case) = "pair"   -> PairFound
      [] SourceOf(case) = "single" -> Regular(<<"file">>)
      [] SourceOf(case) = "dir"    -> \A name \in DirFiles : There(<<name>>)

\* make_data_source
Open ==
    /\ phase = "new"
    /\ paths' = IF ~Found \/ SourceOf(case) = "dir" THEN NoPaths
                ELSE IF SourceOf(case) = "pair" THEN PairPaths
                ELSE [segments |-> <<"file">>]
    /\ phase' = IF Found THEN "segments" ELSE "failed"
    /\ UNCHANGED <<case, contents, files, changes, columns, routes, next, built, input>>

-----------------------------------------------------------------------------
(* The segments. *)

\* parse_connection_segments_csv or parse_segments_file, then
\* validate_segment_columns.  A directory source never loads.
SegmentsReadable ==
    /\ paths.segments # None /\ There(paths.segments)
    /\ IF SourceOf(case) = "pair" THEN Readable(Data(paths.segments))
       ELSE TxtReadable(Data(paths.segments))
    /\ Data(paths.segments).rows # <<>>

ReadSegments ==
    /\ phase = "segments"
    /\ IF SegmentsReadable
       THEN /\ columns' = IF SourceOf(case) = "pair" THEN CsvColumns(Data(paths.segments))
                          ELSE TxtColumns(Data(paths.segments))
            /\ phase' = "routes"
       ELSE phase' = "failed" /\ UNCHANGED columns
    /\ UNCHANGED <<case, contents, files, changes, paths, routes, next, built, input>>

\* infer_presegmented_route_ids of all rows, unless the file names the routes;
\* then build_declared_zone_set.
FindRoutes ==
    /\ phase = "routes"
    /\ routes' = IF columns.given THEN [i \in DOMAIN columns.rows |-> columns.rows[i].route]
                 ELSE IF Inferable(columns.rows) THEN Inferred(columns.rows) ELSE routes
    /\ phase' = IF /\ columns.given \/ Inferable(columns.rows)
                   /\ columns.fit
                THEN "rows" ELSE "failed"
    /\ UNCHANGED <<case, contents, files, changes, paths, columns, next, built, input>>

Row   == columns.rows[next]
Route == routes[next]

DropRow ==
    /\ phase = "rows" /\ next <= Len(columns.rows)
    /\ Overnight(Row)
    /\ built' = [built EXCEPT !.dropped = @ + 1]
    /\ next' = next + 1
    /\ UNCHANGED <<case, contents, files, changes, paths, phase, columns, routes, input>>

TakeRow ==
    /\ phase = "rows" /\ next <= Len(columns.rows)
    /\ ~Overnight(Row)
    /\ IF RowFits(Row, Route) /\ SegmentFits(built.segments, SegmentOf(Row, Route))
       THEN built' = Built(built, Row, Route) /\ next' = next + 1 /\ UNCHANGED phase
       ELSE phase' = "failed" /\ UNCHANGED <<built, next>>
    /\ UNCHANGED <<case, contents, files, changes, paths, columns, routes, input>>

\* validate_extra_zones and build_input_model; a single file has nothing more.
FinishSegments ==
    /\ phase = "rows" /\ next > Len(columns.rows)
    /\ phase' = IF ~(built.zones \subseteq columns.zones) THEN "failed"
                ELSE IF SourceOf(case) = "single" THEN "loaded" ELSE "capacity"
    /\ UNCHANGED <<case, contents, files, changes, paths, columns, routes, next, built, input>>

-----------------------------------------------------------------------------
(* The capacities and the demand. *)

\* parse_vehicle_journey_item_capacity_csv
CapacitiesFit(rows) ==
    /\ \A i \in DOMAIN rows :
          /\ rows[i].trip >= 0 /\ rows[i].index >= 0
          /\ 0 <= rows[i].seats /\ rows[i].seats <= rows[i].total
    /\ \A i, j \in DOMAIN rows :
          rows[i].trip = rows[j].trip /\ rows[i].index = rows[j].index => i = j

ReadCapacity ==
    /\ phase = "capacity"
    /\ IF paths.capacity = None THEN phase' = "demand" /\ UNCHANGED input
       ELSE IF /\ There(paths.capacity) /\ Data(paths.capacity).readable
               /\ CapacitiesFit(Data(paths.capacity).rows)
       THEN /\ phase' = "demand"
            /\ input' = [input EXCEPT !.capacity = [loaded |-> TRUE,
                                                    rows   |-> Data(paths.capacity).rows]]
       ELSE phase' = "failed" /\ UNCHANGED input
    /\ UNCHANGED <<case, contents, files, changes, paths, columns, routes, next, built>>

\* parse_time_intervals_csv and parse_od_demand_csv
IntervalsFit(intervals) ==
    /\ intervals # <<>>
    /\ \A i \in DOMAIN intervals : 0 <= intervals[i].start /\ intervals[i].start < intervals[i].end
DemandFits(demand, intervals) ==
    /\ demand # <<>>
    /\ \A i \in DOMAIN demand :
          /\ \E j \in DOMAIN intervals : intervals[j].id = demand[i].interval
          /\ demand[i].passengers >= 0

\* parse_daily_od_matrix_xlsx: rows that are not empty give the origin and one
\* cell for each destination, and maybe more.
MatrixFits(matrix) ==
    /\ matrix.destinations # <<>>
    /\ \A i \in DOMAIN matrix.destinations : matrix.destinations[i] > 0
    /\ \A i \in DOMAIN matrix.rows :
          /\ Len(matrix.rows[i].cells) >= Len(matrix.destinations)
          /\ \A k \in DOMAIN matrix.destinations : matrix.rows[i].cells[k] >= 0
    /\ [i \in DOMAIN matrix.rows |-> matrix.rows[i].origin] = matrix.destinations
    /\ \E i \in DOMAIN matrix.rows, k \in DOMAIN matrix.destinations : matrix.rows[i].cells[k] > 0

\* The cells with passengers, in their order: a zero is no demand.
Positive(cells) ==
    LET some   == {c \in DOMAIN cells : cells[c].passengers > 0}
        nth(k) == CHOOSE c \in some : Cardinality({b \in some : b <= c}) = k
    IN  [k \in 1..Cardinality(some) |-> cells[nth(k)]]

\* Mutant: columns are origins.
MatrixDemand_Transposed(matrix) ==
    LET n == Len(matrix.destinations)
    IN  Positive([c \in 1..(n * n) |->
            [origin      |-> matrix.destinations[((c - 1) % n) + 1],
             destination |-> matrix.rows[((c - 1) \div n) + 1].origin,
             interval    |-> 1,
             passengers  |-> matrix.rows[((c - 1) \div n) + 1].cells[((c - 1) % n) + 1]]])

\* Row by row.
MatrixDemand(matrix) ==
    LET n == Len(matrix.destinations)
    IN  Positive([c \in 1..(n * n) |->
            [origin      |-> matrix.rows[((c - 1) \div n) + 1].origin,
             destination |-> matrix.destinations[((c - 1) % n) + 1],
             interval    |-> 1,
             passengers  |-> matrix.rows[((c - 1) \div n) + 1].cells[((c - 1) % n) + 1]]])

Day == <<[id |-> 1, start |-> 6 * 3600, end |-> 23 * 3600]>>

TakeDemand(intervals, demand) ==
    /\ input' = [input EXCEPT !.intervals = intervals, !.demand = demand]
    /\ phase' = "settings"
Refuse == phase' = "failed" /\ UNCHANGED input

\* load_pair_demand_input: what the file that was found holds.
ReadMatrix ==
    /\ phase = "demand" /\ paths.intervals = None
    /\ IF /\ There(paths.demand) /\ Data(paths.demand).readable
          /\ MatrixFits(Data(paths.demand))
       THEN TakeDemand(Day, MatrixDemand(Data(paths.demand)))
       ELSE Refuse
    /\ UNCHANGED <<case, contents, files, changes, paths, columns, routes, next, built>>

ReadDemand ==
    /\ phase = "demand" /\ paths.intervals # None
    /\ IF /\ \A path \in {paths.intervals, paths.demand} : There(path) /\ Data(path).readable
          /\ IntervalsFit(Data(paths.intervals).rows)
          /\ DemandFits(Data(paths.demand).rows, Data(paths.intervals).rows)
       THEN TakeDemand(Data(paths.intervals).rows, Data(paths.demand).rows)
       ELSE Refuse
    /\ UNCHANGED <<case, contents, files, changes, paths, columns, routes, next, built>>

-----------------------------------------------------------------------------
(* apply_pair_runtime_configuration *)

Configure ==
    /\ phase = "settings"
    /\ IF paths.params = None
       THEN input' = [input EXCEPT !.settings = <<BuiltIn>>] /\ phase' = "loaded"
       ELSE IF /\ There(paths.params) /\ Data(paths.params).readable
               /\ Acceptable(Data(paths.params).root)
       THEN /\ input' = [input EXCEPT !.settings = <<Mapped(Data(paths.params).root)>>]
            /\ phase' = "loaded"
       ELSE Refuse
    /\ UNCHANGED <<case, contents, files, changes, paths, columns, routes, next, built>>

-----------------------------------------------------------------------------
(* Others write to the directory at any time. *)

Change(path) ==
    /\ phase \notin {"loaded", "failed"} /\ changes < MaxChanges
    /\ files' = IF There(path) THEN files \ {path} ELSE files \cup {path}
    /\ changes' = changes + 1
    /\ UNCHANGED <<case, contents, paths, phase, columns, routes, next, built, input>>

Init ==
    /\ case \in Cases
    /\ contents = FilesOf(case) /\ files = DOMAIN contents \ LateOf(case)
    /\ changes = 0 /\ paths = NoPaths /\ phase = "new"
    /\ columns = [rows |-> <<>>, given |-> FALSE, zones |-> {}, fit |-> TRUE]
    /\ routes = <<>> /\ next = 1 /\ built = NothingBuilt
    /\ input = [capacity  |-> [loaded |-> FALSE, rows |-> <<>>],
                intervals |-> <<>>, demand |-> <<>>, settings |-> <<>>]

Next ==
    \/ Open
    \/ ReadSegments \/ FindRoutes \/ DropRow \/ TakeRow \/ FinishSegments
    \/ ReadCapacity \/ ReadMatrix \/ ReadDemand \/ Configure
    \/ \E path \in DOMAIN contents : Change(path)

Spec == Init /\ [][Next]_vars

-----------------------------------------------------------------------------
Loaded == phase = "loaded"

\* Kept rows, and where the connection of each is.
KeptRows == {i \in DOMAIN columns.rows : ~Overnight(columns.rows[i])}
PlaceOf(i) == Cardinality({j \in KeptRows : j <= i})

ConnectionsTold ==
    /\ Len(built.connections) = Cardinality(KeptRows)
    /\ \A i \in KeptRows :
          LET row  == columns.rows[i]
              c    == built.connections[PlaceOf(i)]
              s    == built.segments[c.segment]
          IN  /\ c.dep = row.dep /\ c.arr = row.arr /\ c.trip = row.trip /\ c.fare = row.fare
              /\ s.from = From(row) /\ s.to = To(row) /\ s.line = row.line
              /\ s.time = row.time /\ s.length = row.length
              /\ row.line # Missing => s.time = c.arr - c.dep
              /\ columns.given => s.route = row.route
    /\ \A k, n \in DOMAIN built.segments :
          SameRide(built.segments[k], built.segments[n]) => k = n
    /\ \A k \in DOMAIN built.segments :
          \E i \in DOMAIN built.connections : built.connections[i].segment = k

\* Two rides are of one route iff they are of one trip, or of trips of one line
\* that both have all their positions and call at the same stops in them: as
\* the file has it, overnight rows included.
SamePattern(t, u) ==
    \A x, y \in {t, u} : \A i \in RowsOfTrip(columns.rows, x) :
       /\ Indexed(columns.rows[i])
       /\ \E j \in RowsOfTrip(columns.rows, y) : columns.rows[j].line = columns.rows[i].line
       /\ \A call \in Calls(columns.rows, x) : call \in Calls(columns.rows, y)

RoutesTold ==
    columns.given \/
    \A i, j \in KeptRows :
       LET s == built.segments[built.connections[PlaceOf(i)].segment]
           t == built.segments[built.connections[PlaceOf(j)].segment]
           a == columns.rows[i].trip
           b == columns.rows[j].trip
       IN  s.line # Missing /\ t.line # Missing =>
              ((s.route = t.route) <=> (a = b \/ SamePattern(a, b)))

ZonesKnown ==
    /\ \A k \in DOMAIN built.segments :
          \A x \in {built.segments[k].from, built.segments[k].to} :
             x[2] \in (IF x[1] = "zone" THEN columns.zones ELSE built.stops)
    /\ \A k \in DOMAIN built.segments :
          built.segments[k].line # Missing => built.segments[k].line \in built.lines

\* Entries and cells of n passengers from o to d; a matrix may name a zone twice.
EntriesFor(o, d, n) ==
    {e \in DOMAIN input.demand : /\ input.demand[e].origin = o
                                 /\ input.demand[e].destination = d
                                 /\ input.demand[e].passengers = n}
CellsFor(m, o, d, n) ==
    {x \in (DOMAIN m.destinations) \X (DOMAIN m.destinations) :
        m.destinations[x[1]] = o /\ m.destinations[x[2]] = d /\ m.rows[x[1]].cells[x[2]] = n}

DemandTold ==
    /\ \A i \in DOMAIN input.demand :
          \E j \in DOMAIN input.intervals : input.intervals[j].id = input.demand[i].interval
    /\ paths.intervals = None =>
          LET m == Data(paths.demand)
          IN  /\ \A i, k \in DOMAIN m.destinations :
                    LET o == m.destinations[i]
                        d == m.destinations[k]
                        n == m.rows[i].cells[k]
                    IN  Cardinality(EntriesFor(o, d, n))
                           = IF n = 0 THEN 0 ELSE Cardinality(CellsFor(m, o, d, n))
              /\ \A e \in DOMAIN input.demand :
                    LET entry == input.demand[e]
                    IN  CellsFor(m, entry.origin, entry.destination, entry.passengers) # {}
    /\ paths.intervals # None =>
          \A i \in DOMAIN Data(paths.demand).rows : input.demand[i] = Data(paths.demand).rows[i]

SettingsTold(settings) ==
    IF paths.params = None THEN settings.execution = Preset("od_day")
    ELSE LET root  == Data(paths.params).root
             named == Named(root)
         IN  /\ \A x \in Numbers :
                   ValueAt(root, x) % One = 0 =>
                      settings.numbers[x] = (IF InMinutes(x) THEN 60 ELSE 1) * ValueAt(root, x)
             /\ \A k \in DOMAIN named \cap DOMAIN Tokens : settings.execution[k] = named[k]
             /\ "projection" \in DOMAIN named =>
                   /\ "formulation" \notin DOMAIN named =>
                         settings.execution.formulation = FormulationOf(named.projection)
                   /\ "retention" \notin DOMAIN named =>
                         (settings.execution.retention = "slot"
                            <=> settings.execution.projection = "demand_tasks")

\* A load that succeeds tells what the files say, those the source found when it
\* was made: each row that is not overnight is one connection, in the order of
\* the file, of the only route segment there is for its leg, which takes as
\* long; routes are told apart by their patterns of calls; stops, zones and
\* lines are known; the demand is that of the file or of the cells of the
\* matrix; and settings are those of the file in seconds, with what it names
\* overruling what that implies (load_pair_assignment_input).
LoadTellsTheFiles ==
    Loaded =>
       /\ ConnectionsTold /\ RoutesTold /\ ZonesKnown
       /\ SourceOf(case) = "pair" => DemandTold /\ SettingsTold(input.settings[1])
=============================================================================
