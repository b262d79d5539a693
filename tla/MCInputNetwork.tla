--------------------------- MODULE MCInputNetwork ---------------------------
(***************************************************************************)
(* Directories with a few rows of every kind: trips that share a pattern,  *)
(* a line or neither, with and without positions, over midnight, walks,    *)
(* and rows that do not fit; each way demand may be given; capacities;     *)
(* params.txt with and without a search execution; files missing, in other *)
(* places and written late.  What is not varied is plain.                  *)
(***************************************************************************)
EXTENDS InputNetwork

RowOf(line, trip, fromStop, fromIndex, toStop, toIndex, dep, arr) ==
    [fromZone |-> -1, fromStop |-> fromStop, toZone |-> -1, toStop |-> toStop,
     line |-> line, trip |-> trip, route |-> -1, fromIndex |-> fromIndex, toIndex |-> toIndex,
     dep |-> dep, arr |-> arr, time |-> arr - dep, length |-> 1, fare |-> -1]
Walk(fromZone, fromStop, toZone, toStop) ==
    [RowOf(-1, -1, fromStop, -1, toStop, -1, -1, -1) EXCEPT
        !.fromZone = fromZone, !.toZone = toZone, !.time = 5]

\* Rows of small files; 7 of them fit with each other in any way.
Pool ==
    <<RowOf(1, 1, 1, 0, 2, 1, 10, 20),          RowOf(1, 2, 1, 0, 2, 1, 30, 40),
      RowOf(1, 2, 2, 1, 3, 2, 50, 60),
      [RowOf(1, 2, 2, 1, 3, 2, 70, 5) EXCEPT !.time = 10],        \* over midnight
      RowOf(2, 3, 1, 0, 2, 1, 10, 20),          RowOf(1, 4, 1, -1, 2, -1, 10, 20),
      RowOf(1, 5, 1, -1, 2, -1, 20, 30),
      Walk(1, -1, -1, 1),                       Walk(-1, 2, 2, -1),
      RowOf(1, 1, 1, 0, 2, 1, 40, 60),                            \* slower
      RowOf(2, 1, 2, 1, 3, 2, 20, 30),                            \* on another line
      RowOf(1, 1, 4, 1, 3, 2, 20, 30),                            \* at another stop
      RowOf(1, 1, 2, 1, 3, -1, 20, 30),         RowOf(1, -1, 1, 0, 2, 1, 10, 20),
      [RowOf(1, 6, 1, 0, 2, 1, 10, 20) EXCEPT !.time = 11],
      Walk(1, -1, 1, -1),                       Walk(1, 1, 2, -1)>>

Segs(given, hasRoutes, separator, readable) ==
    [folder |-> FALSE, readable |-> readable, separator |-> separator, routes |-> hasRoutes,
     rows |-> given]
Txt(rows, lines, zones) ==
    [folder |-> FALSE, readable |-> TRUE, lines |-> lines, rows |-> rows, zones |-> zones]
Rows(rows)   == [folder |-> FALSE, readable |-> TRUE, rows |-> rows]
Unreadable   == [folder |-> FALSE, readable |-> FALSE, rows |-> <<>>]
Folder       == [folder |-> TRUE]

Given(given, ids) == [i \in DOMAIN given |-> [given[i] EXCEPT !.route = ids[i]]]
Plain == <<Pool[1], Pool[2], Pool[8], Pool[9]>>

SegmentsOf(key) ==
    CASE key = "plain"      -> Segs(Plain, FALSE, "comma", TRUE)
      [] key = "spaces"     -> Segs(<<Pool[2], Pool[8]>>, FALSE, "space", TRUE)
      [] key = "tabs"       -> Segs(Plain, FALSE, "tab", TRUE)
      [] key = "unreadable" -> Segs(Plain, FALSE, "comma", FALSE)
      [] key = "empty"      -> Segs(<<>>, FALSE, "comma", TRUE)
      [] key = "routes"     -> Segs(Given(Plain, <<7, 7, -1, -1>>), TRUE, "comma", TRUE)
      [] key = "no_route"   -> Segs(Given(Plain, <<7, -1, -1, -1>>), TRUE, "comma", TRUE)
      [] key = "walk_route" -> Segs(Given(Plain, <<7, 7, 7, -1>>), TRUE, "comma", TRUE)
      [] key = "folder"     -> Folder

-----------------------------------------------------------------------------
(* Demand and capacities. *)

Entry(o, d, a, n) == [origin |-> o, destination |-> d, interval |-> a, passengers |-> n]
Intervals(key) ==
    Rows(CASE key = "backwards" -> <<[id |-> 1, start |-> 20, end |-> 20]>>
           [] OTHER -> <<[id |-> 1, start |-> 0, end |-> 20], [id |-> 2, start |-> 20, end |-> 40]>>)
DemandOf(key) ==
    CASE key = "unknown"    -> Rows(<<Entry(1, 2, 3, 4)>>)
      [] key = "negative"   -> Rows(<<Entry(1, 2, 1, -4)>>)
      [] key = "no_rows"    -> Rows(<<>>)
      [] key = "unreadable" -> Unreadable
      [] OTHER              -> Rows(<<Entry(1, 2, 1, 4), Entry(1, 9, 2, 0), Entry(1, 2, 1, 1)>>)

Matrix(destinations, origins, cells) ==
    [folder |-> FALSE, readable |-> TRUE, destinations |-> destinations,
     rows |-> [i \in DOMAIN origins |-> [origin |-> origins[i], cells |-> cells[i]]]]
MatrixOf(key) ==
    CASE key = "matrix"          -> Matrix(<<2, 1>>, <<2, 1>>, <<<<0, 3>>, <<5, 0, 9>>>>)
      [] key = "matrix_oblong"   -> Matrix(<<2, 1>>, <<2>>, <<<<0, 3>>>>)
      [] key = "matrix_swapped"  -> Matrix(<<2, 1>>, <<1, 2>>, <<<<0, 3>>, <<5, 0>>>>)
      [] key = "matrix_short"    -> Matrix(<<2, 1>>, <<2, 1>>, <<<<0, 3>>, <<5>>>>)
      [] key = "matrix_negative" -> Matrix(<<2, 1>>, <<2, 1>>, <<<<0, 3>>, <<5, -1>>>>)
      [] key = "matrix_zero"     -> Matrix(<<2, 1>>, <<2, 1>>, <<<<0, 0>>, <<0, 0>>>>)
      [] key = "matrix_twice"    -> Matrix(<<2, 2>>, <<2, 2>>, <<<<3, 0>>, <<4, 3>>>>)
      [] key = "matrix_folder"   -> Folder
Matrices == {"matrix", "matrix_oblong", "matrix_swapped", "matrix_short", "matrix_negative",
             "matrix_zero", "matrix_twice", "matrix_folder"}

Item(trip, position, total, seats) ==
    [trip |-> trip, index |-> position, total |-> total, seats |-> seats]
CapacityOf(key) ==
    CASE key = "capacity"        -> Rows(<<Item(1, 0, 10, 5), Item(1, 1, 10, 10)>>)
      [] key = "capacity_none"   -> Rows(<<>>)
      [] key = "capacity_twice"  -> Rows(<<Item(1, 0, 10, 5), Item(1, 0, 10, 5)>>)
      [] key = "capacity_seats"  -> Rows(<<Item(1, 0, 10, 11)>>)
      [] key = "capacity_folder" -> Folder
Capacities == {"capacity", "capacity_none", "capacity_twice", "capacity_seats", "capacity_folder"}

-----------------------------------------------------------------------------
(* params.txt: the built-in numbers, but longer waits and 2.5 transfers.   *)

FileNumber(x) ==
    CASE x = <<"search.temporal", "maxTWT">>       -> 20 * One
      [] x = <<"search", "maxNumTransfers">>       -> 250
      [] x = <<"base", "postAssignPeriod">>        -> 24 * 60 * One
      [] x = <<"search.impedance", "volCapRatioFactor">> -> One
      [] OTHER                                     -> BuiltInNumber(x)

Others ==
    {<<"base", "calcSkimMatr">>, <<"skim", "func">>, <<"split", "choiceModel">>,
     <<"split", "logitExp">>, Independence("indepHigherQualityCoeff"),
     Independence("indepLowerQualityCoeff"), Independence("indepLowerFareCoeff")}
FileOther(x) ==
    CASE x[2] = "calcSkimMatr" -> <<"bool", TRUE>>
      [] x[2] = "func"         -> <<"string", "Quantile">>
      [] x[2] = "choiceModel"  -> <<"string", "Logit">>
      [] OTHER                 -> <<"number", 50>>

InFile == Numbers \cup Switches \cup Others
SectionOf(section) ==
    [key \in {x[2] : x \in {y \in InFile : y[1] = section}} |->
       CASE <<section, key>> \in Numbers  -> <<"number", FileNumber(<<section, key>>)>>
         [] <<section, key>> \in Switches -> <<"number", One>>
         [] OTHER                         -> FileOther(<<section, key>>)]
Root == [section \in {x[1] : x \in InFile} |-> SectionOf(section)]

\* What searchExecution names: of three keys, none or one of the tokens.
Executions == {"", "od_day", "demand_task"} \X {"", "od_day_pairs", "completion_targets", "demand_tasks"}
              \X {"", "tree", "slot"} \X {"", "active"}
Execute(e) ==
    LET named == {k \in 1..4 : e[k] # ""}
        key   == <<"formulation", "projection", "retention", "origins">>
    IN  [name \in {key[k] : k \in named} |->
            <<"string", e[CHOOSE k \in named : key[k] = name]>>]

With(section, value) ==
    [s \in DOMAIN Root \cup {section} |-> IF s = section THEN value ELSE Root[s]]
Params(root) == [folder |-> FALSE, readable |-> TRUE, root |-> root]
ParamsOf(key) ==
    CASE key = "params"          -> Params(Root)
      [] key = "params_token"    -> Params(With("execution", [mode |-> <<"string", "daily">>]))
      [] key = "params_waits"    -> Params([Root EXCEPT !["search.temporal"]["minTWT"] =
                                                            <<"number", 21 * One>>])
      [] key = "params_type"     -> Params([Root EXCEPT !["split"]["BoxCoxPara"] =
                                                            <<"string", "one">>])
      [] key = "params_switch"   -> Params([Root EXCEPT !["base"]["calcAssign"] = <<"number", 50>>])
      [] key = "params_folder"   -> Folder
      [] key = "params_nonsense" -> [folder |-> FALSE, readable |-> FALSE]
ParamsKeys == {"params", "params_token", "params_waits", "params_type", "params_switch",
               "params_folder", "params_nonsense"}

-----------------------------------------------------------------------------
(* Directories: what is varied, and how. *)

Generated == "generated_demand_informative_300"

Files(rows, layout, demand) ==
    LET at(name) == IF layout = "root" THEN <<name>> ELSE <<layout, name>>
    IN  [path \in {<<"segments">>, at("intervals"), at("demand")} |->
            CASE path = <<"segments">>      -> rows
              [] path = at("intervals")     -> Intervals(demand)
              [] path = at("demand")        -> DemandOf(demand)]
And(others, path, data) ==
    [p \in DOMAIN others \cup {path} |-> IF p = path THEN data ELSE others[p]]

PlainFiles == Files(SegmentsOf("plain"), "root", "csv")
Of(numbers) == [k \in DOMAIN numbers |-> Pool[numbers[k]]]

MCFilesOf(c) ==
    CASE c[1] = "rows"     -> Files(Segs(Of(c[2]), FALSE, "comma", TRUE), "root", "csv")
      [] c[1] = "segments" -> Files(SegmentsOf(c[2]), "root", "csv")
      [] c[1] = "7064"     -> And(PlainFiles, <<"7064", "segments">>, SegmentsOf("spaces"))
      [] c[1] = "layout"   -> Files(SegmentsOf("plain"), c[2], "csv")
      [] c[1] = "demand"   -> Files(SegmentsOf("plain"), "root", c[2])
      [] c[1] = "matrix"   -> And(PlainFiles, <<"matrix">>, MatrixOf(c[2]))
      [] c[1] = "capacity" -> And(PlainFiles, <<"capacity">>, CapacityOf(c[2]))
      [] c[1] \in {"params", "late"} -> And(PlainFiles, <<"params">>, ParamsOf(c[2]))
      [] c[1] = "execute"  -> And(PlainFiles, <<"params">>, Params(With("execution", Execute(c[2]))))
      [] c[1] = "single"   -> [path \in {<<"file">>} |->
                                 CASE c[2] = "walks"  -> Txt(<<Pool[8], Pool[9]>>, 11, <<1, 2, 3>>)
                                   [] c[2] = "rides"  -> Txt(Plain, 11, <<1, 2>>)
                                   [] c[2] = "lines"  -> Txt(<<Pool[8]>>, 10, <<1>>)
                                   [] c[2] = "twice"  -> Txt(<<Pool[8]>>, 11, <<1, 1>>)
                                   [] c[2] = "extra"  -> Txt(<<Pool[8], Pool[9]>>, 11, <<1>>)
                                   [] c[2] = "folder" -> Folder]
      [] c[1] = "dir"      -> [path \in {<<name>> : name \in DirFiles} |-> Rows(<<>>)]

MCSourceOf(c) == IF c[1] \in {"single", "dir"} THEN c[1] ELSE "pair"
MCLateOf(c)   == IF c[1] = "late" THEN {<<"params">>} ELSE {}

MCCases ==
    ({"rows"} \X {<<i, j>> : i, j \in DOMAIN Pool})
    \cup ({"rows"} \X {<<i, j, k>> : i, j, k \in 1..7})
    \cup ({"rows"} \X {<<i, 8, j>> : i, j \in 1..7})
    \cup ({"segments"} \X {"spaces", "tabs", "unreadable", "empty", "routes", "no_route",
                           "walk_route", "folder"})
    \cup {<<"7064", "both">>, <<"dir", "all">>}
    \cup ({"layout"} \X {Generated, "elsewhere"})
    \cup ({"demand"} \X {"backwards", "unknown", "negative", "no_rows", "unreadable"})
    \cup ({"matrix"} \X Matrices)
    \cup ({"capacity"} \X Capacities)
    \cup ({"params", "late"} \X ParamsKeys)
    \cup ({"execute"} \X Executions)
    \cup ({"single"} \X {"walks", "rides", "lines", "twice", "extra", "folder"})

-----------------------------------------------------------------------------
Supplies == INSTANCE MCSupplies
MCInputs == Supplies!MCInputs

MCInit == \/ ApplicationInit
          \/ LibraryInit /\ case = <<"dir", "all">>

MCSpec == MCInit /\ [][InputNext]_all_vars
=============================================================================
