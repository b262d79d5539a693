----------------------------- MODULE OutputTables -----------------------------
(***************************************************************************)
(* The rows of the files a run writes, under its two export profiles       *)
(* (assignment/projection/summary.cpp and csv.cpp for the full one, the    *)
(* compact projections of infra/assignment_output_files.cpp for the        *)
(* other).  How a row is put into text is left out.                        *)
(*                                                                         *)
(* A result of a pair is                                                   *)
(*   [origin, destination, searched, chosen, demand, assigned, unassigned, *)
(*    connections, intervals]                                              *)
(* with connections [journey_time, fare, transfers, segments], intervals   *)
(* [interval, demand, assigned, shares], shares [connection, passengers].  *)
(***************************************************************************)
EXTENDS Integers, FiniteSetsExt, Sequences, SequencesExt, TLC

CONSTANTS
    MaxOdResults,          \* pairs the text shows
    MaxConnectionsPerOd    \* and connections of each

\* The files in the order in which both profiles write them.
Files == <<"summary_text", "canonical_json", "metadata_csv", "od_summary_csv",
           "connections_csv", "shares_csv", "segments_csv", "loads_csv",
           "stop_loads_csv", "elementary_segment_loads_csv", "skim_matrix_csv",
           "vehicle_journey_item_loads_csv">>

MinOf(m, n) == IF m < n THEN m ELSE n
Added(seq, By(_)) == FoldLeft(LAMBDA n, x : n + By(x), 0, seq)
Concatenated(seq, By(_)) == FoldLeft(LAMBDA rows, x : rows \o By(x), <<>>, seq)

\* "none" of no connection
Best(connections, metric) ==
    IF connections = <<>> THEN "none"
    ELSE Min({c[metric] : c \in Range(connections)})

AllShares(r) == Concatenated(r.intervals, LAMBDA i : i.shares)

------------------------------------------------------------------------------
(* summary.cpp                                                             *)

\* aggregate_connection_shares
References(r) == \A s \in Range(AllShares(r)) : s.connection \in DOMAIN r.connections
ShareAggregate(r, c) ==
    LET of == SelectSeq(AllShares(r), LAMBDA s : s.connection = c)
    IN  [assigned |-> Added(of, LAMBDA s : s.passengers), count |-> Len(of)]

OdRow(r, shares) ==
    [origin |-> r.origin, destination |-> r.destination, searched |-> r.searched,
     chosen |-> r.chosen, intervals |-> Len(r.intervals), shares |-> shares,
     demand |-> r.demand, assigned |-> r.assigned, unassigned |-> r.unassigned,
     fastest |-> Best(r.connections, "journey_time"),
     cheapest |-> Best(r.connections, "fare"),
     fewest |-> Best(r.connections, "transfers")]

\* build_od_summary and build_od_summary_row
FullOdRow(r) ==
    OdRow(r, Added([c \in DOMAIN r.connections |-> c],
                   LAMBDA c : ShareAggregate(r, c).count))

\* A bug: an interval counts once, however many shares it has.
CompactOdRow_PerInterval(r) == OdRow(r, Len(r.intervals))

\* compact_od_summary_row
CompactOdRow(r) == OdRow(r, Added(r.intervals, LAMBDA i : Len(i.shares)))

------------------------------------------------------------------------------
(* csv.cpp                                                                 *)

\* build_connection_row and build_segment_rows
ConnectionRows(r) ==
    [c \in DOMAIN r.connections |->
        [origin |-> r.origin, destination |-> r.destination, index |-> c,
         journey_time |-> r.connections[c].journey_time,
         segments |-> Len(r.connections[c].segments),
         assigned |-> ShareAggregate(r, c).assigned,
         shares |-> ShareAggregate(r, c).count]]
SegmentRows(r) ==
    Concatenated([c \in DOMAIN r.connections |-> c], LAMBDA c :
        [i \in DOMAIN r.connections[c].segments |->
            [origin |-> r.origin, destination |-> r.destination, index |-> c,
             position |-> i, segment |-> r.connections[c].segments[i]]])

\* build_share_rows
ShareRows(r) ==
    Concatenated(r.intervals, LAMBDA i :
        [k \in DOMAIN i.shares |->
            [origin |-> r.origin, destination |-> r.destination,
             interval |-> i.interval, demand |-> i.demand, assigned |-> i.assigned,
             index |-> i.shares[k].connection, passengers |-> i.shares[k].passengers]])

\* build_metadata_row, and the same for the compact one
MetadataRow(o) == o.summary

\* append_load_projection_rows: lines, routes and trips before segments.  The
\* totals of routes and stops are in no CSV file.
LoadRows(o) ==
    Concatenated(<<"line", "route", "trip", "segment">>, LAMBDA level :
        [i \in DOMAIN o.loads[level] |-> <<level, o.loads[level][i]>>])

\* serialize_assignment_.._csv: a line of headings, then the rows.
CsvFile(file, rows) == <<file>> \o rows
RowsOf(file) == Tail(file)

\* What both profiles write in the same way.
LoadTables(o) ==
    "metadata_csv" :> <<MetadataRow(o)>>
        @@ "loads_csv" :> LoadRows(o)
        @@ "stop_loads_csv" :> o.loads["stop"]
        @@ "elementary_segment_loads_csv" :> o.elementary
        @@ "skim_matrix_csv" :> o.skim
        @@ "vehicle_journey_item_loads_csv" :> o.overload

------------------------------------------------------------------------------
(* text_summary.cpp and assignment_output_json.cpp                         *)

\* should_include_od_summary
Shown(row) == row.chosen > 0 \/ row.intervals > 0 \/ row.demand > 0 \/ row.assigned > 0

\* format_assignment_result_summary: of the pairs that have anything the first
\* ones, of their connections the first ones, and how many are left out.
SummaryText(o) ==
    LET shown == SelectSeq([r \in DOMAIN o.results |-> FullOdRow(o.results[r])], Shown)
        n     == MinOf(MaxOdResults, Len(shown))
        text(row) == [pair |-> row, left_out |-> row.chosen - MinOf(MaxConnectionsPerOd, row.chosen),
                      connections |-> MinOf(MaxConnectionsPerOd, row.chosen)]
    IN  [summary |-> o.summary, pairs |-> [i \in 1..n |-> text(shown[i])],
         left_out |-> Len(shown) - n]

\* serialize_assignment_output_json: everything there is.
CanonicalJson(o) ==
    [summary |-> o.summary, pairs |-> o.results, loads |-> o.loads,
     elementary |-> o.elementary, overload |-> o.overload, skim |-> o.skim]

\* build_assignment_csv_projection
FullTables(o) ==
    LET tables == LoadTables(o)
            @@ "od_summary_csv" :> [r \in DOMAIN o.results |-> FullOdRow(o.results[r])]
            @@ "connections_csv" :> Concatenated(o.results, ConnectionRows)
            @@ "shares_csv" :> Concatenated(o.results, ShareRows)
            @@ "segments_csv" :> Concatenated(o.results, SegmentRows)
    IN  "summary_text" :> SummaryText(o) @@ "canonical_json" :> CanonicalJson(o)
            @@ [f \in DOMAIN tables |-> CsvFile(f, tables[f])]

\* build_production_aggregate_csv_projection: three files of headings only,
\* and two texts of totals.
ProductionTables(o) ==
    LET tables == LoadTables(o)
            @@ "od_summary_csv" :> [r \in DOMAIN o.results |-> CompactOdRow(o.results[r])]
            @@ "connections_csv" :> <<>> @@ "shares_csv" :> <<>> @@ "segments_csv" :> <<>>
    IN  "summary_text" :> [summary |-> o.summary, pairs |-> <<>>, left_out |-> 0]
            @@ "canonical_json" :> [summary |-> o.summary, pairs |-> <<>>]
            @@ [f \in DOMAIN tables |-> CsvFile(f, tables[f])]

------------------------------------------------------------------------------
Of(rows, x) == SelectSeq(rows, LAMBDA row : row.origin = x.origin
                                             /\ row.destination = x.destination)

\* Whoever has only the files gets the same from each of them: a connection
\* carries the passengers of its shares, a pair's row counts its connections,
\* shares and segments, all shares together are those of the summary, the
\* text leaves out what it says; and what the production files tell of a pair
\* is what the full ones do.
TablesAgree(o) ==
    LET full     == FullTables(o)
        od       == RowsOf(full["od_summary_csv"])
        carried  == RowsOf(full["connections_csv"])
        shares   == RowsOf(full["shares_csv"])
        segments == RowsOf(full["segments_csv"])
        text     == full["summary_text"]
    IN  /\ \A f \in Range(Files) \ {"summary_text", "canonical_json", "connections_csv",
                                     "shares_csv", "segments_csv"} :
              ProductionTables(o)[f] = full[f]
        /\ \A c \in Range(carried) :
              LET own == SelectSeq(Of(shares, c), LAMBDA s : s.index = c.index)
              IN  /\ c.assigned = Added(own, LAMBDA s : s.passengers)
                  /\ c.shares = Len(own)
                  /\ c.segments = Len(SelectSeq(Of(segments, c),
                                               LAMBDA s : s.index = c.index))
        /\ \A r \in Range(od) :
              /\ r.chosen = Len(Of(carried, r))
              /\ r.shares = Len(Of(shares, r))
              /\ r.assigned = Added(Of(shares, r), LAMBDA s : s.passengers)
        /\ Added(od, LAMBDA r : r.shares) = o.summary.shares
        /\ Added(od, LAMBDA r : r.assigned) = o.summary.assigned
        /\ text.left_out + Len(text.pairs)
              = Len(SelectSeq(od, LAMBDA r : Of(carried, r) # <<>> \/ r.demand > 0))
        /\ \A p \in Range(text.pairs) :
              p.left_out + p.connections = Len(Of(carried, p.pair))
==============================================================================
