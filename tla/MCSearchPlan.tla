---------------------------- MODULE MCSearchPlan ----------------------------
(***************************************************************************)
(* Three zones, a day of 24, intervals that nest and overlap, and          *)
(* connections that board before, in and after them.  The runs are the     *)
(* three profiles of the pipeline, each with every single setting changed, *)
(* and the planning library's modes with every domain they may ask for.    *)
(***************************************************************************)
EXTENDS SearchPlan

MCZones == 1 .. 3

I(id, start, end) == [id |-> id, start |-> start, end |-> end]
Plain == <<I(1, 6, 12), I(2, 8, 10), I(3, 21, 24)>>
IntervalSets == {Plain, <<>>, <<I(1, 6, 12), I(1, 8, 10)>>, <<I(1, 12, 12)>>}

C(from, to, board, access, arrival) ==
    [from |-> from, to |-> to, board |-> board, access |-> access, arrival |-> arrival]
MCConnections ==
    {C(1, 2, 7, 1, 9), C(1, 2, 11, 1, 14), C(1, 2, 22, 0, 26), C(1, 3, 5, 2, 8),
     C(1, 3, 13, 1, 15), C(2, 3, 9, 1, 10), C(2, 3, 25, 1, 27), C(2, 1, 1, 2, 6),
     C(3, 3, 8, 0, 9), C(1, 2, 0 - 1, 1, 3)}

R(from, to, interval, passengers) ==
    [from |-> from, to |-> to, interval |-> interval, passengers |-> passengers]
Demands ==
    {<<>>, <<R(2, 3, 2, 0)>>,
     <<R(1, 2, 2, 4), R(1, 2, 1, 3), R(1, 3, 3, 1)>>,
     <<R(2, 3, 2, 1), R(1, 2, 1, 2), R(1, 2, 1, 5), R(3, 3, 1, 1), R(1, 3, 2, 0)>>,
     <<R(2, 1, 1, 1), R(1, 2, 3, 2)>>, <<R(1, 4, 1, 1)>>, <<R(1, 2, 7, 1)>>}

Policies == {[kind |-> "fixed", before |-> 0, after |-> 0],
             [kind |-> "fixed", before |-> 2, after |-> 1],
             [kind |-> "fixed", before |-> 0 - 1, after |-> 0],
             [kind |-> "impedance", delta |-> 4, q |-> 1, early |-> 2, late |-> 1],
             [kind |-> "impedance", delta |-> 4, q |-> 1, early |-> 0, late |-> 1]}

Common == [workers |-> 2, workerMemory |-> 1, export |-> "summary", calculate |-> TRUE,
           capacity |-> FALSE, stage |-> "disabled", windows |-> "global",
           policy |-> [kind |-> "fixed", before |-> 0, after |-> 0], intervals |-> Plain,
           basis |-> "departure", pre |-> 1, post |-> 2, positiveDelta |-> TRUE]

Preset(f) == Common @@ Profile(f) @@ [entry |-> "pipeline", formulation |-> f]

\* Every other value of every setting.
Others ==
    [diagnostic : BOOLEAN] \cup [mode : {"interval_local"}] \cup [origins : {"declared", "active"}]
    \cup [source : {"assignment_period", "demand_induced"}]
    \cup [destinations : {"declared", "demand"}]
    \cup [projection : {"demand_tasks", "od_day_pairs", "completion_targets"}]
    \cup [retention : {"tree", "slot"}] \cup [workers : {0}] \cup [workerMemory : {0}]
    \cup [export : {"full_path"}] \cup [calculate : {FALSE}] \cup [capacity : {TRUE}]
    \cup [formulation : {"demand_task"}] \cup [basis : {"arrival"}]
    \cup [positiveDelta : {FALSE}] \cup [intervals : IntervalSets]

PipelineRuns ==
    UNION {{Preset(f)} \cup {other @@ Preset(f) : other \in Others} :
              f \in {"od_day", "timed", "all_zone"}}

Library == Common @@ Profile("timed") @@ [entry |-> "library", formulation |-> "timed"]

Scopes == [origins : {"declared", "active"}, destinations : {"declared", "demand"},
           projection : {"demand_tasks", "od_day_pairs", "completion_targets"}]
Domains ==
    [source : {"service_day", "assignment_period"}, basis : {"departure", "arrival"},
     positiveDelta : BOOLEAN, intervals : {Plain, <<>>}]
    \cup [source : {"demand_induced"}, windows : {"global", "per_origin", "per_od"},
          stage : {"disabled", "global_strict", "per_origin_strict", "conservative"},
          policy : Policies]

LibraryRuns ==
    {scope @@ domain @@ Library : scope \in Scopes, domain \in Domains}
    \cup {x @@ [mode |-> "interval_local"] @@ Library :
             x \in [basis : {"departure", "arrival"}, positiveDelta : BOOLEAN]}

MCRuns == {[demand |-> d] @@ r : d \in Demands, r \in PipelineRuns \cup LibraryRuns}

MCSpec == Init /\ [][Next \/ (phase = "ended" /\ UNCHANGED vars)]_vars
=============================================================================
