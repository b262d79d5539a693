----------------------------- MODULE MCTimedSearch -----------------------------
(***************************************************************************)
(* A search by departure and arrival times: its plan (the cases of         *)
(* MCSearchPlan), or one of the trees it runs.                             *)
(*                                                                         *)
(* The trees have one origin, four stops and the zones D and F to reach    *)
(* (and the origin itself, which counts as a target, too).  Their          *)
(* timetables are small subsets of fifteen rides, chosen for what can go   *)
(* wrong: a line that comes by a stop twice, departures that tie, prefixes *)
(* that dominate without being admissible, two walks from one vehicle to   *)
(* the same stop, a stop come back to, nothing but walks, a day begun      *)
(* before midnight.                                                        *)
(***************************************************************************)
EXTENDS TimedTree

VARIABLES run, phase, execution, batches, delivered, results, outcome

plan_vars == <<run, phase, execution, batches, delivered, results, outcome>>

Cases == INSTANCE MCSearchPlan WITH
            DayEnd <- 24, Zones <- {}, Connections <- {}, Runs <- {}

PlanRuns == Cases!MCRuns
PlanConnections == Cases!MCConnections

Plan == INSTANCE SearchPlan WITH
            DayEnd <- 24, Zones <- 1 .. 3, Connections <- PlanConnections,
            Runs <- PlanRuns

-------------------------------------------------------------------------------
MCStops == {"a", "b", "c", "e"}

Walks == {Walk("O", "a", 1), Walk("O", "b", 3), Walk("b", "D", 2), Walk("e", "D", 1),
          Walk("e", "F", 2), Walk("c", "F", 9), Walk("c", "b", 1), Walk("b", "e", 4)}

On(trip, line, route) == [trip |-> trip, line |-> line, route |-> route]

\* The loop a(1) b(2) c(3) b(4) e(5): one vehicle at b for the first time
\* meets one there for the second, which is at e before it, and one that is
\* not.
Loop1 == TimedRide("a", 1, "b", 2, On(1, "L", "l"), 10, 12, 0)
Stay  == TimedRide("b", 2, "e", 5, On(1, "L", "l"), 12, 24, 0)
Gain  == TimedRide("b", 4, "e", 5, On(2, "L", "l"), 13, 16, 0)
Late  == TimedRide("b", 4, "e", 5, On(3, "L", "l"), 14, 26, 0)

\* Other lines; Twin is Loop1 at a higher fare.
Past  == TimedRide("a", 1, "c", 2, On(4, "M", "m"), 10, 12, 0)
Early == TimedRide("a", 1, "b", 2, On(5, "N", "n"), 9, 11, 2)
Cross == TimedRide("c", 1, "e", 2, On(6, "P", "p"), 13, 20, 0)
Fast  == TimedRide("b", 1, "e", 2, On(7, "Q", "q"), 13, 15, 9)
Back  == TimedRide("e", 1, "b", 3, On(8, "R", "r"), 17, 19, 0)
Out   == TimedRide("b", 1, "a", 2, On(11, "U", "u"), 8, 9, 0)
Twin  == TimedRide("a", 1, "b", 2, On(10, "T", "t"), 10, 12, 2)

\* Two walks to one stop from stops of one trip: the wait that follows may be
\* too long for the one who arrives first.
Left  == TimedRide("a", 1, "c", 3, On(1, "L", "l"), 10, 14, 0)
Later == TimedRide("e", 1, "a", 2, On(9, "S", "s"), 24, 26, 0)
Unsafe == {Walk("O", "a", 1), Walk("b", "e", 4), Walk("c", "e", 1), Walk("a", "D", 2),
           Loop1, Left, Later}

\* A day that begins too soon: the walk to the vehicle would start before
\* midnight, whatever follows.  Where nothing is reached later that way than by
\* Early, the branch is cut before it arrives.
Dawn  == TimedRide("a", 1, "b", 2, On(12, "V", "v"), 0, 8, 0)
Creep == TimedRide("b", 1, "c", 2, On(13, "W", "w"), 2, 12, 0)

EarlyNetworks ==
    {Walks \cup {Dawn, Gain, Loop1}, Walks \cup {Creep, Cross, Early},
     {w \in Walks : w.to # "F"} \cup {Creep, Cross, Early}}

Networks ==
    {Unsafe, Walks}
    \cup {Walks \cup rides : rides \in
            {{Loop1, Stay, Gain, Late}, {Loop1, Gain, Twin, Back},
             {Loop1, Stay, Late, Early, Back}, {Past, Early, Cross, Fast, Out},
             {Loop1, Stay, Gain, Late, Early, Cross, Back, Past},
             {Early, Fast, Gain, Back, Loop1}}}

Slot(to, basis, window) == [to |-> to, basis |-> basis, window |-> window]

Settings ==
    [departures |-> 8 .. 12, plan |-> "disabled", scope |-> "slot",
     rollout |-> "exact_only", reference |-> "current", direct_barred |-> FALSE,
     allow_end_wait |-> TRUE, validate |-> TRUE, cancellable |-> FALSE]

ForTasks ==
    [kind |-> "demand_task", targets |-> <<"D", "F">>,
     slots |-> <<Slot("D", "departure", 8 .. 9), Slot("F", "arrival", 10 .. 24),
                 Slot("D", "arrival", 10 .. 40)>>] @@ Settings
ForCounts ==
    [kind |-> "completion_target", targets |-> <<"D", "F", "O">>,
     slots |-> <<Slot("D", "none", {}), Slot("F", "none", {}), Slot("O", "none", {})>>]
    @@ Settings

Variants ==
    {x @@ kind : kind \in {ForTasks, ForCounts},
                 x \in [plan : {"disabled", "exact", "approximate"}]
                       \cup [direct_barred : {TRUE}, validate : {FALSE}]
                       \cup [rollout : {"exact_and_approximate"}]
                       \cup [plan : {"exact"}, reference : {"last_timed"}]}
    \cup {x @@ ForCounts :
              x \in [scope : {"tree"}, plan : {"exact"}, cancellable : BOOLEAN]}
    \cup {[allow_end_wait |-> FALSE] @@ ForTasks, [slots |-> <<>>] @@ ForTasks}

MCBatches ==
    {[network |-> n] @@ v : n \in Networks, v \in Variants}
    \cup {[network |-> n, departures |-> 0 .. 12] @@ v :
              n \in EarlyNetworks, v \in Variants}

MCTolerances == [imp_mult |-> 1, imp_add |-> 3, jt_mult |-> 1, jt_add |-> 2,
                 nt_mult |-> 1, nt_add |-> 1]

-------------------------------------------------------------------------------
\* Either a plan or a tree.
Planning ==
    /\ Plan!Init
    /\ job = Settings /\ stopping = FALSE /\ state = "stopped" /\ residual = <<>>
    /\ arena = <<>> /\ current = <<>> /\ next = <<>> /\ expanding = None
    /\ todo = {} /\ kept = <<>> /\ known = <<>> /\ found = <<>>

Searching ==
    /\ TreeInit
    /\ run = <<>> /\ phase = "ended" /\ execution = <<>> /\ batches = <<>>
    /\ delivered = {} /\ results = <<>> /\ outcome = "none"

Over ==
    /\ phase = "ended" /\ TreeEnded
    /\ UNCHANGED <<plan_vars, tree_vars>>

TimedSearchNext ==
    \/ Plan!Next /\ UNCHANGED tree_vars
    \/ TreeNext /\ UNCHANGED plan_vars
    \/ Over

TimedSearchSpec ==
    (Planning \/ Searching) /\ [][TimedSearchNext]_<<plan_vars, tree_vars>>

\* Every demand row gets the admissible connections of its pair that board
\* when its settings ask for (search_execution.cpp, batch planning).
TasksAreServed == DOMAIN run = {} \/ Plan!TasksAreServed
================================================================================
