--------------------------- MODULE MCOutputAssembly ---------------------------
(***************************************************************************)
(* Two intervals and three origins.  For the output, in every mode: one    *)
(* alternative rides on in its vehicle from one segment to the next, one   *)
(* changes twice, one gets off and on at another stop of the trip, and two *)
(* supports share a day path; some rows of the demand are without          *)
(* passengers, one of them a double.  For the split, in an OD-day run: all *)
(* the files of six rows, among them a row without passengers, an unknown  *)
(* pair and an inadmissible one, and a file with a row twice.              *)
(* Beside them, the iteration of a run aware of capacities, and the files  *)
(* in which the outputs of MCOutputFiles are kept.                         *)
(***************************************************************************)
EXTENDS CapacityIteration

AssemblyIntervals == <<[start |-> 0, end |-> 10], [start |-> 10, end |-> 20]>>
AssemblyScales == [pjt |-> [higher |-> 4, lower |-> 6], fare |-> [higher |-> 2, lower |-> 3]]

\* Trips 1 and 2 are of one route, 3 and 4 of others; 4 passes stop 11 twice.
StopAtPosition == <<<<10, 11, 12, 13>>, <<10, 11, 12, 13>>, <<14, 12, 13, 10>>, <<11, 14, 11>>>>
RouteOfTrip == <<100, 100, 101, 102>>
LineOfRoute == 100 :> 7 @@ 101 :> 7 @@ 102 :> 8

S(dep, arr, pjt, fare, legs) ==
    [dep |-> dep, arr |-> arr, pjt |-> pjt, fare |-> fare, legs |-> legs]
L(trip, from, to) == [trip |-> trip, from |-> from, to |-> to]

Seated  == S(2, 8, 6, 1, <<L(1, 1, 2), L(1, 2, 4)>>)
Later   == S(5, 11, 6, 1, <<L(2, 1, 2), L(2, 2, 4)>>)
Changes == S(3, 9, 8, 0, <<L(1, 1, 2), L(4, 1, 2), L(3, 1, 3)>>)
Reboard == S(4, 10, 9, 2, <<L(1, 1, 2), L(4, 1, 3), L(2, 2, 3), L(2, 3, 4)>>)
Evening == S(30, 36, 6, 1, <<L(3, 2, 3)>>)

OutputChoices ==
    {<<1, 2>> :> first @@ <<2, 3>> :> second :
        first \in {<<Seated, Later>>, <<Changes, Seated, Later>>, <<Reboard, Changes>>},
        second \in {<<Evening>>, <<Seated>>}}

\* Late is far worse than Early and Slow, and falls below the suppression threshold.
Early == S(2, 8, 6, 1, <<L(1, 1, 3)>>)
Slow  == S(3, 11, 8, 0, <<L(2, 1, 2), L(1, 2, 4)>>)
Late  == S(9, 22, 40, 4, <<L(2, 2, 3)>>)
Noon  == S(14, 19, 5, 1, <<L(3, 1, 3)>>)
Night == S(30, 36, 6, 1, <<L(3, 3, 4)>>)

SplitChoices ==
    {<<1, 2>> :> first @@ <<1, 3>> :> <<Night>> @@ <<2, 3>> :> second :
        first \in {<<Slow, Early>>, <<Late, Slow, Early>>, <<Late, Noon>>},
        second \in {<<Early>>, <<Noon, Slow>>, <<Night>>}}

ChoiceSets == OutputChoices \cup SplitChoices

Row(o, d, a, n) == [origin |-> o, destination |-> d, interval |-> a, passengers |-> n]
Rows == <<Row(2, 3, 1, 5), Row(1, 2, 1, 13), Row(1, 2, 2, 7), Row(3, 1, 1, 3)>>
OutputDemands ==
    {Rows, <<Row(1, 2, 1, 13)>>, <<Row(2, 3, 1, 5), Row(1, 2, 2, 0)>>,
     Rows \o <<Row(1, 2, 1, 0)>>, Rows \o <<Row(1, 2, 1, 2)>>,
     Rows \o <<Row(2, 1, 1, 0), Row(2, 1, 1, 0)>>}

SplitRows == <<Row(2, 3, 1, 5), Row(1, 2, 1, 13), Row(1, 3, 1, 4), Row(1, 2, 2, 7),
               Row(3, 1, 1, 3), Row(2, 3, 2, 0)>>
SplitDemands ==
    {SelectSeq(SplitRows, LAMBDA r : r \in chosen) : chosen \in SUBSET Range(SplitRows)}
        \cup {SplitRows \o <<Row(1, 2, 1, 2)>>}

AllDemands == OutputDemands \cup SplitDemands

Skim(enabled, func, quantile, low_share, weighted) ==
    [enabled |-> enabled, func |-> func, quantile |-> quantile,
     low_share |-> low_share, volume_weighted |-> weighted]
Skims ==
    {Skim(FALSE, "mean", 0, 20, TRUE), Skim(TRUE, "mean", 0, 20, TRUE),
     Skim(TRUE, "mean", 0, 8, FALSE), Skim(TRUE, "quantile", 10, 20, TRUE),
     Skim(TRUE, "quantile", 20, 0, TRUE)}

OverloadInputs ==
    {[calculate |-> FALSE, input |-> "missing", capacity |-> {}],
     [calculate |-> TRUE, input |-> "missing", capacity |-> {}],
     [calculate |-> TRUE, input |-> "loaded",
      capacity |-> {[trip |-> 1, from |-> 1], [trip |-> 3, from |-> 1]}]}

\* Two trees of one origin reach one pair, in windows of their own.
Target(o, d, n) == [origin |-> o, destination |-> d, connection_count |-> n]
AllTrees == <<Target(1, 2, 3), Target(1, 3, 0), Target(1, 2, 1)>>

VARIABLES
    basis, demand, choice, waiting, split, loads, state,
    assembly_mode, skim_config, assessment, stage, position, segment_loads, stop_loads,
    output

assembly_vars == <<basis, demand, choice, waiting, split, loads, state, assembly_mode,
                   skim_config, assessment, stage, position, segment_loads, stop_loads,
                   output>>

Assembly == INSTANCE OutputAssembly WITH
    Unit <- 20, Suppression <- 2, LoadThreshold <- 0, TimeScale <- 4, Gamma <- 10,
    QualityScales <- AssemblyScales,
    QTime <- 1, QDeparture <- 1, QFare <- 2, EarlyWeight <- 1, LateWeight <- 2,
    PreAssign <- 1, PostAssign <- 2, Intervals <- AssemblyIntervals,
    Bases <- {"departure", "arrival"}, Demands <- AllDemands, ChosenSets <- ChoiceSets,
    StopAt <- StopAtPosition, RouteOf <- RouteOfTrip, LineOf <- LineOfRoute,
    Modes <- {"OdDay", "Timed", "Disabled", "AllZone", "TimedDiagnostics"},
    SkimConfigs <- Skims, Assessments <- OverloadInputs, Trees <- AllTrees,
    mode <- assembly_mode

------------------------------------------------------------------------------
(* The iteration that produces the split of a run aware of capacities:     *)
(* three trips that share no items but compete for the same passengers, up *)
(* to four iterations, under every mode, policy and six capacity inputs.   *)

Ride(dep, pjt, fare, legs) ==
    [dep |-> dep, arr |-> dep + pjt, pjt |-> pjt, fare |-> fare, legs |-> legs]
Past(trip, from, to, duration) ==
    [trip |-> trip, from |-> from, to |-> to, duration |-> duration]

First  == Ride(2, 20, 0, <<Past(1, 0, 2, 20)>>)
Second == Ride(8, 24, 0, <<Past(2, 1, 2, 10), Past(1, 2, 3, 8)>>)
Third  == Ride(14, 26, 1, <<Past(3, 0, 3, 24)>>)

IterationEntries ==
    <<[interval |-> 1, passengers |-> 12, connections |-> <<First, Second, Third>>],
      [interval |-> 1, passengers |-> 5, connections |-> <<Second, Third>>],
      [interval |-> 2, passengers |-> 7, connections |-> <<Third>>]>>

AllItems == {1, 2, 3} \X (0 .. 2)
CapacityInputs ==
    {[i \in AllItems |-> 10], [i \in AllItems |-> IF i[1] = 1 THEN 2 ELSE 20],
     [i \in AllItems |-> IF i[1] = 3 THEN 4 ELSE 6],
     [i \in AllItems |-> IF i = <<1, 2>> THEN 0 ELSE 6],
     [i \in AllItems |-> IF i = <<2, 0>> THEN 0 ELSE 3],
     [i \in AllItems \ {<<3, 2>>} |-> 6]}

MCIntervals == <<[start |-> 0, end |-> 15], [start |-> 15, end |-> 30]>>
MCScales == [pjt |-> [higher |-> 40, lower |-> 60], fare |-> [higher |-> 2, lower |-> 3]]
MCModes == [search : BOOLEAN, split : BOOLEAN]

ASSUME IterationAssumption == ConstantsAssumption

------------------------------------------------------------------------------
(* The directory the outputs of two runs are written into. *)

VARIABLES directory, disk, run, written, phase, next_file, before, lost

file_vars == <<directory, disk, run, written, phase, next_file, before, lost>>

Itself(o) == o
Cases == INSTANCE MCOutputFiles WITH
    MaxOdResults <- 1, MaxConnectionsPerOd <- 2, MaxRuns <- 2, MaxLost <- 1,
    Outputs <- {}, OutputOf <- Itself, output <- written, position <- next_file

CaseOutputs == Cases!MCOutputs
CaseOutputOf(o) == Cases!MCOutputOf(o)

Filed == INSTANCE OutputFiles WITH
    MaxOdResults <- 1, MaxConnectionsPerOd <- 2, MaxRuns <- 2, MaxLost <- 1,
    Outputs <- CaseOutputs, OutputOf <- CaseOutputOf,
    output <- written, position <- next_file

------------------------------------------------------------------------------
NoAssembly ==
    /\ basis = "departure" /\ demand = <<>> /\ choice = <<>> /\ waiting = {}
    /\ split = Assembly!Nothing /\ loads = <<>> /\ state = "done"
    /\ assembly_mode = "Disabled" /\ skim_config = Skim(FALSE, "mean", 0, 20, TRUE)
    /\ assessment = [calculate |-> FALSE, input |-> "missing", capacity |-> {}]
    /\ stage = "not_assembled" /\ position = 0
    /\ segment_loads = <<>> /\ stop_loads = <<>> /\ output = <<>>

NoIteration ==
    /\ mode = [search |-> FALSE, split |-> FALSE]
    /\ policy = "VolumeCapacityRatio" /\ capacity = <<>>
    /\ iteration = 0 /\ load_state = <<>> /\ candidate = <<>> /\ total = <<>>
    /\ delta = 0 /\ converged = FALSE /\ rows = {} /\ status = "not_iterated"

NoFiles ==
    /\ directory = FALSE /\ disk = <<>> /\ run = 0 /\ written = "none" /\ phase = "none"
    /\ next_file = 0 /\ before = <<>> /\ lost = 0

Assembled ==
    /\ Assembly!OutputInit /\ NoIteration /\ NoFiles
    /\ \/ demand \in OutputDemands /\ choice \in OutputChoices
       \/ /\ demand \in SplitDemands /\ choice \in SplitChoices
          /\ assembly_mode = "OdDay"
          /\ skim_config = Skim(TRUE, "mean", 0, 20, TRUE)
          /\ ~assessment.calculate

\* The output of an iteration is not assembled here, nor that of a directory.
Iterating == Init /\ NoAssembly /\ NoFiles
Filing == Filed!FilesInit /\ NoAssembly /\ NoIteration

\* The output is built, the iteration reported, the runs are over, or the run
\* has failed.
Over ==
    /\ \/ stage \in {"built", "failed"} \/ state = "failed"
       \/ status \in {"reported", "failed"}
       \/ phase \in {"idle", "written", "failed"} /\ run = 2
    /\ UNCHANGED <<assembly_vars, vars, file_vars>>

AssemblyNext ==
    \/ /\ status = "not_iterated" /\ phase = "none"
       /\ Assembly!OutputNext /\ UNCHANGED <<vars, file_vars>>
    \/ /\ status # "not_iterated"
       /\ Next /\ UNCHANGED <<assembly_vars, file_vars>>
    \/ /\ phase # "none"
       /\ Filed!FilesNext /\ UNCHANGED <<assembly_vars, vars>>
    \/ Over

MCSpec == (Assembled \/ Iterating \/ Filing)
          /\ [][AssemblyNext]_<<assembly_vars, vars, file_vars>>

\* The split of a day, origin by origin, is whole (split/split.cpp).
DaySplitIsWhole == Assembly!DaySplitIsWhole

\* What a run reports agrees with the split and with itself
\* (output_assembly.cpp, output_validation.cpp).
OutputAddsUp == Assembly!OutputAddsUp

\* What the files of a directory say of the runs that wrote them, whatever
\* fails on the way (infra/assignment_output_files.cpp).
FilesTellTheRun == phase = "none" \/ Filed!FilesTellTheRun
==============================================================================
