--------------------------- MODULE RuntimeParams ---------------------------
(***************************************************************************)
(* What a run is told to do: the settings built into the pair source, and  *)
(* the settings params.txt puts in their place.                            *)
(*                                                                         *)
(* A parsed params.txt is a function from sections to functions from keys  *)
(* to values; a value is <<its type, itself>>.  The grammar of the file is *)
(* left out.  Numbers are hundredths, so that the built-in factors are     *)
(* integers.  The checks of a file only accept or refuse it, so they are   *)
(* one predicate and their order is left out.  Not modelled: the sizes and *)
(* switches of searchExecution that say only how many workers run and what *)
(* is checked and logged.                                                  *)
(***************************************************************************)
EXTENDS Integers, FiniteSets

One == 100          \* 1.0

ToleranceKeys == {"minSearchImpFactor", "minSearchImpAbs", "minJourneyTimeFactor",
                  "minJourneyTimeAbs", "minNumberTransfersFactor", "minNumberTransfersAbs"}

ImpedanceKeys == {"inVehTimeFactor", "accessTimeFactor", "egressTimeFactor", "walkTimeFactor",
                  "transferWaitTimeFactor", "numTransfersFactor", "volCapRatioFactor"}

Numbers ==
    ({"search.tolerances", "choice.tolerances"} \X ToleranceKeys)
    \cup ({"search.impedance", "split.perceived"} \X ImpedanceKeys)
    \cup ({"split.impedance"} \X {"perceivedJourneyTimeFactor", "temporalUtilityFactor_early",
                                  "temporalUtilityFactor_late", "fareFactor"})
    \cup ({"search.temporal"} \X {"minTWT", "maxTWT"})
    \cup ({"split.independence"} \X {"gamma", "indepMaxDelta"})
    \cup ({"base"} \X {"preAssignPeriod", "postAssignPeriod"})
    \cup ({"skim"} \X {"volumeWeighted", "quantile", "lowImpConnShare"})
    \cup {<<"search", "maxNumTransfers">>, <<"search.impedance", "supplementsFactor">>,
          <<"split", "BoxCoxPara">>}

\* Numbers the file gives in minutes and a run has in seconds.
InMinutes(x) == x[2] \in {"minSearchImpAbs", "minJourneyTimeAbs", "minTWT", "maxTWT",
                          "preAssignPeriod", "postAssignPeriod"}

Switches ==
    {<<"base", "calcAssign">>,
     <<"search", "allowDominanceForEquivalentConnections">>,
     <<"search", "useLastStopForEquivalentConnections">>,
     <<"search", "deactivateDominanceOfDirectConnections">>,
     <<"choice", "deleteConnsOutsideAssignmentPeriod">>,
     <<"choice", "deleteConnsWithDepBeforeAssPeriodForDepBasedDSeg">>,
     <<"choice", "deleteConnsWithArrAfterAssPeriodForArrBasedDSeg">>,
     <<"split", "depBasedDSeg">>, <<"split", "considerConnsWithPosDeltaT">>,
     <<"split", "BoxCoxTransformImp">>, <<"split.independence", "useIndependence">>}

\* Scales of the independence of connections: their own key, or a general one.
Scales ==
    [higherPjt  |-> "indepHigherPjtCoeff",  lowerPjt  |-> "indepLowerPjtCoeff",
     higherFare |-> "indepHigherFareCoeff", lowerFare |-> "indepLowerFareCoeff"]

GeneralScale(scale) == IF scale \in {"higherPjt", "higherFare"} THEN "indepHigherQualityCoeff"
                       ELSE "indepLowerQualityCoeff"

Exponent == [Kirchhoff |-> "KirchhoffExp", Logit |-> "logitExp", Lohse |-> "LohseExp",
             BoxCox |-> "BoxCoxExp"]

\* What the keys of searchExecution may name.
Tokens ==
    [formulation  |-> {"od_day", "timed", "all_zone", "demand_task"},
     mode         |-> {"origin_period", "interval_local"},
     origins      |-> {"declared", "active"},
     source       |-> {"service_day", "demand_induced"},
     destinations |-> {"declared", "demand"},
     projection   |-> {"od_day_pairs", "completion_targets", "demand_tasks"},
     retention    |-> {"tree", "slot"}]

-----------------------------------------------------------------------------
(* Search execution. *)

\* make_search_execution_config
Preset(formulation) ==
    [formulation |-> formulation, mode |-> "origin_period",
     diagnostic   |-> formulation \in {"timed", "all_zone"},
     origins      |-> IF formulation \in {"od_day", "all_zone"} THEN "declared" ELSE "active",
     source       |-> IF formulation = "demand_task" THEN "demand_induced" ELSE "service_day",
     destinations |-> IF formulation \in {"od_day", "all_zone"} THEN "declared" ELSE "demand",
     projection   |-> CASE formulation = "od_day" -> "od_day_pairs"
                        [] formulation = "all_zone" -> "completion_targets"
                        [] OTHER -> "demand_tasks",
     retention    |-> IF formulation \in {"od_day", "all_zone"} THEN "tree" ELSE "slot"]

DefaultRetention(projection) == IF projection = "demand_tasks" THEN "slot" ELSE "tree"

\* What a projection says of the formulation when the file names none.
FormulationOf(projection) ==
    CASE projection = "demand_tasks" -> "timed"
      [] projection = "od_day_pairs" -> "od_day"
      [] projection = "completion_targets" -> "all_zone"

\* Mutant: what a projection implies is put over the retention that is named.
Execution_ProjectionLast(named) ==
    LET base  == Preset(IF "formulation" \in DOMAIN named THEN named.formulation ELSE "od_day")
        plain == [f \in DOMAIN base |-> IF f \in DOMAIN named THEN named[f] ELSE base[f]]
    IN  IF "projection" \notin DOMAIN named THEN plain
        ELSE [plain EXCEPT !.retention = DefaultRetention(named.projection)]

\* parse_search_execution_config: later keys overrule what earlier ones imply.
Execution(named) ==
    LET base      == Preset(IF "formulation" \in DOMAIN named THEN named.formulation ELSE "od_day")
        plain     == [f \in DOMAIN base |->
                        IF f \in DOMAIN named \ {"retention"} THEN named[f] ELSE base[f]]
        projected == IF "projection" \notin DOMAIN named THEN plain
                     ELSE [plain EXCEPT !.retention = DefaultRetention(named.projection)]
        inferred  == IF "projection" \notin DOMAIN named \/ "formulation" \in DOMAIN named
                     THEN projected
                     ELSE [projected EXCEPT
                             !.formulation = FormulationOf(named.projection),
                             !.diagnostic  = named.projection # "od_day_pairs"]
    IN  IF "retention" \in DOMAIN named THEN [inferred EXCEPT !.retention = named.retention]
        ELSE inferred

-----------------------------------------------------------------------------
(* The file. *)

Has(root, x) == x[1] \in DOMAIN root /\ x[2] \in DOMAIN root[x[1]]

IsNumber(root, x) == Has(root, x) /\ root[x[1]][x[2]][1] = "number"
IsString(root, x) == Has(root, x) /\ root[x[1]][x[2]][1] = "string"
ValueAt(root, x)  == root[x[1]][x[2]][2]

\* bool_like_at: a bool, or the number 0 or 1.
IsSwitch(root, x) ==
    Has(root, x) /\ \/ root[x[1]][x[2]][1] = "bool"
                    \/ IsNumber(root, x) /\ ValueAt(root, x) \in {0, One}

Switch(root, x) == IF IsNumber(root, x) THEN ValueAt(root, x) = One ELSE ValueAt(root, x)

Independence(key) == <<"split.independence", key>>
ExponentAt(root)  == <<"split", Exponent[ValueAt(root, <<"split", "choiceModel">>)]>>

\* required_scale
ScaleKey(root, scale) ==
    IF Has(root, Independence(Scales[scale])) THEN Independence(Scales[scale])
    ELSE Independence(GeneralScale(scale))

\* Mutant: minutes are taken for seconds.
Seconds_AsWritten(x, value) == value

Whole(value) == IF value < 0 THEN -(One * ((-value) \div One)) ELSE One * (value \div One)

\* Of a number of transfers only the whole ones count.
Seconds(x, value) ==
    CASE InMinutes(x) -> 60 * value
      [] x = <<"search", "maxNumTransfers">> -> Whole(value)
      [] OTHER -> value

\* The section searchExecution may be missing; then nothing is named.
Named(root) ==
    IF "execution" \notin DOMAIN root THEN <<>>
    ELSE [k \in DOMAIN root["execution"] |-> root["execution"][k][2]]

Acceptable(root) ==
    /\ \A x \in Numbers : IsNumber(root, x)
    /\ \A x \in Numbers \ {<<"split", "BoxCoxPara">>} : Seconds(x, ValueAt(root, x)) >= 0
    /\ ValueAt(root, Independence("indepMaxDelta")) > 0
    /\ ValueAt(root, <<"search.temporal", "minTWT">>) <= ValueAt(root, <<"search.temporal", "maxTWT">>)
    /\ \A key \in {"quantile", "lowImpConnShare"} : ValueAt(root, <<"skim", key>>) <= One
    /\ ValueAt(root, <<"skim", "volumeWeighted">>) \in {0, One}
    /\ \A x \in Switches : IsSwitch(root, x)
    /\ Has(root, <<"base", "calcSkimMatr">>) /\ root["base"]["calcSkimMatr"][1] = "bool"
    /\ IsString(root, <<"skim", "func">>)
    /\ ValueAt(root, <<"skim", "func">>) \in {"Mean", "Quantile"}
    /\ IsString(root, <<"split", "choiceModel">>)
    /\ ValueAt(root, <<"split", "choiceModel">>) \in DOMAIN Exponent
    /\ IsNumber(root, ExponentAt(root)) /\ ValueAt(root, ExponentAt(root)) > 0
    /\ \A scale \in DOMAIN Scales :
          \A key \in {ScaleKey(root, scale), Independence(Scales[scale]),
                      Independence(GeneralScale(scale))} :
             Has(root, key) \/ key = ScaleKey(root, scale) =>
                IsNumber(root, key) /\ ValueAt(root, key) > 0
    /\ Has(root, <<"base", "outputExportProfile">>) =>
          /\ IsString(root, <<"base", "outputExportProfile">>)
          /\ ValueAt(root, <<"base", "outputExportProfile">>) \in {"aggregate", "full_path"}
    /\ "execution" \in DOMAIN root =>
          \A k \in DOMAIN root["execution"] :
             k \in DOMAIN Tokens => /\ IsString(root, <<"execution", k>>)
                                    /\ ValueAt(root, <<"execution", k>>) \in Tokens[k]

\* capacity_aware_assignment_config_from_params
CapacityAware(numbers) ==
    [split  |-> numbers[<<"split.perceived", "volCapRatioFactor">>] > 0,
     stored |-> numbers[<<"search.impedance", "volCapRatioFactor">>] > 0]

\* map_assignment_runtime_params, of a file that is acceptable.
Mapped(root) ==
    LET numbers == [x \in Numbers |-> Seconds(x, ValueAt(root, x))]
        named   == Named(root)
    IN  [numbers   |-> numbers,
         switches  |-> [x \in Switches |-> Switch(root, x)],
         skims     |-> ValueAt(root, <<"base", "calcSkimMatr">>),
         model     |-> <<ValueAt(root, <<"split", "choiceModel">>), ValueAt(root, ExponentAt(root))>>,
         scales    |-> [scale \in DOMAIN Scales |-> ValueAt(root, ScaleKey(root, scale))],
         execution |-> Execution([k \in DOMAIN named \cap DOMAIN Tokens |-> named[k]]),
         export    |-> IF Has(root, <<"base", "outputExportProfile">>)
                       THEN ValueAt(root, <<"base", "outputExportProfile">>) ELSE "aggregate",
         capacity  |-> CapacityAware(numbers)]

-----------------------------------------------------------------------------
(* Built-in settings: waits and tolerances are written as seconds. *)

BuiltInNumber(x) ==
    CASE x[2] \in {"minSearchImpFactor", "minJourneyTimeFactor", "accessTimeFactor"} -> 120
      [] x[2] \in {"minSearchImpAbs", "minJourneyTimeAbs"} -> 10 * One
      [] x[2] = "egressTimeFactor" -> 130
      [] x[2] = "walkTimeFactor" -> 150
      [] x[2] = "transferWaitTimeFactor" -> 225
      [] x[2] = "numTransfersFactor" -> IF x[1] = "search.impedance" THEN 12 * One ELSE 2 * One
      [] x[2] \in {"volCapRatioFactor", "minTWT", "preAssignPeriod"} -> 0
      [] x[2] = "maxTWT" -> 30 * One
      [] x[2] = "maxNumTransfers" -> 5 * One
      [] x[2] = "indepMaxDelta" -> 60 * One
      [] x[2] = "postAssignPeriod" -> 24 * 60 * 60 * One
      [] x[2] = "quantile" -> 50
      [] OTHER -> One

BuiltIn ==
    [numbers   |-> [x \in Numbers |-> BuiltInNumber(x)],
     switches  |-> [x \in Switches |->
                      x[2] \in {"calcAssign", "allowDominanceForEquivalentConnections", "depBasedDSeg",
                                "considerConnsWithPosDeltaT", "BoxCoxTransformImp",
                                "useIndependence"}],
     skims     |-> FALSE,
     model     |-> <<"BoxCox", 4 * One>>,
     scales    |-> [scale \in DOMAIN Scales |-> IF scale \in {"higherPjt", "higherFare"} THEN 60 ELSE 30],
     execution |-> Preset("od_day"),
     export    |-> "aggregate",
     capacity  |-> [split |-> FALSE, stored |-> FALSE]]

=============================================================================
