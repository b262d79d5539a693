----------------------------- MODULE SplitKernel -----------------------------
(***************************************************************************)
(* How one demand is split over the alternatives of an interval            *)
(* (assignment/split): the impedance of an alternative, its independence   *)
(* of the others, choice weights, and the allocation in which the heaviest *)
(* alternative takes what rounding and suppression leave over.             *)
(*                                                                         *)
(* The doubles of the code are whole multiples of 1/Unit here, and every   *)
(* quotient is truncated, so that products do not add up by themselves,    *)
(* as rounded ones do not.  An alternative is                              *)
(*   [dep, arr, pjt, fare]: departure, arrival, perceived journey time.    *)
(***************************************************************************)
EXTENDS Integers, FiniteSets, FiniteSetsExt, Sequences

CONSTANTS
    Unit,             \* the probability 1
    Suppression,      \* numerical_suppression_threshold, in 1/Unit
    LoadThreshold,    \* load_accumulation_threshold
    TimeScale,        \* temporal_similarity_scale
    QualityScales,    \* [pjt |-> [higher, lower], fare |-> [higher, lower]]
    Gamma,            \* in 1/Unit
    QTime, QDeparture, QFare,
    EarlyWeight, LateWeight

ASSUME UnitAssumption == Unit \in Nat \ {0}
ASSUME SuppressionAssumption == Suppression \in 0 .. Unit - 1
ASSUME ScalesAssumption ==
    /\ TimeScale \in Nat \ {0}
    /\ QualityScales \in [{"pjt", "fare"} -> [{"higher", "lower"} -> Nat \ {0}]]
ASSUME QualitiesAssumption ==
    {Gamma, QTime, QDeparture, QFare, EarlyWeight, LateWeight} \subseteq Int

\* What the values of f add up to.
Total(f) == MapThenSumSet(LAMBDA i : f[i], DOMAIN f)
AtMost(x, bound) == IF x < bound THEN x ELSE bound
AtLeast(x, bound) == IF x > bound THEN x ELSE bound

\* Op of x, which is evaluated once.
With(x, Op(_)) == LET y == CHOOSE v \in {x} : v = x IN Op(y)

Distance(x, y) == IF x < y THEN y - x ELSE x - y

------------------------------------------------------------------------------
(* independence.cpp                                                        *)

\* How near in time two alternatives are, in 1/Unit: 0 from TimeScale on.
Proximity(a, b) ==
    Unit - AtMost(Unit, (Unit * (Distance(a.dep, b.dep) + Distance(a.arr, b.arr)))
                            \div (2 * TimeScale))

\* The scale of one quality: another one applies when b is the better of two.
Scale(scales, advantage) == IF advantage < 0 THEN scales.higher ELSE scales.lower

\* split_connection_influence: how much b takes from a's independence.
Influence(a, b) ==
    LET y  == b.pjt - a.pjt
        z  == b.fare - a.fare
        quality(sy, sz) ==
            AtMost(Unit, (Unit * (sz * Distance(y, 0) + sy * Distance(z, 0)))
                            \div (sy * sz))
    IN  (Proximity(a, b)
            * AtLeast(0, Unit - (Gamma * quality(Scale(QualityScales.pjt, y),
                                                 Scale(QualityScales.fare, z)))
                                   \div Unit))
          \div Unit

\* compute_split_independence, in 1/Unit.
Independence(as, i) ==
    (Unit * Unit) \div
        (Unit + Total([j \in DOMAIN as \ {i} |-> Influence(as[i], as[j])]))

------------------------------------------------------------------------------
(* impedance_transform.cpp, choice_weight.cpp                              *)

\* split_temporal_utility of a demand in [start, end].
TemporalUtility(reference, interval) ==
    EarlyWeight * AtLeast(0, interval.start - reference)
        + LateWeight * AtLeast(0, reference - interval.end)

Impedance(a, reference, interval) ==
    QTime * a.pjt + QDeparture * TemporalUtility(reference, interval)
        + QFare * a.fare

\* split_choice_log_weight, not in logarithms: Kirchhoff with exponent one.
\* Impedance is kept away from zero.
Weight(impedance, independence) ==
    AtLeast(1, (Unit * independence) \div AtLeast(1, impedance))

------------------------------------------------------------------------------
(* probability.cpp, demand_projection.cpp                                  *)

\* A bug: the first alternative is taken for the heaviest.
MaxWeightIndex_First(w) == Min(DOMAIN w)

MaxWeightIndex(w) ==
    Min({i \in DOMAIN w : \A j \in DOMAIN w : w[j] <= w[i]})

Except(f, r) == [i \in DOMAIN f |-> IF i = r THEN 0 ELSE f[i]]

\* Everyone's part of whole, rounded; r takes what is left of it.
WithResidual(f, r, whole) == [f EXCEPT ![r] = whole - Total(Except(f, r))]

Probabilities(w, r) ==
    WithResidual([i \in DOMAIN w |-> (Unit * w[i]) \div Total(w)], r, Unit)

\* project_demand
Projected(p, demand, r) ==
    WithResidual([i \in DOMAIN p |-> (demand * p[i]) \div Unit], r, demand)

\* is_numerically_significant_share
Significant(p, passengers, demand, i) ==
    p[i] > Suppression /\ Unit * passengers[i] > Suppression * demand

\* A bug: the mass of suppressed shares is dropped.
Compacted_Drops(f, kept, r, whole) ==
    [i \in DOMAIN f |-> IF i \in kept \cup {r} THEN f[i] ELSE 0]

\* compact_numerical_support: the masses of those not kept go to r.
Compacted(f, kept, r, whole) ==
    WithResidual([i \in DOMAIN f |-> IF i \in kept THEN f[i] ELSE 0], r, whole)

\* normalize_split_log_weights
Allocation(w, demand) ==
    With(MaxWeightIndex(w), LAMBDA r :
    With(Probabilities(w, r), LAMBDA p :
    With(Projected(p, demand, r), LAMBDA pax :
    With({i \in DOMAIN w \ {r} : Significant(p, pax, demand, i)}, LAMBDA kept :
        [residual   |-> r,
         probability |-> Compacted(p, kept, r, Unit),
         passengers |-> Compacted(pax, kept, r, demand),
         suppressed |-> Cardinality(DOMAIN w) - Cardinality(kept) - 1]))))

\* project_demand's count: an alternative is significant by either number.
SignificantCount(p, passengers, demand) ==
    Cardinality({i \in DOMAIN p : \/ p[i] > Suppression
                                  \/ Unit * passengers[i] > Suppression * demand})

\* compute_split_share_allocation: the alternatives' independence, weights and
\* shares of one demand in one interval; as is a sequence, or a part of one.
\* reference[i] is the departure or the arrival of as[i], by the basis.
SplitShares(as, reference, interval, demand) ==
    With([i \in DOMAIN as |-> Weight(Impedance(as[i], reference[i], interval),
                                     Independence(as, i))],
         LAMBDA weights : Allocation(weights, demand))

------------------------------------------------------------------------------
(* split_kernel.cpp, load_accumulation.cpp                                 *)

\* accumulate_loads along one of the three kinds of index.
Accumulated(passengers, index) ==
    [k \in {index[i] : i \in DOMAIN index} |->
        Total([i \in {j \in DOMAIN index : index[j] = k} |-> passengers[i]])]

SignificantLoads(loads) == Cardinality({k \in DOMAIN loads : loads[k] > LoadThreshold})

\* execute_split_kernel: the compacted probabilities are projected anew.
Kernel(w, demand, trips, stops, segments) ==
    With(Allocation(w, demand), LAMBDA a :
    With(Projected(a.probability, demand, a.residual), LAMBDA pax :
    With(SignificantCount(a.probability, pax, demand), LAMBDA significant :
    With([trip |-> Accumulated(pax, trips),
          stop |-> Accumulated(pax, stops),
          segment |-> Accumulated(pax, segments)], LAMBDA loads :
        [probability |-> a.probability,
         passengers  |-> pax,
         loads       |-> loads,
         significant |-> significant,
         suppressed  |-> Cardinality(DOMAIN w) - significant,
         busy        |-> SignificantLoads(loads.trip) + SignificantLoads(loads.stop)
                           + SignificantLoads(loads.segment),
         total_load  |-> Total(pax)]))))
==============================================================================
