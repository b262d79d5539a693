----------------------------- MODULE DemandSplit -----------------------------
(***************************************************************************)
(* Splitting the demand of a day over the chosen alternatives              *)
(* (assignment/split/split.cpp), and adding up the origins as they are     *)
(* delivered (detail/pipeline_od_day.cpp).                                 *)
(*                                                                         *)
(* The search delivers the origins in any order.  Each one is split, its   *)
(* elementary loads are projected, both are validated, and they join those *)
(* of the others.  WholeDay is the same split done at once, and TimedSplit *)
(* the one of the demand tasks.                                            *)
(*                                                                         *)
(* A support is a record [dep, arr, pjt, fare, legs]; a leg is a record    *)
(* [trip, from, to], a ride past the positions from .. to-1 of its trip.   *)
(***************************************************************************)
EXTENDS SplitKernel, Sequences, SequencesExt

CONSTANTS
    Intervals,     \* interval id -> [start, end]
    PreAssign, PostAssign,
    Bases,         \* the demand segment bases tried
    Demands,       \* the demand files tried: sequences of entries
                   \*   [origin, destination, interval, passengers]
    ChosenSets     \* the choices tried: from some pairs <<o, d>> to sequences
                   \* of supports

VARIABLES
    basis,         \* "departure" or "arrival"
    demand, choice,
    waiting,       \* origins not yet delivered
    split,         \* DemandSplitResult: shares, unassigned, certificates
    loads,         \* ElementarySegmentLoadAccumulator: item -> passengers
    state          \* "loading", "done" or "failed"

vars == <<basis, demand, choice, waiting, split, loads, state>>

Nothing == [shares |-> <<>>, unassigned |-> <<>>, certificates |-> <<>>]

Positive(e) == e.passengers > 0
Key(x) == <<x.origin, x.destination, x.interval>>
Pair(x) == <<x.origin, x.destination>>

------------------------------------------------------------------------------
(* One entry of the demand                                                 *)

ReferenceTime(s) == IF basis = "departure" THEN s.dep ELSE s.arr

\* connection_admissible_for_demand_segment with the default deletions.
Admissible(s, a) ==
    /\ Intervals[a].start - PreAssign <= ReferenceTime(s)
    /\ ReferenceTime(s) <= Intervals[a].end + PostAssign

\* interval_split_connection_alternatives: C(a) of the entry.
Candidates(e) == IF Pair(e) \in DOMAIN choice THEN choice[Pair(e)] ELSE <<>>
IntervalAlternatives(e) ==
    SelectSeq(Candidates(e), LAMBDA s : Admissible(s, e.interval))

\* derive_split_alternatives and compute_materialized_split_share_allocation
AllocationOf(as, e) ==
    SplitShares(as, [i \in DOMAIN as |-> ReferenceTime(as[i])],
                Intervals[e.interval], e.passengers)

\* append_split_shares over the alternatives as.
SharesOver(as, e) ==
    IF as = <<>> THEN <<>>
    ELSE With(AllocationOf(as, e), LAMBDA a :
         With(SelectSeq([i \in DOMAIN as |-> i], LAMBDA i :
                  a.probability[i] > 0 \/ a.passengers[i] > 0), LAMBDA emitted :
             [k \in DOMAIN emitted |->
                [origin |-> e.origin, destination |-> e.destination,
                 interval |-> e.interval, support |-> as[emitted[k]],
                 passengers |-> a.passengers[emitted[k]],
                 probability |-> a.probability[emitted[k]]]]))

SumOver(shares, Of(_)) == MapThenSumSet(LAMBDA i : Of(shares[i]), DOMAIN shares)
Passengers(x) == x.passengers
Probability(x) == x.probability

\* append_od_day_split_certificate
Certificate(e, admissible, shares, reason) ==
    [origin |-> e.origin, destination |-> e.destination, interval |-> e.interval,
     candidate |-> Len(Candidates(e)), admissible |-> Len(admissible),
     rejected |-> Len(Candidates(e)) - Len(admissible),
     share_count |-> Len(shares), passengers |-> e.passengers,
     assigned |-> SumOver(shares, Passengers),
     unassigned |-> IF reason = "none" THEN 0 ELSE e.passengers,
     probability |-> SumOver(shares, Probability), reason |-> reason]

Reason(e, as) ==
    IF Pair(e) \notin DOMAIN choice THEN "NoChosenAlternatives"
    ELSE IF as = <<>> THEN "NoIntervalAdmissibleSupport"
    ELSE "none"

\* The body of the loop over the demand: an entry is split, or is unassigned
\* for a reason, and has its certificate in either case.
EntryResult(e) ==
    With(IntervalAlternatives(e), LAMBDA as :
    With(SharesOver(as, e), LAMBDA shares :
    With(Reason(e, as), LAMBDA reason :
        [shares |-> shares,
         unassigned |-> IF reason = "none" THEN <<>>
                        ELSE <<[origin |-> e.origin, destination |-> e.destination,
                                interval |-> e.interval, reason |-> reason,
                                passengers |-> e.passengers]>>,
         certificates |-> <<Certificate(e, as, shares, reason)>>])))

\* A bug: the unassigned entries of the last origin replace the others'.
Joined_Overwrites(r, s) == [shares |-> r.shares \o s.shares,
                            unassigned |-> s.unassigned,
                            certificates |-> r.certificates \o s.certificates]

\* append_origin_day_split_result
Joined(r, s) == [shares |-> r.shares \o s.shares,
                 unassigned |-> r.unassigned \o s.unassigned,
                 certificates |-> r.certificates \o s.certificates]

SplitOf(entries) ==
    FoldLeft(LAMBDA r, e : Joined(r, EntryResult(e)), Nothing, entries)

\* split_origin_demand_over_od_day_paths, before its checks.
OfOrigin(o) == SelectSeq(demand, LAMBDA e : Positive(e) /\ e.origin = o)
OriginSplit(o) == SplitOf(OfOrigin(o))

\* build_od_demand_intervals: by pair, in the order of their keys.
Before(p, q) == p[1] < q[1] \/ (p[1] = q[1] /\ p[2] < q[2])
Grouped ==
    LET entries == SelectSeq(demand, Positive)
        pairs   == SetToSortSeq({Pair(entries[i]) : i \in DOMAIN entries}, Before)
    IN  FlattenSeq([k \in DOMAIN pairs |->
                        SelectSeq(entries, LAMBDA e : Pair(e) = pairs[k])])

\* split_demand_over_od_day_paths
WholeDay == SplitOf(Grouped)

\* split_demand_over_connections_impl: a task without connections gives
\* nothing at all, neither shares nor an unassigned entry.
TimedSplit ==
    LET entries == SelectSeq(demand, LAMBDA e :
                        Positive(e) /\ IntervalAlternatives(e) # <<>>)
    IN  FlattenSeq([i \in DOMAIN entries |->
                        SharesOver(IntervalAlternatives(entries[i]), entries[i])])

------------------------------------------------------------------------------
(* Elementary loads, capacity/load_projection.cpp                          *)

\* vehicle_journey_items_occupied
Occupied(leg) == {[trip |-> leg.trip, from |-> i] : i \in leg.from .. leg.to - 1}

Riding(shares) ==
    UNION {{<<i, l>> : l \in DOMAIN shares[i].support.legs} : i \in DOMAIN shares}
LegOf(shares, r) == shares[r[1]].support.legs[r[2]]

\* build_vehicle_journey_item_loads
LoadsOf(shares) ==
    LET At(r) == {[interval |-> shares[r[1]].interval, item |-> i] :
                    i \in Occupied(LegOf(shares, r))}
    IN  [k \in UNION {At(r) : r \in Riding(shares)} |->
            MapThenSumSet(LAMBDA r : shares[r[1]].passengers,
                          {r \in Riding(shares) : k \in At(r)})]

\* validate_vehicle_journey_item_load_projection
IsProjection(item_loads, shares) ==
    Total(item_loads)
        = MapThenSumSet(LAMBDA r : shares[r[1]].passengers
                            * (LegOf(shares, r).to - LegOf(shares, r).from),
                        Riding(shares))

\* A bug: a load that is there already is replaced.
Added_Replaces(f, g) ==
    [k \in DOMAIN f \cup DOMAIN g |-> IF k \in DOMAIN g THEN g[k] ELSE f[k]]

\* accumulate_elementary_segment_loads
Added(f, g) ==
    [k \in DOMAIN f \cup DOMAIN g |->
        (IF k \in DOMAIN f THEN f[k] ELSE 0) + (IF k \in DOMAIN g THEN g[k] ELSE 0)]

------------------------------------------------------------------------------
(* The checks of the code                                                  *)

Unique(entries) ==
    \A i, j \in DOMAIN entries : Key(entries[i]) = Key(entries[j]) => i = j

\* validate_connection_split_supports
SupportsValid(r) ==
    \A s \in Range(r.shares) :
        s.passengers > 0 /\ s.probability > 0 /\ Admissible(s.support, s.interval)

\* validate_od_day_demand_conservation of the entries of one origin, or of all.
Conserved(r, entries) ==
    /\ Unique(entries)
    /\ \A x \in Range(r.shares) \cup Range(r.unassigned) :
          \E e \in Range(entries) : Key(x) = Key(e)
    /\ \A u \in Range(r.unassigned) : u.passengers > 0
    /\ \A e \in Range(entries) :
          LET shares == SelectSeq(r.shares, LAMBDA s : Key(s) = Key(e))
              left   == SelectSeq(r.unassigned, LAMBDA u : Key(u) = Key(e))
              assigned == SumOver(shares, Passengers)
          IN  /\ assigned > 0 => SumOver(shares, Probability) = Unit
              /\ assigned + SumOver(left, Passengers) = e.passengers

\* validate_od_day_split_certificates
Certified(r, entries) ==
    /\ Unique(r.certificates)
    /\ \A e \in Range(entries) : \E c \in Range(r.certificates) :
          /\ Key(c) = Key(e)
          /\ c.passengers = e.passengers
          /\ IF c.admissible > 0
             THEN /\ c.share_count > 0 /\ c.reason = "none"
                  /\ c.probability = Unit
                  /\ c.assigned = e.passengers /\ c.unassigned = 0
             ELSE /\ c.share_count = 0 /\ c.reason # "none"
                  /\ c.probability = 0
                  /\ c.assigned = 0 /\ c.unassigned = e.passengers

\* validate_split_step_input, of the demand file: what is refused is refused
\* before the timed split.
TimedInputValid ==
    /\ demand # <<>>
    /\ Unique(demand)
    /\ \A e \in Range(demand) : e.passengers >= 0 /\ e.interval \in DOMAIN Intervals

\* validate_split_step_output: of a row the choice has connections for, all.
TimedOutputValid(shares) ==
    /\ \A s \in Range(shares) : \E e \in Range(demand) :
          Key(s) = Key(e) /\ s.support \in Range(IntervalAlternatives(e))
    /\ \A e \in {x \in Range(demand) : Positive(x)} :
          IntervalAlternatives(e) # <<>> =>
              LET of == SelectSeq(shares, LAMBDA s : Key(s) = Key(e))
              IN  /\ SumOver(of, Probability) = Unit
                  /\ SumOver(of, Passengers) = e.passengers

\* validate_od_day_origin_load_result
Valid(r, entries) ==
    SupportsValid(r) /\ Conserved(r, entries) /\ Certified(r, entries)

------------------------------------------------------------------------------
Init ==
    /\ basis \in Bases
    /\ demand \in Demands
    /\ choice \in ChosenSets
    /\ waiting = {e.origin : e \in {x \in Range(demand) : Positive(x)}}
    /\ split = Nothing
    /\ loads = <<>>
    /\ state = "loading"

\* The origin sink: load_origin_day_path_demand,
\* validate_od_day_origin_load_result, and the appends.
LoadOrigin(o) ==
    /\ state = "loading"
    /\ o \in waiting
    /\ \E r \in {OriginSplit(o)} : \E l \in {LoadsOf(r.shares)} :
          IF Valid(r, OfOrigin(o)) /\ IsProjection(l, r.shares)
           THEN /\ split' = Joined(split, r)
                /\ loads' = Added(loads, l)
                /\ waiting' = waiting \ {o}
                /\ UNCHANGED state
           ELSE /\ state' = "failed"
                /\ UNCHANGED <<waiting, split, loads>>
    /\ UNCHANGED <<basis, demand, choice>>

\* validate_od_day_primary_load_contour
Finish ==
    /\ state = "loading"
    /\ waiting = {}
    /\ state' = IF IsProjection(loads, split.shares) THEN "done" ELSE "failed"
    /\ UNCHANGED <<basis, demand, choice, waiting, split, loads>>

Next == Finish \/ \E o \in waiting : LoadOrigin(o)

Spec == Init /\ [][Next]_vars /\ WF_vars(Next)

------------------------------------------------------------------------------
\* The checks between the steps never stop a run, unless the demand file has
\* two rows for one pair and interval, which nothing before them refuses:
\* whatever is suppressed or rounded, every row is split whole over positive
\* shares, or is unassigned as a whole, for a reason.
FailsOnDuplicatesOnly ==
    state = "failed" => ~Unique(SelectSeq(demand, Positive))

\* Split origin by origin, in any order of delivery, is the split of the day:
\* the same shares, unassigned entries, certificates and loads, and nothing of
\* an origin twice; and the split of the demand tasks has the same shares, but
\* leaves out what is unassigned.  (Only the order of the lists depends on the delivery.)
OriginsAddUp ==
    state = "done" =>
        \A day \in {WholeDay} : \A timed \in {TimedSplit} :
            /\ \A part \in DOMAIN Nothing : ToBag(split[part]) = ToBag(day[part])
            /\ loads = LoadsOf(day.shares)
            /\ Valid(split, Grouped)
            /\ TimedInputValid => /\ TimedOutputValid(timed)
                                  /\ ToBag(timed) = ToBag(split.shares)

\* Among the alternatives of one demand, what is left over goes to the best:
\* one of more weight never gets less, one suppressed gets nothing anywhere
\* else, and projecting the compacted probabilities again (split_kernel.cpp)
\* gives the same passengers and the same loads in every view.
HeavierGetsMore ==
    \A e \in {x \in Range(demand) : Positive(x)} :
      \A as \in {IntervalAlternatives(e)} \ {<<>>} :
        \A a \in {AllocationOf(as, e)},
           w \in {[i \in DOMAIN as |->
                     Weight(Impedance(as[i], ReferenceTime(as[i]), Intervals[e.interval]),
                            Independence(as, i))]} :
          \A k \in {Kernel(w, e.passengers, [i \in DOMAIN as |-> as[i].legs[1].trip],
                           [i \in DOMAIN as |-> 0], [i \in DOMAIN as |-> i])} :
            /\ \A i, j \in DOMAIN as :
                  w[i] >= w[j] /\ a.passengers[i] < a.passengers[j]
                    => w[i] = w[j] /\ j = a.residual
            /\ k.passengers = a.passengers
            /\ \A view \in DOMAIN k.loads : Total(k.loads[view]) = k.total_load
            /\ k.total_load = e.passengers

==============================================================================
