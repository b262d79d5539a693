------------------------------ MODULE TimeDomain ------------------------------
(***************************************************************************)
(* Search-time domains: the windows of the day in which the first boarding *)
(* of a connection may lie.  A domain is a sequence of closed windows, in  *)
(* order and apart from each other.  A catalog holds one domain for the    *)
(* whole demand, for each origin or for each pair; an execution holds what *)
(* an origin's tree uses.                                                  *)
(*                                                                         *)
(* Times are integers.  A policy is a record: "fixed" paddings, or an      *)
(* impedance delta that is divided by the weight of a late or early        *)
(* departure.  A catalog holds the slices of its own mode only, so the     *)
(* code's checks for slices of another mode have nothing to look at here.  *)
(***************************************************************************)
EXTENDS Integers, Sequences, SequencesExt, FiniteSets, FiniteSetsExt

CONSTANT DayEnd             \* the end of the service day

-----------------------------------------------------------------------------
(* Windows and domains. *)

WindowLess(l, r) == l.begin < r.begin \/ (l.begin = r.begin /\ l.end < r.end)

InWindow(w, t) == w.begin <= t /\ t <= w.end

\* The first window that does not end before t decides.
InDomain(domain, t) ==
    LET notBefore == {i \in DOMAIN domain : t <= domain[i].end}
    IN  notBefore # {} /\ InWindow(domain[Min(notBefore)], t)

\* A bug: the later window's end is taken for the end of both.
Hull_LastEnd(l, r) == [begin |-> l.begin, end |-> r.end]

Hull(l, r) == [begin |-> Min({l.begin, r.begin}), end |-> Max({l.end, r.end})]

MergedWith(merged, w) ==
    IF merged # <<>> /\ w.begin <= Last(merged).end
    THEN Front(merged) \o <<Hull(Last(merged), w)>>
    ELSE Append(merged, w)

\* normalize_search_time_windows: sorted, then merged where they touch.
Normalized(windows) ==
    FoldLeft(MergedWith, <<>>, SetToSortSeq(windows, WindowLess))

IsNormalized(domain) ==
    \A i \in DOMAIN domain :
       /\ domain[i].begin <= domain[i].end
       /\ i > 1 => domain[i - 1].end < domain[i].begin

DomainValid(domain) ==
    IsNormalized(domain) /\ Normalized(ToSet(domain)) = domain

Expanded(interval, padding) ==
    [begin |-> interval.start - padding.before, end |-> interval.end + padding.after]

-----------------------------------------------------------------------------
(* Padding. *)

NoPadding == [before |-> 0, after |-> 0]

PaddingResolvable(policy) ==
    IF policy.kind = "fixed"
    THEN policy.before >= 0 /\ policy.after >= 0
    ELSE policy.delta >= 0 /\ policy.q * policy.early > 0 /\ policy.q * policy.late > 0

Padding(policy) ==
    IF policy.kind = "fixed"
    THEN [before |-> policy.before, after |-> policy.after]
    ELSE [before |-> policy.delta \div (policy.q * policy.early),
          after  |-> policy.delta \div (policy.q * policy.late)]

-----------------------------------------------------------------------------
(* Catalogs: what the demand asks for.                                     *)

\* The rows with passengers are the active ones.
Active(rows) == {rows[i] : i \in {j \in DOMAIN rows : rows[j].passengers > 0}}

IntervalOf(intervals, id) == CHOOSE x \in ToSet(intervals) : x.id = id

IntervalIdsUnique(intervals) ==
    \A i, j \in DOMAIN intervals : intervals[i].id = intervals[j].id => i = j

\* validate_search_time_domain_builder_input
BuilderInputValid(rows, intervals, policy) ==
    /\ IntervalIdsUnique(intervals)
    /\ \A i \in DOMAIN intervals : intervals[i].start < intervals[i].end
    /\ PaddingResolvable(policy)
    /\ \A r \in Active(rows) : \E x \in ToSet(intervals) : x.id = r.interval

SliceKey(mode, row) ==
    CASE mode = "global"     -> <<>>
      [] mode = "per_origin" -> <<row.from>>
      [] mode = "per_od"     -> <<row.from, row.to>>

SliceKeys(mode, rows) ==
    {SliceKey(mode, r) : r \in Active(rows)} \cup (IF mode = "global" THEN {<<>>} ELSE {})

Catalog(mode, rows, intervals, padding) ==
    [mode    |-> mode,
     padding |-> padding,
     slices  |-> [k \in SliceKeys(mode, rows) |->
                    Normalized({Expanded(IntervalOf(intervals, r.interval), padding) :
                                   r \in {a \in Active(rows) : SliceKey(mode, a) = k}})]]

\* find_search_time_domain, for a pair; the empty domain when there is none.
SliceFor(catalog, row) ==
    LET k == SliceKey(catalog.mode, row)
    IN  IF k \in DOMAIN catalog.slices THEN catalog.slices[k] ELSE <<>>

CatalogValid(catalog) ==
    /\ catalog.padding.before >= 0 /\ catalog.padding.after >= 0
    /\ \A k \in DOMAIN catalog.slices : DomainValid(catalog.slices[k])

\* validate_search_time_domain_builder_output
CoversDemand(catalog, rows) == \A r \in Active(rows) : SliceFor(catalog, r) # <<>>

-----------------------------------------------------------------------------
(* Executions: what the tree of an origin uses.                            *)

\* plan_search_time_domain_execution: which modes a rollout stage lets through.
Planned(stage, mode) ==
    CASE stage = "disabled"          -> "off"
      [] stage = "global_strict"     -> IF mode = "global" THEN "strict" ELSE "refused"
      [] stage = "per_origin_strict" -> IF mode = "per_od" THEN "refused" ELSE "strict"
      [] stage = "conservative"      -> IF mode = "per_od" THEN "fallback" ELSE "strict"

\* The pairs of an origin are searched together, over the union of their windows.
UnionOfOrigin(catalog, o) ==
    Normalized(UNION {ToSet(catalog.slices[k]) : k \in {x \in DOMAIN catalog.slices : x[1] = o}})

Adapted(catalog, adaptation) ==
    [mode       |-> catalog.mode,
     adaptation |-> adaptation,
     padding    |-> catalog.padding,
     slices     |-> IF catalog.mode = "per_od"
                    THEN [k \in {<<x[1]>> : x \in DOMAIN catalog.slices} |->
                             UnionOfOrigin(catalog, k[1])]
                    ELSE catalog.slices]

\* adapt_search_time_domain_for_origin_search refuses pairs it may not merge.
Adaptable(catalog, adaptation) == ~(adaptation = "strict" /\ catalog.mode = "per_od")

ExecutionValid(execution) ==
    /\ CatalogValid(execution)
    /\ ~(execution.adaptation = "strict" /\ execution.mode = "per_od")

HasDomain(execution, origin) ==
    <<>> \in DOMAIN execution.slices \/ <<origin>> \in DOMAIN execution.slices

DomainOf(execution, origin) ==
    IF <<>> \in DOMAIN execution.slices THEN execution.slices[<<>>]
                                        ELSE execution.slices[<<origin>>]

FullPeriodDomain(source, intervals, period) ==
    IF source = "service_day"
    THEN Normalized({[begin |-> 0, end |-> DayEnd]})
    ELSE Normalized({Expanded(intervals[i], period) : i \in DOMAIN intervals})

\* An assignment period needs intervals to be a period of.
FullPeriodDefined(source, intervals) ==
    source = "assignment_period" =>
       /\ intervals # <<>>
       /\ \A i \in DOMAIN intervals : intervals[i].start < intervals[i].end

FullPeriod(source, intervals, period) ==
    [mode       |-> "global",
     adaptation |-> "strict",
     padding    |-> IF source = "service_day" THEN NoPadding ELSE period,
     slices     |-> [k \in {<<>>} |-> FullPeriodDomain(source, intervals, period)]]
=============================================================================
