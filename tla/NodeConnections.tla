--------------------------- MODULE NodeConnections ---------------------------
(***************************************************************************)
(* The algebra of C_y, the connections a search tree keeps at one physical *)
(* node y (search/frontier/retention_operations.cpp,                       *)
(* search/relations/node_connection_relevance.cpp, search_pruning.cpp).    *)
(* An entry is the metrics of a prefix that ends at y and the label that   *)
(* keeps the prefix's branches alive; entries are ordered by arrival.      *)
(***************************************************************************)
EXTENDS BranchSteps, FiniteSets, FiniteSetsExt

CONSTANTS
    Tolerances      \* SearchTolerances: multiplier and addend per criterion

ASSUME TolerancesAssumption ==
    Tolerances \in [imp_mult : Nat, imp_add : Nat, jt_mult : Nat,
                    jt_add : Nat, nt_mult : Nat, nt_add : Nat]

\* What a read-write loop over a vector leaves of it, in its order
\* (remove_inactive_node_connection_metrics, compact_frontier_queue).
Selected(s, kept) ==
    LET upto[n \in 0 .. Len(s)] ==
            IF n = 0 THEN <<>>
            ELSE IF s[n] \in kept THEN Append(upto[n - 1], s[n])
            ELSE upto[n - 1]
    IN  upto[Len(s)]

\* dominates_exactly: no worse in departure, arrival, impedance and
\* transfers, and not equal in all four.
Dominates(m, n) ==
    /\ m.dep >= n.dep /\ m.arr <= n.arr /\ m.imp <= n.imp /\ m.nt <= n.nt
    /\ \/ m.dep > n.dep \/ m.arr < n.arr \/ m.imp < n.imp \/ m.nt < n.nt

\* std::lower_bound by arrival: the entries before the insertion point.
Earlier(entries, m) ==
    Cardinality({i \in DOMAIN entries : entries[i].m.arr < m.arr})

\* A bug: a candidate that leaves later is rejected for an earlier one.
Relevant_IgnoresDeparture(entries, m) ==
    \A i \in DOMAIN entries : LET e == entries[i].m IN
        ~(e.arr < m.arr /\ e.imp <= m.imp /\ e.nt <= m.nt)

\* node_connection_relevant scans the entries up to std::upper_bound.
Relevant(entries, m) ==
    \A i \in DOMAIN entries :
        entries[i].m.arr <= m.arr => ~Dominates(entries[i].m, m)

\* SearchPruningSummary of some entries; {} is the empty summary.
Summary(entries) ==
    LET Least(f(_)) == Min({f(entries[i].m) : i \in DOMAIN entries})
    IN  IF entries = <<>> THEN {}
        ELSE {[imp |-> Least(LAMBDA m : m.imp),
               jt  |-> Least(LAMBDA m : m.jt),
               nt  |-> Least(LAMBDA m : m.nt)]}

\* update_node_connection_summary_with_metrics
Improved(summary, m) ==
    IF summary = {} THEN {[imp |-> m.imp, jt |-> m.jt, nt |-> m.nt]}
    ELSE {[imp |-> Min({s.imp, m.imp}), jt |-> Min({s.jt, m.jt}),
           nt  |-> Min({s.nt, m.nt})] : s \in summary}

\* within_approximate_retention
WithinTolerance(summary, m) ==
    /\ m.nt <= MaxTransfers
    /\ \A s \in summary :
        /\ m.imp <= Tolerances.imp_mult * s.imp + Tolerances.imp_add
        /\ m.jt  <= Tolerances.jt_mult * s.jt + Tolerances.jt_add
        /\ m.nt  <= Tolerances.nt_mult * s.nt + Tolerances.nt_add

\* evaluate_node_connection_set.  retain_connection_tree_node asks it only
\* when the set holds an entry; it accepts every first entry.  An OD-day
\* search is refused unless both layers of the pruning plan are on
\* (validate_od_day_production_batch_contract).
Accepts(entries, summary, m) ==
    entries # <<>> => Relevant(entries, m) /\ WithinTolerance(summary, m)

\* insert_node_connection_metrics: what it removes, what it leaves, and the
\* summary it maintains.
DominatedLabels(entries, m) ==
    {entries[i].label : i \in {j \in DOMAIN entries :
        j > Earlier(entries, m) /\ Dominates(m, entries[j].m)}}

Insert(entries, m, label) ==
    LET k == Earlier(entries, m)
        surviving == {e \in Range(entries) : ~Dominates(m, e.m)}
    IN  SubSeq(entries, 1, k) \o <<[m |-> m, label |-> label]>>
          \o Selected(SubSeq(entries, k + 1, Len(entries)), surviving)

SummaryAfterInsert(entries, summary, m, label) ==
    IF DominatedLabels(entries, m) = {} THEN Improved(summary, m)
    ELSE Summary(Insert(entries, m, label))

------------------------------------------------------------------------------

\* What the class comment of ConnectionSetCy (search/model/retention.hpp)
\* promises of one set.
Ordered(entries) ==
    \A i, j \in DOMAIN entries : i < j => entries[i].m.arr <= entries[j].m.arr

Nondominated(entries) ==
    \A i, j \in DOMAIN entries : ~Dominates(entries[i].m, entries[j].m)

OneLabelEach(entries) ==
    \A i, j \in DOMAIN entries :
        entries[i].label = entries[j].label => i = j

Canonical(entries, summary) ==
    /\ Ordered(entries)
    /\ Nondominated(entries)
    /\ OneLabelEach(entries)
    /\ summary = Summary(entries)
==============================================================================
