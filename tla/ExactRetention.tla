---------------------------- MODULE ExactRetention ----------------------------
(***************************************************************************)
(* What becomes of the complete connections of one projection slot of an   *)
(* interval-based search: the slot retains them as the tree completes      *)
(* them, search finalizes the slot, and the choice step of a demand task   *)
(* passes the result through a retention of its own                        *)
(* (search/projection/complete_connection.cpp,                             *)
(* complete_connection_retention.cpp, connection_admissibility.cpp,        *)
(* choice/choice.cpp).                                                     *)
(***************************************************************************)
EXTENDS CompleteConnections

CONSTANTS
    Configs,                    \* the settings considered
    Interval,                   \* the task's interval, [start, end]
    PreAssign, PostAssign       \* AssignmentPeriodConfig

ASSUME ConfigsAssumption ==
    Configs \subseteq
        [kind : {"demand", "target"},       \* of the slot
         direct_barred : BOOLEAN,
         basis : {"departure", "arrival"},
         delete_outside : BOOLEAN,
         delete_departures_before : BOOLEAN,
         delete_arrivals_after : BOOLEAN,
         consider_positive_delta_t : BOOLEAN]
ASSUME WindowAssumption ==
    /\ Interval \in [start : Int, end : Int]
    /\ PreAssign \in Nat /\ PostAssign \in Nat

VARIABLES
    config,
    stage,      \* "search", "choice" or "done"
    offered,    \* the connections the tree has completed
    retained,   \* the retention being filled, the slot's or the choice's
    found,      \* the task's result of search
    pending,    \* connections the choice step has still to look at
    chosen      \* the task's result of choice

vars == <<config, stage, offered, retained, found, pending, chosen>>

Init ==
    /\ config \in Configs
    /\ stage = "search"
    /\ offered = {} /\ retained = {} /\ found = {}
    /\ pending = {} /\ chosen = {}

------------------------------------------------------------------------------
\* assignment_period_window, demand_segment_reference_time
Begin == Interval.start - PreAssign
End   == Interval.end + PostAssign
Reference(c) == IF config.basis = "departure" THEN c.dep ELSE c.arr
DeltaT(c) == IF config.basis = "departure" THEN c.dep - Interval.end
                                           ELSE Interval.start - c.arr

\* connection_within_demand_segment_support
InSupport(c) == Begin <= Reference(c) /\ Reference(c) <= End

\* connection_deleted_by_assignment_period
Deleted(c) ==
    \/ config.delete_outside /\ ~InSupport(c)
    \/ /\ config.basis = "departure" /\ config.delete_departures_before
       /\ c.dep < Begin
    \/ /\ config.basis = "arrival" /\ config.delete_arrivals_after
       /\ c.arr > End
    \/ ~config.consider_positive_delta_t /\ DeltaT(c) > 0

\* connection_admissible_for_demand_segment; a completion target asks nothing.
Admissible(c) == InSupport(c) /\ ~Deleted(c)
Eligible(c) == config.kind = "target" \/ Admissible(c)

\* A bug: an accepted connection turns nothing out.
Retain_Keeps(direct_barred, S, c) ==
    IF \E k \in S : Dominates(direct_barred, k, c) THEN S ELSE S \cup {c}

\* A bug: what the candidate dominates goes before the candidate is refused.
Retain_EarlyErase(direct_barred, S, c) ==
    LET left == {k \in S : ~Dominates(FALSE, c, k)}
    IN  IF c \in S \/ \E k \in left : Dominates(direct_barred, k, c)
        THEN left ELSE left \cup {c}

\* retain_exact_complete_connection: a known trace and a dominated candidate
\* are refused, an accepted one turns out what it dominates.
Retain(direct_barred, S, c) ==
    IF c \in S \/ \E k \in S : Dominates(direct_barred, k, c) THEN S
    ELSE {k \in S : ~Dominates(direct_barred, c, k)} \cup {c}

\* A bug: the tolerances apply at the wrong rollout stage.
Finalized_Inverted(S) == {c \in S : ~ExactOnly \/ Within(c, S)}

\* finalize_complete_connection_retention
Finalized(S) == {c \in S : ExactOnly \/ Within(c, S)}

\* The tree completes c.  Windows that overlap complete a trace twice.
Offer(c) ==
    /\ stage = "search"
    /\ offered' = offered \cup {c}
    /\ retained' = IF Eligible(c) THEN Retain(config.direct_barred, retained, c)
                   ELSE retained
    /\ UNCHANGED <<config, stage, found, pending, chosen>>

\* A bug: choice is given what the slot retained, not its result.
FinishSearch_PassesAll ==
    /\ stage = "search"
    /\ found' = Finalized(retained)
    /\ IF config.kind = "demand"
       THEN /\ stage' = "choice"
            /\ retained' = {}
            /\ pending' = {c \in retained : Admissible(c)}
       ELSE stage' = "done" /\ UNCHANGED <<retained, pending>>
    /\ UNCHANGED <<config, offered, chosen>>

\* finalize_search_batch_results; a demand task goes on to the choice step.
FinishSearch ==
    /\ stage = "search"
    /\ found' = Finalized(retained)
    /\ IF config.kind = "demand"
       THEN /\ stage' = "choice"
            /\ retained' = {}
            /\ pending' = {c \in found' : Admissible(c)}
       ELSE stage' = "done" /\ UNCHANGED <<retained, pending>>
    /\ UNCHANGED <<config, offered, chosen>>

\* A bug: the choice step looks at the first connection only.
Choose_First(c) ==
    /\ stage = "choice"
    /\ pending' = {}
    /\ retained' = Retain(FALSE, retained, c)
    /\ UNCHANGED <<config, stage, offered, found, chosen>>

\* refine_complete_connection_ptrs retains with the default configuration.
Choose(c) ==
    /\ stage = "choice"
    /\ pending' = pending \ {c}
    /\ retained' = Retain(FALSE, retained, c)
    /\ UNCHANGED <<config, stage, offered, found, chosen>>

FinishChoice ==
    /\ stage = "choice" /\ pending = {}
    /\ chosen' = Finalized(retained)
    /\ stage' = "done"
    /\ UNCHANGED <<config, offered, retained, found, pending>>

Next ==
    \/ \E c \in Connections : Offer(c)
    \/ FinishSearch
    \/ \E c \in pending : Choose(c)
    \/ FinishChoice

Spec == Init /\ [][Next]_vars

------------------------------------------------------------------------------
TypeOK ==
    /\ config \in Configs
    /\ stage \in {"search", "choice", "done"}
    /\ offered \subseteq Connections
    /\ found \subseteq offered
    /\ pending \subseteq found
    /\ chosen \subseteq found
    /\ retained \subseteq offered

\* What a retention is for: of some connections, those none of them dominates.
Nondominated(direct_barred, S) ==
    {c \in S : ~\E d \in S : Dominates(direct_barred, d, c)}

EligibleOffered == {c \in offered : Eligible(c)}

\* Whatever the order of completion, and however often a trace comes, the
\* slot holds exactly the nondominated of the eligible connections completed
\* so far: none turned out was needed, none dominated has stayed.
ExactlyNondominated ==
    stage = "search" =>
        retained = Nondominated(config.direct_barred, EligibleOffered)

\* The result of search is what it would be with all eligible connections at
\* hand: those nondominated and within the tolerances of the minima over all
\* of them, although the minima are taken over what the slot retained
\* (tolerances.hpp:160, "min values among all connections to the
\* destination").
FoundExactly ==
    stage # "search" =>
        found = {c \in Nondominated(config.direct_barred, EligibleOffered) :
                    ExactOnly \/ Within(c, EligibleOffered)}

\* The choice step adds dominance and nothing else to the result of search:
\* tolerances and admissibility, applied once more to fewer connections, drop
\* nothing, and with the switch off choice confirms the result of search.
ChosenExactly ==
    stage = "done" /\ config.kind = "demand" =>
        /\ chosen = Nondominated(FALSE, found)
        /\ ~config.direct_barred => chosen = found

\* The slot does not change its mind: a connection once refused or turned out
\* is never retained later, however often the tree completes it again.
TurnedOutForGood ==
    [][stage = "search" /\ stage' = "search" =>
           (offered \ retained) \cap retained' = {}]_vars

\* complete_connection_retention.hpp:26: "When the flag is enabled, a direct
\* complete connection is not allowed to dominate another complete
\* connection."  What choice drops of a task, with the switch on, is dominated
\* by a connection that is not direct.
DirectNeverDominates ==
    stage = "done" /\ config.kind = "demand" /\ config.direct_barred =>
        \A c \in found \ chosen : \E d \in found : Dominates(TRUE, d, c)
==============================================================================
