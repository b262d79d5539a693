-------------------------- MODULE CompleteConnections --------------------------
(***************************************************************************)
(* The algebra of complete connections from one zone to another: exact     *)
(* dominance, the preference order of day paths, and the tolerances of the *)
(* choice step (complete_connection_retention.cpp, day_path/retention.cpp).*)
(* A connection is its trace with its metrics; two connections of equal    *)
(* metrics differ in other fields.                                         *)
(***************************************************************************)
EXTENDS Integers

CONSTANTS
    Connections,        \* whatever a search can complete
    ChoiceTolerances,   \* multiplier and addend per criterion
    ExactOnly           \* ChoiceRolloutStage: no tolerances at all

ASSUME MetricsAssumption ==
    \A c \in Connections : /\ c.dep \in Int /\ c.arr \in Int
                           /\ c.nt \in Nat  /\ c.imp \in Int
ASSUME ChoiceTolerancesAssumption ==
    ChoiceTolerances \in [imp_mult : Nat, imp_add : Nat, jt_mult : Nat,
                          jt_add : Nat, nt_mult : Nat, nt_add : Nat]
ASSUME ExactOnlyAssumption == ExactOnly \in BOOLEAN

JourneyTime(c) == c.arr - c.dep

\* is_direct_connection, complete_connection_can_dominate; direct_barred is
\* the switch deactivate_dominance_of_direct_connections.
CanDominate(direct_barred, c) == direct_barred => c.nt # 0

\* complete_connection_dominates
Dominates(direct_barred, c, d) ==
    /\ CanDominate(direct_barred, c)
    /\ c.dep >= d.dep /\ c.arr <= d.arr /\ c.imp <= d.imp /\ c.nt <= d.nt
    /\ \/ c.dep > d.dep \/ c.arr < d.arr \/ c.imp < d.imp \/ c.nt < d.nt

\* better_day_path_representative: dominance first, then impedance, journey
\* time, transfers, arrival and, last, the later departure.
Better(c, d) ==
    \/ Dominates(FALSE, c, d)
    \/ /\ ~Dominates(FALSE, d, c)
       /\ \/ c.imp < d.imp
          \/ /\ c.imp = d.imp
             /\ \/ JourneyTime(c) < JourneyTime(d)
                \/ /\ JourneyTime(c) = JourneyTime(d)
                   /\ \/ c.nt < d.nt
                      \/ /\ c.nt = d.nt
                         /\ \/ c.arr < d.arr
                            \/ c.arr = d.arr /\ c.dep > d.dep

\* within_complete_connection_tolerances, with the minima taken over S.
\* Multipliers are not negative, so that to be within the bound of the
\* minimum is to be within the bound of every member.
Within(c, S) ==
    \A s \in S :
        /\ c.imp <= ChoiceTolerances.imp_mult * s.imp
                        + ChoiceTolerances.imp_add
        /\ JourneyTime(c) <= ChoiceTolerances.jt_mult * JourneyTime(s)
                                 + ChoiceTolerances.jt_add
        /\ c.nt  <= ChoiceTolerances.nt_mult * s.nt
                        + ChoiceTolerances.nt_add
================================================================================
