----------------------------- MODULE MCRetention -----------------------------
(***************************************************************************)
(* Retention and choice in both formulations: of a demand task, seven      *)
(* connections under every setting of the switches; of a day, four day     *)
(* paths with nine connections, in every order, under five policies.       *)
(***************************************************************************)
EXTENDS MCExactRetention, DayPathRetention

D(path, dep, arr, nt, imp) ==
    [path |-> path, dep |-> dep, arr |-> arr, nt |-> nt, imp |-> imp]

\* Two supports of path 2 are dominated, one by path 1 and one by path 3, and
\* dominated alone either takes path 2 away, so that what it keeps depends on
\* the order; path 4 is dominated by its equal
\* in all but a transfer until its second connection, which is quick but too
\* costly; path 3 is represented by a connection too slow for the tolerances
\* once that one has come, and has another within them.
MCDayConnections ==
    {D(1, 10, 20, 0, 10), D(1, 30, 41, 0, 11),
     D(2, 10, 21, 1, 10), D(2, 20, 33, 1, 12), D(2, 21, 33, 1, 12),
     D(3, 20, 33, 1, 11), D(3, 30, 40, 2, 14),
     D(4, 10, 20, 1, 10), D(4, 9, 18, 2, 17)}

Policy(limit, paths, supports) ==
    [limit |-> limit, max_alternatives |-> paths, max_supports |-> supports]

MCPolicies ==
    {Policy("unbounded", NoCap, NoCap), Policy("bounded_drop_worst", 2, 1),
     Policy("bounded_drop_worst", 1, 2), Policy("fail_on_saturation", 2, NoCap),
     Policy("fail_on_saturation", NoCap, 2)}

MCDayTolerances == [imp_mult |-> 1, imp_add |-> 5, jt_mult |-> 1, jt_add |-> 3,
                 nt_mult |-> 1, nt_add |-> 2]

\* Either a task or a day.
Task ==
    /\ Init
    /\ policy = Unbounded /\ day_stage = "done" /\ day_offered = {}
    /\ alternatives = Nothing /\ truth = Nothing /\ day_chosen = {}
OfDay ==
    /\ DayInit
    /\ config = CHOOSE c \in Configs : TRUE
    /\ stage = "done"
    /\ offered = {} /\ retained = {} /\ found = {} /\ pending = {} /\ chosen = {}

\* The search of an origin has failed, or the choice is made.
Over ==
    /\ stage = "done" /\ day_stage \in {"failed", "done"}
    /\ UNCHANGED <<vars, day_vars>>

RetentionNext ==
    \/ Next /\ UNCHANGED day_vars
    \/ DayNext /\ UNCHANGED vars
    \/ Over

RetentionSpec == (Task \/ OfDay) /\ [][RetentionNext]_<<vars, day_vars>>
==============================================================================
