--------------------------- MODULE MCExactRetention ---------------------------
(***************************************************************************)
(* Seven connections and every setting of the switches.                    *)
(***************************************************************************)
EXTENDS ExactRetention

C(trace, dep, arr, nt, imp) ==
    [trace |-> trace, dep |-> dep, arr |-> arr, nt |-> nt, imp |-> imp]

\* Two traces of equal metrics; a direct connection that dominates a slower
\* one; a chain of three; one that leaves too early and one too late.
MCConnections ==
    {C(1, 10, 20, 0, 9), C(2, 10, 21, 1, 9), C(3, 10, 21, 1, 9),
     C(4, 10, 22, 1, 12), C(5, 12, 22, 2, 7), C(6, 6, 11, 1, 5),
     C(7, 14, 27, 0, 20)}

MCInterval == [start |-> 9, end |-> 12]

MCConfigs ==
    [kind : {"demand", "target"}, direct_barred : BOOLEAN,
     basis : {"departure", "arrival"}, delete_outside : BOOLEAN,
     delete_departures_before : BOOLEAN, delete_arrivals_after : BOOLEAN,
     consider_positive_delta_t : BOOLEAN]

MCTolerances == [imp_mult |-> 1, imp_add |-> 4, jt_mult |-> 1, jt_add |-> 4,
                 nt_mult |-> 1, nt_add |-> 1]

\* The assignment of this task has ended.
Done == stage = "done" /\ UNCHANGED vars

MCSpec == Init /\ [][Next \/ Done]_vars
==============================================================================
