--------------------------- MODULE OriginDelivery ---------------------------
(***************************************************************************)
(* What the by-origin search promises to whoever gives it an origin sink   *)
(* (OdDayOriginResultSink, search_od_day_paths_branch_and_bound): it hands *)
(* over each origin at most once, says ok only when all of them have been  *)
(* handed over, and hands over nothing after its verdict.                  *)
(***************************************************************************)
CONSTANT Origins

VARIABLES
    delivered,      \* origins whose result the sink has merged
    verdict         \* "running", "ok" or "failed"

Init ==
    /\ delivered = {}
    /\ verdict = "running"

Deliver(o) ==
    /\ verdict = "running"
    /\ o \notin delivered
    /\ delivered' = delivered \cup {o}
    /\ UNCHANGED verdict

Succeed ==
    /\ verdict = "running"
    /\ delivered = Origins
    /\ verdict' = "ok"
    /\ UNCHANGED delivered

Fail ==
    /\ verdict = "running"
    /\ verdict' = "failed"
    /\ UNCHANGED delivered

Next ==
    \/ \E o \in Origins : Deliver(o)
    \/ Succeed
    \/ Fail

Spec == Init /\ [][Next]_<<delivered, verdict>>
=============================================================================
