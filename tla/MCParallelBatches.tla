-------------------------- MODULE MCParallelBatches --------------------------
(* Three workers and three batches: a worker can be on its second batch     *)
(* while another fails, errors can come from several workers in any order,  *)
(* and every worker can overshoot the claim counter.                        *)
EXTENDS ParallelBatches

\* The workers stop; the caller's frame is gone.
Done == Ended /\ UNCHANGED vars
MCSpec == Init /\ [][Next \/ Done]_vars /\ Fairness
=============================================================================
