---------------------------- MODULE MCAppLifecycle ----------------------------
(* Two search threads besides the worker, the log thread, the redraw thread *)
(* and the main thread.                                                     *)
EXTENDS AppLifecycle

\* The process is gone.
Gone == main \in {"exited", "terminated"} /\ UNCHANGED vars
MCSpec == Init /\ [][Next \/ Gone]_vars /\ Fairness
=============================================================================
