----------------------------- MODULE MCOdDayTree -----------------------------
(***************************************************************************)
(* Small supplies for OdDayTree: every network made of fixed walks and a   *)
(* choice among a few rides.                                               *)
(***************************************************************************)
EXTENDS OdDayTree

MCDestinations == {"D"}
MCStops == {"a", "b", "c", "e"}

Access == {Walk("O", "a", 1), Walk("O", "b", 3)}
Egress == {Walk("b", "D", 2), Walk("e", "D", 1)}
Transfer == {Walk("c", "b", 1), Walk("b", "e", 4)}

\* Two rides to b, of which the second turns out the first; one past b, from
\* where the walk back turns it out after it was expanded; rides on to e, of
\* which one is beyond the tolerances; and one back.
Slow  == Ride("a", "b", 1, 10, 15, 0)
Fast  == Ride("a", "b", 2, 10, 13, 0)
Past  == Ride("a", "c", 1, 10, 12, 0)
On    == Ride("b", "e", 1, 15, 18, 0)
OnToo == Ride("b", "e", 2, 16, 44, 1)
Cross == Ride("c", "e", 3, 13, 20, 0)
Back  == Ride("e", "b", 4, 19, 21, 0)

MCHard ==
    {Access \cup Egress \cup Transfer \cup rides :
        rides \in SUBSET {Slow, Fast, Past, On, OnToo, Cross, Back}}

\* Supplies where dominance is safe: no transfer walks, no fares, no barred
\* transfers, no waits of more than MaxWait and nothing beyond the tolerances.
Cheap  == Ride("b", "e", 2, 17, 19, 0)
Round  == Ride("b", "a", 4, 14, 15, 0)
Direct == Ride("a", "e", 3, 10, 19, 0)

MCSafe ==
    {Access \cup Egress \cup rides :
        rides \in SUBSET {Slow, Fast, On, Cheap, Direct, Back, Round}}

\* Supplies where a day begins too soon: a long walk to e meets a ride that
\* leaves before the walk would have to begin.  What comes by a may turn it
\* out at b, before it arrives.
Far    == Walk("O", "e", 12)
Soon   == Ride("e", "b", 5, 10, 11, 0)
Sooner == Ride("e", "b", 6, 9, 14, 0)

MCEarly ==
    {{Walk("O", "a", 1), Far} \cup Egress \cup rides :
        rides \in SUBSET {Soon, Sooner, Slow, Fast, On}}

\* One supply in which branches die queued and entries die unvisited.
MCOneNetwork ==
    {Access \cup Egress \cup Transfer \cup {Slow, Fast, Past, On, Cross, Back}}

MCNetworks == MCHard \cup MCSafe \cup MCEarly

\* Past and Cross run on the same line.
MCBarred == {<<Past, Cross>>, <<Cross, Past>>}
MCTimeDomain == 8 .. 16
MCTolerances == [imp_mult |-> 2, imp_add |-> 12, jt_mult |-> 2, jt_add |-> 12,
                 nt_mult |-> 1, nt_add |-> 2]

\* The tree has returned.
Done == state \in {"exhausted", "stopped", "failed"} /\ UNCHANGED vars

MCSpec == Init /\ [][Next \/ Done]_vars /\ WF_vars(Tree)
==============================================================================
