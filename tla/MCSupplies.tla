----------------------------- MODULE MCSupplies -----------------------------
(***************************************************************************)
(* Three stops, two zones, a route that calls twice at one stop, a trip    *)
(* that overtakes another, two equally light ways to walk.  The inputs are *)
(* rides alone, walks alone and both, in and out of order, with every      *)
(* policy changed and one fault at a time; and segments built elsewhere.   *)
(***************************************************************************)
EXTENDS NetworkIndex

L(id, fare) == [id |-> id, fare |-> fare]
R(id, line, stops) == [id |-> id, line |-> line, stops |-> stops]
At(stop, arr, dep) == [stop |-> stop, arr |-> arr, dep |-> dep]
T(id, route, times) == [id |-> id, route |-> route, times |-> times]
K(id, from, to, time, length) == [id |-> id, from |-> from, to |-> to, time |-> time, length |-> length]

S(i) == <<Stop, i>>
Z(i) == <<Zone, i>>

Lines == <<L(1, 3), L(2, 0)>>
Routes == <<R(10, 1, <<1, 2, 3>>), R(11, 2, <<2, 1, 2>>)>>
Slow == T(100, 10, <<At(1, 5, 6), At(2, 9, 10), At(3, 14, 14)>>)
Fast == T(101, 10, <<At(1, 7, 7), At(2, 8, 9), At(3, 12, 12)>>)
Back == T(102, 11, <<At(2, 3, 4), At(1, 6, 7), At(2, 9, 9)>>)
Trips == <<Slow, Fast, Back>>
Links == <<K(1, Z(1), S(1), 2, 9), K(2, S(1), S(2), 3, 1), K(3, Z(1), S(2), 5, 2), K(4, S(2), Z(2), 1, 1),
           K(5, S(1), S(2), 3, 0), K(6, S(2), S(1), 0, 4)>>

Policy == [stable |-> TRUE, strictTrips |-> TRUE, strictTimes |-> TRUE, overnight |-> FALSE,
           addDay |-> TRUE, aggregation |-> "median", walkCost |-> "time", timeWeight |-> 1, lengthWeight |-> 2]

Raw(routes_, trips_, links_) ==
    [presegmented |-> FALSE, lines |-> Lines, routes |-> routes_, trips |-> trips_, links |-> links_,
     segments |-> <<>>, connections |-> <<>>, params |-> Policy,
     normalization |-> [kind |-> "p95", scale |-> 0]]

Plain == {Raw(Routes, Trips, <<>>), Raw(<<>>, <<>>, Links), Raw(Routes, Trips, Links), Raw(<<>>, <<>>, <<>>)}

Unordered ==
    {Raw(Reverse(Routes), Reverse(Trips), <<>>), Raw(<<>>, <<>>, Reverse(Links)),
     Raw(Reverse(Routes), <<Back, Slow, Fast>>, Reverse(Links))}

Policies ==
    {[Policy EXCEPT !.stable = FALSE]} \cup {[Policy EXCEPT !.aggregation = a] : a \in {"mean", "minimum"}}
    \cup {[Policy EXCEPT !.walkCost = w] : w \in {"length", "weighted"}}

Lenient ==
    {[Policy EXCEPT !.strictTrips = FALSE, !.strictTimes = s, !.overnight = o, !.addDay = a] :
        s, o, a \in BOOLEAN}
    \cup {[Policy EXCEPT !.overnight = TRUE, !.addDay = a] : a \in BOOLEAN}

\* One fault each.
Faulty ==
    {Raw(Routes, ts, <<>>) : ts \in
        {<<Slow, Back, T(103, 12, <<At(1, 1, 1)>>)>>,               \* of no route
         <<Slow, Fast>>,                                            \* a route without trips
         <<Slow, Back, T(101, 10, <<At(1, 7, 7), At(2, 8, 9)>>)>>,  \* a short trip
         <<Slow, Back, T(101, 10, <<At(1, 7, 7), At(3, 8, 9), At(3, 12, 12)>>)>>,
         <<T(100, 10, <<At(1, 5, 6), At(2, 9, 10)>>), Back>>,       \* an edge nobody serves
         <<Slow, Back, T(101, 10, <<At(1, 7, 7), At(2, 6, 9), At(3, 12, 12)>>)>>, \* back in time
         <<Slow, Back, T(101, 10, <<At(1, 8, 20), At(2, 21, 3), At(3, 5, 5)>>)>>, \* over midnight at a stop
         <<Slow, Back, T(101, 10, <<At(1, 0, 0 - 1), At(2, 8, 9), At(3, 12, 12)>>)>>}}
    \cup {[Raw(Routes, Trips, <<>>) EXCEPT !.lines = ls] : ls \in
             {<<L(1, 3), L(1, 2), L(2, 0)>>, <<L(1, 3)>>, <<L(1, None), L(2, 0)>>}}
    \cup {[Raw(rs, Trips, <<>>) EXCEPT !.lines = Lines] : rs \in
             {Append(Routes, R(12, 1, <<3>>)), Append(Routes, R(11, 2, <<2, 1, 2>>))}}
    \cup {Raw(<<>>, <<>>, Append(Links, K(7, S(1), Z(2), 0 - 1, 0)))}

\* Segments as a file may bring them.
Seg(id, kind, from, to, i, j, line, route, path, run) ==
    [id |-> id, kind |-> kind, from |-> from, to |-> to, fromPos |-> i, toPos |-> j,
     line |-> line, route |-> route, path |-> path, run |-> run]
Con(id, route, trip, dep, arr, fare) ==
    [id |-> id, route |-> route, trip |-> trip, dep |-> dep, arr |-> arr, fare |-> fare]

Segs == <<Seg(7, Walk, Z(1), S(1), 0, 0, 0, 0, <<1>>, 4), Seg(3, Line, S(1), S(2), 1, 2, 1, 10, <<>>, 5),
          Seg(9, Line, S(1), S(2), 1, 2, 1, 11, <<>>, 4), Seg(4, Walk, S(2), Z(2), 0, 0, 0, 0, <<4>>, 3),
          Seg(5, Walk, Z(1), S(1), 0, 0, 0, 0, <<2, 3>>, 2), Seg(2, Walk, Z(1), Z(2), 0, 0, 0, 0, <<6>>, 9),
          Seg(1, Line, S(1), S(2), 3, 4, 1, 10, <<>>, 2)>>
Rides == <<Con(0, 3, 100, 6, 12, 2), Con(1, 7, None, None, None, None), Con(2, 3, 101, 7, 8, 5),
          Con(3, 9, 200, 6, 9, 0), Con(4, 4, None, None, None, None), Con(5, 5, None, None, None, 1),
          Con(6, 2, None, None, None, None), Con(7, 1, 100, 15, 17, None)>>

Given(segments_, connections_) ==
    [Raw(<<>>, <<>>, <<>>) EXCEPT !.presegmented = TRUE, !.segments = segments_, !.connections = connections_]

MCInputs ==
    Plain \cup Unordered \cup Faulty
    \cup {[x EXCEPT !.params = p] : x \in Unordered \cup {Raw(<<>>, <<>>, Links)}, p \in Policies}
    \cup {[x EXCEPT !.params = p] : x \in Faulty, p \in Lenient}
    \cup {[Given(Segs, Rides) EXCEPT !.normalization = [kind |-> k, scale |-> s]] :
             k \in {"none", "fixed", "mean", "median", "p95"}, s \in {0, 7}}
    \cup {Given(Segs, Reverse(Rides)), Given(Reverse(Segs), Rides), Given(<<>>, <<>>), Given(Segs, <<>>),
          Given(Append(Segs, [Segs[1] EXCEPT !.id = 8]), Rides), Given(Append(Segs, [Segs[1] EXCEPT !.path = <<9>>]), Rides)}
    \cup {Given(Segs, Append(Rides, c)) : c \in
             {Con(8, 6, 100, 1, 2, 0), Con(8, 3, 100, 6, 12, 2), Con(8, 7, 100, 6, 8, 0),
              Con(8, 3, 105, 8, 7, 0), Con(8, 3, None, None, None, 0)}}
=============================================================================
