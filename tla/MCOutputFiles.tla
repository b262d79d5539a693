---------------------------- MODULE MCOutputFiles ----------------------------
(***************************************************************************)
(* Two runs into one directory, of either profile: pairs with several      *)
(* shares of a connection, with a connection nobody takes, and with none.  *)
(***************************************************************************)
EXTENDS OutputFiles

Connection(time, fare, transfers, segments) ==
    [journey_time |-> time, fare |-> fare, transfers |-> transfers, segments |-> segments]
Interval(a, demand, shares) ==
    [interval |-> a, demand |-> demand, shares |-> shares,
     assigned |-> Added(shares, LAMBDA s : s.passengers)]
Share(c, n) == [connection |-> c, passengers |-> n]

Result(o, d, connections, intervals) ==
    [origin |-> o, destination |-> d, searched |-> 2 * Len(connections),
     chosen |-> Len(connections), connections |-> connections,
     intervals |-> intervals,
     demand |-> Added(intervals, LAMBDA i : i.demand),
     assigned |-> Added(intervals, LAMBDA i : i.assigned),
     unassigned |-> Added(intervals, LAMBDA i : i.demand - i.assigned)]

Results ==
    <<Result(1, 2, <<Connection(60, 3, 1, <<11, 12>>), Connection(50, 4, 0, <<13>>),
                     Connection(90, 1, 2, <<11, 14, 15>>)>>,
             <<Interval(1, 10, <<Share(1, 6), Share(2, 4)>>),
               Interval(2, 5, <<Share(2, 3), Share(1, 1), Share(2, 1)>>)>>),
      Result(1, 3, <<>>, <<Interval(1, 4, <<>>)>>),
      Result(2, 1, <<Connection(20, 2, 0, <<16>>)>>, <<>>)>>

Output(profile, results) ==
    [profile |-> profile, results |-> results,
     summary |-> [ods |-> Len(results),
                  shares |-> Added(results, LAMBDA r :
                                Added(r.intervals, LAMBDA i : Len(i.shares))),
                  demand |-> Added(results, LAMBDA r : r.demand),
                  assigned |-> Added(results, LAMBDA r : r.assigned)],
     loads |-> [line |-> <<7>>, route |-> <<8>>, trip |-> <<9, 10>>,
                segment |-> <<11, 12, 13>>, stop |-> <<1, 2>>],
     elementary |-> <<11, 12>>, skim |-> <<1, 2, 3>>, overload |-> <<>>]

\* A share of a connection that is not there: the pipeline makes none, but the
\* writer is a function of its own and refuses it.
Dangling == <<Result(1, 2, <<Connection(60, 3, 1, <<11>>)>>,
                     <<Interval(1, 10, <<Share(2, 4)>>)>>)>>

MCOutputs == {<<"DiagnosticFullPath", "pairs">>, <<"DiagnosticFullPath", "dangling">>,
              <<"ProductionAggregate", "pairs">>}
MCOutputOf(o) == Output(o[1], CASE o[2] = "pairs" -> Results
                                [] o[2] = "dangling" -> Dangling)
==============================================================================
