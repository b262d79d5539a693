--------------------------- MODULE DayPathRetention ---------------------------
(***************************************************************************)
(* The projection slot of one pair of zones in an OD-day search: complete  *)
(* connections are grouped by day path, their structure without clock      *)
(* times; a path is kept with the metrics of its timed connections, its    *)
(* supports, until the supports of another path dominate all of them.      *)
(* Then the choice step keeps the paths with a support within tolerances   *)
(* (day_path.cpp, day_path/retention.cpp, day_path/support.cpp,            *)
(* choice/choice.cpp).                                                     *)
(***************************************************************************)
EXTENDS Integers, FiniteSets, Functions

CONSTANTS
    DayConnections, \* whatever a search of the day can complete
    DayTolerances,  \* of the choice step
    DayExactOnly,   \* ChoiceRolloutStage: no tolerances at all
    PathCount,      \* day paths are 1 .. PathCount in signature order
    Policies        \* DayPathRetentionConfig, a set of those considered

Complete == INSTANCE CompleteConnections WITH
                Connections <- DayConnections, ExactOnly <- DayExactOnly,
                ChoiceTolerances <- DayTolerances

Paths == 1 .. PathCount
NoCap == PathCount + 1000       \* a cap that is not set

ASSUME PathsAssumption ==
    /\ PathCount \in Nat
    /\ \A c \in DayConnections :
        /\ c.path \in Paths
        /\ c.dep \in Int /\ c.arr \in Int /\ c.nt \in Nat /\ c.imp \in Int
ASSUME DayChoiceAssumption ==
    /\ DayTolerances \in [imp_mult : Nat, imp_add : Nat, jt_mult : Nat,
                          jt_add : Nat, nt_mult : Nat, nt_add : Nat]
    /\ DayExactOnly \in BOOLEAN
ASSUME PoliciesAssumption ==
    Policies \subseteq
        [limit : {"unbounded", "bounded_drop_worst", "fail_on_saturation"},
         max_alternatives : Nat \ {0}, max_supports : Nat]

VARIABLES
    policy,
    day_stage,      \* "search", "failed" or "done"
    day_offered,    \* the connections completed so far
    alternatives,   \* alternatives_by_signature
    truth,          \* what alternatives would be without caps; not in the code
    day_chosen      \* the paths the choice step keeps

day_vars == <<policy, day_stage, day_offered, alternatives, truth, day_chosen>>

Nothing == << >>

DayInit ==
    /\ policy \in Policies
    /\ day_stage = "search"
    /\ day_offered = {}
    /\ alternatives = Nothing /\ truth = Nothing
    /\ day_chosen = {}

------------------------------------------------------------------------------
\* make_day_path_alternative_from_metrics
Alternative(c) == [supports |-> {c}, representative |-> c]

\* One that no member of S is worse than; ties have equal metrics.
WorstOf(S) == CHOOSE w \in S : \A s \in S : ~Complete!Better(w, s)
BestOf(S)  == CHOOSE b \in S : \A s \in S : ~Complete!Better(s, b)

Bounded(p) == p.limit # "unbounded"

\* A bug: a full support list silently drops the newcomer.
Supports_Silent(p, S, c) ==
    IF ~Bounded(p) \/ Cardinality(S) < p.max_supports THEN S \cup {c}
    ELSE IF Complete!Better(c, WorstOf(S)) THEN (S \ {WorstOf(S)}) \cup {c}
    ELSE S

\* A bug: the newcomer replaces the worst support whatever it is.
Supports_Always(p, S, c) ==
    IF ~Bounded(p) \/ Cardinality(S) < p.max_supports THEN S \cup {c}
    ELSE IF p.limit = "fail_on_saturation" THEN {}
    ELSE (S \ {WorstOf(S)}) \cup {c}

\* retain_day_path_support: the outcome is a set of supports, or {} for an
\* error.
Supports(p, S, c) ==
    IF ~Bounded(p) \/ Cardinality(S) < p.max_supports THEN S \cup {c}
    ELSE IF p.limit = "fail_on_saturation" THEN {}
    ELSE IF Complete!Better(c, WorstOf(S)) THEN (S \ {WorstOf(S)}) \cup {c}
    ELSE S

\* A bug: the representative stays the first connection of its path.
With_FirstRepresentative(a, supports, c) == [a EXCEPT !.supports = supports]

\* The known path's part of retain_day_path_alternative.
With(a, supports, c) ==
    [supports |-> supports,
     representative |-> IF Complete!Better(c, a.representative) THEN c
                        ELSE a.representative]

\* A bug: one dominated support is enough.
SetDominates_Any(a, b) ==
    \E s \in b.supports : \E r \in a.supports : Complete!Dominates(FALSE, r, s)

\* day_path_support_set_dominates, by the metrics of every support.
SetDominates(a, b) ==
    \A s \in b.supports : \E r \in a.supports : Complete!Dominates(FALSE, r, s)

\* A bug: a path is compared with the paths before it only.
Undominated_Earlier(as) ==
    LET Kept[n \in 0 .. PathCount] ==
            IF n = 0 THEN DOMAIN as
            ELSE LET S == Kept[n - 1]
                 IN  IF /\ n \in S
                        /\ \E o \in S : o < n /\ SetDominates(as[o], as[n])
                     THEN S \ {n} ELSE S
    IN  Restrict(as, Kept[PathCount])

\* remove_support_dominated_paths: in signature order, each path against
\* those then left.
Undominated(as) ==
    LET Kept[n \in 0 .. PathCount] ==
            IF n = 0 THEN DOMAIN as
            ELSE LET S == Kept[n - 1]
                 IN  IF /\ n \in S
                        /\ \E o \in S \ {n} : SetDominates(as[o], as[n])
                     THEN S \ {n} ELSE S
    IN  Restrict(as, Kept[PathCount])

\* A bug: worst and best are confused.
WorstPath_Best(as) ==
    CHOOSE w \in DOMAIN as : \A q \in DOMAIN as :
        ~Complete!Better(BestOf(as[q].supports), BestOf(as[w].supports))

\* worst_alternative_signature: the first whose best support is worst.
WorstPath(as) ==
    CHOOSE w \in DOMAIN as : \A q \in DOMAIN as \ {w} :
        LET bw == BestOf(as[w].supports)  bq == BestOf(as[q].supports)
        IN  ~Complete!Better(bw, bq) /\ (q < w => Complete!Better(bq, bw))

\* enforce_day_path_retention; {} for an error.  A connection adds at most
\* one path, so that at most one is over the cap.
Enforced(p, as) ==
    LET left == Undominated(as)
    IN  IF ~Bounded(p) \/ Cardinality(DOMAIN left) <= p.max_alternatives
        THEN {left}
        ELSE IF p.limit = "fail_on_saturation" THEN {}
        ELSE {Restrict(left, DOMAIN left \ {WorstPath(left)})}

\* retain_day_path_alternative under policy p; {} for an error.
RetainPath(p, as, c) ==
    IF c.path \notin DOMAIN as THEN
        Enforced(p, [q \in DOMAIN as \cup {c.path} |->
                        IF q = c.path THEN Alternative(c) ELSE as[q]])
    ELSE LET supports == Supports(p, as[c.path].supports, c)
         IN  IF supports = {} THEN {}
             ELSE Enforced(p, [as EXCEPT ![c.path] = With(@, supports, c)])

Unbounded == [limit |-> "unbounded", max_alternatives |-> NoCap,
              max_supports |-> NoCap]

\* The tree completes c.  An error ends the search of the origin, and what
\* the slot then holds is never read.
DayOffer(c) ==
    /\ day_stage = "search"
    /\ c \notin day_offered
    /\ day_offered' = day_offered \cup {c}
    /\ truth' \in RetainPath(Unbounded, truth, c)
    /\ LET outcome == RetainPath(policy, alternatives, c)
       IN  IF outcome = {} THEN day_stage' = "failed" /\ UNCHANGED alternatives
           ELSE alternatives' \in outcome /\ UNCHANGED day_stage
    /\ UNCHANGED <<policy, day_chosen>>

AllSupports(as) == UNION {as[p].supports : p \in DOMAIN as}

\* A bug: only the representative is held against the tolerances.
WithinTolerances_Representative(as, p) ==
    Complete!Within(as[p].representative, AllSupports(as))

\* day_path_alternative_within_tolerances: the representative is a support.
WithinTolerances(as, p) ==
    \E s \in as[p].supports : Complete!Within(s, AllSupports(as))

\* finalize_day_path_alternatives and choose_day_path_alternatives.
DayFinish ==
    /\ day_stage = "search"
    /\ day_stage' = "done"
    /\ day_chosen' = {p \in DOMAIN alternatives :
                    DayExactOnly \/ WithinTolerances(alternatives, p)}
    /\ UNCHANGED <<policy, day_offered, alternatives, truth>>

DayNext == DayFinish \/ \E c \in DayConnections : DayOffer(c)

DaySpec == DayInit /\ [][DayNext]_day_vars

------------------------------------------------------------------------------
DayTypeOK ==
    /\ policy \in Policies
    /\ day_stage \in {"search", "failed", "done"}
    /\ day_offered \subseteq DayConnections
    /\ \A as \in {alternatives, truth} :
          /\ DOMAIN as \subseteq Paths
          /\ \A p \in DOMAIN as :
                /\ as[p].supports \subseteq {c \in day_offered : c.path = p}
                /\ as[p].representative \in as[p].supports
    /\ day_chosen \subseteq DOMAIN alternatives

\* No policy and no order of completion leaves a path whose every support
\* some other path dominates, although a path is only dropped when a
\* connection arrives and paths are compared while others are being dropped.
NoPathDominated ==
    \A p, q \in DOMAIN alternatives :
        p # q => ~SetDominates(alternatives[p], alternatives[q])

\* types.hpp:124, "no structural path or split support is removed because of
\* a storage cap": without caps, a connection no other dominates is a support
\* of its path, even if its path was dropped before it came, and one that is
\* dominated is a support or dominated by one.
EfficientKept ==
    policy.limit = "unbounded" =>
        \A c \in day_offered :
            \/ c.path \in DOMAIN alternatives
               /\ c \in alternatives[c.path].supports
            \/ \E s \in AllSupports(alternatives) :
                  Complete!Dominates(FALSE, s, c)

\* Dropping paths while others are compared with them leaves neither too much
\* nor too little.
EfficientExactly == NoPathDominated /\ EfficientKept

\* Replacing the worst support never loses a path its best, and the
\* representative is that best: no support is preferred to it.
RepresentativeIsBest ==
    \A p \in DOMAIN alternatives : \A s \in alternatives[p].supports :
        ~Complete!Better(s, alternatives[p].representative)

\* Whatever is dropped for a cap or for dominance, some path left is
\* represented by a connection no completed one is preferred to.
BestSurvives ==
    day_offered # {} /\ day_stage # "failed" =>
        \E p \in DOMAIN alternatives : \A c \in day_offered :
            ~Complete!Better(c, alternatives[p].representative)

\* The best of a path and the best of the slot outlive every cap.
BestAreKept == RepresentativeIsBest /\ BestSurvives

\* types.hpp:126, "hitting a configured cap is reported as an error instead
\* of silently changing the alternative set": until such an error, the
\* alternatives are those an unbounded retention would hold.
SaturationIsReported ==
    policy.limit = "fail_on_saturation" /\ day_stage # "failed"
        => alternatives = truth

\* Without caps, the choice step chooses the path of every nondominated
\* connection within the tolerances of the minima over all connections
\* completed (tolerances.hpp:160), and no path without a connection within
\* them, although it sees only the supports retained.
ChoiceSeesAll ==
    day_stage = "done" /\ policy.limit = "unbounded" /\ ~DayExactOnly =>
        /\ \A c \in day_offered :
              ( /\ Complete!Within(c, day_offered)
                /\ \A d \in day_offered : ~Complete!Dominates(FALSE, d, c) )
              => c.path \in day_chosen
        /\ \A p \in day_chosen :
              \E c \in day_offered : c.path = p /\ Complete!Within(c, day_offered)
==============================================================================
