--------------------------- MODULE Retention_proof ---------------------------
(***************************************************************************)
(* Proofs about ExactRetention, for every set of connections, finite or    *)
(* not, every tolerance and every setting, and about DayPathRetention, for *)
(* every set of connections, every number of day paths, every policy and   *)
(* every order of completion.                                              *)
(***************************************************************************)
EXTENDS ExactRetention, DayPathRetention, FiniteSetTheorems, TLAPS

------------------------------------------------------------------------------
(* A demand task                                                           *)

\* S is what an exact retention holds after the connections of T: none of S
\* dominates another, and each one left out is dominated by one of S.
Exact(b, S, T) ==
    /\ S \subseteq T
    /\ \A c, d \in S : ~Dominates(b, c, d)
    /\ \A c \in T \ S : \E s \in S : Dominates(b, s, c)

LEMMA DominanceIsTransitive ==
    ASSUME NEW b \in BOOLEAN, NEW c \in Connections, NEW d \in Connections,
           NEW e \in Connections, Dominates(b, c, d), Dominates(b, d, e)
    PROVE  Dominates(b, c, e)
BY MetricsAssumption DEF Dominates, CanDominate

LEMMA DominanceIsIrreflexive ==
    ASSUME NEW b \in BOOLEAN, NEW c \in Connections
    PROVE  ~Dominates(b, c, c)
BY MetricsAssumption DEF Dominates

\* A connection not allowed to dominate is the only difference the switch
\* makes.
LEMMA DominanceWeakens ==
    ASSUME NEW b \in BOOLEAN, NEW c, NEW d, Dominates(b, c, d)
    PROVE  Dominates(FALSE, c, d)
BY DEF Dominates, CanDominate

LEMMA ExactOfNothing == ASSUME NEW b PROVE Exact(b, {}, {})
BY DEF Exact

\* An exact retention of T holds exactly the nondominated of T.
LEMMA ExactIsNondominated ==
    ASSUME NEW b \in BOOLEAN, NEW T \in SUBSET Connections, NEW S,
           Exact(b, S, T)
    PROVE  S = Nondominated(b, T)
<1>1. ASSUME NEW s \in S, NEW d \in T, Dominates(b, d, s) PROVE FALSE
  <2>1. CASE d \in S
    BY <1>1, <2>1 DEF Exact
  <2>2. CASE d \notin S
    <3>1. PICK r \in S : Dominates(b, r, d)
      BY <2>2 DEF Exact
    <3>2. Dominates(b, r, s)
      BY <1>1, <3>1, DominanceIsTransitive DEF Exact
    <3> QED BY <3>2 DEF Exact
  <2> QED BY <2>1, <2>2
<1> QED BY <1>1 DEF Exact, Nondominated

\* One more connection, new or known, keeps the retention exact.
LEMMA RetainKeepsExact ==
    ASSUME NEW b \in BOOLEAN, NEW T \in SUBSET Connections, NEW S,
           NEW c \in Connections, Exact(b, S, T)
    PROVE  Exact(b, Retain(b, S, c), T \cup {c})
<1> DEFINE left == {k \in S : ~Dominates(b, c, k)}
<1> S \subseteq Connections
  BY DEF Exact
<1>1. CASE c \in S \/ \E k \in S : Dominates(b, k, c)
  <2>1. Retain(b, S, c) = S
    BY <1>1 DEF Retain
  <2> QED BY <1>1, <2>1 DEF Exact
<1>2. CASE ~(c \in S \/ \E k \in S : Dominates(b, k, c))
  <2>1. Retain(b, S, c) = left \cup {c}
    BY <1>2 DEF Retain
  <2>2. left \cup {c} \subseteq T \cup {c}
    BY DEF Exact
  <2>3. \A k, d \in left \cup {c} : ~Dominates(b, k, d)
    BY <1>2, DominanceIsIrreflexive DEF Exact
  <2>4. ASSUME NEW d \in (T \cup {c}) \ (left \cup {c})
        PROVE  \E s \in left \cup {c} : Dominates(b, s, d)
    <3>1. CASE d \in S
      BY <3>1, <2>4
    <3>2. CASE d \notin S
      <4>1. PICK r \in S : Dominates(b, r, d)
        BY <3>2, <2>4 DEF Exact
      <4>2. CASE r \in left
        BY <4>1, <4>2
      <4>3. CASE r \notin left
        <5>1. Dominates(b, c, r)
          BY <4>3
        <5>2. Dominates(b, c, d)
          BY <4>1, <5>1, <2>4, DominanceIsTransitive
        <5> QED BY <5>2
      <4> QED BY <4>2, <4>3
    <3> QED BY <3>1, <3>2
  <2> QED BY <2>1, <2>2, <2>3, <2>4 DEF Exact
<1> QED BY <1>1, <1>2

------------------------------------------------------------------------------
LEMMA ScaledBound ==
    ASSUME NEW m \in Nat, NEW a \in Int, NEW x \in Int, NEW y \in Int, x <= y
    PROVE  m * x + a <= m * y + a
OBVIOUS

\* A dominating connection bounds no looser than a dominated one.
LEMMA DominatorBounds ==
    ASSUME NEW b \in BOOLEAN, NEW c \in Connections, NEW s \in Connections,
           NEW t \in Connections, Dominates(b, s, t), Within(c, {s})
    PROVE  Within(c, {t})
<1> USE MetricsAssumption, ChoiceTolerancesAssumption
<1> DEFINE I(x) == ChoiceTolerances.imp_mult * x.imp + ChoiceTolerances.imp_add
           J(x) == ChoiceTolerances.jt_mult * JourneyTime(x)
                       + ChoiceTolerances.jt_add
           N(x) == ChoiceTolerances.nt_mult * x.nt + ChoiceTolerances.nt_add
<1>1. s.imp <= t.imp /\ JourneyTime(s) <= JourneyTime(t) /\ s.nt <= t.nt
  BY DEF Dominates, JourneyTime
<1>2. I(s) <= I(t)
  BY <1>1, ScaledBound
<1>3. J(s) <= J(t)
  BY <1>1, ScaledBound DEF JourneyTime
<1>4. N(s) <= N(t)
  BY <1>1, ScaledBound
<1>5. c.imp <= I(s) /\ JourneyTime(c) <= J(s) /\ c.nt <= N(s)
  BY DEF Within
<1>6. /\ I(s) \in Int /\ I(t) \in Int /\ J(s) \in Int /\ J(t) \in Int
      /\ N(s) \in Int /\ N(t) \in Int
      /\ c.imp \in Int /\ JourneyTime(c) \in Int /\ c.nt \in Int
  BY DEF JourneyTime
<1>7. c.imp <= I(t) /\ JourneyTime(c) <= J(t) /\ c.nt <= N(t)
  <2> HIDE DEF I, J, N
  <2> QED BY <1>2, <1>3, <1>4, <1>5, <1>6
<1> QED BY <1>7 DEF Within

\* Tolerances of an exact retention are those of all it was offered.
LEMMA ExactBounds ==
    ASSUME NEW b \in BOOLEAN, NEW T \in SUBSET Connections, NEW S,
           NEW c \in Connections, Exact(b, S, T)
    PROVE  Within(c, S) <=> Within(c, T)
<1>1. ASSUME Within(c, S), NEW t \in T PROVE Within(c, {t})
  <2>1. CASE t \in S
    BY <1>1, <2>1 DEF Within
  <2>2. CASE t \notin S
    <3>1. PICK s \in S : Dominates(b, s, t)
      BY <2>2 DEF Exact
    <3>2. Within(c, {s})
      BY <1>1 DEF Within
    <3> QED BY <3>1, <3>2, DominatorBounds DEF Exact
  <2> QED BY <2>1, <2>2
<1>2. Within(c, T) <=> \A t \in T : Within(c, {t})
  BY DEF Within
<1>3. Within(c, T) => Within(c, S)
  BY DEF Exact, Within
<1> QED BY <1>1, <1>2, <1>3

------------------------------------------------------------------------------
\* What the choice step has done with the connections it has looked at.
ChoiceInv ==
    /\ stage = "choice" => config.kind = "demand"
    /\ stage # "search" /\ config.kind = "demand" =>
           /\ Exact(FALSE, retained, found \ pending)
           /\ stage = "done" => pending = {} /\ chosen = retained

SearchInv ==
    stage = "search" =>
        /\ Exact(config.direct_barred, retained, EligibleOffered)
        /\ found = {}

TaskInv == TypeOK /\ SearchInv /\ FoundExactly /\ ChoiceInv

LEMMA InitTaskInv == Init => TaskInv
<1> SUFFICES ASSUME Init PROVE TaskInv
  OBVIOUS
<1>1. EligibleOffered = {}
  BY DEF Init, EligibleOffered
<1> QED BY <1>1, ExactOfNothing
        DEF Init, TaskInv, TypeOK, SearchInv, FoundExactly, ChoiceInv

LEMMA OfferStep ==
    ASSUME TaskInv, NEW c \in Connections, Offer(c) PROVE TaskInv'
<1> DEFINE b == config.direct_barred
<1>1. b \in BOOLEAN /\ config' = config
  BY ConfigsAssumption DEF TaskInv, TypeOK, Offer
<1>2. EligibleOffered \in SUBSET Connections
  BY DEF TaskInv, TypeOK, EligibleOffered
<1>3. \A d : Eligible(d)' <=> Eligible(d)
  BY <1>1 DEF Eligible, Admissible, InSupport, Deleted, Reference, DeltaT,
              Begin, End
<1>4. CASE Eligible(c)
  <2>1. EligibleOffered' = EligibleOffered \cup {c}
    BY <1>3, <1>4 DEF EligibleOffered, Offer
  <2>2. retained' = Retain(b, retained, c)
    BY <1>4 DEF Offer
  <2>3. Exact(b, retained', EligibleOffered')
    BY <1>1, <1>2, <2>1, <2>2, RetainKeepsExact DEF TaskInv, SearchInv, Offer
  <2>4. retained' \subseteq offered'
    BY <2>3 DEF Exact, EligibleOffered
  <2>5. TypeOK'
    BY <2>4 DEF TaskInv, TypeOK, Offer
  <2>6. stage = "search" /\ stage' = "search" /\ found' = found
    BY DEF Offer
  <2> QED BY <1>1, <2>3, <2>5, <2>6
          DEF TaskInv, SearchInv, FoundExactly, ChoiceInv
<1>5. CASE ~Eligible(c)
  <2>1. EligibleOffered' = EligibleOffered /\ retained' = retained
    BY <1>3, <1>5 DEF EligibleOffered, Offer
  <2>2. TypeOK'
    BY <2>1 DEF TaskInv, TypeOK, Offer
  <2> QED BY <1>1, <2>1, <2>2
          DEF TaskInv, SearchInv, FoundExactly, ChoiceInv, Offer
<1> QED BY <1>4, <1>5

\* What stays as it is when no connection is completed.
LEMMA SameOffers ==
    ASSUME UNCHANGED <<config, offered>>
    PROVE  EligibleOffered' = EligibleOffered
BY DEF EligibleOffered, Eligible, Admissible, InSupport, Deleted, Reference,
       DeltaT, Begin, End

LEMMA FinishSearchStep == ASSUME TaskInv, FinishSearch PROVE TaskInv'
<1> DEFINE b == config.direct_barred
           T == EligibleOffered
<1>1. b \in BOOLEAN /\ UNCHANGED <<config, offered>>
  BY ConfigsAssumption DEF TaskInv, TypeOK, FinishSearch
<1>2. T \in SUBSET Connections /\ T' = T
  BY <1>1, SameOffers DEF TaskInv, TypeOK, EligibleOffered
<1>3. Exact(b, retained, T)
  BY DEF TaskInv, SearchInv, FinishSearch
<1>4. retained = Nondominated(b, T) /\ retained \subseteq Connections
  BY <1>1, <1>2, <1>3, ExactIsNondominated DEF Exact
<1>5. \A c \in retained : Within(c, retained) <=> Within(c, T)
  BY <1>1, <1>2, <1>3, <1>4, ExactBounds
<1>6. found' = {c \in Nondominated(b, T) : ExactOnly \/ Within(c, T)}
  BY <1>4, <1>5 DEF FinishSearch, Finalized
<1>7. FoundExactly'
  <2>1. Nondominated(config.direct_barred, EligibleOffered)'
            = Nondominated(b, T)
    BY <1>1, <1>2 DEF Nondominated
  <2>2. \A c : Within(c, EligibleOffered)' <=> Within(c, T)
    BY <1>2 DEF Within, JourneyTime
  <2> QED BY <1>6, <2>1, <2>2 DEF FoundExactly
<1>8. found' \subseteq T /\ found' \subseteq offered
  BY <1>6 DEF Nondominated, EligibleOffered
<1>9. CASE config.kind = "demand"
  <2>1. stage' = "choice" /\ retained' = {} /\ chosen' = chosen
    BY <1>9 DEF FinishSearch
  <2>2. pending' = {c \in found' : Admissible(c)}
    BY <1>9, <1>1 DEF FinishSearch, Admissible, InSupport, Deleted, Reference,
                      DeltaT, Begin, End
  <2>3. pending' = found'
    BY <1>8, <1>9, <2>2 DEF EligibleOffered, Eligible
  <2>4. Exact(FALSE, retained', found' \ pending')
    BY <2>1, <2>3, ExactOfNothing
  <2>5. chosen = {}
    BY DEF TaskInv, TypeOK, SearchInv, FinishSearch
  <2> QED BY <1>1, <1>7, <1>8, <1>9, <2>1, <2>3, <2>4, <2>5
          DEF TaskInv, TypeOK, SearchInv, ChoiceInv
<1>10. CASE config.kind # "demand"
  <2>1. stage' = "done" /\ UNCHANGED <<config, offered, retained, pending, chosen>>
    BY <1>10 DEF FinishSearch
  <2>2. pending = {} /\ chosen = {} /\ retained \subseteq offered
    BY DEF TaskInv, TypeOK, SearchInv, FinishSearch
  <2>3. TypeOK'
    BY <1>8, <2>1, <2>2 DEF TaskInv, TypeOK
  <2> QED BY <1>7, <1>10, <2>1, <2>3 DEF TaskInv, SearchInv, ChoiceInv
<1> QED BY <1>9, <1>10
LEMMA ChooseStep ==
    ASSUME TaskInv, NEW c \in pending, Choose(c) PROVE TaskInv'
<1>1. UNCHANGED <<config, offered, found, chosen>> /\ stage' = stage
  BY DEF Choose
<1>2. EligibleOffered' = EligibleOffered
  BY <1>1, SameOffers
<1>3. FoundExactly'
  BY <1>1, <1>2 DEF TaskInv, FoundExactly, Nondominated, Within, JourneyTime
<1>4. c \in Connections /\ found \ pending \in SUBSET Connections
  BY DEF TaskInv, TypeOK
<1>5. stage = "choice" /\ config.kind = "demand"
  BY DEF Choose, TaskInv, ChoiceInv, TypeOK
<1>6. Exact(FALSE, retained, found \ pending)
  BY <1>5 DEF TaskInv, ChoiceInv
<1>7. Exact(FALSE, retained', (found \ pending) \cup {c})
  BY <1>4, <1>6, RetainKeepsExact DEF Choose
<1>8. (found \ pending)' = (found \ pending) \cup {c}
  BY <1>1 DEF Choose, TaskInv, TypeOK
<1>9. TypeOK'
  BY <1>1, <1>4, <1>7, ZenonT(60) DEF TaskInv, TypeOK, Choose, Exact
<1> QED BY <1>1, <1>3, <1>5, <1>7, <1>8, <1>9 DEF TaskInv, SearchInv, ChoiceInv

LEMMA FinishChoiceStep == ASSUME TaskInv, FinishChoice PROVE TaskInv'
<1>1. UNCHANGED <<config, offered, retained, found, pending>> /\ pending = {}
  BY DEF FinishChoice
<1>2. EligibleOffered' = EligibleOffered
  BY <1>1, SameOffers
<1>3. FoundExactly'
  BY <1>1, <1>2 DEF TaskInv, FoundExactly, Nondominated, Within, JourneyTime,
                    FinishChoice
<1>5. config.kind = "demand"
  BY DEF FinishChoice, TaskInv, ChoiceInv, TypeOK
<1>6. retained \subseteq found
  BY <1>1, <1>5 DEF TaskInv, ChoiceInv, Exact, FinishChoice
<1>7. \A c \in retained : ExactOnly \/ Within(c, retained)
  <2>1. found \subseteq EligibleOffered
    BY DEF TaskInv, FoundExactly, FinishChoice, Nondominated
  <2>2. \A c \in found : ExactOnly \/ Within(c, EligibleOffered)
    BY DEF TaskInv, FoundExactly, FinishChoice
  <2> QED BY <1>6, <2>1, <2>2 DEF Within
<1>8. chosen' = retained
  BY <1>7 DEF FinishChoice, Finalized
<1>9. TypeOK'
  BY <1>1, <1>6, <1>8 DEF TaskInv, TypeOK, FinishChoice
<1> QED BY <1>1, <1>3, <1>5, <1>8, <1>9
        DEF TaskInv, SearchInv, ChoiceInv, FinishChoice

LEMMA StutterStep == ASSUME TaskInv, UNCHANGED vars PROVE TaskInv'
<1>1. EligibleOffered' = EligibleOffered
  BY SameOffers DEF vars
<1> QED BY <1>1 DEF vars, TaskInv, TypeOK, SearchInv, FoundExactly, ChoiceInv,
                    Nondominated, Within, JourneyTime

\* The invariant is inductive: every action of search and choice keeps it.
THEOREM TaskInvStep == TaskInv /\ [Next]_vars => TaskInv'
<1> SUFFICES ASSUME TaskInv, [Next]_vars PROVE TaskInv'
  OBVIOUS
<1>1. ASSUME NEW c \in Connections, Offer(c) PROVE TaskInv'
  BY <1>1, OfferStep
<1>2. CASE FinishSearch
  BY <1>2, FinishSearchStep
<1>3. ASSUME NEW c \in pending, Choose(c) PROVE TaskInv'
  BY <1>3, ChooseStep
<1>4. CASE FinishChoice
  BY <1>4, FinishChoiceStep
<1>5. CASE UNCHANGED vars
  BY <1>5, StutterStep
<1> QED BY <1>1, <1>2, <1>3, <1>4, <1>5 DEF Next

LEMMA AlwaysTaskInv == Spec => []TaskInv
BY InitTaskInv, TaskInvStep, PTL DEF Spec

------------------------------------------------------------------------------
\* The variables keep their types, and each set is drawn from the one before.
THEOREM TypeCorrect == Spec => []TypeOK
BY AlwaysTaskInv, PTL DEF TaskInv

LEMMA SlotIsExact == ASSUME TaskInv PROVE ExactlyNondominated
<1> SUFFICES ASSUME stage = "search"
             PROVE  retained = Nondominated(config.direct_barred,
                                            EligibleOffered)
  BY DEF ExactlyNondominated
<1>1. config.direct_barred \in BOOLEAN
  BY ConfigsAssumption DEF TaskInv, TypeOK
<1>2. EligibleOffered \in SUBSET Connections
  BY DEF TaskInv, TypeOK, EligibleOffered
<1> QED BY <1>1, <1>2, ExactIsNondominated DEF TaskInv, SearchInv

\* A slot holds the nondominated of the eligible connections completed so
\* far, in whatever order and however often they were completed.
THEOREM SlotsAreExact == Spec => []ExactlyNondominated
BY AlwaysTaskInv, SlotIsExact, PTL

\* The result of search is within the tolerances of minima over all eligible
\* connections, though the code takes them over the retained ones.
THEOREM ResultsAreExact == Spec => []FoundExactly
BY AlwaysTaskInv, PTL DEF TaskInv

LEMMA ChoiceIsExact == ASSUME TaskInv PROVE ChosenExactly
<1> SUFFICES ASSUME stage = "done", config.kind = "demand"
             PROVE  /\ chosen = Nondominated(FALSE, found)
                    /\ ~config.direct_barred => chosen = found
  BY DEF ChosenExactly
<1>1. found \in SUBSET Connections /\ found \ pending = found
  BY DEF TaskInv, TypeOK, ChoiceInv
<1>2. Exact(FALSE, chosen, found)
  BY <1>1 DEF TaskInv, ChoiceInv
<1>3. chosen = Nondominated(FALSE, found)
  BY <1>1, <1>2, ExactIsNondominated
<1>4. ASSUME ~config.direct_barred PROVE Nondominated(FALSE, found) = found
  <2>1. config.direct_barred = FALSE
    BY <1>4, ConfigsAssumption DEF TaskInv, TypeOK
  <2>2. found \subseteq Nondominated(FALSE, EligibleOffered)
    BY <2>1 DEF TaskInv, FoundExactly
  <2> QED BY <2>2 DEF Nondominated
<1> QED BY <1>3, <1>4

\* The choice step adds dominance, by direct connections too, and nothing
\* else: with the switch off it confirms the result of search.
THEOREM ChoicesAreExact == Spec => []ChosenExactly
BY AlwaysTaskInv, ChoiceIsExact, PTL

\* A slot never takes back a connection it refused or turned out.
THEOREM NothingComesBack == Spec => TurnedOutForGood
<1> DEFINE Kept == stage = "search" /\ stage' = "search"
                       => (offered \ retained) \cap retained' = {}
<1>1. ASSUME TaskInv, TaskInv', [Next]_vars PROVE [Kept]_vars
  <2> SUFFICES ASSUME stage = "search", stage' = "search",
                      NEW c \in offered \ retained, c \in retained'
               PROVE  FALSE
    OBVIOUS
  <2> DEFINE b == config.direct_barred
  <2>1. b \in BOOLEAN
    BY <1>1, ConfigsAssumption DEF TaskInv, TypeOK
  <2>2. config' = config /\ offered \subseteq offered'
    BY <1>1 DEF Next, vars, Offer, FinishSearch, Choose, FinishChoice
  <2>3. EligibleOffered \subseteq EligibleOffered'
    BY <2>2 DEF EligibleOffered, Eligible, Admissible, InSupport, Deleted,
                Reference, DeltaT, Begin, End
  <2>4. Exact(b, retained, EligibleOffered)
    BY <1>1 DEF TaskInv, SearchInv
  <2>5. retained' = Nondominated(b, EligibleOffered')
    <3>1. EligibleOffered' \in SUBSET Connections
      BY <1>1 DEF TaskInv, TypeOK, EligibleOffered
    <3>2. Exact(b, retained', EligibleOffered')
      BY <1>1, <2>2 DEF TaskInv, SearchInv
    <3> QED BY <2>1, <3>1, <3>2, ExactIsNondominated
  <2>6. c \in EligibleOffered
    <3>1. c \in EligibleOffered'
      BY <2>5 DEF Nondominated
    <3> QED BY <2>2, <3>1 DEF EligibleOffered, Eligible, Admissible,
                 InSupport, Deleted, Reference, DeltaT, Begin, End
  <2>7. PICK s \in retained : Dominates(b, s, c)
    BY <2>4, <2>6 DEF Exact
  <2>8. s \in EligibleOffered'
    BY <2>3, <2>4, <2>7 DEF Exact
  <2> QED BY <2>5, <2>7, <2>8 DEF Nondominated
<1> QED BY <1>1, AlwaysTaskInv, PTL DEF Spec, TurnedOutForGood

------------------------------------------------------------------------------
(* The order of preference.  A connection that dominates is ahead in the   *)
(* list of criteria anyway, so that preference is the order of the list.   *)

LexicallyBetter(c, d) ==
    \/ c.imp < d.imp
    \/ /\ c.imp = d.imp
       /\ \/ c.arr - c.dep < d.arr - d.dep
          \/ /\ c.arr - c.dep = d.arr - d.dep
             /\ \/ c.nt < d.nt
                \/ /\ c.nt = d.nt
                   /\ \/ c.arr < d.arr
                      \/ c.arr = d.arr /\ c.dep > d.dep

LEMMA BetterIsLexical ==
    ASSUME NEW c \in DayConnections, NEW d \in DayConnections
    PROVE  Complete!Better(c, d) <=> LexicallyBetter(c, d)
<1>1. /\ c.dep \in Int /\ c.arr \in Int /\ c.nt \in Nat /\ c.imp \in Int
      /\ d.dep \in Int /\ d.arr \in Int /\ d.nt \in Nat /\ d.imp \in Int
  BY PathsAssumption
<1>2. Complete!Dominates(FALSE, c, d) => LexicallyBetter(c, d)
  BY <1>1 DEF Complete!Dominates, LexicallyBetter
<1>3. Complete!Dominates(FALSE, d, c) => ~LexicallyBetter(c, d)
  BY <1>1 DEF Complete!Dominates, LexicallyBetter
<1> QED
  BY <1>2, <1>3
     DEF Complete!Better, Complete!JourneyTime, LexicallyBetter

LEMMA BetterIsOrder ==
    ASSUME NEW c \in DayConnections, NEW d \in DayConnections,
           NEW e \in DayConnections
    PROVE  /\ ~Complete!Better(c, c)
           /\ Complete!Better(c, d) /\ Complete!Better(d, e)
                => Complete!Better(c, e)
           /\ Complete!Better(c, e)
                => Complete!Better(c, d) \/ Complete!Better(d, e)
<1>1. /\ c.dep \in Int /\ c.arr \in Int /\ c.nt \in Nat /\ c.imp \in Int
      /\ d.dep \in Int /\ d.arr \in Int /\ d.nt \in Nat /\ d.imp \in Int
      /\ e.dep \in Int /\ e.arr \in Int /\ e.nt \in Nat /\ e.imp \in Int
  BY PathsAssumption
<1> QED BY <1>1, BetterIsLexical DEF LexicallyBetter

\* What dominates is preferred.
LEMMA DominatorIsBetter ==
    ASSUME NEW c \in DayConnections, NEW d \in DayConnections,
           Complete!Dominates(FALSE, c, d)
    PROVE  Complete!Better(c, d)
BY DEF Complete!Better

LEMMA DayDominanceIsTransitive ==
    ASSUME NEW c \in DayConnections, NEW d \in DayConnections,
           NEW e \in DayConnections,
           Complete!Dominates(FALSE, c, d), Complete!Dominates(FALSE, d, e)
    PROVE  Complete!Dominates(FALSE, c, e)
<1>1. /\ c.dep \in Int /\ c.arr \in Int /\ c.nt \in Nat /\ c.imp \in Int
      /\ d.dep \in Int /\ d.arr \in Int /\ d.nt \in Nat /\ d.imp \in Int
      /\ e.dep \in Int /\ e.arr \in Int /\ e.nt \in Nat /\ e.imp \in Int
  BY PathsAssumption
<1> QED BY <1>1 DEF Complete!Dominates, Complete!CanDominate

------------------------------------------------------------------------------
(* Every finite set has a member that nothing precedes.                    *)

LEMMA FirstExists ==
    ASSUME NEW S, IsFiniteSet(S), S # {}, NEW R,
           \A x \in S : <<x, x>> \notin R,
           \A x, y, z \in S : <<x, y>> \in R /\ <<y, z>> \in R => <<x, z>> \in R
    PROVE  \E x \in S : \A y \in S : <<y, x>> \notin R
<1> DEFINE Up(x) == {y \in S : <<y, x>> \in R}
           Ups == {Up(x) : x \in S}
           Inside == StrictSubsetOrdering(S)
<1>1. IsWellFoundedOn(Inside, FiniteSubsetsOf(S))
  BY FS_StrictSubsetOrderingWellFounded
<1>2. Ups \subseteq FiniteSubsetsOf(S) /\ Ups # {}
  <2>1. \A x \in S : Up(x) \subseteq S
    OBVIOUS
  <2> HIDE DEF Up
  <2>2. \A x \in S : Up(x) \in FiniteSubsetsOf(S)
    BY <2>1, FS_Subset DEF FiniteSubsetsOf
  <2> QED BY <2>2
<1>3. PICK u \in Ups : \A v \in Ups : <<v, u>> \notin Inside
  <2> HIDE DEF Ups, Inside
  <2> QED BY <1>1, <1>2, WFMin
<1>4. PICK x \in S : u = Up(x)
  BY <1>3
<1>5. ASSUME NEW y \in S, <<y, x>> \in R
      PROVE  FALSE
  <2>1. y \in Up(x) /\ y \notin Up(y)
    BY <1>5
  <2>2. Up(y) \subseteq Up(x)
    BY <1>4, <1>5
  <2>3. <<Up(y), Up(x)>> \in Inside
    BY <2>1, <2>2 DEF StrictSubsetOrdering
  <2> QED BY <1>3, <1>4, <2>3
<1> QED BY <1>5

LEMMA BestExists ==
    ASSUME NEW S \in SUBSET DayConnections, IsFiniteSet(S), S # {}
    PROVE  /\ BestOf(S) \in S
           /\ \A s \in S : ~Complete!Better(s, BestOf(S))
<1> DEFINE R == {p \in S \X S : Complete!Better(p[1], p[2])}
<1>1. \A x, y \in S : <<x, y>> \in R <=> Complete!Better(x, y)
  OBVIOUS
<1>2. \E b \in S : \A s \in S : <<s, b>> \notin R
  <2>1. \A x \in S : <<x, x>> \notin R
    BY <1>1, BetterIsOrder
  <2>2. \A x, y, z \in S : <<x, y>> \in R /\ <<y, z>> \in R => <<x, z>> \in R
    BY <1>1, BetterIsOrder
  <2> HIDE DEF R
  <2> QED BY <2>1, <2>2, FirstExists
<1>3. \E b \in S : \A s \in S : ~Complete!Better(s, b)
  BY <1>1, <1>2
<1> QED BY <1>3, Zenon DEF BestOf

LEMMA WorstExists ==
    ASSUME NEW S \in SUBSET DayConnections, IsFiniteSet(S), S # {}
    PROVE  /\ WorstOf(S) \in S
           /\ \A s \in S : ~Complete!Better(WorstOf(S), s)
<1> DEFINE R == {p \in S \X S : Complete!Better(p[2], p[1])}
<1>1. \A x, y \in S : <<x, y>> \in R <=> Complete!Better(y, x)
  OBVIOUS
<1>2. \E w \in S : \A s \in S : <<s, w>> \notin R
  <2>1. \A x \in S : <<x, x>> \notin R
    BY <1>1, BetterIsOrder
  <2>2. \A x, y, z \in S : <<x, y>> \in R /\ <<y, z>> \in R => <<x, z>> \in R
    BY <1>1, BetterIsOrder
  <2> HIDE DEF R
  <2> QED BY <2>1, <2>2, FirstExists
<1>3. \E w \in S : \A s \in S : ~Complete!Better(w, s)
  BY <1>1, <1>2
<1> QED BY <1>3, Zenon DEF WorstOf

------------------------------------------------------------------------------
(* The scan that drops dominated paths.                                    *)

\* A fact about all numbers up to n, by the least one that refutes it.
LEMMA UpTo ==
    ASSUME NEW n \in Nat, NEW Holds,
           0 \in Holds,
           \A k \in 1 .. n : k - 1 \in Holds => k \in Holds
    PROVE  n \in Holds
<1> DEFINE Rest == 0 .. n \ Holds
           R == {p \in Nat \X Nat : p[1] < p[2]}
<1>1. ASSUME Rest # {}
      PROVE  FALSE
  <2>1. Rest \subseteq Nat /\ IsFiniteSet(Rest)
    <3>1. IsFiniteSet(0 .. n)
      BY FS_Interval, 0 \in Int
    <3> QED BY <3>1, FS_Subset
  <2>2. \A x, y \in Nat : <<x, y>> \in R <=> x < y
    OBVIOUS
  <2>3. \A x, y, z \in Rest : <<x, x>> \notin R
          /\ (<<x, y>> \in R /\ <<y, z>> \in R => <<x, z>> \in R)
    <3> HIDE DEF R, Rest
    <3>1. \A x, y \in Rest : <<x, y>> \in R <=> x < y
      BY <2>1, <2>2
    <3>2. \A x, y, z \in Rest : ~(x < x) /\ (x < y /\ y < z => x < z)
      BY <2>1
    <3> QED BY <3>1, <3>2
  <2>4. PICK k \in Rest : \A j \in Rest : <<j, k>> \notin R
    <3> HIDE DEF R, Rest
    <3> QED BY <1>1, <2>1, <2>3, FirstExists
  <2>5. k \in 1 .. n /\ k - 1 \in 0 .. n /\ k - 1 < k /\ k - 1 \in Nat /\ k \in Nat
    BY <2>4
  <2>6. k - 1 \in Holds
    BY <2>2, <2>4, <2>5
  <2> QED BY <2>4, <2>5, <2>6
<1> QED BY <1>1

\* Alternatives made of the connections of T.
IsRetention(as, T) ==
    /\ as = [p \in DOMAIN as |-> as[p]]
    /\ DOMAIN as \subseteq Paths
    /\ \A p \in DOMAIN as :
        /\ as[p] \in [supports : SUBSET T, representative : T]
        /\ as[p].representative \in as[p].supports
        /\ \A c \in as[p].supports : c.path = p

LEMMA SetDominanceIsTransitive ==
    ASSUME NEW as, IsRetention(as, DayConnections),
           NEW p \in DOMAIN as, NEW q \in DOMAIN as, NEW r \in DOMAIN as,
           SetDominates(as[p], as[q]), SetDominates(as[q], as[r])
    PROVE  SetDominates(as[p], as[r])
<1>1. ASSUME NEW s \in as[r].supports
      PROVE  \E t \in as[p].supports : Complete!Dominates(FALSE, t, s)
  <2>1. PICK u \in as[q].supports : Complete!Dominates(FALSE, u, s)
    BY DEF SetDominates
  <2>2. PICK t \in as[p].supports : Complete!Dominates(FALSE, t, u)
    BY DEF SetDominates
  <2>3. s \in DayConnections /\ u \in DayConnections /\ t \in DayConnections
    BY <2>1, <2>2 DEF IsRetention
  <2> QED BY <2>1, <2>2, <2>3, DayDominanceIsTransitive
<1> QED BY <1>1 DEF SetDominates

\* One path of the scan.
Left(as, S, n) ==
    IF n \in S /\ \E o \in S \ {n} : SetDominates(as[o], as[n])
    THEN S \ {n} ELSE S

SolvesKept(f, as) ==
    f = [n \in 0 .. PathCount |->
            IF n = 0 THEN DOMAIN as ELSE Left(as, f[n - 1], n)]

KeptUpTo(f, as, n) ==
    /\ f \in [0 .. n -> SUBSET DOMAIN as]
    /\ \A k \in 0 .. n : f[k] = IF k = 0 THEN DOMAIN as ELSE Left(as, f[k - 1], k)

LEMMA KeptExists ==
    ASSUME NEW as
    PROVE  \E f : SolvesKept(f, as)
<1> DEFINE Holds == {n \in 0 .. PathCount : \E f : KeptUpTo(f, as, n)}
<1>0. PathCount \in Nat
  BY PathsAssumption
<1>1. 0 \in Holds
  <2> DEFINE g == [k \in 0 .. 0 |-> DOMAIN as]
  <2>1. g \in [0 .. 0 -> SUBSET DOMAIN as] /\ g[0] = DOMAIN as
        /\ \A k \in 0 .. 0 : k = 0
    OBVIOUS
  <2> HIDE DEF g
  <2>2. KeptUpTo(g, as, 0)
    BY <2>1 DEF KeptUpTo
  <2>3. 0 \in 0 .. PathCount
    BY <1>0
  <2> QED BY <2>2, <2>3
<1>2. ASSUME NEW n \in 1 .. PathCount, n - 1 \in Holds
      PROVE  n \in Holds
  <2>1. PICK f : KeptUpTo(f, as, n - 1)
    BY <1>2
  <2> DEFINE last == Left(as, f[n - 1], n)
             g == [k \in 0 .. n |-> IF k = n THEN last ELSE f[k]]
  <2>2. /\ n \in Nat /\ n # 0 /\ n - 1 \in 0 .. n - 1 /\ n \in 0 .. PathCount
        /\ \A k \in 0 .. n : k # n => k \in 0 .. n - 1
        /\ \A k \in 0 .. n : k # 0 => k - 1 \in 0 .. n - 1 /\ k - 1 \in 0 .. n
    BY <1>0
  <2>3. f \in [0 .. n - 1 -> SUBSET DOMAIN as]
    BY <2>1 DEF KeptUpTo
  <2>4. last \in SUBSET DOMAIN as
    BY <2>2, <2>3 DEF Left
  <2>5. g \in [0 .. n -> SUBSET DOMAIN as]
    <3> HIDE DEF last
    <3> QED BY <2>2, <2>3, <2>4
  <2>6. g[n] = last /\ \A k \in 0 .. n - 1 : g[k] = f[k]
    <3>1. n \in 0 .. n /\ \A k \in 0 .. n - 1 : k \in 0 .. n /\ k # n
      BY <2>2
    <3> HIDE DEF last
    <3> QED BY <3>1
  <2>7. ASSUME NEW k \in 0 .. n
        PROVE  g[k] = IF k = 0 THEN DOMAIN as ELSE Left(as, g[k - 1], k)
    <3> HIDE DEF g
    <3>1. CASE k = n
      BY <2>2, <2>6, <3>1
    <3>2. CASE k # n
      <4>1. f[k] = IF k = 0 THEN DOMAIN as ELSE Left(as, f[k - 1], k)
        BY <2>1, <2>2, <3>2 DEF KeptUpTo
      <4> QED BY <2>2, <2>6, <3>2, <4>1
    <3> QED BY <3>1, <3>2
  <2>8. KeptUpTo(g, as, n)
    <3> HIDE DEF g
    <3> QED BY <2>5, <2>7 DEF KeptUpTo
  <2> QED BY <2>2, <2>8
<1>3. PathCount \in Holds
  <2> HIDE DEF Holds
  <2> QED BY <1>0, <1>1, <1>2, UpTo
<1>4. PICK f : KeptUpTo(f, as, PathCount)
  BY <1>3
<1>5. SolvesKept(f, as)
  BY <1>4 DEF KeptUpTo, SolvesKept
<1> QED BY <1>5

\* remove_support_dominated_paths leaves paths none of which is dominated by
\* another, and what it drops one that is left dominates.
LEMMA ScanLeaves ==
    ASSUME NEW as, IsRetention(as, DayConnections)
    PROVE  \E left \in SUBSET DOMAIN as :
             /\ Undominated(as) = [p \in left |-> as[p]]
             /\ \A p, q \in left : p # q => ~SetDominates(as[p], as[q])
             /\ \A p \in DOMAIN as \ left :
                  \E q \in left : SetDominates(as[q], as[p])
<1> DEFINE f == CHOOSE g : SolvesKept(g, as)
<1>0. PathCount \in Nat /\ \A q \in DOMAIN as : q \in 1 .. PathCount
  <2>1. DOMAIN as \subseteq Paths
    BY Zenon DEF IsRetention
  <2> QED BY <2>1, PathsAssumption DEF Paths
<1>1. SolvesKept(f, as)
  BY KeptExists, Zenon
<1>2. Undominated(as) = Restrict(as, f[PathCount])
  BY DEF Undominated, SolvesKept, Left
<1> HIDE DEF f
<1>3. /\ f[0] = DOMAIN as
      /\ \A n \in 1 .. PathCount : f[n] = Left(as, f[n - 1], n)
  <2>1. \A n \in 0 .. PathCount :
          f[n] = IF n = 0 THEN DOMAIN as ELSE Left(as, f[n - 1], n)
    BY <1>1, Zenon DEF SolvesKept
  <2>2. 0 \in 0 .. PathCount
        /\ \A n \in 1 .. PathCount : n \in 0 .. PathCount /\ n # 0
    BY <1>0
  <2> QED BY <2>1, <2>2
<1> DEFINE Scanned(S, n) ==
             /\ S \subseteq DOMAIN as
             /\ \A p, q \in S : p # q /\ q <= n => ~SetDominates(as[p], as[q])
             /\ \A p \in DOMAIN as \ S : \E q \in S : SetDominates(as[q], as[p])
           Holds == {n \in 0 .. PathCount : Scanned(f[n], n)}
<1>4. 0 \in Holds
  <2>1. 0 \in 0 .. PathCount /\ \A q \in DOMAIN as : ~(q <= 0)
    <3>1. 0 \in 0 .. PathCount /\ \A q \in 1 .. PathCount : ~(q <= 0)
      BY <1>0
    <3> QED BY <1>0, <3>1, Zenon
  <2> QED BY <1>3, <2>1
<1>5. ASSUME NEW n \in 1 .. PathCount, n - 1 \in Holds
      PROVE  n \in Holds
  <2> DEFINE S == f[n - 1]
  <2>1. Scanned(S, n - 1)
    BY <1>5
  <2>2. f[n] = Left(as, S, n) /\ n \in 0 .. PathCount
    <3>1. n \in 0 .. PathCount
      BY <1>0
    <3> QED BY <1>3, <3>1
  <2>3. \A q \in DOMAIN as : q <= n => q = n \/ q <= n - 1
    <3>1. \A q \in 1 .. PathCount : q <= n => q = n \/ q <= n - 1
      BY <1>0
    <3> QED BY <1>0, <3>1, Zenon
  <2> HIDE DEF S, Holds
  <2>4. CASE n \in S /\ \E o \in S \ {n} : SetDominates(as[o], as[n])
    <3>1. f[n] = S \ {n}
      BY <2>2, <2>4 DEF Left
    <3>2. PICK o \in S \ {n} : SetDominates(as[o], as[n])
      BY <2>4
    <3>3. ASSUME NEW p \in DOMAIN as \ (S \ {n})
          PROVE  \E q \in S \ {n} : SetDominates(as[q], as[p])
      <4>1. CASE p = n
        BY <3>2, <4>1
      <4>2. CASE p # n
        <5>1. PICK q \in S : SetDominates(as[q], as[p])
          BY <2>1, <3>3, <4>2
        <5>2. CASE q = n
          <6>1. SetDominates(as[o], as[p])
            BY <2>1, <3>2, <5>1, <5>2, SetDominanceIsTransitive
          <6> QED BY <3>2, <6>1
        <5> QED BY <5>1, <5>2
      <4> QED BY <4>1, <4>2
    <3>4. Scanned(S \ {n}, n)
      BY <2>1, <2>3, <3>3
    <3> QED BY <2>2, <3>1, <3>4 DEF Holds
  <2>5. CASE ~(n \in S /\ \E o \in S \ {n} : SetDominates(as[o], as[n]))
    <3>1. f[n] = S
      BY <2>2, <2>5 DEF Left
    <3>2. Scanned(S, n)
      BY <2>1, <2>3, <2>5
    <3> QED BY <2>2, <3>1, <3>2 DEF Holds
  <2> QED BY <2>4, <2>5
<1>6. Scanned(f[PathCount], PathCount)
  <2>1. PathCount \in Holds
    <3> HIDE DEF Holds
    <3> QED BY <1>0, <1>4, <1>5, UpTo
  <2> QED BY <2>1
<1>7. \A q \in DOMAIN as : q <= PathCount
  <2>1. \A q \in 1 .. PathCount : q <= PathCount
    BY <1>0
  <2> QED BY <1>0, <2>1, Zenon
<1>8. \A p, q \in f[PathCount] : p # q => ~SetDominates(as[p], as[q])
  BY <1>6, <1>7
<1> QED BY <1>2, <1>6, <1>8 DEF Restrict

------------------------------------------------------------------------------
(* What one more connection does to the alternatives.                      *)

\* Each path is represented by its best support.
BestRepresented(as) ==
    \A p \in DOMAIN as : \A s \in as[p].supports :
        ~Complete!Better(s, as[p].representative)

\* Some path is represented by the best of T.
Tops(as, T) ==
    \E p \in DOMAIN as : \A c \in T : ~Complete!Better(c, as[p].representative)

\* The alternatives before they are enforced.
Added(as, c, supports) ==
    [q \in DOMAIN as \cup {c.path} |->
        IF q # c.path THEN as[q]
        ELSE IF q \in DOMAIN as THEN With(as[q], supports, c) ELSE Alternative(c)]

NewSupports(p, as, c) == Supports(p, as[c.path].supports, c)
WithNew(p, as, c) == Added(as, c, NewSupports(p, as, c))

LEMMA RetainPathAdds ==
    ASSUME NEW p, NEW T, NEW as, IsRetention(as, T), NEW c,
           NEW new \in RetainPath(p, as, c)
    PROVE  /\ c.path \in DOMAIN as => NewSupports(p, as, c) # {}
           /\ new \in Enforced(p, WithNew(p, as, c))
<1> USE DEF WithNew
<1>1. CASE c.path \notin DOMAIN as
  <2>1. Added(as, c, NewSupports(p, as, c))
          = [q \in DOMAIN as \cup {c.path} |->
                IF q = c.path THEN Alternative(c) ELSE as[q]]
    BY <1>1 DEF Added
  <2> QED BY <1>1, <2>1 DEF RetainPath
<1>2. CASE c.path \in DOMAIN as
  <2> DEFINE S == Supports(p, as[c.path].supports, c)
             mid == [as EXCEPT ![c.path] = With(@, S, c)]
  <2>1. new \in IF S = {} THEN {} ELSE Enforced(p, mid)
    BY <1>2 DEF RetainPath
  <2>2. S # {} /\ new \in Enforced(p, mid)
    <3> HIDE DEF S, mid
    <3> QED BY <2>1
  <2>3. mid = Added(as, c, S)
    <3> HIDE DEF S
    <3>1. DOMAIN as \cup {c.path} = DOMAIN as
      BY <1>2
    <3> QED BY <1>2, <3>1 DEF Added
  <2> QED BY <2>2, <2>3 DEF NewSupports
<1> QED BY <1>1, <1>2

Preferred(c, r) == IF Complete!Better(c, r) THEN c ELSE r

\* A support list keeps the best of a path, whichever of it goes.
LEMMA SupportsKeepBest ==
    ASSUME NEW p, NEW S \in SUBSET DayConnections, IsFiniteSet(S),
           NEW c \in DayConnections, NEW r \in S,
           \A s \in S : ~Complete!Better(s, r),
           Supports(p, S, c) # {}
    PROVE  /\ Supports(p, S, c) \subseteq S \cup {c}
           /\ Preferred(c, r) \in Supports(p, S, c)
           /\ \A s \in S \cup {c} : ~Complete!Better(s, Preferred(c, r))
<1> DEFINE best == Preferred(c, r)
           w == WorstOf(S)
<1>1. w \in S /\ \A s \in S : ~Complete!Better(w, s)
  BY WorstExists
<1> HIDE DEF w
<1>2. \A s \in S \cup {c} : ~Complete!Better(s, best)
  BY BetterIsOrder DEF Preferred
<1>3. Supports(p, S, c) \in {S \cup {c}, (S \ {w}) \cup {c}, S}
      /\ (Supports(p, S, c) = (S \ {w}) \cup {c} \/ Supports(p, S, c) = S \cup {c}
          \/ ~Complete!Better(c, w))
      /\ (Supports(p, S, c) = (S \ {w}) \cup {c} => Complete!Better(c, w)
          \/ Supports(p, S, c) = S \cup {c})
  BY DEF Supports, w
<1>4. Supports(p, S, c) \subseteq S \cup {c}
  BY <1>3
<1>5. best \in Supports(p, S, c)
  <2>1. CASE Supports(p, S, c) = S \cup {c}
    BY <2>1 DEF Preferred
  <2>2. CASE Supports(p, S, c) = (S \ {w}) \cup {c} /\ Complete!Better(c, w)
    BY <2>2 DEF Preferred
  <2>3. CASE Supports(p, S, c) = S /\ ~Complete!Better(c, w)
    <3>1. ~Complete!Better(c, r)
      BY <1>1, <2>3, BetterIsOrder
    <3> QED BY <2>3, <3>1 DEF Preferred
  <2> QED BY <1>3, <2>1, <2>2, <2>3
<1> QED BY <1>2, <1>4, <1>5

\* The alternatives with the new connection in them.
LEMMA AddedIsRetention ==
    ASSUME NEW p, NEW T \in SUBSET DayConnections, IsFiniteSet(T),
           NEW as, IsRetention(as, T), BestRepresented(as),
           NEW c \in DayConnections,
           c.path \in DOMAIN as => NewSupports(p, as, c) # {}
    PROVE  /\ IsRetention(WithNew(p, as, c), T \cup {c})
           /\ BestRepresented(WithNew(p, as, c))
<1> DEFINE S == NewSupports(p, as, c)
           mid == Added(as, c, S)
           new == mid[c.path]
           old == as[c.path]
<1>1. mid = [q \in DOMAIN mid |-> mid[q]] /\ DOMAIN mid = DOMAIN as \cup {c.path}
  BY DEF Added
<1>2. \A q \in DOMAIN as : q # c.path => mid[q] = as[q]
  BY DEF Added
<1>3. c.path \in Paths
  BY PathsAssumption
<1>4. /\ new.supports \subseteq T \cup {c} /\ new.representative \in new.supports
      /\ new \in [supports : SUBSET (T \cup {c}), representative : T \cup {c}]
      /\ \A s \in new.supports : s.path = c.path
      /\ \A s \in new.supports : ~Complete!Better(s, new.representative)
      /\ new.representative =
           IF c.path \in DOMAIN as /\ ~Complete!Better(c, old.representative)
           THEN old.representative ELSE c
  <2>1. CASE c.path \notin DOMAIN as
    <3>1. new = [supports |-> {c}, representative |-> c]
      BY <2>1 DEF Added, Alternative
    <3> HIDE DEF new
    <3> QED BY <2>1, <3>1, BetterIsOrder
  <2>2. CASE c.path \in DOMAIN as
    <3> DEFINE best == Preferred(c, old.representative)
    <3>1. new = [supports |-> S, representative |-> best]
      BY <2>2 DEF Added, With, Preferred
    <3>2. /\ old \in [supports : SUBSET T, representative : T]
          /\ old.representative \in old.supports
          /\ \A s \in old.supports : s.path = c.path
          /\ \A s \in old.supports : ~Complete!Better(s, old.representative)
      BY <2>2, Zenon DEF IsRetention, BestRepresented
    <3>3. old.supports \in SUBSET DayConnections /\ IsFiniteSet(old.supports)
          /\ old.supports \subseteq T /\ old.representative \in T
      <4>1. old.supports \subseteq T /\ old.representative \in T
        BY <3>2
      <4> HIDE DEF old
      <4> QED BY <4>1, FS_Subset
    <3>4. S = Supports(p, old.supports, c) /\ S # {}
      BY <2>2 DEF NewSupports
    <3>5. /\ S \subseteq old.supports \cup {c} /\ best \in S
          /\ \A s \in old.supports \cup {c} : ~Complete!Better(s, best)
      <4> DEFINE X == old.supports
                 r == old.representative
      <4>1. /\ X \in SUBSET DayConnections /\ IsFiniteSet(X) /\ r \in X
            /\ \A s \in X : ~Complete!Better(s, r)
            /\ Supports(p, X, c) # {} /\ S = Supports(p, X, c)
        BY <3>2, <3>3, <3>4
      <4>2. /\ Supports(p, X, c) \subseteq X \cup {c}
            /\ Preferred(c, r) \in Supports(p, X, c)
            /\ \A s \in X \cup {c} : ~Complete!Better(s, Preferred(c, r))
        <5> HIDE DEF old, S, X, r
        <5> QED BY <4>1, SupportsKeepBest, ZenonT(60)
      <4> QED BY <4>1, <4>2
    <3>6. S \subseteq T \cup {c} /\ best \in T \cup {c}
          /\ \A s \in S : s.path = c.path /\ ~Complete!Better(s, best)
      <4> HIDE DEF old, S, best
      <4> QED BY <3>2, <3>3, <3>5
    <3>7. best = IF c.path \in DOMAIN as /\ ~Complete!Better(c, old.representative)
                 THEN old.representative ELSE c
      BY <2>2 DEF Preferred
    <3> HIDE DEF new, old, S, best
    <3> QED BY <3>1, <3>5, <3>6, <3>7
  <2> QED BY <2>1, <2>2
<1>5. ASSUME NEW q \in DOMAIN as, q # c.path
      PROVE  /\ mid[q] \in [supports : SUBSET (T \cup {c}), representative : T \cup {c}]
             /\ mid[q].representative \in mid[q].supports
             /\ \A s \in mid[q].supports : s.path = q
             /\ \A s \in mid[q].supports : ~Complete!Better(s, mid[q].representative)
  <2>1. mid[q] = as[q]
    BY <1>2, <1>5
  <2>2. /\ as[q] \in [supports : SUBSET T, representative : T]
        /\ as[q].representative \in as[q].supports
        /\ \A s \in as[q].supports : s.path = q
        /\ \A s \in as[q].supports : ~Complete!Better(s, as[q].representative)
    BY Zenon DEF IsRetention, BestRepresented
  <2> HIDE DEF mid
  <2> QED BY <2>1, <2>2
<1>6. DOMAIN as \subseteq Paths
  BY Zenon DEF IsRetention
<1>7. IsRetention(mid, T \cup {c})
  <2> HIDE DEF mid
  <2>1. DOMAIN mid \subseteq Paths
    BY <1>1, <1>3, <1>6
  <2>2. \A q \in DOMAIN mid : q = c.path \/ (q \in DOMAIN as /\ q # c.path)
    BY <1>1
  <2> QED BY <1>1, <1>4, <1>5, <2>1, <2>2, Zenon DEF IsRetention
<1>8. BestRepresented(mid)
  <2> HIDE DEF mid
  <2>2. \A q \in DOMAIN mid : q = c.path \/ (q \in DOMAIN as /\ q # c.path)
    BY <1>1
  <2> QED BY <1>4, <1>5, <2>2, Zenon DEF BestRepresented
<1> QED BY <1>7, <1>8 DEF WithNew

LEMMA AddedTops ==
    ASSUME NEW T \in SUBSET DayConnections, NEW c \in DayConnections,
           NEW as, IsRetention(as, T), T # {} => Tops(as, T),
           NEW mid, DOMAIN mid = DOMAIN as \cup {c.path},
           \A q \in DOMAIN as : q # c.path => mid[q] = as[q],
           mid[c.path].representative =
               IF /\ c.path \in DOMAIN as
                  /\ ~Complete!Better(c, as[c.path].representative)
               THEN as[c.path].representative ELSE c
    PROVE  Tops(mid, T \cup {c})
<1> DEFINE old == as[c.path].representative
           new == mid[c.path].representative
<1>1. \A p \in DOMAIN as : as[p].representative \in DayConnections
                           /\ as[p].representative \in T
  <2>1. \A p \in DOMAIN as : as[p] \in [supports : SUBSET T, representative : T]
    BY Zenon DEF IsRetention
  <2> QED BY <2>1
<1>2. c.path \in DOMAIN mid
  OBVIOUS
<1>3. CASE T = {}
  <2>1. new = c
    BY <1>1, <1>3
  <2>2. \A d \in T \cup {c} : ~Complete!Better(d, new)
    BY <1>3, <2>1, BetterIsOrder
  <2> QED BY <1>2, <2>2 DEF Tops
<1>4. CASE T # {}
  <2>1. PICK p \in DOMAIN as : \A d \in T : ~Complete!Better(d, as[p].representative)
    BY <1>4 DEF Tops
  <2> DEFINE r == as[p].representative
  <2>2. r \in DayConnections /\ r \in T /\ \A d \in T : ~Complete!Better(d, r)
    BY <1>1, <2>1
  <2>3. CASE Complete!Better(c, r)
    <3>1. new = c
      <4>1. CASE c.path \notin DOMAIN as
        BY <4>1
      <4>2. CASE c.path \in DOMAIN as
        <5>1. old \in DayConnections /\ ~Complete!Better(old, r)
          BY <1>1, <2>2, <4>2
        <5>2. Complete!Better(c, old)
          <6> HIDE DEF old, r
          <6> QED BY <2>2, <2>3, <5>1, BetterIsOrder
        <5> QED BY <5>2
      <4> QED BY <4>1, <4>2
    <3>2. \A d \in T \cup {c} : ~Complete!Better(d, c)
      <4>1. \A d \in T : d \in DayConnections
        OBVIOUS
      <4> HIDE DEF r
      <4> QED BY <2>2, <2>3, <4>1, BetterIsOrder
    <3> HIDE DEF new
    <3>3. \A d \in T \cup {c} : ~Complete!Better(d, new)
      BY <3>1, <3>2
    <3> QED BY <1>2, <3>3 DEF Tops, new
  <2>4. CASE ~Complete!Better(c, r)
    <3>1. p \in DOMAIN mid /\ mid[p].representative = r
      <4>1. CASE p = c.path
        BY <2>4, <4>1
      <4>2. CASE p # c.path
        BY <4>2
      <4> QED BY <4>1, <4>2
    <3>2. \A d \in T \cup {c} : ~Complete!Better(d, r)
      <4> HIDE DEF r
      <4> QED BY <2>2, <2>4
    <3> HIDE DEF r
    <3> QED BY <3>1, <3>2 DEF Tops
  <2> QED BY <2>3, <2>4
<1> QED BY <1>3, <1>4

------------------------------------------------------------------------------
(* What the enforcement leaves of the alternatives.                        *)

BestAt(as, p) == BestOf(as[p].supports)

LEMMA BestAtPath ==
    ASSUME NEW T \in SUBSET DayConnections, IsFiniteSet(T),
           NEW as, IsRetention(as, T), NEW p \in DOMAIN as
    PROVE  /\ BestAt(as, p) \in DayConnections
           /\ BestAt(as, p) \in as[p].supports
           /\ \A s \in as[p].supports : ~Complete!Better(s, BestAt(as, p))
<1> DEFINE S == as[p].supports
<1>1. S \subseteq T /\ S # {}
  <2>1. /\ as[p] \in [supports : SUBSET T, representative : T]
        /\ as[p].representative \in as[p].supports
    BY Zenon DEF IsRetention
  <2> QED BY <2>1
<1> HIDE DEF S
<1>2. IsFiniteSet(S)
  BY <1>1, FS_Subset
<1>3. BestOf(S) \in S /\ \A s \in S : ~Complete!Better(s, BestOf(S))
  BY <1>1, <1>2, BestExists
<1> QED BY <1>1, <1>3 DEF S, BestAt

LEMMA WorstPathExists ==
    ASSUME NEW T \in SUBSET DayConnections, IsFiniteSet(T),
           NEW as, IsRetention(as, T), DOMAIN as # {}
    PROVE  /\ WorstPath(as) \in DOMAIN as
           /\ \A q \in DOMAIN as \ {WorstPath(as)} :
                ~Complete!Better(BestAt(as, WorstPath(as)), BestAt(as, q))
<1> DEFINE X == DOMAIN as
           Before(q, w) ==
             \/ Complete!Better(BestAt(as, w), BestAt(as, q))
             \/ q < w /\ ~Complete!Better(BestAt(as, q), BestAt(as, w))
           R == {x \in X \X X : Before(x[1], x[2])}
<1>1. X \subseteq 1 .. PathCount /\ PathCount \in Nat
  <2>1. DOMAIN as \subseteq Paths
    BY Zenon DEF IsRetention
  <2> QED BY <2>1, PathsAssumption DEF Paths
<1>2. X \subseteq Int /\ IsFiniteSet(X)
  <2>1. IsFiniteSet(1 .. PathCount)
    BY <1>1, FS_Interval
  <2>2. 1 .. PathCount \subseteq Int
    BY <1>1
  <2> HIDE DEF X
  <2>3. IsFiniteSet(X)
    BY <1>1, <2>1, FS_Subset
  <2>4. X \subseteq Int
    BY <1>1, <2>2
  <2> QED BY <2>3, <2>4
<1>3. \A q \in X : BestAt(as, q) \in DayConnections
  BY BestAtPath
<1>4. \A x, y \in X : <<x, y>> \in R <=> Before(x, y)
  <2> HIDE DEF Before
  <2> QED OBVIOUS
<1>5. \A x \in X : ~Before(x, x)
  <2> HIDE DEF X
  <2>1. \A x \in X : ~(x < x)
    BY <1>2
  <2>2. \A x \in X : ~Complete!Better(BestAt(as, x), BestAt(as, x))
    BY <1>3, BetterIsOrder
  <2> QED BY <2>1, <2>2
<1>6. ASSUME NEW x \in X, NEW y \in X, NEW z \in X, Before(x, y), Before(y, z)
      PROVE  Before(x, z)
  <2> DEFINE a == BestAt(as, x)
             b == BestAt(as, y)
             c == BestAt(as, z)
  <2>1. a \in DayConnections /\ b \in DayConnections /\ c \in DayConnections
    BY <1>3
  <2>2. x < y /\ y < z => x < z
    <3> HIDE DEF X, Before
    <3>1. x \in Int /\ y \in Int /\ z \in Int
      BY <1>2
    <3> QED BY <3>1
  <2>3. \/ Complete!Better(b, a)
        \/ x < y /\ ~Complete!Better(a, b)
    BY <1>6
  <2>4. \/ Complete!Better(c, b)
        \/ y < z /\ ~Complete!Better(b, c)
    BY <1>6
  <2> HIDE DEF X, Before, a, b, c
  <2>5. Complete!Better(c, a) \/ (x < z /\ ~Complete!Better(a, c))
    BY <2>1, <2>2, <2>3, <2>4, BetterIsOrder
  <2> QED BY <2>5 DEF Before, a, c
<1>7. PICK low \in X : \A q \in X : ~Before(q, low)
  <2>1. \A x \in X : <<x, x>> \notin R
    <3> HIDE DEF X, R, Before
    <3> QED BY <1>4, <1>5
  <2>2. \A x, y, z \in X : <<x, y>> \in R /\ <<y, z>> \in R => <<x, z>> \in R
    <3> HIDE DEF X, R, Before
    <3> QED BY <1>4, <1>6
  <2>3. X # {}
    OBVIOUS
  <2> HIDE DEF X, R, Before
  <2>4. \E w \in X : \A q \in X : <<q, w>> \notin R
    BY <1>2, <2>1, <2>2, <2>3, FirstExists
  <2> QED BY <1>4, <2>4
<1> DEFINE IsWorst(w) ==
      \A q \in DOMAIN as \ {w} :
        LET bw == BestOf(as[w].supports)  bq == BestOf(as[q].supports)
        IN  ~Complete!Better(bw, bq) /\ (q < w => Complete!Better(bq, bw))
<1>8. \E v \in DOMAIN as : IsWorst(v)
  <2>1. IsWorst(low)
    BY <1>7 DEF BestAt
  <2> QED BY <2>1
<1>9. WorstPath(as) = CHOOSE v \in DOMAIN as : IsWorst(v)
  BY DEF WorstPath
<1>10. WorstPath(as) \in DOMAIN as /\ IsWorst(WorstPath(as))
  <2> HIDE DEF IsWorst
  <2> QED BY <1>8, <1>9, Zenon
<1> QED BY <1>10 DEF BestAt

LEMMA RetentionGrows ==
    ASSUME NEW T, NEW U, T \subseteq U, NEW as, IsRetention(as, T)
    PROVE  IsRetention(as, U)
<1>1. \A p \in DOMAIN as :
        /\ as[p] \in [supports : SUBSET T, representative : T]
        /\ as[p].representative \in as[p].supports
        /\ \A c \in as[p].supports : c.path = p
  BY Zenon DEF IsRetention
<1>2. \A p \in DOMAIN as : as[p] \in [supports : SUBSET U, representative : U]
  BY <1>1
<1> QED BY <1>1, <1>2, Zenon DEF IsRetention

\* A part of the alternatives.
LEMMA PartOfRetention ==
    ASSUME NEW T, NEW as, IsRetention(as, T), BestRepresented(as),
           NEW S \in SUBSET DOMAIN as
    PROVE  /\ IsRetention([p \in S |-> as[p]], T)
           /\ BestRepresented([p \in S |-> as[p]])
<1> DEFINE part == [p \in S |-> as[p]]
<1>1. /\ DOMAIN part = S /\ part = [p \in DOMAIN part |-> part[p]]
      /\ \A p \in S : part[p] = as[p]
  OBVIOUS
<1> HIDE DEF part
<1>2. DOMAIN as \subseteq Paths
  BY Zenon DEF IsRetention
<1>3. DOMAIN part \subseteq Paths
  BY <1>1, <1>2
<1>4. \A p \in DOMAIN part : p \in DOMAIN as /\ part[p] = as[p]
  BY <1>1
<1>5. IsRetention(part, T)
  BY <1>1, <1>3, <1>4, Zenon DEF IsRetention
<1>6. BestRepresented(part)
  BY <1>4, Zenon DEF BestRepresented
<1> QED BY <1>5, <1>6 DEF part

\* The best of all is never dominated, and where its path is the worst of
\* those left, all of them have one as good.
LEMMA TopSurvives ==
    ASSUME NEW T \in SUBSET DayConnections, IsFiniteSet(T),
           NEW as, IsRetention(as, T), BestRepresented(as),
           NEW left \in SUBSET DOMAIN as,
           \A p \in DOMAIN as \ left : \E q \in left : SetDominates(as[q], as[p]),
           Tops(as, T)
    PROVE  /\ \E p \in left :
                \A c \in T : ~Complete!Better(c, as[p].representative)
           /\ Cardinality(left) > 1 =>
                \E p \in left \ {WorstPath([q \in left |-> as[q]])} :
                    \A c \in T : ~Complete!Better(c, as[p].representative)
<1> DEFINE Top(p) == \A c \in T : ~Complete!Better(c, as[p].representative)
           part == [q \in left |-> as[q]]
           w == WorstPath(part)
<1>1. \A p \in DOMAIN as : /\ as[p].representative \in as[p].supports
                           /\ as[p].supports \subseteq T
                           /\ as[p].representative \in T
  <2>1. \A p \in DOMAIN as :
          /\ as[p] \in [supports : SUBSET T, representative : T]
          /\ as[p].representative \in as[p].supports
    BY Zenon DEF IsRetention
  <2> QED BY <2>1
<1>2. PICK p \in DOMAIN as : Top(p)
  BY DEF Tops
<1>3. p \in left
  <2>1. ASSUME NEW q \in left, SetDominates(as[q], as[p])
        PROVE  FALSE
    <3>1. PICK t \in as[q].supports :
            Complete!Dominates(FALSE, t, as[p].representative)
      BY <1>1, <2>1 DEF SetDominates
    <3>2. t \in T /\ t \in DayConnections /\ as[p].representative \in DayConnections
      BY <1>1, <3>1
    <3>3. Complete!Better(t, as[p].representative)
      BY <3>1, <3>2, DominatorIsBetter
    <3> QED BY <1>2, <3>2, <3>3
  <2> QED BY <2>1
<1>4. ASSUME Cardinality(left) > 1
      PROVE  \E q \in left \ {w} : Top(q)
  <2>1. CASE p # w
    BY <1>2, <1>3, <2>1
  <2>2. CASE p = w
    <3>1. left # {p}
      <4>1. ASSUME left = {p} PROVE FALSE
        <5>1. Cardinality({p}) = 1
          BY FS_Singleton
        <5> QED BY <1>4, <4>1, <5>1
      <4> QED BY <4>1
    <3>2. PICK q \in left : q # p
      BY <1>3, <3>1
    <3>3. IsRetention(part, T) /\ DOMAIN part # {} /\ DOMAIN part = left
      BY <1>3, PartOfRetention
    <3>4. /\ part[p] = as[p] /\ part[q] = as[q]
          /\ BestAt(part, p) = BestAt(as, p) /\ BestAt(part, q) = BestAt(as, q)
      BY <1>3, <3>2 DEF BestAt
    <3> HIDE DEF part, w
    <3>5. ~Complete!Better(BestAt(as, p), BestAt(as, q))
      <4>1. ~Complete!Better(BestAt(part, w), BestAt(part, q))
        BY <2>2, <3>2, <3>3, WorstPathExists DEF w
      <4> QED BY <2>2, <3>4, <4>1
    <3> DEFINE a == BestAt(as, p)
               b == BestAt(as, q)
               r == as[p].representative
               v == as[q].representative
    <3>6. /\ a \in DayConnections /\ b \in DayConnections
          /\ ~Complete!Better(r, a) /\ ~Complete!Better(b, v)
          /\ r \in DayConnections /\ v \in DayConnections
      <4>1. /\ BestAt(as, p) \in DayConnections
            /\ ~Complete!Better(as[p].representative, BestAt(as, p))
        BY <1>1, BestAtPath
      <4>2. /\ BestAt(as, q) \in DayConnections
            /\ BestAt(as, q) \in as[q].supports
        BY <3>2, BestAtPath
      <4>3. ~Complete!Better(BestAt(as, q), as[q].representative)
        BY <3>2, <4>2 DEF BestRepresented
      <4>4. as[p].representative \in T /\ as[q].representative \in T
        BY <1>1, <3>2
      <4> QED BY <4>1, <4>2, <4>3, <4>4
    <3>7. \A c \in T : c \in DayConnections /\ ~Complete!Better(c, r)
      BY <1>2
    <3>8. ~Complete!Better(a, b)
      BY <3>5
    <3> HIDE DEF a, b, r, v
    <3>9. ASSUME NEW c \in T
          PROVE  ~Complete!Better(c, v)
      <4>1. c \in DayConnections /\ ~Complete!Better(c, r)
        BY <3>7
      <4>2. ~Complete!Better(c, a)
        BY <3>6, <4>1, BetterIsOrder
      <4>3. ~Complete!Better(c, b)
        BY <3>6, <3>8, <4>1, <4>2, BetterIsOrder
      <4> QED BY <3>6, <4>1, <4>3, BetterIsOrder
    <3>10. Top(q)
      BY <3>9 DEF v
    <3> QED BY <2>2, <3>2, <3>10
  <2> QED BY <2>1, <2>2
<1> QED BY <1>2, <1>3, <1>4

\* enforce_day_path_retention.
LEMMA EnforcedLeaves ==
    ASSUME NEW p, p.max_alternatives \in Nat \ {0},
           NEW T \in SUBSET DayConnections, IsFiniteSet(T),
           NEW as, IsRetention(as, T), BestRepresented(as),
           NEW new \in Enforced(p, as)
    PROVE  /\ IsRetention(new, T)
           /\ BestRepresented(new)
           /\ \A o, q \in DOMAIN new : o # q => ~SetDominates(new[o], new[q])
           /\ Tops(as, T) => Tops(new, T)
           /\ ~Bounded(p) => new = Undominated(as)
<1>1. IsRetention(as, DayConnections)
  BY RetentionGrows
<1>2. PICK left \in SUBSET DOMAIN as :
        /\ Undominated(as) = [o \in left |-> as[o]]
        /\ \A o, q \in left : o # q => ~SetDominates(as[o], as[q])
        /\ \A o \in DOMAIN as \ left : \E q \in left : SetDominates(as[q], as[o])
  BY <1>1, ScanLeaves
<1> DEFINE part == [o \in left |-> as[o]]
           w == WorstPath(part)
<1>3. \/ new = part
      \/ /\ new = [o \in left \ {w} |-> as[o]]
         /\ Bounded(p) /\ Cardinality(left) > 1
  <2>1. DOMAIN part = left /\ Undominated(as) = part
    BY <1>2
  <2>2. CASE ~Bounded(p) \/ Cardinality(left) <= p.max_alternatives
    <3>1. Enforced(p, as) = {part}
      <4> HIDE DEF part
      <4> QED BY <2>1, <2>2 DEF Enforced
    <3> QED BY <3>1
  <2>3. CASE Bounded(p) /\ ~(Cardinality(left) <= p.max_alternatives)
    <3>1. new = Restrict(part, left \ {w})
      <4> HIDE DEF part, w
      <4>1. new \in IF p.limit = "fail_on_saturation" THEN {}
                    ELSE {Restrict(part, left \ {w})}
        BY <2>1, <2>3 DEF Enforced, w
      <4> QED BY <4>1
    <3>2. Restrict(part, left \ {w}) = [o \in left \ {w} |-> as[o]]
      <4> HIDE DEF w
      <4> QED BY DEF Restrict
    <3>3. Cardinality(left) > 1
      <4>1. IsFiniteSet(left)
        <5>1. PathCount \in Nat /\ left \subseteq 1 .. PathCount
          <6>1. DOMAIN as \subseteq Paths
            BY Zenon DEF IsRetention
          <6> QED BY <6>1, PathsAssumption DEF Paths
        <5>2. IsFiniteSet(1 .. PathCount)
          BY <5>1, FS_Interval
        <5> QED BY <5>1, <5>2, FS_Subset
      <4>2. Cardinality(left) \in Nat
        BY <4>1, FS_CardinalityType
      <4> QED BY <2>3, <4>2
    <3> QED BY <2>3, <3>1, <3>2, <3>3
  <2> QED BY <2>2, <2>3
<1>4. PICK kept \in SUBSET left :
        /\ new = [o \in kept |-> as[o]]
        /\ kept = left \/ (kept = left \ {w} /\ Bounded(p) /\ Cardinality(left) > 1)
  <2> HIDE DEF w
  <2> QED BY <1>3
<1>5. IsRetention(new, T) /\ BestRepresented(new)
  BY <1>4, PartOfRetention
<1>6. DOMAIN new = kept /\ \A o \in kept : new[o] = as[o]
  BY <1>4
<1>7. \A o, q \in DOMAIN new : o # q => ~SetDominates(new[o], new[q])
  BY <1>2, <1>6
<1>8. ASSUME Tops(as, T) PROVE Tops(new, T)
  <2>1. /\ \E o \in left : \A c \in T : ~Complete!Better(c, as[o].representative)
        /\ Cardinality(left) > 1 =>
             \E o \in left \ {w} :
                \A c \in T : ~Complete!Better(c, as[o].representative)
    BY <1>2, <1>8, TopSurvives
  <2> HIDE DEF w
  <2>2. \E o \in kept : \A c \in T : ~Complete!Better(c, as[o].representative)
    BY <1>4, <2>1
  <2> QED BY <1>6, <2>2 DEF Tops
<1>9. ~Bounded(p) => new = Undominated(as)
  BY <1>2, <1>3
<1> QED BY <1>5, <1>7, <1>8, <1>9

------------------------------------------------------------------------------
(* retain_day_path_alternative.                                            *)

PolicyType == [limit : {"unbounded", "bounded_drop_worst", "fail_on_saturation"},
               max_alternatives : Nat \ {0}, max_supports : Nat]

LEMMA UnboundedIsPolicy == Unbounded \in PolicyType /\ ~Bounded(Unbounded)
<1>1. NoCap \in Nat \ {0}
  BY PathsAssumption DEF NoCap
<1> QED BY <1>1 DEF Unbounded, PolicyType, Bounded

LEMMA RetainPathKeeps ==
    ASSUME NEW p \in PolicyType,
           NEW T \in SUBSET DayConnections, IsFiniteSet(T),
           NEW as, IsRetention(as, T), BestRepresented(as),
           NEW c \in DayConnections, NEW new \in RetainPath(p, as, c)
    PROVE  /\ IsRetention(new, T \cup {c})
           /\ BestRepresented(new)
           /\ \A o, q \in DOMAIN new : o # q => ~SetDominates(new[o], new[q])
           /\ (T # {} => Tops(as, T)) => Tops(new, T \cup {c})
<1> DEFINE mid == WithNew(p, as, c)
<1>1. /\ c.path \in DOMAIN as => NewSupports(p, as, c) # {}
      /\ new \in Enforced(p, mid)
  BY RetainPathAdds
<1>2. /\ IsRetention(mid, T \cup {c})
      /\ BestRepresented(mid)
      /\ DOMAIN mid = DOMAIN as \cup {c.path}
      /\ \A q \in DOMAIN as : q # c.path => mid[q] = as[q]
      /\ mid[c.path].representative =
            IF /\ c.path \in DOMAIN as
               /\ ~Complete!Better(c, as[c.path].representative)
            THEN as[c.path].representative ELSE c
  <2>1. c.path \in DOMAIN as => NewSupports(p, as, c) # {}
    BY <1>1
  <2>2. IsRetention(mid, T \cup {c}) /\ BestRepresented(mid)
    BY <2>1, AddedIsRetention
  <2>3. /\ DOMAIN mid = DOMAIN as \cup {c.path}
        /\ \A q \in DOMAIN as : q # c.path => mid[q] = as[q]
    BY DEF WithNew, Added
  <2>4. mid[c.path].representative =
            IF /\ c.path \in DOMAIN as
               /\ ~Complete!Better(c, as[c.path].representative)
            THEN as[c.path].representative ELSE c
    <3>1. CASE c.path \in DOMAIN as
      BY <3>1 DEF WithNew, Added, With
    <3>2. CASE c.path \notin DOMAIN as
      BY <3>2 DEF WithNew, Added, Alternative
    <3> QED BY <3>1, <3>2
  <2> HIDE DEF mid
  <2> QED BY <2>2, <2>3, <2>4
<1> HIDE DEF mid
<1>3. IsFiniteSet(T \cup {c}) /\ T \cup {c} \in SUBSET DayConnections
  BY FS_AddElement
<1>4. p.max_alternatives \in Nat \ {0}
  BY DEF PolicyType
<1>5. (T # {} => Tops(as, T)) => Tops(mid, T \cup {c})
  BY <1>2, AddedTops
<1> QED BY <1>1, <1>2, <1>3, <1>4, <1>5, EnforcedLeaves

\* Every connection of T is a support, or one is that dominates it.
Covers(as, T) ==
    \A c \in T :
        \/ c.path \in DOMAIN as /\ c \in as[c.path].supports
        \/ \E s \in AllSupports(as) : Complete!Dominates(FALSE, s, c)

\* Dropping dominated paths uncovers nothing.
LEMMA ScanCovers ==
    ASSUME NEW T \in SUBSET DayConnections,
           NEW as, IsRetention(as, T), Covers(as, T)
    PROVE  Covers(Undominated(as), T)
<1>1. IsRetention(as, DayConnections)
  BY RetentionGrows
<1>2. PICK left \in SUBSET DOMAIN as :
        /\ Undominated(as) = [o \in left |-> as[o]]
        /\ \A o \in DOMAIN as \ left : \E q \in left : SetDominates(as[q], as[o])
  BY <1>1, ScanLeaves
<1> DEFINE new == [o \in left |-> as[o]]
<1>3. /\ DOMAIN new = left
      /\ \A q \in left : new[q] = as[q] /\ as[q].supports \subseteq AllSupports(new)
  BY DEF AllSupports
<1>4. \A q \in DOMAIN as : as[q].supports \subseteq DayConnections
  <2>1. \A q \in DOMAIN as :
          as[q] \in [supports : SUBSET DayConnections, representative : DayConnections]
    BY <1>1, Zenon DEF IsRetention
  <2> QED BY <2>1
<1>5. ASSUME NEW d \in T
      PROVE  \/ d.path \in DOMAIN new /\ d \in new[d.path].supports
             \/ \E s \in AllSupports(new) : Complete!Dominates(FALSE, s, d)
  <2>1. PICK q \in DOMAIN as : \E s \in as[q].supports :
          (s = d /\ q = d.path) \/ Complete!Dominates(FALSE, s, d)
    <3>1. CASE d.path \in DOMAIN as /\ d \in as[d.path].supports
      BY <3>1
    <3>2. CASE \E s \in AllSupports(as) : Complete!Dominates(FALSE, s, d)
      BY <3>2 DEF AllSupports
    <3> QED BY <3>1, <3>2 DEF Covers
  <2>2. PICK s \in as[q].supports :
          (s = d /\ q = d.path) \/ Complete!Dominates(FALSE, s, d)
    BY <2>1
  <2> HIDE DEF new
  <2>3. CASE q \in left
    BY <1>3, <2>2, <2>3
  <2>4. CASE q \notin left
    <3>1. PICK o \in left : SetDominates(as[o], as[q])
      BY <1>2, <2>4
    <3>2. PICK t \in as[o].supports : Complete!Dominates(FALSE, t, s)
      BY <2>2, <3>1 DEF SetDominates
    <3>3. t \in DayConnections /\ s \in DayConnections /\ d \in DayConnections
      BY <1>2, <1>4, <2>2, <3>2
    <3>4. Complete!Dominates(FALSE, t, d)
      BY <2>2, <3>2, <3>3, DayDominanceIsTransitive
    <3> QED BY <1>3, <3>2, <3>4
  <2> QED BY <2>3, <2>4
<1> HIDE DEF new
<1> QED BY <1>2, <1>5 DEF Covers, new

\* Without caps there is no error, and nothing efficient is lost.
LEMMA UnboundedCovers ==
    ASSUME NEW p \in PolicyType, ~Bounded(p),
           NEW T \in SUBSET DayConnections, IsFiniteSet(T),
           NEW as, IsRetention(as, T), BestRepresented(as), Covers(as, T),
           NEW c \in DayConnections
    PROVE  /\ RetainPath(p, as, c) # {}
           /\ \A new \in RetainPath(p, as, c) : Covers(new, T \cup {c})
<1> DEFINE S == NewSupports(p, as, c)
           mid == WithNew(p, as, c)
<1>1. S = as[c.path].supports \cup {c} /\ S # {}
  BY DEF NewSupports, Supports
<1>2. RetainPath(p, as, c) # {}
  <2>1. \A any : Enforced(p, any) # {}
    BY DEF Enforced
  <2>2. Supports(p, as[c.path].supports, c) # {}
    BY <1>1 DEF NewSupports
  <2> HIDE DEF S, mid
  <2> QED BY <2>1, <2>2 DEF RetainPath
<1>3. /\ IsRetention(mid, T \cup {c}) /\ BestRepresented(mid)
      /\ DOMAIN mid = DOMAIN as \cup {c.path}
      /\ \A q \in DOMAIN as : q # c.path => mid[q] = as[q]
  <2>1. c.path \in DOMAIN as => NewSupports(p, as, c) # {}
    BY <1>1
  <2>2. IsRetention(mid, T \cup {c}) /\ BestRepresented(mid)
    BY <2>1, AddedIsRetention
  <2>3. /\ DOMAIN mid = DOMAIN as \cup {c.path}
        /\ \A q \in DOMAIN as : q # c.path => mid[q] = as[q]
    BY DEF WithNew, Added
  <2> HIDE DEF mid
  <2> QED BY <2>2, <2>3
<1>4. c \in mid[c.path].supports
      /\ (c.path \in DOMAIN as => as[c.path].supports \subseteq mid[c.path].supports)
  <2>1. CASE c.path \in DOMAIN as
    <3>1. mid[c.path].supports = S
      <4> HIDE DEF S
      <4> QED BY <2>1 DEF WithNew, Added, With, NewSupports, S
    <3> HIDE DEF mid
    <3> QED BY <1>1, <3>1
  <2>2. CASE c.path \notin DOMAIN as
    BY <2>2 DEF WithNew, Added, Alternative
  <2> QED BY <2>1, <2>2
<1> HIDE DEF mid
<1>5. \A q \in DOMAIN as : q \in DOMAIN mid /\ as[q].supports \subseteq mid[q].supports
  BY <1>3, <1>4
<1>6. AllSupports(as) \subseteq AllSupports(mid)
  BY <1>5 DEF AllSupports
<1>7. Covers(mid, T \cup {c})
  <2>1. ASSUME NEW d \in T
        PROVE  \/ d.path \in DOMAIN mid /\ d \in mid[d.path].supports
               \/ \E s \in AllSupports(mid) : Complete!Dominates(FALSE, s, d)
    BY <1>5, <1>6 DEF Covers
  <2>2. c.path \in DOMAIN mid /\ c \in mid[c.path].supports
    BY <1>3, <1>4
  <2> QED BY <2>1, <2>2 DEF Covers
<1>8. T \cup {c} \in SUBSET DayConnections /\ IsFiniteSet(T \cup {c})
  BY FS_AddElement
<1>9. ASSUME NEW new \in RetainPath(p, as, c)
      PROVE  Covers(new, T \cup {c})
  <2>1. new \in Enforced(p, mid)
    BY RetainPathAdds DEF mid
  <2>2. new = Undominated(mid)
    BY <2>1 DEF Enforced
  <2> QED BY <1>3, <1>7, <1>8, <2>2, ScanCovers
<1> QED BY <1>2, <1>9

\* A cap that fails when reached changes nothing before.
LEMMA CapFailsOrNothing ==
    ASSUME NEW p \in PolicyType, p.limit = "fail_on_saturation",
           NEW T, NEW as, IsRetention(as, T), NEW c,
           NEW new \in RetainPath(p, as, c),
           NEW free \in RetainPath(Unbounded, as, c)
    PROVE  new = free
<1>1. /\ c.path \in DOMAIN as => NewSupports(p, as, c) # {}
      /\ new \in Enforced(p, WithNew(p, as, c))
      /\ free \in Enforced(Unbounded, WithNew(Unbounded, as, c))
  BY RetainPathAdds
<1>2. /\ Bounded(p) /\ ~Bounded(Unbounded)
  BY UnboundedIsPolicy DEF Bounded
<1>3. \A S : Supports(Unbounded, S, c) = S \cup {c}
  BY <1>2 DEF Supports
<1>4. \A S : Supports(p, S, c) = S \cup {c} \/ Supports(p, S, c) = {}
  BY <1>2 DEF Supports
<1>5. WithNew(p, as, c) = WithNew(Unbounded, as, c)
  <2>1. CASE c.path \in DOMAIN as
    BY <1>1, <1>3, <1>4, <2>1 DEF NewSupports, WithNew
  <2>2. CASE c.path \notin DOMAIN as
    BY <2>2 DEF Added, WithNew
  <2> QED BY <2>1, <2>2
<1> DEFINE mid == WithNew(p, as, c)
<1>6. new \in Enforced(p, mid) /\ free \in Enforced(Unbounded, mid)
  BY <1>1, <1>5
<1> HIDE DEF mid
<1>7. new = Undominated(mid)
  BY <1>2, <1>6 DEF Enforced
<1>8. free = Undominated(mid)
  BY <1>2, <1>6 DEF Enforced
<1> QED BY <1>7, <1>8

------------------------------------------------------------------------------
(* The inductive invariant: types, what is represented, and every property *)
(* at the stage in which it is established.                                *)

Typing ==
    /\ policy \in Policies
    /\ day_stage \in {"search", "failed", "done"}
    /\ day_offered \subseteq DayConnections /\ IsFiniteSet(day_offered)
    /\ IsRetention(alternatives, day_offered)
    /\ IsRetention(truth, day_offered)
    /\ BestRepresented(alternatives) /\ BestRepresented(truth)

Chosen ==
    day_chosen = IF day_stage = "done"
                 THEN {p \in DOMAIN alternatives :
                         DayExactOnly \/ WithinTolerances(alternatives, p)}
                 ELSE {}

DayInv ==
    /\ Typing
    /\ NoPathDominated
    /\ ~Bounded(policy) => Covers(alternatives, day_offered)
    /\ day_offered # {} /\ day_stage # "failed" => Tops(alternatives, day_offered)
    /\ SaturationIsReported
    /\ Chosen

LEMMA PolicyTyped == \A p \in Policies : p \in PolicyType
BY PoliciesAssumption DEF PolicyType

LEMMA DayInvInit == DayInit => DayInv
<1> SUFFICES ASSUME DayInit PROVE DayInv
  OBVIOUS
<1>1. DOMAIN Nothing = {} /\ Nothing = [p \in DOMAIN Nothing |-> Nothing[p]]
  BY DEF Nothing
<1>2. IsRetention(Nothing, {}) /\ BestRepresented(Nothing)
  <2> HIDE DEF Nothing
  <2> QED BY <1>1 DEF IsRetention, BestRepresented
<1>3. IsFiniteSet({})
  BY FS_EmptySet
<1>4. Typing
  BY <1>2, <1>3 DEF DayInit, Typing
<1>5. NoPathDominated
  BY <1>1 DEF DayInit, NoPathDominated
<1>6. Covers(alternatives, day_offered)
  BY DEF DayInit, Covers
<1>7. Chosen
  BY DEF DayInit, Chosen
<1> QED BY <1>4, <1>5, <1>6, <1>7 DEF DayInv, DayInit, SaturationIsReported

\* What the alternatives are is not changed by more connections on offer.
LEMMA OfferKeeps ==
    ASSUME DayInv, NEW c \in DayConnections, DayOffer(c)
    PROVE  DayInv'
<1> DEFINE outcome == RetainPath(policy, alternatives, c)
<1>1. /\ policy' = policy /\ policy \in Policies /\ policy \in PolicyType
      /\ day_stage = "search" /\ day_offered' = day_offered \cup {c}
      /\ truth' \in RetainPath(Unbounded, truth, c)
      /\ day_chosen' = {}
  BY PolicyTyped DEF DayInv, Typing, DayOffer, Chosen
<1>2. /\ day_offered \in SUBSET DayConnections /\ IsFiniteSet(day_offered)
      /\ IsRetention(alternatives, day_offered) /\ BestRepresented(alternatives)
      /\ IsRetention(truth, day_offered) /\ BestRepresented(truth)
  BY DEF DayInv, Typing
<1>3. day_offered' \subseteq DayConnections /\ IsFiniteSet(day_offered')
  BY <1>1, <1>2, FS_AddElement
<1>4. IsRetention(truth', day_offered') /\ BestRepresented(truth')
  BY <1>1, <1>2, RetainPathKeeps, UnboundedIsPolicy
<1>5. CASE outcome = {}
  <2>1. day_stage' = "failed" /\ alternatives' = alternatives
    BY <1>5 DEF DayOffer
  <2>2. IsRetention(alternatives', day_offered')
    BY <1>1, <1>2, <2>1, RetentionGrows
  <2>3. Bounded(policy)
    <3>1. ASSUME ~Bounded(policy) PROVE FALSE
      <4>1. Covers(alternatives, day_offered)
        BY <3>1 DEF DayInv
      <4> QED BY <1>1, <1>2, <1>5, <3>1, <4>1, UnboundedCovers
    <3> QED BY <3>1
  <2>4. Typing'
    BY <1>1, <1>2, <1>3, <1>4, <2>1, <2>2 DEF Typing
  <2>5. NoPathDominated'
    BY <2>1 DEF DayInv, NoPathDominated
  <2>6. Chosen' /\ SaturationIsReported' /\ ~(~Bounded(policy'))
    BY <1>1, <2>1, <2>3 DEF Chosen, SaturationIsReported
  <2> QED BY <2>1, <2>4, <2>5, <2>6 DEF DayInv
<1>6. CASE outcome # {}
  <2>1. day_stage' = "search" /\ alternatives' \in outcome
    BY <1>1, <1>6 DEF DayOffer
  <2>2. /\ IsRetention(alternatives', day_offered')
        /\ BestRepresented(alternatives')
        /\ \A o, q \in DOMAIN alternatives' :
             o # q => ~SetDominates(alternatives'[o], alternatives'[q])
        /\ (day_offered # {} => Tops(alternatives, day_offered))
             => Tops(alternatives', day_offered')
    BY <1>1, <1>2, <2>1, RetainPathKeeps
  <2>3. Typing'
    BY <1>1, <1>2, <1>3, <1>4, <2>1, <2>2 DEF Typing
  <2>4. NoPathDominated'
    BY <2>2 DEF NoPathDominated
  <2>5. Tops(alternatives', day_offered')
    BY <1>1, <2>2 DEF DayInv
  <2>6. ~Bounded(policy') => Covers(alternatives', day_offered')
    BY <1>1, <1>2, <2>1, UnboundedCovers DEF DayInv
  <2>7. SaturationIsReported'
    <3>1. CASE policy.limit = "fail_on_saturation"
      <4>1. alternatives = truth
        BY <1>1, <3>1 DEF DayInv, SaturationIsReported
      <4>2. alternatives' = truth'
        BY <1>1, <1>2, <2>1, <3>1, <4>1, CapFailsOrNothing
      <4> QED BY <4>2 DEF SaturationIsReported
    <3>2. CASE policy.limit # "fail_on_saturation"
      BY <1>1, <3>2 DEF SaturationIsReported
    <3> QED BY <3>1, <3>2
  <2>8. Chosen'
    BY <1>1, <2>1 DEF Chosen
  <2> QED BY <2>3, <2>4, <2>5, <2>6, <2>7, <2>8 DEF DayInv
<1> QED BY <1>5, <1>6

LEMMA FinishKeeps ==
    ASSUME DayInv, DayFinish
    PROVE  DayInv'
<1>1. /\ day_stage = "search" /\ day_stage' = "done"
      /\ UNCHANGED <<policy, day_offered, alternatives, truth>>
  BY DEF DayFinish
<1>2. Typing'
  BY <1>1 DEF DayInv, Typing
<1>3. NoPathDominated'
  BY <1>1 DEF DayInv, NoPathDominated
<1>4. (~Bounded(policy) => Covers(alternatives, day_offered))'
  BY <1>1 DEF DayInv
<1>5. (day_offered # {} /\ day_stage # "failed" => Tops(alternatives, day_offered))'
  BY <1>1 DEF DayInv
<1>6. SaturationIsReported'
  BY <1>1 DEF DayInv, SaturationIsReported
<1>7. Chosen'
  BY <1>1 DEF DayFinish, Chosen
<1> QED BY <1>2, <1>3, <1>4, <1>5, <1>6, <1>7 DEF DayInv

LEMMA NextKeeps ==
    ASSUME DayInv, [DayNext]_day_vars
    PROVE  DayInv'
<1>1. CASE DayFinish
  BY <1>1, FinishKeeps
<1>2. ASSUME NEW c \in DayConnections, DayOffer(c) PROVE DayInv'
  BY <1>2, OfferKeeps
<1>3. CASE UNCHANGED day_vars
  BY <1>3 DEF day_vars, DayInv, Typing, NoPathDominated, SaturationIsReported, Chosen
<1> QED BY <1>1, <1>2, <1>3 DEF DayNext

\* For every set of connections and paths and every policy, what the slot
\* holds is what the parts of the invariant say.
THEOREM DayInvariant == DaySpec => []DayInv
<1>1. DayInit => DayInv
  BY DayInvInit
<1>2. DayInv /\ [DayNext]_day_vars => DayInv'
  BY NextKeeps
<1> QED BY <1>1, <1>2, PTL DEF DaySpec

\* The alternatives are made of the connections completed, each of its own
\* path, and a path's representative is one of its supports.
THEOREM DayTypes == DaySpec => []DayTypeOK
<1>1. DayInv => DayTypeOK
  <2> SUFFICES ASSUME DayInv PROVE DayTypeOK
    OBVIOUS
  <2>1. ASSUME NEW as, IsRetention(as, day_offered)
        PROVE  /\ DOMAIN as \subseteq Paths
               /\ \A p \in DOMAIN as :
                    /\ as[p].supports \subseteq {c \in day_offered : c.path = p}
                    /\ as[p].representative \in as[p].supports
    <3>1. /\ DOMAIN as \subseteq Paths
          /\ \A p \in DOMAIN as :
              /\ as[p] \in [supports : SUBSET day_offered,
                            representative : day_offered]
              /\ as[p].representative \in as[p].supports
              /\ \A c \in as[p].supports : c.path = p
      BY <2>1, Zenon DEF IsRetention
    <3> QED BY <3>1
  <2>2. /\ IsRetention(alternatives, day_offered) /\ IsRetention(truth, day_offered)
        /\ policy \in Policies /\ day_stage \in {"search", "failed", "done"}
        /\ day_offered \subseteq DayConnections
        /\ day_chosen \subseteq DOMAIN alternatives
    BY DEF DayInv, Typing, Chosen
  <2>3. \A as \in {alternatives, truth} :
          /\ DOMAIN as \subseteq Paths
          /\ \A p \in DOMAIN as :
                /\ as[p].supports \subseteq {c \in day_offered : c.path = p}
                /\ as[p].representative \in as[p].supports
    BY <2>1, <2>2
  <2> QED BY <2>2, <2>3 DEF DayTypeOK
<1> QED BY <1>1, DayInvariant, PTL

\* No policy and no order of completion leaves a path whose every support
\* another path dominates, and without caps every efficient connection is a
\* support (day_path/retention.cpp, remove_support_dominated_paths).
THEOREM NeitherTooMuchNorTooLittle == DaySpec => []EfficientExactly
<1>1. DayInv => EfficientExactly
  BY DEF DayInv, EfficientExactly, EfficientKept, Covers, Bounded
<1> QED BY <1>1, DayInvariant, PTL

\* The best support of a path is its representative, and the best of the slot
\* outlives every cap (day_path/retention.cpp, enforce_day_path_retention).
THEOREM TheBestStays == DaySpec => []BestAreKept
<1>1. DayInv => BestAreKept
  BY DEF DayInv, Typing, BestAreKept, RepresentativeIsBest, BestSurvives,
         BestRepresented, Tops
<1> QED BY <1>1, DayInvariant, PTL

\* Until a cap is reported as an error, the alternatives are those of an
\* unbounded retention (day_path/types.hpp:126).
THEOREM SaturationShows == DaySpec => []SaturationIsReported
<1>1. DayInv => SaturationIsReported
  BY DEF DayInv
<1> QED BY <1>1, DayInvariant, PTL

------------------------------------------------------------------------------
(* The choice step.  It sees the supports only, yet holds each of them     *)
(* against the minima over all connections completed.                      *)

\* A connection within the tolerances of one that dominates another is
\* within those of the other.
LEMMA DayDominatorBounds ==
    ASSUME NEW c \in DayConnections, NEW s \in DayConnections,
           NEW t \in DayConnections, Complete!Dominates(FALSE, s, t),
           Complete!Within(c, {s})
    PROVE  Complete!Within(c, {t})
<1> USE PathsAssumption, DayChoiceAssumption
<1> DEFINE I(x) == DayTolerances.imp_mult * x.imp + DayTolerances.imp_add
           J(x) == DayTolerances.jt_mult * (x.arr - x.dep) + DayTolerances.jt_add
           R(x) == DayTolerances.nt_mult * x.nt + DayTolerances.nt_add
<1>1. s.imp <= t.imp /\ s.arr - s.dep <= t.arr - t.dep /\ s.nt <= t.nt
  BY DEF Complete!Dominates
<1>2. I(s) <= I(t)
  BY <1>1, ScaledBound
<1>3. J(s) <= J(t)
  BY <1>1, ScaledBound
<1>4. R(s) <= R(t)
  BY <1>1, ScaledBound
<1>5. c.imp <= I(s) /\ c.arr - c.dep <= J(s) /\ c.nt <= R(s)
  BY DEF Complete!Within, Complete!JourneyTime
<1>6. /\ I(s) \in Int /\ I(t) \in Int /\ J(s) \in Int /\ J(t) \in Int
      /\ R(s) \in Int /\ R(t) \in Int
      /\ c.imp \in Int /\ c.arr - c.dep \in Int /\ c.nt \in Int
  OBVIOUS
<1>7. c.imp <= I(t) /\ c.arr - c.dep <= J(t) /\ c.nt <= R(t)
  <2> HIDE DEF I, J, R
  <2> QED BY <1>2, <1>3, <1>4, <1>5, <1>6
<1> QED BY <1>7 DEF Complete!Within, Complete!JourneyTime

\* The supports have the tolerances of everything they cover.
LEMMA SupportBounds ==
    ASSUME NEW T \in SUBSET DayConnections, NEW as, IsRetention(as, T),
           Covers(as, T), NEW c \in DayConnections
    PROVE  Complete!Within(c, AllSupports(as)) <=> Complete!Within(c, T)
<1>1. \A p \in DOMAIN as : as[p].supports \subseteq T
  BY Zenon, SMT DEF IsRetention
<1>2. AllSupports(as) \subseteq T
  BY <1>1 DEF AllSupports
<1>3. \A X : Complete!Within(c, X) <=> \A t \in X : Complete!Within(c, {t})
  BY DEF Complete!Within
<1>4. ASSUME Complete!Within(c, AllSupports(as)), NEW t \in T
      PROVE  Complete!Within(c, {t})
  <2>1. CASE t.path \in DOMAIN as /\ t \in as[t.path].supports
    <3>1. t \in AllSupports(as)
      BY <2>1 DEF AllSupports
    <3> QED BY <1>3, <1>4, <3>1
  <2>2. CASE \E s \in AllSupports(as) : Complete!Dominates(FALSE, s, t)
    <3>1. PICK s \in AllSupports(as) : Complete!Dominates(FALSE, s, t)
      BY <2>2
    <3>2. Complete!Within(c, {s})
      BY <1>3, <1>4, <3>1
    <3> QED BY <1>2, <3>1, <3>2, DayDominatorBounds
  <2> QED BY <2>1, <2>2 DEF Covers
<1>5. ASSUME Complete!Within(c, T) PROVE Complete!Within(c, AllSupports(as))
  BY <1>2, <1>3, <1>5
<1>6. ASSUME Complete!Within(c, AllSupports(as)) PROVE Complete!Within(c, T)
  BY <1>3, <1>4, <1>6
<1> QED BY <1>5, <1>6

\* Without caps the choice step chooses the paths of the efficient
\* connections within the tolerances of all connections completed, and
\* paths with a connection within them only (choice/choice.cpp,
\* day_path_alternative_within_tolerances; tolerances.hpp:160).
THEOREM ChoiceIsOfAll == DaySpec => []ChoiceSeesAll
<1>1. DayInv => ChoiceSeesAll
  <2> SUFFICES ASSUME DayInv, day_stage = "done", policy.limit = "unbounded",
                      ~DayExactOnly
               PROVE  /\ \A c \in day_offered :
                           ( /\ Complete!Within(c, day_offered)
                             /\ \A d \in day_offered :
                                  ~Complete!Dominates(FALSE, d, c) )
                           => c.path \in day_chosen
                      /\ \A p \in day_chosen :
                           \E c \in day_offered :
                             c.path = p /\ Complete!Within(c, day_offered)
    BY Zenon DEF ChoiceSeesAll
  <2>1. /\ day_offered \in SUBSET DayConnections
        /\ IsRetention(alternatives, day_offered)
        /\ Covers(alternatives, day_offered)
    BY DEF DayInv, Typing, Bounded
  <2>2. day_chosen = {p \in DOMAIN alternatives :
                        WithinTolerances(alternatives, p)}
    BY DEF DayInv, Chosen
  <2>3. \A p \in DOMAIN alternatives :
          /\ alternatives[p].supports \subseteq day_offered
          /\ \A s \in alternatives[p].supports : s.path = p
    BY <2>1, Zenon, SMT DEF IsRetention
  <2>4. \A s \in AllSupports(alternatives) : s \in day_offered
    BY <2>3 DEF AllSupports
  <2>5. \A c \in day_offered :
          Complete!Within(c, AllSupports(alternatives))
            <=> Complete!Within(c, day_offered)
    BY <2>1, SupportBounds
  <2>6. ASSUME NEW c \in day_offered, Complete!Within(c, day_offered),
               \A d \in day_offered : ~Complete!Dominates(FALSE, d, c)
        PROVE  c.path \in day_chosen
    <3>1. c.path \in DOMAIN alternatives /\ c \in alternatives[c.path].supports
      BY <2>1, <2>4, <2>6 DEF Covers
    <3>2. Complete!Within(c, AllSupports(alternatives))
      BY <2>5, <2>6
    <3> QED BY <2>2, <3>1, <3>2 DEF WithinTolerances
  <2>7. ASSUME NEW p \in day_chosen
        PROVE  \E c \in day_offered :
                 c.path = p /\ Complete!Within(c, day_offered)
    <3>1. p \in DOMAIN alternatives /\ WithinTolerances(alternatives, p)
      BY <2>2
    <3>2. PICK s \in alternatives[p].supports :
                 Complete!Within(s, AllSupports(alternatives))
      BY <3>1 DEF WithinTolerances
    <3>3. s \in day_offered /\ s.path = p
      BY <2>3, <3>1, <3>2
    <3> QED BY <2>5, <3>2, <3>3
  <2> QED BY <2>6, <2>7
<1> QED BY <1>1, DayInvariant, PTL
==============================================================================
