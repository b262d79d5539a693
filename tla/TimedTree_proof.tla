---------------------------- MODULE TimedTree_proof ----------------------------
(***************************************************************************)
(* Proofs about TimedTree, for every batch: any network, any tasks or      *)
(* targets, any tolerances and any moment of cancellation.  Here the arena *)
(* of branches, the residual model, and what a tree gives up by them; what *)
(* it finds of all paths is in TimedPaths_proof.                           *)
(***************************************************************************)
EXTENDS TimedTree, FiniteSetTheorems, SequenceTheorems, TLAPS

(***************************************************************************)
(* Induction over the natural numbers, by the least that refutes a fact,   *)
(* and what the operations on a queue without repetition do.               *)
(***************************************************************************)

\* Every nonempty set of natural numbers has a least element: the intervals
\* from 0 are well-founded by strict inclusion.
LEMMA LeastNumber ==
    ASSUME NEW S \in SUBSET Nat, S # {}
    PROVE  \E n \in S : \A k \in S : n <= k
<1> DEFINE Below == {0 .. n : n \in S}
           R == StrictSubsetOrdering(Nat)
<1>1. IsWellFoundedOn(R, FiniteSubsetsOf(Nat))
  BY FS_StrictSubsetOrderingWellFounded
<1>2. Below \subseteq FiniteSubsetsOf(Nat)
  <2>1. \A n \in Nat : IsFiniteSet(0 .. n)
    BY FS_Interval, 0 \in Int
  <2>2. \A n \in Nat : 0 .. n \subseteq Nat
    OBVIOUS
  <2> QED BY <2>1, <2>2 DEF FiniteSubsetsOf
<1>3. Below # {}
  OBVIOUS
<1>4. PICK x \in Below : \A y \in Below : <<y, x>> \notin R
  <2> HIDE DEF Below, R
  <2> QED BY <1>1, <1>2, <1>3, WFMin
<1>5. PICK n \in S : x = 0 .. n
  BY <1>4
<1>6. ASSUME NEW k \in S, k < n
      PROVE  FALSE
  <2>1. n \in 0 .. n /\ n \notin 0 .. k
    BY <1>6
  <2>2. 0 .. k \subseteq 0 .. n /\ 0 .. k # 0 .. n
    BY <1>6, <2>1
  <2>3. <<0 .. k, 0 .. n>> \in R
    BY <2>2 DEF StrictSubsetOrdering
  <2> QED BY <1>4, <1>5, <2>3
<1> QED BY <1>6

\* The form in which the other lemmas use it.
LEMMA UpTo ==
    ASSUME NEW n \in Nat, NEW Holds,
           0 \in Holds,
           \A k \in 1 .. n : k - 1 \in Holds => k \in Holds
    PROVE  0 .. n \subseteq Holds
<1> DEFINE Rest == 0 .. n \ Holds
<1>1. ASSUME Rest # {}
      PROVE  FALSE
  <2>1. PICK k \in Rest : \A j \in Rest : k <= j
    <3>1. Rest \in SUBSET Nat
      OBVIOUS
    <3> HIDE DEF Rest
    <3> QED BY <1>1, <3>1, LeastNumber
  <2>2. k \in 1 .. n
    BY <2>1
  <2>3. k - 1 \in 0 .. n /\ ~(k <= k - 1)
    BY <2>2
  <2>4. k - 1 \in Holds
    BY <2>1, <2>3
  <2> QED BY <2>1, <2>2, <2>4
<1> QED BY <1>1

LEMMA IntervalCount ==
    ASSUME NEW n \in Nat
    PROVE  IsFiniteSet(1 .. n) /\ Cardinality(1 .. n) = n
<1>1. 1 \in Int /\ n \in Int
  OBVIOUS
<1>2. /\ IsFiniteSet(1 .. n)
      /\ Cardinality(1 .. n) = IF 1 > n THEN 0 ELSE n - 1 + 1
  BY <1>1, FS_Interval
<1> QED BY <1>2

Distinct(s) == \A i, j \in DOMAIN s : s[i] = s[j] => i = j

\* The least of a set of numbers.
LEMMA MinIsLeast ==
    ASSUME NEW S \in SUBSET Nat, S # {}
    PROVE  /\ Min(S) \in S
           /\ \A x \in S : Min(S) <= x
           /\ \A n \in S : (\A x \in S : n <= x) => n = Min(S)
<1>1. \E n \in S : \A x \in S : n <= x
  BY LeastNumber
<1>2. Min(S) \in S /\ \A x \in S : Min(S) <= x
  BY <1>1 DEF Min
<1>3. ASSUME NEW n \in S, \A x \in S : n <= x
      PROVE  n = Min(S)
  <2>1. n \in Nat /\ Min(S) \in Nat /\ n <= Min(S) /\ Min(S) <= n
    BY <1>2, <1>3
  <2> QED BY <2>1
<1> QED BY <1>2, <1>3

LEMMA TailFacts ==
    ASSUME NEW queue \in Seq(Nat), queue # <<>>, Distinct(queue)
    PROVE  /\ Tail(queue) \in Seq(Nat) /\ Distinct(Tail(queue))
           /\ Len(queue) = Len(Tail(queue)) + 1
           /\ Head(queue) \in Range(queue)
           /\ Range(Tail(queue)) = Range(queue) \ {Head(queue)}
<1> DEFINE t == Tail(queue)
<1>1. /\ Len(queue) \in Nat /\ DOMAIN queue = 1 .. Len(queue)
      /\ t \in Seq(Nat) /\ DOMAIN t = 1 .. Len(t) /\ Len(t) = Len(queue) - 1
      /\ \A i \in 1 .. Len(t) : t[i] = queue[i + 1]
      /\ Head(queue) = queue[1] /\ 1 \in DOMAIN queue
  BY HeadTailProperties
<1> HIDE DEF t
<1>2. Distinct(t)
  <2> SUFFICES ASSUME NEW i \in 1 .. Len(t), NEW j \in 1 .. Len(t), t[i] = t[j]
               PROVE  i = j
    BY <1>1 DEF Distinct
  <2>1. i + 1 \in DOMAIN queue /\ j + 1 \in DOMAIN queue
    BY <1>1
  <2>2. i + 1 = j + 1
    BY <1>1, <2>1 DEF Distinct
  <2> QED BY <1>1, <2>2
<1>3. Range(t) = Range(queue) \ {Head(queue)}
  <2>1. ASSUME NEW i \in 1 .. Len(t)
        PROVE  t[i] \in Range(queue) \ {Head(queue)}
    <3>1. i + 1 \in DOMAIN queue /\ i + 1 # 1
      BY <1>1
    <3> QED BY <1>1, <3>1, ZenonT(60) DEF Distinct, Range
  <2>2. ASSUME NEW i \in DOMAIN queue, queue[i] # Head(queue)
        PROVE  queue[i] \in Range(t)
    <3>1. i - 1 \in 1 .. Len(t) /\ (i - 1) + 1 = i
      BY <1>1, <2>2
    <3>2. t[i - 1] = queue[i]
      BY <1>1, <3>1
    <3> QED BY <1>1, <3>1, <3>2 DEF Range
  <2> QED BY <1>1, <2>1, <2>2, SMTT(30) DEF Range
<1>4. Len(queue) = Len(t) + 1
  BY <1>1
<1> QED BY <1>1, <1>2, <1>3, <1>4 DEF t, Range

LEMMA AppendFacts ==
    ASSUME NEW queue \in Seq(Nat), NEW x \in Nat
    PROVE  /\ Append(queue, x) \in Seq(Nat)
           /\ Len(Append(queue, x)) = Len(queue) + 1
           /\ Range(Append(queue, x)) = Range(queue) \cup {x}
           /\ Distinct(queue) /\ x \notin Range(queue) =>
                Distinct(Append(queue, x))
<1> DEFINE longer == Append(queue, x)
<1>1. /\ Len(queue) \in Nat /\ DOMAIN queue = 1 .. Len(queue)
      /\ longer \in Seq(Nat) /\ Len(longer) = Len(queue) + 1
      /\ DOMAIN longer = 1 .. Len(queue) + 1
      /\ longer[Len(queue) + 1] = x
      /\ \A i \in 1 .. Len(queue) : longer[i] = queue[i]
      /\ \A i \in 1 .. Len(queue) + 1 : i = Len(queue) + 1 \/ i \in 1 .. Len(queue)
      /\ Len(queue) + 1 \in 1 .. Len(queue) + 1
      /\ \A i \in 1 .. Len(queue) : i \in 1 .. Len(queue) + 1
  OBVIOUS
<1> HIDE DEF longer
<1>2. Range(longer) = Range(queue) \cup {x}
  <2>1. \A i \in DOMAIN longer : longer[i] \in Range(queue) \cup {x}
    BY <1>1 DEF Range
  <2>2. \A i \in DOMAIN queue : queue[i] \in Range(longer)
    BY <1>1 DEF Range
  <2>3. x \in Range(longer)
    BY <1>1 DEF Range
  <2> QED BY <2>1, <2>2, <2>3 DEF Range
<1>3. ASSUME Distinct(queue), x \notin Range(queue)
      PROVE  Distinct(longer)
  <2>1. \A i \in 1 .. Len(queue) : queue[i] # x
    BY <1>1, <1>3 DEF Range
  <2> QED BY <1>1, <1>3, <2>1 DEF Distinct
<1> QED BY <1>1, <1>2, <1>3 DEF longer

------------------------------------------------------------------------------

(***************************************************************************)
(* The types of the arena.                                                 *)
(***************************************************************************)
Legs   == UNION {j.network : j \in Batches}
Nodes  == {Origin} \cup {l.to : l \in Legs}
Served == UNION {DOMAIN j.slots \cup DOMAIN j.targets : j \in Batches}

Travelled == [boarded : BOOLEAN, dep : Int, now : Int, access : Int, nt : Nat,
              imp : Int]

BranchType == [leg : Legs \cup {Root.leg}, parent : Nat, live : Nat,
               self : BOOLEAN, alive : BOOLEAN,
               node : Nodes, phase : Phases,
               m : Travelled, tasks : SUBSET Served, targets : SUBSET Served]

\* Only the root has no parent, and branches come after their parents.
Forest(slots) ==
    \A i \in DOMAIN slots :
        IF i = 1 THEN slots[i].parent = None
        ELSE slots[i].parent \in 1 .. i - 1

ChildrenOf(slots, k) == {c \in DOMAIN slots : slots[c].parent = k}
LivingChildren(slots, k) == {c \in ChildrenOf(slots, k) : slots[c].alive}

\* The arena knows what is held (queued or expanded), and whatever lives is
\* held or has a child that lives.
Counted(slots, held) ==
    \A i \in DOMAIN slots :
        /\ slots[i].self <=> i \notin held
        /\ slots[i].alive <=> i \in held \/ LivingChildren(slots, i) # {}
        /\ slots[i].live = Cardinality(LivingChildren(slots, i))

------------------------------------------------------------------------------
(* What a release frees.  The recursion of Freed has a solution.           *)

\* An ancestor that has been waiting for its last child.
Waits(slots, k) == slots[k].self /\ slots[k].alive /\ slots[k].live = 1

SolvesUp(f, slots) ==
    f = [k \in 0 .. Len(slots) |->
            IF k # None /\ slots[k].self /\ slots[k].alive /\ slots[k].live = 1
            THEN {k} \cup f[slots[k].parent] ELSE {}]

UpUpTo(f, slots, n) ==
    /\ f \in [0 .. n -> SUBSET Nat]
    /\ \A k \in 0 .. n :
        f[k] = IF k # None /\ Waits(slots, k)
               THEN {k} \cup f[slots[k].parent] ELSE {}

LEMMA ParentIsBefore ==
    ASSUME NEW slots \in Seq(BranchType), Forest(slots), NEW k \in 1 .. Len(slots)
    PROVE  /\ slots[k] \in BranchType
           /\ slots[k].parent \in 0 .. k - 1
           /\ k # 1 => slots[k].parent \in 1 .. Len(slots) /\ slots[k].parent # None
           /\ k = 1 => slots[k].parent = None
<1>1. k \in DOMAIN slots /\ k \in Nat /\ Len(slots) \in Nat /\ 1 <= k
  OBVIOUS
<1>2. CASE k = 1
  BY <1>1, <1>2 DEF Forest, None
<1>3. CASE k # 1
  BY <1>1, <1>3 DEF Forest, None
<1> QED BY <1>2, <1>3

LEMMA UpExists ==
    ASSUME NEW slots \in Seq(BranchType), Forest(slots)
    PROVE  \E f : SolvesUp(f, slots)
<1> DEFINE Holds == {n \in 0 .. Len(slots) : \E f : UpUpTo(f, slots, n)}
<1>0. Len(slots) \in Nat /\ DOMAIN slots = 1 .. Len(slots)
  OBVIOUS
<1>1. 0 \in Holds
  <2> DEFINE g == [k \in 0 .. 0 |-> {}]
  <2>1. g \in [0 .. 0 -> SUBSET Nat] /\ \A k \in 0 .. 0 : k = None /\ g[k] = {}
    BY DEF None
  <2> HIDE DEF g
  <2>2. UpUpTo(g, slots, 0)
    BY <2>1 DEF UpUpTo
  <2> QED BY <1>0, <2>2
<1>2. ASSUME NEW n \in 1 .. Len(slots), n - 1 \in Holds
      PROVE  n \in Holds
  <2>1. PICK f : UpUpTo(f, slots, n - 1)
    BY <1>2
  <2> DEFINE last == IF Waits(slots, n) THEN {n} \cup f[slots[n].parent] ELSE {}
             g == [k \in 0 .. n |-> IF k = n THEN last ELSE f[k]]
  <2>2. /\ n \in Nat /\ n # None /\ slots[n].parent \in 0 .. n - 1
        /\ n \in 0 .. Len(slots)
        /\ \A k \in 0 .. n : k # n => k \in 0 .. n - 1
    BY <1>0, ParentIsBefore DEF None
  <2>3. f \in [0 .. n - 1 -> SUBSET Nat]
    BY <2>1 DEF UpUpTo
  <2>4. last \in SUBSET Nat
    BY <2>2, <2>3
  <2>5. g \in [0 .. n -> SUBSET Nat]
    <3> HIDE DEF last
    <3> QED BY <2>2, <2>3, <2>4
  <2>6. g[n] = last /\ \A k \in 0 .. n - 1 : g[k] = f[k]
    <3> HIDE DEF last
    <3> QED BY <2>2
  <2> HIDE DEF g
  <2>7. ASSUME NEW k \in 0 .. n
        PROVE  g[k] = IF k # None /\ Waits(slots, k)
                      THEN {k} \cup g[slots[k].parent] ELSE {}
    <3>1. CASE k = n
      BY <2>2, <2>6, <3>1
    <3>2. CASE k # n
      <4>1. k \in 0 .. n - 1
        BY <2>2, <3>2
      <4>2. f[k] = IF k # None /\ Waits(slots, k)
                   THEN {k} \cup f[slots[k].parent] ELSE {}
        BY <2>1, <4>1 DEF UpUpTo
      <4>3. k # None => slots[k].parent \in 0 .. n - 1
        <5>1. k # None => k \in 1 .. Len(slots)
          BY <1>0, <2>2, <4>1 DEF None
        <5>2. k # None => slots[k].parent \in 0 .. k - 1
          BY <5>1, ParentIsBefore
        <5> QED BY <2>2, <4>1, <5>2
      <4> QED BY <2>6, <4>1, <4>2, <4>3
    <3> QED BY <3>1, <3>2
  <2>8. UpUpTo(g, slots, n)
    BY <2>5, <2>7 DEF UpUpTo
  <2> QED BY <2>2, <2>8
<1>3. PICK f : UpUpTo(f, slots, Len(slots))
  <2> HIDE DEF Holds
  <2>1. 0 .. Len(slots) \subseteq Holds
    BY <1>0, <1>1, <1>2, UpTo
  <2>2. Len(slots) \in Holds
    BY <1>0, <2>1
  <2> QED BY <2>2 DEF Holds
<1>4. SolvesUp(f, slots)
  BY <1>3 DEF UpUpTo, SolvesUp, Waits
<1> QED BY <1>4

\* A chain of ancestors that have been waiting, from k upward, as long as it
\* goes.
IsChain(slots, k, chain) ==
    /\ chain \subseteq 1 .. k
    /\ k # None /\ Waits(slots, k) => k \in chain
    /\ \A c \in chain :
        /\ Waits(slots, c)
        /\ LET p == slots[c].parent
           IN  p # None /\ Waits(slots, p) => p \in chain
        /\ c # k => \E d \in chain : slots[d].parent = c
    /\ \A c, d \in chain : slots[c].parent = slots[d].parent => c = d

LEMMA UpIsChain ==
    ASSUME NEW slots \in Seq(BranchType), Forest(slots),
           NEW f, SolvesUp(f, slots), NEW k \in 0 .. Len(slots)
    PROVE  IsChain(slots, k, f[k])
<1> DEFINE Bad == {n \in 0 .. Len(slots) : ~IsChain(slots, n, f[n])}
<1>0. Len(slots) \in Nat /\ DOMAIN slots = 1 .. Len(slots)
  OBVIOUS
<1>1. \A n \in 0 .. Len(slots) :
        f[n] = IF n # None /\ Waits(slots, n)
               THEN {n} \cup f[slots[n].parent] ELSE {}
  BY DEF SolvesUp, Waits
<1>2. ASSUME NEW n \in 0 .. Len(slots),
             \A l \in 0 .. n - 1 : IsChain(slots, l, f[l])
      PROVE  IsChain(slots, n, f[n])
  <2>1. CASE ~(n # None /\ Waits(slots, n))
    <3>1. f[n] = {}
      BY <1>1, <2>1
    <3> QED BY <2>1, <3>1 DEF IsChain
  <2>2. CASE n # None /\ Waits(slots, n)
    <3> DEFINE p == slots[n].parent
               chain == f[p]
    <3>1. n \in 1 .. Len(slots) /\ n \in Nat
      BY <1>0, <2>2 DEF None
    <3>2. p \in 0 .. n - 1 /\ p \in Nat /\ p < n
      BY <3>1, ParentIsBefore
    <3>3. f[n] = {n} \cup chain
      BY <1>1, <2>2
    <3>4. IsChain(slots, p, chain)
      BY <1>2, <3>2
    <3> HIDE DEF chain
    <3>5. \A c \in chain : c \in 1 .. p /\ c \in 1 .. Len(slots) /\ c # n
      BY <1>0, <3>1, <3>2, <3>4 DEF IsChain
    <3>6. \A c \in chain : slots[c].parent # p
      <4>1. \A c \in chain : slots[c].parent \in 0 .. c - 1
        BY <3>5, ParentIsBefore
      <4> QED BY <3>2, <3>5, <4>1
    <3>7. {n} \cup chain \subseteq 1 .. n
      BY <3>1, <3>2, <3>5
    <3>8. p # None /\ Waits(slots, p) => p \in chain
      BY <3>4 DEF IsChain
    <3>9. ASSUME NEW c \in {n} \cup chain
          PROVE  /\ Waits(slots, c)
                 /\ LET q == slots[c].parent
                    IN  q # None /\ Waits(slots, q) => q \in {n} \cup chain
                 /\ c # n => \E d \in {n} \cup chain : slots[d].parent = c
      <4>1. CASE c = n
        BY <2>2, <3>8, <4>1
      <4>2. CASE c \in chain
        <5>1. /\ Waits(slots, c)
              /\ slots[c].parent # None /\ Waits(slots, slots[c].parent)
                   => slots[c].parent \in chain
              /\ c # p => \E d \in chain : slots[d].parent = c
          BY <3>4, <4>2 DEF IsChain
        <5> QED BY <5>1
      <4> QED BY <4>1, <4>2
    <3>10. \A c, d \in {n} \cup chain : slots[c].parent = slots[d].parent => c = d
      <4>1. \A c, d \in chain : slots[c].parent = slots[d].parent => c = d
        BY <3>4 DEF IsChain
      <4> QED BY <3>6, <4>1
    <3>11. IsChain(slots, n, {n} \cup chain)
      <4> HIDE DEF p
      <4> QED BY <2>2, <3>7, <3>9, <3>10 DEF IsChain
    <3> QED BY <3>3, <3>11
  <2> QED BY <2>1, <2>2
<1>3. ASSUME Bad # {} PROVE FALSE
  <2>1. PICK n \in Bad : \A l \in Bad : n <= l
    <3>1. Bad \in SUBSET Nat
      BY <1>0
    <3> HIDE DEF Bad
    <3> QED BY <1>3, <3>1, LeastNumber
  <2>2. n \in 0 .. Len(slots) /\ \A l \in 0 .. n - 1 : l \in 0 .. Len(slots) /\ ~(n <= l)
    BY <1>0, <2>1
  <2>3. \A l \in 0 .. n - 1 : IsChain(slots, l, f[l])
    BY <2>1, <2>2
  <2> QED BY <1>2, <2>1, <2>2, <2>3
<1> QED BY <1>3

\* release_branch_if_closed: a branch that dies takes a chain with it.
LEMMA FreedIs ==
    ASSUME NEW slots \in Seq(BranchType), Forest(slots),
           NEW i \in 1 .. Len(slots), slots[i].alive
    PROVE  /\ slots[i].live # 0 => Freed(slots, i) = {}
           /\ slots[i].live = 0 =>
                \E chain : /\ IsChain(slots, slots[i].parent, chain)
                           /\ Freed(slots, i) = {i} \cup chain
<1> DEFINE f == CHOOSE g : SolvesUp(g, slots)
<1>1. SolvesUp(f, slots)
  BY UpExists, Zenon
<1>2. Freed(slots, i) = IF slots[i].live # 0 \/ ~slots[i].alive THEN {}
                        ELSE {i} \cup f[slots[i].parent]
  BY DEF Freed, SolvesUp
<1> HIDE DEF f
<1>3. slots[i].parent \in 0 .. Len(slots)
  BY ParentIsBefore
<1>4. IsChain(slots, slots[i].parent, f[slots[i].parent])
  BY <1>1, <1>3, UpIsChain
<1> QED BY <1>2, <1>4

\* What the proofs need to know of a set that is freed.
LEMMA FreedFacts ==
    ASSUME NEW slots \in Seq(BranchType), Forest(slots),
           NEW held \in SUBSET DOMAIN slots, Counted(slots, held), NEW i \in held
    PROVE  /\ Freed(slots, i) \subseteq {c \in DOMAIN slots : slots[c].alive}
           /\ Freed(slots, i) = {} <=> LivingChildren(slots, i) # {}
           /\ LivingChildren(slots, i) = {} => i \in Freed(slots, i)
           /\ \A c \in Freed(slots, i) :
                /\ c # i => c \notin held /\ slots[c].live = 1
                /\ c # i => \E d \in Freed(slots, i) : slots[d].parent = c
                /\ LET p == slots[c].parent
                   IN  p # None /\ Waits(slots, p) => p \in Freed(slots, i)
           /\ \A c, d \in Freed(slots, i) :
                slots[c].parent = slots[d].parent => c = d
<1> DEFINE freed == Freed(slots, i)
<1>0. /\ Len(slots) \in Nat /\ DOMAIN slots = 1 .. Len(slots) /\ i \in 1 .. Len(slots)
  OBVIOUS
<1>1. /\ slots[i].alive
      /\ slots[i].live = Cardinality(LivingChildren(slots, i))
  BY <1>0 DEF Counted
<1>2. IsFiniteSet(LivingChildren(slots, i))
  <2>1. LivingChildren(slots, i) \subseteq 1 .. Len(slots)
    BY <1>0 DEF LivingChildren, ChildrenOf
  <2>2. IsFiniteSet(1 .. Len(slots))
    BY <1>0, IntervalCount
  <2> QED BY <2>1, <2>2, FS_Subset
<1>3. slots[i].live = 0 <=> LivingChildren(slots, i) = {}
  BY <1>1, <1>2, FS_EmptySet
<1>4. CASE slots[i].live # 0
  <2>1. freed = {}
    BY <1>0, <1>1, <1>4, FreedIs
  <2> QED BY <1>3, <1>4, <2>1
<1>5. CASE slots[i].live = 0
  <2>1. PICK chain : /\ IsChain(slots, slots[i].parent, chain)
                     /\ freed = {i} \cup chain
    BY <1>0, <1>1, <1>5, FreedIs
  <2> DEFINE p == slots[i].parent
  <2> HIDE DEF freed
  <2>2. p \in 0 .. i - 1 /\ i \in Nat /\ p \in Nat /\ p < i
    BY <1>0, ParentIsBefore
  <2>3. /\ chain \subseteq 1 .. p
        /\ p # None /\ Waits(slots, p) => p \in chain
        /\ \A c, d \in chain : slots[c].parent = slots[d].parent => c = d
    BY <2>1 DEF IsChain
  <2>4. \A c \in chain :
          /\ Waits(slots, c)
          /\ slots[c].parent # None /\ Waits(slots, slots[c].parent)
                => slots[c].parent \in chain
          /\ c # p => \E d \in chain : slots[d].parent = c
    BY <2>1 DEF IsChain
  <2>5. \A c \in chain : c \in 1 .. p /\ c \in DOMAIN slots /\ c # i
    BY <1>0, <2>2, <2>3
  <2>6. \A c \in chain : slots[c].alive /\ c \notin held /\ slots[c].live = 1
    BY <2>4, <2>5 DEF Waits, Counted
  <2>7. \A c \in chain : slots[c].parent # p
    <3>1. \A c \in chain : c \in 1 .. Len(slots)
      BY <1>0, <2>5
    <3>2. \A c \in chain : slots[c].parent \in 0 .. c - 1
      BY <3>1, ParentIsBefore
    <3> QED BY <2>2, <2>5, <3>2
  <2>8. freed \subseteq {c \in DOMAIN slots : slots[c].alive}
    BY <1>0, <1>1, <2>1, <2>5, <2>6
  <2>9. \A c \in freed :
          /\ c # i => c \notin held /\ slots[c].live = 1
          /\ c # i => \E d \in freed : slots[d].parent = c
          /\ LET q == slots[c].parent IN q # None /\ Waits(slots, q) => q \in freed
    <3>1. \A c \in chain : \E d \in freed : slots[d].parent = c
      BY <2>1, <2>4
    <3> QED BY <2>1, <2>3, <2>4, <2>6, <3>1
  <2>10. \A c, d \in freed : slots[c].parent = slots[d].parent => c = d
    BY <2>1, <2>3, <2>7
  <2> QED BY <1>3, <1>5, <2>1, <2>8, <2>9, <2>10 DEF freed
<1> QED BY <1>4, <1>5

------------------------------------------------------------------------------
\* What no release and no birth of a child changes of a branch.
SameBranch(s, t) ==
    /\ t.leg = s.leg /\ t.parent = s.parent /\ t.node = s.node
    /\ t.phase = s.phase /\ t.m = s.m
    /\ t.tasks = s.tasks /\ t.targets = s.targets

\* The children of a branch that a release frees, and those it leaves.
GoneOf(slots, i, k) == {c \in Freed(slots, i) : slots[c].parent = k}
LeftOf(slots, i, k) == LivingChildren(slots, k) \ Freed(slots, i)

LEMMA FreedChildren ==
    ASSUME NEW slots \in Seq(BranchType), Forest(slots),
           NEW held \in SUBSET DOMAIN slots, Counted(slots, held), NEW i \in held,
           NEW k \in DOMAIN slots
    PROVE  /\ IsFiniteSet(LivingChildren(slots, k))
           /\ Cardinality(LeftOf(slots, i, k)) \in Nat
           /\ slots[k].live - Min({slots[k].live, Cardinality(GoneOf(slots, i, k))})
                = Cardinality(LeftOf(slots, i, k))
<1> DEFINE freed == Freed(slots, i)
           gone == {c \in freed : slots[c].parent = k}
           left == LivingChildren(slots, k) \ freed
           all == LivingChildren(slots, k)
<1>0. Len(slots) \in Nat /\ DOMAIN slots = 1 .. Len(slots)
  OBVIOUS
<1>1. freed \subseteq {c \in DOMAIN slots : slots[c].alive}
  BY FreedFacts
<1> HIDE DEF freed
<1>2. IsFiniteSet(all)
  <2>1. all \subseteq 1 .. Len(slots)
    BY <1>0 DEF LivingChildren, ChildrenOf
  <2>2. IsFiniteSet(1 .. Len(slots))
    BY <1>0, IntervalCount
  <2> HIDE DEF all
  <2> QED BY <2>1, <2>2, FS_Subset
<1>3. /\ gone \subseteq all /\ left \subseteq all /\ gone \cup left = all
      /\ gone \cap left = {}
  BY <1>1 DEF LivingChildren, ChildrenOf
<1>4. slots[k].live = Cardinality(all)
  BY DEF Counted
<1> HIDE DEF gone, left, all
<1>5. IsFiniteSet(gone) /\ IsFiniteSet(left)
  BY <1>2, <1>3, FS_Subset
<1>6. /\ Cardinality(gone) \in Nat /\ Cardinality(left) \in Nat
      /\ Cardinality(all) \in Nat
  BY <1>2, <1>5, FS_CardinalityType
<1>7. Cardinality(all) = Cardinality(gone) + Cardinality(left)
  <2>1. Cardinality(gone \cap left) = 0
    BY <1>3, FS_EmptySet
  <2>2. Cardinality(gone \cup left)
          = Cardinality(gone) + Cardinality(left) - Cardinality(gone \cap left)
    BY <1>5, FS_Union
  <2>3. Cardinality(all) = Cardinality(gone) + Cardinality(left) - 0
    BY <1>3, <2>1, <2>2, Zenon
  <2> QED BY <1>6, <2>3
<1> DEFINE x == Cardinality(all)
           y == Cardinality(gone)
<1>8. Min({x, y}) = y
  <2>1. {x, y} \in SUBSET Nat /\ {x, y} # {} /\ y \in {x, y}
    BY <1>6
  <2>2. \A z \in {x, y} : y <= z
    BY <1>6, <1>7
  <2> HIDE DEF x, y
  <2>3. \A n \in {x, y} : (\A z \in {x, y} : n <= z) => n = Min({x, y})
    BY <2>1, MinIsLeast
  <2> QED BY <2>1, <2>2, <2>3
<1>9. GoneOf(slots, i, k) = gone /\ LeftOf(slots, i, k) = left
  BY DEF GoneOf, LeftOf, freed, gone, left, all
<1> QED BY <1>2, <1>4, <1>6, <1>7, <1>8, <1>9 DEF all

\* A sequence whose branches have changed in their counters only.
LEMMA SameForest ==
    ASSUME NEW slots \in Seq(BranchType), Forest(slots),
           NEW new, DOMAIN new = DOMAIN slots, new = [k \in DOMAIN new |-> new[k]],
           \A k \in DOMAIN slots : new[k] \in BranchType /\ new[k].parent = slots[k].parent
    PROVE  /\ new \in Seq(BranchType) /\ Len(new) = Len(slots)
           /\ Forest(new)
           /\ \A k : ChildrenOf(new, k) = ChildrenOf(slots, k)
<1>1. Len(slots) \in Nat /\ DOMAIN slots = 1 .. Len(slots)
  OBVIOUS
<1>2. new \in [1 .. Len(slots) -> BranchType]
  BY <1>1
<1>3. new \in Seq(BranchType)
  BY <1>1, <1>2, SeqDef
<1>4. Len(new) = Len(slots)
  <2>1. Len(new) \in Nat /\ DOMAIN new = 1 .. Len(new)
    BY <1>3
  <2> QED BY <1>1, <2>1
<1>5. Forest(new)
  BY DEF Forest
<1> QED BY <1>3, <1>4, <1>5 DEF ChildrenOf

LEMMA ReleaseKeeps ==
    ASSUME NEW slots \in Seq(BranchType), Forest(slots),
           NEW held \in SUBSET DOMAIN slots, Counted(slots, held), NEW i \in held
    PROVE  /\ Release(slots, i) \in Seq(BranchType)
           /\ Len(Release(slots, i)) = Len(slots)
           /\ Forest(Release(slots, i))
           /\ Counted(Release(slots, i), held \ {i})
           /\ \A k \in DOMAIN slots : SameBranch(slots[k], Release(slots, i)[k])
<1> DEFINE freed == Freed(slots, i)
           new == Release(slots, i)
           Gone(k) == Cardinality(GoneOf(slots, i, k))
           Left(k) == LivingChildren(slots, k) \ freed
<1>0. Len(slots) \in Nat /\ DOMAIN slots = 1 .. Len(slots)
  OBVIOUS
<1>1. ASSUME NEW k \in DOMAIN slots
      PROVE  /\ slots[k] \in BranchType
             /\ slots[k].self \in BOOLEAN /\ slots[k].alive \in BOOLEAN
             /\ slots[k].live \in Nat
  <2>1. slots[k] \in BranchType
    BY <1>0
  <2> QED BY <2>1 DEF BranchType
<1>2. new = [k \in DOMAIN slots |->
                [slots[k] EXCEPT !.self  = @ \/ k = i,
                                 !.alive = @ /\ k \notin freed,
                                 !.live  = @ - Min({@, Gone(k)})]]
  BY DEF Release, GoneOf
<1>3. ASSUME NEW k \in DOMAIN slots
      PROVE  /\ new[k] \in BranchType
             /\ new[k].self = (slots[k].self \/ k = i)
             /\ new[k].alive = (slots[k].alive /\ k \notin freed)
             /\ new[k].live = Cardinality(Left(k))
             /\ SameBranch(slots[k], new[k])
  <2> DEFINE a == slots[k].self \/ k = i
             b == slots[k].alive /\ k \notin freed
             n == slots[k].live - Min({slots[k].live, Gone(k)})
  <2>1. new[k] = [slots[k] EXCEPT !.self = a, !.alive = b, !.live = n]
    BY <1>2
  <2>2. n = Cardinality(Left(k)) /\ n \in Nat
    <3>1. /\ Cardinality(LeftOf(slots, i, k)) \in Nat
          /\ slots[k].live - Min({slots[k].live, Cardinality(GoneOf(slots, i, k))})
                = Cardinality(LeftOf(slots, i, k))
      BY FreedChildren, Zenon
    <3>2. n = Cardinality(LeftOf(slots, i, k))
      BY <3>1, Zenon
    <3>3. Left(k) = LeftOf(slots, i, k)
      BY Zenon DEF LeftOf
    <3> HIDE DEF n, Left
    <3> QED BY <3>1, <3>2, <3>3, Zenon
  <2>3. a \in BOOLEAN /\ b \in BOOLEAN
    OBVIOUS
  <2> HIDE DEF a, b, n, new, Left
  <2>4. LET t == [slots[k] EXCEPT !.self = a, !.alive = b, !.live = n]
        IN  /\ t \in BranchType
            /\ t.self = a /\ t.alive = b /\ t.live = n
            /\ SameBranch(slots[k], t)
    BY <1>1, <2>2, <2>3 DEF BranchType, SameBranch
  <2> QED BY <2>1, <2>2, <2>4 DEF a, b
<1>4. DOMAIN new = DOMAIN slots /\ new = [k \in DOMAIN new |-> new[k]]
  BY <1>2
<1> HIDE DEF new
<1>5. /\ new \in Seq(BranchType) /\ Len(new) = Len(slots) /\ Forest(new)
      /\ \A k : ChildrenOf(new, k) = ChildrenOf(slots, k)
  <2>1. \A k \in DOMAIN slots :
          new[k] \in BranchType /\ new[k].parent = slots[k].parent
    BY <1>3 DEF SameBranch
  <2> QED BY <1>4, <2>1, SameForest
<1>6. \A k : LivingChildren(new, k) = Left(k)
  BY <1>3, <1>5 DEF LivingChildren, ChildrenOf
<1>7. freed \subseteq {c \in DOMAIN slots : slots[c].alive}
  BY FreedFacts
<1>8. ASSUME NEW k \in DOMAIN slots
      PROVE  new[k].alive <=> k \in held \ {i} \/ Left(k) # {}
  <2> HIDE DEF freed
  <2>1. slots[k].alive <=> k \in held \/ LivingChildren(slots, k) # {}
    BY DEF Counted
  <2>2. CASE k \in freed
    <3>1. k \notin held \ {i}
      BY <2>2, FreedFacts DEF freed
    <3>2. ASSUME Left(k) # {} PROVE FALSE
      <4>1. CASE k = i
        <5>1. LivingChildren(slots, i) = {}
          BY <2>2, FreedFacts DEF freed
        <5> QED BY <3>2, <4>1, <5>1
      <4>2. CASE k # i
        <5>1. slots[k].live = 1
          BY <2>2, <4>2, FreedFacts DEF freed
        <5>2. PICK d \in freed : slots[d].parent = k
          BY <2>2, <4>2, FreedFacts DEF freed
        <5>3. PICK c \in Left(k) : TRUE
          BY <3>2
        <5>4. c \in LivingChildren(slots, k) /\ d \in LivingChildren(slots, k) /\ c # d
          BY <1>7, <5>2, <5>3 DEF LivingChildren, ChildrenOf
        <5>5. /\ IsFiniteSet(LivingChildren(slots, k))
              /\ Cardinality(LivingChildren(slots, k)) = 1
          BY <5>1, FreedChildren DEF Counted
        <5>6. \A x, y \in LivingChildren(slots, k) : x = y
          <6> DEFINE S == LivingChildren(slots, k)
          <6> HIDE DEF S
          <6>1. IsFiniteSet(S) /\ Cardinality(S) = 1 => \E x : S = {x}
            BY FS_Singleton
          <6> QED BY <5>5, <6>1 DEF S
        <5> QED BY <5>4, <5>6
      <4> QED BY <4>1, <4>2
    <3> QED BY <1>3, <2>2, <3>1, <3>2
  <2>3. CASE k \notin freed
    <3>1. new[k].alive = slots[k].alive
      BY <1>1, <1>3, <2>3
    <3>2. Left(k) # {} => LivingChildren(slots, k) # {}
      OBVIOUS
    <3>3. ASSUME k \in held, k \notin held \ {i} PROVE Left(k) # {}
      <4>1. k = i
        BY <3>3
      <4>2. LivingChildren(slots, k) # {} /\ freed = {}
        BY <2>3, <4>1, FreedFacts DEF freed
      <4> QED BY <4>2
    <3>4. ASSUME k \notin held, LivingChildren(slots, k) # {}, Left(k) = {}
          PROVE  FALSE
      <4>1. LivingChildren(slots, k) \subseteq freed
        BY <3>4
      <4>2. PICK c \in LivingChildren(slots, k) : TRUE
        BY <3>4
      <4>3. slots[c].parent = k /\ c \in freed
        BY <4>1, <4>2 DEF LivingChildren, ChildrenOf
      <4>4. LivingChildren(slots, k) = {c}
        <5>1. \A d \in LivingChildren(slots, k) :
                slots[d].parent = slots[c].parent /\ d \in freed
          BY <4>1, <4>3 DEF LivingChildren, ChildrenOf
        <5>2. \A d \in LivingChildren(slots, k) : d = c
          BY <4>3, <5>1, FreedFacts DEF freed
        <5> QED BY <4>2, <5>2
      <4>5. slots[k].live = 1
        BY <4>4, FS_Singleton DEF Counted
      <4>6. slots[k].self /\ slots[k].alive
        BY <2>1, <3>4 DEF Counted
      <4>7. k # None
        BY <1>0 DEF None
      <4> QED BY <2>3, <4>3, <4>5, <4>6, <4>7, FreedFacts DEF freed, Waits
    <3> QED BY <2>1, <3>1, <3>2, <3>3, <3>4
  <2> QED BY <2>2, <2>3
<1>9. Counted(new, held \ {i})
  <2> SUFFICES ASSUME NEW k \in DOMAIN new
               PROVE  /\ new[k].self <=> k \notin held \ {i}
                      /\ new[k].alive <=> k \in held \ {i} \/ LivingChildren(new, k) # {}
                      /\ new[k].live = Cardinality(LivingChildren(new, k))
    BY DEF Counted
  <2>1. k \in DOMAIN slots
    BY <1>4
  <2>2. slots[k].self <=> k \notin held
    BY <2>1 DEF Counted
  <2>3. new[k].self = (slots[k].self \/ k = i)
    BY <1>3, <2>1
  <2>4. new[k].self <=> k \notin held \ {i}
    BY <2>2, <2>3
  <2> QED BY <1>3, <1>6, <1>8, <2>1, <2>4
<1> QED BY <1>3, <1>5, <1>9 DEF new

\* append_branch: the parent of a branch that is born is held.
Born(slots, b) == Append([slots EXCEPT ![b.parent].live = @ + 1], b)

LEMMA BirthKeeps ==
    ASSUME NEW slots \in Seq(BranchType), Forest(slots),
           NEW held \in SUBSET DOMAIN slots, Counted(slots, held),
           NEW b \in BranchType, b.parent \in held,
           b.live = 0, ~b.self, b.alive
    PROVE  /\ Born(slots, b) \in Seq(BranchType)
           /\ Len(Born(slots, b)) = Len(slots) + 1
           /\ Forest(Born(slots, b))
           /\ Counted(Born(slots, b), held \cup {Len(slots) + 1})
           /\ Born(slots, b)[Len(slots) + 1] = b
           /\ \A k \in DOMAIN slots : SameBranch(slots[k], Born(slots, b)[k])
<1> DEFINE p == b.parent
           n == Len(slots) + 1
           raised == [slots EXCEPT ![p].live = @ + 1]
           new == Append(raised, b)
<1>0. /\ Len(slots) \in Nat /\ DOMAIN slots = 1 .. Len(slots) /\ p \in 1 .. Len(slots)
      /\ n \in Nat /\ n \notin 1 .. Len(slots) /\ n # 1
  OBVIOUS
<1>1. ASSUME NEW k \in DOMAIN slots
      PROVE  /\ raised[k] \in BranchType
             /\ raised[k].self = slots[k].self /\ raised[k].alive = slots[k].alive
             /\ raised[k].live = slots[k].live + (IF k = p THEN 1 ELSE 0)
             /\ SameBranch(slots[k], raised[k])
  <2>1. slots[k] \in BranchType
    BY <1>0
  <2>2. CASE k = p
    <3> DEFINE x == slots[k].live + 1
    <3>1. raised[k] = [slots[k] EXCEPT !["live"] = x]
      BY <2>2
    <3>2. x \in Nat
      BY <2>1 DEF BranchType
    <3> HIDE DEF x, raised
    <3>3. raised[k] \in BranchType
      BY <2>1, <3>1, <3>2 DEF BranchType
    <3>4. /\ raised[k].live = x
          /\ raised[k].self = slots[k].self /\ raised[k].alive = slots[k].alive
      BY <2>1, <3>1 DEF BranchType
    <3>5. SameBranch(slots[k], raised[k])
      BY <2>1, <3>1 DEF BranchType, SameBranch
    <3> QED BY <2>2, <3>3, <3>4, <3>5 DEF x
  <2>3. CASE k # p
    <3>1. raised[k] = slots[k]
      BY <2>3
    <3>2. slots[k].live + 0 = slots[k].live
      BY <2>1 DEF BranchType
    <3> QED BY <2>1, <2>3, <3>1, <3>2 DEF SameBranch
  <2> QED BY <2>2, <2>3
<1>2. DOMAIN raised = DOMAIN slots /\ raised = [k \in DOMAIN raised |-> raised[k]]
  OBVIOUS
<1> HIDE DEF raised
<1>3. raised \in Seq(BranchType) /\ Len(raised) = Len(slots)
  <2>1. \A k \in DOMAIN slots :
          raised[k] \in BranchType /\ raised[k].parent = slots[k].parent
    BY <1>1 DEF SameBranch
  <2> QED BY <1>2, <2>1, SameForest
<1>4. /\ new \in Seq(BranchType) /\ Len(new) = n /\ DOMAIN new = 1 .. n
      /\ new[n] = b /\ \A k \in 1 .. Len(slots) : new[k] = raised[k]
  BY <1>0, <1>3
<1> HIDE DEF new
<1>5. \A k \in 1 .. n : k = n \/ k \in 1 .. Len(slots)
  BY <1>0
<1>6. Forest(new)
  <2> SUFFICES ASSUME NEW k \in 1 .. n
               PROVE  IF k = 1 THEN new[k].parent = None
                      ELSE new[k].parent \in 1 .. k - 1
    BY <1>4 DEF Forest
  <2>1. CASE k = n
    BY <1>0, <1>4, <2>1
  <2>2. CASE k \in 1 .. Len(slots)
    BY <1>0, <1>1, <1>4, <2>2 DEF Forest, SameBranch
  <2> QED BY <1>5, <2>1, <2>2
<1>7. \A k : LivingChildren(new, k)
               = LivingChildren(slots, k) \cup (IF k = p THEN {n} ELSE {})
  <2>1. \A c \in 1 .. Len(slots) :
          new[c].parent = slots[c].parent /\ new[c].alive = slots[c].alive
    BY <1>0, <1>1, <1>4 DEF SameBranch
  <2>2. n \in 1 .. n /\ \A c \in 1 .. Len(slots) : c \in 1 .. n
    BY <1>0
  <2> QED BY <1>0, <1>4, <1>5, <2>1, <2>2 DEF LivingChildren, ChildrenOf
<1>8. LivingChildren(new, n) = {}
  <2>1. \A c \in 1 .. Len(slots) : slots[c].parent \in 0 .. c - 1
    BY ParentIsBefore
  <2>2. \A c \in 1 .. Len(slots) : slots[c].parent # n
    BY <1>0, <2>1
  <2> QED BY <1>0, <1>7, <2>2 DEF LivingChildren, ChildrenOf
<1>9. ASSUME NEW k \in 1 .. n
      PROVE  /\ new[k].self <=> k \notin held \cup {n}
             /\ new[k].alive <=> k \in held \cup {n} \/ LivingChildren(new, k) # {}
             /\ new[k].live = Cardinality(LivingChildren(new, k))
  <2>1. CASE k = n
    BY <1>4, <1>8, <2>1, FS_EmptySet
  <2>2. CASE k \in 1 .. Len(slots)
    <3>1. /\ slots[k].self <=> k \notin held
          /\ slots[k].alive <=> k \in held \/ LivingChildren(slots, k) # {}
          /\ slots[k].live = Cardinality(LivingChildren(slots, k))
      BY <1>0, <2>2 DEF Counted
    <3>2. /\ new[k].self = slots[k].self /\ new[k].alive = slots[k].alive
          /\ new[k].live = slots[k].live + (IF k = p THEN 1 ELSE 0)
      BY <1>0, <1>1, <1>4, <2>2
    <3>3. k # n
      BY <1>0, <2>2
    <3>4. new[k].live = Cardinality(LivingChildren(new, k))
      <4> DEFINE S == LivingChildren(slots, k)
      <4>1. S \subseteq 1 .. Len(slots)
        BY <1>0 DEF LivingChildren, ChildrenOf
      <4>2. IsFiniteSet(1 .. Len(slots))
        BY <1>0, IntervalCount
      <4> HIDE DEF S
      <4>3. IsFiniteSet(S) /\ Cardinality(S) \in Nat /\ n \notin S
        BY <1>0, <4>1, <4>2, FS_Subset, FS_CardinalityType
      <4>4. Cardinality(S \cup {n}) = Cardinality(S) + 1
        BY <4>3, FS_AddElement
      <4>5. CASE k = p
        BY <1>7, <3>1, <3>2, <4>4, <4>5 DEF S
      <4>6. CASE k # p
        <5>1. LivingChildren(new, k) = S
          BY <1>7, <4>6 DEF S
        <5>2. new[k].live = Cardinality(S) + 0
          BY <3>1, <3>2, <4>6 DEF S
        <5> QED BY <4>3, <5>1, <5>2
      <4> QED BY <4>5, <4>6
    <3>5. k = p => k \in held
      OBVIOUS
    <3> QED BY <1>7, <3>1, <3>2, <3>3, <3>4, <3>5
  <2> QED BY <1>5, <2>1, <2>2
<1>10. Counted(new, held \cup {n})
  BY <1>4, <1>9 DEF Counted
<1>11. \A k \in DOMAIN slots : SameBranch(slots[k], new[k])
  BY <1>0, <1>1, <1>4
<1> QED BY <1>4, <1>6, <1>10, <1>11 DEF Born, new, raised

------------------------------------------------------------------------------
(* Ancestors.                                                              *)

SolvesAncestors(f, slots) ==
    f = [k \in 0 .. Len(slots) |->
            IF k = None \/ slots[k].parent = None THEN {}
            ELSE {slots[k].parent} \cup f[slots[k].parent]]

AncestorsUpTo(f, slots, n) ==
    /\ f \in [0 .. n -> SUBSET Nat]
    /\ \A k \in 0 .. n :
        f[k] = IF k = None \/ slots[k].parent = None THEN {}
               ELSE {slots[k].parent} \cup f[slots[k].parent]

LEMMA AncestorsExist ==
    ASSUME NEW slots \in Seq(BranchType), Forest(slots)
    PROVE  \E f : SolvesAncestors(f, slots)
<1> DEFINE Holds == {n \in 0 .. Len(slots) : \E f : AncestorsUpTo(f, slots, n)}
<1>0. Len(slots) \in Nat /\ DOMAIN slots = 1 .. Len(slots)
  OBVIOUS
<1>1. 0 \in Holds
  <2> DEFINE g == [k \in 0 .. 0 |-> {}]
  <2>1. g \in [0 .. 0 -> SUBSET Nat] /\ \A k \in 0 .. 0 : k = None /\ g[k] = {}
    BY DEF None
  <2> HIDE DEF g
  <2>2. AncestorsUpTo(g, slots, 0)
    BY <2>1 DEF AncestorsUpTo
  <2> QED BY <1>0, <2>2
<1>2. ASSUME NEW n \in 1 .. Len(slots), n - 1 \in Holds
      PROVE  n \in Holds
  <2>1. PICK f : AncestorsUpTo(f, slots, n - 1)
    BY <1>2
  <2> DEFINE p == slots[n].parent
             last == IF p = None THEN {} ELSE {p} \cup f[p]
             g == [k \in 0 .. n |-> IF k = n THEN last ELSE f[k]]
  <2>2. /\ n \in Nat /\ n # None /\ p \in 0 .. n - 1 /\ p \in Nat
        /\ n \in 0 .. Len(slots)
        /\ \A k \in 0 .. n : k # n => k \in 0 .. n - 1
    BY <1>0, ParentIsBefore DEF None
  <2>3. f \in [0 .. n - 1 -> SUBSET Nat]
    BY <2>1 DEF AncestorsUpTo
  <2>4. last \in SUBSET Nat
    <3> HIDE DEF p
    <3> QED BY <2>2, <2>3
  <2>5. g \in [0 .. n -> SUBSET Nat]
    <3> HIDE DEF last
    <3> QED BY <2>2, <2>3, <2>4
  <2>6. g[n] = last /\ \A k \in 0 .. n - 1 : g[k] = f[k]
    <3> HIDE DEF last
    <3> QED BY <2>2
  <2> HIDE DEF g
  <2>7. ASSUME NEW k \in 0 .. n
        PROVE  g[k] = IF k = None \/ slots[k].parent = None THEN {}
                      ELSE {slots[k].parent} \cup g[slots[k].parent]
    <3>1. CASE k = n
      BY <2>2, <2>6, <3>1
    <3>2. CASE k # n
      <4>1. k \in 0 .. n - 1
        BY <2>2, <3>2
      <4>2. f[k] = IF k = None \/ slots[k].parent = None THEN {}
                   ELSE {slots[k].parent} \cup f[slots[k].parent]
        BY <2>1, <4>1 DEF AncestorsUpTo
      <4>3. k # None => slots[k].parent \in 0 .. n - 1
        <5>1. k # None => k \in 1 .. Len(slots)
          BY <1>0, <2>2, <4>1 DEF None
        <5>2. k # None => slots[k].parent \in 0 .. k - 1
          BY <5>1, ParentIsBefore
        <5> QED BY <2>2, <4>1, <5>2
      <4> QED BY <2>6, <4>1, <4>2, <4>3
    <3> QED BY <3>1, <3>2
  <2>8. AncestorsUpTo(g, slots, n)
    BY <2>5, <2>7 DEF AncestorsUpTo
  <2> QED BY <2>2, <2>8
<1>3. PICK f : AncestorsUpTo(f, slots, Len(slots))
  <2> HIDE DEF Holds
  <2>1. 0 .. Len(slots) \subseteq Holds
    BY <1>0, <1>1, <1>2, UpTo
  <2>2. Len(slots) \in Holds
    BY <1>0, <2>1
  <2> QED BY <2>2 DEF Holds
<1>4. SolvesAncestors(f, slots)
  BY <1>3 DEF AncestorsUpTo, SolvesAncestors
<1> QED BY <1>4

\* One step up.
LEMMA AncestorsUnfold ==
    ASSUME NEW slots \in Seq(BranchType), Forest(slots), NEW k \in 1 .. Len(slots)
    PROVE  AncestorsIn(slots, k) =
             IF k = 1 THEN {}
             ELSE {slots[k].parent} \cup AncestorsIn(slots, slots[k].parent)
<1> DEFINE f == CHOOSE g : SolvesAncestors(g, slots)
<1>1. SolvesAncestors(f, slots)
  BY AncestorsExist, Zenon
<1>2. \A l : AncestorsIn(slots, l) = f[l]
  BY DEF AncestorsIn, SolvesAncestors
<1> HIDE DEF f
<1>3. k \in 0 .. Len(slots) /\ k # None
  BY DEF None
<1>4. f[k] = IF k = None \/ slots[k].parent = None THEN {}
             ELSE {slots[k].parent} \cup f[slots[k].parent]
  BY <1>1, <1>3 DEF SolvesAncestors
<1>5. slots[k].parent = None <=> k = 1
  BY ParentIsBefore
<1> QED BY <1>2, <1>3, <1>4, <1>5

\* A branch that lives has living ancestors only.
LEMMA LivingHaveAncestors ==
    ASSUME NEW slots \in Seq(BranchType), Forest(slots),
           NEW held \in SUBSET DOMAIN slots, Counted(slots, held),
           NEW i \in DOMAIN slots, slots[i].alive
    PROVE  \A k \in AncestorsIn(slots, i) : k \in DOMAIN slots /\ slots[k].alive
<1> DEFINE Right(n) ==
              \A k \in AncestorsIn(slots, n) : k \in DOMAIN slots /\ slots[k].alive
           Bad == {n \in DOMAIN slots : slots[n].alive /\ ~Right(n)}
<1>0. Len(slots) \in Nat /\ DOMAIN slots = 1 .. Len(slots)
  OBVIOUS
<1>1. ASSUME Bad # {} PROVE FALSE
  <2>1. PICK n \in Bad : \A l \in Bad : n <= l
    <3>1. Bad \in SUBSET Nat
      BY <1>0
    <3> HIDE DEF Bad
    <3> QED BY <1>1, <3>1, LeastNumber
  <2>2. n \in 1 .. Len(slots) /\ slots[n].alive /\ ~Right(n)
    BY <1>0, <2>1
  <2> DEFINE p == slots[n].parent
  <2>3. CASE n = 1
    <3>1. AncestorsIn(slots, n) = {}
      BY <2>2, <2>3, AncestorsUnfold
    <3> QED BY <2>2, <3>1
  <2>4. CASE n # 1
    <3>1. p \in 0 .. n - 1 /\ p \in 1 .. Len(slots)
      BY <2>2, <2>4, ParentIsBefore
    <3>2. AncestorsIn(slots, n) = {p} \cup AncestorsIn(slots, p)
      BY <2>2, <2>4, AncestorsUnfold
    <3>3. n \in LivingChildren(slots, p)
      BY <1>0, <2>2 DEF LivingChildren, ChildrenOf
    <3>4. p \in DOMAIN slots /\ slots[p].alive
      BY <1>0, <3>1, <3>3 DEF Counted
    <3>5. p \notin Bad
      BY <1>0, <2>1, <2>2, <3>1
    <3>6. Right(p)
      BY <3>4, <3>5
    <3> QED BY <2>2, <3>2, <3>4, <3>6
  <2> QED BY <2>3, <2>4
<1> QED BY <1>1

\* The parent of an ancestor is an ancestor.
LEMMA AncestorsAreClosed ==
    ASSUME NEW slots \in Seq(BranchType), Forest(slots),
           NEW h \in DOMAIN slots, NEW c \in DOMAIN slots, c # 1,
           c \in {h} \cup AncestorsIn(slots, h)
    PROVE  slots[c].parent \in AncestorsIn(slots, h)
<1> DEFINE p == slots[c].parent
           Bad == {n \in DOMAIN slots : /\ c \in {n} \cup AncestorsIn(slots, n)
                                        /\ p \notin AncestorsIn(slots, n)}
<1>0. Len(slots) \in Nat /\ DOMAIN slots = 1 .. Len(slots)
  OBVIOUS
<1>1. ASSUME Bad # {} PROVE FALSE
  <2>1. PICK n \in Bad : \A l \in Bad : n <= l
    <3>1. Bad \in SUBSET Nat
      BY <1>0
    <3> HIDE DEF Bad
    <3> QED BY <1>1, <3>1, LeastNumber
  <2>2. /\ n \in 1 .. Len(slots) /\ c \in {n} \cup AncestorsIn(slots, n)
        /\ p \notin AncestorsIn(slots, n)
    BY <1>0, <2>1
  <2> DEFINE q == slots[n].parent
  <2>3. n # 1
    <3>1. n = 1 => AncestorsIn(slots, n) = {}
      BY <2>2, AncestorsUnfold
    <3> QED BY <2>2, <3>1
  <2>4. AncestorsIn(slots, n) = {q} \cup AncestorsIn(slots, q)
    BY <2>2, <2>3, AncestorsUnfold
  <2>5. c # n
    BY <2>2, <2>4
  <2>6. c \in {q} \cup AncestorsIn(slots, q) /\ p \notin AncestorsIn(slots, q)
    BY <2>2, <2>4, <2>5
  <2>7. q \in DOMAIN slots /\ ~(n <= q)
    <3>1. q \in 0 .. n - 1 /\ q \in 1 .. Len(slots) /\ n \in Nat
      BY <2>2, <2>3, ParentIsBefore
    <3> HIDE DEF q
    <3> QED BY <1>0, <3>1
  <2> HIDE DEF q, p
  <2>8. q \in Bad
    BY <2>6, <2>7
  <2> QED BY <2>1, <2>7, <2>8
<1>2. h \notin Bad
  BY <1>1
<1> QED BY <1>2

\* A branch that lives is held or has a descendant that is: look at the last
\* branch that is not.
LEMMA LivingAreHeld ==
    ASSUME NEW slots \in Seq(BranchType), Forest(slots),
           NEW held \in SUBSET DOMAIN slots, Counted(slots, held),
           NEW i \in DOMAIN slots, slots[i].alive
    PROVE  \E h \in held : i \in {h} \cup AncestorsIn(slots, h)
<1> DEFINE Right(n) == \E h \in held : n \in {h} \cup AncestorsIn(slots, h)
           Bad == {n \in DOMAIN slots : slots[n].alive /\ ~Right(n)}
           Distance == {Len(slots) - n : n \in Bad}
<1>0. Len(slots) \in Nat /\ DOMAIN slots = 1 .. Len(slots)
  OBVIOUS
<1>1. ASSUME Bad # {} PROVE FALSE
  <2>1. PICK d \in Distance : \A l \in Distance : d <= l
    <3>1. Distance \in SUBSET Nat /\ Distance # {}
      BY <1>0, <1>1
    <3> HIDE DEF Distance
    <3> QED BY <3>1, LeastNumber
  <2>2. PICK n \in Bad : d = Len(slots) - n
    BY <2>1
  <2>3. n \in DOMAIN slots /\ slots[n].alive /\ ~Right(n)
    BY <2>2
  <2>4. n \notin held
    BY <2>3
  <2>5. PICK c \in LivingChildren(slots, n) : TRUE
    BY <2>3, <2>4 DEF Counted
  <2>6. c \in 1 .. Len(slots) /\ slots[c].parent = n /\ slots[c].alive
    BY <1>0, <2>5 DEF LivingChildren, ChildrenOf
  <2>7. c # 1 /\ n < c
    <3>1. n # None /\ n \in Nat
      BY <1>0, <2>3 DEF None
    <3>2. slots[c].parent \in 0 .. c - 1 /\ (c = 1 => slots[c].parent = None)
      BY <2>6, ParentIsBefore
    <3> QED BY <2>6, <3>1, <3>2
  <2>8. c \notin Bad
    <3>1. c \in Bad => Len(slots) - c \in Distance
      OBVIOUS
    <3>2. n \in Nat /\ c \in Nat /\ ~(Len(slots) - n <= Len(slots) - c)
      BY <1>0, <2>3, <2>6, <2>7
    <3> HIDE DEF Bad, Distance
    <3> QED BY <2>1, <2>2, <3>1, <3>2
  <2>9. Right(c)
    BY <1>0, <2>6, <2>8
  <2>10. PICK h \in held : c \in {h} \cup AncestorsIn(slots, h)
    BY <2>9
  <2>11. n \in AncestorsIn(slots, h)
    <3>1. h \in DOMAIN slots /\ c \in DOMAIN slots
      BY <1>0, <2>6
    <3>2. slots[c].parent \in AncestorsIn(slots, h)
      BY <2>7, <2>10, <3>1, AncestorsAreClosed
    <3> QED BY <2>6, <3>2
  <2> QED BY <2>3, <2>11
<1>2. i \notin Bad
  BY <1>1
<1> QED BY <1>2

(***************************************************************************)
(* The inductive invariant.                                                *)
(***************************************************************************)
\* What of admissibility a phase check depends on.
Admitted(s, leg) ==
    \/ /\ leg.kind = "walk"
       /\ \/ s.phase = "AtOrigin" /\ leg.to \in Stops
          \/ s.phase = "AfterTimedRide"
    \/ leg.kind = "ride" /\ s.phase \notin {"AtOrigin", "Completed"}

Typing ==
    /\ job \in Batches
    /\ state \in {"prepare", "skipped", "level", "advanced", "scan", "stopped",
                  "exhausted", "failed"}
    /\ arena \in Seq(BranchType) /\ Forest(arena)
    /\ current \in Seq(Nat) /\ next \in Seq(Nat)
    /\ state \notin {"scan", "failed"} => expanding = None /\ todo = {}
    /\ state = "prepare" => arena = <<>>
    /\ state \in {"scan", "failed"} =>
        /\ expanding \in DOMAIN arena
        /\ \A leg \in todo : leg \in job.network /\ Admitted(arena[expanding], leg)

InHand == Range(current) \cup Range(next) \cup ({expanding} \ {None})

Queued ==
    /\ Distinct(current) /\ Distinct(next)
    /\ Range(current) \cap Range(next) = {}
    /\ expanding \notin Range(current) \cup Range(next)
    /\ InHand \subseteq DOMAIN arena

Counts == Counted(arena, InHand)

\* The tasks of a branch that can be reached from where it is.
Surviving(r, j, s) ==
    {u \in s.tasks : Feasible(r, j.slots[u].to, MaskKey(s))}

BranchRight(slots, i) ==
    LET s == slots[i]
    IN  /\ i = 1 => s.phase = "AtOrigin" /\ ~s.m.boarded
        /\ i # 1 => /\ s.phase # "AtOrigin" /\ PhaseInvariant(s)
                    /\ s.tasks # {} /\ s.tasks \subseteq slots[s.parent].tasks
        /\ ~s.m.boarded => s.m.nt = 0
        /\ s.tasks = Surviving(residual, job, s)

Right == \A i \in DOMAIN arena : BranchRight(arena, i)

\* Rides only lead to the next level, except the first one; so a level has
\* the branches of as many transfers, and the first one the walks before.
OfLevel(s, n) == s.m.nt = n /\ (s.m.boarded \/ n = 0)

LevelIs(n) ==
    /\ \A i \in Range(current) \cup ({expanding} \ {None}) : OfLevel(arena[i], n)
    /\ \A i \in Range(next) : arena[i].m.boarded /\ arena[i].m.nt = n + 1

Leveled == \E n \in Nat : LevelIs(n)

IInv == Typing /\ Queued /\ Counts /\ Right /\ Leveled

------------------------------------------------------------------------------
\* Legs and what they make of a branch.
LEMMA LegFields ==
    ASSUME NEW j \in Batches, NEW leg \in j.network
    PROVE  /\ leg \in Legs
           /\ \/ leg.kind = "walk" /\ leg.time \in Nat
              \/ /\ leg.kind = "ride" /\ leg.to \in Stops
                 /\ leg.dep \in Int /\ leg.arr \in Int /\ leg.fare \in Int
BY LegsAssumption DEF Legs

LEMMA ExtendTyped ==
    ASSUME NEW j \in Batches, NEW leg \in j.network, NEW m \in Travelled
    PROVE  /\ Extend(m, leg) \in Travelled
           /\ leg.kind = "walk" => /\ Extend(m, leg).boarded = m.boarded
                                   /\ Extend(m, leg).nt = m.nt
           /\ leg.kind = "ride" => /\ Extend(m, leg).boarded
                                   /\ Extend(m, leg).nt
                                        = m.nt + (IF m.boarded THEN 1 ELSE 0)
<1> DEFINE n == Extend(m, leg)
<1>0. /\ m.boarded \in BOOLEAN /\ m.dep \in Int /\ m.now \in Int
      /\ m.access \in Int /\ m.nt \in Nat /\ m.imp \in Int
  BY DEF Travelled
<1>3. \A x, y \in Int : x * y \in Int
  OBVIOUS
<1>4. WalkWeight \in Int /\ WaitWeight \in Int /\ TransferPenalty \in Int
  BY WeightsAssumption
<1>5. CASE leg.kind = "walk"
  <2>1. leg.time \in Nat /\ leg.kind # "ride"
    BY <1>5, LegFields
  <2>2. WalkWeight * leg.time \in Int
    BY <1>3, <1>4, <2>1
  <2>3. CASE ~m.boarded
    <3>1. n = [m EXCEPT !.access = @ + leg.time,
                        !.imp = @ + WalkWeight * leg.time]
      BY <1>5, <2>3 DEF Extend
    <3> HIDE DEF n
    <3>2. n = [boarded |-> FALSE, dep |-> m.dep, now |-> m.now,
               access |-> m.access + leg.time, nt |-> m.nt,
               imp |-> m.imp + WalkWeight * leg.time]
      BY <2>3, <3>1 DEF Travelled
    <3>3. n \in Travelled /\ n.boarded = m.boarded /\ n.nt = m.nt
      <4>1. n.boarded = FALSE /\ n.nt = m.nt /\ m.boarded = FALSE
        BY <1>0, <2>3, <3>2
      <4>2. n \in Travelled
        BY <1>0, <3>2, <2>1, <2>2 DEF Travelled
      <4> QED BY <4>1, <4>2
    <3> QED BY <1>5, <3>3 DEF n
  <2>4. CASE m.boarded
    <3>1. n = [m EXCEPT !.now = @ + leg.time,
                        !.imp = @ + WalkWeight * leg.time]
      BY <1>5, <2>4 DEF Extend
    <3> HIDE DEF n
    <3>2. n = [boarded |-> TRUE, dep |-> m.dep, now |-> m.now + leg.time,
               access |-> m.access, nt |-> m.nt,
               imp |-> m.imp + WalkWeight * leg.time]
      BY <2>4, <3>1 DEF Travelled
    <3>3. n \in Travelled /\ n.boarded = m.boarded /\ n.nt = m.nt
      BY <1>0, <3>2, <2>1, <2>2, <2>4 DEF Travelled
    <3> QED BY <1>5, <3>3 DEF n
  <2> QED BY <2>3, <2>4
<1>6. CASE leg.kind = "ride"
  <2>1. /\ leg.dep \in Int /\ leg.arr \in Int /\ leg.fare \in Int
        /\ leg.kind # "walk"
    BY <1>6, LegFields
  <2>3. CASE ~m.boarded
    <3>1. n = [m EXCEPT !.boarded = TRUE, !.dep = leg.dep - m.access,
                        !.now = leg.arr,
                        !.imp = @ + (leg.arr - leg.dep) + leg.fare]
      BY <1>6, <2>1, <2>3 DEF Extend
    <3> HIDE DEF n
    <3>2. n = [boarded |-> TRUE, dep |-> leg.dep - m.access, now |-> leg.arr,
               access |-> m.access, nt |-> m.nt,
               imp |-> m.imp + (leg.arr - leg.dep) + leg.fare]
      BY <2>3, <3>1 DEF Travelled
    <3>3. n \in Travelled /\ n.boarded /\ n.nt = m.nt
      BY <1>0, <3>2, <2>1, <2>3 DEF Travelled
    <3>4. n.nt = m.nt + 0
      BY <1>0, <3>3
    <3> QED BY <1>6, <2>1, <2>3, <3>3, <3>4 DEF n
  <2>4. CASE m.boarded
    <3>1. n = [m EXCEPT !.now = leg.arr, !.nt = @ + 1,
                        !.imp = @ + WaitWeight * (leg.dep - m.now)
                                  + TransferPenalty
                                  + (leg.arr - leg.dep) + leg.fare]
      BY <1>6, <2>1, <2>4 DEF Extend
    <3>3. WaitWeight * (leg.dep - m.now) \in Int
      <4>1. leg.dep - m.now \in Int
        BY <1>0, <2>1
      <4> QED BY <1>3, <1>4, <4>1
    <3> HIDE DEF n
    <3>5. n = [boarded |-> TRUE, dep |-> m.dep, now |-> leg.arr,
               access |-> m.access, nt |-> m.nt + 1,
               imp |-> m.imp + WaitWeight * (leg.dep - m.now)
                         + TransferPenalty
                         + (leg.arr - leg.dep) + leg.fare]
      BY <2>4, <3>1 DEF Travelled
    <3>6. n \in Travelled /\ n.boarded /\ n.nt = m.nt + 1
      BY <1>0, <3>5, <1>4, <2>1, <2>4, <3>3 DEF Travelled
    <3> QED BY <1>6, <2>1, <2>4, <3>6 DEF n
  <2> QED BY <2>3, <2>4
<1> QED BY <1>5, <1>6, LegFields

\* Whatever is admitted passes the phase check.
LEMMA CandidateIsRight ==
    ASSUME Typing, Right, state = "scan", NEW leg \in todo
    PROVE  /\ leg \in job.network /\ arena[expanding] \in BranchType
           /\ Candidate(leg).node = leg.to
           /\ Candidate(leg).parent = expanding
           /\ Candidate(leg).m = Extend(arena[expanding].m, leg)
           /\ Candidate(leg).m \in Travelled
           /\ Candidate(leg).phase \in Phases \ {"AtOrigin"}
           /\ PhaseInvariant(Candidate(leg))
           /\ ~Candidate(leg).m.boarded => Candidate(leg).m.nt = 0
<1> DEFINE b == Candidate(leg)
           s == arena[expanding]
<1>1. /\ leg \in job.network /\ job \in Batches /\ Admitted(s, leg)
      /\ expanding \in DOMAIN arena /\ s \in BranchType
  BY DEF Typing
<1>2. s.m \in Travelled /\ s.phase \in Phases /\ s.m.boarded \in BOOLEAN
  BY <1>1 DEF BranchType, Travelled
<1>3. /\ b.node = leg.to /\ b.parent = expanding /\ b.m = Extend(s.m, leg)
      /\ b.phase = NextPhase(Branch(expanding), leg)
  BY DEF Candidate, Branch
<1>4. Branch(expanding).phase = s.phase
  BY DEF Branch
<1>5. /\ Extend(s.m, leg) \in Travelled
      /\ leg.kind = "walk" => /\ Extend(s.m, leg).boarded = s.m.boarded
                              /\ Extend(s.m, leg).nt = s.m.nt
      /\ leg.kind = "ride" => /\ Extend(s.m, leg).boarded
  BY <1>1, <1>2, ExtendTyped
<1>6. /\ s.phase = "AtOrigin" => ~s.m.boarded
      /\ s.phase = "AfterTimedRide" => s.m.boarded
      /\ ~s.m.boarded => s.m.nt = 0
  <2>1. BranchRight(arena, expanding)
    BY <1>1 DEF Right
  <2>2. expanding = 1 => s.phase = "AtOrigin" /\ ~s.m.boarded
    BY <2>1 DEF BranchRight
  <2>3. expanding # 1 => s.phase # "AtOrigin" /\ PhaseInvariant(s)
    BY <2>1 DEF BranchRight
  <2>4. ~s.m.boarded => s.m.nt = 0
    BY <2>1 DEF BranchRight
  <2> QED BY <2>2, <2>3, <2>4 DEF PhaseInvariant
<1>7. expanding # None
  BY <1>1 DEF Typing, None
<1> HIDE DEF b, s
<1>8. CASE leg.kind = "walk" /\ s.phase = "AtOrigin" /\ leg.to \in Stops
  <2>1. b.phase = "BeforeFirstBoarding"
    BY <1>3, <1>4, <1>8 DEF NextPhase
  <2>2. PhaseInvariant(b)
    BY <1>3, <1>5, <1>6, <1>7, <1>8, <2>1 DEF PhaseInvariant
  <2> QED BY <1>1, <1>3, <1>5, <1>6, <1>8, <2>1, <2>2 DEF Phases, b, s
<1>9. CASE leg.kind = "walk" /\ s.phase = "AfterTimedRide" /\ leg.to \notin Stops
  <2>1. b.phase = "Completed"
    BY <1>3, <1>4, <1>9 DEF NextPhase
  <2>2. PhaseInvariant(b)
    BY <1>3, <1>5, <1>6, <1>7, <1>9, <2>1 DEF PhaseInvariant
  <2> QED BY <1>1, <1>3, <1>5, <1>6, <1>9, <2>1, <2>2 DEF Phases, b, s
<1>10. CASE leg.kind = "walk" /\ s.phase = "AfterTimedRide" /\ leg.to \in Stops
  <2>1. b.phase = "AfterTransferWalk"
    BY <1>3, <1>4, <1>10 DEF NextPhase
  <2>2. PhaseInvariant(b)
    BY <1>3, <1>5, <1>6, <1>7, <1>10, <2>1 DEF PhaseInvariant
  <2> QED BY <1>1, <1>3, <1>5, <1>6, <1>10, <2>1, <2>2 DEF Phases, b, s
<1>11. CASE leg.kind = "ride" /\ s.phase \notin {"AtOrigin", "Completed"}
  <2>1. b.phase = "AfterTimedRide" /\ leg.to \in Stops
    BY <1>1, <1>3, <1>4, <1>11, LegFields DEF NextPhase
  <2>2. PhaseInvariant(b)
    BY <1>3, <1>5, <1>6, <1>7, <1>11, <2>1 DEF PhaseInvariant
  <2> QED BY <1>1, <1>3, <1>5, <1>6, <1>11, <2>1, <2>2 DEF Phases, b, s
<1> QED BY <1>1, <1>8, <1>9, <1>10, <1>11 DEF Admitted

------------------------------------------------------------------------------
\* What a branch of the arena is.
LEMMA BranchFields ==
    ASSUME Typing, NEW i \in DOMAIN arena
    PROVE  /\ arena[i] \in BranchType /\ i \in Nat /\ i \in 1 .. Len(arena)
           /\ i # 1 => /\ arena[i].parent \in DOMAIN arena
                       /\ arena[i].parent # None
<1>1. arena \in Seq(BranchType) /\ Forest(arena)
  BY DEF Typing
<1>2. /\ Len(arena) \in Nat /\ DOMAIN arena = 1 .. Len(arena)
      /\ arena[i] \in BranchType
  BY <1>1
<1>3. i \in 1 .. Len(arena) /\ i \in Nat
  BY <1>2
<1>4. i # 1 => arena[i].parent \in 1 .. Len(arena) /\ arena[i].parent # None
  BY <1>1, <1>3, ParentIsBefore
<1> QED BY <1>2, <1>3, <1>4

\* Only what a branch counts has changed.
SameArena ==
    /\ job' = job /\ residual' = residual
    /\ arena' \in Seq(BranchType) /\ Forest(arena')
    /\ DOMAIN arena' = DOMAIN arena
    /\ \A k \in DOMAIN arena : SameBranch(arena[k], arena'[k])

LEMMA ArenaUnchanged ==
    ASSUME Typing, UNCHANGED <<job, residual, arena>>
    PROVE  SameArena
BY DEF Typing, SameArena, SameBranch

LEMMA BranchRightKept ==
    ASSUME NEW i, BranchRight(arena, i), job' = job, residual' = residual,
           SameBranch(arena[i], arena'[i]),
           i # 1 => SameBranch(arena[arena[i].parent], arena'[arena[i].parent])
    PROVE  BranchRight(arena, i)'
<1> DEFINE s == arena[i]
           t == arena'[i]
<1>1. s.tasks = Surviving(residual, job, s)
  BY DEF BranchRight
<1>2. MaskKey(t) = MaskKey(s) /\ t.tasks = s.tasks
  BY DEF SameBranch, MaskKey
<1>3. Surviving(residual, job, t) = Surviving(residual, job, s)
  BY <1>2 DEF Surviving
<1>4. t.tasks = Surviving(residual', job', t)
  BY <1>1, <1>2, <1>3
<1>5. i = 1 => t.phase = "AtOrigin" /\ ~t.m.boarded
  BY DEF BranchRight, SameBranch
<1>6. i # 1 => /\ t.phase # "AtOrigin" /\ PhaseInvariant(t)
               /\ t.tasks # {} /\ t.tasks \subseteq arena'[t.parent].tasks
  <2> SUFFICES ASSUME i # 1
               PROVE  /\ t.phase # "AtOrigin" /\ PhaseInvariant(t)
                      /\ t.tasks # {} /\ t.tasks \subseteq arena'[t.parent].tasks
    OBVIOUS
  <2>1. /\ s.phase # "AtOrigin" /\ PhaseInvariant(s)
        /\ s.tasks # {} /\ s.tasks \subseteq arena[s.parent].tasks
    BY DEF BranchRight
  <2>2. PhaseInvariant(t)
    BY <2>1 DEF SameBranch, PhaseInvariant
  <2> QED BY <2>1, <2>2 DEF SameBranch
<1>7. ~t.m.boarded => t.m.nt = 0
  BY DEF BranchRight, SameBranch
<1> QED BY <1>4, <1>5, <1>6, <1>7 DEF BranchRight

LEMMA RightKept ==
    ASSUME Typing, Right, SameArena
    PROVE  Right'
<1>1. ASSUME NEW i \in DOMAIN arena
      PROVE  BranchRight(arena, i)'
  <2>1. BranchRight(arena, i)
    BY DEF Right
  <2>2. /\ SameBranch(arena[i], arena'[i])
        /\ job' = job /\ residual' = residual
    BY DEF SameArena
  <2>3. i # 1 => SameBranch(arena[arena[i].parent], arena'[arena[i].parent])
    BY BranchFields DEF SameArena
  <2> QED BY <2>1, <2>2, <2>3, BranchRightKept
<1> QED BY <1>1 DEF Right, SameArena

\* A queue or a branch in hand that was there before is of its level still.
LEMMA OfLevelKept ==
    ASSUME SameArena, NEW i \in DOMAIN arena, NEW n
    PROVE  /\ OfLevel(arena'[i], n) <=> OfLevel(arena[i], n)
           /\ arena'[i].m = arena[i].m
BY DEF SameArena, SameBranch, OfLevel

LEMMA LeveledKept ==
    ASSUME SameArena, Queued, Leveled,
           Range(current') \cup ({expanding'} \ {None})
             \subseteq Range(current) \cup ({expanding} \ {None}),
           Range(next') \subseteq Range(next)
    PROVE  Leveled'
<1>1. PICK n \in Nat : LevelIs(n)
  BY DEF Leveled
<1>2. LevelIs(n)'
  <2>1. ASSUME NEW i \in Range(current') \cup ({expanding'} \ {None})
        PROVE  OfLevel(arena'[i], n)
    <3>1. OfLevel(arena[i], n) /\ i \in DOMAIN arena
      BY <1>1 DEF LevelIs, Queued, InHand
    <3> QED BY <3>1, OfLevelKept
  <2>2. ASSUME NEW i \in Range(next')
        PROVE  arena'[i].m.boarded /\ arena'[i].m.nt = n + 1
    <3>1. arena[i].m.boarded /\ arena[i].m.nt = n + 1 /\ i \in DOMAIN arena
      BY <1>1 DEF LevelIs, Queued, InHand
    <3> QED BY <3>1, OfLevelKept
  <2> QED BY <2>1, <2>2 DEF LevelIs
<1> QED BY <1>2 DEF Leveled

------------------------------------------------------------------------------
\* Steps that leave the arena and the layers as they are: cancellation, a
\* stop, a candidate turned down or completed, and no step at all.
Resting ==
    /\ UNCHANGED <<job, residual, arena, current, next, expanding>>
    /\ todo' \subseteq todo
    /\ \/ state' = state
       \/ /\ state \notin {"scan", "failed"}
          /\ state' \in {"skipped", "stopped", "exhausted"}
       \/ state = "scan" /\ state' = "failed"

LEMMA RestingKeeps ==
    ASSUME IInv, Resting
    PROVE  IInv'
<1>1. SameArena
  BY ArenaUnchanged DEF IInv, Resting
<1>2. Typing'
  <2>1. state \notin {"scan", "failed"} => todo' = {}
    BY DEF IInv, Typing, Resting
  <2> QED BY <2>1 DEF IInv, Typing, Resting
<1>3. InHand' = InHand
  BY DEF Resting, InHand
<1>4. Queued'
  BY <1>3 DEF IInv, Queued, Resting
<1>5. Counts'
  BY <1>3 DEF IInv, Counts, Resting
<1>6. Right'
  BY <1>1, RightKept DEF IInv
<1>7. Leveled'
  BY <1>1, LeveledKept DEF IInv, Resting
<1> QED BY <1>2, <1>4, <1>5, <1>6, <1>7 DEF IInv

LEMMA AdvanceKeeps ==
    ASSUME IInv, AdvanceLevel
    PROVE  IInv'
<1>1. /\ state = "level" /\ current = <<>> /\ state' = "advanced"
      /\ current' = next /\ next' = <<>>
      /\ UNCHANGED <<job, residual, arena, expanding, todo>>
  BY DEF AdvanceLevel
<1>2. SameArena
  BY <1>1, ArenaUnchanged DEF IInv
<1>3. Range(<<>>) = {} /\ Distinct(<<>>) /\ <<>> \in Seq(Nat)
  BY DEF Range, Distinct
<1>4. expanding = None
  BY <1>1 DEF IInv, Typing
<1>5. Typing'
  BY <1>1, <1>3 DEF IInv, Typing
<1>6. InHand' = InHand
  BY <1>1, <1>3 DEF InHand
<1>7. Queued'
  BY <1>1, <1>3, <1>6 DEF IInv, Queued
<1>8. Counts'
  BY <1>1, <1>6 DEF IInv, Counts
<1>9. Right'
  BY <1>2, RightKept DEF IInv
<1>10. Leveled'
  <2>1. PICK n \in Nat : LevelIs(n)
    BY DEF IInv, Leveled
  <2>2. n + 1 \in Nat
    OBVIOUS
  <2>3. LevelIs(n + 1)'
    <3>1. ASSUME NEW i \in Range(next)
          PROVE  OfLevel(arena[i], n + 1)
      BY <2>1 DEF LevelIs, OfLevel
    <3> QED BY <1>1, <1>3, <1>4, <3>1 DEF LevelIs
  <2> QED BY <2>2, <2>3 DEF Leveled
<1> QED BY <1>5, <1>7, <1>8, <1>9, <1>10 DEF IInv

------------------------------------------------------------------------------
\* A branch is let go.
LEMMA ReleaseRight ==
    ASSUME IInv, NEW i \in InHand, arena' = Release(arena, i),
           job' = job, residual' = residual
    PROVE  /\ SameArena
           /\ Counted(arena', InHand \ {i})
<1>1. /\ arena \in Seq(BranchType) /\ Forest(arena)
      /\ InHand \in SUBSET DOMAIN arena /\ Counted(arena, InHand)
  BY DEF IInv, Typing, Queued, Counts
<1> DEFINE held == InHand
<1> HIDE DEF held
<1>2. i \in held
  BY DEF held
<1>3. /\ Release(arena, i) \in Seq(BranchType)
      /\ Len(Release(arena, i)) = Len(arena)
      /\ Forest(Release(arena, i))
      /\ Counted(Release(arena, i), held \ {i})
      /\ \A k \in DOMAIN arena : SameBranch(arena[k], Release(arena, i)[k])
  BY <1>1, <1>2, ReleaseKeeps DEF held
<1>4. DOMAIN Release(arena, i) = DOMAIN arena
  BY <1>1, <1>3
<1> QED BY <1>3, <1>4 DEF SameArena, held

LEMMA FinishKeeps ==
    ASSUME IInv, FinishExpansion
    PROVE  IInv'
<1>1. /\ state = "scan" /\ arena' = Release(arena, expanding)
      /\ expanding' = None /\ todo' = {}
      /\ state' \in {"level", "stopped"}
      /\ UNCHANGED <<job, residual, current, next>>
  BY DEF FinishExpansion
<1>2. expanding \in DOMAIN arena /\ expanding # None /\ expanding \in InHand
  BY <1>1 DEF IInv, Typing, None, InHand
<1>3. SameArena /\ Counted(arena', InHand \ {expanding})
  BY <1>1, <1>2, ReleaseRight
<1>4. InHand' = InHand \ {expanding}
  <2>1. expanding \notin Range(current) \cup Range(next)
    BY DEF IInv, Queued
  <2> QED BY <1>1, <1>2, <2>1 DEF InHand
<1>5. Typing'
  <2>1. arena' \in Seq(BranchType) /\ Forest(arena')
    BY <1>3 DEF SameArena
  <2> QED BY <1>1, <2>1 DEF IInv, Typing
<1>6. Queued'
  <2>1. InHand' \subseteq DOMAIN arena'
    BY <1>3, <1>4 DEF IInv, Queued, SameArena
  <2>2. None \notin Range(current) \cup Range(next)
    <3>1. Range(current) \cup Range(next) \subseteq DOMAIN arena
      BY DEF IInv, Queued, InHand
    <3>2. None \notin DOMAIN arena
      BY DEF IInv, Typing, None
    <3> QED BY <3>1, <3>2
  <2> QED BY <1>1, <2>1, <2>2 DEF IInv, Queued
<1>7. Counts'
  BY <1>3, <1>4 DEF Counts
<1>8. Right'
  BY <1>3, RightKept DEF IInv
<1>9. Leveled'
  BY <1>1, <1>3, LeveledKept DEF IInv
<1> QED BY <1>5, <1>6, <1>7, <1>8, <1>9 DEF IInv

\* The phase check refuses nothing that the search itself has made.
LEMMA OnlyCyclesAreRejected ==
    ASSUME IInv, NEW leg \in todo, RejectStep(leg)
    PROVE  Cycles(leg) /\ state' = state
<1>1. /\ state = "scan"
      /\ Cycles(leg) \/ Invalid(leg)
      /\ state' = IF Cycles(leg) THEN state ELSE "failed"
  BY DEF RejectStep, Visiting
<1>2. PhaseInvariant(Candidate(leg))
  BY <1>1, CandidateIsRight DEF IInv
<1> QED BY <1>1, <1>2 DEF Invalid

LEMMA RestKeeps ==
    ASSUME IInv,
           \/ Cancel \/ Stop \/ Exhaust \/ UNCHANGED tree_vars
           \/ \E leg \in todo : RejectStep(leg) \/ CompleteStep(leg)
    PROVE  IInv'
<1>1. CASE Cancel
  <2>1. Resting
    BY <1>1 DEF Cancel, Resting
  <2> QED BY <2>1, RestingKeeps
<1>2. CASE Stop
  <2>1. Resting
    BY <1>2 DEF Stop, Resting
  <2> QED BY <2>1, RestingKeeps
<1>3. CASE Exhaust
  <2>1. Resting
    BY <1>3 DEF Exhaust, Resting
  <2> QED BY <2>1, RestingKeeps
<1>4. CASE UNCHANGED tree_vars
  <2>1. Resting
    BY <1>4 DEF tree_vars, Resting
  <2> QED BY <2>1, RestingKeeps
<1>5. ASSUME NEW leg \in todo, RejectStep(leg)
      PROVE  IInv'
  <2>1. /\ todo' = todo \ {leg}
        /\ UNCHANGED <<job, residual, arena, current, next, expanding>>
    BY <1>5 DEF RejectStep, Visiting
  <2>2. state' = state
    BY <1>5, OnlyCyclesAreRejected
  <2>3. Resting
    BY <2>1, <2>2 DEF Resting
  <2> QED BY <2>3, RestingKeeps
<1>6. ASSUME NEW leg \in todo, CompleteStep(leg)
      PROVE  IInv'
  <2>1. Resting
    BY <1>6 DEF CompleteStep, Visiting, Resting
  <2> QED BY <2>1, RestingKeeps
<1> QED BY <1>1, <1>2, <1>3, <1>4, <1>5, <1>6

\* A branch is taken from the queue: dropped, or its successors are to be
\* tried, each of them admitted in its phase.
LEMMA PopKeeps ==
    ASSUME IInv, Pop
    PROVE  IInv'
<1> DEFINE i == Head(current)
<1>1. /\ state \in {"advanced", "level"} /\ current # <<>>
      /\ current' = Tail(current)
      /\ UNCHANGED <<job, residual, next>>
      /\ \/ /\ state' = "level" /\ arena' = Release(arena, i)
            /\ UNCHANGED <<expanding, todo>>
         \/ /\ state' = "scan" /\ expanding' = i /\ todo' = Successors(i)
            /\ UNCHANGED arena
  BY DEF Pop
<1>2. current \in Seq(Nat) /\ Distinct(current) /\ expanding = None /\ todo = {}
  BY <1>1 DEF IInv, Typing, Queued
<1>3. /\ current' \in Seq(Nat) /\ Distinct(current')
      /\ i \in Range(current) /\ Range(current') = Range(current) \ {i}
  BY <1>1, <1>2, TailFacts
<1> HIDE DEF i
<1>4. i \in InHand /\ i \in DOMAIN arena /\ i # None /\ None \notin DOMAIN arena
  <2>1. i \in InHand /\ InHand \subseteq DOMAIN arena
    BY <1>3 DEF InHand, IInv, Queued
  <2>2. None \notin DOMAIN arena
    BY DEF IInv, Typing, None
  <2> QED BY <2>1, <2>2
<1>5. i \notin Range(next)
  BY <1>3 DEF IInv, Queued
<1>6. CASE /\ state' = "level" /\ arena' = Release(arena, i)
           /\ UNCHANGED <<expanding, todo>>
  <2>1. SameArena /\ Counted(arena', InHand \ {i})
    BY <1>1, <1>4, <1>6, ReleaseRight
  <2>2. InHand' = InHand \ {i}
    BY <1>1, <1>2, <1>3, <1>5, <1>6 DEF InHand
  <2>3. Typing'
    <3>1. arena' \in Seq(BranchType) /\ Forest(arena')
      BY <2>1 DEF SameArena
    <3> QED BY <1>1, <1>2, <1>3, <1>6, <3>1 DEF IInv, Typing
  <2>4. Queued'
    <3>1. InHand' \subseteq DOMAIN arena'
      BY <2>1, <2>2 DEF IInv, Queued, SameArena
    <3> QED BY <1>1, <1>3, <1>6, <3>1 DEF IInv, Queued
  <2>5. Counts'
    BY <2>1, <2>2 DEF Counts
  <2>6. Right'
    BY <2>1, RightKept DEF IInv
  <2>7. Leveled'
    BY <1>1, <1>3, <1>6, <2>1, LeveledKept DEF IInv
  <2> QED BY <2>3, <2>4, <2>5, <2>6, <2>7 DEF IInv
<1>7. CASE /\ state' = "scan" /\ expanding' = i /\ todo' = Successors(i)
           /\ UNCHANGED arena
  <2>1. SameArena
    BY <1>1, <1>7, ArenaUnchanged DEF IInv
  <2>2. InHand' = InHand
    BY <1>1, <1>2, <1>3, <1>4, <1>7 DEF InHand
  <2>3. ASSUME NEW leg \in Successors(i)
        PROVE  leg \in job.network /\ Admitted(arena[i], leg)
    BY DEF Successors, Admitted, WalkAdmitted, RideAdmitted
  <2>4. Typing'
    BY <1>1, <1>3, <1>4, <1>7, <2>3 DEF IInv, Typing
  <2>5. Queued'
    BY <1>1, <1>2, <1>3, <1>5, <1>7, <2>2 DEF IInv, Queued
  <2>6. Counts'
    BY <1>7, <2>2 DEF IInv, Counts
  <2>7. Right'
    BY <2>1, RightKept DEF IInv
  <2>8. Leveled'
    BY <1>1, <1>3, <1>7, <2>1, LeveledKept DEF IInv
  <2> QED BY <2>4, <2>5, <2>6, <2>7, <2>8 DEF IInv
<1> QED BY <1>1, <1>6, <1>7

------------------------------------------------------------------------------
\* A branch is born to the one in hand.
Offspring(b) ==
    /\ b \in BranchType
    /\ b.parent = expanding /\ b.live = 0 /\ b.self = FALSE /\ b.alive = TRUE
    /\ b.phase # "AtOrigin" /\ PhaseInvariant(b)
    /\ b.tasks # {} /\ b.tasks \subseteq arena[expanding].tasks
    /\ ~b.m.boarded => b.m.nt = 0
    /\ b.tasks = Surviving(residual, job, b)

LEMMA BirthIsRight ==
    ASSUME IInv, state = "scan", NEW b, Offspring(b), arena' = Born(arena, b),
           UNCHANGED <<job, residual, state, expanding>>,
           todo' \subseteq todo
    PROVE  /\ arena' \in Seq(BranchType) /\ Forest(arena')
           /\ Len(arena') = Len(arena) + 1
           /\ DOMAIN arena' = DOMAIN arena \cup {Len(arena) + 1}
           /\ Len(arena) + 1 \notin DOMAIN arena /\ Len(arena) + 1 \in Nat
           /\ Counted(arena', InHand \cup {Len(arena) + 1})
           /\ arena'[Len(arena) + 1] = b
           /\ \A k \in DOMAIN arena : SameBranch(arena[k], arena'[k])
           /\ Right'
<1> DEFINE n == Len(arena) + 1
           held == InHand
<1>1. /\ arena \in Seq(BranchType) /\ Forest(arena)
      /\ InHand \in SUBSET DOMAIN arena /\ Counted(arena, InHand)
      /\ expanding \in DOMAIN arena /\ expanding # None /\ expanding \in InHand
  BY DEF IInv, Typing, Queued, Counts, InHand, None
<1>2. /\ b \in BranchType /\ b.parent = expanding
      /\ b.live = 0 /\ ~b.self /\ b.alive
  BY DEF Offspring
<1> HIDE DEF held
<1>3. b.parent \in held /\ held \in SUBSET DOMAIN arena /\ Counted(arena, held)
  BY <1>1, <1>2 DEF held
<1>4. /\ Born(arena, b) \in Seq(BranchType)
      /\ Len(Born(arena, b)) = Len(arena) + 1
      /\ Forest(Born(arena, b))
      /\ Counted(Born(arena, b), held \cup {Len(arena) + 1})
      /\ Born(arena, b)[Len(arena) + 1] = b
      /\ \A k \in DOMAIN arena : SameBranch(arena[k], Born(arena, b)[k])
  BY <1>1, <1>2, <1>3, BirthKeeps
<1>5. /\ Len(arena) \in Nat /\ DOMAIN arena = 1 .. Len(arena)
      /\ n \notin 1 .. Len(arena) /\ n \in Nat /\ n # 1
  <2>1. Len(arena) \in Nat /\ DOMAIN arena = 1 .. Len(arena)
    BY <1>1
  <2> QED BY <1>1, <2>1
<1>6. DOMAIN arena' = DOMAIN arena \cup {n}
  <2>1. DOMAIN arena' = 1 .. n
    BY <1>4
  <2> QED BY <1>5, <2>1
<1>7. Right'
  <2>1. ASSUME NEW i \in DOMAIN arena' PROVE BranchRight(arena, i)'
    <3>1. CASE i \in DOMAIN arena
      <4>1. BranchRight(arena, i) /\ SameBranch(arena[i], arena'[i])
        BY <1>4, <3>1 DEF IInv, Right
      <4>2. i # 1 => SameBranch(arena[arena[i].parent], arena'[arena[i].parent])
        BY <1>4, <3>1, BranchFields DEF IInv
      <4> QED BY <4>1, <4>2, BranchRightKept
    <3>2. CASE i = n
      <4>1. arena'[i] = b /\ i # 1
        BY <1>4, <1>5, <3>2
      <4>2. arena'[expanding].tasks = arena[expanding].tasks
        BY <1>1, <1>4 DEF SameBranch
      <4> QED BY <4>1, <4>2 DEF BranchRight, Offspring
    <3> QED BY <1>6, <3>1, <3>2
  <2> QED BY <2>1 DEF Right
<1> QED BY <1>4, <1>5, <1>6, <1>7 DEF held

LEMMA BirthIsCounted ==
    ASSUME IInv, state = "scan", NEW b, Offspring(b), arena' = Born(arena, b),
           UNCHANGED <<job, residual, state, expanding>>,
           todo' \subseteq todo,
           \/ current' = Append(current, Len(arena')) /\ next' = next
           \/ current' = current /\ next' = Append(next, Len(arena'))
    PROVE  Typing' /\ Queued' /\ Counts'
<1> DEFINE n == Len(arena) + 1
<1>1. /\ arena' \in Seq(BranchType) /\ Forest(arena')
      /\ Len(arena') = n
      /\ DOMAIN arena' = DOMAIN arena \cup {n}
      /\ n \notin DOMAIN arena /\ n \in Nat
      /\ Counted(arena', InHand \cup {n})
      /\ \A k \in DOMAIN arena : SameBranch(arena[k], arena'[k])
  BY BirthIsRight
<1> HIDE DEF n
<1>2. /\ current \in Seq(Nat) /\ next \in Seq(Nat)
      /\ Distinct(current) /\ Distinct(next)
      /\ InHand \subseteq DOMAIN arena
      /\ expanding \in DOMAIN arena /\ expanding # None
  BY DEF IInv, Typing, Queued, None
<1>3. n \notin Range(current) /\ n \notin Range(next) /\ n # expanding
  BY <1>1, <1>2 DEF InHand
<1>4. /\ current' \in Seq(Nat) /\ next' \in Seq(Nat)
      /\ Distinct(current') /\ Distinct(next')
      /\ \/ Range(current') = Range(current) \cup {n} /\ next' = next
         \/ current' = current /\ Range(next') = Range(next) \cup {n}
  <2>1. CASE current' = Append(current, n) /\ next' = next
    BY <1>1, <1>2, <1>3, <2>1, AppendFacts
  <2>2. CASE current' = current /\ next' = Append(next, n)
    BY <1>1, <1>2, <1>3, <2>2, AppendFacts
  <2> QED BY <1>1, <2>1, <2>2
<1>5. InHand' = InHand \cup {n}
  BY <1>4 DEF InHand
<1>6. Typing'
  <2>1. ASSUME NEW leg \in todo'
        PROVE  leg \in job.network /\ Admitted(arena'[expanding], leg)
    <3>1. leg \in job.network /\ Admitted(arena[expanding], leg)
      BY DEF IInv, Typing
    <3>2. arena'[expanding].phase = arena[expanding].phase
      BY <1>1, <1>2 DEF SameBranch
    <3> QED BY <3>1, <3>2 DEF Admitted
  <2> QED BY <1>1, <1>2, <1>4, <2>1 DEF IInv, Typing
<1>7. Queued'
  <2>1. Range(current') \cap Range(next') = {}
    BY <1>3, <1>4 DEF IInv, Queued
  <2>2. expanding' \notin Range(current') \cup Range(next')
    BY <1>3, <1>4 DEF IInv, Queued
  <2>3. InHand' \subseteq DOMAIN arena'
    BY <1>1, <1>2, <1>5
  <2> QED BY <1>4, <2>1, <2>2, <2>3 DEF Queued
<1>8. Counts'
  BY <1>1, <1>5 DEF Counts
<1> QED BY <1>6, <1>7, <1>8

\* It is queued in the level of its transfers.
LEMMA BirthIsLeveled ==
    ASSUME IInv, state = "scan", NEW b, Offspring(b), arena' = Born(arena, b),
           UNCHANGED <<job, residual, state, expanding>>,
           todo' \subseteq todo,
           \/ /\ current' = Append(current, Len(arena')) /\ next' = next
              /\ b.m.nt = arena[expanding].m.nt
              /\ arena[expanding].m.boarded => b.m.boarded
           \/ /\ current' = current /\ next' = Append(next, Len(arena'))
              /\ b.m.boarded /\ b.m.nt = arena[expanding].m.nt + 1
    PROVE  Leveled'
<1> DEFINE n == Len(arena) + 1
<1>1. /\ Len(arena') = n /\ n \in Nat
      /\ arena'[n] = b
      /\ \A k \in DOMAIN arena : SameBranch(arena[k], arena'[k])
  BY BirthIsRight
<1> HIDE DEF n
<1>2. /\ current \in Seq(Nat) /\ next \in Seq(Nat)
      /\ InHand \subseteq DOMAIN arena
      /\ expanding \in DOMAIN arena /\ expanding # None
  BY DEF IInv, Typing, Queued, None
<1>3. PICK l \in Nat : LevelIs(l)
  BY DEF IInv, Leveled
<1>4. OfLevel(arena[expanding], l)
  BY <1>2, <1>3 DEF LevelIs
<1>5. ASSUME NEW i \in DOMAIN arena PROVE arena'[i].m = arena[i].m
  BY <1>1 DEF SameBranch
<1>6. ASSUME NEW i \in Range(current) \cup {expanding}
      PROVE  OfLevel(arena'[i], l)
  <2>1. i \in DOMAIN arena /\ OfLevel(arena[i], l)
    BY <1>2, <1>3 DEF LevelIs, InHand
  <2> QED BY <1>5, <2>1 DEF OfLevel
<1>7. ASSUME NEW i \in Range(next)
      PROVE  arena'[i].m.boarded /\ arena'[i].m.nt = l + 1
  <2>1. i \in DOMAIN arena /\ arena[i].m.boarded /\ arena[i].m.nt = l + 1
    BY <1>2, <1>3 DEF LevelIs, InHand
  <2> QED BY <1>5, <2>1
<1>8. CASE /\ current' = Append(current, Len(arena')) /\ next' = next
           /\ b.m.nt = arena[expanding].m.nt
           /\ arena[expanding].m.boarded => b.m.boarded
  <2>1. Range(current') = Range(current) \cup {n}
    BY <1>1, <1>2, <1>8, AppendFacts
  <2>2. OfLevel(arena'[n], l)
    BY <1>1, <1>4, <1>8 DEF OfLevel
  <2>3. LevelIs(l)'
    BY <1>2, <1>6, <1>7, <1>8, <2>1, <2>2 DEF LevelIs
  <2> QED BY <2>3 DEF Leveled
<1>9. CASE /\ current' = current /\ next' = Append(next, Len(arena'))
           /\ b.m.boarded /\ b.m.nt = arena[expanding].m.nt + 1
  <2>1. Range(next') = Range(next) \cup {n}
    BY <1>1, <1>2, <1>9, AppendFacts
  <2>2. arena'[n].m.boarded /\ arena'[n].m.nt = l + 1
    BY <1>1, <1>4, <1>9 DEF OfLevel
  <2>3. LevelIs(l)'
    BY <1>2, <1>6, <1>7, <1>9, <2>1, <2>2 DEF LevelIs
  <2> QED BY <2>3 DEF Leveled
<1> QED BY <1>8, <1>9

\* What is queued of a candidate: tasks it can reach, of those of its parent.
OffspringOf(leg, tasks, targets) ==
    [Root EXCEPT !.leg = leg, !.parent = expanding, !.node = Candidate(leg).node,
                 !.phase = Candidate(leg).phase, !.m = Candidate(leg).m,
                 !.tasks = tasks, !.targets = targets]

Sooner(leg) == leg.kind = "walk" \/ ~arena[expanding].m.boarded

Queueing(leg, tasks, targets) ==
    /\ tasks # {} /\ tasks \subseteq ReachableTasks(Candidate(leg), arena[expanding].tasks)
    /\ targets \subseteq tasks \cup arena[expanding].targets
    /\ arena' = Appended(OffspringOf(leg, tasks, targets))
    /\ current' = IF Sooner(leg) THEN Append(current, Len(arena')) ELSE current
    /\ next' = IF Sooner(leg) THEN next ELSE Append(next, Len(arena'))

LEMMA ContinueCases ==
    ASSUME NEW leg \in todo, ContinueStep(leg)
    PROVE  /\ state = "scan" /\ todo' \subseteq todo
           /\ UNCHANGED <<job, residual, state, expanding>>
           /\ \/ UNCHANGED <<arena, current, next>>
              \/ \E tasks, targets : Queueing(leg, tasks, targets)
<1> DEFINE b == Candidate(leg)
           targets == ReachableTargets(b, arena[expanding].targets)
           hopeful == {t \in ReachableTasks(b, arena[expanding].tasks) :
                          ~Hopeless(b, t)}
           wanted == targets # {} /\ (job.scope = "tree" => Retains("tree", b))
           tasks == IF ~wanted THEN {}
                    ELSE IF job.scope = "tree" THEN hopeful
                    ELSE {t \in hopeful : Retains(t, b)}
           left == IF job.kind = "completion_target" THEN tasks ELSE targets
<1>1. /\ Visiting(leg)
      /\ UNCHANGED <<job, stopping, state, residual, expanding, kept, found>>
      /\ IF tasks = {} THEN UNCHANGED <<arena, current, next>>
         ELSE /\ arena' = Appended(OffspringOf(leg, tasks, left))
              /\ current' = IF Sooner(leg) THEN Append(current, Len(arena'))
                            ELSE current
              /\ next' = IF Sooner(leg) THEN next ELSE Append(next, Len(arena'))
  BY DEF ContinueStep, OffspringOf, Sooner
<1>2. tasks \subseteq ReachableTasks(b, arena[expanding].tasks)
  OBVIOUS
<1>3. left \subseteq tasks \cup arena[expanding].targets
  BY DEF ReachableTargets
<1>4. state = "scan" /\ todo' \subseteq todo
  BY <1>1 DEF Visiting
<1> HIDE DEF tasks, left
<1>5. tasks = {} \/ Queueing(leg, tasks, left)
  BY <1>1, <1>2, <1>3 DEF Queueing, b
<1> QED BY <1>1, <1>4, <1>5

LEMMA RootFields ==
    /\ Root \in BranchType
    /\ Root.live = 0 /\ Root.self = FALSE /\ Root.alive = TRUE
    /\ Root.parent = None /\ Root.phase = "AtOrigin" /\ Root.m.boarded = FALSE
    /\ Root.m.nt = 0
<1>1. ASSUME NEW l \in Legs \cup {Root.leg}, NEW v \in Travelled
      PROVE  [leg |-> l, parent |-> None, live |-> 0, self |-> FALSE,
              alive |-> TRUE, node |-> Origin, phase |-> "AtOrigin",
              m |-> v, tasks |-> {}, targets |-> {}] \in BranchType
  <2>1. None \in Nat /\ "AtOrigin" \in Phases /\ Origin \in Nodes
    BY DEF None, Phases, Nodes
  <2> QED BY <2>1 DEF BranchType
<1>2. [boarded |-> FALSE, dep |-> 0, now |-> 0, access |-> 0, nt |-> 0,
       imp |-> 0] \in Travelled
  BY DEF Travelled
<1>3. Root.leg = [kind |-> "none"]
  BY DEF Root
<1>4. Root \in BranchType
  BY <1>1, <1>2, <1>3 DEF Root
<1> QED BY <1>4 DEF Root

LEMMA OffspringIsRight ==
    ASSUME IInv, state = "scan", NEW leg \in todo, NEW tasks, NEW targets,
           Queueing(leg, tasks, targets)
    PROVE  /\ Offspring(OffspringOf(leg, tasks, targets))
           /\ OffspringOf(leg, tasks, targets).m = Candidate(leg).m
           /\ OffspringOf(leg, tasks, targets).parent = expanding
<1> DEFINE c == Candidate(leg)
           s == arena[expanding]
           b == OffspringOf(leg, tasks, targets)
<1>1. /\ leg \in job.network /\ job \in Batches /\ s \in BranchType
      /\ c.node = leg.to /\ c.parent = expanding /\ c.m \in Travelled
      /\ c.phase \in Phases \ {"AtOrigin"} /\ PhaseInvariant(c)
      /\ ~c.m.boarded => c.m.nt = 0
  BY CandidateIsRight DEF IInv, Typing
<1>2. /\ leg \in Legs /\ expanding \in Nat
  <2>1. expanding \in DOMAIN arena
    BY DEF IInv, Typing
  <2> QED BY <1>1, <2>1, BranchFields DEF IInv, Legs
<1>3. /\ tasks # {} /\ tasks \subseteq s.tasks
      /\ \A t \in tasks : Feasible(residual, job.slots[t].to, MaskKey(c))
      /\ targets \subseteq tasks \cup s.targets
      /\ s.tasks \subseteq Served /\ s.targets \subseteq Served
  BY <1>1 DEF Queueing, ReachableTasks, BranchType
<1> HIDE DEF c, s
<1>4. /\ b \in BranchType /\ b.parent = expanding
      /\ b.live = 0 /\ b.self = FALSE /\ b.alive = TRUE
      /\ b.node = c.node /\ b.phase = c.phase /\ b.m = c.m
      /\ b.tasks = tasks
  <2>1. leg.to \in Nodes
    BY <1>2 DEF Nodes
  <2>2. tasks \in SUBSET Served /\ targets \in SUBSET Served
    BY <1>3
  <2>3. /\ Candidate(leg).node \in Nodes
        /\ Candidate(leg).phase \in Phases /\ Candidate(leg).m \in Travelled
    BY <1>1, <2>1 DEF c
  <2>4. leg \in Legs /\ expanding \in Nat
    BY <1>2
  <2>5. OffspringOf(leg, tasks, targets) \in BranchType
    BY <2>2, <2>3, <2>4, RootFields DEF OffspringOf, BranchType
  <2>10. /\ OffspringOf(leg, tasks, targets).parent = expanding
         /\ OffspringOf(leg, tasks, targets).live = 0
         /\ OffspringOf(leg, tasks, targets).self = FALSE
         /\ OffspringOf(leg, tasks, targets).alive = TRUE
    BY RootFields DEF OffspringOf, BranchType
  <2>6. OffspringOf(leg, tasks, targets).node = Candidate(leg).node
    BY RootFields DEF OffspringOf, BranchType
  <2>7. OffspringOf(leg, tasks, targets).phase = Candidate(leg).phase
    BY RootFields DEF OffspringOf, BranchType
  <2>8. OffspringOf(leg, tasks, targets).m = Candidate(leg).m
    BY RootFields DEF OffspringOf, BranchType
  <2>9. OffspringOf(leg, tasks, targets).tasks = tasks
    BY RootFields DEF OffspringOf, BranchType
  <2> QED BY <2>5, <2>10, <2>6, <2>7, <2>8, <2>9 DEF c
<1> HIDE DEF b
<1>6. MaskKey(b) = MaskKey(c)
  BY <1>4 DEF MaskKey
<1>7. tasks = Surviving(residual, job, b)
  <2>1. b.tasks = tasks
    BY <1>4
  <2> QED BY <1>3, <1>6, <2>1 DEF Surviving
<1>8. PhaseInvariant(b)
  BY <1>1, <1>4 DEF PhaseInvariant
<1>9. Offspring(b)
  BY <1>1, <1>3, <1>4, <1>7, <1>8 DEF Offspring, s
<1> QED BY <1>4, <1>9 DEF b, c

LEMMA ContinueKeeps ==
    ASSUME IInv, NEW leg \in todo, ContinueStep(leg)
    PROVE  IInv'
<1>1. /\ state = "scan" /\ todo' \subseteq todo
      /\ UNCHANGED <<job, residual, state, expanding>>
      /\ \/ UNCHANGED <<arena, current, next>>
         \/ \E tasks, targets : Queueing(leg, tasks, targets)
  BY ContinueCases
<1>2. CASE UNCHANGED <<arena, current, next>>
  <2>1. Resting
    BY <1>1, <1>2 DEF Resting
  <2> QED BY <2>1, RestingKeeps
<1>3. ASSUME NEW tasks, NEW targets, Queueing(leg, tasks, targets)
      PROVE  IInv'
  <2> DEFINE b == OffspringOf(leg, tasks, targets)
             s == arena[expanding]
  <2>1. Offspring(b) /\ b.m = Candidate(leg).m /\ b.parent = expanding
    BY <1>1, <1>3, OffspringIsRight
  <2>2. arena' = Born(arena, b)
    BY <1>3 DEF Queueing, Appended, Born
  <2>3. /\ leg \in job.network /\ job \in Batches /\ s \in BranchType
        /\ b.m = Extend(s.m, leg)
    BY <1>1, <2>1, CandidateIsRight DEF IInv, Typing
  <2>4. s.m \in Travelled /\ s.m.nt \in Nat
    BY <2>3 DEF BranchType, Travelled
  <2> HIDE DEF b, s
  <2>5. /\ leg.kind \in {"walk", "ride"}
        /\ leg.kind = "walk" => b.m.boarded = s.m.boarded /\ b.m.nt = s.m.nt
        /\ leg.kind = "ride" => /\ b.m.boarded
                                /\ b.m.nt = s.m.nt + (IF s.m.boarded THEN 1 ELSE 0)
    BY <2>3, <2>4, ExtendTyped, LegFields
  <2>6. CASE Sooner(leg)
    <3>1. current' = Append(current, Len(arena')) /\ next' = next
      BY <1>3, <2>6 DEF Queueing
    <3>2. b.m.nt = s.m.nt /\ (s.m.boarded => b.m.boarded)
      BY <2>4, <2>5, <2>6 DEF Sooner, s
    <3>3. Typing' /\ Queued' /\ Counts'
      BY <1>1, <2>1, <2>2, <3>1, BirthIsCounted
    <3>4. Leveled'
      BY <1>1, <2>1, <2>2, <3>1, <3>2, BirthIsLeveled DEF s
    <3>5. Right'
      BY <1>1, <2>1, <2>2, BirthIsRight
    <3> QED BY <3>3, <3>4, <3>5 DEF IInv
  <2>7. CASE ~Sooner(leg)
    <3>1. current' = current /\ next' = Append(next, Len(arena'))
      BY <1>3, <2>7 DEF Queueing
    <3>2. b.m.boarded /\ b.m.nt = s.m.nt + 1
      BY <2>4, <2>5, <2>7 DEF Sooner, s
    <3>3. Typing' /\ Queued' /\ Counts'
      BY <1>1, <2>1, <2>2, <3>1, BirthIsCounted
    <3>4. Leveled'
      BY <1>1, <2>1, <2>2, <3>1, <3>2, BirthIsLeveled DEF s
    <3>5. Right'
      BY <1>1, <2>1, <2>2, BirthIsRight
    <3> QED BY <3>3, <3>4, <3>5 DEF IInv
  <2> QED BY <2>6, <2>7
<1> QED BY <1>1, <1>2, <1>3

(***************************************************************************)
(* The residual model of a timetable is never refused: whatever the legs,  *)
(* its states and bounds pass the code's own validation.                   *)
(***************************************************************************)
IsEdge(e) == /\ e.kind \in {"walk", "ride"} /\ e.time \in Nat

IsKey(k) == /\ k.phase \in Phases /\ k.left \in 0 .. MaxTransfers
            /\ k = Key(k.node, k.phase, k.left)

\* One leg before a state, by the leg.
StepOf(e, key, s) ==
    \/ /\ key.phase \in {"Completed", "AfterTransferWalk"}
       /\ e.kind = "walk" /\ e.from \in Stops
       /\ s = Step(e, "AfterTimedRide", key.left, 0)
    \/ /\ key.phase = "BeforeFirstBoarding"
       /\ e.kind = "walk" /\ e.from \notin Stops
       /\ s = Step(e, "AtOrigin", key.left, 0)
    \/ /\ key.phase = "AfterTimedRide"
       /\ e.kind = "ride" /\ e.from \in Stops
       /\ \/ s = Step(e, "BeforeFirstBoarding", key.left, 0)
          \/ /\ key.left < MaxTransfers
             /\ \E phase \in {"AfterTimedRide", "AfterTransferWalk"} :
                    s = Step(e, phase, key.left + 1, 1)

LEMMA StepsAre ==
    ASSUME NEW graph, NEW key, key.phase \in Phases, NEW s
    PROVE  s \in Steps(graph, key)
             <=> \E e \in graph : e.to = key.node /\ StepOf(e, key, s)
<1>1. CASE key.phase = "AtOrigin"
  BY <1>1 DEF Steps, StepOf
<1>2. CASE key.phase = "BeforeFirstBoarding"
  BY <1>2 DEF Steps, StepOf
<1>3. CASE key.phase = "AfterTimedRide"
  BY <1>3 DEF Steps, StepOf
<1>4. CASE key.phase = "AfterTransferWalk"
  BY <1>4 DEF Steps, StepOf
<1>5. CASE key.phase = "Completed"
  BY <1>5 DEF Steps, StepOf
<1> QED BY <1>1, <1>2, <1>3, <1>4, <1>5 DEF Phases

LEMMA EdgesAre ==
    ASSUME NEW j \in Batches, NEW e \in ReverseGraph(j.network)
    PROVE  IsEdge(e)
<1>1. PICK l \in j.network :
        e = [kind |-> l.kind, from |-> l.from, to |-> l.to,
             time |-> Min({LegTime(p) : p \in Parallel(j.network, l)})]
  BY DEF ReverseGraph
<1> DEFINE times == {LegTime(p) : p \in Parallel(j.network, l)}
<1>2. ASSUME NEW p \in j.network PROVE LegTime(p) \in Nat
  <2>1. CASE p.kind = "walk"
    BY <2>1, LegFields DEF LegTime
  <2>2. CASE p.kind = "ride"
    <3>1. p.dep \in Int /\ p.arr \in Int /\ p.dep <= p.arr
      BY <2>2, LegsAssumption
    <3> QED BY <2>2, <3>1 DEF LegTime
  <2> QED BY <2>1, <2>2, LegFields
<1>3. times \in SUBSET Nat /\ times # {}
  <2>1. l \in Parallel(j.network, l)
    BY DEF Parallel
  <2>2. Parallel(j.network, l) \subseteq j.network
    BY DEF Parallel
  <2> QED BY <1>2, <2>1, <2>2
<1> HIDE DEF times
<1>4. Min(times) \in Nat
  BY <1>3, MinIsLeast
<1>5. e.kind = l.kind /\ e.time = Min(times)
  BY <1>1 DEF times
<1> QED BY <1>4, <1>5, LegFields DEF IsEdge

\* States that are further on have a lower rank.
PhaseRank(phase) == CASE phase = "Completed"           -> 0
                      [] phase = "AfterTransferWalk"   -> 1
                      [] phase = "AfterTimedRide"      -> 2
                      [] phase = "BeforeFirstBoarding" -> 3
                      [] OTHER                         -> 4

Rank(k) == 8 * k.left + PhaseRank(k.phase)

LEMMA RankIsNat ==
    ASSUME NEW k, IsKey(k)
    PROVE  Rank(k) \in 0 .. 8 * MaxTransfers + 4
<1>1. PhaseRank(k.phase) \in 0 .. 4
  BY DEF IsKey, Phases, PhaseRank
<1>2. k.left \in 0 .. MaxTransfers /\ MaxTransfers \in Nat
  BY MaxTransfersAssumption DEF IsKey
<1> QED BY <1>1, <1>2 DEF Rank

Criteria == {"jt", "nt", "imp"}

LEMMA StepFacts ==
    ASSUME NEW e, IsEdge(e), NEW key, IsKey(key), NEW s, StepOf(e, key, s)
    PROVE  /\ IsKey(s.before) /\ s.before.node = e.from
           /\ s.before.phase # "Completed"
           /\ s.before.phase = "AtOrigin" <=> e.from \notin Stops
           /\ Rank(key) < Rank(s.before)
           /\ \A c \in Criteria : s[c] \in Nat
<1> DEFINE Facts(phase, left, transfers) ==
        /\ IsKey(Step(e, phase, left, transfers).before)
        /\ Step(e, phase, left, transfers).before.node = e.from
        /\ Step(e, phase, left, transfers).before.phase = phase
        /\ Rank(Step(e, phase, left, transfers).before)
             = 8 * left + PhaseRank(phase)
        /\ \A c \in Criteria : Step(e, phase, left, transfers)[c] \in Nat
<1>1. /\ key.left \in 0 .. MaxTransfers /\ MaxTransfers \in Nat
      /\ WalkWeight \in Nat /\ TransferPenalty \in Nat
      /\ e.time \in Nat /\ e.kind \in {"walk", "ride"}
  BY MaxTransfersAssumption, WeightsAssumption DEF IsKey, IsEdge
<1>2. WalkWeight * e.time \in Nat
  BY <1>1
<1>3. ASSUME NEW phase \in Phases, NEW left \in 0 .. MaxTransfers,
             NEW transfers \in {0, 1}
      PROVE  Facts(phase, left, transfers)
  <2> DEFINE t == Step(e, phase, left, transfers)
  <2>1. t.before = Key(e.from, phase, left)
    BY DEF Step
  <2>2. /\ t.before.node = e.from /\ t.before.phase = phase
        /\ t.before.left = left
    BY <2>1 DEF Key
  <2>3. TransferPenalty * transfers \in Nat
    BY <1>1
  <2>4. /\ t["jt"] = e.time /\ t["nt"] = transfers
        /\ t["imp"] = IF e.kind = "walk" THEN WalkWeight * e.time
                      ELSE e.time + TransferPenalty * transfers
    BY DEF Step
  <2>5. t["imp"] \in Nat
    BY <1>1, <1>2, <2>3, <2>4
  <2>6. t["jt"] \in Nat /\ t["nt"] \in Nat
    BY <1>1, <2>4
  <2> HIDE DEF t
  <2>7. IsKey(t.before)
    BY <2>1, <2>2 DEF IsKey
  <2>8. Rank(t.before) = 8 * left + PhaseRank(phase)
    BY <2>2 DEF Rank
  <2>9. \A c \in Criteria : t[c] \in Nat
    BY <2>5, <2>6 DEF Criteria
  <2> QED BY <2>2, <2>7, <2>8, <2>9 DEF t
<1> HIDE DEF Facts
<1>4. /\ PhaseRank("Completed") = 0 /\ PhaseRank("AfterTransferWalk") = 1
      /\ PhaseRank("AfterTimedRide") = 2
      /\ PhaseRank("BeforeFirstBoarding") = 3 /\ PhaseRank("AtOrigin") = 4
  BY DEF PhaseRank
<1>5. Rank(key) = 8 * key.left + PhaseRank(key.phase)
  BY DEF Rank
<1>6. Phases = {"AtOrigin", "BeforeFirstBoarding", "AfterTimedRide",
                "AfterTransferWalk", "Completed"}
  BY DEF Phases
<1>7. CASE /\ key.phase \in {"Completed", "AfterTransferWalk"}
           /\ e.kind = "walk" /\ e.from \in Stops
           /\ s = Step(e, "AfterTimedRide", key.left, 0)
  <2>1. Facts("AfterTimedRide", key.left, 0)
    BY <1>1, <1>3, <1>6
  <2> QED BY <1>1, <1>4, <1>5, <1>7, <2>1 DEF Facts
<1>8. CASE /\ key.phase = "BeforeFirstBoarding"
           /\ e.kind = "walk" /\ e.from \notin Stops
           /\ s = Step(e, "AtOrigin", key.left, 0)
  <2>1. Facts("AtOrigin", key.left, 0)
    BY <1>1, <1>3, <1>6
  <2> QED BY <1>1, <1>4, <1>5, <1>8, <2>1 DEF Facts
<1>9. CASE /\ key.phase = "AfterTimedRide" /\ e.from \in Stops
           /\ s = Step(e, "BeforeFirstBoarding", key.left, 0)
  <2>1. Facts("BeforeFirstBoarding", key.left, 0)
    BY <1>1, <1>3, <1>6
  <2> QED BY <1>1, <1>4, <1>5, <1>9, <2>1 DEF Facts
<1>10. ASSUME key.phase = "AfterTimedRide", e.from \in Stops,
              key.left < MaxTransfers,
              NEW phase \in {"AfterTimedRide", "AfterTransferWalk"},
              s = Step(e, phase, key.left + 1, 1)
       PROVE  /\ IsKey(s.before) /\ s.before.node = e.from
              /\ s.before.phase # "Completed"
              /\ s.before.phase = "AtOrigin" <=> e.from \notin Stops
              /\ Rank(key) < Rank(s.before)
              /\ \A c \in Criteria : s[c] \in Nat
  <2>1. key.left + 1 \in 0 .. MaxTransfers /\ phase \in Phases
    BY <1>1, <1>6, <1>10
  <2>2. Facts(phase, key.left + 1, 1)
    BY <1>3, <2>1
  <2>3. PhaseRank(phase) \in {1, 2}
    BY <1>4
  <2> QED BY <1>1, <1>4, <1>5, <1>10, <2>2, <2>3 DEF Facts
<1> QED BY <1>7, <1>8, <1>9, <1>10 DEF StepOf

\* What the states of a destination are after any number of rounds.
StateRight(d, k) ==
    /\ IsKey(k)
    /\ k.phase = "Completed" => k.node = d
    /\ k.phase \in {"AtOrigin", "Completed"} <=> k.node \notin Stops

StatesRight(graph, d, states) ==
    /\ Seeds(d) \subseteq states
    /\ \A k \in states : StateRight(d, k)
    /\ \A k \in states : k.left < MaxTransfers =>
            Key(k.node, k.phase, k.left + 1) \in states
    /\ \A k \in states \ Seeds(d) :
            \E q \in states : \E s \in Steps(graph, q) : s.before = k

LEMMA KeyFields ==
    ASSUME NEW node, NEW phase, NEW left
    PROVE  /\ Key(node, phase, left).node = node
           /\ Key(node, phase, left).phase = phase
           /\ Key(node, phase, left).left = left
BY DEF Key

LEMMA SeedsAreRight ==
    ASSUME NEW graph, NEW d, d \notin Stops
    PROVE  StatesRight(graph, d, Seeds(d))
<1>1. ASSUME NEW k \in Seeds(d)
      PROVE  /\ StateRight(d, k)
             /\ k.left < MaxTransfers => Key(k.node, k.phase, k.left + 1) \in Seeds(d)
  <2>1. PICK left \in 0 .. MaxTransfers : k = Key(d, "Completed", left)
    BY DEF Seeds
  <2>2. k.node = d /\ k.phase = "Completed" /\ k.left = left
    BY <2>1, KeyFields
  <2>3. StateRight(d, k)
    BY <2>1, <2>2 DEF StateRight, IsKey, Phases
  <2>4. ASSUME left < MaxTransfers
        PROVE  Key(d, "Completed", left + 1) \in Seeds(d)
    <3>1. left + 1 \in 0 .. MaxTransfers
      BY <2>4, MaxTransfersAssumption
    <3> QED BY <3>1 DEF Seeds
  <2> QED BY <2>2, <2>3, <2>4
<1> QED BY <1>1 DEF StatesRight

\* With one more transfer left, the same legs lead there.
LEMMA OneMoreLeft ==
    ASSUME NEW e, NEW key, IsKey(key), NEW s, StepOf(e, key, s),
           s.before.left < MaxTransfers
    PROVE  /\ key.left < MaxTransfers
           /\ \E t : /\ StepOf(e, Key(key.node, key.phase, key.left + 1), t)
                     /\ t.before = Key(s.before.node, s.before.phase,
                                       s.before.left + 1)
<1> DEFINE more == Key(key.node, key.phase, key.left + 1)
<1>1. /\ more.node = key.node /\ more.phase = key.phase
      /\ more.left = key.left + 1
  BY KeyFields
<1>2. key.left \in 0 .. MaxTransfers /\ MaxTransfers \in Nat
  BY MaxTransfersAssumption DEF IsKey
<1>3. ASSUME NEW phase, NEW left, NEW transfers
      PROVE  /\ Step(e, phase, left, transfers).before = Key(e.from, phase, left)
             /\ Step(e, phase, left, transfers).before.node = e.from
             /\ Step(e, phase, left, transfers).before.phase = phase
             /\ Step(e, phase, left, transfers).before.left = left
  BY KeyFields DEF Step
<1> HIDE DEF more
<1>4. CASE /\ key.phase \in {"Completed", "AfterTransferWalk"}
           /\ e.kind = "walk" /\ e.from \in Stops
           /\ s = Step(e, "AfterTimedRide", key.left, 0)
  <2> DEFINE t == Step(e, "AfterTimedRide", key.left + 1, 0)
  <2>1. StepOf(e, more, t)
    BY <1>1, <1>4 DEF StepOf
  <2>2. t.before = Key(s.before.node, s.before.phase, s.before.left + 1)
    BY <1>3, <1>4
  <2>3. key.left < MaxTransfers
    BY <1>3, <1>4
  <2> QED BY <2>1, <2>2, <2>3 DEF more
<1>5. CASE /\ key.phase = "BeforeFirstBoarding"
           /\ e.kind = "walk" /\ e.from \notin Stops
           /\ s = Step(e, "AtOrigin", key.left, 0)
  <2> DEFINE t == Step(e, "AtOrigin", key.left + 1, 0)
  <2>1. StepOf(e, more, t)
    BY <1>1, <1>5 DEF StepOf
  <2>2. t.before = Key(s.before.node, s.before.phase, s.before.left + 1)
    BY <1>3, <1>5
  <2>3. key.left < MaxTransfers
    BY <1>3, <1>5
  <2> QED BY <2>1, <2>2, <2>3 DEF more
<1>6. CASE /\ key.phase = "AfterTimedRide" /\ e.kind = "ride" /\ e.from \in Stops
           /\ s = Step(e, "BeforeFirstBoarding", key.left, 0)
  <2> DEFINE t == Step(e, "BeforeFirstBoarding", key.left + 1, 0)
  <2>1. StepOf(e, more, t)
    BY <1>1, <1>6 DEF StepOf
  <2>2. t.before = Key(s.before.node, s.before.phase, s.before.left + 1)
    BY <1>3, <1>6
  <2>3. key.left < MaxTransfers
    BY <1>3, <1>6
  <2> QED BY <2>1, <2>2, <2>3 DEF more
<1>7. ASSUME key.phase = "AfterTimedRide", e.kind = "ride", e.from \in Stops,
             NEW phase \in {"AfterTimedRide", "AfterTransferWalk"},
             s = Step(e, phase, key.left + 1, 1)
      PROVE  /\ key.left < MaxTransfers
             /\ \E t : /\ StepOf(e, more, t)
                       /\ t.before = Key(s.before.node, s.before.phase,
                                         s.before.left + 1)
  <2> DEFINE t == Step(e, phase, more.left + 1, 1)
  <2>1. s.before.left = key.left + 1
    BY <1>3, <1>7
  <2>2. key.left < MaxTransfers /\ more.left < MaxTransfers
    BY <1>1, <1>2, <2>1
  <2>3. StepOf(e, more, t)
    BY <1>1, <1>7, <2>2 DEF StepOf
  <2>4. t.before = Key(s.before.node, s.before.phase, s.before.left + 1)
    BY <1>1, <1>3, <1>7
  <2> QED BY <2>2, <2>3, <2>4
<1> QED BY <1>4, <1>5, <1>6, <1>7 DEF StepOf, more

LEMMA RoundKeepsRight ==
    ASSUME NEW j \in Batches, NEW d, NEW reached,
           StatesRight(ReverseGraph(j.network), d, reached)
    PROVE  StatesRight(ReverseGraph(j.network), d,
                       WithPredecessors(ReverseGraph(j.network), reached))
<1> DEFINE graph == ReverseGraph(j.network)
           states == WithPredecessors(graph, reached)
<1>1. /\ Seeds(d) \subseteq reached
      /\ \A k \in reached : StateRight(d, k) /\ IsKey(k) /\ k.phase \in Phases
      /\ \A k \in reached : k.left < MaxTransfers =>
            Key(k.node, k.phase, k.left + 1) \in reached
      /\ \A k \in reached \ Seeds(d) :
            \E q \in reached : \E s \in Steps(graph, q) : s.before = k
  BY DEF StatesRight, StateRight, IsKey
<1>2. \A k : k \in states <=>
        \/ k \in reached
        \/ \E q \in reached : \E s \in Steps(graph, q) : s.before = k
  BY DEF WithPredecessors
<1>3. \A e \in graph : IsEdge(e)
  BY EdgesAre
<1> HIDE DEF states, graph
<1>4. ASSUME NEW q \in reached, NEW s \in Steps(graph, q)
      PROVE  /\ StateRight(d, s.before)
             /\ s.before.left < MaxTransfers =>
                  Key(s.before.node, s.before.phase, s.before.left + 1) \in states
  <2>1. PICK e \in graph : e.to = q.node /\ StepOf(e, q, s)
    BY <1>1, StepsAre
  <2>2. IsKey(q) /\ IsEdge(e)
    BY <1>1, <1>3
  <2>3. /\ IsKey(s.before) /\ s.before.node = e.from
        /\ s.before.phase # "Completed"
        /\ s.before.phase = "AtOrigin" <=> e.from \notin Stops
    BY <2>1, <2>2, StepFacts
  <2>4. StateRight(d, s.before)
    BY <2>3 DEF StateRight
  <2>5. ASSUME s.before.left < MaxTransfers
        PROVE  Key(s.before.node, s.before.phase, s.before.left + 1) \in states
    <3> DEFINE more == Key(q.node, q.phase, q.left + 1)
    <3>1. PICK t : /\ q.left < MaxTransfers
                   /\ StepOf(e, more, t)
                   /\ t.before = Key(s.before.node, s.before.phase,
                                     s.before.left + 1)
      BY <2>1, <2>2, <2>5, OneMoreLeft
    <3>2. more \in reached /\ more.node = q.node /\ more.phase = q.phase
      BY <1>1, <3>1, KeyFields
    <3> HIDE DEF more
    <3>3. t \in Steps(graph, more)
      BY <1>1, <2>1, <3>1, <3>2, StepsAre
    <3> QED BY <1>2, <3>1, <3>2, <3>3
  <2> QED BY <2>4, <2>5
<1>5. ASSUME NEW k \in states
      PROVE  /\ StateRight(d, k)
             /\ k.left < MaxTransfers =>
                  Key(k.node, k.phase, k.left + 1) \in states
             /\ k \notin Seeds(d) =>
                  \E q \in states : \E s \in Steps(graph, q) : s.before = k
  <2>1. CASE k \in reached
    BY <1>1, <1>2, <2>1
  <2>2. CASE \E q \in reached : \E s \in Steps(graph, q) : s.before = k
    BY <1>2, <1>4, <2>2
  <2> QED BY <1>2, <2>1, <2>2
<1>6. Seeds(d) \subseteq states
  BY <1>1, <1>2
<1>7. StatesRight(graph, d, states)
  BY <1>5, <1>6 DEF StatesRight
<1> QED BY <1>7 DEF states, graph

SolvesGrown(f, graph, d) ==
    f = [n \in 0 .. LongestSuffix |->
            IF n = 0 THEN Seeds(d) ELSE WithPredecessors(graph, f[n - 1])]

GrownUpTo(f, graph, d, n) ==
    /\ DOMAIN f = 0 .. n
    /\ \A l \in 0 .. n :
        f[l] = IF l = 0 THEN Seeds(d) ELSE WithPredecessors(graph, f[l - 1])

LEMMA LongestIsNat == LongestSuffix \in Nat
BY MaxTransfersAssumption DEF LongestSuffix

LEMMA GrownExists ==
    ASSUME NEW graph, NEW d
    PROVE  \E f : SolvesGrown(f, graph, d)
<1> DEFINE last == LongestSuffix
           Holds == {n \in 0 .. last : \E f : GrownUpTo(f, graph, d, n)}
<1>0. last \in Nat
  BY LongestIsNat
<1> HIDE DEF last
<1>1. 0 \in Holds
  <2> DEFINE g == [l \in 0 .. 0 |-> Seeds(d)]
  <2>1. DOMAIN g = 0 .. 0 /\ \A l \in 0 .. 0 : l = 0 /\ g[l] = Seeds(d)
    OBVIOUS
  <2> HIDE DEF g
  <2>2. GrownUpTo(g, graph, d, 0)
    BY <2>1 DEF GrownUpTo
  <2> QED BY <1>0, <2>2
<1>2. ASSUME NEW n \in 1 .. last, n - 1 \in Holds
      PROVE  n \in Holds
  <2>1. PICK f : GrownUpTo(f, graph, d, n - 1)
    BY <1>2
  <2> DEFINE new == WithPredecessors(graph, f[n - 1])
             g == [l \in 0 .. n |-> IF l = n THEN new ELSE f[l]]
  <2>2. /\ n \in Nat /\ n # 0 /\ n \in 0 .. last /\ n - 1 \in 0 .. n /\ n - 1 # n
        /\ \A l \in 0 .. n : l # n => l \in 0 .. n - 1
        /\ \A l \in 0 .. n - 1 : l # 0 => l - 1 \in 0 .. n - 1
        /\ \A l \in 0 .. n - 1 : l \in 0 .. n /\ l # n
    BY <1>0
  <2> HIDE DEF new
  <2>3. /\ DOMAIN g = 0 .. n /\ g[n] = new
        /\ \A l \in 0 .. n - 1 : g[l] = f[l]
    BY <2>2
  <2> HIDE DEF g
  <2>4. ASSUME NEW l \in 0 .. n
        PROVE  g[l] = IF l = 0 THEN Seeds(d) ELSE WithPredecessors(graph, g[l - 1])
    <3>1. CASE l = n
      <4>1. n - 1 \in 0 .. n - 1
        BY <2>2
      <4>2. g[n - 1] = f[n - 1]
        BY <2>3, <4>1
      <4> QED BY <2>2, <2>3, <3>1, <4>2 DEF new
    <3>2. CASE l # n
      <4>1. l \in 0 .. n - 1 /\ (l # 0 => l - 1 \in 0 .. n - 1)
        BY <2>2, <3>2
      <4>2. f[l] = IF l = 0 THEN Seeds(d) ELSE WithPredecessors(graph, f[l - 1])
        BY <2>1, <4>1 DEF GrownUpTo
      <4> QED BY <2>3, <4>1, <4>2
    <3> QED BY <3>1, <3>2
  <2>5. GrownUpTo(g, graph, d, n)
    BY <2>3, <2>4 DEF GrownUpTo
  <2> QED BY <2>2, <2>5
<1>3. PICK f : GrownUpTo(f, graph, d, last)
  <2> HIDE DEF Holds
  <2>1. 0 .. last \subseteq Holds
    BY <1>0, <1>1, <1>2, UpTo
  <2>2. last \in Holds
    BY <1>0, <2>1
  <2> QED BY <2>2 DEF Holds
<1> DEFINE h == [l \in 0 .. last |-> f[l]]
<1>4. h = [l \in 0 .. last |->
            IF l = 0 THEN Seeds(d) ELSE WithPredecessors(graph, h[l - 1])]
  <2>1. ASSUME NEW l \in 0 .. last
        PROVE  h[l] = IF l = 0 THEN Seeds(d) ELSE WithPredecessors(graph, h[l - 1])
    <3>1. l # 0 => l - 1 \in 0 .. last
      BY <1>0
    <3>2. f[l] = IF l = 0 THEN Seeds(d) ELSE WithPredecessors(graph, f[l - 1])
      BY <1>3 DEF GrownUpTo
    <3> QED BY <3>1, <3>2
  <2> QED BY <2>1
<1> HIDE DEF h
<1>5. SolvesGrown(h, graph, d)
  BY <1>4 DEF SolvesGrown, last
<1> QED BY <1>5

LEMMA ReachableStatesAreRight ==
    ASSUME NEW j \in Batches, NEW d, d \notin Stops
    PROVE  StatesRight(ReverseGraph(j.network), d,
                       ReachableStates(ReverseGraph(j.network), d))
<1> DEFINE graph == ReverseGraph(j.network)
           f == CHOOSE g : SolvesGrown(g, graph, d)
           Holds == {n \in 0 .. LongestSuffix : StatesRight(graph, d, f[n])}
<1>1. SolvesGrown(f, graph, d)
  BY GrownExists, Zenon
<1>2. ReachableStates(graph, d) = f[LongestSuffix]
  BY DEF ReachableStates, SolvesGrown
<1> HIDE DEF f
<1>3. LongestSuffix \in Nat
  BY LongestIsNat
<1>4. ASSUME NEW n \in 0 .. LongestSuffix
      PROVE  f[n] = IF n = 0 THEN Seeds(d) ELSE WithPredecessors(graph, f[n - 1])
  BY <1>1 DEF SolvesGrown
<1>5. 0 \in Holds
  <2>1. 0 \in 0 .. LongestSuffix
    BY <1>3
  <2>2. f[0] = Seeds(d)
    BY <1>4, <2>1
  <2> QED BY <2>1, <2>2, SeedsAreRight
<1>6. ASSUME NEW n \in 1 .. LongestSuffix, n - 1 \in Holds
      PROVE  n \in Holds
  <2>1. n \in 0 .. LongestSuffix /\ n # 0
    BY <1>3
  <2>2. f[n] = WithPredecessors(graph, f[n - 1])
    BY <1>4, <2>1
  <2>3. StatesRight(graph, d, f[n - 1])
    BY <1>6
  <2>4. StatesRight(graph, d, f[n])
    BY <2>2, <2>3, RoundKeepsRight
  <2> QED BY <2>1, <2>4
<1>7. LongestSuffix \in Holds
  <2> HIDE DEF Holds
  <2>1. 0 .. LongestSuffix \subseteq Holds
    BY <1>3, <1>5, <1>6, UpTo
  <2> QED BY <1>3, <2>1
<1> QED BY <1>2, <1>7

\* The recursion of the distances has a solution, and only natural numbers
\* solve it: the way on always leads to a lower rank.
Sums(f, c, ways, k) == {w.s[c] + f[w.key] : w \in WaysFrom(ways, k)}

Least(f, c, ways, d, k) ==
    IF k \in Seeds(d) THEN 0 ELSE Min(Sums(f, c, ways, k))

SolvesDistance(f, c, ways, d, states) ==
    f = [k \in states |->
            IF k \in Seeds(d) THEN 0
            ELSE Min({w.s[c] + f[w.key] : w \in WaysFrom(ways, k)})]

\* The ways on from a set of states are steps of a finite descent.
Descending(c, ways, d, states) ==
    /\ \A k \in states : Rank(k) \in 0 .. 8 * MaxTransfers + 4
    /\ \A w \in ways : /\ w.s[c] \in Nat /\ w.key \in states
                       /\ Rank(w.key) < Rank(w.s.before)
    /\ \A k \in states \ Seeds(d) : WaysFrom(ways, k) # {}

BelowRank(states, n) == {k \in states : Rank(k) < n}

DistanceUpTo(f, c, ways, d, states, n) ==
    /\ f \in [BelowRank(states, n) -> Nat]
    /\ \A k \in BelowRank(states, n) : f[k] = Least(f, c, ways, d, k)

LEMMA SumsAgree ==
    ASSUME NEW f, NEW g, NEW c, NEW ways, NEW k,
           \A w \in WaysFrom(ways, k) : f[w.key] = g[w.key]
    PROVE  Sums(f, c, ways, k) = Sums(g, c, ways, k)
<1>1. ASSUME NEW x PROVE x \in Sums(f, c, ways, k) <=> x \in Sums(g, c, ways, k)
  BY DEF Sums
<1> QED BY <1>1

LEMMA LeastIsNat ==
    ASSUME NEW c, NEW ways, NEW d, NEW states, Descending(c, ways, d, states),
           NEW k \in states, NEW f,
           \A w \in WaysFrom(ways, k) : f[w.key] \in Nat
    PROVE  Least(f, c, ways, d, k) \in Nat
<1>1. CASE k \in Seeds(d)
  BY <1>1 DEF Least
<1>2. CASE k \notin Seeds(d)
  <2>1. PICK w \in WaysFrom(ways, k) : TRUE
    BY <1>2 DEF Descending
  <2>2. ASSUME NEW v \in WaysFrom(ways, k) PROVE v.s[c] + f[v.key] \in Nat
    <3>1. v.s[c] \in Nat /\ f[v.key] \in Nat
      BY DEF Descending, WaysFrom
    <3> QED BY <3>1
  <2>3. Sums(f, c, ways, k) \in SUBSET Nat /\ Sums(f, c, ways, k) # {}
    BY <2>1, <2>2 DEF Sums
  <2>4. Min(Sums(f, c, ways, k)) \in Nat
    BY <2>3, MinIsLeast
  <2> QED BY <1>2, <2>4 DEF Least
<1> QED BY <1>1, <1>2

LEMMA DistanceExists ==
    ASSUME NEW c, NEW ways, NEW d, NEW states, Descending(c, ways, d, states)
    PROVE  \E f : SolvesDistance(f, c, ways, d, states)
<1> DEFINE last == 8 * MaxTransfers + 5
           Holds == {n \in 0 .. last : \E f : DistanceUpTo(f, c, ways, d, states, n)}
<1>0. last \in Nat /\ \A k \in states : Rank(k) \in Nat /\ Rank(k) < last
  BY MaxTransfersAssumption DEF Descending
<1> HIDE DEF last
<1>1. 0 \in Holds
  <2>1. BelowRank(states, 0) = {}
    BY <1>0 DEF BelowRank
  <2> DEFINE g == [k \in BelowRank(states, 0) |-> 0]
  <2>2. g \in [BelowRank(states, 0) -> Nat]
    OBVIOUS
  <2> HIDE DEF g
  <2>3. DistanceUpTo(g, c, ways, d, states, 0)
    BY <2>1, <2>2 DEF DistanceUpTo
  <2> QED BY <1>0, <2>3
<1>2. ASSUME NEW n \in 1 .. last, n - 1 \in Holds
      PROVE  n \in Holds
  <2>1. PICK f : DistanceUpTo(f, c, ways, d, states, n - 1)
    BY <1>2
  <2> DEFINE g == [k \in BelowRank(states, n) |-> Least(f, c, ways, d, k)]
  <2>2. /\ f \in [BelowRank(states, n - 1) -> Nat]
        /\ \A k \in BelowRank(states, n - 1) : f[k] = Least(f, c, ways, d, k)
    BY <2>1 DEF DistanceUpTo
  <2>3. n \in Nat /\ n \in 0 .. last
    BY <1>0
  <2>4. ASSUME NEW k \in BelowRank(states, n), NEW w \in WaysFrom(ways, k)
        PROVE  w.key \in BelowRank(states, n - 1) /\ f[w.key] \in Nat
    <3>1. /\ w.key \in states /\ Rank(w.key) < Rank(k)
          /\ k \in states /\ Rank(k) < n
      BY DEF WaysFrom, Descending, BelowRank
    <3>2. Rank(w.key) < n - 1
      <4>1. Rank(w.key) \in Nat /\ Rank(k) \in Nat
        BY <1>0, <3>1
      <4> QED BY <2>3, <3>1, <4>1
    <3>3. w.key \in BelowRank(states, n - 1)
      BY <3>1, <3>2 DEF BelowRank
    <3> QED BY <2>2, <3>3
  <2>5. ASSUME NEW k \in BelowRank(states, n)
        PROVE  Least(f, c, ways, d, k) \in Nat
    <3>1. k \in states
      BY DEF BelowRank
    <3> QED BY <2>4, <3>1, LeastIsNat
  <2>6. g \in [BelowRank(states, n) -> Nat]
    BY <2>5
  <2>7. ASSUME NEW k \in BelowRank(states, n - 1)
        PROVE  k \in BelowRank(states, n) /\ g[k] = f[k]
    <3>1. k \in BelowRank(states, n)
      BY <1>0, <2>3 DEF BelowRank
    <3> QED BY <2>2, <3>1
  <2>8. ASSUME NEW k \in BelowRank(states, n)
        PROVE  g[k] = Least(g, c, ways, d, k)
    <3>1. g[k] = Least(f, c, ways, d, k)
      OBVIOUS
    <3>2. \A w \in WaysFrom(ways, k) : f[w.key] = g[w.key]
      BY <2>4, <2>7
    <3> HIDE DEF g
    <3>3. Sums(f, c, ways, k) = Sums(g, c, ways, k)
      BY <3>2, SumsAgree
    <3> QED BY <3>1, <3>3 DEF Least
  <2> HIDE DEF g
  <2>9. DistanceUpTo(g, c, ways, d, states, n)
    BY <2>6, <2>8 DEF DistanceUpTo
  <2> QED BY <2>3, <2>9
<1>3. PICK f : DistanceUpTo(f, c, ways, d, states, last)
  <2> HIDE DEF Holds
  <2>1. 0 .. last \subseteq Holds
    BY <1>0, <1>1, <1>2, UpTo
  <2>2. last \in Holds
    BY <1>0, <2>1
  <2> QED BY <2>2 DEF Holds
<1>4. BelowRank(states, last) = states
  BY <1>0 DEF BelowRank
<1>5. /\ f \in [states -> Nat]
      /\ \A k \in states : f[k] = Least(f, c, ways, d, k)
  BY <1>3, <1>4 DEF DistanceUpTo
<1>6. SolvesDistance(f, c, ways, d, states)
  BY <1>5 DEF SolvesDistance, Least, Sums
<1> QED BY <1>6

LEMMA DistanceIsNat ==
    ASSUME NEW c, NEW ways, NEW d, NEW states, Descending(c, ways, d, states),
           NEW f, SolvesDistance(f, c, ways, d, states), NEW k \in states
    PROVE  f[k] \in Nat
<1> DEFINE Bad == {q \in states : f[q] \notin Nat}
           Ranks == {Rank(q) : q \in Bad}
<1>0. \A q \in states : Rank(q) \in Nat
  BY MaxTransfersAssumption DEF Descending
<1>1. ASSUME Bad # {} PROVE FALSE
  <2>1. PICK r \in Ranks : \A x \in Ranks : r <= x
    <3>1. Ranks \in SUBSET Nat /\ Ranks # {}
      BY <1>0, <1>1
    <3> HIDE DEF Ranks
    <3> QED BY <3>1, LeastNumber
  <2>2. PICK q \in Bad : r = Rank(q)
    BY <2>1
  <2>3. ASSUME NEW w \in WaysFrom(ways, q) PROVE f[w.key] \in Nat
    <3>1. w.key \in states /\ Rank(w.key) < Rank(q)
      BY DEF WaysFrom, Descending
    <3>2. w.key \notin Bad
      <4>1. Rank(w.key) \in Nat /\ Rank(q) \in Nat
        BY <1>0, <3>1
      <4> QED BY <2>1, <2>2, <3>1, <4>1
    <3> QED BY <3>1, <3>2
  <2>4. Least(f, c, ways, d, q) \in Nat
    BY <2>3, LeastIsNat
  <2>5. f[q] = Least(f, c, ways, d, q)
    BY DEF SolvesDistance, Least, Sums
  <2> QED BY <2>4, <2>5
<1> QED BY <1>1

LEMMA WaysDescend ==
    ASSUME NEW j \in Batches, NEW d, NEW states,
           StatesRight(ReverseGraph(j.network), d, states), NEW c \in Criteria
    PROVE  Descending(c, WaysOn(ReverseGraph(j.network), states), d, states)
<1> DEFINE graph == ReverseGraph(j.network)
           ways == WaysOn(graph, states)
<1>1. \A q \in states : IsKey(q) /\ q.phase \in Phases
  BY DEF StatesRight, StateRight, IsKey
<1>2. ASSUME NEW w \in ways
      PROVE  /\ w.s[c] \in Nat /\ w.key \in states
             /\ Rank(w.key) < Rank(w.s.before)
  <2>1. PICK q \in states : \E s \in Steps(graph, q) : w = [s |-> s, key |-> q]
    BY DEF WaysOn
  <2>2. PICK s \in Steps(graph, q) : w = [s |-> s, key |-> q]
    BY <2>1
  <2>3. PICK e \in graph : e.to = q.node /\ StepOf(e, q, s)
    BY <1>1, StepsAre
  <2>4. IsEdge(e) /\ IsKey(q)
    BY <1>1, EdgesAre
  <2>5. Rank(q) < Rank(s.before) /\ s[c] \in Nat
    BY <2>3, <2>4, StepFacts
  <2>6. w.s = s /\ w.key = q
    BY <2>2
  <2> QED BY <2>5, <2>6
<1>3. ASSUME NEW q \in states \ Seeds(d)
      PROVE  WaysFrom(ways, q) # {}
  <2>1. PICK p \in states : \E s \in Steps(graph, p) : s.before = q
    BY DEF StatesRight
  <2>2. PICK s \in Steps(graph, p) : s.before = q
    BY <2>1
  <2>3. [s |-> s, key |-> p] \in ways
    BY DEF WaysOn
  <2>4. [s |-> s, key |-> p] \in WaysFrom(ways, q)
    BY <2>2, <2>3 DEF WaysFrom
  <2> QED BY <2>4
<1> HIDE DEF ways
<1>4. Descending(c, ways, d, states)
  BY <1>1, <1>2, <1>3, RankIsNat DEF Descending
<1> QED BY <1>4 DEF ways

LEMMA DistancesSolve ==
    ASSUME NEW c, NEW ways, NEW d, NEW states, Descending(c, ways, d, states)
    PROVE  SolvesDistance(Distances(c, ways, d, states), c, ways, d, states)
<1> DEFINE f == CHOOSE g : SolvesDistance(g, c, ways, d, states)
<1>1. SolvesDistance(f, c, ways, d, states)
  BY DistanceExists, Zenon
<1>2. Distances(c, ways, d, states) = f
  BY DEF Distances, SolvesDistance
<1> QED BY <1>1, <1>2

LEMMA DistancesAreNat ==
    ASSUME NEW j \in Batches, NEW d, d \notin Stops, NEW states,
           StatesRight(ReverseGraph(j.network), d, states),
           NEW c \in Criteria, NEW k \in states
    PROVE  Distances(c, WaysOn(ReverseGraph(j.network), states), d, states)[k] \in Nat
BY WaysDescend, DistancesSolve, DistanceIsNat

\* Whatever the legs of a timetable, the residual model built of them passes
\* validate_destination_residual_reachability: states and bounds of the same
\* keys, phases that fit the nodes, fewer transfers left never better, and
\* distances that are no less than nothing.
THEOREM ResidualIsValid ==
    ASSUME NEW j \in Batches, NEW destinations, destinations \cap Stops = {}
    PROVE  Valid(Residual(j.network, destinations))
<1> DEFINE graph == ReverseGraph(j.network)
           r == Residual(j.network, destinations)
<1>1. DOMAIN r = destinations
  BY DEF Residual
<1>2. ASSUME NEW d \in destinations
      PROVE  /\ r[d].states = ReachableStates(graph, d)
             /\ r[d].bounds = LowerBounds(graph, d, ReachableStates(graph, d))
  BY DEF Residual
<1>3. ASSUME NEW d \in destinations
      PROVE  /\ Seeds(d) \subseteq r[d].states
             /\ \A k \in r[d].states :
                /\ k.left \in 0 .. MaxTransfers
                /\ k.phase = "Completed" => k.node = d
                /\ (k.phase \in {"AtOrigin", "Completed"}) = (k.node \notin Stops)
                /\ k.left < MaxTransfers => [k EXCEPT !.left = @ + 1] \in r[d].states
                /\ k \in DOMAIN r[d].bounds
                /\ r[d].bounds[k].jt >= 0 /\ r[d].bounds[k].nt >= 0
                /\ r[d].bounds[k].imp >= 0
             /\ DOMAIN r[d].bounds \subseteq r[d].states
  <2> DEFINE states == ReachableStates(graph, d)
             bounds == LowerBounds(graph, d, states)
             ways == WaysOn(graph, states)
  <2>1. d \notin Stops
    OBVIOUS
  <2>2. StatesRight(graph, d, states)
    BY <2>1, ReachableStatesAreRight
  <2>3. bounds = [k \in states |-> [jt  |-> Distances("jt", ways, d, states)[k],
                                    nt  |-> Distances("nt", ways, d, states)[k],
                                    imp |-> Distances("imp", ways, d, states)[k]]]
    BY DEF LowerBounds
  <2> HIDE DEF states, bounds
  <2>4. ASSUME NEW k \in states
        PROVE  /\ Distances("jt", ways, d, states)[k] \in Nat
               /\ Distances("nt", ways, d, states)[k] \in Nat
               /\ Distances("imp", ways, d, states)[k] \in Nat
    BY <2>1, <2>2, DistancesAreNat DEF Criteria
  <2> HIDE DEF ways
  <2>5. ASSUME NEW k \in states
        PROVE  /\ k.left \in 0 .. MaxTransfers
               /\ k.phase = "Completed" => k.node = d
               /\ (k.phase \in {"AtOrigin", "Completed"}) = (k.node \notin Stops)
               /\ k.left < MaxTransfers => [k EXCEPT !.left = @ + 1] \in states
               /\ k \in DOMAIN bounds
               /\ bounds[k].jt >= 0 /\ bounds[k].nt >= 0 /\ bounds[k].imp >= 0
    <3>1. StateRight(d, k)
      BY <2>2 DEF StatesRight
    <3>2. k.left < MaxTransfers => Key(k.node, k.phase, k.left + 1) \in states
      BY <2>2 DEF StatesRight
    <3>3. [k EXCEPT !.left = @ + 1] = Key(k.node, k.phase, k.left + 1)
      BY <3>1 DEF StateRight, IsKey, Key
    <3>4. k \in DOMAIN bounds
      BY <2>3
    <3>5. bounds[k].jt >= 0 /\ bounds[k].nt >= 0 /\ bounds[k].imp >= 0
      BY <2>3, <2>4
    <3> QED BY <3>1, <3>2, <3>3, <3>4, <3>5 DEF StateRight, IsKey
  <2>6. Seeds(d) \subseteq states /\ DOMAIN bounds = states
    BY <2>2, <2>3 DEF StatesRight
  <2>7. r[d].states = states /\ r[d].bounds = bounds
    BY <1>2 DEF states, bounds
  <2> HIDE DEF r
  <2> QED BY <2>5, <2>6, <2>7
<1> HIDE DEF r
<1>4. Valid(r)
  BY <1>1, <1>3 DEF Valid
<1> QED BY <1>4 DEF r

------------------------------------------------------------------------------
\* The tree begins.
LEMMA OneBranch ==
    ASSUME NEW b \in BranchType, b.parent = None, b.live = 0, b.self = FALSE,
           b.alive = TRUE
    PROVE  /\ <<b>> \in Seq(BranchType) /\ Forest(<<b>>)
           /\ DOMAIN <<b>> = {1} /\ <<b>>[1] = b
           /\ Counted(<<b>>, {1})
<1>1. /\ <<b>> \in Seq(BranchType) /\ DOMAIN <<b>> = {1} /\ <<b>>[1] = b
  <2>1. /\ <<b>> \in Seq(BranchType) /\ Len(<<b>>) = 1 /\ <<b>>[1] = b
    OBVIOUS
  <2>2. DOMAIN <<b>> = 1 .. 1
    BY <2>1
  <2> QED BY <2>1, <2>2
<1>2. Forest(<<b>>)
  BY <1>1 DEF Forest
<1>3. LivingChildren(<<b>>, 1) = {}
  BY <1>1 DEF LivingChildren, ChildrenOf, None
<1>4. Cardinality({}) = 0
  BY FS_EmptySet
<1>5. Counted(<<b>>, {1})
  BY <1>1, <1>3, <1>4 DEF Counted
<1> QED BY <1>1, <1>2, <1>5

\* The root of a batch, with what can be reached from it.
RootOf(tasks, targets) == [Root EXCEPT !.tasks = tasks, !.targets = targets]

\* Neither the residual model nor what is reached from the root is refused.
LEMMA PrepareSucceeds ==
    ASSUME IInv, Prepare
    PROVE  state' \in {"level", "skipped"}
<1> DEFINE r == Residual(job.network, Range(job.targets))
           tasks == {t \in DOMAIN job.slots :
                        Feasible(r, job.slots[t].to, MaskKey(Root))}
           targets == {t \in DOMAIN job.targets :
                          Feasible(r, job.targets[t], MaskKey(Root))}
<1>1. /\ state = "prepare"
      /\ \/ state' = "skipped"
         \/ state' = IF /\ Valid(r)
                        /\ job.kind = "completion_target" => tasks = targets
                     THEN "level" ELSE "failed"
  BY DEF Prepare
<1>2. job \in Batches
  BY DEF IInv, Typing
<1>3. Valid(r)
  <2>1. Range(job.targets) \cap Stops = {}
    BY <1>2, LegsAssumption
  <2> QED BY <1>2, <2>1, ResidualIsValid
<1>4. job.kind = "completion_target" => tasks = targets
  <2> SUFFICES ASSUME job.kind = "completion_target"
               PROVE  tasks = targets
    OBVIOUS
  <2>1. [s \in DOMAIN job.slots |-> job.slots[s].to] = job.targets
    BY <1>2, BatchesAssumption
  <2>2. /\ DOMAIN job.targets = DOMAIN job.slots
        /\ \A s \in DOMAIN job.slots : job.targets[s] = job.slots[s].to
    BY <2>1
  <2> HIDE DEF r
  <2> QED BY <2>2
<1> QED BY <1>1, <1>3, <1>4

LEMMA PrepareKeeps ==
    ASSUME IInv, Prepare
    PROVE  IInv'
<1> DEFINE r == Residual(job.network, Range(job.targets))
           tasks == {t \in DOMAIN job.slots :
                        Feasible(r, job.slots[t].to, MaskKey(Root))}
           targets == {t \in DOMAIN job.targets :
                          Feasible(r, job.targets[t], MaskKey(Root))}
           b == RootOf(tasks, targets)
<1>1. /\ state = "prepare"
      /\ \/ /\ state' = "skipped"
            /\ UNCHANGED <<residual, arena, current, kept>>
         \/ /\ state' \in {"level", "failed"}
            /\ residual' = r /\ arena' = <<b>> /\ current' = <<1>>
      /\ UNCHANGED <<job, stopping, next, expanding, todo, known, found>>
  BY DEF Prepare, RootOf
<1>2. /\ job \in Batches /\ arena = <<>> /\ expanding = None /\ todo = {}
      /\ next \in Seq(Nat)
  BY <1>1 DEF IInv, Typing
<1>3. CASE state' = "skipped" /\ UNCHANGED <<residual, arena, current, kept>>
  <2>1. Resting
    BY <1>1, <1>3 DEF Resting
  <2> QED BY <2>1, RestingKeeps
<1>4. CASE /\ state' \in {"level", "failed"}
           /\ residual' = r /\ arena' = <<b>> /\ current' = <<1>>
  <2>1. tasks \in SUBSET Served /\ targets \in SUBSET Served
    BY <1>2 DEF Served
  <2>2. state' = "level"
    BY <1>4, PrepareSucceeds
  <2> HIDE DEF b
  <2>3. /\ b \in BranchType /\ b.parent = None /\ b.live = 0 /\ b.self = FALSE
        /\ b.alive = TRUE /\ b.node = Root.node /\ b.phase = "AtOrigin"
        /\ b.m = Root.m /\ b.tasks = tasks
    <3> HIDE DEF tasks, targets
    <3>1. b \in BranchType
      BY <2>1, RootFields DEF b, RootOf, BranchType
    <3>2. /\ b.parent = None /\ b.live = 0 /\ b.self = FALSE /\ b.alive = TRUE
          /\ b.phase = "AtOrigin"
      BY RootFields DEF b, RootOf, BranchType
    <3>3. b.node = Root.node /\ b.m = Root.m /\ b.tasks = tasks
      BY RootFields DEF b, RootOf, BranchType
    <3> QED BY <3>1, <3>2, <3>3
  <2>4. tasks = Surviving(r, job, b)
    <3>1. MaskKey(b) = MaskKey(Root)
      BY <2>3, RootFields DEF MaskKey
    <3>2. \A t \in tasks : Feasible(r, job.slots[t].to, MaskKey(Root))
      OBVIOUS
    <3> HIDE DEF r, tasks
    <3> QED BY <2>3, <3>1, <3>2 DEF Surviving
  <2> HIDE DEF r, tasks, targets
  <2>5. /\ arena' \in Seq(BranchType) /\ Forest(arena')
        /\ DOMAIN arena' = {1} /\ arena'[1] = b
        /\ Counted(arena', {1})
    BY <1>4, <2>3, OneBranch
  <2>6. /\ current' \in Seq(Nat) /\ Range(current') = {1} /\ Distinct(current')
    <3>1. <<1>> \in Seq(Nat) /\ DOMAIN <<1>> = 1 .. 1 /\ <<1>>[1] = 1
      OBVIOUS
    <3> QED BY <1>4, <3>1 DEF Range, Distinct
  <2>7. Range(next') = {} /\ Distinct(next')
    <3>1. DOMAIN arena = {}
      BY <1>2
    <3> QED BY <1>1, <3>1 DEF IInv, Queued, InHand
  <2>8. InHand' = {1} /\ expanding' = None
    BY <1>1, <1>2, <2>6, <2>7 DEF InHand
  <2>9. Typing'
    BY <1>1, <1>2, <2>2, <2>5, <2>6 DEF IInv, Typing
  <2>10. Queued'
    BY <2>5, <2>6, <2>7, <2>8 DEF Queued, None
  <2>11. Counts'
    BY <2>5, <2>8 DEF Counts
  <2>12. Right'
    <3>1. BranchRight(arena, 1)'
      BY <1>1, <1>4, <2>3, <2>4, <2>5, RootFields DEF BranchRight
    <3> QED BY <2>5, <3>1 DEF Right
  <2>13. Leveled'
    <3>1. OfLevel(arena'[1], 0)
      BY <2>3, <2>5, RootFields DEF OfLevel
    <3>2. LevelIs(0)'
      BY <2>6, <2>7, <2>8, <3>1 DEF LevelIs
    <3> QED BY <3>2 DEF Leveled
  <2> QED BY <2>9, <2>10, <2>11, <2>12, <2>13 DEF IInv
<1> QED BY <1>1, <1>3, <1>4

LEMMA InitIsRight ==
    ASSUME TreeInit
    PROVE  IInv
<1>1. /\ job \in Batches /\ state = "prepare" /\ arena = <<>>
      /\ current = <<>> /\ next = <<>> /\ expanding = None /\ todo = {}
  BY DEF TreeInit
<1>2. /\ Range(<<>>) = {} /\ Distinct(<<>>) /\ <<>> \in Seq(Nat)
      /\ <<>> \in Seq(BranchType) /\ DOMAIN <<>> = {}
  BY DEF Range, Distinct
<1>3. Typing
  BY <1>1, <1>2 DEF Typing, Forest
<1>4. InHand = {}
  BY <1>1, <1>2 DEF InHand
<1>5. Queued
  BY <1>1, <1>2, <1>4 DEF Queued
<1>6. Counts
  BY <1>1, <1>2 DEF Counts, Counted
<1>7. Right
  BY <1>1, <1>2 DEF Right
<1>8. LevelIs(0)
  BY <1>1, <1>2 DEF LevelIs
<1> QED BY <1>3, <1>5, <1>6, <1>7, <1>8 DEF IInv, Leveled

LEMMA NextKeeps ==
    ASSUME IInv, [TreeNext]_tree_vars
    PROVE  IInv'
<1>1. CASE Prepare
  BY <1>1, PrepareKeeps
<1>2. CASE Cancel \/ Stop \/ Exhaust \/ UNCHANGED tree_vars
  BY <1>2, RestKeeps
<1>3. CASE AdvanceLevel
  BY <1>3, AdvanceKeeps
<1>4. CASE Pop
  BY <1>4, PopKeeps
<1>5. ASSUME NEW leg \in todo, RejectStep(leg) \/ CompleteStep(leg)
      PROVE  IInv'
  BY <1>5, RestKeeps
<1>6. ASSUME NEW leg \in todo, ContinueStep(leg)
      PROVE  IInv'
  BY <1>6, ContinueKeeps
<1>7. CASE FinishExpansion
  BY <1>7, FinishKeeps
<1> QED BY <1>1, <1>2, <1>3, <1>4, <1>5, <1>6, <1>7 DEF TreeNext, Visit

\* The arena knows what is held and what lives, in every state of every
\* batch: nothing queued or expanded is freed, and nothing else is kept
\* unless a descendant of it is.
THEOREM Invariant == TreeSpec => []IInv
<1>1. TreeInit => IInv
  BY InitIsRight
<1>2. IInv /\ [TreeNext]_tree_vars => IInv'
  BY NextKeeps
<1> QED BY <1>1, <1>2, PTL DEF TreeSpec

------------------------------------------------------------------------------
\* The two layers as one queue.
LEMMA QueueFacts ==
    ASSUME Typing, Queued
    PROVE  /\ IsInjective(Queue)
           /\ Range(Queue) = Range(current) \cup Range(next)
<1> DEFINE q == current \o next
           l == Len(current)
           r == Len(next)
<1>1. /\ l \in Nat /\ r \in Nat /\ DOMAIN current = 1 .. l /\ DOMAIN next = 1 .. r
      /\ DOMAIN q = 1 .. l + r
      /\ \A i \in 1 .. l : q[i] = current[i]
      /\ \A i \in 1 .. l + r : i \notin 1 .. l => i - l \in 1 .. r /\ q[i] = next[i - l]
  <2>1. current \in Seq(Nat) /\ next \in Seq(Nat)
    BY DEF Typing
  <2>2. /\ Len(q) = l + r /\ q \in Seq(Nat)
        /\ \A i \in 1 .. l + r : q[i] = IF i <= l THEN current[i] ELSE next[i - l]
    BY <2>1, ConcatProperties
  <2>3. l \in Nat /\ r \in Nat /\ DOMAIN current = 1 .. l /\ DOMAIN next = 1 .. r
    BY <2>1
  <2>4. DOMAIN q = 1 .. l + r
    BY <2>2
  <2> HIDE DEF q, l, r
  <2> QED BY <2>2, <2>3, <2>4
<1> HIDE DEF q, l, r
<1>2. \A i \in 1 .. r : l + i \in 1 .. l + r /\ l + i \notin 1 .. l /\ (l + i) - l = i
  BY <1>1
<1>3. Range(q) = Range(current) \cup Range(next)
  <2>1. ASSUME NEW x \in Range(q) PROVE x \in Range(current) \cup Range(next)
    <3>1. PICK i \in 1 .. l + r : q[i] = x
      BY <1>1 DEF Range
    <3> QED BY <1>1, <3>1 DEF Range
  <2>2. ASSUME NEW x \in Range(current) PROVE x \in Range(q)
    <3>1. PICK i \in 1 .. l : current[i] = x
      BY <1>1 DEF Range
    <3>2. i \in 1 .. l + r
      BY <1>1
    <3> QED BY <1>1, <3>1, <3>2 DEF Range
  <2>3. ASSUME NEW x \in Range(next) PROVE x \in Range(q)
    <3>1. PICK i \in 1 .. r : next[i] = x
      BY <1>1 DEF Range
    <3>2. q[l + i] = x /\ l + i \in DOMAIN q
      BY <1>1, <1>2, <3>1
    <3> QED BY <3>2 DEF Range
  <2> QED BY <2>1, <2>2, <2>3
<1>4. ASSUME NEW i \in 1 .. l + r, NEW k \in 1 .. l + r, q[i] = q[k]
      PROVE  i = k
  <2>1. /\ Distinct(current) /\ Distinct(next)
        /\ Range(current) \cap Range(next) = {}
    BY DEF Queued
  <2>2. CASE i \in 1 .. l /\ k \in 1 .. l
    BY <1>1, <1>4, <2>1, <2>2 DEF Distinct
  <2>3. CASE i \in 1 .. l /\ k \notin 1 .. l
    <3>1. current[i] \in Range(current) /\ next[k - l] \in Range(next)
      BY <1>1, <2>3 DEF Range
    <3> QED BY <1>1, <1>4, <2>1, <2>3, <3>1
  <2>4. CASE i \notin 1 .. l /\ k \in 1 .. l
    <3>1. current[k] \in Range(current) /\ next[i - l] \in Range(next)
      BY <1>1, <2>4 DEF Range
    <3> QED BY <1>1, <1>4, <2>1, <2>4, <3>1
  <2>5. CASE i \notin 1 .. l /\ k \notin 1 .. l
    <3>1. /\ i - l \in 1 .. r /\ k - l \in 1 .. r
          /\ next[i - l] = next[k - l]
      BY <1>1, <1>4, <2>5
    <3>2. i - l = k - l
      BY <1>1, <2>1, <3>1 DEF Distinct
    <3> QED BY <1>1, <3>2
  <2> QED BY <2>2, <2>3, <2>4, <2>5
<1>5. IsInjective(q)
  BY <1>1, <1>4 DEF IsInjective
<1> QED BY <1>3, <1>5 DEF Queue, q

LEMMA InvariantGivesArenaSound ==
    ASSUME IInv
    PROVE  ArenaSound
<1>1. /\ arena \in Seq(BranchType) /\ Forest(arena)
      /\ InHand \in SUBSET DOMAIN arena /\ Counted(arena, InHand)
  BY DEF IInv, Typing, Queued, Counts
<1>2. /\ IsInjective(Queue) /\ Range(Queue) = Range(current) \cup Range(next)
      /\ Held = InHand
  BY QueueFacts DEF IInv, Held, InHand
<1>4. expanding \notin Range(Queue)
  BY <1>2 DEF IInv, Queued
<1> DEFINE held == InHand
<1> HIDE DEF held
<1>5. held \in SUBSET DOMAIN arena /\ Counted(arena, held) /\ Held = held
  BY <1>1, <1>2 DEF held
<1>6. ASSUME NEW i \in Held, NEW k \in {i} \cup AncestorsOf(i)
      PROVE  k \in Living
  <2>1. i \in DOMAIN arena /\ arena[i].alive
    BY <1>5 DEF Counted
  <2>2. k \in DOMAIN arena /\ arena[k].alive
    BY <1>1, <1>5, <2>1, LivingHaveAncestors DEF AncestorsOf
  <2> QED BY <2>2 DEF Living
<1>7. ASSUME NEW i \in Living
      PROVE  /\ \E h \in Held : i \in {h} \cup AncestorsOf(h)
             /\ i # 1 => PhaseInvariant(Branch(i))
             /\ arena[i].tasks = ReachableTasks(Branch(i), arena[i].tasks)
             /\ i # 1 => /\ arena[i].tasks # {}
                         /\ arena[i].tasks \subseteq arena[arena[i].parent].tasks
  <2>1. i \in DOMAIN arena /\ arena[i].alive
    BY DEF Living
  <2>2. \E h \in held : i \in {h} \cup AncestorsIn(arena, h)
    BY <1>1, <1>5, <2>1, LivingAreHeld
  <2>3. BranchRight(arena, i)
    BY <2>1 DEF IInv, Right
  <2>4. /\ Branch(i).node = arena[i].node /\ Branch(i).phase = arena[i].phase
        /\ Branch(i).m = arena[i].m /\ Branch(i).parent = arena[i].parent
    BY DEF Branch
  <2>5. i # 1 => PhaseInvariant(arena[i])
    BY <2>3 DEF BranchRight
  <2>6. i # 1 => PhaseInvariant(Branch(i))
    BY <2>4, <2>5 DEF PhaseInvariant
  <2>7. MaskKey(Branch(i)) = MaskKey(arena[i])
    BY <2>4 DEF MaskKey
  <2>8. arena[i].tasks = Surviving(residual, job, arena[i])
    BY <2>3 DEF BranchRight
  <2>9. arena[i].tasks = ReachableTasks(Branch(i), arena[i].tasks)
    BY <2>7, <2>8 DEF ReachableTasks, Surviving
  <2>10. i # 1 => /\ arena[i].tasks # {}
                  /\ arena[i].tasks \subseteq arena[arena[i].parent].tasks
    BY <2>3 DEF BranchRight
  <2> QED BY <1>5, <2>2, <2>6, <2>9, <2>10 DEF AncestorsOf
<1>8. ASSUME NEW i \in DOMAIN arena
      PROVE  arena[i].live = Cardinality({c \in Living : arena[c].parent = i})
  <2>1. LivingChildren(arena, i) = {c \in Living : arena[c].parent = i}
    BY DEF LivingChildren, ChildrenOf, Living
  <2> QED BY <1>5, <2>1 DEF Counted
<1>9. ASSUME NEW i \in Range(current), NEW k \in Range(next)
      PROVE  arena[k].m.nt = arena[i].m.nt + 1 \/ ~arena[i].m.boarded
  BY DEF IInv, Leveled, LevelIs, OfLevel
<1> QED BY <1>2, <1>4, <1>6, <1>7, <1>8, <1>9 DEF ArenaSound

\* What is queued or expanded is there once and has all its ancestors; what
\* lives is held or has a descendant that is; the counts of living children
\* are right; phases, masks and levels agree with the legs.
THEOREM ArenaIsSound == TreeSpec => []ArenaSound
<1>1. IInv => ArenaSound
  BY InvariantGivesArenaSound
<1> QED BY <1>1, Invariant, PTL

(***************************************************************************)
(* Nothing is cut that could still arrive: "if a suffix is impossible in   *)
(* the residual model, it is impossible in the timetable"                  *)
(* (residual/types.hpp), and no suffix is better than its bounds.  First,  *)
(* the rounds of build_residual_reachable_states reach a fixpoint.         *)
(***************************************************************************)

\* The legs that are left from a state at most.
Depth(k) == CASE k.phase = "Completed"           -> 0
              [] k.phase = "AfterTransferWalk"   -> 2 * k.left
              [] k.phase = "AfterTimedRide"      -> 2 * k.left + 1
              [] k.phase = "BeforeFirstBoarding" -> 2 * k.left + 2
              [] OTHER                           -> 2 * k.left + 3

LEMMA DepthIsBounded ==
    ASSUME NEW k, IsKey(k)
    PROVE  Depth(k) \in 0 .. LongestSuffix
<1>1. k.phase \in Phases /\ k.left \in 0 .. MaxTransfers /\ MaxTransfers \in Nat
  BY MaxTransfersAssumption DEF IsKey
<1> QED BY <1>1 DEF Depth, LongestSuffix, Phases

LEMMA DepthGrows ==
    ASSUME NEW e, NEW key, IsKey(key), NEW s, StepOf(e, key, s)
    PROVE  Depth(key) < Depth(s.before)
<1>1. key.left \in Nat /\ MaxTransfers \in Nat
  BY MaxTransfersAssumption DEF IsKey
<1>2. ASSUME NEW phase, NEW left, NEW transfers
      PROVE  /\ Step(e, phase, left, transfers).before.phase = phase
             /\ Step(e, phase, left, transfers).before.left = left
  BY KeyFields DEF Step
<1>3. CASE /\ key.phase \in {"Completed", "AfterTransferWalk"}
           /\ s = Step(e, "AfterTimedRide", key.left, 0)
  BY <1>1, <1>2, <1>3 DEF Depth
<1>4. CASE /\ key.phase = "BeforeFirstBoarding"
           /\ s = Step(e, "AtOrigin", key.left, 0)
  BY <1>1, <1>2, <1>4 DEF Depth
<1>5. CASE /\ key.phase = "AfterTimedRide"
           /\ s = Step(e, "BeforeFirstBoarding", key.left, 0)
  BY <1>1, <1>2, <1>5 DEF Depth
<1>6. ASSUME key.phase = "AfterTimedRide",
             NEW phase \in {"AfterTimedRide", "AfterTransferWalk"},
             s = Step(e, phase, key.left + 1, 1)
      PROVE  Depth(key) < Depth(s.before)
  BY <1>1, <1>2, <1>6 DEF Depth
<1> QED BY <1>3, <1>4, <1>5, <1>6 DEF StepOf

\* One leg before a state, whichever leg it is.
LEMMA StepIsBefore ==
    ASSUME NEW j \in Batches, NEW key, IsKey(key),
           NEW s \in Steps(ReverseGraph(j.network), key)
    PROVE  IsKey(s.before) /\ Depth(key) < Depth(s.before)
<1>1. key.phase \in Phases
  BY DEF IsKey
<1>2. PICK e \in ReverseGraph(j.network) : e.to = key.node /\ StepOf(e, key, s)
  BY <1>1, StepsAre
<1>3. IsEdge(e)
  BY EdgesAre
<1> QED BY <1>2, <1>3, StepFacts, DepthGrows

\* The states of round n are there as soon as a round has their depth.
LEMMA RoundsReachDepth ==
    ASSUME NEW j \in Batches, NEW d, d \notin Stops, NEW f,
           SolvesGrown(f, ReverseGraph(j.network), d), NEW n \in 0 .. LongestSuffix,
           NEW k \in f[n], NEW m \in 0 .. LongestSuffix, Depth(k) <= m
    PROVE  k \in f[m]
<1> DEFINE graph == ReverseGraph(j.network)
           RightUp == {l \in 0 .. LongestSuffix : StatesRight(graph, d, f[l])}
           Early(l) == \A q \in f[l] : \A i \in 0 .. LongestSuffix :
                            Depth(q) <= i => q \in f[i]
           EarlyUp == {l \in 0 .. LongestSuffix : Early(l)}
<1>1. LongestSuffix \in Nat
  BY LongestIsNat
<1>2. ASSUME NEW l \in 0 .. LongestSuffix
      PROVE  f[l] = IF l = 0 THEN Seeds(d) ELSE WithPredecessors(graph, f[l - 1])
  BY DEF SolvesGrown
<1>3. \A l \in 0 .. LongestSuffix : StatesRight(graph, d, f[l])
  <2>1. 0 \in RightUp
    BY <1>1, <1>2, SeedsAreRight
  <2>2. ASSUME NEW l \in 1 .. LongestSuffix, l - 1 \in RightUp
        PROVE  l \in RightUp
    <3>1. l \in 0 .. LongestSuffix /\ l # 0 /\ StatesRight(graph, d, f[l - 1])
      BY <1>1, <2>2
    <3>2. f[l] = WithPredecessors(graph, f[l - 1])
      BY <1>2, <3>1
    <3>3. StatesRight(graph, d, f[l])
      BY <3>1, <3>2, RoundKeepsRight
    <3> QED BY <3>1, <3>3
  <2> HIDE DEF RightUp
  <2>3. 0 .. LongestSuffix \subseteq RightUp
    BY <1>1, <2>1, <2>2, UpTo
  <2> QED BY <2>3 DEF RightUp
<1>4. ASSUME NEW l \in 0 .. LongestSuffix, NEW q \in f[l]
      PROVE  IsKey(q) /\ q.phase \in Phases
  BY <1>3 DEF StatesRight, StateRight, IsKey
<1>5. 0 \in EarlyUp
  <2>1. f[0] = Seeds(d) /\ 0 \in 0 .. LongestSuffix
    BY <1>1, <1>2
  <2>2. \A i \in 0 .. LongestSuffix : Seeds(d) \subseteq f[i]
    BY <1>3 DEF StatesRight
  <2> QED BY <2>1, <2>2
<1>6. ASSUME NEW l \in 1 .. LongestSuffix, l - 1 \in EarlyUp
      PROVE  l \in EarlyUp
  <2>1. l \in 0 .. LongestSuffix /\ l # 0 /\ l - 1 \in 0 .. LongestSuffix /\ Early(l - 1)
    BY <1>1, <1>6
  <2>2. f[l] = WithPredecessors(graph, f[l - 1])
    BY <1>2, <2>1
  <2>3. ASSUME NEW q \in f[l], NEW i \in 0 .. LongestSuffix, Depth(q) <= i
        PROVE  q \in f[i]
    <3>1. CASE q \in f[l - 1]
      BY <2>1, <2>3, <3>1
    <3>2. CASE q \notin f[l - 1]
      <4>1. PICK p \in f[l - 1] : \E s \in Steps(graph, p) : s.before = q
        BY <2>2, <3>2 DEF WithPredecessors
      <4>2. IsKey(p) /\ IsKey(q) /\ Depth(p) < Depth(q)
        BY <1>4, <2>1, <4>1, StepIsBefore
      <4>3. Depth(p) \in Nat /\ Depth(q) \in Nat
        BY <4>2, DepthIsBounded
      <4>4. i # 0 /\ i - 1 \in 0 .. LongestSuffix /\ Depth(p) <= i - 1
        BY <1>1, <2>3, <4>2, <4>3
      <4>5. p \in f[i - 1]
        BY <2>1, <4>1, <4>4
      <4>6. f[i] = WithPredecessors(graph, f[i - 1])
        BY <1>2, <4>4
      <4> QED BY <4>1, <4>5, <4>6 DEF WithPredecessors
    <3> QED BY <3>1, <3>2
  <2> QED BY <2>1, <2>3
<1>7. n \in EarlyUp
  <2> HIDE DEF EarlyUp
  <2>1. 0 .. LongestSuffix \subseteq EarlyUp
    BY <1>1, <1>5, <1>6, UpTo
  <2> QED BY <2>1
<1> QED BY <1>7

\* A state one leg before a state is found, too.
LEMMA StatesAreClosed ==
    ASSUME NEW j \in Batches, NEW d, d \notin Stops,
           NEW key \in ReachableStates(ReverseGraph(j.network), d),
           NEW s \in Steps(ReverseGraph(j.network), key)
    PROVE  s.before \in ReachableStates(ReverseGraph(j.network), d)
<1> DEFINE graph == ReverseGraph(j.network)
           f == CHOOSE g : SolvesGrown(g, graph, d)
           last == LongestSuffix
<1>1. SolvesGrown(f, graph, d)
  BY GrownExists, Zenon
<1>2. ReachableStates(graph, d) = f[last]
  BY DEF ReachableStates, SolvesGrown
<1> HIDE DEF f
<1>3. IsKey(key)
  BY ReachableStatesAreRight DEF StatesRight, StateRight
<1>4. IsKey(s.before) /\ Depth(key) < Depth(s.before)
  BY <1>3, StepIsBefore
<1>5. /\ last \in Nat /\ Depth(key) \in 0 .. last /\ Depth(s.before) \in 0 .. last
  BY <1>3, <1>4, DepthIsBounded, LongestIsNat
<1> HIDE DEF last
<1>6. last - 1 \in 0 .. last /\ last # 0 /\ Depth(key) <= last - 1 /\ last \in 0 .. last
  BY <1>4, <1>5
<1>7. key \in f[last - 1]
  BY <1>1, <1>2, <1>6, RoundsReachDepth DEF last
<1>8. f[last] = WithPredecessors(graph, f[last - 1])
  BY <1>1, <1>6 DEF SolvesGrown, last
<1> QED BY <1>2, <1>7, <1>8 DEF WithPredecessors

------------------------------------------------------------------------------
\* What a branch is to the residual model: where it stands, with what.
Onward(x, leg) == [node |-> leg.to, phase |-> NextPhase(x, leg),
                   m |-> Extend(x.m, leg)]

\* A leg that the tree may take from there: what WalkAdmitted and
\* RideAdmitted ask for, whichever zones are still wanted, whichever vehicle
\* was left and whichever departures are looked for.
MayTake(x, leg) ==
    /\ leg.from = x.node
    /\ \/ leg.kind = "walk" /\ x.phase = "AtOrigin" /\ leg.to \in Stops
       \/ leg.kind = "walk" /\ x.phase = "AfterTimedRide"
       \/ /\ leg.kind = "ride" /\ x.phase \notin {"AtOrigin", "Completed"}
          /\ x.m.boarded => /\ x.m.nt < MaxTransfers
                            /\ leg.dep - x.m.now \in MinWait .. MaxWait

\* What is true of every branch a tree can have.
Standing(x) ==
    /\ x.m \in Travelled /\ x.m.nt <= MaxTransfers
    /\ \/ x.phase = "AtOrigin" /\ x.node \notin Stops /\ ~x.m.boarded
       \/ x.phase = "BeforeFirstBoarding" /\ x.node \in Stops /\ ~x.m.boarded
       \/ /\ x.phase \in {"AfterTimedRide", "AfterTransferWalk"}
          /\ x.node \in Stops /\ x.m.boarded
       \/ x.phase = "Completed" /\ x.node \notin Stops /\ x.m.boarded

LEMMA TravelledFields ==
    ASSUME NEW v \in Travelled
    PROVE  /\ v.boarded \in BOOLEAN /\ v.dep \in Int /\ v.now \in Int
           /\ v.access \in Int /\ v.nt \in Nat /\ v.imp \in Int
BY DEF Travelled

LEMMA OnwardFields ==
    ASSUME NEW x, NEW leg
    PROVE  /\ Onward(x, leg).node = leg.to
           /\ Onward(x, leg).phase = NextPhase(x, leg)
           /\ Onward(x, leg).m = Extend(x.m, leg)
BY DEF Onward

LEMMA OnwardStands ==
    ASSUME NEW j \in Batches, NEW leg \in j.network, NEW x, Standing(x),
           MayTake(x, leg)
    PROVE  Standing(Onward(x, leg))
<1> DEFINE y == Onward(x, leg)
<1>1. /\ y.node = leg.to /\ y.phase = NextPhase(x, leg) /\ y.m = Extend(x.m, leg)
      /\ x.m \in Travelled /\ x.m.nt <= MaxTransfers
  BY OnwardFields DEF Standing
<1>2. /\ y.m \in Travelled
      /\ leg.kind = "walk" => y.m.boarded = x.m.boarded /\ y.m.nt = x.m.nt
      /\ leg.kind = "ride" => /\ y.m.boarded
                              /\ y.m.nt = x.m.nt + (IF x.m.boarded THEN 1 ELSE 0)
  BY <1>1, ExtendTyped
<1>3. x.m.nt \in Nat /\ x.m.boarded \in BOOLEAN /\ MaxTransfers \in Nat
  BY <1>1, TravelledFields, MaxTransfersAssumption
<1> HIDE DEF y
<1>4. CASE leg.kind = "walk" /\ x.phase = "AtOrigin" /\ leg.to \in Stops
  <2>1. y.phase = "BeforeFirstBoarding" /\ ~y.m.boarded
    BY <1>1, <1>2, <1>4 DEF NextPhase, Standing
  <2> QED BY <1>1, <1>2, <1>4, <2>1 DEF Standing, y
<1>5. CASE leg.kind = "walk" /\ x.phase = "AfterTimedRide"
  <2>1. /\ y.phase = IF leg.to \notin Stops THEN "Completed" ELSE "AfterTransferWalk"
        /\ y.m.boarded
    BY <1>1, <1>2, <1>5 DEF NextPhase, Standing
  <2> QED BY <1>1, <1>2, <1>5, <2>1 DEF Standing, y
<1>6. CASE /\ leg.kind = "ride" /\ x.phase \notin {"AtOrigin", "Completed"}
           /\ x.m.boarded => x.m.nt < MaxTransfers
  <2>1. y.phase = "AfterTimedRide" /\ y.m.boarded /\ leg.to \in Stops
    BY <1>1, <1>2, <1>6, LegFields DEF NextPhase
  <2>2. y.m.nt <= MaxTransfers
    BY <1>1, <1>2, <1>3, <1>6
  <2> QED BY <1>1, <1>2, <2>1, <2>2 DEF Standing, y
<1> QED BY <1>4, <1>5, <1>6 DEF MayTake, y

\* The edge that stands for a leg takes no longer.
LEMMA EdgeOfLeg ==
    ASSUME NEW j \in Batches, NEW leg \in j.network
    PROVE  \E e \in ReverseGraph(j.network) :
                /\ e.kind = leg.kind /\ e.from = leg.from /\ e.to = leg.to
                /\ e.time \in Nat /\ LegTime(leg) \in Nat /\ e.time <= LegTime(leg)
<1> DEFINE times == {LegTime(p) : p \in Parallel(j.network, leg)}
           e == [kind |-> leg.kind, from |-> leg.from, to |-> leg.to,
                 time |-> Min(times)]
<1>1. e \in ReverseGraph(j.network)
  BY DEF ReverseGraph
<1>2. e.kind = leg.kind /\ e.from = leg.from /\ e.to = leg.to /\ e.time = Min(times)
  OBVIOUS
<1> HIDE DEF e
<1>3. ASSUME NEW p \in j.network PROVE LegTime(p) \in Nat
  <2>1. CASE p.kind = "walk"
    BY <2>1, LegFields DEF LegTime
  <2>2. CASE p.kind = "ride"
    <3>1. p.dep \in Int /\ p.arr \in Int /\ p.dep <= p.arr
      BY <2>2, LegsAssumption
    <3> QED BY <2>2, <3>1 DEF LegTime
  <2> QED BY <2>1, <2>2, LegFields
<1>4. times \in SUBSET Nat /\ LegTime(leg) \in times
  <2>1. leg \in Parallel(j.network, leg) /\ Parallel(j.network, leg) \subseteq j.network
    BY DEF Parallel
  <2> QED BY <1>3, <2>1
<1> HIDE DEF times
<1>5. Min(times) \in times /\ \A t \in times : Min(times) <= t
  <2>1. times # {}
    BY <1>4
  <2> QED BY <1>4, <2>1, MinIsLeast
<1>6. e.time \in Nat /\ LegTime(leg) \in Nat /\ e.time <= LegTime(leg)
  BY <1>2, <1>3, <1>4, <1>5
<1> QED BY <1>1, <1>2, <1>6

LEMMA WeighsMore ==
    ASSUME NEW w \in Nat, NEW a \in Nat, NEW b \in Nat, a <= b
    PROVE  w * a \in Nat /\ w * b \in Nat /\ w * a <= w * b
<1>1. PICK c \in Nat : b = a + c
  <2>1. b - a \in Nat /\ b = a + (b - a)
    OBVIOUS
  <2> QED BY <2>1
<1>2. w * b = w * a + w * c
  BY <1>1
<1>3. w * a \in Nat /\ w * c \in Nat
  OBVIOUS
<1> QED BY <1>2, <1>3

\* What a leg adds to the metrics, field by field.
LEMMA WalkAdds ==
    ASSUME NEW v \in Travelled, NEW leg, leg.kind = "walk", leg.time \in Nat
    PROVE  /\ Extend(v, leg).boarded = v.boarded /\ Extend(v, leg).dep = v.dep
           /\ Extend(v, leg).nt = v.nt
           /\ Extend(v, leg).imp = v.imp + WalkWeight * leg.time
           /\ v.boarded => Extend(v, leg).now = v.now + leg.time
           /\ ~v.boarded => Extend(v, leg).access = v.access + leg.time
<1>1. CASE v.boarded
  <2>1. Extend(v, leg) = [v EXCEPT !.now = v.now + leg.time,
                                   !.imp = v.imp + WalkWeight * leg.time]
    BY <1>1 DEF Extend
  <2> QED BY <1>1, <2>1 DEF Travelled
<1>2. CASE ~v.boarded
  <2>1. Extend(v, leg) = [v EXCEPT !.access = v.access + leg.time,
                                   !.imp = v.imp + WalkWeight * leg.time]
    BY <1>2 DEF Extend
  <2> QED BY <1>2, <2>1 DEF Travelled
<1> QED BY <1>1, <1>2

LEMMA RideAdds ==
    ASSUME NEW v \in Travelled, NEW leg, leg.kind = "ride"
    PROVE  /\ Extend(v, leg).boarded /\ Extend(v, leg).now = leg.arr
           /\ v.boarded =>
                /\ Extend(v, leg).dep = v.dep /\ Extend(v, leg).nt = v.nt + 1
                /\ Extend(v, leg).imp = v.imp + WaitWeight * (leg.dep - v.now)
                                          + TransferPenalty
                                          + (leg.arr - leg.dep) + leg.fare
           /\ ~v.boarded =>
                /\ Extend(v, leg).dep = leg.dep - v.access
                /\ Extend(v, leg).nt = v.nt
                /\ Extend(v, leg).imp = v.imp + (leg.arr - leg.dep) + leg.fare
<1>1. CASE v.boarded
  <2> DEFINE cost == v.imp + WaitWeight * (leg.dep - v.now) + TransferPenalty
                       + (leg.arr - leg.dep) + leg.fare
  <2>1. Extend(v, leg) = [v EXCEPT !.now = leg.arr, !.nt = v.nt + 1, !.imp = cost]
    BY <1>1 DEF Extend
  <2> HIDE DEF cost
  <2>2. /\ Extend(v, leg).boarded = v.boarded /\ Extend(v, leg).now = leg.arr
        /\ Extend(v, leg).dep = v.dep /\ Extend(v, leg).nt = v.nt + 1
        /\ Extend(v, leg).imp = cost
    BY <2>1 DEF Travelled
  <2> QED BY <1>1, <2>2 DEF cost
<1>2. CASE ~v.boarded
  <2> DEFINE cost == v.imp + (leg.arr - leg.dep) + leg.fare
  <2>1. Extend(v, leg) = [v EXCEPT !.boarded = TRUE, !.dep = leg.dep - v.access,
                                   !.now = leg.arr, !.imp = cost]
    BY <1>2 DEF Extend
  <2> HIDE DEF cost
  <2>2. /\ Extend(v, leg).boarded = TRUE /\ Extend(v, leg).now = leg.arr
        /\ Extend(v, leg).dep = leg.dep - v.access /\ Extend(v, leg).nt = v.nt
        /\ Extend(v, leg).imp = cost
    BY <2>1 DEF Travelled
  <2> QED BY <1>2, <2>2 DEF cost
<1> QED BY <1>1, <1>2

LEMMA MetricsFields ==
    ASSUME NEW v \in Travelled
    PROVE  /\ Metrics(v)["nt"] = v.nt /\ Metrics(v)["imp"] = v.imp
           /\ v.boarded => /\ Metrics(v).dep = v.dep /\ Metrics(v).arr = v.now
                           /\ Metrics(v)["jt"] = v.now - v.dep
           /\ ~v.boarded => /\ Metrics(v).dep = 0 /\ Metrics(v).arr = v.access
                            /\ Metrics(v)["jt"] = v.access
           /\ \A c \in Criteria : Metrics(v)[c] \in Int
<1>1. /\ v.boarded \in BOOLEAN /\ v.dep \in Int /\ v.now \in Int
      /\ v.access \in Int /\ v.nt \in Nat /\ v.imp \in Int
  BY TravelledFields
<1>2. /\ Metrics(v)["nt"] = v.nt /\ Metrics(v)["imp"] = v.imp
      /\ v.boarded => /\ Metrics(v).dep = v.dep /\ Metrics(v).arr = v.now
                      /\ Metrics(v)["jt"] = v.now - v.dep
      /\ ~v.boarded => /\ Metrics(v).dep = 0 /\ Metrics(v).arr = v.access
                       /\ Metrics(v)["jt"] = v.access
  BY <1>1 DEF Metrics
<1>3. Metrics(v)["jt"] \in Int
  BY <1>1, <1>2
<1> QED BY <1>1, <1>2, <1>3 DEF Criteria

\* One leg is one step of the residual model, which costs no more of anything.
Costs(x, y, s) == \A c \in Criteria : /\ s[c] \in Nat
                                      /\ Metrics(x.m)[c] + s[c] <= Metrics(y.m)[c]

LEMMA StepCosts ==
    ASSUME NEW e, NEW phase, NEW left, NEW transfers \in {0, 1}, e.time \in Nat
    PROVE  LET s == Step(e, phase, left, transfers)
           IN  /\ s.before = Key(e.from, phase, left)
               /\ s["jt"] = e.time /\ s["nt"] = transfers
               /\ e.kind = "walk" => s["imp"] = WalkWeight * e.time
               /\ e.kind = "ride" /\ transfers = 0 => s["imp"] = e.time
               /\ e.kind = "ride" /\ transfers = 1 => s["imp"] = e.time + TransferPenalty
<1>1. TransferPenalty * 0 = 0 /\ TransferPenalty * 1 = TransferPenalty
  BY WeightsAssumption
<1>2. TransferPenalty \in Nat
  BY WeightsAssumption
<1> QED BY <1>1, <1>2 DEF Step

LEMMA WalkCosts ==
    ASSUME NEW x, x.m \in Travelled, NEW leg, leg.kind = "walk", leg.time \in Nat,
           NEW y, y.m = Extend(x.m, leg),
           NEW e, e.kind = "walk", e.time \in Nat, e.time <= leg.time,
           NEW phase, NEW left, y.m \in Travelled
    PROVE  Costs(x, y, Step(e, phase, left, 0))
<1> DEFINE s == Step(e, phase, left, 0)
<1>1. /\ s["jt"] = e.time /\ s["nt"] = 0 /\ s["imp"] = WalkWeight * e.time
  BY StepCosts
<1>2. /\ y.m.boarded = x.m.boarded /\ y.m.dep = x.m.dep /\ y.m.nt = x.m.nt
      /\ y.m.imp = x.m.imp + WalkWeight * leg.time
      /\ x.m.boarded => y.m.now = x.m.now + leg.time
      /\ ~x.m.boarded => y.m.access = x.m.access + leg.time
  BY WalkAdds
<1>3. /\ WalkWeight * e.time \in Nat /\ WalkWeight * leg.time \in Nat
      /\ WalkWeight * e.time <= WalkWeight * leg.time
  BY WeighsMore, WeightsAssumption
<1>4. /\ x.m.boarded \in BOOLEAN /\ x.m.dep \in Int /\ x.m.now \in Int
      /\ x.m.access \in Int /\ x.m.nt \in Nat /\ x.m.imp \in Int
  BY TravelledFields
<1> DEFINE a == WalkWeight * e.time
           b == WalkWeight * leg.time
<1> HIDE DEF s, a, b
<1>5. Metrics(x.m)["jt"] + s["jt"] <= Metrics(y.m)["jt"]
  <2>1. CASE x.m.boarded
    <3>1. /\ Metrics(x.m)["jt"] = x.m.now - x.m.dep
          /\ Metrics(y.m)["jt"] = (x.m.now + leg.time) - x.m.dep
      BY <1>2, <2>1, MetricsFields
    <3> QED BY <1>1, <1>4, <3>1
  <2>2. CASE ~x.m.boarded
    <3>1. /\ Metrics(x.m)["jt"] = x.m.access
          /\ Metrics(y.m)["jt"] = x.m.access + leg.time
      BY <1>2, <2>2, MetricsFields
    <3> QED BY <1>1, <1>4, <3>1
  <2> QED BY <2>1, <2>2
<1>6. Metrics(x.m)["nt"] + s["nt"] <= Metrics(y.m)["nt"]
  BY <1>1, <1>2, <1>4, MetricsFields
<1>7. Metrics(x.m)["imp"] + s["imp"] <= Metrics(y.m)["imp"]
  <2>1. Metrics(x.m)["imp"] = x.m.imp /\ Metrics(y.m)["imp"] = x.m.imp + b
    BY <1>2, MetricsFields DEF b
  <2>2. s["imp"] = a /\ a \in Nat /\ b \in Nat /\ a <= b
    BY <1>1, <1>3 DEF a, b
  <2> QED BY <1>4, <2>1, <2>2
<1>8. \A c \in Criteria : s[c] \in Nat
  BY <1>1, <1>3 DEF Criteria
<1> QED BY <1>5, <1>6, <1>7, <1>8 DEF Costs, Criteria, s

LEMMA RideCosts ==
    ASSUME NEW x, x.m \in Travelled, NEW leg, leg.kind = "ride",
           leg.dep \in Int, leg.arr \in Int, leg.dep <= leg.arr, leg.fare \in Nat,
           x.m.boarded => leg.dep - x.m.now \in Nat,
           NEW y, y.m = Extend(x.m, leg), y.m \in Travelled,
           NEW e, e.kind = "ride", e.time \in Nat, e.time <= leg.arr - leg.dep,
           NEW phase, NEW left
    PROVE  /\ ~x.m.boarded => Costs(x, y, Step(e, phase, left, 0))
           /\ x.m.boarded => Costs(x, y, Step(e, phase, left, 1))
<1>0. TransferPenalty \in Nat /\ WaitWeight \in Nat
  BY WeightsAssumption
<1>1. /\ y.m.boarded /\ y.m.now = leg.arr
      /\ x.m.boarded =>
           /\ y.m.dep = x.m.dep /\ y.m.nt = x.m.nt + 1
           /\ y.m.imp = x.m.imp + WaitWeight * (leg.dep - x.m.now)
                          + TransferPenalty + (leg.arr - leg.dep) + leg.fare
      /\ ~x.m.boarded =>
           /\ y.m.dep = leg.dep - x.m.access /\ y.m.nt = x.m.nt
           /\ y.m.imp = x.m.imp + (leg.arr - leg.dep) + leg.fare
  BY RideAdds
<1>2. /\ x.m.boarded \in BOOLEAN /\ x.m.dep \in Int /\ x.m.now \in Int
      /\ x.m.access \in Int /\ x.m.nt \in Nat /\ x.m.imp \in Int
  BY TravelledFields
<1>3. /\ Metrics(y.m)["jt"] = y.m.now - y.m.dep /\ Metrics(y.m)["nt"] = y.m.nt
      /\ Metrics(y.m)["imp"] = y.m.imp /\ Metrics(x.m)["nt"] = x.m.nt
      /\ Metrics(x.m)["imp"] = x.m.imp
      /\ x.m.boarded => Metrics(x.m)["jt"] = x.m.now - x.m.dep
      /\ ~x.m.boarded => Metrics(x.m)["jt"] = x.m.access
  BY <1>1, MetricsFields
<1>4. ASSUME ~x.m.boarded
      PROVE  Costs(x, y, Step(e, phase, left, 0))
  <2> DEFINE s == Step(e, phase, left, 0)
  <2>1. s["jt"] = e.time /\ s["nt"] = 0 /\ s["imp"] = e.time
    BY StepCosts
  <2> HIDE DEF s
  <2>2. Metrics(x.m)["jt"] + s["jt"] <= Metrics(y.m)["jt"]
    <3>1. /\ Metrics(x.m)["jt"] = x.m.access
          /\ Metrics(y.m)["jt"] = leg.arr - (leg.dep - x.m.access)
      BY <1>1, <1>3, <1>4
    <3> QED BY <1>2, <2>1, <3>1
  <2>3. Metrics(x.m)["nt"] + s["nt"] <= Metrics(y.m)["nt"]
    BY <1>1, <1>2, <1>3, <1>4, <2>1
  <2>4. Metrics(x.m)["imp"] + s["imp"] <= Metrics(y.m)["imp"]
    <3>1. /\ Metrics(x.m)["imp"] = x.m.imp
          /\ Metrics(y.m)["imp"] = x.m.imp + (leg.arr - leg.dep) + leg.fare
      BY <1>1, <1>3, <1>4
    <3> QED BY <1>2, <2>1, <3>1
  <2> QED BY <2>1, <2>2, <2>3, <2>4 DEF Costs, Criteria, s
<1>5. ASSUME x.m.boarded
      PROVE  Costs(x, y, Step(e, phase, left, 1))
  <2> DEFINE s == Step(e, phase, left, 1)
             wait == WaitWeight * (leg.dep - x.m.now)
  <2>1. s["jt"] = e.time /\ s["nt"] = 1 /\ s["imp"] = e.time + TransferPenalty
    BY StepCosts
  <2>2. wait \in Nat
    <3> DEFINE n == leg.dep - x.m.now
    <3>1. n \in Nat
      BY <1>5
    <3> HIDE DEF n
    <3>2. WaitWeight * n \in Nat
      BY <1>0, <3>1
    <3> QED BY <3>2 DEF n
  <2> HIDE DEF s, wait
  <2>3. Metrics(x.m)["jt"] + s["jt"] <= Metrics(y.m)["jt"]
    <3>1. /\ Metrics(x.m)["jt"] = x.m.now - x.m.dep
          /\ Metrics(y.m)["jt"] = leg.arr - x.m.dep
      BY <1>1, <1>3, <1>5
    <3>2. x.m.now <= leg.dep
      BY <1>2, <1>5
    <3> QED BY <1>2, <2>1, <3>1, <3>2
  <2>4. Metrics(x.m)["nt"] + s["nt"] <= Metrics(y.m)["nt"]
    BY <1>1, <1>2, <1>3, <1>5, <2>1
  <2>5. Metrics(x.m)["imp"] + s["imp"] <= Metrics(y.m)["imp"]
    <3>1. /\ Metrics(x.m)["imp"] = x.m.imp
          /\ Metrics(y.m)["imp"] = x.m.imp + wait + TransferPenalty
                                     + (leg.arr - leg.dep) + leg.fare
      BY <1>1, <1>3, <1>5 DEF wait
    <3> QED BY <1>0, <1>2, <2>1, <2>2, <3>1
  <2>6. \A c \in Criteria : s[c] \in Nat
    BY <1>0, <2>1 DEF Criteria
  <2> QED BY <2>3, <2>4, <2>5, <2>6 DEF Costs, Criteria, s
<1> QED BY <1>4, <1>5

LEMMA MaskIsKey ==
    ASSUME NEW x, Standing(x)
    PROVE  /\ IsKey(MaskKey(x))
           /\ MaskKey(x).node = x.node /\ MaskKey(x).phase = x.phase
           /\ MaskKey(x).left = MaxTransfers - x.m.nt
<1>1. x.m.nt \in Nat /\ x.m.nt <= MaxTransfers /\ MaxTransfers \in Nat
  BY TravelledFields, MaxTransfersAssumption DEF Standing
<1>2. x.phase \in Phases
  BY DEF Standing, Phases
<1>3. MaskKey(x) = Key(x.node, x.phase, MaxTransfers - x.m.nt)
  BY DEF MaskKey
<1>4. /\ MaskKey(x).node = x.node /\ MaskKey(x).phase = x.phase
      /\ MaskKey(x).left = MaxTransfers - x.m.nt
  BY <1>3, KeyFields
<1> QED BY <1>1, <1>2, <1>3, <1>4 DEF IsKey

\* Every leg a tree may take is a step of the residual model.
LEMMA LegIsStep ==
    ASSUME NEW j \in Batches, NEW leg \in j.network, NEW x, Standing(x),
           MayTake(x, leg)
    PROVE  \E s \in Steps(ReverseGraph(j.network), MaskKey(Onward(x, leg))) :
                s.before = MaskKey(x) /\ Costs(x, Onward(x, leg), s)
<1> DEFINE y == Onward(x, leg)
           key == MaskKey(y)
           left == MaxTransfers - x.m.nt
<1>1. /\ Standing(y) /\ y.node = leg.to /\ y.phase = NextPhase(x, leg)
      /\ y.m = Extend(x.m, leg)
  BY OnwardStands, OnwardFields
<1>2. /\ IsKey(key) /\ key.node = leg.to /\ key.phase = y.phase
      /\ key.left = MaxTransfers - y.m.nt
      /\ MaskKey(x) = Key(leg.from, x.phase, left)
  <2>1. MaskKey(x) = Key(leg.from, x.phase, left)
    BY DEF MaskKey, MayTake
  <2> QED BY <1>1, <2>1, MaskIsKey
<1>3. PICK e \in ReverseGraph(j.network) :
        /\ e.kind = leg.kind /\ e.from = leg.from /\ e.to = leg.to
        /\ e.time \in Nat /\ LegTime(leg) \in Nat /\ e.time <= LegTime(leg)
  BY EdgeOfLeg
<1>4. /\ x.m \in Travelled /\ y.m \in Travelled /\ leg.from = x.node
      /\ x.m.nt \in Nat /\ y.m.nt \in Nat /\ MaxTransfers \in Nat
      /\ x.m.boarded \in BOOLEAN /\ y.m.nt <= MaxTransfers
  BY <1>1, TravelledFields, MaxTransfersAssumption DEF Standing, MayTake
<1> HIDE DEF y, key
<1>5. ASSUME NEW s, StepOf(e, key, s), s.before = Key(leg.from, x.phase, left),
             Costs(x, y, s)
      PROVE  \E t \in Steps(ReverseGraph(j.network), key) :
                t.before = MaskKey(x) /\ Costs(x, y, t)
  <2>1. s \in Steps(ReverseGraph(j.network), key)
    BY <1>2, <1>3, <1>5, StepsAre DEF IsKey
  <2> QED BY <1>2, <1>5, <2>1
<1>6. ASSUME leg.kind = "walk", NEW phase
      PROVE  Costs(x, y, Step(e, phase, left, 0)) /\ y.m.nt = x.m.nt /\ key.left = left
  <2>1. leg.time \in Nat /\ LegTime(leg) = leg.time
    BY <1>6, LegFields DEF LegTime
  <2>2. y.m.nt = x.m.nt
    BY <1>1, <1>4, <1>6, <2>1, WalkAdds
  <2> QED BY <1>1, <1>2, <1>3, <1>4, <1>6, <2>1, <2>2, WalkCosts
<1>7. CASE leg.kind = "walk" /\ x.phase = "AtOrigin" /\ leg.to \in Stops
  <2> DEFINE s == Step(e, "AtOrigin", left, 0)
  <2>1. y.phase = "BeforeFirstBoarding" /\ leg.from \notin Stops
    BY <1>1, <1>4, <1>7 DEF NextPhase, Standing
  <2>2. StepOf(e, key, s)
    BY <1>2, <1>3, <1>6, <1>7, <2>1 DEF StepOf
  <2>3. s.before = Key(leg.from, x.phase, left) /\ Costs(x, y, s)
    BY <1>3, <1>6, <1>7, StepCosts
  <2> QED BY <1>5, <2>2, <2>3 DEF y, key
<1>8. CASE leg.kind = "walk" /\ x.phase = "AfterTimedRide"
  <2> DEFINE s == Step(e, "AfterTimedRide", left, 0)
  <2>1. y.phase \in {"Completed", "AfterTransferWalk"} /\ leg.from \in Stops
    BY <1>1, <1>4, <1>8 DEF NextPhase, Standing
  <2>2. StepOf(e, key, s)
    BY <1>2, <1>3, <1>6, <1>8, <2>1 DEF StepOf
  <2>3. s.before = Key(leg.from, x.phase, left) /\ Costs(x, y, s)
    BY <1>3, <1>6, <1>8, StepCosts
  <2> QED BY <1>5, <2>2, <2>3 DEF y, key
<1>9. CASE /\ leg.kind = "ride" /\ x.phase \notin {"AtOrigin", "Completed"}
           /\ x.m.boarded => /\ x.m.nt < MaxTransfers
                             /\ leg.dep - x.m.now \in MinWait .. MaxWait
  <2>1. /\ leg.dep \in Int /\ leg.arr \in Int /\ leg.dep <= leg.arr
        /\ leg.fare \in Nat /\ leg.kind # "walk"
    BY <1>9, LegsAssumption
  <2>2. LegTime(leg) = leg.arr - leg.dep
    BY <1>9 DEF LegTime
  <2>3. x.m.boarded => leg.dep - x.m.now \in Nat
    BY <1>9, WaitsAssumption
  <2>4. y.phase = "AfterTimedRide" /\ leg.from \in Stops
    <3>1. y.phase = "AfterTimedRide"
      BY <1>1, <1>9, LegFields DEF NextPhase
    <3>2. x.node \in Stops
      BY <1>9 DEF Standing
    <3> QED BY <1>4, <3>1, <3>2
  <2>5. y.m.nt = x.m.nt + (IF x.m.boarded THEN 1 ELSE 0)
    BY <1>1, <1>4, <1>9, RideAdds
  <2>6. ASSUME NEW phase
        PROVE  /\ ~x.m.boarded => Costs(x, y, Step(e, phase, left, 0))
               /\ x.m.boarded => Costs(x, y, Step(e, phase, left, 1))
    <3>1. e.kind = "ride" /\ e.time \in Nat /\ e.time <= leg.arr - leg.dep
      BY <1>3, <1>9, <2>2
    <3> QED BY <1>1, <1>4, <1>9, <2>1, <2>3, <3>1, RideCosts
  <2>7. CASE ~x.m.boarded
    <3> DEFINE s == Step(e, "BeforeFirstBoarding", left, 0)
    <3>1. x.phase = "BeforeFirstBoarding" /\ key.left = left
      BY <1>2, <1>4, <1>9, <2>5, <2>7 DEF Standing
    <3>2. StepOf(e, key, s)
      BY <1>2, <1>3, <1>9, <2>4, <3>1 DEF StepOf
    <3>3. s.before = Key(leg.from, x.phase, left) /\ Costs(x, y, s)
      BY <1>3, <2>6, <2>7, <3>1, StepCosts
    <3> QED BY <1>5, <3>2, <3>3 DEF y, key
  <2>8. CASE x.m.boarded
    <3> DEFINE s == Step(e, x.phase, left, 1)
    <3>1. /\ x.phase \in {"AfterTimedRide", "AfterTransferWalk"}
          /\ key.left + 1 = left /\ key.left < MaxTransfers
      BY <1>2, <1>4, <1>9, <2>5, <2>8 DEF Standing
    <3>2. s = Step(e, x.phase, key.left + 1, 1)
      BY <3>1
    <3>3. s.before = Key(leg.from, x.phase, left) /\ Costs(x, y, s)
      BY <1>3, <2>6, <2>8, StepCosts
    <3> HIDE DEF s
    <3>4. StepOf(e, key, s)
      BY <1>2, <1>3, <1>9, <2>4, <3>1, <3>2 DEF StepOf
    <3> QED BY <1>5, <3>3, <3>4 DEF y, key
  <2> QED BY <1>4, <2>7, <2>8
<1> QED BY <1>7, <1>8, <1>9 DEF MayTake

\* A distance is no more than a step and the distance after it.
LEMMA DistanceOfStep ==
    ASSUME NEW j \in Batches, NEW d, d \notin Stops, NEW states,
           states = ReachableStates(ReverseGraph(j.network), d),
           NEW key \in states, NEW s \in Steps(ReverseGraph(j.network), key),
           NEW c \in Criteria, s[c] \in Nat, NEW ways,
           ways = WaysOn(ReverseGraph(j.network), states)
    PROVE  /\ s.before \in states
           /\ Distances(c, ways, d, states)[s.before]
                <= s[c] + Distances(c, ways, d, states)[key]
<1> DEFINE f == Distances(c, ways, d, states)
<1>1. StatesRight(ReverseGraph(j.network), d, states)
  BY ReachableStatesAreRight
<1>2. s.before \in states
  BY StatesAreClosed
<1>3. Descending(c, ways, d, states)
  BY <1>1, WaysDescend
<1>4. SolvesDistance(f, c, ways, d, states)
  BY <1>3, DistancesSolve
<1>5. \A k \in states : f[k] \in Nat
  BY <1>1, DistancesAreNat
<1> HIDE DEF f
<1>6. f[s.before] = Least(f, c, ways, d, s.before)
  BY <1>2, <1>4 DEF SolvesDistance, Least, Sums
<1>7. CASE s.before \in Seeds(d)
  <2>1. f[s.before] = 0
    BY <1>6, <1>7 DEF Least
  <2> QED BY <1>2, <1>5, <2>1 DEF f
<1>8. CASE s.before \notin Seeds(d)
  <2> DEFINE w == [s |-> s, key |-> key]
             sums == Sums(f, c, ways, s.before)
  <2>1. w \in ways /\ w.s = s /\ w.key = key
    BY DEF WaysOn
  <2> HIDE DEF w
  <2>2. w \in WaysFrom(ways, s.before)
    BY <2>1 DEF WaysFrom
  <2>3. s[c] + f[key] \in sums
    BY <2>1, <2>2 DEF Sums
  <2>4. ASSUME NEW v \in WaysFrom(ways, s.before) PROVE v.s[c] + f[v.key] \in Nat
    <3>1. v.s[c] \in Nat /\ f[v.key] \in Nat
      BY <1>3, <1>5 DEF Descending, WaysFrom
    <3> QED BY <3>1
  <2>5. sums \in SUBSET Nat /\ sums # {}
    BY <2>3, <2>4 DEF Sums
  <2>6. f[s.before] = Min(sums)
    BY <1>6, <1>8 DEF Least
  <2> HIDE DEF sums
  <2>7. Min(sums) <= s[c] + f[key]
    BY <2>3, <2>5, MinIsLeast
  <2> QED BY <1>2, <2>6, <2>7 DEF f
<1> QED BY <1>7, <1>8

------------------------------------------------------------------------------
\* A run of legs, each of which the tree may take where it has got to; at
\* tells where that is after each of them.
Journey(network, at, n) ==
    /\ n \in Nat
    /\ \A k \in 1 .. n : \E leg \in network :
            MayTake(at[k - 1], leg) /\ at[k] = Onward(at[k - 1], leg)

\* What the residual model promises of a branch on the way to a connection
\* that ends as y: the branch is known to it, and every distance, added to
\* what the branch has cost, is no more than what the whole has.
Bounded(c, states, ways, d, x, y) ==
    Metrics(x.m)[c] + Distances(c, ways, d, states)[MaskKey(x)] <= Metrics(y.m)[c]

LEMMA JourneyStands ==
    ASSUME NEW j \in Batches, NEW at, NEW n, Journey(j.network, at, n), Standing(at[0])
    PROVE  \A k \in 0 .. n : Standing(at[k])
<1> DEFINE Holds == {k \in 0 .. n : Standing(at[k])}
<1>1. n \in Nat
  BY DEF Journey
<1>2. 0 \in Holds
  BY <1>1
<1>3. ASSUME NEW k \in 1 .. n, k - 1 \in Holds PROVE k \in Holds
  <2>1. Standing(at[k - 1]) /\ k \in 0 .. n
    BY <1>1, <1>3
  <2>2. PICK leg \in j.network : MayTake(at[k - 1], leg) /\ at[k] = Onward(at[k - 1], leg)
    BY DEF Journey
  <2>3. Standing(at[k])
    BY <2>1, <2>2, OnwardStands
  <2> QED BY <2>1, <2>3
<1> HIDE DEF Holds
<1>4. 0 .. n \subseteq Holds
  BY <1>1, <1>2, <1>3, UpTo
<1> QED BY <1>4 DEF Holds

LEMMA JourneyIsBounded ==
    ASSUME NEW j \in Batches, NEW d, d \notin Stops, NEW at, NEW n,
           Journey(j.network, at, n), Standing(at[0]),
           at[n].phase = "Completed", at[n].node = d,
           NEW states, states = ReachableStates(ReverseGraph(j.network), d),
           NEW ways, ways = WaysOn(ReverseGraph(j.network), states)
    PROVE  /\ MaskKey(at[0]) \in states
           /\ \A c \in Criteria : Bounded(c, states, ways, d, at[0], at[n])
<1> DEFINE Fits(x) == /\ MaskKey(x) \in states
                      /\ \A c \in Criteria : Bounded(c, states, ways, d, x, at[n])
           Holds == {k \in 0 .. n : Fits(at[n - k])}
<1>1. n \in Nat /\ n - 0 = n /\ n - n = 0
  BY DEF Journey
<1>2. \A k \in 0 .. n : Standing(at[k])
  BY JourneyStands
<1>3. StatesRight(ReverseGraph(j.network), d, states)
  BY ReachableStatesAreRight
<1>4. \A c \in Criteria : \A k \in states : Distances(c, ways, d, states)[k] \in Nat
  BY <1>3, DistancesAreNat
<1>5. ASSUME NEW c \in Criteria, NEW k \in states, k \in Seeds(d)
      PROVE  Distances(c, ways, d, states)[k] = 0
  <2> DEFINE f == Distances(c, ways, d, states)
  <2>1. Descending(c, ways, d, states)
    BY <1>3, WaysDescend
  <2>2. SolvesDistance(f, c, ways, d, states)
    BY <2>1, DistancesSolve
  <2> HIDE DEF f
  <2>3. f[k] = 0
    BY <1>5, <2>2 DEF SolvesDistance
  <2> QED BY <2>3 DEF f
<1>6. Fits(at[n])
  <2>1. MaskKey(at[n]) \in Seeds(d)
    <3>1. /\ IsKey(MaskKey(at[n])) /\ MaskKey(at[n]).node = d
          /\ MaskKey(at[n]).phase = "Completed"
      BY <1>1, <1>2, MaskIsKey
    <3> QED BY <3>1 DEF IsKey, Seeds
  <2>2. MaskKey(at[n]) \in states
    BY <1>3, <2>1 DEF StatesRight
  <2>3. \A c \in Criteria : Metrics(at[n].m)[c] \in Int
    BY <1>1, <1>2, MetricsFields DEF Standing
  <2> QED BY <1>5, <2>1, <2>2, <2>3 DEF Bounded
<1>7. ASSUME NEW k \in 1 .. n, k - 1 \in Holds PROVE k \in Holds
  <2> DEFINE i == n - k
             x == at[i]
             y == at[i + 1]
  <2>1. i \in 0 .. n /\ i + 1 \in 1 .. n /\ (i + 1) - 1 = i /\ n - (k - 1) = i + 1
        /\ k \in 0 .. n
    BY <1>1
  <2> HIDE DEF i
  <2>2. Fits(y)
    BY <1>7, <2>1
  <2>3. PICK leg \in j.network : MayTake(x, leg) /\ y = Onward(x, leg)
    BY <2>1 DEF Journey
  <2>4. Standing(x) /\ Standing(y)
    BY <1>2, <2>1
  <2> HIDE DEF x, y
  <2>5. PICK s \in Steps(ReverseGraph(j.network), MaskKey(y)) :
            s.before = MaskKey(x) /\ Costs(x, y, s)
    BY <2>3, <2>4, LegIsStep
  <2>6. ASSUME NEW c \in Criteria
        PROVE  MaskKey(x) \in states /\ Bounded(c, states, ways, d, x, at[n])
    <3>1. s[c] \in Nat /\ Metrics(x.m)[c] + s[c] <= Metrics(y.m)[c]
      BY <2>5 DEF Costs
    <3> DEFINE far == Distances(c, ways, d, states)[MaskKey(x)]
               near == Distances(c, ways, d, states)[MaskKey(y)]
    <3>2. MaskKey(x) \in states /\ far <= s[c] + near
      BY <2>2, <2>5, <3>1, DistanceOfStep
    <3>3. far \in Nat /\ near \in Nat
      BY <1>4, <2>2, <3>2
    <3>4. Metrics(y.m)[c] + near <= Metrics(at[n].m)[c]
      BY <2>2 DEF Bounded
    <3>5. /\ Metrics(x.m)[c] \in Int /\ Metrics(y.m)[c] \in Int
          /\ Metrics(at[n].m)[c] \in Int
      BY <1>1, <1>2, <2>4, MetricsFields DEF Standing
    <3> HIDE DEF far, near
    <3>6. Metrics(x.m)[c] + far <= Metrics(at[n].m)[c]
      BY <3>1, <3>2, <3>3, <3>4, <3>5
    <3> QED BY <3>2, <3>6 DEF Bounded, far
  <2>7. "jt" \in Criteria
    BY DEF Criteria
  <2>8. Fits(x)
    BY <2>6, <2>7
  <2> QED BY <2>1, <2>8 DEF x, i
<1>8. n \in Holds
  <2>1. 0 \in Holds
    BY <1>1, <1>6
  <2> HIDE DEF Holds
  <2>2. 0 .. n \subseteq Holds
    BY <1>1, <1>7, <2>1, UpTo
  <2> QED BY <1>1, <2>2
<1> QED BY <1>1, <1>8

LEMMA JourneyKeepsDeparture ==
    ASSUME NEW j \in Batches, NEW at, NEW n, Journey(j.network, at, n),
           Standing(at[0]), at[0].m.boarded
    PROVE  at[n].m.boarded /\ at[n].m.dep = at[0].m.dep
<1> DEFINE Holds == {k \in 0 .. n : at[k].m.boarded /\ at[k].m.dep = at[0].m.dep}
<1>1. n \in Nat
  BY DEF Journey
<1>2. 0 \in Holds
  BY <1>1
<1>3. ASSUME NEW k \in 1 .. n, k - 1 \in Holds PROVE k \in Holds
  <2> DEFINE x == at[k - 1]
  <2>1. /\ x.m.boarded /\ x.m.dep = at[0].m.dep /\ k \in 0 .. n
        /\ k - 1 \in 0 .. n
    BY <1>1, <1>3
  <2>2. PICK leg \in j.network : MayTake(x, leg) /\ at[k] = Onward(x, leg)
    BY DEF Journey
  <2>3. x.m \in Travelled
    BY <2>1, JourneyStands DEF Standing
  <2>4. at[k].m = Extend(x.m, leg)
    BY <2>2, OnwardFields
  <2> HIDE DEF x
  <2>5. at[k].m.boarded /\ at[k].m.dep = x.m.dep
    BY <2>1, <2>3, <2>4, WalkAdds, RideAdds, LegFields
  <2> QED BY <2>1, <2>5
<1> HIDE DEF Holds
<1>4. 0 .. n \subseteq Holds
  BY <1>1, <1>2, <1>3, UpTo
<1> QED BY <1>1, <1>4 DEF Holds

\* The connection a completed branch becomes.
Ended(y) == [dep |-> y.m.dep, arr |-> y.m.now, nt |-> y.m.nt, imp |-> y.m.imp]

LEMMA EndedFields ==
    ASSUME NEW y
    PROVE  /\ Ended(y).dep = y.m.dep /\ Ended(y).arr = y.m.now
           /\ Ended(y).nt = y.m.nt /\ Ended(y).imp = y.m.imp
BY DEF Ended

\* A bound is a bound of a connection: of its journey time, its transfers and
\* its impedance, and of its arrival once the departure is known.
BoundOf(x, bound, c) ==
    /\ bound.jt \in Int /\ bound.nt \in Nat /\ bound.imp \in Int
    /\ bound.arr \in Int /\ bound.dep \in Int
    /\ bound.arr - bound.dep = bound.jt
    /\ bound.jt <= c.arr - c.dep /\ bound.nt <= c.nt /\ bound.imp <= c.imp
    /\ x.m.boarded => bound.dep = c.dep /\ bound.arr <= c.arr

LEMMA LowerBoundFields ==
    ASSUME NEW x, x.m \in Travelled, NEW suffix, suffix.jt \in Nat,
           suffix.nt \in Nat, suffix.imp \in Nat
    PROVE  /\ LowerBound(x, suffix).dep = Metrics(x.m).dep
           /\ LowerBound(x, suffix).arr = Metrics(x.m).arr + suffix.jt
           /\ LowerBound(x, suffix).jt = Metrics(x.m)["jt"] + suffix.jt
           /\ LowerBound(x, suffix).nt = Metrics(x.m)["nt"] + suffix.nt
           /\ LowerBound(x, suffix).imp = Metrics(x.m)["imp"] + suffix.imp
<1> DEFINE v == Metrics(x.m)
<1>1. v = [dep |-> v.dep, arr |-> v.arr, jt |-> v.jt, nt |-> v.nt, imp |-> v.imp]
  BY DEF Metrics
<1>2. LowerBound(x, suffix) = [v EXCEPT !.arr = v.arr + suffix.jt, !.jt = v.jt + suffix.jt,
                                        !.nt = v.nt + suffix.nt, !.imp = v.imp + suffix.imp]
  BY DEF LowerBound
<1> HIDE DEF v
<1>3. LowerBound(x, suffix) =
        [dep |-> v.dep, arr |-> v.arr + suffix.jt, jt |-> v.jt + suffix.jt,
         nt |-> v.nt + suffix.nt, imp |-> v.imp + suffix.imp]
  BY <1>1, <1>2
<1> QED BY <1>3 DEF v

\* If legs that a tree may take lead from a branch to a zone, the residual
\* model knows that they may, and its bounds are bounds of the connection.
THEOREM NothingReachableIsCut ==
    ASSUME NEW j \in Batches, NEW d \in Range(j.targets), NEW at, NEW n,
           Journey(j.network, at, n), Standing(at[0]),
           at[n].phase = "Completed", at[n].node = d,
           NEW r, r = Residual(j.network, Range(j.targets))
    PROVE  /\ Feasible(r, d, MaskKey(at[0]))
           /\ MaskKey(at[0]) \in DOMAIN r[d].bounds
           /\ BoundOf(at[0], LowerBound(at[0], r[d].bounds[MaskKey(at[0])]),
                      Ended(at[n]))
<1> DEFINE graph == ReverseGraph(j.network)
           states == ReachableStates(graph, d)
           ways == WaysOn(graph, states)
           bounds == LowerBounds(graph, d, states)
           x == at[0]
           y == at[n]
           suffix == r[d].bounds[MaskKey(at[0])]
           jt == Distances("jt", ways, d, states)
           nt == Distances("nt", ways, d, states)
           imp == Distances("imp", ways, d, states)
           bound == LowerBound(x, suffix)
<1>1. d \notin Stops
  BY LegsAssumption
<1>2. /\ MaskKey(x) \in states
      /\ \A c \in Criteria : Bounded(c, states, ways, d, x, y)
  BY <1>1, JourneyIsBounded
<1>3. /\ DOMAIN r = Range(j.targets) /\ r[d].states = states
      /\ r[d].bounds = bounds
  BY DEF Residual
<1>4. bounds = [k \in states |-> [jt |-> jt[k], nt |-> nt[k], imp |-> imp[k]]]
  BY DEF LowerBounds
<1> HIDE DEF bounds, jt, nt, imp
<1>5. /\ suffix.jt = jt[MaskKey(x)] /\ suffix.nt = nt[MaskKey(x)]
      /\ suffix.imp = imp[MaskKey(x)] /\ MaskKey(x) \in DOMAIN bounds
  BY <1>2, <1>3, <1>4
<1>6. /\ jt[MaskKey(x)] \in Nat /\ nt[MaskKey(x)] \in Nat /\ imp[MaskKey(x)] \in Nat
  <2>1. StatesRight(graph, d, states)
    BY <1>1, ReachableStatesAreRight
  <2>2. "jt" \in Criteria /\ "nt" \in Criteria /\ "imp" \in Criteria
    BY DEF Criteria
  <2> QED BY <1>1, <1>2, <2>1, <2>2, DistancesAreNat DEF jt, nt, imp
<1>7. Standing(x) /\ Standing(y)
  <2>1. n \in 0 .. n
    BY DEF Journey
  <2> QED BY <2>1, JourneyStands
<1>8. y.m.boarded
  BY <1>7 DEF Standing
<1>9. /\ x.m \in Travelled /\ y.m \in Travelled
      /\ x.m.boarded \in BOOLEAN /\ x.m.dep \in Int /\ x.m.now \in Int
      /\ x.m.access \in Int /\ x.m.nt \in Nat /\ x.m.imp \in Int
      /\ y.m.dep \in Int /\ y.m.now \in Int /\ y.m.nt \in Nat /\ y.m.imp \in Int
  BY <1>7, TravelledFields DEF Standing
<1>10. x.m.boarded => x.m.dep = y.m.dep
  BY JourneyKeepsDeparture
<1>11. Feasible(r, d, MaskKey(x))
  <2>1. MaskKey(x).phase = "Completed" => MaskKey(x).node = d
    BY <1>1, <1>2, ReachableStatesAreRight DEF StatesRight, StateRight
  <2> QED BY <1>2, <1>3, <2>1 DEF Feasible
<1>12. /\ Metrics(x.m)["jt"] + suffix.jt <= Metrics(y.m)["jt"]
       /\ Metrics(x.m)["nt"] + suffix.nt <= Metrics(y.m)["nt"]
       /\ Metrics(x.m)["imp"] + suffix.imp <= Metrics(y.m)["imp"]
  BY <1>2, <1>5 DEF Bounded, Criteria, jt, nt, imp
<1>13. /\ Metrics(y.m)["jt"] = y.m.now - y.m.dep /\ Metrics(y.m)["nt"] = y.m.nt
       /\ Metrics(y.m)["imp"] = y.m.imp /\ Metrics(x.m)["nt"] = x.m.nt
       /\ Metrics(x.m)["imp"] = x.m.imp
       /\ x.m.boarded => /\ Metrics(x.m)["jt"] = x.m.now - x.m.dep
                         /\ Metrics(x.m).dep = x.m.dep /\ Metrics(x.m).arr = x.m.now
       /\ ~x.m.boarded => /\ Metrics(x.m)["jt"] = x.m.access
                          /\ Metrics(x.m).dep = 0 /\ Metrics(x.m).arr = x.m.access
  BY <1>8, <1>9, MetricsFields
<1>14. suffix.jt \in Nat /\ suffix.nt \in Nat /\ suffix.imp \in Nat
  BY <1>5, <1>6
<1> HIDE DEF x, y, suffix, states, ways
<1>15. /\ bound.dep = Metrics(x.m).dep /\ bound.arr = Metrics(x.m).arr + suffix.jt
       /\ bound.jt = Metrics(x.m)["jt"] + suffix.jt
       /\ bound.nt = Metrics(x.m)["nt"] + suffix.nt
       /\ bound.imp = Metrics(x.m)["imp"] + suffix.imp
  BY <1>9, <1>14, LowerBoundFields
<1> HIDE DEF bound
<1>16. BoundOf(x, bound, Ended(y))
  <2>1. CASE x.m.boarded
    <3>1. /\ bound.dep = x.m.dep /\ bound.arr = x.m.now + suffix.jt
          /\ bound.jt = (x.m.now - x.m.dep) + suffix.jt
          /\ bound.nt = x.m.nt + suffix.nt /\ bound.imp = x.m.imp + suffix.imp
          /\ bound.jt <= y.m.now - y.m.dep /\ bound.nt <= y.m.nt
          /\ bound.imp <= y.m.imp /\ x.m.dep = y.m.dep
      BY <1>10, <1>12, <1>13, <1>15, <2>1
    <3> QED BY <1>9, <1>14, <3>1, EndedFields DEF BoundOf
  <2>2. CASE ~x.m.boarded
    <3>1. /\ bound.dep = 0 /\ bound.arr = x.m.access + suffix.jt
          /\ bound.jt = x.m.access + suffix.jt
          /\ bound.nt = x.m.nt + suffix.nt /\ bound.imp = x.m.imp + suffix.imp
          /\ bound.jt <= y.m.now - y.m.dep /\ bound.nt <= y.m.nt
          /\ bound.imp <= y.m.imp
      BY <1>12, <1>13, <1>15, <2>2
    <3> QED BY <1>9, <1>14, <2>2, <3>1, EndedFields DEF BoundOf
  <2> QED BY <2>1, <2>2
<1> QED BY <1>3, <1>5, <1>11, <1>16 DEF bound, suffix, x, y

(***************************************************************************)
(* What a slot has kept only improves: a connection it has no use for any  *)
(* more, it will never have use for again.                                 *)
(***************************************************************************)
Weighed(c) == c.dep \in Int /\ c.arr \in Int /\ c.nt \in Nat /\ c.imp \in Int

\* None of them turns out another.
IsFront(j, S) == \A k, c \in S : ~Complete!Dominates(j.direct_barred, k, c)

Kept(j, S) == IsFront(j, S) /\ \A c \in S : Weighed(c)

\* A slot that has kept S has no use for a connection like c.
NoUse(j, S, c) ==
    \/ \E k \in S : Complete!Dominates(j.direct_barred, k, c)
    \/ j.rollout = "exact_and_approximate" /\ ~Complete!Within(c, S)

\* A connection may not exceed what a tolerance makes of each kept one.
Exceeds(c, k) ==
    \/ c.imp > ChoiceTolerances.imp_mult * k.imp + ChoiceTolerances.imp_add
    \/ c.arr - c.dep > ChoiceTolerances.jt_mult * (k.arr - k.dep)
                         + ChoiceTolerances.jt_add
    \/ c.nt > ChoiceTolerances.nt_mult * k.nt + ChoiceTolerances.nt_add

LEMMA MoreOfMore ==
    ASSUME NEW q \in Nat, NEW a \in Int, NEW b \in Int, a <= b
    PROVE  q * a \in Int /\ q * b \in Int /\ q * a <= q * b
<1>1. \A x \in Nat, y \in Nat : x * y \in Nat
  OBVIOUS
<1>2. q * (b - a) \in Nat
  BY <1>1
<1>3. q * (b - a) = q * b - q * a
  OBVIOUS
<1>4. \A x \in Nat, y \in Int : x * y \in Int
  OBVIOUS
<1> QED BY <1>2, <1>3, <1>4

LEMMA TolerancesAreNat ==
    /\ ChoiceTolerances.imp_mult \in Nat /\ ChoiceTolerances.imp_add \in Nat
    /\ ChoiceTolerances.jt_mult \in Nat /\ ChoiceTolerances.jt_add \in Nat
    /\ ChoiceTolerances.nt_mult \in Nat /\ ChoiceTolerances.nt_add \in Nat
BY ChoiceTolerancesAssumption

LEMMA WithinIs ==
    ASSUME NEW c, Weighed(c), NEW S, \A k \in S : Weighed(k)
    PROVE  Complete!Within(c, S) <=> \A k \in S : ~Exceeds(c, k)
<1>1. ASSUME NEW k \in S
      PROVE  ~Exceeds(c, k) <=>
                /\ c.imp <= ChoiceTolerances.imp_mult * k.imp
                                + ChoiceTolerances.imp_add
                /\ Complete!JourneyTime(c)
                     <= ChoiceTolerances.jt_mult * Complete!JourneyTime(k)
                          + ChoiceTolerances.jt_add
                /\ c.nt <= ChoiceTolerances.nt_mult * k.nt
                               + ChoiceTolerances.nt_add
  <2> DEFINE imp == ChoiceTolerances.imp_mult * k.imp
             jt == ChoiceTolerances.jt_mult * (k.arr - k.dep)
             nt == ChoiceTolerances.nt_mult * k.nt
  <2>1. /\ Weighed(c) /\ Weighed(k)
        /\ Complete!JourneyTime(c) = c.arr - c.dep
        /\ Complete!JourneyTime(k) = k.arr - k.dep
    BY DEF Complete!JourneyTime
  <2>2. k.imp \in Int /\ k.arr - k.dep \in Int /\ k.nt \in Int
    BY <2>1 DEF Weighed
  <2>3. imp \in Int /\ jt \in Int /\ nt \in Int
    <3>1. k.imp <= k.imp /\ k.arr - k.dep <= k.arr - k.dep /\ k.nt <= k.nt
      BY <2>2
    <3> QED BY <2>2, <3>1, TolerancesAreNat, MoreOfMore
  <2> HIDE DEF imp, jt, nt
  <2>4. Exceeds(c, k) <=> \/ c.imp > imp + ChoiceTolerances.imp_add
                          \/ c.arr - c.dep > jt + ChoiceTolerances.jt_add
                          \/ c.nt > nt + ChoiceTolerances.nt_add
    BY DEF Exceeds, imp, jt, nt
  <2>5. Exceeds(c, k) <=> ~(/\ c.imp <= imp + ChoiceTolerances.imp_add
                            /\ c.arr - c.dep <= jt + ChoiceTolerances.jt_add
                            /\ c.nt <= nt + ChoiceTolerances.nt_add)
    BY <2>1, <2>3, <2>4, TolerancesAreNat DEF Weighed
  <2> QED BY <2>1, <2>5 DEF imp, jt, nt
<1> QED BY <1>1 DEF Complete!Within

\* What dominates another connection is tolerated wherever it is, and sets
\* bounds that are no wider.
LEMMA ExceedsMore ==
    ASSUME NEW c, NEW k, NEW l, Weighed(c), Weighed(k), Weighed(l),
           NEW barred, Complete!Dominates(barred, l, k), Exceeds(c, k)
    PROVE  Exceeds(c, l)
<1>1. l.imp <= k.imp /\ l.arr <= k.arr /\ l.dep >= k.dep /\ l.nt <= k.nt
  BY DEF Complete!Dominates
<1>2. l.arr - l.dep <= k.arr - k.dep
  BY <1>1 DEF Weighed
<1>3. /\ ChoiceTolerances.imp_mult * l.imp <= ChoiceTolerances.imp_mult * k.imp
      /\ ChoiceTolerances.imp_mult * l.imp \in Int
      /\ ChoiceTolerances.imp_mult * k.imp \in Int
  BY <1>1, TolerancesAreNat, MoreOfMore DEF Weighed
<1>4. /\ ChoiceTolerances.jt_mult * (l.arr - l.dep)
           <= ChoiceTolerances.jt_mult * (k.arr - k.dep)
      /\ ChoiceTolerances.jt_mult * (l.arr - l.dep) \in Int
      /\ ChoiceTolerances.jt_mult * (k.arr - k.dep) \in Int
  <2>1. l.arr - l.dep \in Int /\ k.arr - k.dep \in Int
    BY DEF Weighed
  <2> QED BY <1>2, <2>1, TolerancesAreNat, MoreOfMore
<1>5. /\ ChoiceTolerances.nt_mult * l.nt <= ChoiceTolerances.nt_mult * k.nt
      /\ ChoiceTolerances.nt_mult * l.nt \in Int
      /\ ChoiceTolerances.nt_mult * k.nt \in Int
  BY <1>1, TolerancesAreNat, MoreOfMore DEF Weighed
<1> DEFINE impk == ChoiceTolerances.imp_mult * k.imp
           impl == ChoiceTolerances.imp_mult * l.imp
           jtk == ChoiceTolerances.jt_mult * (k.arr - k.dep)
           jtl == ChoiceTolerances.jt_mult * (l.arr - l.dep)
           ntk == ChoiceTolerances.nt_mult * k.nt
           ntl == ChoiceTolerances.nt_mult * l.nt
<1>6. \/ c.imp > impk + ChoiceTolerances.imp_add
      \/ c.arr - c.dep > jtk + ChoiceTolerances.jt_add
      \/ c.nt > ntk + ChoiceTolerances.nt_add
  BY DEF Exceeds
<1>7. /\ impl <= impk /\ impl \in Int /\ impk \in Int
      /\ jtl <= jtk /\ jtl \in Int /\ jtk \in Int
      /\ ntl <= ntk /\ ntl \in Int /\ ntk \in Int
  BY <1>3, <1>4, <1>5
<1>8. c.imp \in Int /\ c.arr - c.dep \in Int /\ c.nt \in Int
  BY DEF Weighed
<1> HIDE DEF impk, impl, jtk, jtl, ntk, ntl
<1>9. \/ c.imp > impl + ChoiceTolerances.imp_add
      \/ c.arr - c.dep > jtl + ChoiceTolerances.jt_add
      \/ c.nt > ntl + ChoiceTolerances.nt_add
  BY <1>6, <1>7, <1>8, TolerancesAreNat
<1> QED BY <1>9 DEF Exceeds, impl, jtl, ntl

LEMMA DominanceOrders ==
    ASSUME NEW barred, NEW a, NEW b, Weighed(a), Weighed(b),
           Complete!Dominates(barred, a, b)
    PROVE  /\ \A c : Weighed(c) /\ Complete!Dominates(barred, b, c)
                        => Complete!Dominates(barred, a, c)
           /\ ~Complete!Dominates(barred, b, a)
BY DEF Weighed, Complete!Dominates, Complete!CanDominate

LEMMA NoneDominatesItself ==
    ASSUME NEW barred, NEW a, Weighed(a)
    PROVE  ~Complete!Dominates(barred, a, a)
BY DEF Weighed, Complete!Dominates

\* What is retained is again a front, and no less demanding.
LEMMA RetainedIsKept ==
    ASSUME NEW slot, Kept(job, kept[slot]), NEW c, Weighed(c)
    PROVE  /\ Kept(job, Retained(slot, c))
           /\ \A e : Weighed(e) /\ NoUse(job, kept[slot], e)
                        => NoUse(job, Retained(slot, c), e)
<1> DEFINE S == kept[slot]
           R == {k \in S : ~Complete!Dominates(job.direct_barred, c, k)} \cup {c}
<1>1. \/ Retained(slot, c) = S
      \/ /\ Retained(slot, c) = R
         /\ \A k \in S : ~Complete!Dominates(job.direct_barred, k, c)
  BY DEF Retained
<1>2. /\ \A k \in S : Weighed(k)
      /\ \A k, l \in S : ~Complete!Dominates(job.direct_barred, k, l)
  BY DEF Kept, IsFront
<1>3. ASSUME \A k \in S : ~Complete!Dominates(job.direct_barred, k, c)
      PROVE  Kept(job, R)
  <2>1. \A k \in R : Weighed(k)
    BY <1>2
  <2>2. ASSUME NEW k \in R, NEW l \in R
        PROVE  ~Complete!Dominates(job.direct_barred, k, l)
    <3>1. \/ k \in S \/ k = c
      OBVIOUS
    <3>2. \/ l \in S /\ ~Complete!Dominates(job.direct_barred, c, l)
          \/ l = c
      OBVIOUS
    <3> HIDE DEF S, R
    <3> QED BY <1>2, <1>3, <3>1, <3>2, NoneDominatesItself
  <2> QED BY <2>1, <2>2 DEF Kept, IsFront
<1>4. ASSUME NEW e, Weighed(e), NoUse(job, S, e)
      PROVE  NoUse(job, R, e)
  <2>1. CASE \E k \in S : Complete!Dominates(job.direct_barred, k, e)
    <3>1. PICK k \in S : Complete!Dominates(job.direct_barred, k, e)
      BY <2>1
    <3>2. Weighed(k)
      BY <1>2
    <3>3. CASE Complete!Dominates(job.direct_barred, c, k)
      <4>1. Complete!Dominates(job.direct_barred, c, e)
        BY <1>4, <3>1, <3>2, <3>3, DominanceOrders
      <4>2. c \in R
        OBVIOUS
      <4> QED BY <4>1, <4>2 DEF NoUse
    <3>4. CASE ~Complete!Dominates(job.direct_barred, c, k)
      <4>1. k \in R
        BY <3>4
      <4> QED BY <3>1, <4>1 DEF NoUse
    <3> QED BY <3>3, <3>4
  <2>2. CASE /\ job.rollout = "exact_and_approximate" /\ ~Complete!Within(e, S)
    <3>1. PICK k \in S : Exceeds(e, k)
      <4> HIDE DEF S
      <4> QED BY <1>2, <1>4, <2>2, WithinIs
    <3>2. Weighed(k)
      BY <1>2
    <3>3. \E l \in R : Exceeds(e, l)
      <4>1. CASE Complete!Dominates(job.direct_barred, c, k)
        BY <1>4, <3>1, <3>2, <4>1, ExceedsMore
      <4>2. CASE ~Complete!Dominates(job.direct_barred, c, k)
        BY <3>1, <4>2
      <4> QED BY <4>1, <4>2
    <3>4. \A l \in R : Weighed(l)
      BY <1>2
    <3> HIDE DEF R
    <3>5. ~Complete!Within(e, R)
      BY <1>4, <3>3, <3>4, WithinIs
    <3> QED BY <2>2, <3>5 DEF NoUse
  <2> QED BY <1>4, <2>1, <2>2 DEF NoUse
<1> QED BY <1>1, <1>3, <1>4

\* In the end a slot keeps nothing it has no use for.
LEMMA FinalIsUseful ==
    ASSUME NEW slot, Kept(job, kept[slot]), NEW c \in Final(slot)
    PROVE  ~NoUse(job, kept[slot], c)
BY DEF Kept, IsFront, Final, NoUse

-------------------------------------------------------------------------------
(***************************************************************************)
(* Where branches stand, and what slots keep: an invariant on top of IInv. *)
(***************************************************************************)
Prepared == state \notin {"prepare", "skipped"}

Placed(slots) ==
    \A i \in DOMAIN slots : Standing(slots[i]) /\ slots[i].tasks \subseteq DOMAIN job.slots

Afoot ==
    /\ Placed(arena)
    /\ state = "scan" => \A leg \in todo : MayTake(arena[expanding], leg)

SlotsRight ==
    /\ Prepared => residual = Residual(job.network, Range(job.targets))
    /\ DOMAIN kept = IF Prepared THEN DOMAIN job.slots ELSE {}
    /\ \A s \in DOMAIN kept : Kept(job, kept[s])

JInv == IInv /\ Afoot /\ SlotsRight

LEMMA SameStanding ==
    ASSUME NEW x, NEW y, y.m = x.m, y.phase = x.phase, y.node = x.node
    PROVE  /\ Standing(x) => Standing(y)
           /\ \A leg : MayTake(x, leg) => MayTake(y, leg)
BY DEF Standing, MayTake

LEMMA PlacedKept ==
    ASSUME SameArena, Placed(arena)
    PROVE  Placed(arena)'
<1>1. ASSUME NEW i \in DOMAIN arena'
      PROVE  Standing(arena'[i]) /\ arena'[i].tasks \subseteq DOMAIN job'.slots
  <2>1. i \in DOMAIN arena /\ SameBranch(arena[i], arena'[i]) /\ job' = job
    BY DEF SameArena
  <2>2. Standing(arena[i]) /\ arena[i].tasks \subseteq DOMAIN job.slots
    BY <2>1 DEF Placed
  <2>3. Standing(arena'[i])
    BY <2>1, <2>2, SameStanding DEF SameBranch
  <2> QED BY <2>1, <2>2, <2>3 DEF SameBranch
<1> QED BY <1>1 DEF Placed

\* Steps that leave what is kept and reachable alone.
LEMMA SlotsUnchanged ==
    ASSUME SlotsRight, UNCHANGED <<job, residual, kept>>, Prepared' = Prepared
    PROVE  SlotsRight'
BY DEF SlotsRight

LEMMA AfootResting ==
    ASSUME IInv, Afoot, UNCHANGED <<job, residual, arena, expanding>>,
           todo' \subseteq todo, state' = "scan" => state = "scan"
    PROVE  Afoot'
<1>1. SameArena
  BY ArenaUnchanged DEF IInv
<1>2. Placed(arena)'
  BY <1>1, PlacedKept DEF Afoot
<1> QED BY <1>2 DEF Afoot

\* What the tree admits is what a journey may take.
LEMMA SuccessorsMayBeTaken ==
    ASSUME NEW i \in DOMAIN arena, NEW leg \in Successors(i)
    PROVE  MayTake(arena[i], leg) /\ leg \in job.network
BY DEF Successors, WalkAdmitted, RideAdmitted, MayTake

\* A candidate is the branch in hand, a leg further on.
LEMMA CandidateIsOnward ==
    ASSUME JInv, state = "scan", NEW leg \in todo
    PROVE  /\ leg \in job.network /\ job \in Batches
           /\ Standing(arena[expanding]) /\ MayTake(arena[expanding], leg)
           /\ Candidate(leg).node = Onward(arena[expanding], leg).node
           /\ Candidate(leg).phase = Onward(arena[expanding], leg).phase
           /\ Candidate(leg).m = Onward(arena[expanding], leg).m
           /\ Standing(Candidate(leg))
<1> DEFINE s == arena[expanding]
<1>1. /\ leg \in job.network /\ job \in Batches /\ expanding \in DOMAIN arena
  BY DEF JInv, IInv, Typing
<1>2. Standing(s) /\ MayTake(s, leg)
  BY <1>1 DEF JInv, Afoot, Placed
<1>3. /\ Candidate(leg).node = leg.to
      /\ Candidate(leg).m = Extend(s.m, leg)
      /\ Candidate(leg).phase = NextPhase(Branch(expanding), leg)
  BY DEF Candidate, Branch
<1>4. NextPhase(Branch(expanding), leg) = NextPhase(s, leg)
  <2>1. Branch(expanding).phase = s.phase
    BY DEF Branch
  <2> QED BY <2>1 DEF NextPhase
<1>5. Standing(Onward(s, leg))
  BY <1>1, <1>2, OnwardStands
<1> HIDE DEF s
<1>6. /\ Candidate(leg).node = Onward(s, leg).node
      /\ Candidate(leg).phase = Onward(s, leg).phase
      /\ Candidate(leg).m = Onward(s, leg).m
  BY <1>3, <1>4, OnwardFields
<1>7. Standing(Candidate(leg))
  BY <1>5, <1>6, SameStanding
<1> QED BY <1>1, <1>2, <1>6, <1>7 DEF s

LEMMA ConnectionWeighs ==
    ASSUME NEW b, b.m \in Travelled
    PROVE  Weighed(Connection(b))
<1>1. /\ Connection(b).dep = b.m.dep /\ Connection(b).arr = b.m.now
      /\ Connection(b).nt = b.m.nt /\ Connection(b).imp = b.m.imp
  BY DEF Connection
<1> QED BY <1>1, TravelledFields DEF Weighed

\* Once something is of no use to a slot, it never is of use again.
NoUseStays ==
    \A slot \in DOMAIN kept : \A c :
        Weighed(c) /\ NoUse(job, kept[slot], c) => NoUse(job', kept'[slot], c)

LEMMA PrepareSlots ==
    ASSUME JInv, Prepare
    PROVE  Afoot' /\ SlotsRight' /\ NoUseStays
<1> DEFINE r == Residual(job.network, Range(job.targets))
           tasks == {t \in DOMAIN job.slots :
                        Feasible(r, job.slots[t].to, MaskKey(Root))}
           targets == {t \in DOMAIN job.targets :
                          Feasible(r, job.targets[t], MaskKey(Root))}
           b == RootOf(tasks, targets)
<1>1. /\ state = "prepare"
      /\ \/ /\ state' = "skipped"
            /\ UNCHANGED <<residual, arena, current, kept>>
         \/ /\ state' \in {"level", "failed"}
            /\ residual' = r /\ arena' = <<b>> /\ current' = <<1>>
            /\ kept' = [s \in DOMAIN job.slots |-> {}]
      /\ UNCHANGED <<job, stopping, next, expanding, todo, known, found>>
  BY DEF Prepare, RootOf
<1>2. /\ job \in Batches /\ arena = <<>> /\ todo = {} /\ DOMAIN kept = {}
  BY <1>1 DEF JInv, IInv, Typing, SlotsRight, Prepared
<1>3. NoUseStays
  BY <1>2 DEF NoUseStays
<1>4. CASE /\ state' = "skipped"
           /\ UNCHANGED <<residual, arena, current, kept>>
  <2>1. Afoot'
    BY <1>1, <1>4, AfootResting DEF JInv
  <2>2. SlotsRight'
    BY <1>1, <1>4, SlotsUnchanged DEF JInv, Prepared
  <2> QED BY <1>3, <2>1, <2>2
<1>5. CASE /\ state' \in {"level", "failed"}
           /\ residual' = r /\ arena' = <<b>> /\ current' = <<1>>
           /\ kept' = [s \in DOMAIN job.slots |-> {}]
  <2>1. tasks \subseteq DOMAIN job.slots
    OBVIOUS
  <2> HIDE DEF tasks, targets, r
  <2>2. /\ b.node = Root.node /\ b.phase = "AtOrigin" /\ b.m = Root.m
        /\ b.tasks = tasks
    <3>1. b.node = Root.node /\ b.m = Root.m /\ b.tasks = tasks
      BY RootFields DEF RootOf, BranchType
    <3>2. b.phase = "AtOrigin"
      BY RootFields DEF RootOf, BranchType
    <3> QED BY <3>1, <3>2
  <2>3. Standing(b)
    <3>1. Root.node = Origin
      BY DEF Root
    <3>2. Root.m \in Travelled
      BY RootFields DEF BranchType
    <3>3. Root.m.nt <= MaxTransfers
      BY RootFields, MaxTransfersAssumption
    <3> HIDE DEF b
    <3> QED BY <2>2, <3>1, <3>2, <3>3, RootFields, OriginAssumption DEF Standing
  <2>4. DOMAIN arena' = {1} /\ arena'[1] = b
    BY <1>5
  <2>5. Afoot'
    BY <1>1, <1>5, <2>1, <2>2, <2>3, <2>4 DEF Afoot, Placed
  <2>6. SlotsRight'
    <3>1. Kept(job', {})
      BY DEF Kept, IsFront
    <3>2. Prepared'
      BY <1>5 DEF Prepared
    <3>3. residual' = Residual(job'.network, Range(job'.targets))
      BY <1>1, <1>5 DEF r
    <3>4. DOMAIN kept' = DOMAIN job'.slots /\ \A s \in DOMAIN kept' : kept'[s] = {}
      BY <1>1, <1>5
    <3> QED BY <3>1, <3>2, <3>3, <3>4 DEF SlotsRight
  <2> QED BY <1>3, <2>5, <2>6
<1> QED BY <1>1, <1>4, <1>5

LEMMA RestSlots ==
    ASSUME JInv,
           \/ Cancel \/ Stop \/ AdvanceLevel \/ Exhaust \/ UNCHANGED tree_vars
           \/ \E leg \in todo : RejectStep(leg)
    PROVE  Afoot' /\ SlotsRight' /\ NoUseStays
<1>1. /\ UNCHANGED <<job, residual, arena, expanding, kept>>
      /\ todo' \subseteq todo
      /\ \/ state' = state
         \/ /\ state \in {"level", "scan"}
            /\ state' \in {"stopped", "advanced", "exhausted", "failed"}
  <2>1. CASE Cancel
    BY <2>1 DEF Cancel
  <2>2. CASE Stop
    BY <2>2 DEF Stop
  <2>3. CASE AdvanceLevel
    BY <2>3 DEF AdvanceLevel
  <2>4. CASE Exhaust
    BY <2>4 DEF Exhaust
  <2>5. CASE UNCHANGED tree_vars
    BY <2>5 DEF tree_vars
  <2>6. ASSUME NEW leg \in todo, RejectStep(leg)
        PROVE  /\ UNCHANGED <<job, residual, arena, expanding, kept>>
               /\ todo' \subseteq todo /\ state = "scan"
               /\ state' \in {"scan", "failed"}
    BY <2>6 DEF RejectStep, Visiting
  <2> QED BY <2>1, <2>2, <2>3, <2>4, <2>5, <2>6
<1>2. Afoot'
  BY <1>1, AfootResting DEF JInv
<1>3. SlotsRight'
  BY <1>1, SlotsUnchanged DEF JInv, Prepared
<1>4. NoUseStays
  BY <1>1 DEF NoUseStays
<1> QED BY <1>2, <1>3, <1>4

LEMMA CompleteSlots ==
    ASSUME JInv, NEW leg \in todo, CompleteStep(leg)
    PROVE  Afoot' /\ SlotsRight' /\ NoUseStays
<1> DEFINE b == Candidate(leg)
           served == CompletedSlots(expanding, b)
           c == Connection(b)
<1>1. /\ state = "scan" /\ todo' \subseteq todo
      /\ UNCHANGED <<job, residual, arena, expanding>>
      /\ \/ state' = "failed" /\ UNCHANGED kept
         \/ /\ UNCHANGED state
            /\ kept' = [s \in DOMAIN kept |->
                          IF s \in served THEN Retained(s, c) ELSE kept[s]]
  BY DEF CompleteStep, Visiting
<1>2. Weighed(c)
  <2>1. b.m \in Travelled
    BY <1>1, CandidateIsOnward DEF Standing
  <2> QED BY <2>1, ConnectionWeighs
<1>3. Afoot'
  BY <1>1, AfootResting DEF JInv
<1> HIDE DEF c, served, b
<1>8. CASE state' = "failed" /\ UNCHANGED kept
  <2>1. SlotsRight'
    BY <1>1, <1>8, SlotsUnchanged DEF JInv, Prepared
  <2>2. NoUseStays
    BY <1>1, <1>8 DEF NoUseStays
  <2> QED BY <1>3, <2>1, <2>2
<1>9. CASE /\ UNCHANGED state
           /\ kept' = [s \in DOMAIN kept |->
                         IF s \in served THEN Retained(s, c) ELSE kept[s]]
  <2>4. ASSUME NEW s \in DOMAIN kept
        PROVE  /\ Kept(job, kept'[s])
               /\ \A e : Weighed(e) /\ NoUse(job, kept[s], e)
                            => NoUse(job, kept'[s], e)
    <3>1. Kept(job, kept[s])
      BY DEF JInv, SlotsRight
    <3>2. kept'[s] = IF s \in served THEN Retained(s, c) ELSE kept[s]
      BY <1>9
    <3>3. /\ Kept(job, Retained(s, c))
          /\ \A e : Weighed(e) /\ NoUse(job, kept[s], e)
                       => NoUse(job, Retained(s, c), e)
      BY <1>2, <3>1, RetainedIsKept
    <3> QED BY <3>1, <3>2, <3>3
  <2>5. DOMAIN kept' = DOMAIN kept
    BY <1>9
  <2>6. SlotsRight'
    BY <1>1, <1>9, <2>4, <2>5 DEF JInv, SlotsRight, Prepared
  <2>7. NoUseStays
    BY <1>1, <1>9, <2>4 DEF NoUseStays
  <2> QED BY <1>3, <2>6, <2>7
<1> QED BY <1>1, <1>8, <1>9

LEMMA PopSlots ==
    ASSUME JInv, Pop
    PROVE  Afoot' /\ SlotsRight' /\ NoUseStays
<1> DEFINE i == Head(current)
<1>1. /\ state \in {"advanced", "level"} /\ current # <<>>
      /\ UNCHANGED <<job, residual, kept>>
      /\ \/ /\ state' = "level" /\ arena' = Release(arena, i)
         \/ /\ state' = "scan" /\ expanding' = i /\ todo' = Successors(i)
            /\ UNCHANGED arena
  BY DEF Pop
<1>2. i \in Range(current)
  <2>1. current \in Seq(Nat) /\ Distinct(current)
    BY DEF JInv, IInv, Typing, Queued
  <2> QED BY <1>1, <2>1, TailFacts
<1> HIDE DEF i
<1>3. i \in InHand /\ i \in DOMAIN arena
  <2>1. i \in InHand /\ InHand \subseteq DOMAIN arena
    BY <1>2 DEF InHand, JInv, IInv, Queued
  <2> QED BY <2>1
<1>4. SlotsRight'
  BY <1>1, SlotsUnchanged DEF JInv, Prepared
<1>5. NoUseStays
  BY <1>1 DEF NoUseStays
<1>6. Afoot'
  <2>1. CASE state' = "level" /\ arena' = Release(arena, i)
    <3>1. SameArena
      BY <1>1, <1>3, <2>1, ReleaseRight DEF JInv
    <3>2. Placed(arena)'
      BY <3>1, PlacedKept DEF JInv, Afoot
    <3> QED BY <2>1, <3>2 DEF Afoot
  <2>2. CASE /\ state' = "scan" /\ expanding' = i /\ todo' = Successors(i)
             /\ UNCHANGED arena
    <3>1. SameArena
      BY <1>1, <2>2, ArenaUnchanged DEF JInv, IInv
    <3>2. Placed(arena)'
      BY <3>1, PlacedKept DEF JInv, Afoot
    <3>3. \A leg \in Successors(i) : MayTake(arena[i], leg)
      BY <1>3, SuccessorsMayBeTaken
    <3> QED BY <2>2, <3>2, <3>3 DEF Afoot
  <2> QED BY <1>1, <2>1, <2>2
<1> QED BY <1>4, <1>5, <1>6

LEMMA ContinueSlots ==
    ASSUME JInv, NEW leg \in todo, ContinueStep(leg)
    PROVE  Afoot' /\ SlotsRight' /\ NoUseStays
<1>1. /\ state = "scan" /\ todo' \subseteq todo
      /\ UNCHANGED <<job, residual, state, expanding>>
      /\ \/ UNCHANGED <<arena, current, next>>
         \/ \E tasks, targets : Queueing(leg, tasks, targets)
  BY ContinueCases
<1>2. kept' = kept
  BY DEF ContinueStep
<1>3. SlotsRight'
  BY <1>1, <1>2, SlotsUnchanged DEF JInv, Prepared
<1>4. NoUseStays
  BY <1>1, <1>2 DEF NoUseStays
<1>5. CASE UNCHANGED <<arena, current, next>>
  <2>1. Afoot'
    BY <1>1, <1>5, AfootResting DEF JInv
  <2> QED BY <1>3, <1>4, <2>1
<1>6. ASSUME NEW tasks, NEW targets, Queueing(leg, tasks, targets)
      PROVE  Afoot'
  <2> DEFINE b == OffspringOf(leg, tasks, targets)
             n == Len(arena) + 1
  <2>1. Offspring(b) /\ b.m = Candidate(leg).m /\ b.parent = expanding
    BY <1>1, <1>6, OffspringIsRight DEF JInv
  <2>2. arena' = Born(arena, b)
    BY <1>6 DEF Queueing, Appended, Born
  <2>3. /\ b.node = Candidate(leg).node /\ b.phase = Candidate(leg).phase
    <3>1. b.node = Candidate(leg).node
      BY RootFields DEF OffspringOf, BranchType
    <3>2. b.phase = Candidate(leg).phase
      BY RootFields DEF OffspringOf, BranchType
    <3> QED BY <3>1, <3>2
  <2>4. Standing(Candidate(leg))
    BY <1>1, CandidateIsOnward
  <2> HIDE DEF b
  <2>5. Standing(b)
    BY <2>1, <2>3, <2>4, SameStanding
  <2>6. /\ arena \in Seq(BranchType) /\ expanding \in DOMAIN arena
        /\ Forest(arena)
    BY <1>1 DEF JInv, IInv, Typing
  <2>7. /\ DOMAIN arena' = DOMAIN arena \cup {n} /\ n \notin DOMAIN arena
        /\ arena'[n] = b
        /\ \A k \in DOMAIN arena : SameBranch(arena[k], arena'[k])
    BY <1>1, <2>1, <2>2, BirthIsRight DEF JInv
  <2>8. b.tasks \subseteq DOMAIN job.slots
    BY <2>1, <2>6 DEF Offspring, JInv, Afoot, Placed
  <2>9. ASSUME NEW k \in DOMAIN arena'
        PROVE  Standing(arena'[k]) /\ arena'[k].tasks \subseteq DOMAIN job.slots
    <3>1. CASE k = n
      BY <2>5, <2>7, <2>8, <3>1
    <3>2. CASE k \in DOMAIN arena
      <4>1. Standing(arena[k]) /\ arena[k].tasks \subseteq DOMAIN job.slots
        BY <3>2 DEF JInv, Afoot, Placed
      <4>2. SameBranch(arena[k], arena'[k])
        BY <2>7, <3>2
      <4>3. Standing(arena'[k])
        BY <4>1, <4>2, SameStanding DEF SameBranch
      <4> QED BY <4>1, <4>2, <4>3 DEF SameBranch
    <3> QED BY <2>7, <3>1, <3>2
  <2>10. \A l \in todo' : MayTake(arena'[expanding], l)
    <3>1. SameBranch(arena[expanding], arena'[expanding])
      BY <2>6, <2>7
    <3>2. \A l \in todo : MayTake(arena[expanding], l)
      BY <1>1 DEF JInv, Afoot
    <3> QED BY <1>1, <3>1, <3>2, SameStanding DEF SameBranch
  <2> QED BY <1>1, <2>9, <2>10 DEF Afoot, Placed
<1> QED BY <1>1, <1>3, <1>4, <1>5, <1>6

LEMMA FinishSlots ==
    ASSUME JInv, FinishExpansion
    PROVE  Afoot' /\ SlotsRight' /\ NoUseStays
<1>1. /\ state = "scan" /\ arena' = Release(arena, expanding)
      /\ state' \in {"level", "stopped"}
      /\ UNCHANGED <<job, residual, kept>>
  BY DEF FinishExpansion
<1>2. expanding \in InHand
  <2>1. expanding \in DOMAIN arena /\ expanding # None
    BY <1>1 DEF JInv, IInv, Typing, None
  <2> QED BY <2>1 DEF InHand
<1>3. SameArena
  BY <1>1, <1>2, ReleaseRight DEF JInv
<1>4. Placed(arena)'
  BY <1>3, PlacedKept DEF JInv, Afoot
<1>5. Afoot'
  BY <1>1, <1>4 DEF Afoot
<1>6. SlotsRight'
  BY <1>1, SlotsUnchanged DEF JInv, Prepared
<1>7. NoUseStays
  BY <1>1 DEF NoUseStays
<1> QED BY <1>5, <1>6, <1>7

LEMMA StepsKeepSlots ==
    ASSUME JInv, [TreeNext]_tree_vars
    PROVE  JInv' /\ NoUseStays
<1>1. IInv'
  BY NextKeeps DEF JInv
<1>2. CASE Prepare
  BY <1>1, <1>2, PrepareSlots DEF JInv
<1>3. CASE Cancel \/ Stop \/ AdvanceLevel \/ Exhaust \/ UNCHANGED tree_vars
  BY <1>1, <1>3, RestSlots DEF JInv
<1>4. CASE Pop
  BY <1>1, <1>4, PopSlots DEF JInv
<1>5. ASSUME NEW leg \in todo, RejectStep(leg)
      PROVE  JInv' /\ NoUseStays
  BY <1>1, <1>5, RestSlots DEF JInv
<1>6. ASSUME NEW leg \in todo, CompleteStep(leg)
      PROVE  JInv' /\ NoUseStays
  BY <1>1, <1>6, CompleteSlots DEF JInv
<1>7. ASSUME NEW leg \in todo, ContinueStep(leg)
      PROVE  JInv' /\ NoUseStays
  BY <1>1, <1>7, ContinueSlots DEF JInv
<1>8. CASE FinishExpansion
  BY <1>1, <1>8, FinishSlots DEF JInv
<1> QED BY <1>2, <1>3, <1>4, <1>5, <1>6, <1>7, <1>8 DEF TreeNext, Visit

LEMMA InitKeepsNothing ==
    ASSUME TreeInit
    PROVE  JInv
<1>1. IInv
  BY InitIsRight
<1>2. /\ state = "prepare" /\ arena = <<>> /\ kept = <<>> /\ DOMAIN kept = {}
      /\ DOMAIN arena = {}
  BY DEF TreeInit
<1>3. Afoot
  BY <1>2 DEF Afoot, Placed
<1>4. SlotsRight
  BY <1>2 DEF SlotsRight, Prepared
<1> QED BY <1>1, <1>3, <1>4 DEF JInv

THEOREM SlotsInvariant == TreeSpec => []JInv
<1>1. TreeInit => JInv
  BY InitKeepsNothing
<1>2. JInv /\ [TreeNext]_tree_vars => JInv'
  BY StepsKeepSlots
<1> QED BY <1>1, <1>2, PTL DEF TreeSpec

\* A connection that what a slot has kept turns out, or makes intolerable,
\* stays turned out or intolerable, whatever the slot retains and drops
\* afterwards.
THEOREM NoUseIsForGood == TreeSpec => [][NoUseStays]_tree_vars
<1>1. JInv /\ [TreeNext]_tree_vars => [NoUseStays]_tree_vars
  BY StepsKeepSlots
<1> QED BY <1>1, SlotsInvariant, PTL DEF TreeSpec

-------------------------------------------------------------------------------
\* Legs that the tree may take lead from x to the zone d, as the branch y.
Arrives(x, d, y) ==
    /\ y.phase = "Completed" /\ y.node = d
    /\ \E n, at : Journey(job.network, at, n) /\ at[0] = x /\ at[n] = y

LEMMA ArrivalsAreBounded ==
    ASSUME NEW j \in Batches, j = job, NEW d \in Range(job.targets), NEW x,
           Standing(x), NEW y, Arrives(x, d, y),
           residual = Residual(job.network, Range(job.targets))
    PROVE  /\ Feasible(residual, d, MaskKey(x)) /\ Weighed(Ended(y))
           /\ BoundOf(x, LowerBound(x, residual[d].bounds[MaskKey(x)]), Ended(y))
<1>1. PICK n, at : Journey(j.network, at, n) /\ at[0] = x /\ at[n] = y
  BY DEF Arrives
<1>2. at[n].phase = "Completed" /\ at[n].node = d
  BY <1>1 DEF Arrives
<1>3. /\ Feasible(residual, d, MaskKey(at[0]))
      /\ BoundOf(at[0], LowerBound(at[0], residual[d].bounds[MaskKey(at[0])]),
                 Ended(at[n]))
  BY <1>1, <1>2, NothingReachableIsCut
<1>4. Standing(y)
  <2>1. n \in 0 .. n
    BY <1>1 DEF Journey
  <2> QED BY <1>1, <2>1, JourneyStands
<1>5. Weighed(Ended(y))
  BY <1>4, EndedFields, TravelledFields DEF Standing, Weighed
<1> QED BY <1>1, <1>3, <1>5

\* A bound that is turned out, or intolerable, leaves no hope for what it
\* bounds.
LEMMA BoundTurnsOut ==
    ASSUME NEW x, NEW bound, NEW c, Weighed(c), BoundOf(x, bound, c),
           NEW k, Weighed(k), NEW barred
    PROVE  /\ x.m.boarded /\ Complete!Dominates(barred, k, bound)
                => Complete!Dominates(barred, k, c)
           /\ Weighed(bound)
           /\ Exceeds(bound, k) => Exceeds(c, k)
<1>1. /\ Weighed(bound) /\ bound.arr - bound.dep = bound.jt
      /\ bound.jt <= c.arr - c.dep /\ bound.nt <= c.nt /\ bound.imp <= c.imp
      /\ x.m.boarded => bound.dep = c.dep /\ bound.arr <= c.arr
  BY DEF BoundOf, Weighed
<1>2. x.m.boarded /\ Complete!Dominates(barred, k, bound)
        => Complete!Dominates(barred, k, c)
  BY <1>1 DEF Weighed, Complete!Dominates, Complete!CanDominate
<1>3. ASSUME Exceeds(bound, k) PROVE Exceeds(c, k)
  <2> DEFINE imp == ChoiceTolerances.imp_mult * k.imp
             jt == ChoiceTolerances.jt_mult * (k.arr - k.dep)
             nt == ChoiceTolerances.nt_mult * k.nt
  <2>1. k.imp \in Int /\ k.arr - k.dep \in Int /\ k.nt \in Int
    BY DEF Weighed
  <2>2. imp \in Int /\ jt \in Int /\ nt \in Int
    <3>1. k.imp <= k.imp /\ k.arr - k.dep <= k.arr - k.dep /\ k.nt <= k.nt
      BY <2>1
    <3> QED BY <2>1, <3>1, TolerancesAreNat, MoreOfMore
  <2>3. \/ bound.imp > imp + ChoiceTolerances.imp_add
        \/ bound.arr - bound.dep > jt + ChoiceTolerances.jt_add
        \/ bound.nt > nt + ChoiceTolerances.nt_add
    BY <1>3 DEF Exceeds
  <2> HIDE DEF imp, jt, nt
  <2>4. \/ c.imp > imp + ChoiceTolerances.imp_add
        \/ c.arr - c.dep > jt + ChoiceTolerances.jt_add
        \/ c.nt > nt + ChoiceTolerances.nt_add
    BY <1>1, <2>2, <2>3, TolerancesAreNat DEF Weighed
  <2> QED BY <2>4 DEF Exceeds, imp, jt, nt
<1> QED BY <1>1, <1>2, <1>3

LEMMA HopelessIsOfNoUse ==
    ASSUME JInv, Prepared, NEW x, Standing(x), NEW slot \in DOMAIN kept,
           Hopeless(x, slot), NEW y, Arrives(x, job.slots[slot].to, y)
    PROVE  NoUse(job, kept[slot], Ended(y))
<1> DEFINE zone == job.slots[slot].to
           bound == LowerBound(x, residual[zone].bounds[MaskKey(x)])
           c == Ended(y)
<1>1. /\ zone \in DOMAIN residual
      /\ \/ \E k \in kept[slot] : TurnedOutBy(x, k, bound)
         \/ /\ job.rollout = "exact_and_approximate"
            /\ ~Complete!Within(bound, kept[slot])
  BY DEF Hopeless
<1>2. /\ job \in Batches /\ residual = Residual(job.network, Range(job.targets))
      /\ \A k \in kept[slot] : Weighed(k)
  BY DEF JInv, IInv, Typing, SlotsRight, Kept
<1>3. zone \in Range(job.targets)
  BY <1>1, <1>2 DEF Residual
<1>4. Weighed(c) /\ BoundOf(x, bound, c)
  BY <1>2, <1>3, ArrivalsAreBounded
<1> HIDE DEF bound, zone, c
<1>5. ASSUME NEW k \in kept[slot], TurnedOutBy(x, k, bound)
      PROVE  NoUse(job, kept[slot], c)
  <2>1. x.m.boarded /\ Complete!Dominates(job.direct_barred, k, bound)
    BY <1>5 DEF TurnedOutBy
  <2>2. Complete!Dominates(job.direct_barred, k, c)
    BY <1>2, <1>4, <2>1, BoundTurnsOut
  <2> QED BY <2>2 DEF NoUse
<1>6. ASSUME job.rollout = "exact_and_approximate",
             ~Complete!Within(bound, kept[slot])
      PROVE  NoUse(job, kept[slot], c)
  <2>1. Weighed(bound)
    BY <1>4 DEF BoundOf, Weighed
  <2>2. PICK k \in kept[slot] : Exceeds(bound, k)
    BY <1>2, <1>6, <2>1, WithinIs
  <2>3. Exceeds(c, k)
    BY <1>2, <1>4, <2>2, BoundTurnsOut
  <2>4. ~Complete!Within(c, kept[slot])
    BY <1>2, <1>4, <2>3, WithinIs
  <2> QED BY <1>6, <2>4 DEF NoUse
<1> QED BY <1>1, <1>5, <1>6 DEF c

\* What a candidate may still arrive at, it is still looked for at; and where
\* a slot's connections cut it off, they have no use for what it would bring.
CutsAreSafe ==
    state = "scan" => \A leg \in todo : \A y :
        LET b == Candidate(leg)
            s == arena[expanding]
        IN  /\ \A t \in s.targets : Arrives(b, job.targets[t], y)
                                        => t \in ReachableTargets(b, s.targets)
            /\ \A t \in s.tasks : Arrives(b, job.slots[t].to, y)
                    => /\ t \in ReachableTasks(b, s.tasks)
                       /\ Hopeless(b, t) => NoUse(job, kept[t], Ended(y))

LEMMA InvariantGivesSafeCuts ==
    ASSUME JInv
    PROVE  CutsAreSafe
<1> SUFFICES ASSUME state = "scan", NEW leg \in todo, NEW y
             PROVE  /\ \A t \in arena[expanding].targets :
                            Arrives(Candidate(leg), job.targets[t], y)
                                => t \in ReachableTargets(Candidate(leg),
                                                          arena[expanding].targets)
                    /\ \A t \in arena[expanding].tasks :
                            Arrives(Candidate(leg), job.slots[t].to, y)
                              => /\ t \in ReachableTasks(Candidate(leg),
                                                         arena[expanding].tasks)
                                 /\ Hopeless(Candidate(leg), t)
                                        => NoUse(job, kept[t], Ended(y))
  BY DEF CutsAreSafe
<1> DEFINE b == Candidate(leg)
           s == arena[expanding]
<1>1. /\ Prepared /\ job \in Batches
      /\ residual = Residual(job.network, Range(job.targets))
      /\ s.tasks \subseteq DOMAIN kept
  <2>1. Prepared
    BY DEF Prepared
  <2>2. expanding \in DOMAIN arena /\ job \in Batches
    BY DEF JInv, IInv, Typing
  <2> QED BY <2>1, <2>2 DEF JInv, Afoot, Placed, SlotsRight
<1>2. Standing(b)
  BY CandidateIsOnward
<1> HIDE DEF b, s
<1>3. ASSUME NEW d, Arrives(b, d, y)
      PROVE  Feasible(residual, d, MaskKey(b))
  <2>1. CASE d \in Range(job.targets)
    BY <1>1, <1>2, <1>3, <2>1, ArrivalsAreBounded
  <2>2. CASE d \notin Range(job.targets)
    <3>1. d \notin DOMAIN residual
      BY <1>1, <2>2 DEF Residual
    <3> QED BY <3>1 DEF Feasible
  <2> QED BY <2>1, <2>2
<1>4. ASSUME NEW t \in s.targets, Arrives(b, job.targets[t], y)
      PROVE  t \in ReachableTargets(b, s.targets)
  BY <1>3, <1>4 DEF ReachableTargets
<1>5. ASSUME NEW t \in s.tasks, Arrives(b, job.slots[t].to, y)
      PROVE  /\ t \in ReachableTasks(b, s.tasks)
             /\ Hopeless(b, t) => NoUse(job, kept[t], Ended(y))
  <2>1. t \in ReachableTasks(b, s.tasks)
    BY <1>3, <1>5 DEF ReachableTasks
  <2>2. t \in DOMAIN kept
    BY <1>1
  <2> QED BY <1>1, <1>2, <1>5, <2>1, <2>2, HopelessIsOfNoUse
<1> QED BY <1>4, <1>5 DEF b, s

\* In every state of every batch: a tree never stops looking, from where it
\* goes next, for a zone that legs it may take lead to, except for tasks that
\* have no use for whatever it would find.
THEOREM NothingUsefulIsCut == TreeSpec => []CutsAreSafe
<1>1. JInv => CutsAreSafe
  BY InvariantGivesSafeCuts
<1> QED BY <1>1, SlotsInvariant, PTL

-------------------------------------------------------------------------------
Reported ==
    state = "exhausted" =>
        found = [s \in DOMAIN kept |->
                    IF job.kind = "completion_target" THEN Cardinality(Final(s))
                    ELSE Final(s)]

LEMMA StepsReport ==
    ASSUME Reported, [TreeNext]_tree_vars
    PROVE  Reported'
<1>1. \/ state' # "exhausted"
      \/ UNCHANGED <<job, state, kept, found>>
      \/ Exhaust
  <2>1. CASE UNCHANGED tree_vars
    BY <2>1 DEF tree_vars
  <2>2. CASE Prepare \/ Cancel \/ Stop \/ AdvanceLevel \/ Pop \/ FinishExpansion
    BY <2>2 DEF Prepare, Cancel, Stop, AdvanceLevel, Pop, FinishExpansion
  <2>3. ASSUME NEW leg \in todo,
               RejectStep(leg) \/ CompleteStep(leg) \/ ContinueStep(leg)
        PROVE  state' \in {"scan", "failed"}
    BY <2>3 DEF RejectStep, CompleteStep, ContinueStep, Visiting
  <2> QED BY <2>1, <2>2, <2>3 DEF TreeNext, Visit
<1>2. CASE UNCHANGED <<job, state, kept, found>>
  BY <1>2 DEF Reported, Final
<1>3. CASE Exhaust
  BY <1>3 DEF Exhaust, Reported, Final
<1> QED BY <1>1, <1>2, <1>3 DEF Reported

\* What is reported of a demand task: only what the task has a use for.
FoundIsUseful ==
    state = "exhausted" /\ job.kind # "completion_target" =>
        \A slot \in DOMAIN found : \A c \in found[slot] :
            c \in kept[slot] /\ ~NoUse(job, kept[slot], c)

\* When a tree of demand tasks is done, no connection it reports is dominated
\* by another one of its slot or intolerable beside them.
THEOREM OnlyUsefulIsFound == TreeSpec => []FoundIsUseful
<1>1. TreeInit => Reported
  BY DEF TreeInit, Reported
<1>2. Reported /\ [TreeNext]_tree_vars => Reported'
  BY StepsReport
<1>3. JInv /\ Reported => FoundIsUseful
  <2> SUFFICES ASSUME JInv, Reported, state = "exhausted",
                      job.kind # "completion_target",
                      NEW slot \in DOMAIN found, NEW c \in found[slot]
               PROVE  c \in kept[slot] /\ ~NoUse(job, kept[slot], c)
    BY DEF FoundIsUseful
  <2>1. found = [s \in DOMAIN kept |-> Final(s)]
    BY DEF Reported
  <2>2. slot \in DOMAIN kept /\ c \in Final(slot)
    BY <2>1
  <2>3. Kept(job, kept[slot])
    BY <2>2 DEF JInv, SlotsRight
  <2> QED BY <2>2, <2>3, FinalIsUseful DEF Final
<1> QED BY <1>1, <1>2, <1>3, SlotsInvariant, PTL DEF TreeSpec

(***************************************************************************)
(* What a tree finds is what the timetable offers.  First, recursion along *)
(* the numbers up to n, in the form in which the definitions use it.       *)
(***************************************************************************)

\* A function may be given by its first value and a step to each next one.
Stepwise(f, n, S, a, step) ==
    /\ f \in [0 .. n -> S] /\ f[0] = a
    /\ \A k \in 1 .. n : f[k] = step[k][f[k - 1]]

Stepping(step, n, S) == step \in [1 .. n -> [S -> S]]

LEMMA Recursion ==
    ASSUME NEW n \in Nat, NEW S, NEW a \in S, NEW step, Stepping(step, n, S)
    PROVE  \E f : Stepwise(f, n, S, a, step)
<1> USE DEF Stepping
<1> DEFINE Upto(f, l) == /\ f \in [0 .. l -> S] /\ f[0] = a
                         /\ \A k \in 1 .. l : f[k] = step[k][f[k - 1]]
           Holds == {l \in 0 .. n : \E f : Upto(f, l)}
<1>1. 0 \in Holds
  <2> DEFINE g == [k \in 0 .. 0 |-> a]
  <2>1. Upto(g, 0)
    OBVIOUS
  <2>2. 0 \in 0 .. n
    OBVIOUS
  <2> HIDE DEF Upto
  <2> QED BY <2>1, <2>2
<1>2. ASSUME NEW l \in 1 .. n, l - 1 \in Holds
      PROVE  l \in Holds
  <2>1. PICK f : Upto(f, l - 1)
    BY <1>2
  <2> DEFINE g == [k \in 0 .. l |-> IF k = l THEN step[l][f[l - 1]] ELSE f[k]]
  <2>2. /\ l - 1 \in 0 .. l - 1 /\ l \in Nat /\ l \in 0 .. n
        /\ \A k \in 0 .. l : k # l => k \in 0 .. l - 1
        /\ \A k \in 1 .. l : k - 1 \in 0 .. l - 1
    OBVIOUS
  <2>3. f[l - 1] \in S
    BY <2>1, <2>2
  <2>4. step[l][f[l - 1]] \in S
    BY <2>3
  <2>5. g \in [0 .. l -> S]
    BY <2>1, <2>2, <2>4
  <2>6. g[l] = step[l][f[l - 1]] /\ \A k \in 0 .. l - 1 : g[k] = f[k]
    BY <2>2
  <2>7. g[0] = a
    BY <2>1, <2>2, <2>6
  <2>8. ASSUME NEW k \in 1 .. l
        PROVE  g[k] = step[k][g[k - 1]]
    <3> HIDE DEF g
    <3>1. CASE k = l
      BY <2>2, <2>6, <3>1
    <3>2. CASE k # l
      <4>1. k \in 1 .. l - 1 /\ k \in 0 .. l - 1 /\ k - 1 \in 0 .. l - 1
        BY <2>2, <3>2
      <4> QED BY <2>1, <2>6, <4>1
    <3> QED BY <3>1, <3>2
  <2>9. Upto(g, l)
    <3> HIDE DEF g
    <3> QED BY <2>5, <2>7, <2>8
  <2> QED BY <2>2, <2>9
<1>3. n \in Holds
  <2>1. \A l \in 1 .. n : l - 1 \in Holds => l \in Holds
    BY <1>2
  <2>2. 0 .. n \subseteq Holds
    <3> HIDE DEF Holds
    <3> QED BY <1>1, <2>1, UpTo
  <2>3. n \in 0 .. n
    OBVIOUS
  <2> HIDE DEF Holds
  <2> QED BY <2>2, <2>3
<1> QED BY <1>3 DEF Stepwise

\* The sums of the first numbers.
SumsOf(f, numbers) ==
    /\ f \in [0 .. Len(numbers) -> Int] /\ f[0] = 0
    /\ \A k \in 1 .. Len(numbers) : f[k] = f[k - 1] + numbers[k]

Partial(numbers) == CHOOSE f : SumsOf(f, numbers)

LEMMA TotalIs ==
    ASSUME NEW numbers \in Seq(Int)
    PROVE  /\ SumsOf(Partial(numbers), numbers)
           /\ Total(numbers) = Partial(numbers)[Len(numbers)]
<1> DEFINE n == Len(numbers)
           Solves(f) == f = [k \in 0 .. n |->
                                IF k = 0 THEN 0 ELSE f[k - 1] + numbers[k]]
           step == [k \in 1 .. n |-> [v \in Int |-> v + numbers[k]]]
<1>1. n \in Nat /\ \A k \in 1 .. n : numbers[k] \in Int
  OBVIOUS
<1>2. Stepping(step, n, Int)
  BY <1>1 DEF Stepping
<1>3. PICK g : Stepwise(g, n, Int, 0, step)
  <2>1. 0 \in Int
    OBVIOUS
  <2> HIDE DEF step, n
  <2> QED BY <1>1, <1>2, <2>1, Recursion
<1>4. SumsOf(g, numbers)
  <2>1. \A k \in 1 .. n : step[k] = [v \in Int |-> v + numbers[k]]
    OBVIOUS
  <2> HIDE DEF step
  <2>2. \A k \in 1 .. n : k - 1 \in 0 .. n /\ g[k - 1] \in Int
    <3>1. \A k \in 1 .. n : k - 1 \in 0 .. n
      BY <1>1
    <3>2. \A k \in 0 .. n : g[k] \in Int
      BY <1>3 DEF Stepwise
    <3> HIDE DEF n
    <3> QED BY <3>1, <3>2
  <2>3. \A k \in 1 .. n : g[k] = g[k - 1] + numbers[k]
    BY <1>3, <2>1, <2>2 DEF Stepwise
  <2> QED BY <1>3, <2>3 DEF SumsOf, Stepwise
<1>5. SumsOf(Partial(numbers), numbers)
  BY <1>4 DEF Partial
<1>6. \A f : SumsOf(f, numbers) => Solves(f)
  <2> SUFFICES ASSUME NEW f, SumsOf(f, numbers)
               PROVE  Solves(f)
    OBVIOUS
  <2>1. f = [k \in 0 .. n |-> f[k]]
    BY DEF SumsOf
  <2>2. \A k \in 0 .. n : f[k] = IF k = 0 THEN 0 ELSE f[k - 1] + numbers[k]
    BY <1>1 DEF SumsOf
  <2> QED BY <2>1, <2>2
<1>7. \A f : Solves(f) => SumsOf(f, numbers)
  <2> SUFFICES ASSUME NEW f, Solves(f)
               PROVE  SumsOf(f, numbers)
    OBVIOUS
  <2>1. \A k \in 0 .. n : f[k] = IF k = 0 THEN 0 ELSE f[k - 1] + numbers[k]
    OBVIOUS
  <2>2. DOMAIN f = 0 .. n /\ f = [k \in 0 .. n |-> f[k]]
    OBVIOUS
  <2>3. f[0] = 0 /\ \A k \in 1 .. n : f[k] = f[k - 1] + numbers[k]
    BY <1>1, <2>1, SMTT(30)
  <2> DEFINE Ints == {k \in 0 .. n : f[k] \in Int}
  <2>4. 0 \in Ints /\ \A k \in 1 .. n : k - 1 \in Ints => k \in Ints
    <3> HIDE DEF Solves
    <3> QED BY <1>1, <2>3
  <2>5. 0 .. n \subseteq Ints
    <3> HIDE DEF Ints
    <3> QED BY <1>1, <2>4, UpTo
  <2> QED BY <2>2, <2>3, <2>5 DEF SumsOf
<1>8. \A f : Solves(f) <=> SumsOf(f, numbers)
  BY <1>6, <1>7
<1> DEFINE upto == CHOOSE f : Solves(f)
<1>9. SumsOf(upto, numbers)
  <2>1. Solves(g)
    BY <1>4, <1>6
  <2>2. Solves(upto)
    <3> HIDE DEF Solves
    <3> QED BY <2>1
  <2> HIDE DEF upto, Solves
  <2> QED BY <1>8, <2>2
<1>10. Total(numbers) = upto[n]
  BY DEF Total
<1>11. upto[n] = Partial(numbers)[n]
  <2> DEFINE Same == {k \in 0 .. n : upto[k] = Partial(numbers)[k]}
  <2> HIDE DEF upto
  <2>1. 0 \in Same /\ \A k \in 1 .. n : k - 1 \in Same => k \in Same
    BY <1>1, <1>5, <1>9 DEF SumsOf
  <2>2. 0 .. n \subseteq Same
    <3> HIDE DEF Same
    <3> QED BY <1>1, <2>1, UpTo
  <2> QED BY <1>1, <2>2
<1> QED BY <1>5, <1>10, <1>11
==============================================================================
