----------------------- MODULE CapacityIteration_proof -----------------------
(***************************************************************************)
(* Proofs about the capacity-aware iteration and the split it repeats, for *)
(* any demand, connections, capacities and number of iterations.           *)
(***************************************************************************)
EXTENDS CapacityIteration, FiniteSetTheorems, TLAPS

(***************************************************************************)
(* Induction over data: over the parts of a finite set, and over numbers.  *)
(***************************************************************************)

\* What holds of a set whenever it holds of the set without any one of its
\* elements, holds of every part of a finite set: look at a smallest part of
\* which it does not hold.
LEMMA SetInduction ==
    ASSUME NEW D, IsFiniteSet(D), NEW Holds,
           \A s \in SUBSET D : (\A x \in s : s \ {x} \in Holds) => s \in Holds
    PROVE  SUBSET D \subseteq Holds
<1> DEFINE Rest == {s \in SUBSET D : s \notin Holds}
           R == StrictSubsetOrdering(D)
<1>1. ASSUME Rest # {}
      PROVE  FALSE
  <2>1. IsWellFoundedOn(R, FiniteSubsetsOf(D))
    BY FS_StrictSubsetOrderingWellFounded
  <2>2. Rest \subseteq FiniteSubsetsOf(D)
    BY FS_Subset DEF FiniteSubsetsOf
  <2>3. PICK s \in Rest : \A t \in Rest : <<t, s>> \notin R
    <3> HIDE DEF Rest, R
    <3> QED BY <1>1, <2>1, <2>2, WFMin
  <2>4. ASSUME NEW x \in s
        PROVE  s \ {x} \in Holds
    <3>1. s \ {x} \in SUBSET D /\ s \ {x} # s /\ s \ {x} \subseteq s
      BY <2>4
    <3>2. <<s \ {x}, s>> \in R
      BY <3>1 DEF StrictSubsetOrdering
    <3> QED BY <2>3, <3>1, <3>2
  <2>5. s \in SUBSET D /\ s \notin Holds
    BY <2>3
  <2> QED BY <2>4, <2>5, Zenon
<1> QED BY <1>1

\* A step from each number to the next goes as far as one likes.
LEMMA UpTo ==
    ASSUME NEW n \in Nat, NEW Holds,
           0 \in Holds,
           \A k \in 1 .. n : k - 1 \in Holds => k \in Holds
    PROVE  n \in Holds
<1> DEFINE Sets == {s \in SUBSET (1 .. n) : Cardinality(s) \in Holds}
<1>1. IsFiniteSet(1 .. n) /\ Cardinality(1 .. n) = n
  <2>1. 1 \in Int /\ n \in Int
    OBVIOUS
  <2>2. /\ IsFiniteSet(1 .. n)
        /\ Cardinality(1 .. n) = IF 1 > n THEN 0 ELSE n - 1 + 1
    BY <2>1, FS_Interval
  <2> QED BY <2>2
<1>2. ASSUME NEW s \in SUBSET (1 .. n), \A x \in s : s \ {x} \in Sets
      PROVE  s \in Sets
  <2>1. IsFiniteSet(s) /\ Cardinality(s) \in Nat /\ Cardinality(s) <= n
    BY <1>1, FS_Subset, FS_CardinalityType
  <2>2. CASE s = {}
    BY <2>2, FS_EmptySet
  <2>3. CASE s # {}
    <3>1. PICK x \in s : TRUE
      BY <2>3
    <3>2. Cardinality(s \ {x}) = Cardinality(s) - 1
      BY <2>1, <3>1, FS_RemoveElement
    <3>3. Cardinality(s \ {x}) \in Nat
      BY <2>1, FS_Subset, FS_CardinalityType
    <3>4. Cardinality(s) \in 1 .. n /\ Cardinality(s) - 1 \in Holds
      BY <1>2, <2>1, <3>1, <3>2, <3>3
    <3> QED BY <3>4
  <2> QED BY <2>2, <2>3
<1>3. SUBSET (1 .. n) \subseteq Sets
  <2>1. \A s \in SUBSET (1 .. n) : (\A x \in s : s \ {x} \in Sets) => s \in Sets
    BY <1>2, Zenon
  <2> DEFINE D == 1 .. n
  <2>2. IsFiniteSet(D) /\ \A s \in SUBSET D : (\A x \in s : s \ {x} \in Sets) => s \in Sets
    BY <1>1, <2>1
  <2>3. SUBSET D \subseteq Sets
    <3> HIDE DEF Sets, D
    <3> QED BY <2>2, SetInduction
  <2> QED BY <2>3
<1> QED BY <1>1, <1>3

------------------------------------------------------------------------------
(* Sums.  Total follows a recursion on sets, which takes the elements out  *)
(* in an order nobody knows.  It has a solution; what it yields does not   *)
(* depend on the order.                                                    *)

First(s) == CHOOSE x \in s : TRUE

SolvesSum(F, f, sets) ==
    F = [s \in sets |->
            IF s = {} THEN 0 ELSE f[First(s)] + F[s \ {First(s)}]]

LEMMA SumExists ==
    ASSUME NEW f, IsFiniteSet(DOMAIN f)
    PROVE  \E F : SolvesSum(F, f, SUBSET DOMAIN f)
<1> DEFINE D == DOMAIN f
           Level(n) == {s \in SUBSET D : Cardinality(s) <= n}
           Holds == {n \in Nat : \E F : SolvesSum(F, f, Level(n))}
<1>1. \A s \in SUBSET D : IsFiniteSet(s) /\ Cardinality(s) \in Nat
                            /\ Cardinality(s) <= Cardinality(D)
  BY FS_Subset, FS_CardinalityType
<1>2. ASSUME NEW s \in SUBSET D, s # {}
      PROVE  /\ First(s) \in s
             /\ s \ {First(s)} \in SUBSET D
             /\ Cardinality(s \ {First(s)}) = Cardinality(s) - 1
             /\ Cardinality(s) # 0
  <2>1. First(s) \in s
    BY <1>2 DEF First
  <2>2. Cardinality(s \ {First(s)}) = Cardinality(s) - 1
    BY <1>1, <2>1, FS_RemoveElement
  <2>3. Cardinality(s) # 0
    BY <1>1, <1>2, FS_EmptySet
  <2> QED BY <2>1, <2>2, <2>3
<1>3. 0 \in Holds
  <2> DEFINE F == [s \in Level(0) |-> 0]
  <2>1. ASSUME NEW s \in Level(0), s # {}
        PROVE  FALSE
    <3>1. s \in SUBSET D /\ Cardinality(s) <= 0 /\ Cardinality(s) \in Nat
      BY <1>1
    <3>2. Cardinality(s) # 0
      BY <1>2, <2>1, <3>1
    <3> QED BY <3>1, <3>2
  <2>2. SolvesSum(F, f, Level(0))
    BY <2>1 DEF SolvesSum
  <2> QED BY <2>2
<1>4. ASSUME NEW n \in Nat, n # 0, n - 1 \in Holds
      PROVE  n \in Holds
  <2>1. PICK F : SolvesSum(F, f, Level(n - 1))
    BY <1>4
  <2> DEFINE Value(G, s) == IF s = {} THEN 0 ELSE f[First(s)] + G[s \ {First(s)}]
             G == [s \in Level(n) |-> Value(F, s)]
  <2>2. \A s \in Level(n - 1) : F[s] = Value(F, s)
    BY <2>1 DEF SolvesSum
  <2>3. \A s \in Level(n - 1) : s \in Level(n)
    BY <1>1
  <2>4. \A s \in Level(n - 1) : G[s] = F[s]
    BY <2>2, <2>3
  <2>5. \A s \in Level(n) : s # {} => s \ {First(s)} \in Level(n - 1)
    BY <1>1, <1>2
  <2>6. \A s \in Level(n) : Value(G, s) = Value(F, s)
    <3> HIDE DEF G, Level
    <3> QED BY <2>4, <2>5
  <2>7. G = [s \in Level(n) |-> Value(G, s)]
    <3> DEFINE K == [s \in Level(n) |-> Value(G, s)]
    <3>1. \A s \in Level(n) : Value(F, s) = Value(G, s)
      BY <2>6
    <3> QED BY <3>1, Zenon
  <2>8. SolvesSum(G, f, Level(n))
    <3> HIDE DEF G
    <3> QED BY <2>7 DEF SolvesSum
  <2> QED BY <2>8
<1>5. Cardinality(D) \in Holds
  <2>1. Cardinality(D) \in Nat
    BY FS_CardinalityType
  <2>2. \A k \in 1 .. Cardinality(D) : k - 1 \in Holds => k \in Holds
    <3> HIDE DEF Holds
    <3> QED BY <1>4, <2>1
  <2> HIDE DEF Holds
  <2> QED BY <1>3, <2>1, <2>2, UpTo
<1>6. Level(Cardinality(D)) = SUBSET D
  BY <1>1
<1> QED BY <1>5, <1>6

Partial(f) == CHOOSE F : SolvesSum(F, f, SUBSET DOMAIN f)

LEMMA TotalIsPartial ==
    ASSUME NEW f, IsFiniteSet(DOMAIN f)
    PROVE  /\ Total(f) = Partial(f)[DOMAIN f]
           /\ \A s \in SUBSET DOMAIN f :
                Partial(f)[s] = IF s = {} THEN 0
                                ELSE f[First(s)] + Partial(f)[s \ {First(s)}]
<1>1. SolvesSum(Partial(f), f, SUBSET DOMAIN f)
  BY SumExists, Zenon DEF Partial
<1>2. Total(f) = Partial(f)[DOMAIN f]
  BY DEF Total, MapThenSumSet, MapThenFoldSet, Partial, SolvesSum, First
<1>3. ASSUME NEW s \in SUBSET DOMAIN f
      PROVE  Partial(f)[s] = IF s = {} THEN 0
                             ELSE f[First(s)] + Partial(f)[s \ {First(s)}]
  BY <1>1, Zenon DEF SolvesSum
<1> QED BY <1>2, <1>3

\* The sum of f over s, a part of its domain.
Part(f, s) == Total([x \in s |-> f[x]])

\* It depends on nothing but the values of f on s..
LEMMA PartialAgrees ==
    ASSUME NEW f, IsFiniteSet(DOMAIN f), NEW g, IsFiniteSet(DOMAIN g),
           NEW D \in SUBSET DOMAIN f, D \subseteq DOMAIN g,
           \A x \in D : f[x] = g[x]
    PROVE  Partial(f)[D] = Partial(g)[D]
<1> DEFINE Holds == {s \in SUBSET D : Partial(f)[s] = Partial(g)[s]}
<1>1. IsFiniteSet(D)
  BY FS_Subset
<1>2. ASSUME NEW s \in SUBSET D, \A x \in s : s \ {x} \in Holds
      PROVE  s \in Holds
  <2>1. /\ Partial(f)[s] = IF s = {} THEN 0
                           ELSE f[First(s)] + Partial(f)[s \ {First(s)}]
        /\ Partial(g)[s] = IF s = {} THEN 0
                           ELSE g[First(s)] + Partial(g)[s \ {First(s)}]
    BY TotalIsPartial
  <2>2. s # {} => First(s) \in s
    BY DEF First
  <2>3. CASE s = {}
    BY <2>1, <2>3
  <2>4. CASE s # {}
    <3>1. First(s) \in s /\ f[First(s)] = g[First(s)]
      BY <2>2, <2>4
    <3>2. Partial(f)[s \ {First(s)}] = Partial(g)[s \ {First(s)}]
      BY <1>2, <3>1
    <3> QED BY <2>1, <2>4, <3>1, <3>2
  <2> QED BY <2>3, <2>4
<1>3. SUBSET D \subseteq Holds
  <2>1. \A s \in SUBSET D : (\A x \in s : s \ {x} \in Holds) => s \in Holds
    BY <1>2
  <2> HIDE DEF Holds
  <2> QED BY <1>1, <2>1, SetInduction
<1> QED BY <1>3

LEMMA PartIsPartial ==
    ASSUME NEW f, IsFiniteSet(DOMAIN f), NEW s \in SUBSET DOMAIN f
    PROVE  Part(f, s) = Partial(f)[s]
<1> DEFINE g == [x \in s |-> f[x]]
<1>1. IsFiniteSet(s)
  BY FS_Subset
<1>2. DOMAIN g = s /\ \A x \in s : g[x] = f[x]
  OBVIOUS
<1>3. Part(f, s) = Total(g)
  BY DEF Part
<1> HIDE DEF g
<1>4. Total(g) = Partial(g)[s]
  BY <1>1, <1>2, TotalIsPartial
<1>5. Partial(f)[s] = Partial(g)[s]
  BY <1>1, <1>2, PartialAgrees
<1> QED BY <1>3, <1>4, <1>5

\* ..it is an integer if they are, and whichever element is taken out, it is
\* that element's value and the sum of the rest.
LEMMA PartialIsInteger ==
    ASSUME NEW f, IsFiniteSet(DOMAIN f), \A x \in DOMAIN f : f[x] \in Int
    PROVE  \A s \in SUBSET DOMAIN f : Partial(f)[s] \in Int
<1> DEFINE D == DOMAIN f
           Holds == {s \in SUBSET D : Partial(f)[s] \in Int}
<1>1. ASSUME NEW s \in SUBSET D, \A x \in s : s \ {x} \in Holds
      PROVE  s \in Holds
  <2>1. Partial(f)[s] = IF s = {} THEN 0
                        ELSE f[First(s)] + Partial(f)[s \ {First(s)}]
    BY TotalIsPartial
  <2>2. CASE s = {}
    BY <2>1, <2>2
  <2>3. CASE s # {}
    <3>1. First(s) \in s /\ f[First(s)] \in Int
      BY <2>3 DEF First
    <3>2. Partial(f)[s \ {First(s)}] \in Int
      BY <1>1, <3>1
    <3> QED BY <2>1, <2>3, <3>1, <3>2
  <2> QED BY <2>2, <2>3
<1>2. SUBSET D \subseteq Holds
  <2>1. \A s \in SUBSET D : (\A x \in s : s \ {x} \in Holds) => s \in Holds
    BY <1>1
  <2> HIDE DEF Holds, D
  <2>2. IsFiniteSet(D)
    BY DEF D
  <2> QED BY <2>1, <2>2, SetInduction
<1> QED BY <1>2

LEMMA PartialTakesOut ==
    ASSUME NEW f, IsFiniteSet(DOMAIN f), \A x \in DOMAIN f : f[x] \in Int
    PROVE  \A s \in SUBSET DOMAIN f : \A x \in s :
              Partial(f)[s] = f[x] + Partial(f)[s \ {x}]
<1> DEFINE D == DOMAIN f
           Holds == {s \in SUBSET D :
                        \A x \in s : Partial(f)[s] = f[x] + Partial(f)[s \ {x}]}
<1>0. \A s \in SUBSET D : Partial(f)[s] \in Int
  BY PartialIsInteger
<1>1. ASSUME NEW s \in SUBSET D, \A x \in s : s \ {x} \in Holds
      PROVE  s \in Holds
  <2>1. ASSUME NEW x \in s
        PROVE  Partial(f)[s] = f[x] + Partial(f)[s \ {x}]
    <3> DEFINE c == First(s)
    <3>1. c \in s
      BY <2>1 DEF First
    <3>2. Partial(f)[s] = f[c] + Partial(f)[s \ {c}]
      BY <3>1, TotalIsPartial
    <3>3. CASE x = c
      BY <3>2, <3>3
    <3>4. CASE x # c
      <4> DEFINE rest == (s \ {c}) \ {x}
      <4>1. Partial(f)[s \ {c}] = f[x] + Partial(f)[rest]
        BY <1>1, <2>1, <3>1, <3>4
      <4>2. Partial(f)[s \ {x}] = f[c] + Partial(f)[rest]
        <5>1. rest = (s \ {x}) \ {c}
          OBVIOUS
        <5>2. Partial(f)[s \ {x}] = f[c] + Partial(f)[(s \ {x}) \ {c}]
          BY <1>1, <2>1, <3>1, <3>4
        <5> QED BY <5>1, <5>2
      <4>3. f[c] \in Int /\ f[x] \in Int /\ Partial(f)[rest] \in Int
        <5>1. rest \in SUBSET D /\ c \in D /\ x \in D
          BY <2>1, <3>1
        <5> QED BY <1>0, <5>1
      <4> HIDE DEF c, rest
      <4> QED BY <3>2, <4>1, <4>2, <4>3
    <3> QED BY <3>3, <3>4
  <2> QED BY <2>1
<1>2. SUBSET D \subseteq Holds
  <2>1. \A s \in SUBSET D : (\A x \in s : s \ {x} \in Holds) => s \in Holds
    BY <1>1
  <2> HIDE DEF Holds, D
  <2>2. IsFiniteSet(D)
    BY DEF D
  <2> QED BY <2>1, <2>2, SetInduction
<1> QED BY <1>2

Summable(f) == IsFiniteSet(DOMAIN f) /\ \A x \in DOMAIN f : f[x] \in Int

\* All that the lemmas below use of sums.
LEMMA Sums ==
    ASSUME NEW f, Summable(f)
    PROVE  /\ Part(f, {}) = 0
           /\ \A s \in SUBSET DOMAIN f :
                /\ Part(f, s) \in Int
                /\ \A x \in s : /\ Part(f, s) = f[x] + Part(f, s \ {x})
                                /\ f[x] \in Int /\ Part(f, s \ {x}) \in Int
           /\ Total(f) = Part(f, DOMAIN f)
<1>1. \A s \in SUBSET DOMAIN f : Part(f, s) = Partial(f)[s]
  BY PartIsPartial DEF Summable
<1>2. Part(f, {}) = 0 /\ Total(f) = Part(f, DOMAIN f)
  BY <1>1, TotalIsPartial DEF Summable
<1>3. \A s \in SUBSET DOMAIN f : Part(f, s) \in Int
  BY <1>1, PartialIsInteger DEF Summable
<1>4. ASSUME NEW s \in SUBSET DOMAIN f, NEW x \in s
      PROVE  /\ Part(f, s) = f[x] + Part(f, s \ {x})
             /\ f[x] \in Int /\ Part(f, s \ {x}) \in Int
  <2>1. s \ {x} \in SUBSET DOMAIN f /\ x \in DOMAIN f
    OBVIOUS
  <2>2. Partial(f)[s] = f[x] + Partial(f)[s \ {x}]
    BY PartialTakesOut DEF Summable
  <2> QED BY <1>1, <1>3, <2>1, <2>2 DEF Summable
<1> QED BY <1>2, <1>3, <1>4

LEMMA TakenOut ==
    ASSUME NEW f, Summable(f), NEW s, s \subseteq DOMAIN f, NEW x \in s
    PROVE  Part(f, s) = f[x] + Part(f, s \ {x})
BY Sums

LEMMA EqualSums ==
    ASSUME NEW f, NEW g, NEW D, \A x \in D : f[x] = g[x]
    PROVE  Part(f, D) = Part(g, D)
<1>1. [x \in D |-> f[x]] = [x \in D |-> g[x]]
  OBVIOUS
<1> QED BY <1>1 DEF Part

\* A sum grows with its terms.
LEMMA SumsAreMonotone ==
    ASSUME NEW f, Summable(f), NEW g, Summable(g),
           NEW D, D \subseteq DOMAIN f, D \subseteq DOMAIN g,
           \A x \in D : f[x] <= g[x]
    PROVE  Part(f, D) <= Part(g, D)
<1> DEFINE Holds == {s \in SUBSET D : Part(f, s) <= Part(g, s)}
<1>1. ASSUME NEW s \in SUBSET D, \A x \in s : s \ {x} \in Holds
      PROVE  s \in Holds
  <2>0. s \in SUBSET DOMAIN f /\ s \in SUBSET DOMAIN g
    OBVIOUS
  <2>1. CASE s = {}
    <3>1. Part(f, {}) = 0 /\ Part(g, {}) = 0
      BY Sums
    <3> QED BY <2>1, <3>1
  <2>2. CASE s # {}
    <3>1. PICK x \in s : TRUE
      BY <2>2
    <3>2. Part(f, s \ {x}) <= Part(g, s \ {x}) /\ f[x] <= g[x]
      BY <1>1, <3>1
    <3>3. /\ Part(f, s) = f[x] + Part(f, s \ {x})
          /\ f[x] \in Int /\ Part(f, s \ {x}) \in Int
      BY <2>0, <3>1, Sums
    <3>4. /\ Part(g, s) = g[x] + Part(g, s \ {x})
          /\ g[x] \in Int /\ Part(g, s \ {x}) \in Int
      BY <2>0, <3>1, Sums
    <3> QED BY <3>2, <3>3, <3>4
  <2> QED BY <2>1, <2>2
<1>2. IsFiniteSet(D)
  BY FS_Subset DEF Summable
<1>3. \A s \in SUBSET D : (\A x \in s : s \ {x} \in Holds) => s \in Holds
  BY <1>1
<1>4. SUBSET D \subseteq Holds
  <2> HIDE DEF Holds
  <2> QED BY <1>2, <1>3, SetInduction
<1> QED BY <1>4

LEMMA SumsOfNaturals ==
    ASSUME NEW f, Summable(f), NEW D, D \subseteq DOMAIN f, \A x \in D : f[x] >= 0
    PROVE  /\ Part(f, D) \in Nat
           /\ \A x \in D : f[x] <= Part(f, D)
<1> DEFINE Holds == {s \in SUBSET D : Part(f, s) >= 0}
<1>1. ASSUME NEW s \in SUBSET D, \A x \in s : s \ {x} \in Holds
      PROVE  s \in Holds
  <2>0. s \in SUBSET DOMAIN f
    OBVIOUS
  <2>1. CASE s = {}
    BY <2>1, Sums
  <2>2. CASE s # {}
    <3>1. PICK x \in s : TRUE
      BY <2>2
    <3>2. Part(f, s \ {x}) >= 0 /\ f[x] >= 0
      BY <1>1, <3>1
    <3>3. /\ Part(f, s) = f[x] + Part(f, s \ {x})
          /\ f[x] \in Int /\ Part(f, s \ {x}) \in Int
      BY <2>0, <3>1, Sums
    <3> QED BY <3>2, <3>3
  <2> QED BY <2>1, <2>2
<1>2. IsFiniteSet(D)
  BY FS_Subset DEF Summable
<1>3. \A s \in SUBSET D : (\A x \in s : s \ {x} \in Holds) => s \in Holds
  BY <1>1
<1>4. SUBSET D \subseteq Holds
  <2> HIDE DEF Holds
  <2> QED BY <1>2, <1>3, SetInduction
<1>5. Part(f, D) \in Int
  BY Sums
<1>6. ASSUME NEW x \in D
      PROVE  f[x] <= Part(f, D)
  <2>1. /\ Part(f, D) = f[x] + Part(f, D \ {x})
        /\ f[x] \in Int /\ Part(f, D \ {x}) \in Int
    BY Sums
  <2>2. Part(f, D \ {x}) >= 0
    BY <1>4
  <2> QED BY <2>1, <2>2
<1> QED BY <1>4, <1>5, <1>6

\* Sums are linear..
LEMMA SumsScale ==
    ASSUME NEW f, Summable(f), NEW g, Summable(g), NEW c \in Int,
           NEW D, D \subseteq DOMAIN f, D \subseteq DOMAIN g,
           \A x \in D : g[x] = c * f[x]
    PROVE  Part(g, D) = c * Part(f, D)
<1> DEFINE Holds == {s \in SUBSET D : Part(g, s) = c * Part(f, s)}
<1>1. ASSUME NEW s \in SUBSET D, \A x \in s : s \ {x} \in Holds
      PROVE  s \in Holds
  <2>0. s \in SUBSET DOMAIN f /\ s \in SUBSET DOMAIN g
    OBVIOUS
  <2>1. CASE s = {}
    <3>1. Part(f, {}) = 0 /\ Part(g, {}) = 0 /\ c * 0 = 0
      BY Sums
    <3> QED BY <2>1, <3>1
  <2>2. CASE s # {}
    <3>1. PICK x \in s : TRUE
      BY <2>2
    <3>2. Part(g, s \ {x}) = c * Part(f, s \ {x}) /\ g[x] = c * f[x]
      BY <1>1, <3>1
    <3>3. /\ Part(f, s) = f[x] + Part(f, s \ {x})
          /\ f[x] \in Int /\ Part(f, s \ {x}) \in Int
      BY <2>0, <3>1, Sums
    <3>4. Part(g, s) = g[x] + Part(g, s \ {x})
      BY <2>0, <3>1, Sums
    <3>5. \A a, b \in Int : c * (a + b) = c * a + c * b
      OBVIOUS
    <3> QED BY <3>2, <3>3, <3>4, <3>5
  <2> QED BY <2>1, <2>2
<1>2. IsFiniteSet(D)
  BY FS_Subset DEF Summable
<1>3. \A s \in SUBSET D : (\A x \in s : s \ {x} \in Holds) => s \in Holds
  BY <1>1
<1>4. SUBSET D \subseteq Holds
  <2> HIDE DEF Holds
  <2> QED BY <1>2, <1>3, SetInduction
<1> QED BY <1>4

LEMMA SumOfZeros ==
    ASSUME NEW f, Summable(f), NEW D, D \subseteq DOMAIN f, \A x \in D : f[x] = 0
    PROVE  Part(f, D) = 0
<1>1. \A x \in D : f[x] = 0 * f[x]
  BY DEF Summable
<1>2. Part(f, D) = 0 * Part(f, D)
  BY <1>1, SumsScale, 0 \in Int
<1>3. Part(f, D) \in Int
  BY Sums
<1> QED BY <1>2, <1>3

\* ..and additive.
LEMMA SumsSplit ==
    ASSUME NEW f, Summable(f), NEW A, NEW B, A \cup B \subseteq DOMAIN f,
           A \cap B = {}
    PROVE  Part(f, A \cup B) = Part(f, A) + Part(f, B)
<1> DEFINE Holds == {s \in SUBSET B : Part(f, A \cup s) = Part(f, A) + Part(f, s)}
<1>0. A \in SUBSET DOMAIN f /\ Part(f, A) \in Int
  BY Sums
<1>1. ASSUME NEW s \in SUBSET B, \A x \in s : s \ {x} \in Holds
      PROVE  s \in Holds
  <2>0. s \in SUBSET DOMAIN f /\ A \cup s \in SUBSET DOMAIN f
    OBVIOUS
  <2>1. CASE s = {}
    <3>1. A \cup s = A /\ Part(f, s) = 0
      BY <2>1, Sums
    <3> QED BY <1>0, <3>1
  <2>2. CASE s # {}
    <3>1. PICK x \in s : TRUE
      BY <2>2
    <3>2. (A \cup s) \ {x} = A \cup (s \ {x}) /\ x \in A \cup s
      BY <3>1
    <3>3. /\ Part(f, s) = f[x] + Part(f, s \ {x})
          /\ f[x] \in Int /\ Part(f, s \ {x}) \in Int
      BY <2>0, <3>1, Sums
    <3>4. Part(f, A \cup s) = f[x] + Part(f, A \cup (s \ {x}))
      <4>1. Part(f, A \cup s) = f[x] + Part(f, (A \cup s) \ {x})
        BY <2>0, <3>2, TakenOut
      <4> QED BY <3>2, <4>1
    <3>5. Part(f, A \cup (s \ {x})) = Part(f, A) + Part(f, s \ {x})
      BY <1>1, <3>1
    <3> QED BY <1>0, <3>3, <3>4, <3>5
  <2> QED BY <2>1, <2>2
<1>2. IsFiniteSet(B)
  BY FS_Subset DEF Summable
<1>3. \A s \in SUBSET B : (\A x \in s : s \ {x} \in Holds) => s \in Holds
  BY <1>1
<1>4. SUBSET B \subseteq Holds
  <2> HIDE DEF Holds
  <2> QED BY <1>2, <1>3, SetInduction
<1> QED BY <1>4

\* What is summed over does not matter, only the terms.
LEMMA SumsReindex ==
    ASSUME NEW f, Summable(f), NEW g, Summable(g),
           NEW D, D \subseteq DOMAIN f, NEW h,
           \A x \in D : h[x] \in DOMAIN g /\ g[h[x]] = f[x],
           \A x, y \in D : h[x] = h[y] => x = y
    PROVE  Part(f, D) = Part(g, {h[x] : x \in D})
<1> DEFINE Image(s) == {h[x] : x \in s}
           Holds == {s \in SUBSET D : Part(f, s) = Part(g, Image(s))}
<1>1. ASSUME NEW s \in SUBSET D, \A x \in s : s \ {x} \in Holds
      PROVE  s \in Holds
  <2>0. s \in SUBSET DOMAIN f /\ Image(s) \in SUBSET DOMAIN g
    OBVIOUS
  <2>1. CASE s = {}
    <3>1. Image(s) = {}
      BY <2>1
    <3>2. Part(f, {}) = 0 /\ Part(g, {}) = 0
      BY Sums
    <3> HIDE DEF Image
    <3> QED BY <2>1, <3>1, <3>2
  <2>2. CASE s # {}
    <3>1. PICK x \in s : TRUE
      BY <2>2
    <3>2. h[x] \in Image(s) /\ Image(s) \ {h[x]} = Image(s \ {x})
      BY <3>1
    <3>3. Part(f, s) = f[x] + Part(f, s \ {x})
      BY <2>0, <3>1, Sums
    <3>4. Part(g, Image(s)) = g[h[x]] + Part(g, Image(s) \ {h[x]})
      <4> HIDE DEF Image
      <4> QED BY <2>0, <3>2, Sums
    <3>5. Part(f, s \ {x}) = Part(g, Image(s \ {x})) /\ g[h[x]] = f[x]
      BY <1>1, <3>1
    <3> HIDE DEF Image
    <3> QED BY <3>2, <3>3, <3>4, <3>5
  <2> QED BY <2>1, <2>2
<1>2. IsFiniteSet(D)
  BY FS_Subset DEF Summable
<1>3. \A s \in SUBSET D : (\A x \in s : s \ {x} \in Holds) => s \in Holds
  BY <1>1
<1>4. SUBSET D \subseteq Holds
  <2> HIDE DEF Holds
  <2> QED BY <1>2, <1>3, SetInduction
<1> QED BY <1>4

------------------------------------------------------------------------------
(* Quotients.                                                              *)

LEMMA Quotient ==
    ASSUME NEW a \in Int, NEW b \in Nat \ {0}
    PROVE  /\ a \div b \in Int
           /\ b * (a \div b) <= a /\ a < b * (a \div b) + b
           /\ a >= 0 => a \div b >= 0
OBVIOUS

LEMMA QuotientsAreMonotone ==
    ASSUME NEW a \in Int, NEW c \in Int, NEW b \in Nat \ {0}, a <= c
    PROVE  a \div b <= c \div b
<1> DEFINE q == a \div b
           r == c \div b
<1>1. /\ q \in Int /\ b * q <= a /\ a < b * q + b
      /\ r \in Int /\ b * r <= c /\ c < b * r + b
  BY Quotient
<1> HIDE DEF q, r
<1>2. b * q < b * r + b
  BY <1>1
<1>3. CASE r < q
  <2>1. b * (r + 1) <= b * q
    BY <1>1, <1>3
  <2>2. b * (r + 1) = b * r + b
    BY <1>1
  <2> QED BY <1>1, <1>2, <2>1, <2>2
<1>4. q <= r
  BY <1>1, <1>3
<1> QED BY <1>4 DEF q, r

LEMMA ExactQuotient ==
    ASSUME NEW a \in Int, NEW b \in Nat \ {0}, a % b = 0
    PROVE  b * (a \div b) = a
OBVIOUS

------------------------------------------------------------------------------
(* The split kernel                                                        *)

\* A finite set has an element whose value is the greatest.
LEMMA GreatestExists ==
    ASSUME NEW f, Summable(f), DOMAIN f # {}
    PROVE  \E x \in DOMAIN f : \A y \in DOMAIN f : f[y] <= f[x]
<1> DEFINE D == DOMAIN f
           Holds == {s \in SUBSET D : s # {} => \E x \in s : \A y \in s : f[y] <= f[x]}
<1>1. ASSUME NEW s \in SUBSET D, \A x \in s : s \ {x} \in Holds
      PROVE  s \in Holds
  <2>1. ASSUME s # {}
        PROVE  \E x \in s : \A y \in s : f[y] <= f[x]
    <3>1. PICK z \in s : TRUE
      BY <2>1
    <3>2. \A y \in s : f[y] \in Int
      BY DEF Summable
    <3>3. CASE s \ {z} = {}
      <4>1. \A y \in s : f[y] <= f[z]
        BY <3>1, <3>2, <3>3
      <4> QED BY <3>1, <4>1
    <3>4. CASE s \ {z} # {}
      <4>1. PICK x \in s \ {z} : \A y \in s \ {z} : f[y] <= f[x]
        BY <1>1, <3>1, <3>4
      <4>2. CASE f[z] <= f[x]
        BY <4>1, <4>2
      <4>3. CASE f[x] <= f[z]
        <5>1. \A y \in s : f[y] <= f[z]
          BY <3>1, <3>2, <4>1, <4>3
        <5> QED BY <3>1, <5>1
      <4> QED BY <3>1, <3>2, <4>1, <4>2, <4>3
    <3> QED BY <3>3, <3>4
  <2> QED BY <2>1
<1>2. \A s \in SUBSET D : (\A x \in s : s \ {x} \in Holds) => s \in Holds
  BY <1>1
<1>3. SUBSET D \subseteq Holds
  <2>1. IsFiniteSet(D)
    BY DEF Summable
  <2> HIDE DEF Holds, D
  <2> QED BY <1>2, <2>1, SetInduction
<1> QED BY <1>3

LEMMA LeastExists ==
    ASSUME NEW S, IsFiniteSet(S), S \subseteq Int, S # {}
    PROVE  Min(S) \in S /\ \A y \in S : Min(S) <= y
<1> DEFINE f == [x \in S |-> 0 - x]
<1>1. Summable(f) /\ DOMAIN f = S /\ \A x \in S : f[x] = 0 - x
  BY DEF Summable
<1>2. PICK x \in S : \A y \in S : f[y] <= f[x]
  <2> HIDE DEF f
  <2> QED BY <1>1, GreatestExists
<1>3. \A y \in S : x <= y
  BY <1>1, <1>2
<1>4. \E z \in S : \A y \in S : z <= y
  BY <1>3
<1> QED BY <1>4, Zenon DEF Min

\* Weights, or other numbers, of a set of alternatives.
Numbered(f) == IsFiniteSet(DOMAIN f) /\ DOMAIN f \subseteq Int /\ DOMAIN f # {}
Naturals(f) == f = [i \in DOMAIN f |-> f[i]] /\ \A i \in DOMAIN f : f[i] \in Nat

\* The heaviest alternative is one of them.
LEMMA HeaviestExists ==
    ASSUME NEW w, Numbered(w), \A i \in DOMAIN w : w[i] \in Int
    PROVE  /\ MaxWeightIndex(w) \in DOMAIN w
           /\ \A j \in DOMAIN w : w[j] <= w[MaxWeightIndex(w)]
<1> DEFINE S == {i \in DOMAIN w : \A j \in DOMAIN w : w[j] <= w[i]}
<1>1. Summable(w) /\ DOMAIN w # {}
  BY DEF Summable, Numbered
<1>2. S # {}
  BY <1>1, GreatestExists
<1>3. IsFiniteSet(S) /\ S \subseteq Int
  BY FS_Subset DEF Numbered
<1>4. Min(S) \in S
  <2> HIDE DEF S
  <2> QED BY <1>2, <1>3, LeastExists
<1>5. MaxWeightIndex(w) = Min(S)
  BY DEF MaxWeightIndex
<1> QED BY <1>4, <1>5

\* One takes what the others leave: the whole is given out, and nobody gets
\* less than before.
LEMMA ResidualIsTaken ==
    ASSUME NEW f, Numbered(f), Naturals(f), NEW r \in DOMAIN f,
           NEW whole \in Nat, Total(f) <= whole
    PROVE  /\ DOMAIN WithResidual(f, r, whole) = DOMAIN f
           /\ Naturals(WithResidual(f, r, whole))
           /\ Total(WithResidual(f, r, whole)) = whole
           /\ \A i \in DOMAIN f : i # r => WithResidual(f, r, whole)[i] = f[i]
           /\ WithResidual(f, r, whole)[r] >= f[r]
           /\ WithResidual(f, r, whole)[r] = whole - Part(f, DOMAIN f \ {r})
<1> DEFINE D == DOMAIN f
           g == WithResidual(f, r, whole)
           e == Except(f, r)
           rest == Part(f, D \ {r})
<1>1. Summable(f)
  BY DEF Summable, Numbered, Naturals
<1>2. DOMAIN e = D /\ e[r] = 0 /\ \A i \in D \ {r} : e[i] = f[i]
  BY DEF Except
<1>3. Summable(e)
  BY <1>1, <1>2 DEF Summable
<1>4. Total(e) = rest
  <2> HIDE DEF e
  <2>1. Total(e) = Part(e, D) /\ Part(e, D \ {r}) \in Int
    BY <1>2, <1>3, Sums
  <2>2. Part(e, D) = e[r] + Part(e, D \ {r})
    BY <1>2, <1>3, TakenOut
  <2>3. Part(e, D \ {r}) = Part(f, D \ {r})
    BY <1>2, EqualSums
  <2> QED BY <1>2, <2>1, <2>2, <2>3
<1>5. /\ DOMAIN g = D
      /\ g[r] = whole - rest
      /\ \A i \in D : i # r => g[i] = f[i]
      /\ g = [i \in DOMAIN g |-> g[i]]
  <2>1. g = [f EXCEPT ![r] = whole - rest]
    BY <1>4 DEF WithResidual
  <2>2. f = [i \in D |-> f[i]]
    BY DEF Naturals
  <2> HIDE DEF rest, g
  <2> QED BY <2>1, <2>2
<1>6. Total(f) = f[r] + rest /\ rest \in Nat /\ f[r] \in Nat
  <2>1. Total(f) = Part(f, D) /\ Part(f, D) = f[r] + Part(f, D \ {r})
    BY <1>1, Sums, TakenOut
  <2>2. rest \in Nat
    <3>1. \A i \in D \ {r} : f[i] >= 0
      BY DEF Naturals
    <3> QED BY <1>1, <3>1, SumsOfNaturals
  <2> QED BY <2>1, <2>2 DEF Naturals
<1>7. g[r] \in Nat /\ g[r] >= f[r]
  <2> HIDE DEF rest, g
  <2> QED BY <1>5, <1>6
<1>8. Naturals(g)
  <2> HIDE DEF rest, g
  <2> QED BY <1>5, <1>7 DEF Naturals
<1>9. Total(g) = whole
  <2> HIDE DEF g
  <2>1. Summable(g)
    BY <1>1, <1>5, <1>8 DEF Naturals, Summable
  <2>2. Total(g) = Part(g, D) /\ Part(g, D) = g[r] + Part(g, D \ {r})
    BY <1>5, <2>1, Sums, TakenOut
  <2>3. Part(g, D \ {r}) = rest
    BY <1>5, EqualSums
  <2> HIDE DEF rest
  <2> QED BY <1>5, <1>6, <2>2, <2>3
<1> QED BY <1>5, <1>7, <1>8, <1>9

\* Rounding down gives out no more than there is.
LEMMA RoundingLeaves ==
    ASSUME NEW w, Numbered(w), Naturals(w), NEW c \in Nat, NEW T \in Nat \ {0},
           Total(w) <= T
    PROVE  /\ Naturals([i \in DOMAIN w |-> (c * w[i]) \div T])
           /\ Total([i \in DOMAIN w |-> (c * w[i]) \div T]) <= c
<1> DEFINE D == DOMAIN w
           q == [i \in D |-> (c * w[i]) \div T]
           cw == [i \in D |-> c * w[i]]
           tq == [i \in D |-> T * q[i]]
<1>1. ASSUME NEW i \in D
      PROVE  /\ cw[i] \in Nat /\ q[i] \in Nat /\ tq[i] \in Nat
             /\ tq[i] <= cw[i]
  <2>1. c * w[i] \in Nat
    BY DEF Naturals
  <2>2. q[i] = (c * w[i]) \div T /\ cw[i] = c * w[i]
    OBVIOUS
  <2>3. q[i] \in Nat /\ T * q[i] <= c * w[i]
    <3> DEFINE a == c * w[i]
    <3>1. a \in Int /\ a >= 0
      BY <2>1
    <3> HIDE DEF a
    <3>2. a \div T \in Nat /\ T * (a \div T) <= a
      BY <3>1, Quotient
    <3> QED BY <2>2, <3>2 DEF a
  <2>4. tq[i] = T * q[i]
    OBVIOUS
  <2>5. T * q[i] \in Nat
    BY <2>3
  <2> HIDE DEF q, cw, tq
  <2> QED BY <2>1, <2>2, <2>3, <2>4, <2>5
<1>2. /\ DOMAIN q = D /\ DOMAIN cw = D /\ DOMAIN tq = D
      /\ q = [i \in DOMAIN q |-> q[i]]
      /\ \A i \in D : cw[i] = c * w[i] /\ tq[i] = T * q[i]
  OBVIOUS
<1> HIDE DEF q, cw, tq
<1>3. Summable(w) /\ Summable(q) /\ Summable(cw) /\ Summable(tq)
  BY <1>1, <1>2 DEF Numbered, Naturals, Summable
<1>4. Part(cw, D) = c * Part(w, D) /\ Part(tq, D) = T * Part(q, D)
  <2>0. c \in Int /\ T \in Int
    OBVIOUS
  <2>1. Part(cw, D) = c * Part(w, D)
    BY <1>2, <1>3, <2>0, SumsScale
  <2>2. Part(tq, D) = T * Part(q, D)
    BY <1>2, <1>3, <2>0, SumsScale
  <2> QED BY <2>1, <2>2
<1>5. Part(tq, D) <= Part(cw, D)
  BY <1>1, <1>2, <1>3, SumsAreMonotone
<1>6. Total(w) = Part(w, D) /\ Total(q) = Part(q, D)
  BY <1>2, <1>3, Sums
<1>7. Part(q, D) \in Int /\ Part(w, D) \in Int
  BY <1>2, <1>3, Sums
<1>8. Total(q) <= c
  <2> DEFINE x == Part(q, D)
             y == Part(w, D)
  <2>1. x \in Int /\ y \in Int /\ T * x <= c * y /\ y <= T
    BY <1>4, <1>5, <1>6, <1>7
  <2> HIDE DEF x, y
  <2>2. c * y <= c * T
    BY <2>1
  <2>3. T * x <= T * c
    BY <2>1, <2>2
  <2>4. CASE x > c
    <3>1. T * x >= T * (c + 1) /\ T * (c + 1) = T * c + T
      BY <2>1, <2>4
    <3> QED BY <2>1, <2>3, <3>1
  <2>5. x <= c
    BY <2>1, <2>4
  <2> QED BY <1>6, <2>5 DEF x
<1>9. Naturals(q)
  BY <1>1, <1>2 DEF Naturals
<1> QED BY <1>8, <1>9 DEF q

\* The parts of Allocation by name.
Heaviest(w) == MaxWeightIndex(w)
Probability(w) == Probabilities(w, Heaviest(w))
Passengers(w, demand) == Projected(Probability(w), demand, Heaviest(w))
Kept(w, demand) ==
    {i \in DOMAIN w \ {Heaviest(w)} :
        Significant(Probability(w), Passengers(w, demand), demand, i)}

LEMMA AllocationByParts ==
    ASSUME NEW w, NEW demand
    PROVE  /\ Allocation(w, demand).residual = Heaviest(w)
           /\ Allocation(w, demand).probability
                = Compacted(Probability(w), Kept(w, demand), Heaviest(w), Unit)
           /\ Allocation(w, demand).passengers
                = Compacted(Passengers(w, demand), Kept(w, demand), Heaviest(w), demand)
BY DEF Allocation, With, Kept, Passengers, Probability, Heaviest

IsWeighting(w) == Numbered(w) /\ \A i \in DOMAIN w : w[i] \in Nat \ {0}

LEMMA ProbabilitiesAreWhole ==
    ASSUME NEW w, IsWeighting(w)
    PROVE  /\ Heaviest(w) \in DOMAIN w
           /\ \A j \in DOMAIN w : w[j] <= w[Heaviest(w)]
           /\ Total(w) \in Nat \ {0}
           /\ DOMAIN Probability(w) = DOMAIN w
           /\ Naturals(Probability(w)) /\ Total(Probability(w)) = Unit
           /\ \A i \in DOMAIN w : i # Heaviest(w) =>
                Probability(w)[i] = (Unit * w[i]) \div Total(w)
           /\ Probability(w)[Heaviest(w)] >= (Unit * w[Heaviest(w)]) \div Total(w)
<1> DEFINE r == Heaviest(w)
           W == Total(w)
           v == [i \in DOMAIN w |-> w[i]]
           q == [i \in DOMAIN v |-> (Unit * v[i]) \div W]
<1>1. r \in DOMAIN w /\ \A j \in DOMAIN w : w[j] <= w[r]
  BY HeaviestExists DEF IsWeighting, Heaviest
<1>2. Summable(w)
  BY DEF IsWeighting, Numbered, Summable
<1>3. W \in Nat \ {0}
  <2>1. \A i \in DOMAIN w : w[i] >= 0 /\ w[i] > 0 /\ w[i] \in Nat
    BY DEF IsWeighting
  <2>2. W = Part(w, DOMAIN w) /\ Part(w, DOMAIN w) \in Nat /\ w[r] <= Part(w, DOMAIN w)
    BY <1>1, <1>2, <2>1, Sums, SumsOfNaturals
  <2> HIDE DEF W, r
  <2> QED BY <1>1, <2>1, <2>2
<1>4. Numbered(v) /\ Naturals(v) /\ DOMAIN v = DOMAIN w /\ \A i \in DOMAIN w : v[i] = w[i]
  BY DEF IsWeighting, Numbered, Naturals
<1>5. Total(v) = W
  <2>1. v = [i \in DOMAIN w |-> w[i]] /\ Part(w, DOMAIN w) = W
    BY <1>2, Sums
  <2> QED BY <2>1 DEF Part
<1>6. /\ DOMAIN q = DOMAIN w
      /\ \A i \in DOMAIN w : q[i] = (Unit * w[i]) \div W
  OBVIOUS
<1>7. Naturals(q) /\ Total(q) <= Unit
  <2>1. Unit \in Nat /\ W <= W
    BY <1>3, UnitAssumption
  <2> HIDE DEF v, W
  <2> QED BY <1>3, <1>4, <1>5, <2>1, RoundingLeaves
<1>8. Probability(w) = WithResidual(q, r, Unit)
  BY DEF Probability, Probabilities, Heaviest
<1>9. Numbered(q)
  BY <1>6 DEF IsWeighting, Numbered
<1> HIDE DEF q, r, W
<1>10. /\ DOMAIN WithResidual(q, r, Unit) = DOMAIN q
       /\ Naturals(WithResidual(q, r, Unit))
       /\ Total(WithResidual(q, r, Unit)) = Unit
       /\ \A i \in DOMAIN q : i # r => WithResidual(q, r, Unit)[i] = q[i]
       /\ WithResidual(q, r, Unit)[r] >= q[r]
  <2>1. Unit \in Nat /\ r \in DOMAIN q
    BY <1>1, <1>6, UnitAssumption
  <2> QED BY <1>7, <1>9, <2>1, ResidualIsTaken
<1> QED BY <1>1, <1>3, <1>6, <1>8, <1>10 DEF r, W

\* project_demand gives out the whole demand.
LEMMA ProjectionIsWhole ==
    ASSUME NEW p, Numbered(p), Naturals(p), Total(p) = Unit,
           NEW demand \in Nat, NEW r \in DOMAIN p
    PROVE  /\ DOMAIN Projected(p, demand, r) = DOMAIN p
           /\ Naturals(Projected(p, demand, r))
           /\ Total(Projected(p, demand, r)) = demand
           /\ \A i \in DOMAIN p : i # r =>
                Projected(p, demand, r)[i] = (demand * p[i]) \div Unit
           /\ Projected(p, demand, r)[r] >= (demand * p[r]) \div Unit
<1> DEFINE q == [i \in DOMAIN p |-> (demand * p[i]) \div Unit]
<1>1. Naturals(q) /\ Total(q) <= demand
  BY UnitAssumption, RoundingLeaves
<1>2. /\ DOMAIN q = DOMAIN p
      /\ \A i \in DOMAIN p : q[i] = (demand * p[i]) \div Unit
  OBVIOUS
<1>3. Projected(p, demand, r) = WithResidual(q, r, demand)
  BY DEF Projected
<1>4. Numbered(q)
  BY <1>2 DEF Numbered
<1> HIDE DEF q
<1>5. /\ DOMAIN WithResidual(q, r, demand) = DOMAIN q
      /\ Naturals(WithResidual(q, r, demand))
      /\ Total(WithResidual(q, r, demand)) = demand
      /\ \A i \in DOMAIN q : i # r => WithResidual(q, r, demand)[i] = q[i]
      /\ WithResidual(q, r, demand)[r] >= q[r]
  <2>1. r \in DOMAIN q
    BY <1>2
  <2> QED BY <1>1, <1>4, <2>1, ResidualIsTaken
<1> QED BY <1>2, <1>3, <1>5

\* compact_numerical_support moves what it suppresses, and nothing is lost.
LEMMA CompactionIsWhole ==
    ASSUME NEW f, Numbered(f), Naturals(f), NEW whole \in Nat, Total(f) = whole,
           NEW r \in DOMAIN f, NEW kept \in SUBSET (DOMAIN f \ {r})
    PROVE  /\ DOMAIN Compacted(f, kept, r, whole) = DOMAIN f
           /\ Naturals(Compacted(f, kept, r, whole))
           /\ Total(Compacted(f, kept, r, whole)) = whole
           /\ \A i \in kept : Compacted(f, kept, r, whole)[i] = f[i]
           /\ \A i \in DOMAIN f \ (kept \cup {r}) : Compacted(f, kept, r, whole)[i] = 0
           /\ Compacted(f, kept, r, whole)[r] >= f[r]
<1> DEFINE D == DOMAIN f
           q == [i \in D |-> IF i \in kept THEN f[i] ELSE 0]
           g == Compacted(f, kept, r, whole)
<1>1. /\ DOMAIN q = D /\ Naturals(q) /\ Numbered(q)
      /\ \A i \in kept : q[i] = f[i]
      /\ \A i \in D \ kept : q[i] = 0
      /\ \A i \in D : q[i] <= f[i] /\ q[i] \in Nat
  BY DEF Naturals, Numbered
<1>2. Summable(f) /\ Summable(q)
  BY <1>1 DEF Summable, Numbered, Naturals
<1>3. g = WithResidual(q, r, whole)
  BY DEF Compacted
<1> HIDE DEF q
<1>4. Total(q) <= whole
  <2>1. Total(q) = Part(q, D) /\ Total(f) = Part(f, D)
    BY <1>1, <1>2, Sums
  <2>2. Part(q, D) <= Part(f, D)
    BY <1>1, <1>2, SumsAreMonotone
  <2> QED BY <2>1, <2>2
<1>5. /\ DOMAIN g = D /\ Naturals(g) /\ Total(g) = whole
      /\ \A i \in D : i # r => g[i] = q[i]
      /\ g[r] = whole - Part(q, D \ {r})
  <2>1. r \in DOMAIN q /\ Numbered(q) /\ Naturals(q)
    BY <1>1
  <2>2. /\ DOMAIN WithResidual(q, r, whole) = DOMAIN q
        /\ Naturals(WithResidual(q, r, whole))
        /\ Total(WithResidual(q, r, whole)) = whole
        /\ \A i \in DOMAIN q : i # r => WithResidual(q, r, whole)[i] = q[i]
        /\ WithResidual(q, r, whole)[r] = whole - Part(q, DOMAIN q \ {r})
    BY <1>4, <2>1, ResidualIsTaken
  <2> HIDE DEF g
  <2> QED BY <1>1, <1>3, <2>2
<1>6. g[r] >= f[r]
  <2>1. Total(f) = Part(f, D) /\ Part(f, D) = f[r] + Part(f, D \ {r})
    BY <1>2, Sums, TakenOut
  <2>2. Part(q, D \ {r}) <= Part(f, D \ {r})
    BY <1>1, <1>2, SumsAreMonotone
  <2>3. Part(q, D \ {r}) \in Int /\ Part(f, D \ {r}) \in Int /\ f[r] \in Int
    BY <1>1, <1>2, Sums
  <2> QED BY <1>5, <2>1, <2>2, <2>3
<1>7. \A i \in kept : g[i] = f[i]
  BY <1>1, <1>5
<1>8. \A i \in D \ (kept \cup {r}) : g[i] = 0
  BY <1>1, <1>5
<1> QED BY <1>5, <1>6, <1>7, <1>8

LEMMA PassengersOfAll ==
    ASSUME NEW w, IsWeighting(w), NEW demand \in Nat
    PROVE  /\ DOMAIN Passengers(w, demand) = DOMAIN w
           /\ Naturals(Passengers(w, demand)) /\ Total(Passengers(w, demand)) = demand
           /\ \A i \in DOMAIN w : i # Heaviest(w) =>
                Passengers(w, demand)[i] = (demand * Probability(w)[i]) \div Unit
           /\ Passengers(w, demand)[Heaviest(w)]
                >= (demand * Probability(w)[Heaviest(w)]) \div Unit
<1> DEFINE p == Probability(w)
           r == Heaviest(w)
<1>1. /\ r \in DOMAIN p /\ DOMAIN p = DOMAIN w
      /\ Naturals(p) /\ Total(p) = Unit
  BY ProbabilitiesAreWhole
<1>2. Numbered(p)
  BY <1>1 DEF IsWeighting, Numbered
<1>3. Passengers(w, demand) = Projected(p, demand, r)
  BY DEF Passengers
<1> HIDE DEF p, r
<1>4. /\ DOMAIN Projected(p, demand, r) = DOMAIN p
      /\ Naturals(Projected(p, demand, r))
      /\ Total(Projected(p, demand, r)) = demand
      /\ \A i \in DOMAIN p : i # r =>
           Projected(p, demand, r)[i] = (demand * p[i]) \div Unit
      /\ Projected(p, demand, r)[r] >= (demand * p[r]) \div Unit
  BY <1>1, <1>2, ProjectionIsWhole
<1> QED BY <1>1, <1>3, <1>4 DEF p, r

\* Whatever is rounded or suppressed, the shares of a demand are all of it, and
\* no share is negative (probability.cpp, demand_projection.cpp).
THEOREM SplitIsWhole ==
    ASSUME NEW w, IsWeighting(w), NEW demand \in Nat
    PROVE  /\ DOMAIN Allocation(w, demand).probability = DOMAIN w
           /\ Naturals(Allocation(w, demand).probability)
           /\ Total(Allocation(w, demand).probability) = Unit
           /\ DOMAIN Allocation(w, demand).passengers = DOMAIN w
           /\ Naturals(Allocation(w, demand).passengers)
           /\ Total(Allocation(w, demand).passengers) = demand
<1> DEFINE r == Heaviest(w)
           p == Probability(w)
           pax == Passengers(w, demand)
           kept == Kept(w, demand)
<1>1. r \in DOMAIN w /\ DOMAIN p = DOMAIN w /\ Naturals(p) /\ Total(p) = Unit
  BY ProbabilitiesAreWhole
<1>2. DOMAIN pax = DOMAIN w /\ Naturals(pax) /\ Total(pax) = demand
  BY PassengersOfAll
<1>3. Numbered(p) /\ Numbered(pax)
  BY <1>1, <1>2 DEF IsWeighting, Numbered
<1>4. kept \in SUBSET (DOMAIN w \ {r})
  BY DEF Kept
<1>5. /\ Allocation(w, demand).probability = Compacted(p, kept, r, Unit)
      /\ Allocation(w, demand).passengers = Compacted(pax, kept, r, demand)
  BY AllocationByParts
<1> HIDE DEF p, pax, kept, r
<1>6. /\ DOMAIN Compacted(p, kept, r, Unit) = DOMAIN p
      /\ Naturals(Compacted(p, kept, r, Unit))
      /\ Total(Compacted(p, kept, r, Unit)) = Unit
  <2>1. Unit \in Nat /\ r \in DOMAIN p /\ kept \in SUBSET (DOMAIN p \ {r})
    BY <1>1, <1>4, UnitAssumption
  <2> QED BY <1>1, <1>3, <2>1, CompactionIsWhole
<1>7. /\ DOMAIN Compacted(pax, kept, r, demand) = DOMAIN pax
      /\ Naturals(Compacted(pax, kept, r, demand))
      /\ Total(Compacted(pax, kept, r, demand)) = demand
  <2>1. r \in DOMAIN pax /\ kept \in SUBSET (DOMAIN pax \ {r})
    BY <1>1, <1>2, <1>4
  <2> QED BY <1>2, <1>3, <2>1, CompactionIsWhole
<1> QED BY <1>1, <1>2, <1>5, <1>6, <1>7

\* Rounding and suppression respect the order of the weights: an alternative
\* gets less than one of no more weight only if that one is the residual and
\* as heavy (max_log_weight_index, is_numerically_significant_share).
THEOREM HeavierGetsNoLess ==
    ASSUME NEW w, IsWeighting(w), NEW demand \in Nat,
           NEW i \in DOMAIN w, NEW j \in DOMAIN w, w[i] >= w[j],
           Allocation(w, demand).passengers[i] < Allocation(w, demand).passengers[j]
    PROVE  w[i] = w[j] /\ j = Allocation(w, demand).residual
<1> DEFINE r == Heaviest(w)
           p == Probability(w)
           pax == Passengers(w, demand)
           kept == Kept(w, demand)
           W == Total(w)
           given == Allocation(w, demand).passengers
<1>1. /\ r \in DOMAIN w /\ \A x \in DOMAIN w : w[x] <= w[r]
      /\ W \in Nat \ {0}
      /\ DOMAIN p = DOMAIN w /\ Naturals(p)
      /\ \A x \in DOMAIN w : x # r => p[x] = (Unit * w[x]) \div W
      /\ p[r] >= (Unit * w[r]) \div W
  BY ProbabilitiesAreWhole
<1>2. /\ DOMAIN pax = DOMAIN w /\ Naturals(pax) /\ Total(pax) = demand
      /\ \A x \in DOMAIN w : x # r => pax[x] = (demand * p[x]) \div Unit
      /\ pax[r] >= (demand * p[r]) \div Unit
  BY PassengersOfAll
<1>3. /\ kept \in SUBSET (DOMAIN w \ {r})
      /\ \A x \in DOMAIN w \ {r} :
            x \in kept <=> p[x] > Suppression /\ Unit * pax[x] > Suppression * demand
  BY DEF Kept, Significant
<1>4. given = Compacted(pax, kept, r, demand) /\ Allocation(w, demand).residual = r
  BY AllocationByParts
<1>5. /\ \A x \in DOMAIN w : w[x] \in Nat /\ p[x] \in Nat /\ pax[x] \in Nat
      /\ Unit \in Nat \ {0} /\ Suppression \in Nat
  <2>1. \A x \in DOMAIN w : w[x] \in Nat
    BY DEF IsWeighting
  <2>2. \A x \in DOMAIN w : p[x] \in Nat
    BY <1>1 DEF Naturals
  <2>3. \A x \in DOMAIN w : pax[x] \in Nat
    BY <1>2 DEF Naturals
  <2> QED BY <2>1, <2>2, <2>3, UnitAssumption, SuppressionAssumption
<1>6. Numbered(pax)
  BY <1>2 DEF IsWeighting, Numbered
<1> HIDE DEF p, pax, kept, r, W, given
<1>7. /\ Naturals(given) /\ DOMAIN given = DOMAIN w
      /\ \A x \in kept : given[x] = pax[x]
      /\ \A x \in DOMAIN w \ (kept \cup {r}) : given[x] = 0
      /\ given[r] >= pax[r]
  <2>1. r \in DOMAIN pax /\ kept \in SUBSET (DOMAIN pax \ {r})
    BY <1>1, <1>2, <1>3
  <2>2. /\ Naturals(Compacted(pax, kept, r, demand))
        /\ DOMAIN Compacted(pax, kept, r, demand) = DOMAIN pax
        /\ \A x \in kept : Compacted(pax, kept, r, demand)[x] = pax[x]
        /\ \A x \in DOMAIN pax \ (kept \cup {r}) :
              Compacted(pax, kept, r, demand)[x] = 0
        /\ Compacted(pax, kept, r, demand)[r] >= pax[r]
    BY <1>2, <1>6, <2>1, CompactionIsWhole
  <2> QED BY <1>2, <1>4, <2>2
<1>8. ASSUME NEW x \in DOMAIN w, NEW y \in DOMAIN w, y # r, w[y] <= w[x]
      PROVE  p[y] <= p[x]
  <2>1. Unit * w[y] \in Int /\ Unit * w[x] \in Int /\ Unit * w[y] <= Unit * w[x]
    BY <1>5, <1>8
  <2>2. (Unit * w[y]) \div W <= (Unit * w[x]) \div W
    <3> DEFINE a == Unit * w[y]
               b == Unit * w[x]
    <3>1. a \in Int /\ b \in Int /\ a <= b
      BY <2>1
    <3> HIDE DEF a, b
    <3>2. a \div W <= b \div W
      BY <1>1, <3>1, QuotientsAreMonotone
    <3> QED BY <3>2 DEF a, b
  <2>3. (Unit * w[x]) \div W \in Int
    BY <1>1, <2>1, Quotient
  <2>4. p[x] >= (Unit * w[x]) \div W
    <3>1. CASE x = r
      BY <1>1, <3>1
    <3>2. CASE x # r
      BY <1>1, <2>3, <3>2
    <3> QED BY <3>1, <3>2
  <2>5. p[y] = (Unit * w[y]) \div W
    BY <1>1, <1>8
  <2> DEFINE u == (Unit * w[y]) \div W
             v == (Unit * w[x]) \div W
  <2> HIDE DEF u, v
  <2>6. p[y] = u /\ u <= v /\ v <= p[x] /\ v \in Int
    BY <2>2, <2>3, <2>4, <2>5 DEF u, v
  <2> QED BY <1>5, <2>6
<1>9. ASSUME NEW x \in DOMAIN w, NEW y \in DOMAIN w, y # r, w[y] <= w[x]
      PROVE  pax[y] <= pax[x]
  <2>1. demand * p[y] \in Int /\ demand * p[x] \in Int /\ demand * p[y] <= demand * p[x]
    BY <1>5, <1>8, <1>9
  <2>2. (demand * p[y]) \div Unit <= (demand * p[x]) \div Unit
    <3> DEFINE a == demand * p[y]
               b == demand * p[x]
    <3>1. a \in Int /\ b \in Int /\ a <= b
      BY <2>1
    <3> HIDE DEF a, b
    <3>2. a \div Unit <= b \div Unit
      BY <1>5, <3>1, QuotientsAreMonotone
    <3> QED BY <3>2 DEF a, b
  <2>3. (demand * p[x]) \div Unit \in Int
    BY <1>5, <2>1, Quotient
  <2>4. pax[x] >= (demand * p[x]) \div Unit
    <3>1. CASE x = r
      BY <1>2, <3>1
    <3>2. CASE x # r
      BY <1>2, <2>3, <3>2
    <3> QED BY <3>1, <3>2
  <2>5. pax[y] = (demand * p[y]) \div Unit
    BY <1>2, <1>9
  <2> DEFINE u == (demand * p[y]) \div Unit
             v == (demand * p[x]) \div Unit
  <2> HIDE DEF u, v
  <2>6. pax[y] = u /\ u <= v /\ v <= pax[x] /\ v \in Int
    BY <2>2, <2>3, <2>4, <2>5 DEF u, v
  <2> QED BY <1>5, <2>6
<1>10. given[i] < given[j] /\ given[i] \in Nat /\ given[j] \in Nat
  BY <1>7 DEF given, Naturals
<1>11. ASSUME j # r
       PROVE  FALSE
  <2>1. p[j] <= p[i] /\ pax[j] <= pax[i]
    <3>1. w[j] <= w[i]
      BY <1>5
    <3> QED BY <1>8, <1>9, <1>11, <3>1
  <2>2. j \in kept /\ given[j] = pax[j]
    BY <1>7, <1>10, <1>11
  <2>3. CASE i = r
    BY <1>5, <1>7, <1>10, <2>1, <2>2, <2>3
  <2>4. CASE i # r
    <3>1. p[j] > Suppression /\ Unit * pax[j] > Suppression * demand
      BY <1>3, <1>11, <2>2
    <3>2. Unit * pax[j] <= Unit * pax[i]
      BY <1>5, <2>1
    <3>3. p[i] > Suppression
      BY <1>5, <2>1, <3>1
    <3>4. Unit * pax[i] > Suppression * demand
      <4> DEFINE u == Unit * pax[j]
                 v == Unit * pax[i]
                 s == Suppression * demand
      <4>1. u \in Int /\ v \in Int /\ s \in Int /\ u > s /\ u <= v
        BY <1>5, <3>1, <3>2
      <4> HIDE DEF u, v, s
      <4>2. v > s
        BY <4>1
      <4> QED BY <4>2 DEF v, s
    <3>5. i \in kept
      BY <1>3, <2>4, <3>3, <3>4
    <3>6. given[i] = pax[i]
      BY <1>7, <3>5
    <3> QED BY <1>5, <1>10, <2>1, <2>2, <3>6
  <2> QED BY <2>3, <2>4
<1>12. w[i] = w[j]
  <2>1. w[i] <= w[j] /\ w[i] \in Nat /\ w[j] \in Nat
    BY <1>1, <1>5, <1>11
  <2> QED BY <2>1
<1> QED BY <1>4, <1>11, <1>12

LEMMA ImageIsFinite ==
    ASSUME NEW D, IsFiniteSet(D), NEW h
    PROVE  IsFiniteSet({h[i] : i \in D})
<1> DEFINE K == {h[i] : i \in D}
           to == [i \in D |-> h[i]]
<1>1. to \in [D -> K] /\ \A k \in K : \E i \in D : to[i] = k
  OBVIOUS
<1> HIDE DEF K, to
<1>2. to \in Surjection(D, K)
  BY <1>1 DEF Surjection
<1>3. IsFiniteSet(K)
  BY <1>2, FS_Surjection
<1> QED BY <1>3 DEF K

\* A sum may be taken group by group.
LEMMA SumsByGroup ==
    ASSUME NEW f, Summable(f), NEW index
    PROVE  Total([k \in {index[i] : i \in DOMAIN f} |->
                    Part(f, {i \in DOMAIN f : index[i] = k})]) = Total(f)
<1> DEFINE D == DOMAIN f
           K == {index[i] : i \in D}
           Group(s, k) == {i \in s : index[i] = k}
           Sums_(s) == [k \in K |-> Part(f, Group(s, k))]
           Holds == {s \in SUBSET D : Total(Sums_(s)) = Part(f, s)}
<1>0. IsFiniteSet(D) /\ IsFiniteSet(K)
  <2>1. IsFiniteSet(D)
    BY DEF Summable
  <2>2. IsFiniteSet(K)
    <3> HIDE DEF D
    <3> QED BY <2>1, ImageIsFinite
  <2> QED BY <2>1, <2>2
<1>1. ASSUME NEW s \in SUBSET D
      PROVE  /\ DOMAIN Sums_(s) = K
             /\ \A k \in K : Sums_(s)[k] = Part(f, Group(s, k))
             /\ Summable(Sums_(s))
  <2>1. DOMAIN Sums_(s) = K /\ \A k \in K : Sums_(s)[k] = Part(f, Group(s, k))
    OBVIOUS
  <2>2. \A k \in K : Part(f, Group(s, k)) \in Int
    BY Sums
  <2> HIDE DEF Sums_, K, Group
  <2> QED BY <1>0, <2>1, <2>2 DEF Summable
<1>2. ASSUME NEW s \in SUBSET D, \A x \in s : s \ {x} \in Holds
      PROVE  s \in Holds
  <2>1. CASE s = {}
    <3>1. \A k \in K : Sums_(s)[k] = 0
      <4>1. \A k \in K : Group(s, k) = {}
        BY <2>1
      <4>2. Part(f, {}) = 0
        BY Sums
      <4> HIDE DEF K, Group, Sums_
      <4> QED BY <1>1, <4>1, <4>2
    <3>2. Part(f, s) = 0
      BY <2>1, Sums
    <3>3. Total(Sums_(s)) = 0
      <4> HIDE DEF K, Group, Sums_
      <4>1. Summable(Sums_(s)) /\ DOMAIN Sums_(s) = K
        BY <1>1
      <4>2. Total(Sums_(s)) = Part(Sums_(s), K)
        BY <4>1, Sums
      <4>3. Part(Sums_(s), K) = 0
        BY <3>1, <4>1, SumOfZeros
      <4> QED BY <4>2, <4>3
    <3> QED BY <3>2, <3>3
  <2>2. CASE s # {}
    <3>1. PICK x \in s : TRUE
      BY <2>2
    <3> DEFINE rest == s \ {x}
               g == Sums_(s)
               h == Sums_(rest)
               k0 == index[x]
    <3>2. k0 \in K /\ x \in D /\ rest \in SUBSET D
      BY <3>1
    <3>3. \A k \in K \ {k0} : Group(s, k) = Group(rest, k)
      OBVIOUS
    <3>4. x \in Group(s, k0) /\ Group(s, k0) \ {x} = Group(rest, k0)
          /\ Group(s, k0) \in SUBSET D
      BY <3>1
    <3>5. /\ DOMAIN g = K /\ Summable(g) /\ DOMAIN h = K /\ Summable(h)
          /\ \A k \in K : g[k] = Part(f, Group(s, k)) /\ h[k] = Part(f, Group(rest, k))
      BY <1>1, <3>2
    <3>6. Total(h) = Part(f, rest)
      BY <1>2, <3>1
    <3> HIDE DEF K, Group, Sums_, g, h, k0, rest
    <3>7. \A k \in K \ {k0} : g[k] = h[k]
      BY <3>3, <3>5
    <3>8. g[k0] = f[x] + h[k0]
      BY <3>2, <3>4, <3>5, TakenOut
    <3>9. Part(g, K \ {k0}) = Part(h, K \ {k0})
      BY <3>7, EqualSums
    <3>10. /\ Total(g) = Part(g, K) /\ Part(g, K) = g[k0] + Part(g, K \ {k0})
           /\ Total(h) = Part(h, K) /\ Part(h, K) = h[k0] + Part(h, K \ {k0})
           /\ h[k0] \in Int /\ Part(h, K \ {k0}) \in Int
      BY <3>2, <3>5, Sums, TakenOut
    <3>11. Part(f, s) = f[x] + Part(f, rest) /\ f[x] \in Int
      BY <3>1, <3>2, TakenOut DEF rest, Summable
    <3> QED BY <3>6, <3>8, <3>9, <3>10, <3>11 DEF g
  <2> QED BY <2>1, <2>2
<1>3. \A s \in SUBSET D : (\A x \in s : s \ {x} \in Holds) => s \in Holds
  BY <1>2
<1>4. SUBSET D \subseteq Holds
  <2> HIDE DEF Holds, D
  <2> QED BY <1>0, <1>3, SetInduction
<1>5. Total(Sums_(D)) = Part(f, D) /\ Part(f, D) = Total(f)
  <2>1. D \in Holds
    BY <1>4
  <2> QED BY <2>1, Sums
<1> QED BY <1>5

\* execute_split_kernel projects the compacted probabilities again: with the
\* same result, whose loads add up to the demand in every view of them.
THEOREM KernelRepeatsTheSplit ==
    ASSUME NEW w, IsWeighting(w), NEW demand \in Nat,
           NEW trips, NEW stops, NEW segments,
           DOMAIN trips = DOMAIN w, DOMAIN stops = DOMAIN w, DOMAIN segments = DOMAIN w
    PROVE  /\ Kernel(w, demand, trips, stops, segments).passengers
                = Allocation(w, demand).passengers
           /\ Kernel(w, demand, trips, stops, segments).total_load = demand
           /\ Total(Kernel(w, demand, trips, stops, segments).loads.trip) = demand
           /\ Total(Kernel(w, demand, trips, stops, segments).loads.stop) = demand
           /\ Total(Kernel(w, demand, trips, stops, segments).loads.segment) = demand
<1> DEFINE r == Heaviest(w)
           p == Probability(w)
           pax == Passengers(w, demand)
           kept == Kept(w, demand)
           prob == Allocation(w, demand).probability
           given == Allocation(w, demand).passengers
           again == Projected(prob, demand, r)
<1>1. /\ DOMAIN prob = DOMAIN w /\ Naturals(prob) /\ Total(prob) = Unit
      /\ DOMAIN given = DOMAIN w /\ Naturals(given) /\ Total(given) = demand
  BY SplitIsWhole
<1>2. /\ prob = Compacted(p, kept, r, Unit) /\ given = Compacted(pax, kept, r, demand)
      /\ Allocation(w, demand).residual = r
  BY AllocationByParts
<1>3. /\ r \in DOMAIN w /\ DOMAIN p = DOMAIN w /\ Naturals(p) /\ Total(p) = Unit
      /\ kept \in SUBSET (DOMAIN w \ {r})
  BY ProbabilitiesAreWhole DEF Kept
<1>4. /\ DOMAIN pax = DOMAIN w /\ Naturals(pax) /\ Total(pax) = demand
      /\ \A i \in DOMAIN w : i # r => pax[i] = (demand * p[i]) \div Unit
  BY PassengersOfAll
<1>5. Numbered(prob) /\ Numbered(p) /\ Numbered(pax)
  BY <1>1, <1>3, <1>4 DEF IsWeighting, Numbered
<1>6. /\ Kernel(w, demand, trips, stops, segments).passengers = again
      /\ Kernel(w, demand, trips, stops, segments).total_load = Total(again)
      /\ Kernel(w, demand, trips, stops, segments).loads.trip = Accumulated(again, trips)
      /\ Kernel(w, demand, trips, stops, segments).loads.stop = Accumulated(again, stops)
      /\ Kernel(w, demand, trips, stops, segments).loads.segment
           = Accumulated(again, segments)
  <2> DEFINE k == Kernel(w, demand, trips, stops, segments)
  <2>1. Allocation(w, demand).residual = r
    BY <1>2
  <2> HIDE DEF r
  <2>2. /\ k.passengers = again
        /\ k.loads = [trip |-> Accumulated(again, trips),
                      stop |-> Accumulated(again, stops),
                      segment |-> Accumulated(again, segments)]
        /\ k.total_load = Total(again)
    BY <2>1 DEF Kernel, With
  <2> HIDE DEF k, again
  <2> QED BY <2>2 DEF k
<1> HIDE DEF r, p, pax, kept, prob, given
<1>7. /\ DOMAIN again = DOMAIN prob /\ Naturals(again) /\ Total(again) = demand
      /\ \A i \in DOMAIN prob : i # r => again[i] = (demand * prob[i]) \div Unit
  <2>1. r \in DOMAIN prob
    BY <1>1, <1>3
  <2> QED BY <1>1, <1>5, <2>1, ProjectionIsWhole
<1>8. /\ \A i \in kept : prob[i] = p[i] /\ given[i] = pax[i]
      /\ \A i \in DOMAIN w \ (kept \cup {r}) : prob[i] = 0 /\ given[i] = 0
  <2>1. /\ r \in DOMAIN p /\ kept \in SUBSET (DOMAIN p \ {r}) /\ Unit \in Nat
        /\ r \in DOMAIN pax /\ kept \in SUBSET (DOMAIN pax \ {r})
    BY <1>3, <1>4, UnitAssumption
  <2>2. /\ \A i \in kept : Compacted(p, kept, r, Unit)[i] = p[i]
        /\ \A i \in DOMAIN p \ (kept \cup {r}) : Compacted(p, kept, r, Unit)[i] = 0
    BY <1>3, <1>5, <2>1, CompactionIsWhole
  <2>3. /\ \A i \in kept : Compacted(pax, kept, r, demand)[i] = pax[i]
        /\ \A i \in DOMAIN pax \ (kept \cup {r}) : Compacted(pax, kept, r, demand)[i] = 0
    BY <1>4, <1>5, <2>1, CompactionIsWhole
  <2> QED BY <1>2, <1>3, <1>4, <2>2, <2>3
<1>9. ASSUME NEW i \in DOMAIN w, i # r
      PROVE  again[i] = given[i]
  <2>1. again[i] = (demand * prob[i]) \div Unit
    BY <1>1, <1>7, <1>9
  <2>2. CASE i \in kept
    <3>1. prob[i] = p[i] /\ given[i] = pax[i] /\ pax[i] = (demand * p[i]) \div Unit
      BY <1>4, <1>8, <1>9, <2>2
    <3> HIDE DEF again
    <3> QED BY <2>1, <3>1
  <2>3. CASE i \notin kept
    <3>1. prob[i] = 0 /\ given[i] = 0
      BY <1>8, <1>9, <2>3
    <3>2. (demand * 0) \div Unit = 0
      BY UnitAssumption
    <3> HIDE DEF again
    <3> QED BY <2>1, <3>1, <3>2
  <2> QED BY <2>2, <2>3
<1> HIDE DEF again
<1>10. DOMAIN again = DOMAIN w /\ Summable(again) /\ Summable(given)
  BY <1>1, <1>7 DEF IsWeighting, Numbered, Naturals, Summable
<1>11. again[r] = given[r]
  <2>1. /\ Total(again) = Part(again, DOMAIN w)
        /\ Part(again, DOMAIN w) = again[r] + Part(again, DOMAIN w \ {r})
        /\ Total(given) = Part(given, DOMAIN w)
        /\ Part(given, DOMAIN w) = given[r] + Part(given, DOMAIN w \ {r})
        /\ Part(given, DOMAIN w \ {r}) \in Int
    BY <1>1, <1>3, <1>10, Sums, TakenOut
  <2>2. Part(again, DOMAIN w \ {r}) = Part(given, DOMAIN w \ {r})
    BY <1>9, EqualSums
  <2>3. again[r] \in Int /\ given[r] \in Int
    BY <1>1, <1>3, <1>10 DEF Summable
  <2> QED BY <1>1, <1>7, <2>1, <2>2, <2>3
<1>12. again = given
  <2>1. \A i \in DOMAIN w : again[i] = given[i]
    BY <1>9, <1>11
  <2>2. again = [i \in DOMAIN w |-> again[i]] /\ given = [i \in DOMAIN w |-> given[i]]
    BY <1>1, <1>7, <1>10 DEF Naturals
  <2> QED BY <2>1, <2>2
<1>13. ASSUME NEW index, DOMAIN index = DOMAIN w
       PROVE  Total(Accumulated(again, index)) = demand
  <2>1. Accumulated(again, index)
          = [k \in {index[i] : i \in DOMAIN again} |->
                Part(again, {i \in DOMAIN again : index[i] = k})]
    BY <1>10, <1>13 DEF Accumulated, Part
  <2> QED BY <1>7, <1>10, <2>1, SumsByGroup
<1> QED BY <1>6, <1>7, <1>12, <1>13 DEF given

------------------------------------------------------------------------------
(* Weights                                                                 *)

IsAlternatives(as) ==
    /\ IsFiniteSet(DOMAIN as) /\ DOMAIN as \subseteq Int
    /\ \A i \in DOMAIN as :
         as[i].dep \in Int /\ as[i].arr \in Int /\ as[i].pjt \in Int /\ as[i].fare \in Int

LEMMA InfluenceIsNatural ==
    ASSUME NEW a, NEW b,
           a.dep \in Int, a.arr \in Int, a.pjt \in Int, a.fare \in Int,
           b.dep \in Int, b.arr \in Int, b.pjt \in Int, b.fare \in Int
    PROVE  Influence(a, b) \in Nat
<1> DEFINE y == b.pjt - a.pjt
           z == b.fare - a.fare
           near == (Unit * (Distance(a.dep, b.dep) + Distance(a.arr, b.arr)))
                     \div (2 * TimeScale)
           sy == Scale(QualityScales.pjt, y)
           sz == Scale(QualityScales.fare, z)
           apart == (Unit * (sz * Distance(y, 0) + sy * Distance(z, 0))) \div (sy * sz)
           quality == AtMost(Unit, apart)
           less == (Gamma * quality) \div Unit
           p == Proximity(a, b)
           left == AtLeast(0, Unit - less)
<1>1. Unit \in Nat \ {0} /\ Gamma \in Int /\ TimeScale \in Nat \ {0}
  BY UnitAssumption, QualitiesAssumption, ScalesAssumption
<1>2. y \in Int /\ z \in Int
  OBVIOUS
<1>3. sy \in Nat \ {0} /\ sz \in Nat \ {0}
  <2>1. /\ QualityScales.pjt.higher \in Nat \ {0} /\ QualityScales.pjt.lower \in Nat \ {0}
        /\ QualityScales.fare.higher \in Nat \ {0} /\ QualityScales.fare.lower \in Nat \ {0}
    BY ScalesAssumption
  <2> QED BY <2>1 DEF Scale
<1>4. p \in Nat
  <2> DEFINE d == Unit * (Distance(a.dep, b.dep) + Distance(a.arr, b.arr))
             t == 2 * TimeScale
  <2>1. d \in Int /\ t \in Nat \ {0}
    <3>1. Distance(a.dep, b.dep) \in Int /\ Distance(a.arr, b.arr) \in Int
      BY DEF Distance
    <3> QED BY <1>1, <3>1
  <2>2. near = d \div t
    OBVIOUS
  <2> HIDE DEF d, t, near
  <2>3. near \in Int
    BY <2>1, <2>2, Quotient
  <2>5. Unit - AtMost(Unit, near) \in Nat
    BY <1>1, <2>3 DEF AtMost
  <2>6. p = Unit - AtMost(Unit, near)
    BY DEF Proximity, near
  <2> QED BY <2>5, <2>6
<1>5. quality \in Int
  <2> DEFINE d == Unit * (sz * Distance(y, 0) + sy * Distance(z, 0))
             t == sy * sz
  <2>1. d \in Int /\ t \in Nat \ {0}
    <3>1. Distance(y, 0) \in Int /\ Distance(z, 0) \in Int
      BY <1>2 DEF Distance
    <3> HIDE DEF sy, sz, y, z
    <3>2. sz * Distance(y, 0) \in Int /\ sy * Distance(z, 0) \in Int
      BY <1>3, <3>1
    <3>3. sy * sz \in Nat /\ sy * sz # 0
      BY <1>3
    <3> QED BY <1>1, <3>2, <3>3
  <2>2. apart = d \div t
    OBVIOUS
  <2> HIDE DEF d, t, apart
  <2>3. apart \in Int
    BY <2>1, <2>2, Quotient
  <2> QED BY <1>1, <2>3 DEF AtMost
<1>6. left \in Nat
  <2> HIDE DEF quality
  <2>1. Gamma * quality \in Int
    BY <1>1, <1>5
  <2>2. less \in Int
    BY <1>1, <2>1, Quotient
  <2> HIDE DEF less
  <2> QED BY <1>1, <2>2 DEF AtLeast
<1>7. Influence(a, b) = (p * left) \div Unit
  BY DEF Influence
<1> HIDE DEF p, left
<1>8. p * left \in Int /\ p * left >= 0
  BY <1>4, <1>6
<1>9. (p * left) \div Unit \in Int /\ (p * left) \div Unit >= 0
  <2> DEFINE d == p * left
  <2>1. d \in Int /\ d >= 0
    BY <1>8
  <2> HIDE DEF d
  <2>2. d \div Unit \in Int /\ d \div Unit >= 0
    BY <1>1, <2>1, Quotient
  <2> QED BY <2>2 DEF d
<1> QED BY <1>7, <1>9

LEMMA IndependenceIsNatural ==
    ASSUME NEW as, IsAlternatives(as), NEW i \in DOMAIN as
    PROVE  Independence(as, i) \in Nat
<1> DEFINE f == [j \in DOMAIN as \ {i} |-> Influence(as[i], as[j])]
<1>1. DOMAIN f = DOMAIN as \ {i} /\ \A j \in DOMAIN f : f[j] \in Nat
  BY InfluenceIsNatural DEF IsAlternatives
<1>2. Independence(as, i) = (Unit * Unit) \div (Unit + Total(f))
  BY DEF Independence
<1> HIDE DEF f
<1>3. IsFiniteSet(DOMAIN f)
  BY <1>1, FS_Subset DEF IsAlternatives
<1>4. Summable(f) /\ \A j \in DOMAIN f : f[j] >= 0
  <2>1. \A j \in DOMAIN f : f[j] \in Int /\ f[j] >= 0
    <3>1. ASSUME NEW j \in DOMAIN f
          PROVE  f[j] \in Int /\ f[j] >= 0
      <4>1. f[j] \in Nat
        BY <1>1, Zenon
      <4> QED BY <4>1
    <3> QED BY <3>1
  <2> QED BY <1>3, <2>1 DEF Summable
<1>5. Total(f) \in Nat
  BY <1>4, Sums, SumsOfNaturals
<1> DEFINE d == Unit * Unit
           t == Unit + Total(f)
<1>6. d \in Int /\ d >= 0 /\ t \in Nat \ {0}
  BY <1>5, UnitAssumption
<1> HIDE DEF d, t
<1>7. d \div t \in Int /\ d \div t >= 0
  BY <1>6, Quotient
<1> QED BY <1>2, <1>7 DEF d, t

LEMMA WeightIsPositive ==
    ASSUME NEW impedance \in Int, NEW independence \in Nat
    PROVE  Weight(impedance, independence) \in Nat \ {0}
<1> DEFINE d == Unit * independence
           t == AtLeast(1, impedance)
<1>1. d \in Int /\ t \in Nat \ {0}
  BY UnitAssumption DEF AtLeast
<1> HIDE DEF d, t
<1>2. d \div t \in Int
  BY <1>1, Quotient
<1>3. Weight(impedance, independence) = AtLeast(1, d \div t)
  BY DEF Weight, d, t
<1> QED BY <1>2, <1>3 DEF AtLeast

LEMMA ImpedanceIsInteger ==
    ASSUME NEW a, a.pjt \in Int, a.fare \in Int, NEW reference \in Int,
           NEW interval, interval.start \in Int, interval.end \in Int
    PROVE  Impedance(a, reference, interval) \in Int
<1>1. /\ QTime \in Int /\ QDeparture \in Int /\ QFare \in Int
      /\ EarlyWeight \in Int /\ LateWeight \in Int
  BY QualitiesAssumption
<1> DEFINE early == AtLeast(0, interval.start - reference)
           late == AtLeast(0, reference - interval.end)
<1>2. early \in Int /\ late \in Int
  BY DEF AtLeast
<1> HIDE DEF early, late
<1>3. EarlyWeight * early \in Int /\ LateWeight * late \in Int
  BY <1>1, <1>2
<1>4. TemporalUtility(reference, interval) = EarlyWeight * early + LateWeight * late
  BY DEF TemporalUtility, early, late
<1>5. TemporalUtility(reference, interval) \in Int
  BY <1>3, <1>4
<1>6. QTime * a.pjt \in Int /\ QFare * a.fare \in Int
      /\ QDeparture * TemporalUtility(reference, interval) \in Int
  BY <1>1, <1>5
<1> QED BY <1>6 DEF Impedance

\* The shares of a demand over its alternatives, none if there is none.
LEMMA SharesAreWhole ==
    ASSUME NEW as, IsAlternatives(as), NEW reference, NEW interval, NEW demand \in Nat,
           interval.start \in Int, interval.end \in Int,
           \A i \in DOMAIN as : reference[i] \in Int
    PROVE  /\ DOMAIN SplitShares(as, reference, interval, demand).passengers = DOMAIN as
           /\ \A i \in DOMAIN as :
                SplitShares(as, reference, interval, demand).passengers[i] \in Nat
           /\ DOMAIN as # {} =>
                Total(SplitShares(as, reference, interval, demand).passengers) = demand
<1> DEFINE w == [i \in DOMAIN as |-> Weight(Impedance(as[i], reference[i], interval),
                                            Independence(as, i))]
           passengers == SplitShares(as, reference, interval, demand).passengers
<1>1. DOMAIN w = DOMAIN as /\ \A i \in DOMAIN w : w[i] \in Nat \ {0}
  BY ImpedanceIsInteger, IndependenceIsNatural, WeightIsPositive DEF IsAlternatives
<1>2. passengers = Allocation(w, demand).passengers
  BY DEF SplitShares, With
<1> HIDE DEF w, passengers
<1>3. CASE DOMAIN as # {}
  <2>1. IsWeighting(w)
    BY <1>1, <1>3 DEF IsAlternatives, IsWeighting, Numbered
  <2>2. /\ DOMAIN Allocation(w, demand).passengers = DOMAIN w
        /\ Naturals(Allocation(w, demand).passengers)
        /\ Total(Allocation(w, demand).passengers) = demand
    BY <2>1, SplitIsWhole
  <2> QED BY <1>1, <1>2, <2>2 DEF Naturals, passengers
<1>4. CASE DOMAIN as = {}
  <2>1. passengers = Compacted(Passengers(w, demand), Kept(w, demand), Heaviest(w), demand)
    BY <1>2, AllocationByParts
  <2>2. DOMAIN passengers = {}
    <3>1. DOMAIN w = {}
      BY <1>1, <1>4
    <3>2. DOMAIN Probability(w) = {}
      BY <3>1 DEF Probability, Probabilities, WithResidual
    <3>3. DOMAIN Passengers(w, demand) = {}
      BY <3>2 DEF Passengers, Projected, WithResidual
    <3> QED BY <2>1, <3>3 DEF Compacted, WithResidual
  <2> QED BY <1>4, <2>2 DEF passengers
<1> QED BY <1>3, <1>4

------------------------------------------------------------------------------
(* Loads and what they cost                                                *)

Loaded(f) == IsFiniteSet(DOMAIN f) /\ \A k \in DOMAIN f : f[k] \in Nat

LEMMA AtIsNatural == ASSUME NEW f, Loaded(f), NEW k PROVE At(f, k) \in Nat
BY DEF At, Loaded

\* The state an iteration is searched and split under.
Given == capacity \in CapacitySets /\ mode \in Modes /\ Loaded(load_state)

IsRide(leg) ==
    leg.from \in Nat /\ leg.to \in Nat /\ leg.from < leg.to /\ leg.trip \in Nat
        /\ leg.duration \in Nat

LEMMA CapacityTyped ==
    ASSUME ConstantsAssumption, capacity \in CapacitySets
    PROVE  /\ IsFiniteSet(DOMAIN capacity) /\ DOMAIN capacity \subseteq Nat \X Nat
           /\ \A i \in DOMAIN capacity : capacity[i] \in Nat
           /\ \A items : Covered(items) =>
                \A i \in items : i \in DOMAIN capacity /\ capacity[i] \in Nat \ {0}
<1>1. /\ IsFiniteSet(DOMAIN capacity) /\ DOMAIN capacity \subseteq Nat \X Nat
      /\ \A i \in DOMAIN capacity : capacity[i] \in Nat
  BY DEF ConstantsAssumption
<1>2. ASSUME NEW items, Covered(items), NEW i \in items
      PROVE  i \in DOMAIN capacity /\ capacity[i] \in Nat \ {0}
  <2>1. At(capacity, i) > 0
    BY <1>2 DEF Covered
  <2>2. i \in DOMAIN capacity
    BY <2>1 DEF At
  <2> QED BY <1>1, <2>1, <2>2 DEF At
<1> QED BY <1>1, <1>2

LEMMA PenaltyIsNatural ==
    ASSUME ConstantsAssumption, Given, NEW a, NEW i \in DOMAIN capacity,
           capacity[i] \in Nat \ {0}
    PROVE  /\ Penalty(a, i) \in Nat
           /\ At(load_state, <<a, i>>) = 0 => Penalty(a, i) = 0
<1> DEFINE d == Unit * At(load_state, <<a, i>>)
           t == LoadUnit * capacity[i]
<1>1. At(load_state, <<a, i>>) \in Nat
  BY AtIsNatural DEF Given
<1>2. d \in Int /\ d >= 0 /\ t \in Nat \ {0} /\ Unit \in Nat
  BY <1>1, UnitAssumption DEF ConstantsAssumption
<1>3. At(load_state, <<a, i>>) = 0 => d = 0
  BY UnitAssumption
<1>4. Penalty(a, i) = IF policy = "VolumeCapacityRatio" THEN d \div t
                      ELSE AtLeast(0, d \div t - Unit)
  BY DEF Penalty
<1> HIDE DEF d, t
<1>5. d \div t \in Int /\ d \div t >= 0
  BY <1>2, Quotient
<1>6. d = 0 => d \div t = 0
  BY <1>2
<1> QED BY <1>2, <1>3, <1>4, <1>5, <1>6 DEF AtLeast

LEMMA ItemsAreFinite ==
    ASSUME NEW leg, IsRide(leg)
    PROVE  IsFiniteSet(Items(leg)) /\ Items(leg) \subseteq Nat \X Nat
<1> DEFINE D == leg.from .. leg.to - 1
           h == [i \in D |-> <<leg.trip, i>>]
<1>1. leg.from \in Int /\ leg.to - 1 \in Int /\ D \subseteq Nat
  BY DEF IsRide
<1>2. IsFiniteSet(D)
  BY <1>1, FS_Interval
<1>3. Items(leg) = {h[i] : i \in D}
  BY DEF Items
<1>4. IsFiniteSet({h[i] : i \in D})
  <2> HIDE DEF D, h
  <2> QED BY <1>2, ImageIsFinite
<1>5. Items(leg) \subseteq Nat \X Nat
  BY <1>1 DEF Items, IsRide
<1> QED BY <1>3, <1>4, <1>5

LEMMA EntryTyped ==
    ASSUME ConstantsAssumption, NEW k \in DOMAIN Entries
    PROVE  /\ Entries[k].interval \in DOMAIN IntervalOf
           /\ IntervalOf[Entries[k].interval].start \in Int
           /\ IntervalOf[Entries[k].interval].end \in Int
           /\ Entries[k].passengers \in Nat
           /\ Entries[k].connections \in Seq(Alternatives)
           /\ IsFiniteSet(DOMAIN Entries[k].connections)
           /\ DOMAIN Entries[k].connections \subseteq Int
           /\ \A i \in DOMAIN Entries[k].connections :
                /\ Entries[k].connections[i] \in Alternatives
                /\ IsFiniteSet(DOMAIN Entries[k].connections[i].legs)
                /\ \A l \in DOMAIN Entries[k].connections[i].legs :
                      IsRide(Entries[k].connections[i].legs[l])
<1> DEFINE e == Entries[k]
           cs == e.connections
<1>1. e \in [interval : DOMAIN IntervalOf, passengers : Nat,
             connections : Seq(Alternatives)]
  <2> DEFINE Typed == [interval : DOMAIN IntervalOf, passengers : Nat,
                       connections : Seq(Alternatives)]
  <2>1. Entries \in Seq(Typed)
    BY DEF ConstantsAssumption
  <2> HIDE DEF Typed
  <2>2. Entries[k] \in Typed
    BY <2>1
  <2> QED BY <2>2 DEF Typed
<1>2. /\ e.interval \in DOMAIN IntervalOf /\ e.passengers \in Nat
      /\ cs \in Seq(Alternatives)
  BY <1>1
<1>3. IntervalOf[e.interval].start \in Int /\ IntervalOf[e.interval].end \in Int
  BY <1>2 DEF ConstantsAssumption
<1>4. IsFiniteSet(DOMAIN cs) /\ DOMAIN cs \subseteq Int
  <2> HIDE DEF cs
  <2>1. DOMAIN cs = 1 .. Len(cs) /\ Len(cs) \in Int /\ 1 \in Int
    BY <1>2
  <2>2. IsFiniteSet(1 .. Len(cs))
    BY <2>1, FS_Interval
  <2> QED BY <2>1, <2>2
<1>5. ASSUME NEW i \in DOMAIN cs
      PROVE  /\ cs[i] \in Alternatives
             /\ IsFiniteSet(DOMAIN cs[i].legs)
             /\ \A l \in DOMAIN cs[i].legs : IsRide(cs[i].legs[l])
  <2>1. cs[i] \in Alternatives
    <3> HIDE DEF cs
    <3> QED BY <1>2, <1>5
  <2>2. cs[i].legs \in Seq(RideLegs)
    BY <2>1 DEF Alternatives
  <2>3. \A l \in DOMAIN cs[i].legs : cs[i].legs[l].from < cs[i].legs[l].to
    <3>1. cs[i] \in Range(cs)
      BY <1>5 DEF Range
    <3> QED BY <3>1 DEF ConstantsAssumption
  <2> DEFINE legs == cs[i].legs
  <2>4. IsFiniteSet(DOMAIN legs)
    <3>1. legs \in Seq(RideLegs)
      BY <2>2
    <3> HIDE DEF legs
    <3>2. DOMAIN legs = 1 .. Len(legs) /\ Len(legs) \in Int /\ 1 \in Int
      BY <3>1
    <3>3. IsFiniteSet(1 .. Len(legs))
      BY <3>2, FS_Interval
    <3> QED BY <3>2, <3>3
  <2>5. \A l \in DOMAIN legs : IsRide(legs[l])
    <3>1. legs \in Seq(RideLegs) /\ \A l \in DOMAIN legs : legs[l].from < legs[l].to
      BY <2>2, <2>3
    <3> HIDE DEF legs
    <3>2. \A l \in DOMAIN legs : legs[l] \in RideLegs
      BY <3>1
    <3> QED BY <3>1, <3>2 DEF RideLegs, IsRide
  <2> QED BY <2>1, <2>4, <2>5
<1> QED BY <1>2, <1>3, <1>4, <1>5

\* What one ride is charged for, as the split adds it up.
LEMMA RideCostIsInteger ==
    ASSUME ConstantsAssumption, Given, NEW a, NEW leg, IsRide(leg), Covered(Items(leg))
    PROVE  /\ Summable([i \in Items(leg) |-> Penalty(a, i)])
           /\ Total([i \in Items(leg) |-> Penalty(a, i)]) \in Int
           /\ Unit * (leg.to - leg.from) \in Nat \ {0}
<1> DEFINE f == [i \in Items(leg) |-> Penalty(a, i)]
<1>1. \A i \in Items(leg) : Penalty(a, i) \in Nat
  BY CapacityTyped, PenaltyIsNatural DEF Given
<1>2. DOMAIN f = Items(leg) /\ \A i \in DOMAIN f : f[i] \in Nat
  BY <1>1
<1>3. IsFiniteSet(DOMAIN f)
  BY <1>2, ItemsAreFinite
<1> HIDE DEF f
<1>4. Summable(f)
  <2>1. \A i \in DOMAIN f : f[i] \in Int
    BY <1>2
  <2> QED BY <1>3, <2>1 DEF Summable
<1>5. Total(f) \in Int
  BY <1>4, Sums
<1>6. Unit * (leg.to - leg.from) \in Nat \ {0}
  BY UnitAssumption DEF IsRide
<1> QED BY <1>4, <1>5, <1>6 DEF f

LEMMA ExposureIsInteger ==
    ASSUME ConstantsAssumption, Given, NEW a,
           NEW k \in DOMAIN Entries, NEW n \in DOMAIN Entries[k].connections,
           Covered(ItemsOf(Entries[k].connections[n]))
    PROVE  Exposure(Entries[k].connections[n], a) \in Int
<1> DEFINE legs == Entries[k].connections[n].legs
           f == [l \in DOMAIN legs |->
                    (legs[l].duration * Total([i \in Items(legs[l]) |-> Penalty(a, i)]))
                      \div (Unit * (legs[l].to - legs[l].from))]
<1>1. IsFiniteSet(DOMAIN legs) /\ \A l \in DOMAIN legs : IsRide(legs[l])
  BY EntryTyped
<1>2. \A l \in DOMAIN legs : Covered(Items(legs[l]))
  BY DEF Covered, ItemsOf
<1>3. Exposure(Entries[k].connections[n], a) = Total(f)
  BY DEF Exposure
<1> HIDE DEF legs
<1>4. ASSUME NEW l \in DOMAIN legs
      PROVE  f[l] \in Int
  <2> DEFINE d == legs[l].duration * Total([i \in Items(legs[l]) |-> Penalty(a, i)])
             t == Unit * (legs[l].to - legs[l].from)
  <2>1. d \in Int /\ t \in Nat \ {0}
    <3>1. /\ Total([i \in Items(legs[l]) |-> Penalty(a, i)]) \in Int
          /\ t \in Nat \ {0}
      BY <1>1, <1>2, RideCostIsInteger
    <3>2. legs[l].duration \in Int
      BY <1>1 DEF IsRide
    <3> QED BY <3>1, <3>2
  <2>2. f[l] = d \div t
    OBVIOUS
  <2> HIDE DEF d, t, f
  <2> QED BY <2>1, <2>2, Quotient
<1>5. DOMAIN f = DOMAIN legs
  OBVIOUS
<1> HIDE DEF f
<1>6. Summable(f)
  BY <1>1, <1>4, <1>5 DEF Summable
<1> QED BY <1>3, <1>6, Sums

------------------------------------------------------------------------------
(* What an iteration loads                                                 *)

LEMMA AdjustedTyped ==
    ASSUME ConstantsAssumption, Given, SplitSucceeds,
           NEW k \in DOMAIN Entries, NEW i \in Chosen(Entries[k])
    PROVE  LET c == Adjusted(Entries[k].connections[i], Entries[k].interval)
           IN  c.dep \in Int /\ c.arr \in Int /\ c.pjt \in Int /\ c.fare \in Int
<1> DEFINE b == Entries[k].connections[i]
           a == Entries[k].interval
<1>1. i \in DOMAIN Entries[k].connections
  BY DEF Chosen
<1>2. b \in Alternatives
  BY <1>1, EntryTyped
<1>3. CASE ~ mode.split
  BY <1>2, <1>3 DEF Adjusted, Alternatives
<1>4. CASE mode.split
  <2>1. Covered(ItemsOf(b))
    BY <1>4 DEF SplitSucceeds
  <2>2. Exposure(b, a) \in Int
    BY <1>1, <2>1, ExposureIsInteger
  <2>3. SplitRatio \in Int
    BY DEF ConstantsAssumption
  <2> DEFINE x == Exposure(b, a)
  <2>4. Adjusted(b, a) = [b EXCEPT !.pjt = @ + SplitRatio * x]
    BY <1>4 DEF Adjusted
  <2>5. x \in Int
    BY <2>2
  <2> HIDE DEF b, a, x
  <2>6. SplitRatio * x \in Int
    BY <2>3, <2>5
  <2> QED BY <1>2, <2>4, <2>6 DEF Alternatives, b, a
<1> QED BY <1>3, <1>4

LEMMA ChosenAreSome ==
    ASSUME ConstantsAssumption, NEW k \in DOMAIN Entries
    PROVE  /\ Chosen(Entries[k]) \subseteq DOMAIN Entries[k].connections
           /\ IsFiniteSet(Chosen(Entries[k])) /\ Chosen(Entries[k]) \subseteq Int
<1>1. Chosen(Entries[k]) \subseteq DOMAIN Entries[k].connections
  BY DEF Chosen
<1>2. /\ IsFiniteSet(DOMAIN Entries[k].connections)
      /\ DOMAIN Entries[k].connections \subseteq Int
  BY EntryTyped
<1> QED BY <1>1, <1>2, FS_Subset

\* Everyone of an entry rides one of the connections chosen, if there is one.
LEMMA EntryIsShared ==
    ASSUME ConstantsAssumption, Given, SplitSucceeds, NEW k \in DOMAIN Entries
    PROVE  /\ DOMAIN SharesOf(k) = Chosen(Entries[k])
           /\ \A i \in Chosen(Entries[k]) : SharesOf(k)[i] \in Nat
           /\ Chosen(Entries[k]) # {} => Total(SharesOf(k)) = Entries[k].passengers
<1> DEFINE e == Entries[k]
           as == [i \in Chosen(e) |-> Adjusted(e.connections[i], e.interval)]
           reference == [i \in DOMAIN as |-> as[i].dep]
           interval == IntervalOf[e.interval]
<1>1. SharesOf(k) = SplitShares(as, reference, interval, e.passengers).passengers
  BY DEF SharesOf, With
<1>2. IsAlternatives(as)
  BY AdjustedTyped, ChosenAreSome DEF IsAlternatives
<1>3. interval.start \in Int /\ interval.end \in Int /\ e.passengers \in Nat
  BY EntryTyped
<1>4. DOMAIN as = Chosen(e)
  OBVIOUS
<1>5. \A i \in DOMAIN as : reference[i] \in Int
  BY <1>2 DEF IsAlternatives
<1> DEFINE demand == e.passengers
           shares == SplitShares(as, reference, interval, demand).passengers
<1>6. demand \in Nat
  BY <1>3
<1> HIDE DEF as, reference, interval, demand
<1>7. /\ DOMAIN shares = DOMAIN as
      /\ \A i \in DOMAIN as : shares[i] \in Nat
      /\ DOMAIN as # {} => Total(shares) = demand
  <2> HIDE DEF e
  <2>1. interval.start \in Int /\ interval.end \in Int
    BY <1>3
  <2>3. IsAlternatives(as) /\ (\A i \in DOMAIN as : reference[i] \in Int) /\ demand \in Nat
    BY <1>2, <1>5, <1>6
  <2> HIDE DEF shares
  <2>4. ASSUME NEW x, x = as, NEW r, r = reference
        PROVE  LET s == SplitShares(x, r, interval, demand).passengers
               IN  /\ DOMAIN s = DOMAIN x
                   /\ \A i \in DOMAIN x : s[i] \in Nat
                   /\ DOMAIN x # {} => Total(s) = demand
    <3>1. IsAlternatives(x)
      BY <2>4, <2>3
    <3>2. \A i \in DOMAIN x : r[i] \in Int
      BY <2>4, <2>3
    <3>3. demand \in Nat /\ interval.start \in Int /\ interval.end \in Int
      BY <2>1, <2>3
    <3> QED BY <3>1, <3>2, <3>3, SharesAreWhole
  <2> QED BY <2>4 DEF shares
<1> QED BY <1>1, <1>4, <1>7 DEF demand

LEMMA ItemsOfAreFinite ==
    ASSUME ConstantsAssumption, NEW k \in DOMAIN Entries,
           NEW n \in DOMAIN Entries[k].connections
    PROVE  /\ IsFiniteSet(ItemsOf(Entries[k].connections[n]))
           /\ ItemsOf(Entries[k].connections[n]) \subseteq Nat \X Nat
<1> DEFINE c == Entries[k].connections[n]
           D == DOMAIN c.legs
           g == [l \in D |-> Items(c.legs[l])]
<1>1. IsFiniteSet(D) /\ \A l \in D : IsRide(c.legs[l])
  BY EntryTyped
<1>2. \A l \in D : IsFiniteSet(g[l]) /\ g[l] \subseteq Nat \X Nat
  BY <1>1, ItemsAreFinite
<1>3. ItemsOf(c) = UNION {g[l] : l \in D}
  BY DEF ItemsOf
<1> HIDE DEF D, g, c
<1>4. IsFiniteSet({g[l] : l \in D})
  BY <1>1, ImageIsFinite
<1>5. IsFiniteSet(UNION {g[l] : l \in D})
  BY <1>2, <1>4, FS_UNION
<1>6. UNION {g[l] : l \in D} \subseteq Nat \X Nat
  BY <1>2
<1>7. IsFiniteSet(ItemsOf(c)) /\ ItemsOf(c) \subseteq Nat \X Nat
  BY <1>3, <1>5, <1>6
<1> QED BY <1>7 DEF c

\* A ride loads the items it passes, each with a capacity where the split
\* asks for one.
IsLoadOf(r) ==
    /\ r.passengers \in Nat
    /\ IsFiniteSet(r.loads) /\ r.loads \subseteq (DOMAIN IntervalOf) \X (Nat \X Nat)
    /\ mode.split => \A x \in r.loads : At(capacity, x[2]) > 0

LEMMA RidesAreLoads ==
    ASSUME ConstantsAssumption, Given, SplitSucceeds, NEW k \in DOMAIN Entries
    PROVE  IsFiniteSet(Rides(k)) /\ \A r \in Rides(k) : IsLoadOf(r)
<1> DEFINE e == Entries[k]
           shares == SharesOf(k)
           D == {j \in DOMAIN shares : shares[j] > 0}
           Of(i) == {<<e.interval, item>> : item \in ItemsOf(e.connections[i])}
           g == [i \in D |-> [entry |-> k, share |-> i, passengers |-> shares[i],
                              loads |-> Of(i)]]
<1>1. DOMAIN shares = Chosen(e) /\ \A i \in Chosen(e) : shares[i] \in Nat
  BY EntryIsShared
<1>2. D \subseteq DOMAIN e.connections /\ IsFiniteSet(D) /\ D \subseteq Chosen(e)
  <2>1. D \subseteq Chosen(e)
    BY <1>1
  <2> HIDE DEF D
  <2> QED BY <2>1, ChosenAreSome, FS_Subset
<1>3. Rides(k) = {g[i] : i \in D}
  BY DEF Rides, With
<1>4. IsFiniteSet({g[i] : i \in D})
  <2> HIDE DEF D, g
  <2> QED BY <1>2, ImageIsFinite
<1>5. ASSUME NEW i \in D
      PROVE  IsLoadOf(g[i])
  <2> DEFINE items == ItemsOf(e.connections[i])
             a == e.interval
             put == [item \in items |-> <<a, item>>]
  <2>1. IsFiniteSet(items) /\ items \subseteq Nat \X Nat
    BY <1>2, ItemsOfAreFinite
  <2>2. a \in DOMAIN IntervalOf
    BY EntryTyped
  <2>3. mode.split => Covered(items)
    BY <1>2 DEF SplitSucceeds
  <2>4. shares[i] \in Nat
    BY <1>1, <1>2
  <2>5. g[i].passengers = shares[i] /\ g[i].loads = Of(i)
    BY <1>5
  <2>6. Of(i) = {put[item] : item \in items}
    OBVIOUS
  <2>7. \A item \in items : put[item] = <<a, item>>
    OBVIOUS
  <2> HIDE DEF items, a, put, Of, g, shares
  <2>8. IsFiniteSet(Of(i))
    BY <2>1, <2>6, ImageIsFinite
  <2>9. Of(i) \subseteq (DOMAIN IntervalOf) \X (Nat \X Nat)
    BY <2>1, <2>2, <2>6, <2>7
  <2>10. mode.split => \A x \in Of(i) : At(capacity, x[2]) > 0
    BY <2>3, <2>6, <2>7 DEF Covered
  <2> QED BY <2>4, <2>5, <2>8, <2>9, <2>10 DEF IsLoadOf
<1> HIDE DEF D, g
<1> QED BY <1>3, <1>4, <1>5

\* What an iteration loads: a passenger count for every item somebody rides.
LEMMA CandidateIsLoad ==
    ASSUME ConstantsAssumption, Given, SplitSucceeds
    PROVE  /\ Loaded(CandidateLoads)
           /\ DOMAIN CandidateLoads \subseteq (DOMAIN IntervalOf) \X (Nat \X Nat)
           /\ mode.split => \A x \in DOMAIN CandidateLoads : At(capacity, x[2]) > 0
<1> DEFINE h == [k \in DOMAIN Entries |-> Rides(k)]
           R == {h[k] : k \in DOMAIN Entries}
           rides == UNION R
           K == UNION {r.loads : r \in rides}
           Of(key) == {x \in rides : key \in x.loads}
<1>1. IsFiniteSet(DOMAIN Entries)
  <2> DEFINE Typed == [interval : DOMAIN IntervalOf, passengers : Nat,
                       connections : Seq(Alternatives)]
  <2>1. Entries \in Seq(Typed)
    BY DEF ConstantsAssumption
  <2> HIDE DEF Typed
  <2>2. DOMAIN Entries = 1 .. Len(Entries) /\ Len(Entries) \in Int /\ 1 \in Int
    BY <2>1
  <2>3. IsFiniteSet(1 .. Len(Entries))
    BY <2>2, FS_Interval
  <2> QED BY <2>2, <2>3
<1>2. \A k \in DOMAIN Entries :
        h[k] = Rides(k) /\ IsFiniteSet(h[k]) /\ \A r \in h[k] : IsLoadOf(r)
  BY RidesAreLoads
<1>3. rides = UNION {Rides(k) : k \in DOMAIN Entries}
  BY <1>2
<1>4. CandidateLoads = [key \in K |-> Total([r \in Of(key) |-> r.passengers])]
  BY <1>3 DEF CandidateLoads, With
<1> HIDE DEF h
<1>5. IsFiniteSet(R)
  BY <1>1, ImageIsFinite
<1>6. IsFiniteSet(rides) /\ \A r \in rides : IsLoadOf(r)
  <2>1. \A s \in R : IsFiniteSet(s)
    BY <1>2
  <2>2. \A r \in rides : IsLoadOf(r)
    BY <1>2
  <2> HIDE DEF R
  <2> QED BY <1>5, <2>1, <2>2, FS_UNION
<1> HIDE DEF R, rides
<1>7. IsFiniteSet(K)
  <2> DEFINE L == [r \in rides |-> r.loads]
             Q == {L[r] : r \in rides}
  <2>1. \A r \in rides : L[r] = r.loads /\ IsFiniteSet(L[r])
    BY <1>6 DEF IsLoadOf
  <2>2. K = UNION Q
    BY <2>1
  <2>3. \A s \in Q : IsFiniteSet(s)
    BY <2>1
  <2> HIDE DEF L
  <2>4. IsFiniteSet(Q)
    BY <1>6, ImageIsFinite
  <2> HIDE DEF Q, K
  <2> QED BY <2>2, <2>3, <2>4, FS_UNION
<1>8. /\ K \subseteq (DOMAIN IntervalOf) \X (Nat \X Nat)
      /\ mode.split => \A x \in K : At(capacity, x[2]) > 0
  BY <1>6 DEF IsLoadOf
<1> HIDE DEF K
<1>9. ASSUME NEW key \in K
      PROVE  CandidateLoads[key] \in Nat
  <2> DEFINE f == [r \in Of(key) |-> r.passengers]
  <2>1. Of(key) \subseteq rides
    OBVIOUS
  <2>2. IsFiniteSet(Of(key))
    <3> HIDE DEF Of
    <3> QED BY <1>6, <2>1, FS_Subset
  <2>3. DOMAIN f = Of(key) /\ \A r \in Of(key) : f[r] = r.passengers
    OBVIOUS
  <2>4. \A r \in Of(key) : r.passengers \in Nat
    BY <1>6 DEF IsLoadOf
  <2>5. CandidateLoads[key] = Total(f)
    BY <1>4, <1>9
  <2>6. Part(f, Of(key)) = Total(f)
    BY DEF Part
  <2> HIDE DEF f, Of
  <2>7. Summable(f) /\ \A r \in Of(key) : f[r] >= 0
    BY <2>2, <2>3, <2>4 DEF Summable
  <2>8. Part(f, Of(key)) \in Nat
    BY <2>3, <2>7, SumsOfNaturals
  <2> QED BY <2>5, <2>6, <2>8
<1>10. DOMAIN CandidateLoads = K
  BY <1>4
<1> QED BY <1>7, <1>8, <1>9, <1>10 DEF Loaded

------------------------------------------------------------------------------
(* The averages                                                            *)

LEMMA MultipleDivided ==
    ASSUME NEW p \in Int, NEW n \in Nat \ {0}
    PROVE  (n * p) \div n = p
<1> DEFINE v == n * p
           d == v \div n
<1>1. v \in Int /\ v = n * p
  OBVIOUS
<1>2. d \in Int /\ n * d <= v /\ v < n * d + n
  <2> HIDE DEF v
  <2> QED BY <1>1, Quotient
<1> HIDE DEF v, d
<1>3. ~ (d < p)
  BY <1>1, <1>2
<1>4. ~ (p < d)
  BY <1>1, <1>2
<1>5. d = p
  BY <1>2, <1>3, <1>4
<1> QED BY <1>5 DEF d, v

\* What holds of the keys of two loads holds of any.
LEMMA KeysAreFinite ==
    ASSUME NEW f, Loaded(f), NEW g, Loaded(g)
    PROVE  /\ IsFiniteSet(Keys(f, g))
           /\ \A k : k \notin Keys(f, g) => At(f, k) = 0 /\ At(g, k) = 0
<1>1. IsFiniteSet(Keys(f, g))
  BY FS_Union DEF Keys, Loaded
<1> QED BY <1>1 DEF Keys, At

\* The average is exact: n times it is what n loads add up to.
LEMMA MsaIsMean ==
    ASSUME ConstantsAssumption, NEW prev, Loaded(prev), NEW loads, Loaded(loads),
           NEW tot, Loaded(tot), NEW n \in 1 .. MaxIterations,
           \A k : (n - 1) * At(prev, k) = LoadUnit * At(tot, k)
    PROVE  /\ Loaded(Msa(prev, loads, n))
           /\ \A k \in DOMAIN Msa(prev, loads, n) : Msa(prev, loads, n)[k] > 0
           /\ \A k : n * At(Msa(prev, loads, n), k)
                        = (n - 1) * At(prev, k) + LoadUnit * At(loads, k)
<1> DEFINE K == DOMAIN prev \cup DOMAIN loads
           value(k) == (n - 1) * At(prev, k) + LoadUnit * At(loads, k)
           f == [k \in K |-> value(k) \div n]
           q == LoadUnit \div n
<1>1. /\ n \in Nat \ {0} /\ LoadUnit \in Nat \ {0} /\ n \in Int
      /\ q \in Nat /\ n * q = LoadUnit
  <2>1. MaxIterations \in Nat \ {0} /\ LoadUnit \in Nat \ {0} /\ LoadUnit % n = 0
    BY DEF ConstantsAssumption
  <2>2. n \in Nat \ {0}
    BY <2>1
  <2>3. LoadUnit \in Int /\ LoadUnit >= 0
    BY <2>1
  <2>4. q \in Int /\ q >= 0
    BY <2>2, <2>3, Quotient
  <2>5. n * q = LoadUnit
    BY <2>1, <2>2, <2>3, ExactQuotient
  <2> HIDE DEF q
  <2> QED BY <2>1, <2>2, <2>4, <2>5
<1> HIDE DEF q
<1>2. ASSUME NEW k
      PROVE  /\ value(k) \div n \in Nat
             /\ n * (value(k) \div n) = value(k)
  <2> DEFINE s == At(tot, k) + At(loads, k)
             p == q * s
             v == value(k)
  <2>1. At(tot, k) \in Nat /\ At(loads, k) \in Nat /\ At(prev, k) \in Nat
    BY AtIsNatural
  <2>2. s \in Nat /\ v = LoadUnit * At(tot, k) + LoadUnit * At(loads, k)
    BY <2>1
  <2>3. v = LoadUnit * s
    BY <1>1, <2>1, <2>2
  <2> HIDE DEF s, v
  <2>4. p \in Nat
    BY <1>1, <2>2
  <2>5. v = n * p
    BY <1>1, <2>2, <2>3
  <2> HIDE DEF p
  <2>6. (n * p) \div n = p
    BY <1>1, <2>4, MultipleDivided
  <2>7. v \div n \in Nat /\ n * (v \div n) = v
    BY <2>4, <2>5, <2>6
  <2> QED BY <2>7 DEF v
<1>3. ASSUME NEW k
      PROVE  value(k) \in Int /\ (k \notin K => value(k) = 0)
  <2>1. At(loads, k) \in Nat /\ At(prev, k) \in Nat
    BY AtIsNatural
  <2>2. k \notin K => At(loads, k) = 0 /\ At(prev, k) = 0
    BY DEF At
  <2> QED BY <1>1, <2>1, <2>2
<1>4. IsFiniteSet(K)
  BY FS_Union DEF Loaded
<1>5. /\ Msa(prev, loads, n) = Positive(f)
      /\ DOMAIN f = K /\ \A k \in K : f[k] = value(k) \div n
  BY DEF Msa
<1> HIDE DEF value, K, f
<1>6. /\ DOMAIN Positive(f) = {k \in K : f[k] > 0}
      /\ \A k \in DOMAIN Positive(f) : Positive(f)[k] = f[k]
  BY <1>5 DEF Positive
<1>7. IsFiniteSet(DOMAIN Positive(f))
  BY <1>4, <1>6, FS_Subset
<1>8. \A k \in DOMAIN Positive(f) : Positive(f)[k] \in Nat /\ Positive(f)[k] > 0
  BY <1>2, <1>5, <1>6
<1>9. ASSUME NEW k
      PROVE  n * At(Positive(f), k) = value(k)
  <2>1. CASE k \in DOMAIN Positive(f)
    BY <1>2, <1>5, <1>6, <2>1 DEF At
  <2>2. CASE k \notin K
    <3>1. At(Positive(f), k) = 0
      BY <1>6, <2>2 DEF At
    <3> QED BY <1>1, <1>3, <2>2, <3>1
  <2>3. CASE k \in K /\ k \notin DOMAIN Positive(f)
    <3>1. At(Positive(f), k) = 0
      BY <2>3 DEF At
    <3>2. f[k] = value(k) \div n /\ f[k] \in Nat /\ ~ (f[k] > 0)
      BY <1>2, <1>5, <1>6, <2>3
    <3>3. value(k) \div n = 0
      BY <3>2
    <3> QED BY <1>1, <1>2, <3>1, <3>3
  <2> QED BY <2>1, <2>2, <2>3
<1> QED BY <1>5, <1>7, <1>8, <1>9 DEF Loaded, value

\* What two loads differ by at any key.
LEMMA DifferenceIsBounded ==
    ASSUME NEW f, Loaded(f), NEW g, Loaded(g)
    PROVE  /\ MaxAbsolute(f, g) \in Nat
           /\ \A k : Distance(At(f, k), At(g, k)) <= MaxAbsolute(f, g)
<1> DEFINE d == [k \in Keys(f, g) |-> Distance(At(f, k), At(g, k))]
           S == {d[k] : k \in Keys(f, g)}
           U == {0} \cup S
<1>1. \A k : At(f, k) \in Nat /\ At(g, k) \in Nat
  BY AtIsNatural
<1>2. \A k : Distance(At(f, k), At(g, k)) \in Nat
  BY <1>1 DEF Distance
<1>3. S \subseteq Nat /\ MaxAbsolute(f, g) = Max(U)
  BY <1>2 DEF MaxAbsolute
<1>4. IsFiniteSet(S)
  <2> HIDE DEF d
  <2> QED BY KeysAreFinite, ImageIsFinite
<1>5. \A k : Distance(At(f, k), At(g, k)) \in U
  <2>1. ASSUME NEW k, k \notin Keys(f, g)
        PROVE  Distance(At(f, k), At(g, k)) = 0
    BY <2>1, KeysAreFinite DEF Distance
  <2>2. ASSUME NEW k, k \in Keys(f, g)
        PROVE  Distance(At(f, k), At(g, k)) \in S
    BY <2>2
  <2> HIDE DEF S
  <2> QED BY <2>1, <2>2
<1> HIDE DEF S
<1>6. IsFiniteSet(U) /\ U \subseteq Nat /\ U # {}
  <2>1. IsFiniteSet({0})
    BY FS_Singleton
  <2>2. IsFiniteSet(U)
    BY <1>4, <2>1, FS_Union
  <2> QED BY <1>3, <2>2
<1> HIDE DEF U
<1>7. Max(U) \in U /\ \A y \in U : y <= Max(U)
  <2> DEFINE i == [x \in U |-> x]
  <2>1. Summable(i) /\ DOMAIN i = U /\ \A x \in U : i[x] = x
    BY <1>6 DEF Summable
  <2> HIDE DEF i
  <2>2. PICK x \in U : \A y \in U : i[y] <= i[x]
    BY <1>6, <2>1, GreatestExists
  <2>3. \A y \in U : x >= y
    BY <1>6, <2>1, <2>2
  <2>4. Max(U) \in U /\ \A y \in U : Max(U) >= y
    BY <2>3 DEF Max
  <2> QED BY <1>6, <2>4
<1> QED BY <1>3, <1>5, <1>6, <1>7

\* The last loads are as far from the average as it moved, n - 1 times over.
LEMMA LastLoadsAreNear ==
    ASSUME NEW n \in Nat \ {0}, NEW p \in Nat, NEW x \in Nat, NEW c \in Nat,
           n * x = (n - 1) * p + c, NEW d \in Nat, Distance(p, x) <= d
    PROVE  Distance(c, x) <= (n - 1) * d
<1> DEFINE t == n - 1
<1>1. t \in Nat /\ n = t + 1
  OBVIOUS
<1>2. (t + 1) * x = t * p + c
  BY <1>1
<1> HIDE DEF t
<1>3. c = x + t * x - t * p
  BY <1>1, <1>2
<1>4. CASE p < x
  <2> DEFINE y == x - p
  <2>1. y \in Nat /\ x = p + y /\ y <= d
    BY <1>4 DEF Distance
  <2> HIDE DEF y
  <2>2. c = x + t * y
    BY <1>1, <1>3, <2>1
  <2>3. t * y <= t * d /\ t * y \in Nat
    BY <1>1, <2>1
  <2>4. Distance(c, x) <= t * d
    BY <2>2, <2>3 DEF Distance
  <2> QED BY <2>4 DEF t
<1>5. CASE ~ (p < x)
  <2> DEFINE y == p - x
  <2>1. y \in Nat /\ p = x + y /\ y <= d
    BY <1>5 DEF Distance
  <2> HIDE DEF y
  <2>2. c = x - t * y
    BY <1>1, <1>3, <2>1
  <2>3. t * y <= t * d /\ t * y \in Nat
    BY <1>1, <2>1
  <2>4. Distance(c, x) <= t * d
    BY <2>2, <2>3 DEF Distance
  <2> QED BY <2>4 DEF t
<1> QED BY <1>4, <1>5

------------------------------------------------------------------------------
(* The invariant                                                           *)

StateTyped ==
    /\ mode \in Modes /\ capacity \in CapacitySets
    /\ iteration \in 0 .. MaxIterations
    /\ status \in {"iterating", "stopped", "reported", "failed"}
    /\ Loaded(load_state) /\ Loaded(candidate) /\ Loaded(total)
    /\ candidate = [k \in DOMAIN candidate |-> candidate[k]]

\* Iteration ends where it is told to.
EndsInTime ==
    /\ status = "iterating" => iteration < MaxIterations
    /\ status = "stopped" =>
          converged \/ iteration = MaxIterations \/ ~ (mode.search \/ mode.split)

MeanOfAll ==
    \A k \in Keys(load_state, total) :
        iteration * At(load_state, k) = LoadUnit * At(total, k)

OnlyLoads == \A k \in DOMAIN load_state : load_state[k] > 0

LastIsNear ==
    mode.search \/ mode.split =>
        \A k \in Keys(load_state, candidate) :
            Distance(LoadUnit * At(candidate, k), At(load_state, k))
                <= (iteration - 1) * delta

\* Who rides was given a capacity to ride in, if the split looks at any.
LastFits ==
    /\ DOMAIN candidate \subseteq (DOMAIN IntervalOf) \X (Nat \X Nat)
    /\ mode.split => \A x \in DOMAIN candidate : At(capacity, x[2]) > 0

\* All items an index covers or an entry may ride.
Everything ==
    DOMAIN capacity \cup UNION {ItemsOf(c) : c \in
        UNION {Range(Entries[k].connections) : k \in DOMAIN Entries}}

FailsUncovered == status = "failed" => ~ Covered(Everything)

ReportsTheLast == status = "reported" => rows = Assessment(candidate)

IInv ==
    StateTyped /\ EndsInTime /\ MeanOfAll /\ OnlyLoads /\ LastIsNear /\ LastFits
        /\ FailsUncovered /\ ReportsTheLast

LEMMA MeanAnywhere ==
    ASSUME StateTyped, MeanOfAll, LoadUnit \in Nat
    PROVE  \A k : iteration * At(load_state, k) = LoadUnit * At(total, k)
<1>1. ASSUME NEW k, k \notin Keys(load_state, total)
      PROVE  iteration * At(load_state, k) = LoadUnit * At(total, k)
  <2>1. At(load_state, k) = 0 /\ At(total, k) = 0
    BY <1>1, KeysAreFinite DEF StateTyped
  <2> QED BY <2>1 DEF StateTyped
<1> QED BY <1>1 DEF MeanOfAll

LEMMA Initially == ASSUME ConstantsAssumption, Init PROVE IInv
<1>1. DOMAIN load_state = {} /\ DOMAIN candidate = {} /\ DOMAIN total = {}
  BY DEF Init
<1>2. /\ mode \in Modes /\ capacity \in CapacitySets /\ iteration = 0
      /\ status = "iterating" /\ candidate = <<>>
  BY DEF Init
<1>3. MaxIterations \in Nat \ {0}
  BY DEF ConstantsAssumption
<1>4. Loaded(load_state) /\ Loaded(candidate) /\ Loaded(total)
  BY <1>1, FS_EmptySet DEF Loaded
<1>5. StateTyped
  BY <1>2, <1>3, <1>4 DEF StateTyped
<1>6. EndsInTime
  BY <1>2, <1>3 DEF EndsInTime
<1>7. Keys(load_state, total) = {} /\ Keys(load_state, candidate) = {}
  BY <1>1 DEF Keys
<1>8. MeanOfAll /\ OnlyLoads /\ LastIsNear /\ LastFits
  BY <1>1, <1>7 DEF MeanOfAll, OnlyLoads, LastIsNear, LastFits
<1>9. FailsUncovered /\ ReportsTheLast
  BY <1>2 DEF FailsUncovered, ReportsTheLast
<1> QED BY <1>5, <1>6, <1>8, <1>9 DEF IInv

\* An iteration that succeeds: what it searches, splits and averages.
LEMMA IterateKeeps ==
    ASSUME ConstantsAssumption, IInv, Iterate, SearchSucceeds, SplitSucceeds
    PROVE  IInv'
<1> DEFINE n == iteration + 1
           loads == CandidateLoads
           next == Msa(load_state, loads, n)
<1>1. /\ status = "iterating"
      /\ iteration' = n /\ load_state' = next /\ candidate' = loads
      /\ total' = [k \in Keys(total, loads) |-> At(total, k) + At(loads, k)]
      /\ UNCHANGED <<mode, policy, capacity, rows>>
  BY DEF Iterate
<1>2. /\ mode.search \/ mode.split =>
            /\ delta' = MaxAbsolute(load_state, next)
            /\ converged' \in BOOLEAN
            /\ status' = IF converged' \/ n = MaxIterations THEN "stopped" ELSE status
      /\ ~ (mode.search \/ mode.split) =>
            status' = "stopped" /\ UNCHANGED <<delta, converged>>
  BY DEF Iterate, Converged
<1>3. /\ StateTyped /\ MeanOfAll /\ EndsInTime
      /\ MaxIterations \in Nat \ {0} /\ LoadUnit \in Nat \ {0}
  BY DEF IInv, ConstantsAssumption
<1>4. /\ n \in 1 .. MaxIterations /\ n - 1 = iteration /\ n \in Nat \ {0}
      /\ iteration \in Nat
  BY <1>1, <1>3 DEF StateTyped, EndsInTime
<1>5. Given /\ Loaded(load_state) /\ Loaded(total)
  BY <1>3 DEF Given, StateTyped
<1>6. /\ Loaded(loads) /\ DOMAIN loads \subseteq (DOMAIN IntervalOf) \X (Nat \X Nat)
      /\ mode.split => \A x \in DOMAIN loads : At(capacity, x[2]) > 0
  BY <1>5, CandidateIsLoad
<1>7. loads = [k \in DOMAIN loads |-> loads[k]]
  BY DEF CandidateLoads, With
<1> HIDE DEF loads, n
<1>8. \A k : (n - 1) * At(load_state, k) = LoadUnit * At(total, k)
  BY <1>3, <1>4, MeanAnywhere
<1>9. /\ Loaded(next) /\ \A k \in DOMAIN next : next[k] > 0
      /\ \A k : n * At(next, k) = (n - 1) * At(load_state, k) + LoadUnit * At(loads, k)
  <2>1. ASSUME NEW p, p = load_state, NEW t, t = total, NEW l, l = loads, NEW i, i = n
        PROVE  /\ Loaded(Msa(p, l, i)) /\ \A k \in DOMAIN Msa(p, l, i) : Msa(p, l, i)[k] > 0
               /\ \A k : i * At(Msa(p, l, i), k) = (i - 1) * At(p, k) + LoadUnit * At(l, k)
    <3>1. Loaded(p) /\ Loaded(l) /\ Loaded(t) /\ i \in 1 .. MaxIterations
      BY <1>4, <1>5, <1>6, <2>1
    <3>2. \A k : (i - 1) * At(p, k) = LoadUnit * At(t, k)
      BY <1>8, <2>1
    <3> QED BY <3>1, <3>2, MsaIsMean
  <2> QED BY <2>1
<1> HIDE DEF next
<1>10. /\ Loaded(total')
       /\ \A k : At(total', k) = At(total, k) + At(loads, k)
  <2> DEFINE sum == [k \in Keys(total, loads) |-> At(total, k) + At(loads, k)]
  <2>1. DOMAIN sum = Keys(total, loads) /\ total' = sum
    BY <1>1
  <2>2. \A k : At(total, k) \in Nat /\ At(loads, k) \in Nat
    BY <1>5, <1>6, AtIsNatural
  <2>3. \A k \in DOMAIN sum : sum[k] \in Nat /\ sum[k] = At(total, k) + At(loads, k)
    BY <2>2
  <2>4. /\ IsFiniteSet(DOMAIN sum)
        /\ \A k : k \notin DOMAIN sum => At(total, k) = 0 /\ At(loads, k) = 0
    BY <1>5, <1>6, <2>1, KeysAreFinite
  <2> HIDE DEF sum
  <2>5. \A k : At(sum, k) = At(total, k) + At(loads, k)
    BY <2>3, <2>4 DEF At
  <2>6. Loaded(sum)
    BY <2>3, <2>4 DEF Loaded
  <2> QED BY <2>1, <2>5, <2>6
<1>11. status' \in {"iterating", "stopped"}
  BY <1>1, <1>2
<1>12. StateTyped'
  BY <1>1, <1>3, <1>4, <1>6, <1>7, <1>9, <1>10, <1>11 DEF StateTyped
<1>13. EndsInTime'
  BY <1>1, <1>2, <1>3, <1>4 DEF EndsInTime
<1>14. MeanOfAll'
  <2> SUFFICES ASSUME NEW k
               PROVE  n * At(next, k) = LoadUnit * At(total', k)
    BY <1>1 DEF MeanOfAll
  <2>1. At(total, k) \in Nat /\ At(loads, k) \in Nat
    BY <1>5, <1>6, AtIsNatural
  <2>2. n * At(next, k) = LoadUnit * At(total, k) + LoadUnit * At(loads, k)
    BY <1>8, <1>9
  <2>3. At(total', k) = At(total, k) + At(loads, k)
    BY <1>10
  <2> QED BY <1>3, <2>1, <2>2, <2>3
<1>15. OnlyLoads'
  BY <1>1, <1>9 DEF OnlyLoads
<1>16. LastIsNear'
  <2> SUFFICES ASSUME mode.search \/ mode.split, NEW k
               PROVE  Distance(LoadUnit * At(loads, k), At(next, k)) <= (n - 1) * delta'
    BY <1>1 DEF LastIsNear
  <2> DEFINE p == At(load_state, k)
             x == At(next, k)
             l == At(loads, k)
             c == LoadUnit * l
             d == MaxAbsolute(load_state, next)
  <2>1. delta' = d
    BY <1>2
  <2>2. p \in Nat /\ x \in Nat /\ l \in Nat
    BY <1>5, <1>6, <1>9, AtIsNatural
  <2>3. d \in Nat /\ Distance(p, x) <= d
    BY <1>5, <1>9, DifferenceIsBounded
  <2>4. n * x = (n - 1) * p + c
    BY <1>9
  <2> HIDE DEF p, x, d, l
  <2>5. c \in Nat
    BY <1>3, <2>2
  <2> HIDE DEF c
  <2>6. Distance(c, x) <= (n - 1) * d
    BY <1>4, <2>2, <2>3, <2>4, <2>5, LastLoadsAreNear
  <2> QED BY <2>1, <2>6 DEF c, x, l
<1>17. LastFits'
  BY <1>1, <1>6 DEF LastFits
<1>18. FailsUncovered' /\ ReportsTheLast'
  BY <1>11 DEF FailsUncovered, ReportsTheLast
<1> QED BY <1>12, <1>13, <1>14, <1>15, <1>16, <1>17, <1>18 DEF IInv

------------------------------------------------------------------------------
(* Prefix sums                                                             *)

\* The positions of a trip that have a capacity.
LEMMA PositionsTyped ==
    ASSUME ConstantsAssumption, Given, NEW trip
    PROVE  /\ IsFiniteSet(TripPositions(trip)) /\ TripPositions(trip) \subseteq Nat
           /\ \A x : x \in TripPositions(trip) <=> <<trip, x>> \in DOMAIN capacity
<1> DEFINE D == {j \in DOMAIN capacity : j[1] = trip}
           h == [i \in D |-> i[2]]
<1>1. IsFiniteSet(DOMAIN capacity) /\ DOMAIN capacity \subseteq Nat \X Nat
  BY CapacityTyped DEF Given
<1>2. IsFiniteSet(D)
  BY <1>1, FS_Subset
<1>3. TripPositions(trip) = {h[i] : i \in D}
  BY DEF TripPositions
<1>4. \A i \in D : h[i] = i[2] /\ i[2] \in Nat /\ i = <<trip, i[2]>>
  BY <1>1
<1>5. \A x : <<trip, x>> \in DOMAIN capacity => <<trip, x>> \in D /\ <<trip, x>>[2] = x
  OBVIOUS
<1>6. \A i \in D : i \in DOMAIN capacity
  OBVIOUS
<1> HIDE DEF D, h
<1>7. IsFiniteSet({h[i] : i \in D})
  BY <1>2, ImageIsFinite
<1>8. ASSUME NEW x
      PROVE  x \in {h[i] : i \in D} <=> <<trip, x>> \in DOMAIN capacity
  BY <1>4, <1>5, <1>6
<1>9. {h[i] : i \in D} \subseteq Nat
  BY <1>4
<1> QED BY <1>3, <1>7, <1>8, <1>9

\* A position lies before another one where its place in the order does.
LEMMA LowerBoundOrders ==
    ASSUME NEW positions, IsFiniteSet(positions), positions \subseteq Nat, NEW x \in Nat
    PROVE  {j \in positions : LowerBound(positions, j) < LowerBound(positions, x)}
              = {j \in positions : j < x}
<1> DEFINE Before(y) == {k \in positions : k < y}
<1>1. ASSUME NEW y
      PROVE  /\ IsFiniteSet(Before(y)) /\ Cardinality(Before(y)) \in Nat
             /\ LowerBound(positions, y) = Cardinality(Before(y))
  <2>1. IsFiniteSet(Before(y))
    BY FS_Subset
  <2> QED BY <2>1, FS_CardinalityType DEF LowerBound
<1>2. ASSUME NEW j \in positions, j < x
      PROVE  LowerBound(positions, j) < LowerBound(positions, x)
  <2>0. j \in Nat /\ \A k \in positions : k \in Nat
    OBVIOUS
  <2>1. Before(j) \subseteq Before(x) /\ j \in Before(x) /\ j \notin Before(j)
    <3>1. \A k \in positions : k < j => k < x
      BY <1>2, <2>0
    <3>2. ~ (j < j)
      BY <2>0
    <3> QED BY <1>2, <3>1, <3>2
  <2>2. Before(j) # Before(x)
    BY <2>1
  <2> HIDE DEF Before
  <2>3. /\ Cardinality(Before(j)) <= Cardinality(Before(x))
        /\ Cardinality(Before(x)) = Cardinality(Before(j)) => Before(x) = Before(j)
    BY <1>1, <2>1, FS_Subset
  <2> QED BY <1>1, <2>2, <2>3
<1>3. ASSUME NEW j \in positions, ~ (j < x)
      PROVE  ~ (LowerBound(positions, j) < LowerBound(positions, x))
  <2>0. j \in Nat /\ \A k \in positions : k \in Nat
    OBVIOUS
  <2>1. Before(x) \subseteq Before(j)
    <3>1. \A k \in positions : k < x => k < j
      BY <1>3, <2>0
    <3> QED BY <3>1
  <2> HIDE DEF Before
  <2>2. Cardinality(Before(x)) <= Cardinality(Before(j))
    BY <1>1, <2>1, FS_Subset
  <2> QED BY <1>1, <2>2
<1> QED BY <1>2, <1>3

\* A ride through covered items passes positions that the index has.
LEMMA RideIsIndexed ==
    ASSUME ConstantsAssumption, Given, NEW leg, IsRide(leg), Covered(Items(leg))
    PROVE  /\ leg.from .. leg.to - 1 \subseteq TripPositions(leg.trip)
           /\ RangeIsCovered(leg)
<1> DEFINE positions == TripPositions(leg.trip)
           D == leg.from .. leg.to - 1
           Before(y) == {k \in positions : k < y}
<1>1. leg.from \in Nat /\ leg.to \in Nat /\ leg.from < leg.to
  BY DEF IsRide
<1>2. /\ IsFiniteSet(positions) /\ positions \subseteq Nat
      /\ \A x : x \in positions <=> <<leg.trip, x>> \in DOMAIN capacity
  BY PositionsTyped
<1>3. D \subseteq positions
  <2>1. \A i \in Items(leg) : i \in DOMAIN capacity
    BY CapacityTyped DEF Given
  <2>2. \A x \in D : <<leg.trip, x>> \in Items(leg)
    BY DEF Items
  <2> QED BY <1>2, <2>1, <2>2
<1> HIDE DEF positions
<1>4. /\ Before(leg.to) = Before(leg.from) \cup D
      /\ Before(leg.from) \cap D = {}
  <2>1. \A k \in positions : k \in Nat
    BY <1>2
  <2>2. \A k \in D : k \in Nat /\ k < leg.to /\ ~ (k < leg.from)
    BY <1>1
  <2>3. \A k \in positions : k < leg.to /\ ~ (k < leg.from) => k \in D
    BY <1>1, <2>1
  <2>4. \A k \in positions : k < leg.from => k < leg.to
    BY <1>1, <2>1
  <2> HIDE DEF D
  <2> QED BY <1>3, <2>2, <2>3, <2>4
<1>5. /\ IsFiniteSet(D) /\ Cardinality(D) = leg.to - leg.from
  <2>1. leg.from \in Int /\ leg.to - 1 \in Int /\ ~ (leg.from > leg.to - 1)
    BY <1>1
  <2>2. Cardinality(D) = leg.to - 1 - leg.from + 1
    BY <2>1, FS_Interval
  <2>3. IsFiniteSet(D)
    BY <2>1, FS_Interval
  <2> HIDE DEF D
  <2> QED BY <1>1, <2>2, <2>3
<1>6. IsFiniteSet(Before(leg.from))
  BY <1>2, FS_Subset
<1> HIDE DEF Before, D
<1>7. Cardinality(Before(leg.to)) = Cardinality(Before(leg.from)) + Cardinality(D)
  <2>1. Cardinality(Before(leg.from) \cup D)
          = Cardinality(Before(leg.from)) + Cardinality(D)
              - Cardinality(Before(leg.from) \cap D)
    BY <1>5, <1>6, FS_Union
  <2>2. Cardinality(Before(leg.from) \cap D) = 0
    BY <1>4, FS_EmptySet
  <2>3. Cardinality(Before(leg.from)) \in Nat /\ Cardinality(D) \in Nat
    BY <1>5, <1>6, FS_CardinalityType
  <2> QED BY <1>4, <2>1, <2>2, <2>3
<1>8. Cardinality(Before(leg.from)) \in Nat
  BY <1>6, FS_CardinalityType
<1>9. Cardinality(Before(leg.to)) - Cardinality(Before(leg.from)) = leg.to - leg.from
  BY <1>1, <1>5, <1>7, <1>8
<1>10. RangeIsCovered(leg)
  BY <1>9 DEF RangeIsCovered, LowerBound, Before, positions
<1> QED BY <1>3, <1>10 DEF D, positions

\* What a difference of prefix sums charges for a ride is what its items cost.
LEMMA PrefixesAddUp ==
    ASSUME ConstantsAssumption, Given, IndexIsBuilt,
           NEW a, NEW leg, IsRide(leg), Covered(Items(leg))
    PROVE  PenaltySum(a, leg) = Total([i \in Items(leg) |-> Penalty(a, i)])
<1> DEFINE f == [i \in Items(leg) |-> Penalty(a, i)]
           trip == leg.trip
           positions == TripPositions(trip)
           g == [k \in positions |-> Penalty(a, <<trip, k>>)]
           D == leg.from .. leg.to - 1
           Until(x) == {k \in positions : k < x}
<1>1. leg.from \in Nat /\ leg.to \in Nat /\ leg.from < leg.to
  BY DEF IsRide
<1>2. /\ IsFiniteSet(positions) /\ positions \subseteq Nat
      /\ \A x : x \in positions <=> <<trip, x>> \in DOMAIN capacity
  BY PositionsTyped
<1>3. D \subseteq positions
  BY RideIsIndexed
<1>4. Summable(f) /\ DOMAIN f = Items(leg) /\ Total(f) = Part(f, Items(leg))
  BY RideCostIsInteger DEF Part
<1>5. CASE a \notin LoadedIntervals
  <2>1. PenaltySum(a, leg) = 0
    BY <1>5 DEF PenaltySum
  <2>2. \A i \in Items(leg) : f[i] = 0
    <3>1. ASSUME NEW i \in Items(leg)
          PROVE  Penalty(a, i) = 0
      <4>1. i \in DOMAIN capacity /\ capacity[i] \in Nat \ {0}
        BY CapacityTyped DEF Given
      <4>2. <<a, i>> \notin DOMAIN load_state
        <5>1. <<a, i>>[1] = a
          OBVIOUS
        <5> QED BY <1>5, <5>1 DEF LoadedIntervals
      <4>3. At(load_state, <<a, i>>) = 0
        BY <4>2 DEF At
      <4> QED BY <4>1, <4>3, PenaltyIsNatural
    <3> QED BY <3>1
  <2> HIDE DEF f
  <2>3. Part(f, Items(leg)) = 0
    BY <1>4, <2>2, SumOfZeros
  <2> QED BY <1>4, <2>1, <2>3 DEF f
<1>6. CASE a \in LoadedIntervals
  <2>1. Covered(DOMAIN capacity)
    BY <1>6 DEF IndexIsBuilt
  <2>2. \A k \in positions : Penalty(a, <<trip, k>>) \in Int
    <3> SUFFICES ASSUME NEW k \in positions
                 PROVE  Penalty(a, <<trip, k>>) \in Int
      OBVIOUS
    <3>1. <<trip, k>> \in DOMAIN capacity
      BY <1>2
    <3>2. capacity[<<trip, k>>] \in Nat \ {0}
      BY <2>1, <3>1, CapacityTyped DEF Given
    <3>3. Penalty(a, <<trip, k>>) \in Nat
      BY <3>1, <3>2, PenaltyIsNatural
    <3> QED BY <3>3
  <2>3. Summable(g) /\ DOMAIN g = positions
    BY <1>2, <2>2 DEF Summable
  <2>4. ASSUME NEW x \in Nat
        PROVE  Prefix(a, trip, LowerBound(positions, x)) = Part(g, Until(x))
    <3>1. {j \in positions : LowerBound(positions, j) < LowerBound(positions, x)} = Until(x)
      <4> HIDE DEF positions
      <4> QED BY <1>2, LowerBoundOrders
    <3>2. [k \in Until(x) |-> g[k]] = [k \in Until(x) |-> Penalty(a, <<trip, k>>)]
      OBVIOUS
    <3> HIDE DEF Until, g
    <3> QED BY <3>1, <3>2 DEF Prefix, Part
  <2>5. PenaltySum(a, leg) = Part(g, Until(leg.to)) - Part(g, Until(leg.from))
    BY <1>1, <1>6, <2>4 DEF PenaltySum
  <2>6. /\ Until(leg.to) = Until(leg.from) \cup D /\ Until(leg.from) \cap D = {}
        /\ Until(leg.from) \subseteq positions
    <3>1. \A k \in positions : k \in Nat
      BY <1>2
    <3>2. \A k \in D : k < leg.to /\ ~ (k < leg.from)
      BY <1>1
    <3>3. \A k \in positions : k < leg.to /\ ~ (k < leg.from) => k \in D
      BY <1>1, <3>1
    <3>4. \A k \in positions : k < leg.from => k < leg.to
      BY <1>1, <3>1
    <3> HIDE DEF D, positions
    <3> QED BY <1>3, <3>2, <3>3, <3>4
  <2>7. /\ Part(g, Until(leg.to)) = Part(g, Until(leg.from)) + Part(g, D)
        /\ Part(g, Until(leg.from)) \in Int /\ Part(g, D) \in Int
    <3> HIDE DEF g, Until, D, positions
    <3>1. Until(leg.from) \cup D \subseteq DOMAIN g
      BY <1>3, <2>3, <2>6
    <3>2. Part(g, Until(leg.from) \cup D) = Part(g, Until(leg.from)) + Part(g, D)
      BY <2>3, <2>6, <3>1, SumsSplit
    <3>3. Until(leg.from) \in SUBSET DOMAIN g /\ D \in SUBSET DOMAIN g
      BY <3>1
    <3>4. Part(g, Until(leg.from)) \in Int /\ Part(g, D) \in Int
      BY <2>3, <3>3, Sums
    <3> QED BY <2>6, <3>2, <3>4
  <2>8. Part(g, D) = Part(f, Items(leg))
    <3> DEFINE h == [k \in D |-> <<trip, k>>]
    <3>1. Items(leg) = {h[k] : k \in D}
      BY DEF Items
    <3>2. \A k \in D : h[k] \in DOMAIN f /\ f[h[k]] = g[k]
      BY <1>3, <1>4, <3>1
    <3>3. \A x, y \in D : h[x] = h[y] => x = y
      OBVIOUS
    <3>4. D \subseteq DOMAIN g
      BY <1>3, <2>3
    <3> HIDE DEF h, g, f, D
    <3>5. Part(g, D) = Part(f, {h[k] : k \in D})
      BY <1>4, <2>3, <3>2, <3>3, <3>4, SumsReindex
    <3> QED BY <3>1, <3>5
  <2> HIDE DEF f, g, D, Until
  <2>9. PenaltySum(a, leg) = Part(f, Items(leg))
    BY <2>5, <2>7, <2>8
  <2> QED BY <1>4, <2>9 DEF f
<1> QED BY <1>5, <1>6

\* Search and split charge a connection the same.
LEMMA SameCost ==
    ASSUME ConstantsAssumption, Given, IndexIsBuilt,
           NEW k \in DOMAIN Entries, NEW n \in DOMAIN Entries[k].connections, NEW a,
           Covered(ItemsOf(Entries[k].connections[n]))
    PROVE  Exposure(Entries[k].connections[n], a)
              = SearchExposure(Entries[k].connections[n], a)
<1> DEFINE c == Entries[k].connections[n]
           legs == c.legs
           charge(x, l) == (legs[l].duration * x)
                              \div (Unit * (legs[l].to - legs[l].from))
           paid == [l \in DOMAIN legs |->
                      charge(Total([i \in Items(legs[l]) |-> Penalty(a, i)]), l)]
           asked == [l \in DOMAIN legs |-> charge(PenaltySum(a, legs[l]), l)]
<1>1. \A l \in DOMAIN legs : IsRide(legs[l]) /\ Covered(Items(legs[l]))
  BY EntryTyped DEF Covered, ItemsOf
<1>2. \A l \in DOMAIN legs :
        PenaltySum(a, legs[l]) = Total([i \in Items(legs[l]) |-> Penalty(a, i)])
  BY <1>1, PrefixesAddUp
<1>3. Exposure(c, a) = Total(paid) /\ SearchExposure(c, a) = Total(asked)
  BY DEF Exposure, SearchExposure
<1> HIDE DEF legs
<1>4. paid = asked
  BY <1>2
<1>5. Exposure(c, a) = SearchExposure(c, a)
  BY <1>3, <1>4
<1> QED BY <1>5

\* Nothing fails where every item has a capacity.
LEMMA CoveredSucceeds ==
    ASSUME ConstantsAssumption, Given, Covered(Everything)
    PROVE  SearchSucceeds /\ SplitSucceeds
<1>1. ASSUME NEW k \in DOMAIN Entries, NEW n \in DOMAIN Entries[k].connections
      PROVE  Covered(ItemsOf(Entries[k].connections[n]))
  <2>1. Entries[k].connections[n] \in Range(Entries[k].connections)
    BY DEF Range
  <2>2. ItemsOf(Entries[k].connections[n]) \subseteq Everything
    BY <2>1 DEF Everything
  <2> QED BY <2>2 DEF Covered
<1>2. SplitSucceeds
  BY <1>1 DEF SplitSucceeds, Chosen
<1>3. Covered(DOMAIN capacity)
  BY DEF Covered, Everything
<1>4. ASSUME NEW k \in DOMAIN Entries, NEW c \in Range(Entries[k].connections),
             NEW l \in DOMAIN c.legs
      PROVE  RangeIsCovered(c.legs[l])
  <2>1. PICK n \in DOMAIN Entries[k].connections : c = Entries[k].connections[n]
    BY <1>4 DEF Range
  <2>2. IsRide(c.legs[l])
    BY <2>1, EntryTyped
  <2>3. Covered(Items(c.legs[l]))
    BY <1>1, <2>1 DEF Covered, ItemsOf
  <2> QED BY <2>2, <2>3, RideIsIndexed
<1>5. SearchSucceeds
  BY <1>3, <1>4 DEF SearchSucceeds, IndexIsBuilt
<1> QED BY <1>2, <1>5

------------------------------------------------------------------------------
(* The assessment                                                          *)

\* What is asked of the loads that are assessed.
Assessed(loads) ==
    /\ Loaded(loads) /\ loads = [k \in DOMAIN loads |-> loads[k]]
    /\ DOMAIN loads \subseteq (DOMAIN IntervalOf) \X (Nat \X Nat)

\* A key has one row, and no more than one.
LEMMA RowsByKey ==
    ASSUME NEW loads, Assessed(loads)
    PROVE  /\ \A r, s \in Assessment(loads) : r.key = s.key => r = s
           /\ \A k \in DOMAIN loads : \E r \in Assessment(loads) :
                r.key = k /\ r.passengers = loads[k]
           /\ \A r \in Assessment(loads) : r.passengers = At(loads, r.key)
<1> DEFINE row(a, i) == [key |-> <<a, i>>, passengers |-> At(loads, <<a, i>>),
                         excess |-> AtLeast(0, At(loads, <<a, i>>) - capacity[i]),
                         status |-> OverloadStatus(At(loads, <<a, i>>), capacity[i])]
           bare(k) == [key |-> k, passengers |-> loads[k], excess |-> 0,
                       status |-> "MissingCapacity"]
           S == {row(a, i) : a \in DOMAIN IntervalOf, i \in DOMAIN capacity}
           B == {bare(k) : k \in {x \in DOMAIN loads : x[2] \notin DOMAIN capacity}}
<1>1. Assessment(loads) = S \cup B
  BY DEF Assessment
<1>2. ASSUME NEW r \in S
      PROVE  /\ r.key[2] \in DOMAIN capacity /\ r.passengers = At(loads, r.key)
             /\ r = row(r.key[1], r.key[2])
  <2>1. PICK a \in DOMAIN IntervalOf, i \in DOMAIN capacity : r = row(a, i)
    BY <1>2
  <2>2. r.key = <<a, i>> /\ r.passengers = At(loads, <<a, i>>)
    BY <2>1
  <2>3. r.key[1] = a /\ r.key[2] = i
    BY <2>2
  <2> HIDE DEF row
  <2> QED BY <2>1, <2>2, <2>3
<1>3. ASSUME NEW r \in B
      PROVE  /\ r.key \in DOMAIN loads /\ r.key[2] \notin DOMAIN capacity
             /\ r = bare(r.key) /\ r.passengers = loads[r.key]
  BY <1>3
<1>4. \A r \in B : r.passengers = At(loads, r.key)
  BY <1>3 DEF At
<1>5. ASSUME NEW k \in DOMAIN loads
      PROVE  \E r \in S \cup B : r.key = k /\ r.passengers = loads[k]
  <2>1. k[1] \in DOMAIN IntervalOf /\ k = <<k[1], k[2]>>
    BY DEF Assessed
  <2>2. CASE k[2] \in DOMAIN capacity
    <3>1. row(k[1], k[2]) \in S
      <4> HIDE DEF row
      <4> QED BY <2>1, <2>2
    <3>2. row(k[1], k[2]).key = k /\ row(k[1], k[2]).passengers = loads[k]
      BY <2>1 DEF At
    <3> HIDE DEF row, S
    <3> QED BY <3>1, <3>2
  <2>3. CASE k[2] \notin DOMAIN capacity
    <3>1. bare(k) \in B
      BY <2>3
    <3>2. bare(k).key = k /\ bare(k).passengers = loads[k]
      OBVIOUS
    <3> HIDE DEF bare, B
    <3> QED BY <3>1, <3>2
  <2> HIDE DEF S, B
  <2> QED BY <2>2, <2>3
<1> HIDE DEF S, B, row, bare
<1>6. \A r, s \in S \cup B : r.key = s.key => r = s
  <2> SUFFICES ASSUME NEW r \in S \cup B, NEW s \in S \cup B, r.key = s.key
               PROVE  r = s
    OBVIOUS
  <2>1. CASE r \in S /\ s \in S
    BY <1>2, <2>1
  <2>2. CASE r \in B /\ s \in B
    BY <1>3, <2>2
  <2>3. CASE r \in S /\ s \in B
    BY <1>2, <1>3, <2>3
  <2>4. CASE r \in B /\ s \in S
    BY <1>2, <1>3, <2>4
  <2> QED BY <2>1, <2>2, <2>3, <2>4
<1> QED BY <1>1, <1>2, <1>4, <1>5, <1>6

\* The rows are as many as the keys.
LEMMA RowsAreFinite ==
    ASSUME ConstantsAssumption, capacity \in CapacitySets, NEW loads, Loaded(loads)
    PROVE  IsFiniteSet(Assessment(loads))
<1> DEFINE row(a, i) == [key |-> <<a, i>>, passengers |-> At(loads, <<a, i>>),
                         excess |-> AtLeast(0, At(loads, <<a, i>>) - capacity[i]),
                         status |-> OverloadStatus(At(loads, <<a, i>>), capacity[i])]
           bare(k) == [key |-> k, passengers |-> loads[k], excess |-> 0,
                       status |-> "MissingCapacity"]
           P == (DOMAIN IntervalOf) \X DOMAIN capacity
           M == {x \in DOMAIN loads : x[2] \notin DOMAIN capacity}
           g == [p \in P |-> row(p[1], p[2])]
           h == [k \in M |-> bare(k)]
<1>1. IsFiniteSet(P) /\ IsFiniteSet(M)
  <2>1. IsFiniteSet(DOMAIN IntervalOf)
    BY DEF ConstantsAssumption
  <2>2. IsFiniteSet(DOMAIN capacity)
    BY CapacityTyped
  <2>3. IsFiniteSet(P)
    BY <2>1, <2>2, FS_Product
  <2>4. IsFiniteSet(M)
    BY FS_Subset DEF Loaded
  <2> QED BY <2>3, <2>4
<1>2. Assessment(loads) = {row(a, i) : a \in DOMAIN IntervalOf, i \in DOMAIN capacity}
                            \cup {bare(k) : k \in M}
  BY DEF Assessment
<1>3. {row(a, i) : a \in DOMAIN IntervalOf, i \in DOMAIN capacity} = {g[p] : p \in P}
  <2>1. \A a \in DOMAIN IntervalOf, i \in DOMAIN capacity :
          <<a, i>> \in P /\ g[<<a, i>>] = row(a, i)
    OBVIOUS
  <2>2. \A p \in P : /\ p[1] \in DOMAIN IntervalOf /\ p[2] \in DOMAIN capacity
                     /\ g[p] = row(p[1], p[2])
    OBVIOUS
  <2> HIDE DEF g, P, row
  <2>3. ASSUME NEW r \in {row(a, i) : a \in DOMAIN IntervalOf, i \in DOMAIN capacity}
        PROVE  r \in {g[p] : p \in P}
    <3>1. PICK a \in DOMAIN IntervalOf, i \in DOMAIN capacity : r = row(a, i)
      BY <2>3
    <3>2. <<a, i>> \in P /\ g[<<a, i>>] = r
      BY <2>1, <3>1
    <3> QED BY <3>2
  <2>4. ASSUME NEW p \in P
        PROVE  g[p] \in {row(a, i) : a \in DOMAIN IntervalOf, i \in DOMAIN capacity}
    BY <2>2
  <2> QED BY <2>3, <2>4
<1>4. {bare(k) : k \in M} = {h[k] : k \in M}
  <2>1. \A k \in M : h[k] = bare(k)
    OBVIOUS
  <2> HIDE DEF M, h, bare
  <2> QED BY <2>1
<1> DEFINE S == {row(a, i) : a \in DOMAIN IntervalOf, i \in DOMAIN capacity}
           B == {bare(k) : k \in M}
           G == {g[p] : p \in P}
           H == {h[k] : k \in M}
<1>6. Assessment(loads) = G \cup H
  <2>1. Assessment(loads) = S \cup B
    BY <1>2
  <2>2. S = G
    <3> HIDE DEF row, g, P
    <3> QED BY <1>3
  <2>3. B = H
    BY <1>4
  <2> HIDE DEF S, B, G, H
  <2> QED BY <2>1, <2>2, <2>3
<1> HIDE DEF P, M, g, h, row, bare
<1>5. IsFiniteSet({g[p] : p \in P}) /\ IsFiniteSet({h[k] : k \in M})
  BY <1>1, ImageIsFinite
<1>7. IsFiniteSet(G) /\ IsFiniteSet(H)
  BY <1>5
<1> HIDE DEF G, H
<1> QED BY <1>6, <1>7, FS_Union

\* Every passenger of the loads is in one row.
LEMMA RowsAddUp ==
    ASSUME ConstantsAssumption, capacity \in CapacitySets, NEW loads, Assessed(loads)
    PROVE  Total([r \in Assessment(loads) |-> r.passengers]) = Total(loads)
<1> DEFINE R == Assessment(loads)
           f == [r \in R |-> r.passengers]
           h == [r \in R |-> r.key]
           K == {h[r] : r \in R}
           g == [k \in K |-> At(loads, k)]
           D == DOMAIN loads
<1>1. /\ Loaded(loads) /\ IsFiniteSet(D)
      /\ \A k : At(loads, k) \in Nat
      /\ loads = [k \in D |-> loads[k]]
  BY AtIsNatural DEF Assessed, Loaded
<1>2. /\ IsFiniteSet(R)
      /\ \A r, s \in R : r.key = s.key => r = s
      /\ \A k \in D : \E r \in R : r.key = k
      /\ \A r \in R : r.passengers = At(loads, r.key)
  BY <1>1, RowsAreFinite, RowsByKey
<1> HIDE DEF R
<1>3. Summable(f) /\ DOMAIN f = R
  BY <1>1, <1>2 DEF Summable
<1>4. IsFiniteSet(K) /\ D \subseteq K
  <2>1. D \subseteq K
    BY <1>2
  <2> HIDE DEF h
  <2> QED BY <1>2, <2>1, ImageIsFinite
<1>5. Summable(g) /\ DOMAIN g = K
  <2> HIDE DEF K
  <2> QED BY <1>1, <1>4 DEF Summable
<1>6. Part(f, R) = Part(g, K)
  <2>1. \A r \in R : h[r] \in DOMAIN g /\ g[h[r]] = f[r]
    BY <1>2
  <2>2. \A r, s \in R : h[r] = h[s] => r = s
    BY <1>2
  <2> HIDE DEF f, g, h
  <2>3. Part(f, R) = Part(g, {h[r] : r \in R})
    BY <1>3, <1>5, <2>1, <2>2, SumsReindex
  <2> QED BY <2>3
<1>7. Part(g, K) = Part(g, D)
  <2> DEFINE Rest == K \ D
  <2>1. \A k \in Rest : g[k] = 0
    BY DEF At
  <2>2. D \cup Rest = K /\ D \cap Rest = {} /\ Rest \subseteq K
    BY <1>4
  <2> HIDE DEF g, K, Rest
  <2>3. Part(g, D \cup Rest) = Part(g, D) + Part(g, Rest)
    BY <1>5, <2>2, SumsSplit
  <2>4. Part(g, Rest) = 0
    BY <1>5, <2>1, <2>2, SumOfZeros
  <2>5. D \in SUBSET DOMAIN g
    BY <1>4, <1>5
  <2>6. Part(g, D) \in Int
    BY <1>5, <2>5, Sums
  <2> QED BY <2>2, <2>3, <2>4, <2>6
<1>8. Part(g, D) = Part(loads, D)
  <2>1. \A k \in D : g[k] = loads[k]
    BY <1>4 DEF At
  <2> HIDE DEF g, D
  <2> QED BY <2>1, EqualSums
<1>9. Total(f) = Part(f, R) /\ Total(loads) = Part(loads, D)
  <2>1. Part(f, R) = Total(f)
    BY DEF Part
  <2>2. Part(loads, D) = Total([k \in D |-> loads[k]])
    BY DEF Part
  <2> QED BY <1>1, <2>1, <2>2
<1> QED BY <1>6, <1>7, <1>8, <1>9 DEF R

------------------------------------------------------------------------------
(* What the two properties say, of all constants                           *)

\* Iterate fails where an item has no capacity, and not before.
LEMMA FailureKeeps ==
    ASSUME ConstantsAssumption, IInv, Iterate, ~ (SearchSucceeds /\ SplitSucceeds)
    PROVE  IInv'
<1>1. /\ status = "iterating" /\ status' = "failed"
      /\ UNCHANGED <<mode, policy, capacity, iteration, load_state, candidate, total,
                     delta, converged, rows>>
  BY DEF Iterate
<1>2. Given
  BY DEF IInv, StateTyped, Given
<1>3. ~ Covered(Everything)
  BY <1>2, CoveredSucceeds
<1>4. StateTyped' /\ EndsInTime'
  BY <1>1 DEF IInv, StateTyped, EndsInTime, Loaded
<1>5. MeanOfAll' /\ OnlyLoads' /\ LastIsNear'
  BY <1>1 DEF IInv, MeanOfAll, OnlyLoads, LastIsNear, Keys, At, Distance
<1>6. LastFits'
  BY <1>1 DEF IInv, LastFits, At
<1>7. FailsUncovered' /\ ReportsTheLast'
  BY <1>1, <1>3 DEF FailsUncovered, ReportsTheLast, Everything, Covered, At
<1> QED BY <1>4, <1>5, <1>6, <1>7 DEF IInv

LEMMA ReportKeeps == ASSUME ConstantsAssumption, IInv, Report PROVE IInv'
<1>1. /\ status = "stopped"
      /\ UNCHANGED <<mode, policy, capacity, iteration, load_state, candidate, total,
                     delta, converged>>
  BY DEF Report
<1>2. status' = "reported" /\ rows' = Assessment(candidate)
  BY <1>1 DEF Report, IInv, EndsInTime
<1>3. StateTyped' /\ EndsInTime'
  BY <1>1, <1>2 DEF IInv, StateTyped, EndsInTime, Loaded
<1>4. MeanOfAll' /\ OnlyLoads' /\ LastIsNear'
  BY <1>1 DEF IInv, MeanOfAll, OnlyLoads, LastIsNear, Keys, At, Distance
<1>5. LastFits'
  BY <1>1 DEF IInv, LastFits, At
<1>6. FailsUncovered' /\ ReportsTheLast'
  BY <1>1, <1>2 DEF FailsUncovered, ReportsTheLast, Assessment, At
<1> QED BY <1>3, <1>4, <1>5, <1>6 DEF IInv

LEMMA Consecution == ASSUME ConstantsAssumption, IInv, [Next]_vars PROVE IInv'
<1>1. CASE Iterate
  BY <1>1, IterateKeeps, FailureKeeps
<1>2. CASE Report
  BY <1>2, ReportKeeps
<1>3. CASE UNCHANGED vars
  <2>1. StateTyped' /\ EndsInTime'
    BY <1>3 DEF vars, IInv, StateTyped, EndsInTime, Loaded
  <2>2. MeanOfAll' /\ OnlyLoads' /\ LastIsNear'
    BY <1>3 DEF vars, IInv, MeanOfAll, OnlyLoads, LastIsNear, Keys, At, Distance
  <2>3. LastFits'
    BY <1>3 DEF vars, IInv, LastFits, At
  <2>5. ReportsTheLast'
    <3>1. Assessment(candidate)' = Assessment(candidate)
      BY <1>3 DEF vars, Assessment, At
    <3>2. ReportsTheLast /\ rows' = rows /\ status' = status
      BY <1>3 DEF vars, IInv
    <3> QED BY <3>1, <3>2 DEF ReportsTheLast
  <2>4. FailsUncovered'
    BY <1>3 DEF vars, IInv, FailsUncovered, Everything, Covered, At
  <2> QED BY <2>1, <2>2, <2>3, <2>4, <2>5 DEF IInv
<1> QED BY <1>1, <1>2, <1>3 DEF Next

\* The load state an iteration works under is the mean of all candidates
\* before it, and the loads returned at the end lie no further from it than
\* iteration - 1 times the last change (msa_update_load_state,
\* load_state_delta, iterate_capacity_aware_split).
THEOREM MeanOfTheCandidates ==
    ASSUME ConstantsAssumption PROVE Spec => []LoadStateIsMean
<1>1. Init => IInv
  BY Initially
<1>2. IInv /\ [Next]_vars => IInv'
  BY Consecution
<1>3. IInv => LoadStateIsMean
  BY DEF IInv, LoadStateIsMean, MeanOfAll, OnlyLoads, LastIsNear
<1> QED BY <1>1, <1>2, <1>3, PTL DEF Spec

\* Search and split charge a connection the same, a run fails only where a
\* capacity is missing, and the assessment has each load in one row
\* (search_capacity_penalty_sum, accumulate_ride_leg_capacity_exposure,
\* validate_capacity_coverage, assess_vehicle_journey_item_overload).
THEOREM OneCostForBoth ==
    ASSUME ConstantsAssumption PROVE Spec => []OneCostPerIteration
<1>1. Init => IInv
  BY Initially
<1>2. IInv /\ [Next]_vars => IInv'
  BY Consecution
<1>3. ASSUME IInv
      PROVE  OneCostPerIteration
  <2>1. Given /\ capacity \in CapacitySets
    BY <1>3 DEF IInv, StateTyped, Given
  <2>2. ASSUME IndexIsBuilt, NEW k \in DOMAIN Entries,
               NEW c \in Range(Entries[k].connections), Covered(ItemsOf(c))
        PROVE  Exposure(c, Entries[k].interval) = SearchExposure(c, Entries[k].interval)
    <3>1. PICK n \in DOMAIN Entries[k].connections : c = Entries[k].connections[n]
      BY <2>2 DEF Range
    <3>2. Covered(ItemsOf(Entries[k].connections[n]))
      BY <2>2, <3>1
    <3>3. Exposure(Entries[k].connections[n], Entries[k].interval)
            = SearchExposure(Entries[k].connections[n], Entries[k].interval)
      BY <1>3, <2>1, <2>2, <3>2, SameCost
    <3> QED BY <3>1, <3>3
  <2>3. status = "failed" => ~ Covered(Everything)
    BY <1>3 DEF IInv, FailsUncovered
  <2>4. ASSUME status = "reported"
        PROVE  /\ \A r, s \in rows : r.key = s.key => r = s
               /\ \A k \in DOMAIN candidate : \E r \in rows :
                     r.key = k /\ r.passengers = candidate[k]
               /\ Total([r \in rows |-> r.passengers]) = Total(candidate)
               /\ mode.split => \A r \in rows :
                     r.status = "ZeroCapacity" => r.passengers = 0
    <3>1. rows = Assessment(candidate)
      BY <1>3, <2>4 DEF IInv, ReportsTheLast
    <3>2. Assessed(candidate)
      BY <1>3 DEF IInv, StateTyped, LastFits, Assessed
    <3>3. Total([r \in Assessment(candidate) |-> r.passengers]) = Total(candidate)
      BY <1>3, <2>1, <3>2, RowsAddUp
    <3>4. ASSUME mode.split, NEW r \in Assessment(candidate), r.status = "ZeroCapacity"
          PROVE  r.passengers = 0
      <4>1. PICK a \in DOMAIN IntervalOf, i \in DOMAIN capacity :
              /\ r.passengers = At(candidate, <<a, i>>)
              /\ r.status = OverloadStatus(At(candidate, <<a, i>>), capacity[i])
        <5> DEFINE row(a, i) ==
                     [key |-> <<a, i>>, passengers |-> At(candidate, <<a, i>>),
                      excess |-> AtLeast(0, At(candidate, <<a, i>>) - capacity[i]),
                      status |-> OverloadStatus(At(candidate, <<a, i>>), capacity[i])]
                   bare(k) == [key |-> k, passengers |-> candidate[k], excess |-> 0,
                               status |-> "MissingCapacity"]
                   S == {row(a, i) : a \in DOMAIN IntervalOf, i \in DOMAIN capacity}
                   B == {bare(k) : k \in {x \in DOMAIN candidate :
                                               x[2] \notin DOMAIN capacity}}
        <5>1. r \in S \/ r \in B
          BY <3>4 DEF Assessment
        <5>2. r \notin B
          BY <3>4
        <5>3. r \in S
          <6> HIDE DEF S, B
          <6> QED BY <5>1, <5>2
        <5>4. PICK a \in DOMAIN IntervalOf, i \in DOMAIN capacity : r = row(a, i)
          <6> HIDE DEF row
          <6> QED BY <5>3
        <5>5. /\ r.passengers = At(candidate, <<a, i>>)
              /\ r.status = OverloadStatus(At(candidate, <<a, i>>), capacity[i])
          BY <5>4
        <5> QED BY <5>5
      <4>2. capacity[i] = 0
        BY <3>4, <4>1 DEF OverloadStatus
      <4>3. <<a, i>> \notin DOMAIN candidate
        <5>1. ~ (At(capacity, i) > 0)
          BY <4>2 DEF At
        <5> QED BY <1>3, <3>4, <5>1 DEF IInv, LastFits
      <4> QED BY <4>1, <4>3 DEF At
    <3> QED BY <3>1, <3>2, <3>3, <3>4, RowsByKey
  <2> QED BY <2>2, <2>3, <2>4 DEF OneCostPerIteration, Everything
<1> QED BY <1>1, <1>2, <1>3, PTL DEF Spec

==============================================================================
