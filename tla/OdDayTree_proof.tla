--------------------------- MODULE OdDayTree_proof ---------------------------
(***************************************************************************)
(* Proofs about OdDayTree, for every supply, every set of zones and stops, *)
(* every tolerance and every threshold of compaction; and, first, about    *)
(* the algebra of C_y it is built on: what a selection leaves of a         *)
(* sequence, and that the operations on one connection set keep it what    *)
(* its class comment promises.                                             *)
(***************************************************************************)
EXTENDS OdDayTree, FiniteSetTheorems, SequenceTheorems, TLAPS

(***************************************************************************)
(* Induction over data.  A fact about every natural number up to a bound   *)
(* is proved by looking at the least number that refutes it.               *)
(***************************************************************************)

\* Every nonempty set of natural numbers has a least element: the intervals
\* from 0 are well-founded by strict inclusion.
LEMMA LeastNumber ==
    ASSUME NEW S \in SUBSET Nat, S # {}
    PROVE  \E n \in S : \A k \in S : n <= k
<1> DEFINE Below == {0 .. n : n \in S}
           R == StrictSubsetOrdering(Nat)
<1>1. IsWellFoundedOn(R, FiniteSubsetsOf(Nat))
  BY FS_StrictSubsetOrderingWellFounded
<1>2. Below \subseteq FiniteSubsetsOf(Nat)
  <2>1. \A n \in Nat : IsFiniteSet(0 .. n)
    BY FS_Interval, 0 \in Int
  <2>2. \A n \in Nat : 0 .. n \subseteq Nat
    OBVIOUS
  <2> QED BY <2>1, <2>2 DEF FiniteSubsetsOf
<1>3. Below # {}
  OBVIOUS
<1>4. PICK x \in Below : \A y \in Below : <<y, x>> \notin R
  <2> HIDE DEF Below, R
  <2> QED BY <1>1, <1>2, <1>3, WFMin
<1>5. PICK n \in S : x = 0 .. n
  BY <1>4
<1>6. ASSUME NEW k \in S, k < n
      PROVE  FALSE
  <2>1. n \in 0 .. n /\ n \notin 0 .. k
    BY <1>6
  <2>2. 0 .. k \subseteq 0 .. n /\ 0 .. k # 0 .. n
    BY <1>6, <2>1
  <2>3. <<0 .. k, 0 .. n>> \in R
    BY <2>2 DEF StrictSubsetOrdering
  <2> QED BY <1>4, <1>5, <2>3
<1> QED BY <1>6

\* The form in which the other lemmas use it.
LEMMA UpTo ==
    ASSUME NEW n \in Nat, NEW Holds,
           0 \in Holds,
           \A k \in 1 .. n : k - 1 \in Holds => k \in Holds
    PROVE  0 .. n \subseteq Holds
<1> DEFINE Rest == 0 .. n \ Holds
<1>1. ASSUME Rest # {}
      PROVE  FALSE
  <2>1. PICK k \in Rest : \A j \in Rest : k <= j
    <3>1. Rest \in SUBSET Nat
      OBVIOUS
    <3> HIDE DEF Rest
    <3> QED BY <1>1, <3>1, LeastNumber
  <2>2. k \in 1 .. n
    BY <2>1
  <2>3. k - 1 \in 0 .. n /\ ~(k <= k - 1)
    BY <2>2
  <2>4. k - 1 \in Holds
    BY <2>1, <2>3
  <2> QED BY <2>1, <2>2, <2>4
<1> QED BY <1>1

LEMMA IntervalCount ==
    ASSUME NEW n \in Nat
    PROVE  IsFiniteSet(1 .. n) /\ Cardinality(1 .. n) = n
<1>1. 1 \in Int /\ n \in Int
  OBVIOUS
<1>2. /\ IsFiniteSet(1 .. n)
      /\ Cardinality(1 .. n) = IF 1 > n THEN 0 ELSE n - 1 + 1
  BY <1>1, FS_Interval
<1> QED BY <1>2

------------------------------------------------------------------------------
\* The recursion of Selected has a solution, and is therefore one.
SelectedUpTo(s, kept, f, m) ==
    \A n \in 0 .. m :
        f[n] = IF n = 0 THEN <<>>
               ELSE IF s[n] \in kept THEN Append(f[n - 1], s[n])
               ELSE f[n - 1]

SolvesSelected(f, s, kept) ==
    f = [n \in 0 .. Len(s) |->
            IF n = 0 THEN <<>>
            ELSE IF s[n] \in kept THEN Append(f[n - 1], s[n])
            ELSE f[n - 1]]

LEMMA SelectedExists ==
    ASSUME NEW S, NEW s \in Seq(S), NEW kept
    PROVE  \E f : SolvesSelected(f, s, kept)
<1> DEFINE Holds == {m \in 0 .. Len(s) :
                       \E f \in [0 .. m -> Seq(S)] : SelectedUpTo(s, kept, f, m)}
<1>0. Len(s) \in Nat /\ DOMAIN s = 1 .. Len(s)
  OBVIOUS
<1>1. 0 \in Holds
  <2> DEFINE g == [n \in 0 .. 0 |-> <<>>]
  <2>1. g \in [0 .. 0 -> Seq(S)] /\ SelectedUpTo(s, kept, g, 0)
    BY DEF SelectedUpTo
  <2> HIDE DEF g
  <2> QED BY <1>0, <2>1
<1>2. ASSUME NEW m \in 1 .. Len(s), m - 1 \in Holds
      PROVE  m \in Holds
  <2>1. PICK f \in [0 .. m - 1 -> Seq(S)] : SelectedUpTo(s, kept, f, m - 1)
    BY <1>2
  <2> DEFINE last == IF s[m] \in kept THEN Append(f[m - 1], s[m]) ELSE f[m - 1]
             g == [n \in 0 .. m |-> IF n = m THEN last ELSE f[n]]
  <2>2. last \in Seq(S)
    BY <1>0, <2>1
  <2>3. g \in [0 .. m -> Seq(S)]
    BY <2>1, <2>2
  <2>4. SelectedUpTo(s, kept, g, m)
    <3> SUFFICES ASSUME NEW n \in 0 .. m
                 PROVE  g[n] = IF n = 0 THEN <<>>
                               ELSE IF s[n] \in kept THEN Append(g[n - 1], s[n])
                               ELSE g[n - 1]
      BY DEF SelectedUpTo
    <3>1. n # 0 => g[n - 1] = f[n - 1]
      BY <1>0
    <3>2. CASE n = m
      BY <1>0, <3>1, <3>2
    <3>3. CASE n # m
      <4>1. n \in 0 .. m - 1 /\ g[n] = f[n]
        BY <1>0, <3>3
      <4> HIDE DEF g
      <4> QED BY <2>1, <3>1, <4>1 DEF SelectedUpTo
    <3> QED BY <3>2, <3>3
  <2> HIDE DEF g
  <2> QED BY <1>0, <2>3, <2>4
<1>3. Len(s) \in Holds
  <2> HIDE DEF Holds
  <2>1. 0 .. Len(s) \subseteq Holds
    BY <1>0, <1>1, <1>2, UpTo
  <2> QED BY <1>0, <2>1
<1>4. PICK f \in [0 .. Len(s) -> Seq(S)] : SelectedUpTo(s, kept, f, Len(s))
  BY <1>3
<1>5. SolvesSelected(f, s, kept)
  BY <1>4 DEF SelectedUpTo, SolvesSelected
<1> QED BY <1>5

\* What a selection of a sequence is: at is where in the sequence its
\* elements stand.
IsSelection(s, kept, result, at) ==
    /\ at \in [1 .. Len(result) -> 1 .. Len(s)]
    /\ \A i, j \in 1 .. Len(result) : i < j => at[i] < at[j]
    /\ \A i \in 1 .. Len(result) : result[i] = s[at[i]] /\ s[at[i]] \in kept
    /\ \A n \in 1 .. Len(s) :
        s[n] \in kept => \E i \in 1 .. Len(result) : at[i] = n

LEMMA SelectionExists ==
    ASSUME NEW S, NEW s \in Seq(S), NEW kept
    PROVE  /\ Selected(s, kept) \in Seq(S)
           /\ \E at : IsSelection(s, kept, Selected(s, kept), at)
<1> DEFINE f == CHOOSE g : SolvesSelected(g, s, kept)
           Part(n) == SubSeq(s, 1, n)
           Holds == {n \in 0 .. Len(s) :
                       /\ f[n] \in Seq(S)
                       /\ \E at : IsSelection(Part(n), kept, f[n], at)}
<1>1. SolvesSelected(f, s, kept)
  BY SelectedExists, Zenon
<1>2. Selected(s, kept) = f[Len(s)]
  BY DEF Selected, SolvesSelected
<1> HIDE DEF f
<1>8. \A n \in 0 .. Len(s) :
        f[n] = IF n = 0 THEN <<>>
               ELSE IF s[n] \in kept THEN Append(f[n - 1], s[n])
               ELSE f[n - 1]
  BY <1>1 DEF SolvesSelected
<1>0. Len(s) \in Nat /\ DOMAIN s = 1 .. Len(s)
  OBVIOUS
<1>3. \A n \in 0 .. Len(s) : /\ Len(Part(n)) = n
                             /\ \A i \in 1 .. n : Part(n)[i] = s[i]
  BY <1>0, SubSeqProperties
<1>4. 0 \in Holds
  <2>1. f[0] = <<>>
    BY <1>0, <1>8
  <2> DEFINE at == [i \in 1 .. 0 |-> 0]
  <2>2. IsSelection(Part(0), kept, <<>>, at)
    BY <1>0, <1>3 DEF IsSelection
  <2>3. f[0] \in Seq(S) /\ IsSelection(Part(0), kept, f[0], at)
    BY <2>1, <2>2
  <2> HIDE DEF at
  <2> QED BY <1>0, <2>3
<1>5. ASSUME NEW n \in 1 .. Len(s), n - 1 \in Holds
      PROVE  n \in Holds
  <2>1. PICK at : IsSelection(Part(n - 1), kept, f[n - 1], at)
    BY <1>5
  <2> DEFINE k == Len(f[n - 1])
  <2>2. f[n - 1] \in Seq(S) /\ k \in Nat /\ s[n] \in S /\ n \in 0 .. Len(s)
        /\ n - 1 \in 0 .. Len(s) /\ n # 0 /\ n \in Nat
    BY <1>0, <1>5
  <2> HIDE DEF k
  <2>3. /\ at \in [1 .. k -> 1 .. n - 1]
        /\ \A i, j \in 1 .. k : i < j => at[i] < at[j]
        /\ \A i \in 1 .. k : f[n - 1][i] = s[at[i]] /\ s[at[i]] \in kept
        /\ \A j \in 1 .. n - 1 : s[j] \in kept => \E i \in 1 .. k : at[i] = j
    BY <1>3, <2>1, <2>2 DEF IsSelection, k
  <2>4. CASE s[n] \in kept
    <3> DEFINE longer == [i \in 1 .. k + 1 |-> IF i = k + 1 THEN n ELSE at[i]]
    <3>1. f[n] = Append(f[n - 1], s[n])
      BY <1>8, <2>2, <2>4, Zenon
    <3>2. f[n] \in Seq(S) /\ Len(f[n]) = k + 1 /\ f[n][k + 1] = s[n]
          /\ \A i \in 1 .. k : f[n][i] = f[n - 1][i]
      BY <2>2, <3>1 DEF k
    <3>3. /\ longer \in [1 .. k + 1 -> 1 .. n]
          /\ longer[k + 1] = n
          /\ \A i \in 1 .. k : longer[i] = at[i]
          /\ \A i \in 1 .. k + 1 : i = k + 1 \/ i \in 1 .. k
      BY <2>2, <2>3
    <3> HIDE DEF longer, Part
    <3>4. \A i, j \in 1 .. k + 1 : i < j => longer[i] < longer[j]
      <4> SUFFICES ASSUME NEW i \in 1 .. k + 1, NEW j \in 1 .. k + 1, i < j
                   PROVE  longer[i] < longer[j]
        OBVIOUS
      <4>4. k \in Nat /\ i \in 1 .. k
        BY <2>2
      <4>5. longer[i] = at[i]
        BY <3>3, <4>4
      <4>6. at[i] \in 1 .. n - 1
        BY <2>3, <4>4
      <4>1. i \in 1 .. k /\ longer[i] = at[i] /\ at[i] \in 1 .. n - 1
        BY <4>4, <4>5, <4>6
      <4>2. CASE j = k + 1
        BY <2>2, <3>3, <4>1, <4>2
      <4>3. CASE j \in 1 .. k
        BY <2>3, <3>3, <4>1, <4>3
      <4> QED BY <3>3, <4>2, <4>3
    <3>5. \A i \in 1 .. k + 1 : /\ f[n][i] = Part(n)[longer[i]]
                                /\ Part(n)[longer[i]] \in kept
      <4> SUFFICES ASSUME NEW i \in 1 .. k + 1
                   PROVE  /\ f[n][i] = Part(n)[longer[i]]
                          /\ Part(n)[longer[i]] \in kept
        OBVIOUS
      <4>1. Part(n)[longer[i]] = s[longer[i]]
        BY <1>3, <2>2, <3>3
      <4> QED BY <2>3, <2>4, <3>2, <3>3, <4>1
    <3>6. \A j \in 1 .. n : Part(n)[j] \in kept =>
              \E i \in 1 .. k + 1 : longer[i] = j
      <4> SUFFICES ASSUME NEW j \in 1 .. n, s[j] \in kept
                   PROVE  \E i \in 1 .. k + 1 : longer[i] = j
        BY <1>3, <2>2
      <4>1. CASE j = n
        BY <2>2, <3>3, <4>1
      <4>2. CASE j # n
        <5>1. j \in 1 .. n - 1
          BY <2>2, <4>2
        <5>2. PICK i \in 1 .. k : at[i] = j
          BY <2>3, <5>1
        <5> QED BY <2>2, <3>3, <5>2
      <4> QED BY <4>1, <4>2
    <3>7. IsSelection(Part(n), kept, f[n], longer)
      BY <1>3, <2>2, <3>2, <3>3, <3>4, <3>5, <3>6 DEF IsSelection
    <3> QED BY <2>2, <3>2, <3>7
  <2>5. CASE s[n] \notin kept
    <3>1. f[n] = f[n - 1]
      BY <1>8, <2>2, <2>5
    <3>2. IsSelection(Part(n), kept, f[n], at)
      <4>1. Len(Part(n)) = n /\ \A i \in 1 .. n : Part(n)[i] = s[i]
        BY <1>3, <2>2
      <4>2. /\ at \in [1 .. k -> 1 .. n]
            /\ \A j \in 1 .. n : j = n \/ j \in 1 .. n - 1
        BY <2>2, <2>3
      <4>3. \A i \in 1 .. k : f[n][i] = Part(n)[at[i]] /\ Part(n)[at[i]] \in kept
        BY <2>3, <3>1, <4>1, <4>2
      <4>4. \A j \in 1 .. n : Part(n)[j] \in kept => \E i \in 1 .. k : at[i] = j
        BY <2>3, <2>5, <4>1, <4>2
      <4>5. Len(f[n]) = k
        BY <3>1 DEF k
      <4> HIDE DEF Part
      <4> QED BY <2>3, <4>1, <4>2, <4>3, <4>4, <4>5 DEF IsSelection
    <3> QED BY <2>2, <3>1, <3>2
  <2> QED BY <2>4, <2>5
<1>6. Len(s) \in Holds
  <2> HIDE DEF Holds
  <2>1. 0 .. Len(s) \subseteq Holds
    BY <1>0, <1>4, <1>5, UpTo
  <2> QED BY <1>0, <2>1
<1>7. Part(Len(s)) = s
  BY SubSeqFull
<1> QED BY <1>2, <1>6, <1>7

Distinct(s) == \A i, j \in DOMAIN s : s[i] = s[j] => i = j

\* What a selection leaves: the elements kept, no more of them, each once if
\* it was there once.
LEMMA SelectionKeeps ==
    ASSUME NEW S, NEW s \in Seq(S), NEW kept
    PROVE  /\ Selected(s, kept) \in Seq(S)
           /\ Len(Selected(s, kept)) <= Len(s)
           /\ Range(Selected(s, kept)) = Range(s) \cap kept
           /\ Distinct(s) => Distinct(Selected(s, kept))
<1> DEFINE r == Selected(s, kept)
<1>1. r \in Seq(S)
  BY SelectionExists
<1>2. PICK at : IsSelection(s, kept, r, at)
  BY SelectionExists
<1> HIDE DEF r
<1>3. /\ Len(r) \in Nat /\ DOMAIN r = 1 .. Len(r)
      /\ Len(s) \in Nat /\ DOMAIN s = 1 .. Len(s)
  BY <1>1
<1>4. Len(r) <= Len(s)
  <2>1. at \in Injection(1 .. Len(r), 1 .. Len(s))
    <3>1. /\ at \in [1 .. Len(r) -> 1 .. Len(s)]
          /\ \A i, j \in 1 .. Len(r) : i < j => at[i] < at[j]
      BY <1>2, <1>3 DEF IsSelection
    <3>2. ASSUME NEW i \in 1 .. Len(r), NEW j \in 1 .. Len(r), at[i] = at[j]
          PROVE  i = j
      <4>1. at[i] \in Nat /\ at[j] \in Nat
        BY <1>3, <3>1
      <4>2. ~(i < j) /\ ~(j < i)
        BY <3>1, <3>2, <4>1
      <4> QED BY <1>3, <4>2
    <3> QED BY <3>1, <3>2 DEF Injection, IsInjective
  <2>2. IsFiniteSet(1 .. Len(s)) /\ Cardinality(1 .. Len(s)) = Len(s)
    BY <1>3, IntervalCount
  <2>3. Cardinality(1 .. Len(r)) = Len(r)
    BY <1>3, IntervalCount
  <2>4. Cardinality(1 .. Len(r)) <= Cardinality(1 .. Len(s))
    BY <2>1, <2>2, FS_Injection
  <2> QED BY <2>2, <2>3, <2>4
<1>5. Range(r) = Range(s) \cap kept
  <2>1. ASSUME NEW i \in 1 .. Len(r)
        PROVE  r[i] \in Range(s) \cap kept
    BY <1>2, <1>3 DEF IsSelection, Range
  <2>2. ASSUME NEW n \in 1 .. Len(s), s[n] \in kept
        PROVE  s[n] \in Range(r)
    BY <1>2, <1>3, <2>2 DEF IsSelection, Range
  <2> QED BY <1>3, <2>1, <2>2 DEF Range
<1>6. ASSUME Distinct(s)
      PROVE  Distinct(r)
  <2> SUFFICES ASSUME NEW i \in 1 .. Len(r), NEW j \in 1 .. Len(r), r[i] = r[j]
               PROVE  i = j
    BY <1>3 DEF Distinct
  <2>1. at[i] = at[j]
    BY <1>2, <1>3, <1>6, ZenonT(60) DEF IsSelection, Distinct
  <2>2. at[i] \in Nat /\ i \in Nat /\ j \in Nat
    BY <1>2, <1>3 DEF IsSelection
  <2> QED BY <1>2, <2>1, <2>2 DEF IsSelection
<1> QED BY <1>1, <1>4, <1>5, <1>6 DEF r

------------------------------------------------------------------------------
\* The entries of a connection set.
EntryMetrics == [dep : Int, arr : Nat, jt : Nat, nt : Nat, imp : Nat]
Entry    == [m : EntryMetrics, label : Nat]

LEMMA EntryFields ==
    ASSUME NEW e \in Entry
    PROVE  /\ e.m \in EntryMetrics /\ e.label \in Nat
           /\ e.m.dep \in Int /\ e.m.arr \in Nat /\ e.m.jt \in Nat
           /\ e.m.nt \in Nat /\ e.m.imp \in Nat
<1>1. e.m \in EntryMetrics /\ e.label \in Nat
  BY DEF Entry
<1>2. \A m \in EntryMetrics : /\ m.dep \in Int /\ m.arr \in Nat /\ m.jt \in Nat
                           /\ m.nt \in Nat /\ m.imp \in Nat
  BY DEF EntryMetrics
<1> QED BY <1>1, <1>2

\* The entries before the insertion point are those that arrive earlier.
LEMMA EarlierIsPrefix ==
    ASSUME NEW entries \in Seq(Entry), Ordered(entries), NEW m \in EntryMetrics
    PROVE  /\ Earlier(entries, m) \in 0 .. Len(entries)
           /\ \A i \in 1 .. Len(entries) :
               entries[i].m.arr < m.arr <=> i <= Earlier(entries, m)
<1> DEFINE late == {i \in 1 .. Len(entries) + 1 :
                      i <= Len(entries) => ~(entries[i].m.arr < m.arr)}
           early == {i \in DOMAIN entries : entries[i].m.arr < m.arr}
<1>1. /\ Len(entries) \in Nat /\ DOMAIN entries = 1 .. Len(entries)
      /\ \A i \in 1 .. Len(entries) : entries[i].m.arr \in Nat
      /\ m.arr \in Nat
  <2>1. \A i \in 1 .. Len(entries) : entries[i] \in Entry
    BY ElementOfSeq
  <2>2. m.arr \in Nat
    BY DEF EntryMetrics
  <2> QED BY <2>1, <2>2, EntryFields
<1>2. PICK n \in late : \A k \in late : n <= k
  <2>1. late \in SUBSET Nat /\ Len(entries) + 1 \in late
    BY <1>1
  <2> HIDE DEF late
  <2> QED BY <2>1, LeastNumber
<1>3. \A i \in 1 .. Len(entries) : entries[i].m.arr < m.arr <=> i <= n - 1
  <2> SUFFICES ASSUME NEW i \in 1 .. Len(entries)
               PROVE  entries[i].m.arr < m.arr <=> i <= n - 1
    OBVIOUS
  <2>1. CASE i <= n - 1
    BY <1>1, <1>2, <2>1
  <2>2. CASE ~(i <= n - 1)
    <3>1. n \in 1 .. Len(entries) /\ (n = i \/ n < i)
      BY <1>1, <1>2, <2>2
    <3>2. ~(entries[n].m.arr < m.arr)
      BY <1>2, <3>1
    <3>3. entries[n].m.arr <= entries[i].m.arr
      BY <1>1, <3>1 DEF Ordered
    <3> QED BY <1>1, <2>2, <3>1, <3>2, <3>3
  <2> QED BY <2>1, <2>2
<1>4. early = 1 .. n - 1
  BY <1>1, <1>2, <1>3
<1>5. Earlier(entries, m) = n - 1
  <2>1. n - 1 \in Nat
    BY <1>1, <1>2
  <2> HIDE DEF early, late
  <2>2. Cardinality(1 .. n - 1) = n - 1
    BY <2>1, IntervalCount
  <2> QED BY <1>4, <2>2 DEF Earlier, early
<1>6. n - 1 \in 0 .. Len(entries)
  BY <1>1, <1>2
<1> QED BY <1>3, <1>5, <1>6

\* What Insert makes of a set: from says which entry stands where, 0 being
\* the new one, which stands at position k + 1.
IsInsertion(entries, m, label, r, k, from) ==
    /\ r \in Seq(Entry) /\ k \in 0 .. Len(r) - 1
    /\ r[k + 1] = [m |-> m, label |-> label]
    /\ \A i \in 1 .. Len(r) : i # k + 1 =>
        /\ from[i] \in 1 .. Len(entries) /\ r[i] = entries[from[i]]
        /\ \A j \in 1 .. Len(r) : j # k + 1 /\ i < j => from[i] < from[j]
        /\ i <= k => r[i].m.arr < m.arr
        /\ i > k => ~(r[i].m.arr < m.arr) /\ ~Dominates(m, r[i].m)
    /\ \A n \in 1 .. Len(entries) :
        (entries[n].m.arr < m.arr \/ ~Dominates(m, entries[n].m)) =>
            \E i \in 1 .. Len(r) : i # k + 1 /\ from[i] = n

LEMMA InsertPlaces ==
    ASSUME NEW entries \in Seq(Entry), Ordered(entries),
           NEW m \in EntryMetrics, NEW label \in Nat
    PROVE  \E k, from : IsInsertion(entries, m, label,
                                    Insert(entries, m, label), k, from)
<1> DEFINE k == Earlier(entries, m)
           surviving == {e \in Range(entries) : ~Dominates(m, e.m)}
           front == SubSeq(entries, 1, k)
           rest == SubSeq(entries, k + 1, Len(entries))
           back == Selected(rest, surviving)
           new == [m |-> m, label |-> label]
           r == Insert(entries, m, label)
<1>1. /\ k \in 0 .. Len(entries) /\ Len(entries) \in Nat
      /\ DOMAIN entries = 1 .. Len(entries)
      /\ \A i \in 1 .. Len(entries) : entries[i].m.arr < m.arr <=> i <= k
  BY EarlierIsPrefix
<1> HIDE DEF k
<1>2. \A i \in 1 .. Len(entries) : entries[i] \in Entry
  BY ElementOfSeq
<1>3. /\ front \in Seq(Entry) /\ Len(front) = k
      /\ \A i \in 1 .. k : front[i] = entries[i]
  BY <1>1, <1>2, SubSeqProperties
<1>4. /\ rest \in Seq(Entry) /\ Len(rest) = Len(entries) - k
      /\ \A i \in 1 .. Len(entries) - k : rest[i] = entries[k + i]
  <2>1. k + 1 \in Int /\ Len(entries) \in Int
        /\ \A i \in k + 1 .. Len(entries) : entries[i] \in Entry
    BY <1>1, <1>2
  <2>2. /\ rest \in Seq(Entry)
        /\ Len(rest) = IF k + 1 <= Len(entries)
                       THEN Len(entries) - (k + 1) + 1 ELSE 0
        /\ \A i \in 1 .. Len(entries) - (k + 1) + 1 :
            rest[i] = entries[(k + 1) + i - 1]
    BY <2>1, SubSeqProperties, SMTT(30)
  <2> HIDE DEF rest
  <2>3. Len(rest) = Len(entries) - k
    <3> DEFINE total == Len(entries)
               length == Len(rest)
    <3>1. /\ k \in 0 .. total /\ total \in Nat
          /\ length = IF k + 1 <= total THEN total - (k + 1) + 1 ELSE 0
      BY <1>1, <2>2
    <3> HIDE DEF total, length
    <3>2. length = total - k
      BY <3>1
    <3> QED BY <3>2 DEF total, length
  <2>4. ASSUME NEW i \in 1 .. Len(entries) - k
        PROVE  rest[i] = entries[k + i]
    <3>1. i \in 1 .. Len(entries) - (k + 1) + 1 /\ (k + 1) + i - 1 = k + i
      BY <1>1
    <3> QED BY <2>2, <3>1
  <2> QED BY <2>2, <2>3, <2>4
<1>5. r = (front \o <<new>>) \o back
  BY DEF Insert, k
<1> HIDE DEF front, rest, r
<1>6. PICK at : IsSelection(rest, surviving, back, at)
  BY <1>4, SelectionExists
<1>7. back \in Seq(Entry)
  BY <1>4, SelectionExists
<1> HIDE DEF back, surviving
<1>8. new \in Entry /\ <<new>> \in Seq(Entry) /\ Len(<<new>>) = 1 /\ <<new>>[1] = new
  BY DEF Entry
<1> HIDE DEF new
<1>9. /\ front \o <<new>> \in Seq(Entry) /\ Len(front \o <<new>>) = k + 1
      /\ \A i \in 1 .. k : (front \o <<new>>)[i] = entries[i]
      /\ (front \o <<new>>)[k + 1] = new
  BY <1>1, <1>3, <1>8, ConcatProperties
<1>10. Len(back) \in Nat
  BY <1>7
<1>11. /\ r \in Seq(Entry) /\ Len(r) = k + 1 + Len(back)
       /\ \A i \in 1 .. k : r[i] = entries[i]
       /\ r[k + 1] = new
       /\ \A i \in k + 2 .. Len(r) : r[i] = back[i - (k + 1)]
  <2> DEFINE longer == front \o <<new>>
  <2>1. /\ r \in Seq(Entry) /\ Len(r) = Len(longer) + Len(back)
        /\ \A i \in 1 .. Len(longer) + Len(back) :
            r[i] = IF i <= Len(longer) THEN longer[i] ELSE back[i - Len(longer)]
    BY <1>5, <1>7, <1>9, ConcatProperties
  <2> HIDE DEF longer
  <2>2. /\ Len(longer) = k + 1 /\ longer[k + 1] = new
        /\ \A i \in 1 .. k : longer[i] = entries[i]
    BY <1>9 DEF longer
  <2>3. \A i \in 1 .. k + 1 + Len(back) :
            r[i] = IF i <= k + 1 THEN longer[i] ELSE back[i - (k + 1)]
    BY <2>1, <2>2
  <2>4. ASSUME NEW i \in 1 .. k
        PROVE  i \in 1 .. k + 1 + Len(back) /\ i <= k + 1
    BY <1>1, <1>10
  <2>5. k + 1 \in 1 .. k + 1 + Len(back) /\ k + 1 <= k + 1
    BY <1>1, <1>10
  <2>6. ASSUME NEW i \in k + 2 .. k + 1 + Len(back)
        PROVE  i \in 1 .. k + 1 + Len(back) /\ ~(i <= k + 1)
    BY <1>1, <1>10
  <2> QED BY <2>1, <2>2, <2>3, <2>4, <2>5, <2>6
<1> DEFINE from == [i \in 1 .. Len(r) |->
                      IF i <= k THEN i ELSE k + at[i - (k + 1)]]
<1>12. ASSUME NEW i \in k + 2 .. Len(r)
       PROVE  /\ i - (k + 1) \in 1 .. Len(back)
              /\ at[i - (k + 1)] \in 1 .. Len(entries) - k
              /\ from[i] = k + at[i - (k + 1)]
              /\ from[i] \in 1 .. Len(entries) /\ from[i] > k
              /\ r[i] = entries[from[i]]
              /\ ~Dominates(m, r[i].m)
  <2>1. i - (k + 1) \in 1 .. Len(back) /\ i \in 1 .. Len(r) /\ ~(i <= k)
    BY <1>1, <1>10, <1>11
  <2>2. at[i - (k + 1)] \in 1 .. Len(entries) - k
    BY <1>4, <1>6, <2>1 DEF IsSelection
  <2>3. from[i] = k + at[i - (k + 1)]
    BY <2>1
  <2>4. back[i - (k + 1)] = rest[at[i - (k + 1)]]
        /\ rest[at[i - (k + 1)]] \in surviving
    BY <1>6, <2>1 DEF IsSelection
  <2>5. rest[at[i - (k + 1)]] = entries[k + at[i - (k + 1)]]
    BY <1>4, <2>2
  <2>6. from[i] \in 1 .. Len(entries) /\ from[i] > k
    BY <1>1, <2>2, <2>3
  <2>7. r[i] = entries[from[i]] /\ r[i] \in surviving
    BY <1>11, <2>3, <2>4, <2>5
  <2> QED BY <2>1, <2>2, <2>3, <2>6, <2>7 DEF surviving
<1>13. ASSUME NEW i \in 1 .. k
       PROVE  from[i] = i /\ i \in 1 .. Len(entries) /\ r[i] = entries[i]
  BY <1>1, <1>10, <1>11
<1> HIDE DEF from
<1>14. ASSUME NEW i \in 1 .. Len(r), i # k + 1
       PROVE  i \in 1 .. k \/ i \in k + 2 .. Len(r)
  BY <1>1, <1>10, <1>11, <1>14
<1>15. ASSUME NEW i \in 1 .. Len(r), i # k + 1
       PROVE  /\ from[i] \in 1 .. Len(entries) /\ r[i] = entries[from[i]]
              /\ i <= k => r[i].m.arr < m.arr
              /\ i > k => ~(r[i].m.arr < m.arr) /\ ~Dominates(m, r[i].m)
  <2>1. CASE i \in 1 .. k
    BY <1>1, <1>13, <2>1
  <2>2. CASE i \in k + 2 .. Len(r)
    <3>1. i > k /\ ~(i <= k) /\ ~(from[i] <= k)
      BY <1>1, <1>12, <2>2
    <3> QED BY <1>1, <1>12, <2>2, <3>1
  <2> QED BY <1>14, <1>15, <2>1, <2>2
<1>16. ASSUME NEW i \in 1 .. Len(r), NEW j \in 1 .. Len(r),
              i # k + 1, j # k + 1, i < j
       PROVE  from[i] < from[j]
  <2>1. CASE j \in 1 .. k
    BY <1>1, <1>13, <1>16, <2>1
  <2>2. CASE i \in 1 .. k /\ j \in k + 2 .. Len(r)
    <3>1. from[j] > k /\ from[j] \in Nat
      BY <1>12, <2>2
    <3> QED BY <1>1, <1>13, <2>2, <3>1
  <2>3. CASE i \in k + 2 .. Len(r) /\ j \in k + 2 .. Len(r)
    <3>1. i - (k + 1) < j - (k + 1)
      BY <1>1, <1>16
    <3>2. at[i - (k + 1)] < at[j - (k + 1)]
      BY <1>6, <1>12, <2>3, <3>1 DEF IsSelection
    <3>3. /\ from[i] = k + at[i - (k + 1)] /\ at[i - (k + 1)] \in Int
          /\ from[j] = k + at[j - (k + 1)] /\ at[j - (k + 1)] \in Int
      BY <1>12, <2>3
    <3> QED BY <1>1, <3>2, <3>3
  <2>4. i \in 1 .. k \/ i \in k + 2 .. Len(r)
    BY <1>14, <1>16
  <2>5. j \in 1 .. k \/ j \in k + 2 .. Len(r)
    BY <1>14, <1>16
  <2> QED BY <2>1, <2>2, <2>3, <2>4, <2>5
<1>17. ASSUME NEW n \in 1 .. Len(entries),
              entries[n].m.arr < m.arr \/ ~Dominates(m, entries[n].m)
       PROVE  \E i \in 1 .. Len(r) : i # k + 1 /\ from[i] = n
  <2>1. CASE n <= k
    <3>1. n \in 1 .. k /\ n \in 1 .. Len(r) /\ n # k + 1
      BY <1>1, <1>10, <1>11, <2>1
    <3> QED BY <1>13, <3>1
  <2>2. CASE ~(n <= k)
    <3>1. n - k \in 1 .. Len(rest) /\ rest[n - k] = entries[n]
      <4>1. n - k \in 1 .. Len(entries) - k /\ k + (n - k) = n
        BY <1>1, <2>2
      <4> QED BY <1>4, <4>1
    <3>2. entries[n] \in surviving
      BY <1>1, <1>17, <2>2 DEF surviving, Range
    <3>3. PICK i \in 1 .. Len(back) : at[i] = n - k
      BY <1>6, <3>1, <3>2 DEF IsSelection
    <3>4. /\ i + (k + 1) \in k + 2 .. Len(r) /\ (i + (k + 1)) - (k + 1) = i
          /\ i + (k + 1) \in 1 .. Len(r) /\ i + (k + 1) # k + 1
          /\ k + (n - k) = n
      BY <1>1, <1>10, <1>11
    <3>5. from[i + (k + 1)] = n
      BY <1>12, <3>3, <3>4
    <3> QED BY <3>4, <3>5
  <2> QED BY <2>1, <2>2
<1>18. k \in 0 .. Len(r) - 1
  BY <1>1, <1>10, <1>11
<1>19. IsInsertion(entries, m, label, r, k, from)
  BY <1>11, <1>15, <1>16, <1>17, <1>18 DEF IsInsertion, new
<1> QED BY <1>19 DEF r

\* What is asked of the entries of a set, its summary aside.
Kernel(entries) ==
    Ordered(entries) /\ Nondominated(entries) /\ OneLabelEach(entries)

LEMMA SelectionKeepsKernel ==
    ASSUME NEW entries \in Seq(Entry), NEW kept, Kernel(entries)
    PROVE  Kernel(Selected(entries, kept))
<1> DEFINE r == Selected(entries, kept)
<1>1. r \in Seq(Entry)
  BY SelectionExists
<1>2. PICK at : IsSelection(entries, kept, r, at)
  BY SelectionExists
<1> HIDE DEF r
<1>3. /\ Len(r) \in Nat /\ DOMAIN r = 1 .. Len(r)
      /\ Len(entries) \in Nat /\ DOMAIN entries = 1 .. Len(entries)
  BY <1>1
<1>4. \A i \in 1 .. Len(r) : /\ at[i] \in 1 .. Len(entries)
                             /\ r[i] = entries[at[i]]
  BY <1>2, <1>3 DEF IsSelection
<1>5. \A i, j \in 1 .. Len(r) : at[i] = at[j] => i = j
  <2> SUFFICES ASSUME NEW i \in 1 .. Len(r), NEW j \in 1 .. Len(r), i < j
               PROVE  at[i] # at[j]
    BY <1>3
  <2>1. at[i] < at[j] /\ at[i] \in Nat /\ at[j] \in Nat
    BY <1>2, <1>3, <1>4 DEF IsSelection
  <2> QED BY <2>1
<1>6. Ordered(r)
  BY <1>2, <1>3, <1>4 DEF Ordered, Kernel, IsSelection
<1>7. Nondominated(r)
  BY <1>3, <1>4 DEF Nondominated, Kernel
<1>8. OneLabelEach(r)
  BY <1>3, <1>4, <1>5 DEF OneLabelEach, Kernel
<1> QED BY <1>6, <1>7, <1>8 DEF Kernel, r

LEMMA InsertKeepsKernel ==
    ASSUME NEW entries \in Seq(Entry), Kernel(entries),
           NEW m \in EntryMetrics, NEW label \in Nat,
           \A i \in 1 .. Len(entries) : entries[i].label # label,
           entries # <<>> => Relevant(entries, m)
    PROVE  Kernel(Insert(entries, m, label))
<1> DEFINE r == Insert(entries, m, label)
<1>1. PICK k, from : IsInsertion(entries, m, label, r, k, from)
  BY InsertPlaces DEF Kernel
<1> HIDE DEF r
<1>2. /\ r \in Seq(Entry) /\ Len(r) \in Nat /\ DOMAIN r = 1 .. Len(r)
      /\ Len(entries) \in Nat /\ DOMAIN entries = 1 .. Len(entries)
      /\ k \in 0 .. Len(r) - 1 /\ k + 1 \in 1 .. Len(r)
  BY <1>1 DEF IsInsertion
<1>3. /\ \A i \in 1 .. Len(entries) : entries[i] \in Entry
      /\ \A i \in 1 .. Len(r) : r[i] \in Entry
  BY <1>2, ElementOfSeq
<1>4. r[k + 1].m = m /\ r[k + 1].label = label
  BY <1>1 DEF IsInsertion
<1>5. ASSUME NEW i \in 1 .. Len(r), i # k + 1
      PROVE  /\ from[i] \in 1 .. Len(entries) /\ r[i] = entries[from[i]]
             /\ r[i].m.arr \in Nat /\ m.arr \in Nat
             /\ i <= k => r[i].m.arr < m.arr
             /\ i > k => ~(r[i].m.arr < m.arr) /\ ~Dominates(m, r[i].m)
  <2>1. r[i].m.arr \in Nat /\ m.arr \in Nat
    BY <1>3, EntryFields DEF EntryMetrics
  <2> QED BY <1>1, <1>5, <2>1 DEF IsInsertion
<1>6. \A i, j \in 1 .. Len(r) : i # k + 1 /\ j # k + 1 /\ i < j => from[i] < from[j]
  BY <1>1 DEF IsInsertion
<1>7. Ordered(r)
  <2> SUFFICES ASSUME NEW i \in 1 .. Len(r), NEW j \in 1 .. Len(r), i < j
               PROVE  r[i].m.arr <= r[j].m.arr
    BY <1>2 DEF Ordered
  <2>1. CASE i = k + 1
    <3>1. j # k + 1 /\ j > k
      BY <1>2, <2>1
    <3> QED BY <1>4, <1>5, <2>1, <3>1
  <2>2. CASE j = k + 1
    <3>1. i # k + 1 /\ i <= k
      BY <1>2, <2>2
    <3> QED BY <1>4, <1>5, <2>2, <3>1
  <2>3. CASE i # k + 1 /\ j # k + 1
    <3>1. from[i] < from[j]
      BY <1>6, <2>3
    <3>2. entries[from[i]].m.arr <= entries[from[j]].m.arr
      BY <1>2, <1>5, <2>3, <3>1 DEF Ordered, Kernel
    <3> QED BY <1>5, <2>3, <3>2
  <2> QED BY <2>1, <2>2, <2>3
<1>8. Nondominated(r)
  <2>1. \A i \in 1 .. Len(entries) : ~Dominates(entries[i].m, m)
    <3> SUFFICES ASSUME NEW i \in 1 .. Len(entries)
                 PROVE  ~Dominates(entries[i].m, m)
      OBVIOUS
    <3>1. entries # <<>>
      BY <1>2
    <3>2. entries[i].m.arr \in Nat /\ m.arr \in Nat
      BY <1>3, EntryFields DEF EntryMetrics
    <3>3. CASE entries[i].m.arr <= m.arr
      BY <1>2, <3>1, <3>3 DEF Relevant
    <3>4. CASE ~(entries[i].m.arr <= m.arr)
      BY <3>4 DEF Dominates
    <3> QED BY <3>3, <3>4
  <2>2. ~Dominates(m, m)
    <3>1. m.dep \in Int /\ m.arr \in Nat /\ m.imp \in Nat /\ m.nt \in Nat
      BY DEF EntryMetrics
    <3> QED BY <3>1 DEF Dominates
  <2>3. ASSUME NEW i \in 1 .. Len(r), i # k + 1
        PROVE  ~Dominates(m, r[i].m)
    <3>1. CASE i <= k
      BY <1>5, <2>3, <3>1 DEF Dominates
    <3>2. CASE i > k
      BY <1>5, <2>3, <3>2
    <3> QED BY <1>2, <3>1, <3>2
  <2> SUFFICES ASSUME NEW i \in 1 .. Len(r), NEW j \in 1 .. Len(r)
               PROVE  ~Dominates(r[i].m, r[j].m)
    BY <1>2 DEF Nondominated
  <2>4. CASE i = k + 1
    BY <1>4, <2>2, <2>3, <2>4
  <2>5. CASE i # k + 1 /\ j = k + 1
    BY <1>4, <1>5, <2>1, <2>5
  <2>6. CASE i # k + 1 /\ j # k + 1
    BY <1>2, <1>5, <2>6, ZenonT(60) DEF Nondominated, Kernel
  <2> QED BY <2>4, <2>5, <2>6
<1>9. OneLabelEach(r)
  <2> SUFFICES ASSUME NEW i \in 1 .. Len(r), NEW j \in 1 .. Len(r), i < j
               PROVE  r[i].label # r[j].label
    BY <1>2 DEF OneLabelEach
  <2>1. CASE i = k + 1
    BY <1>4, <1>5, <2>1
  <2>2. CASE j = k + 1
    BY <1>4, <1>5, <2>2
  <2>3. CASE i # k + 1 /\ j # k + 1
    <3>1. from[i] # from[j] /\ from[i] \in 1 .. Len(entries)
          /\ from[j] \in 1 .. Len(entries)
      BY <1>2, <1>5, <1>6, <2>3
    <3>2. entries[from[i]].label # entries[from[j]].label
      BY <1>2, <3>1 DEF OneLabelEach, Kernel
    <3> QED BY <1>5, <2>3, <3>2
  <2> QED BY <2>1, <2>2, <2>3
<1> QED BY <1>7, <1>8, <1>9 DEF Kernel, r

\* The least of a set of numbers.
LEMMA MinIsLeast ==
    ASSUME NEW S \in SUBSET Nat, S # {}
    PROVE  /\ Min(S) \in S
           /\ \A x \in S : Min(S) <= x
           /\ \A n \in S : (\A x \in S : n <= x) => n = Min(S)
<1>1. \E n \in S : \A x \in S : n <= x
  BY LeastNumber
<1>2. Min(S) \in S /\ \A x \in S : Min(S) <= x
  BY <1>1 DEF Min
<1>3. ASSUME NEW n \in S, \A x \in S : n <= x
      PROVE  n = Min(S)
  <2>1. n \in Nat /\ Min(S) \in Nat /\ n <= Min(S) /\ Min(S) <= n
    BY <1>2, <1>3
  <2> QED BY <2>1
<1> QED BY <1>2, <1>3

LEMMA MinOfUnion ==
    ASSUME NEW S \in SUBSET Nat, S # {}, NEW x \in Nat
    PROVE  Min(S \cup {x}) = Min({Min(S), x})
<1> DEFINE T == S \cup {x}
           U == {Min(S), x}
<1>1. Min(S) \in S /\ (\A y \in S : Min(S) <= y) /\ Min(S) \in Nat
  BY MinIsLeast
<1>2. T \in SUBSET Nat /\ T # {} /\ U \in SUBSET Nat /\ U # {}
  BY <1>1
<1> HIDE DEF T, U
<1>3. Min(U) \in U /\ \A y \in U : Min(U) <= y
  BY <1>2, MinIsLeast
<1>4. Min(U) \in Nat /\ Min(U) \in T /\ \A y \in T : Min(U) <= y
  <2>1. Min(U) \in Nat /\ Min(U) <= Min(S) /\ Min(U) <= x /\ Min(U) \in T
    BY <1>1, <1>2, <1>3 DEF T, U
  <2>2. \A y \in S : Min(U) <= y
    BY <1>1, <2>1
  <2> QED BY <2>1, <2>2 DEF T
<1>5. Min(U) = Min(T)
  BY <1>2, <1>4, MinIsLeast
<1> QED BY <1>5 DEF T, U

\* The values a summary is made of.
Imps(entries) == {entries[i].m.imp : i \in DOMAIN entries}
Jts(entries)  == {entries[i].m.jt : i \in DOMAIN entries}
Nts(entries)  == {entries[i].m.nt : i \in DOMAIN entries}

LEMMA ValuesOfRange ==
    ASSUME NEW entries
    PROVE  /\ Imps(entries) = {e.m.imp : e \in Range(entries)}
           /\ Jts(entries)  = {e.m.jt : e \in Range(entries)}
           /\ Nts(entries)  = {e.m.nt : e \in Range(entries)}
BY DEF Imps, Jts, Nts, Range

LEMMA SummaryIsMinima ==
    ASSUME NEW entries, entries # <<>>
    PROVE  Summary(entries) = {[imp |-> Min(Imps(entries)),
                                jt  |-> Min(Jts(entries)),
                                nt  |-> Min(Nts(entries))]}
BY DEF Summary, Imps, Jts, Nts

\* Where the new entry turns nothing out, the summary is improved by it.
LEMMA InsertKeepsSummary ==
    ASSUME NEW entries \in Seq(Entry), Ordered(entries),
           NEW m \in EntryMetrics, NEW label \in Nat
    PROVE  SummaryAfterInsert(entries, Summary(entries), m, label)
             = Summary(Insert(entries, m, label))
<1> DEFINE r == Insert(entries, m, label)
<1>1. CASE DominatedLabels(entries, m) # {}
  BY <1>1 DEF SummaryAfterInsert
<1>2. CASE DominatedLabels(entries, m) = {}
  <2>1. PICK k, from : IsInsertion(entries, m, label, r, k, from)
    BY InsertPlaces
  <2> HIDE DEF r
  <2>2. /\ r \in Seq(Entry) /\ Len(r) \in Nat /\ DOMAIN r = 1 .. Len(r)
        /\ Len(entries) \in Nat /\ DOMAIN entries = 1 .. Len(entries)
        /\ k + 1 \in 1 .. Len(r) /\ r # <<>>
        /\ r[k + 1].m = m
    BY <2>1 DEF IsInsertion
  <2>3. \A i \in 1 .. Len(entries) : entries[i] \in Entry
    BY ElementOfSeq
  <2>4. ASSUME NEW n \in 1 .. Len(entries)
        PROVE  \E i \in 1 .. Len(r) : i # k + 1 /\ r[i] = entries[n]
    <3>1. entries[n].m.arr < m.arr \/ ~Dominates(m, entries[n].m)
      <4>1. Earlier(entries, m) \in Nat
        BY EarlierIsPrefix
      <4>2. CASE n <= Earlier(entries, m)
        BY <4>2, EarlierIsPrefix
      <4>3. CASE ~(n <= Earlier(entries, m))
        <5>1. n > Earlier(entries, m)
          BY <4>1, <4>3
        <5> QED BY <1>2, <2>2, <5>1 DEF DominatedLabels
      <4> QED BY <4>2, <4>3
    <3>2. PICK i \in 1 .. Len(r) : i # k + 1 /\ from[i] = n
      BY <2>1, <3>1 DEF IsInsertion
    <3>3. r[i] = entries[from[i]]
      BY <2>1, <3>2 DEF IsInsertion
    <3> QED BY <3>2, <3>3
  <2>5. ASSUME NEW i \in 1 .. Len(r), i # k + 1
        PROVE  \E n \in 1 .. Len(entries) : r[i] = entries[n]
    BY <2>1, <2>5 DEF IsInsertion
  <2>14. Range(r) = Range(entries) \cup {r[k + 1]}
    <3>1. \A i \in 1 .. Len(r) : r[i] \in Range(entries) \cup {r[k + 1]}
      BY <2>2, <2>5 DEF Range
    <3>2. \A n \in 1 .. Len(entries) : entries[n] \in Range(r)
      BY <2>2, <2>4 DEF Range
    <3>3. r[k + 1] \in Range(r)
      BY <2>2 DEF Range
    <3> QED BY <2>2, <3>1, <3>2, <3>3 DEF Range
  <2>6. Imps(r) = Imps(entries) \cup {m.imp}
    BY <2>2, <2>14, ValuesOfRange
  <2>7. Jts(r) = Jts(entries) \cup {m.jt}
    BY <2>2, <2>14, ValuesOfRange
  <2>8. Nts(r) = Nts(entries) \cup {m.nt}
    BY <2>2, <2>14, ValuesOfRange
  <2>9. m.imp \in Nat /\ m.jt \in Nat /\ m.nt \in Nat
    BY DEF EntryMetrics
  <2>10. Summary(r) = {[imp |-> Min(Imps(r)), jt |-> Min(Jts(r)),
                        nt |-> Min(Nts(r))]}
    BY <2>2, SummaryIsMinima
  <2>11. SummaryAfterInsert(entries, Summary(entries), m, label)
           = Improved(Summary(entries), m)
    BY <1>2 DEF SummaryAfterInsert
  <2>12. CASE entries = <<>>
    <3>1. Imps(r) = {m.imp} /\ Jts(r) = {m.jt} /\ Nts(r) = {m.nt}
      <4>1. DOMAIN entries = {}
        BY <2>12
      <4>2. Imps(entries) = {} /\ Jts(entries) = {} /\ Nts(entries) = {}
        BY <4>1 DEF Imps, Jts, Nts
      <4> QED BY <2>6, <2>7, <2>8, <4>2
    <3>2. Min({m.imp}) = m.imp /\ Min({m.jt}) = m.jt /\ Min({m.nt}) = m.nt
      <4>1. \A x \in Nat : Min({x}) \in {x}
        BY MinIsLeast
      <4> QED BY <2>9, <4>1
    <3>3. Improved(Summary(entries), m)
            = {[imp |-> m.imp, jt |-> m.jt, nt |-> m.nt]}
      BY <2>12 DEF Improved, Summary
    <3> QED BY <2>10, <2>11, <3>1, <3>2, <3>3 DEF r
  <2>13. CASE entries # <<>>
    <3>1. Imps(entries) \in SUBSET Nat /\ Jts(entries) \in SUBSET Nat
          /\ Nts(entries) \in SUBSET Nat
      BY <2>2, <2>3, EntryFields DEF Imps, Jts, Nts
    <3>2. Imps(entries) # {} /\ Jts(entries) # {} /\ Nts(entries) # {}
      <4>1. 1 \in DOMAIN entries
        BY <2>2, <2>13
      <4> QED BY <4>1 DEF Imps, Jts, Nts
    <3>3. /\ Min(Imps(r)) = Min({Min(Imps(entries)), m.imp})
          /\ Min(Jts(r)) = Min({Min(Jts(entries)), m.jt})
          /\ Min(Nts(r)) = Min({Min(Nts(entries)), m.nt})
      BY <2>6, <2>7, <2>8, <2>9, <3>1, <3>2, MinOfUnion
    <3>4. Improved(Summary(entries), m)
            = {[imp |-> Min({Min(Imps(entries)), m.imp}),
                jt  |-> Min({Min(Jts(entries)), m.jt}),
                nt  |-> Min({Min(Nts(entries)), m.nt})]}
      <4> DEFINE s == [imp |-> Min(Imps(entries)), jt |-> Min(Jts(entries)),
                       nt |-> Min(Nts(entries))]
      <4>1. Summary(entries) = {s}
        BY <2>13, SummaryIsMinima
      <4>2. /\ s.imp = Min(Imps(entries)) /\ s.jt = Min(Jts(entries))
            /\ s.nt = Min(Nts(entries))
        OBVIOUS
      <4> HIDE DEF s
      <4> QED BY <4>1, <4>2 DEF Improved
    <3> QED BY <2>10, <2>11, <3>3, <3>4 DEF r
  <2> QED BY <2>12, <2>13
<1> QED BY <1>1, <1>2

\* Every entry of the set after an insertion was there before, or is the new
\* one.
LEMMA InsertRange ==
    ASSUME NEW entries \in Seq(Entry), Ordered(entries),
           NEW m \in EntryMetrics, NEW label \in Nat
    PROVE  /\ Insert(entries, m, label) \in Seq(Entry)
           /\ Range(Insert(entries, m, label))
                \subseteq Range(entries) \cup {[m |-> m, label |-> label]}
<1> DEFINE r == Insert(entries, m, label)
<1>1. PICK k, from : IsInsertion(entries, m, label, r, k, from)
  BY InsertPlaces
<1> HIDE DEF r
<1>2. r \in Seq(Entry) /\ DOMAIN r = 1 .. Len(r) /\ DOMAIN entries = 1 .. Len(entries)
  BY <1>1 DEF IsInsertion
<1>3. \A i \in 1 .. Len(r) :
        r[i] \in Range(entries) \cup {[m |-> m, label |-> label]}
  BY <1>1, <1>2 DEF IsInsertion, Range
<1> QED BY <1>2, <1>3 DEF Range, r

------------------------------------------------------------------------------
(* Queues without repetition. *)

LEMMA TailFacts ==
    ASSUME NEW queue \in Seq(Nat), queue # <<>>, Distinct(queue)
    PROVE  /\ Tail(queue) \in Seq(Nat) /\ Distinct(Tail(queue))
           /\ Len(queue) = Len(Tail(queue)) + 1
           /\ Head(queue) \in Range(queue)
           /\ Range(Tail(queue)) = Range(queue) \ {Head(queue)}
<1> DEFINE t == Tail(queue)
<1>1. /\ Len(queue) \in Nat /\ DOMAIN queue = 1 .. Len(queue)
      /\ t \in Seq(Nat) /\ DOMAIN t = 1 .. Len(t) /\ Len(t) = Len(queue) - 1
      /\ \A i \in 1 .. Len(t) : t[i] = queue[i + 1]
      /\ Head(queue) = queue[1] /\ 1 \in DOMAIN queue
  BY HeadTailProperties
<1> HIDE DEF t
<1>2. Distinct(t)
  <2> SUFFICES ASSUME NEW i \in 1 .. Len(t), NEW j \in 1 .. Len(t), t[i] = t[j]
               PROVE  i = j
    BY <1>1 DEF Distinct
  <2>1. i + 1 \in DOMAIN queue /\ j + 1 \in DOMAIN queue
    BY <1>1
  <2>2. i + 1 = j + 1
    BY <1>1, <2>1 DEF Distinct
  <2> QED BY <1>1, <2>2
<1>3. Range(t) = Range(queue) \ {Head(queue)}
  <2>1. ASSUME NEW i \in 1 .. Len(t)
        PROVE  t[i] \in Range(queue) \ {Head(queue)}
    <3>1. i + 1 \in DOMAIN queue /\ i + 1 # 1
      BY <1>1
    <3> QED BY <1>1, <3>1, ZenonT(60) DEF Distinct, Range
  <2>2. ASSUME NEW i \in DOMAIN queue, queue[i] # Head(queue)
        PROVE  queue[i] \in Range(t)
    <3>1. i - 1 \in 1 .. Len(t) /\ (i - 1) + 1 = i
      BY <1>1, <2>2
    <3>2. t[i - 1] = queue[i]
      BY <1>1, <3>1
    <3> QED BY <1>1, <3>1, <3>2 DEF Range
  <2> QED BY <1>1, <2>1, <2>2, SMTT(30) DEF Range
<1>4. Len(queue) = Len(t) + 1
  BY <1>1
<1> QED BY <1>1, <1>2, <1>3, <1>4 DEF t, Range

LEMMA AppendFacts ==
    ASSUME NEW queue \in Seq(Nat), NEW x \in Nat
    PROVE  /\ Append(queue, x) \in Seq(Nat)
           /\ Len(Append(queue, x)) = Len(queue) + 1
           /\ Range(Append(queue, x)) = Range(queue) \cup {x}
           /\ Distinct(queue) /\ x \notin Range(queue) =>
                Distinct(Append(queue, x))
<1> DEFINE longer == Append(queue, x)
<1>1. /\ Len(queue) \in Nat /\ DOMAIN queue = 1 .. Len(queue)
      /\ longer \in Seq(Nat) /\ Len(longer) = Len(queue) + 1
      /\ DOMAIN longer = 1 .. Len(queue) + 1
      /\ longer[Len(queue) + 1] = x
      /\ \A i \in 1 .. Len(queue) : longer[i] = queue[i]
      /\ \A i \in 1 .. Len(queue) + 1 : i = Len(queue) + 1 \/ i \in 1 .. Len(queue)
      /\ Len(queue) + 1 \in 1 .. Len(queue) + 1
      /\ \A i \in 1 .. Len(queue) : i \in 1 .. Len(queue) + 1
  OBVIOUS
<1> HIDE DEF longer
<1>2. Range(longer) = Range(queue) \cup {x}
  <2>1. \A i \in DOMAIN longer : longer[i] \in Range(queue) \cup {x}
    BY <1>1 DEF Range
  <2>2. \A i \in DOMAIN queue : queue[i] \in Range(longer)
    BY <1>1 DEF Range
  <2>3. x \in Range(longer)
    BY <1>1 DEF Range
  <2> QED BY <2>1, <2>2, <2>3 DEF Range
<1>3. ASSUME Distinct(queue), x \notin Range(queue)
      PROVE  Distinct(longer)
  <2>1. \A i \in 1 .. Len(queue) : queue[i] # x
    BY <1>1, <1>3 DEF Range
  <2> QED BY <1>1, <1>3, <2>1 DEF Distinct
<1> QED BY <1>1, <1>2, <1>3 DEF longer

------------------------------------------------------------------------------

(***************************************************************************)
(* The types of the state, branch by branch and label by label.            *)
(***************************************************************************)
Legs == UNION Networks

\* The metrics of a prefix; once it has boarded, no less time has passed
\* since its departure than the access walk took.
Riding == [boarded : BOOLEAN, dep : Int, now : Nat, access : Nat, nt : Nat,
           imp : Nat]
Elapsed(m) == m.boarded => m.dep + m.access <= m.now

BranchType == [node : Nodes, phase : Phases, path : Seq(Legs), m : Riding,
               label : Nat, parent : {None}]
LabelType  == [active : BOOLEAN, parent : Nat]
CountType  == [{"current", "next"} -> [Phases -> Nat]]
StatsType  == [{"expanded", "stale", "compacted"} -> Nat]

\* Labels are allocated after those of their ancestors.
Forest(registry) == \A l \in DOMAIN registry : registry[l].parent \in 0 .. l - 1

Typing ==
    /\ network \in Networks
    /\ cancelled \in BOOLEAN
    /\ state \in {"level", "pop", "scan", "failing",
                  "stopped", "exhausted", "failed"}
    /\ branches \in Seq(BranchType)
    /\ released \subseteq DOMAIN branches
    /\ current \in Seq(Nat) /\ next \in Seq(Nat)
    /\ counts \in CountType
    /\ stats \in StatsType
    /\ labels \in Seq(LabelType)
    /\ sets \in [Nodes -> Seq(Entry)]
    /\ DOMAIN summary = Nodes

Labelled ==
    /\ Forest(labels)
    /\ \A i \in DOMAIN branches :
        /\ branches[i].label \in 0 .. Len(labels)
        /\ branches[i].m.nt <= MaxTransfers
        /\ Elapsed(branches[i].m)
        /\ branches[i].node \in Stops \/ ~branches[i].m.boarded
    /\ \A y \in Nodes : \A e \in Range(sets[y]) : e.label \in DOMAIN labels

\* Where the loop over the layers is.
Expanding ==
    /\ todo \subseteq network
    /\ state \notin {"scan", "failing"} => expanding = None
    /\ state \in {"scan", "failing"} =>
        /\ expanding \in DOMAIN branches
        /\ todo \subseteq Successors(branches[expanding])

------------------------------------------------------------------------------
\* The frontier.
Queued ==
    /\ Distinct(current) /\ Distinct(next)
    /\ Range(current) \cup Range(next) \subseteq DOMAIN branches
    /\ Range(current) \cap Range(next) = {}
    /\ expanding \notin Range(current) \cup Range(next)
    /\ Range(current) \cup Range(next) \cup ({expanding} \ {None})
         = DOMAIN branches \ released

InPhase(bs, queue, p) ==
    Cardinality({i \in DOMAIN queue : bs[queue[i]].phase = p})

Counted ==
    /\ \A p \in Phases : /\ counts.current[p] = InPhase(branches, current, p)
                         /\ counts.next[p] = InPhase(branches, next, p)
    /\ Len(branches) = stats.expanded + stats.stale + stats.compacted
                          + Len(current) + Len(next)

------------------------------------------------------------------------------
\* What an entry was when the branch, or one it descends from, passed: a
\* prefix of the branch is no worse than the branch in any criterion but the
\* departure, which only boarding changes.
PrefixOf(e, m) ==
    /\ e.imp <= m.imp /\ e.nt <= m.nt
    /\ \/ m.boarded /\ e.dep = m.dep /\ e.arr <= m.now
       \/ e.dep = 0 /\ e.arr <= m.access

\* Sets of labels with their ancestors.
ClosedIn(registry, A) ==
    /\ A \subseteq DOMAIN registry
    /\ \A l \in A : registry[l].parent \in A \cup {None}

\* The entries whose labels a branch descends from are those of its prefixes.
\* So no extension of the branch dominates them.
Descent ==
    \A i \in DOMAIN branches : \E A \in SUBSET DOMAIN labels :
        /\ ClosedIn(labels, A)
        /\ branches[i].label \in A \cup {None}
        /\ \A y \in Nodes : \A e \in Range(sets[y]) :
            e.label \in A => PrefixOf(e.m, branches[i].m)

Canonic == \A y \in Nodes : Kernel(sets[y]) /\ summary[y] = Summary(sets[y])

Pursued ==
    state \notin {"failing", "failed", "stopped"} =>
        \A y \in Nodes : \A e \in Range(sets[y]) :
            \/ ~Active(e.label)
            \/ \E b \in DOMAIN branches :
                /\ branches[b].label = e.label
                /\ branches[b].node = y
                /\ Metrics(branches[b].m) = e.m
            \/ \E path \in completed : path[Len(path)].to = y

------------------------------------------------------------------------------
\* The recursion of ActiveIn has a solution, and is therefore one.
SolvesChain(f, registry) ==
    f = [l \in 0 .. Len(registry) |->
            l # None => registry[l].active /\ f[registry[l].parent]]

ChainUpTo(f, registry, n) ==
    /\ f \in [0 .. n -> BOOLEAN]
    /\ \A l \in 0 .. n :
        f[l] = (l # None => registry[l].active /\ f[registry[l].parent])

LEMMA ChainExists ==
    ASSUME NEW registry \in Seq(LabelType), Forest(registry)
    PROVE  \E f : SolvesChain(f, registry)
<1> DEFINE Holds == {n \in 0 .. Len(registry) : \E f : ChainUpTo(f, registry, n)}
<1>0. Len(registry) \in Nat /\ DOMAIN registry = 1 .. Len(registry)
  OBVIOUS
<1>1. 0 \in Holds
  <2> DEFINE g == [l \in 0 .. 0 |-> TRUE]
  <2>1. g \in [0 .. 0 -> BOOLEAN] /\ \A l \in 0 .. 0 : l = None /\ g[l] = TRUE
    BY DEF None
  <2> HIDE DEF g
  <2>2. \A l \in 0 .. 0 :
          g[l] = (l # None => registry[l].active /\ g[registry[l].parent])
    BY <2>1, Zenon
  <2>3. ChainUpTo(g, registry, 0)
    BY <2>1, <2>2 DEF ChainUpTo
  <2> QED BY <1>0, <2>3
<1>2. ASSUME NEW n \in 1 .. Len(registry), n - 1 \in Holds
      PROVE  n \in Holds
  <2>1. PICK f : ChainUpTo(f, registry, n - 1)
    BY <1>2
  <2> DEFINE last == registry[n].active /\ f[registry[n].parent]
             g == [l \in 0 .. n |-> IF l = n THEN last ELSE f[l]]
  <2>2. /\ n \in Nat /\ n # None
        /\ registry[n] \in LabelType /\ registry[n].parent \in 0 .. n - 1
    BY <1>0 DEF Forest, None
  <2>3. last \in BOOLEAN
    BY <2>1, <2>2 DEF ChainUpTo, LabelType
  <2>4. g \in [0 .. n -> BOOLEAN]
    <3>1. f \in [0 .. n - 1 -> BOOLEAN]
      BY <2>1 DEF ChainUpTo
    <3>2. \A l \in 0 .. n : l # n => l \in 0 .. n - 1
      BY <2>2
    <3>3. \A l \in 0 .. n : l # n => f[l] \in BOOLEAN
      BY <3>1, <3>2, Zenon
    <3> HIDE DEF last
    <3> QED BY <2>3, <3>3, Zenon
  <2>5. g[n] = last /\ \A l \in 0 .. n - 1 : g[l] = f[l]
    BY <2>2
  <2> HIDE DEF g
  <2>6. ASSUME NEW l \in 0 .. n
        PROVE  g[l] = (l # None => registry[l].active /\ g[registry[l].parent])
    <3>1. CASE l = n
      <4>1. g[registry[n].parent] = f[registry[n].parent]
        BY <2>2, <2>5
      <4> QED BY <2>2, <2>5, <3>1, <4>1, Zenon
    <3>2. CASE l # n /\ l # None
      <4>1. l \in 0 .. n - 1
        BY <2>2, <3>2
      <4>2. registry[l].parent \in 0 .. n - 1
        BY <1>0, <2>2, <3>2 DEF Forest, None
      <4>3. f[l] = (l # None => registry[l].active /\ f[registry[l].parent])
        BY <2>1, <4>1 DEF ChainUpTo
      <4>4. g[l] = f[l] /\ g[registry[l].parent] = f[registry[l].parent]
        BY <2>5, <4>1, <4>2
      <4> QED BY <4>3, <4>4, Zenon
    <3>3. CASE l # n /\ l = None
      <4>1. l \in 0 .. n - 1
        BY <2>2, <3>3
      <4>2. f[l] = (l # None => registry[l].active /\ f[registry[l].parent])
        BY <2>1, <4>1 DEF ChainUpTo
      <4> QED BY <2>5, <3>3, <4>1, <4>2, Zenon
    <3> QED BY <3>1, <3>2, <3>3
  <2>7. ChainUpTo(g, registry, n)
    BY <2>4, <2>6 DEF ChainUpTo
  <2>8. n \in 0 .. Len(registry)
    BY <1>0
  <2> QED BY <2>7, <2>8
<1>3. PICK f : ChainUpTo(f, registry, Len(registry))
  <2> HIDE DEF Holds
  <2>1. 0 .. Len(registry) \subseteq Holds
    BY <1>0, <1>1, <1>2, UpTo
  <2>2. Len(registry) \in Holds
    BY <1>0, <2>1
  <2> QED BY <2>2 DEF Holds
<1>4. SolvesChain(f, registry)
  BY <1>3 DEF ChainUpTo, SolvesChain
<1> QED BY <1>4

\* retained_connection_label_active, one step up.
LEMMA ActiveUnfolds ==
    ASSUME NEW registry \in Seq(LabelType), Forest(registry)
    PROVE  /\ ActiveIn(registry, None)
           /\ \A l \in 1 .. Len(registry) :
               ActiveIn(registry, l)
                 <=> registry[l].active /\ ActiveIn(registry, registry[l].parent)
<1> DEFINE f == CHOOSE g : SolvesChain(g, registry)
<1>1. SolvesChain(f, registry)
  BY ChainExists, Zenon
<1>2. \A l : ActiveIn(registry, l) = f[l]
  BY DEF ActiveIn, SolvesChain
<1> HIDE DEF f
<1>3. \A l \in 0 .. Len(registry) :
        f[l] = (l # None => registry[l].active /\ f[registry[l].parent])
  BY <1>1 DEF SolvesChain
<1>4. Len(registry) \in Nat /\ None \in 0 .. Len(registry)
      /\ \A l \in 1 .. Len(registry) : l \in 0 .. Len(registry) /\ l # None
  BY DEF None
<1>5. f[None]
  BY <1>3, <1>4, Zenon
<1>6. \A l \in 1 .. Len(registry) :
        f[l] <=> registry[l].active /\ f[registry[l].parent]
  BY <1>3, <1>4, Zenon
<1> QED BY <1>2, <1>5, <1>6, Zenon

\* What outlives a label's death: a label active in the later of two
\* registries, which only deactivates and appends, was active in the earlier.
LEMMA DeadStaysDead ==
    ASSUME NEW old \in Seq(LabelType), Forest(old),
           NEW new \in Seq(LabelType), Forest(new),
           Len(old) <= Len(new),
           \A l \in 1 .. Len(old) : /\ new[l].parent = old[l].parent
                                    /\ new[l].active => old[l].active,
           NEW label \in 0 .. Len(old), ActiveIn(new, label)
    PROVE  ActiveIn(old, label)
<1> DEFINE Bad == {l \in 0 .. Len(old) : ActiveIn(new, l) /\ ~ActiveIn(old, l)}
<1>1. Len(old) \in Nat /\ DOMAIN old = 1 .. Len(old)
      /\ Len(new) \in Nat /\ DOMAIN new = 1 .. Len(new)
  OBVIOUS
<1>2. ASSUME Bad # {}
      PROVE  FALSE
  <2>1. PICK l \in Bad : \A k \in Bad : l <= k
    <3>1. Bad \in SUBSET Nat
      BY <1>1
    <3> HIDE DEF Bad
    <3> QED BY <1>2, <3>1, LeastNumber
  <2>2. l # None
    BY <2>1, ActiveUnfolds
  <2>3. l \in 1 .. Len(old) /\ l \in 1 .. Len(new)
    BY <1>1, <2>1, <2>2 DEF None
  <2>4. new[l].active /\ ActiveIn(new, new[l].parent)
    BY <2>1, <2>3, ActiveUnfolds
  <2>5. ~ActiveIn(old, old[l].parent)
    BY <2>1, <2>3, <2>4, ActiveUnfolds
  <2>6. old[l].parent \in 0 .. l - 1
    BY <1>1, <2>3 DEF Forest
  <2>7. old[l].parent \in Bad /\ ~(l <= old[l].parent)
    BY <1>1, <2>3, <2>4, <2>5, <2>6
  <2> QED BY <2>1, <2>7
<1> QED BY <1>2

\* Of labels that keep their flags together with all their ancestors, those
\* that were active stay so.
LEMMA ClosedStaysActive ==
    ASSUME NEW old \in Seq(LabelType), Forest(old),
           NEW new \in Seq(LabelType), Forest(new),
           Len(old) <= Len(new), NEW A, ClosedIn(old, A),
           \A l \in A : /\ new[l].parent = old[l].parent
                        /\ old[l].active => new[l].active,
           NEW label \in A \cup {None}, ActiveIn(old, label)
    PROVE  ActiveIn(new, label)
<1> DEFINE Bad == {l \in A : ActiveIn(old, l) /\ ~ActiveIn(new, l)}
<1>1. Len(old) \in Nat /\ DOMAIN old = 1 .. Len(old)
      /\ Len(new) \in Nat /\ DOMAIN new = 1 .. Len(new)
      /\ A \subseteq 1 .. Len(old)
  BY DEF ClosedIn
<1>2. ASSUME Bad # {}
      PROVE  FALSE
  <2>1. PICK l \in Bad : \A k \in Bad : l <= k
    <3>1. 1 .. Len(old) \subseteq Nat /\ Bad \subseteq A
      OBVIOUS
    <3>2. Bad \in SUBSET Nat
      <4> HIDE DEF Bad
      <4> QED BY <1>1, <3>1
    <3> HIDE DEF Bad
    <3> QED BY <1>2, <3>2, LeastNumber
  <2>2. l \in A /\ l \in 1 .. Len(old) /\ l \in 1 .. Len(new)
    BY <1>1, <2>1
  <2>3. old[l].active /\ ActiveIn(old, old[l].parent)
    BY <2>1, <2>2, ActiveUnfolds
  <2>4. ~ActiveIn(new, old[l].parent)
    BY <2>1, <2>2, <2>3, ActiveUnfolds
  <2>5. old[l].parent \in 0 .. l - 1 /\ old[l].parent \in A \cup {None}
    BY <1>1, <2>2 DEF Forest, ClosedIn
  <2>6. old[l].parent # None
    BY <2>4, ActiveUnfolds
  <2>7. old[l].parent \in Bad /\ ~(l <= old[l].parent)
    BY <1>1, <2>2, <2>3, <2>4, <2>5, <2>6
  <2> QED BY <2>1, <2>7
<1>3. CASE label = None
  BY <1>3, ActiveUnfolds
<1>4. CASE label \in A
  BY <1>2, <1>4
<1> QED BY <1>3, <1>4

------------------------------------------------------------------------------
\* What one leg does to the metrics: no criterion gets better but the
\* departure, which the first boarding sets for good.
Grows(m, n) ==
    /\ m.imp <= n.imp /\ m.nt <= n.nt /\ m.access <= n.access
    /\ m.boarded => n.boarded /\ n.dep = m.dep /\ m.now <= n.now

LEMMA LegFields ==
    ASSUME NEW leg \in Legs
    PROVE  /\ leg.from \in Nodes /\ leg.to \in Nodes
           /\ \/ leg.kind = "walk" /\ leg.time \in Nat
              \/ /\ leg.kind = "ride" /\ leg.from \in Stops /\ leg.to \in Stops
                 /\ leg.dep \in Nat /\ leg.arr \in Nat /\ leg.dep <= leg.arr
                 /\ leg.fare \in Nat
BY LegsAssumption DEF Legs

LEMMA ExtendGrows ==
    ASSUME network \in Networks, NEW b \in BranchType, Elapsed(b.m),
           NEW leg \in Successors(b)
    PROVE  /\ Extend(b.m, leg) \in Riding
           /\ Elapsed(Extend(b.m, leg))
           /\ Grows(b.m, Extend(b.m, leg))
<1> DEFINE m == b.m
           n == Extend(b.m, leg)
<1>1. m \in Riding
  BY DEF BranchType
<1>0. /\ m.boarded \in BOOLEAN /\ m.dep \in Int /\ m.now \in Nat
      /\ m.access \in Nat /\ m.nt \in Nat /\ m.imp \in Nat
      /\ m.boarded => m.dep + m.access <= m.now
  BY <1>1 DEF Riding, Elapsed
<1>2. leg \in Legs
  BY DEF Successors, Legs
<1>3. \A x, y \in Nat : x * y \in Nat
  OBVIOUS
<1>4. WalkWeight \in Nat /\ WaitWeight \in Nat /\ TransferPenalty \in Nat
  BY WeightsAssumption
<1>5. CASE leg.kind = "walk"
  <2>1. leg.time \in Nat /\ leg.kind # "ride"
    BY <1>2, <1>5, LegFields
  <2>2. WalkWeight * leg.time \in Nat
    BY <1>3, <1>4, <2>1
  <2>3. CASE ~m.boarded
    <3>1. n = [m EXCEPT !.access = @ + leg.time,
                        !.imp = @ + WalkWeight * leg.time]
      BY <1>5, <2>3 DEF Extend
    <3> HIDE DEF m, n
    <3>2. n = [boarded |-> FALSE, dep |-> m.dep, now |-> m.now,
               access |-> m.access + leg.time, nt |-> m.nt,
               imp |-> m.imp + WalkWeight * leg.time]
      BY <1>1, <2>3, <3>1 DEF Riding
    <3>3. n \in Riding /\ Elapsed(n) /\ Grows(m, n)
      BY <1>0, <3>2, <2>1, <2>2, <2>3 DEF Riding, Elapsed, Grows
    <3> QED BY <3>3 DEF m, n
  <2>4. CASE m.boarded
    <3>1. n = [m EXCEPT !.now = @ + leg.time,
                        !.imp = @ + WalkWeight * leg.time]
      BY <1>5, <2>4 DEF Extend
    <3> HIDE DEF m, n
    <3>2. n = [boarded |-> TRUE, dep |-> m.dep, now |-> m.now + leg.time,
               access |-> m.access, nt |-> m.nt,
               imp |-> m.imp + WalkWeight * leg.time]
      BY <1>1, <2>4, <3>1 DEF Riding
    <3>3. n \in Riding /\ Elapsed(n) /\ Grows(m, n)
      BY <1>0, <3>2, <2>1, <2>2, <2>4 DEF Riding, Elapsed, Grows
    <3> QED BY <3>3 DEF m, n
  <2> QED BY <2>3, <2>4
<1>6. CASE leg.kind = "ride"
  <2>1. /\ leg.dep \in Nat /\ leg.arr \in Nat /\ leg.dep <= leg.arr
        /\ leg.fare \in Nat /\ leg.kind # "walk"
    BY <1>2, <1>6, LegFields
  <2>2. RideAdmitted(b, leg)
    BY <1>6, <2>1 DEF Successors
  <2>3. CASE ~m.boarded
    <3>1. n = [m EXCEPT !.boarded = TRUE, !.dep = leg.dep - m.access,
                        !.now = leg.arr,
                        !.imp = @ + (leg.arr - leg.dep) + leg.fare]
      BY <1>6, <2>1, <2>3 DEF Extend
    <3> HIDE DEF m, n
    <3>2. n = [boarded |-> TRUE, dep |-> leg.dep - m.access, now |-> leg.arr,
               access |-> m.access, nt |-> m.nt,
               imp |-> m.imp + (leg.arr - leg.dep) + leg.fare]
      BY <1>1, <2>3, <3>1 DEF Riding
    <3>3. n \in Riding /\ Elapsed(n) /\ Grows(m, n)
      BY <1>0, <3>2, <2>1, <2>3 DEF Riding, Elapsed, Grows
    <3> QED BY <3>3 DEF m, n
  <2>4. CASE m.boarded
    <3>1. n = [m EXCEPT !.now = leg.arr, !.nt = @ + 1,
                        !.imp = @ + WaitWeight * (leg.dep - m.now)
                                  + TransferPenalty
                                  + (leg.arr - leg.dep) + leg.fare]
      BY <1>6, <2>1, <2>4 DEF Extend
    <3>2. leg.dep - m.now \in Nat
      <4>1. leg.dep - m.now \in MinWait .. MaxWait
        BY <2>2, <2>4 DEF RideAdmitted
      <4>2. MinWait \in Nat /\ MaxWait \in Nat
        BY LimitsAssumption
      <4> QED BY <4>1, <4>2
    <3>3. WaitWeight * (leg.dep - m.now) \in Nat
      BY <1>3, <1>4, <3>2
    <3>4. m.now <= leg.arr
      BY <1>1, <2>1, <3>2 DEF Riding
    <3> HIDE DEF m, n
    <3>5. n = [boarded |-> TRUE, dep |-> m.dep, now |-> leg.arr,
               access |-> m.access, nt |-> m.nt + 1,
               imp |-> m.imp + WaitWeight * (leg.dep - m.now)
                         + TransferPenalty
                         + (leg.arr - leg.dep) + leg.fare]
      BY <1>1, <2>4, <3>1 DEF Riding
    <3>6. n \in Riding /\ Elapsed(n) /\ Grows(m, n)
      BY <1>0, <3>5, <1>4, <2>1, <2>4, <3>3, <3>4 DEF Riding, Elapsed, Grows
    <3> QED BY <3>6 DEF m, n
  <2> QED BY <2>3, <2>4
<1> QED BY <1>2, <1>5, <1>6, LegFields

\* The metrics C_y compares.
LEMMA MetricsTyped ==
    ASSUME NEW m \in Riding, Elapsed(m)
    PROVE  Metrics(m) \in EntryMetrics
<1>1. CASE m.boarded
  <2>1. m.now - m.dep \in Nat
    BY <1>1 DEF Riding, Elapsed
  <2> QED BY <1>1, <2>1 DEF Metrics, EntryMetrics, Riding
<1>2. CASE ~m.boarded
  BY <1>2 DEF Metrics, EntryMetrics, Riding
<1> QED BY <1>1, <1>2

LEMMA PrefixOfItself ==
    ASSUME NEW m \in Riding, Elapsed(m)
    PROVE  PrefixOf(Metrics(m), m)
BY DEF Riding, Metrics, PrefixOf

LEMMA PrefixOfExtension ==
    ASSUME NEW e \in EntryMetrics, NEW m \in Riding, NEW n \in Riding,
           PrefixOf(e, m), Grows(m, n)
    PROVE  PrefixOf(e, n)
BY DEF EntryMetrics, Riding, PrefixOf, Grows

LEMMA PrefixNotDominated ==
    ASSUME NEW e \in EntryMetrics, NEW m \in Riding, Elapsed(m), PrefixOf(e, m)
    PROVE  ~Dominates(Metrics(m), e)
<1>1. CASE m.boarded
  BY <1>1 DEF EntryMetrics, Riding, Elapsed, PrefixOf, Metrics, Dominates
<1>2. CASE ~m.boarded
  BY <1>2 DEF EntryMetrics, Riding, Elapsed, PrefixOf, Metrics, Dominates
<1> QED BY <1>1, <1>2

------------------------------------------------------------------------------
\* The branches of a queue by phase: counting places, counting branches.
OfPhase(bs, R, p) == {i \in R : bs[i].phase = p}

LEMMA CountBranches ==
    ASSUME NEW bs, NEW queue \in Seq(Nat), Distinct(queue), NEW p
    PROVE  /\ IsFiniteSet(OfPhase(bs, Range(queue), p))
           /\ InPhase(bs, queue, p) = Cardinality(OfPhase(bs, Range(queue), p))
           /\ InPhase(bs, queue, p) \in Nat
<1> DEFINE S == {i \in DOMAIN queue : bs[queue[i]].phase = p}
           T == OfPhase(bs, Range(queue), p)
           f == [i \in S |-> queue[i]]
<1>1. Len(queue) \in Nat /\ DOMAIN queue = 1 .. Len(queue)
  OBVIOUS
<1>2. IsFiniteSet(S) /\ Cardinality(S) \in Nat
  <2>1. IsFiniteSet(DOMAIN queue)
    BY <1>1, IntervalCount
  <2>2. S \in SUBSET DOMAIN queue
    OBVIOUS
  <2> HIDE DEF S
  <2> QED BY <2>1, <2>2, FS_Subset, FS_CardinalityType
<1>3. f \in Bijection(S, T)
  <2>1. f \in [S -> T]
    BY DEF Range, OfPhase
  <2>2. \A i, j \in S : f[i] = f[j] => i = j
    BY DEF Distinct
  <2>3. \A t \in T : \E i \in S : f[i] = t
    BY DEF Range, OfPhase
  <2> HIDE DEF S, T, f
  <2> QED BY <2>1, <2>2, <2>3
          DEF Bijection, Injection, Surjection, IsInjective
<1>4. ExistsBijection(S, T)
  <2> HIDE DEF S, T, f
  <2> QED BY <1>3 DEF ExistsBijection
<1>5. IsFiniteSet(T) /\ Cardinality(T) = Cardinality(S)
  <2> HIDE DEF S, T
  <2> QED BY <1>2, <1>4, FS_Bijection
<1> QED BY <1>2, <1>5 DEF InPhase

\* A branch joins the queue.
LEMMA CountJoined ==
    ASSUME NEW bs, NEW queue \in Seq(Nat), NEW x \in Nat, NEW p
    PROVE  InPhase(bs, Append(queue, x), p)
             = InPhase(bs, queue, p) + (IF bs[x].phase = p THEN 1 ELSE 0)
<1> DEFINE S == {i \in DOMAIN queue : bs[queue[i]].phase = p}
           longer == Append(queue, x)
           L == {i \in DOMAIN longer : bs[longer[i]].phase = p}
           k == Len(queue) + 1
<1>1. /\ Len(queue) \in Nat /\ DOMAIN queue = 1 .. Len(queue)
      /\ DOMAIN longer = 1 .. k /\ longer[k] = x
      /\ \A i \in 1 .. Len(queue) : longer[i] = queue[i]
  OBVIOUS
<1>2. IsFiniteSet(S) /\ Cardinality(S) \in Nat
  <2>1. IsFiniteSet(DOMAIN queue)
    BY <1>1, IntervalCount
  <2>2. S \in SUBSET DOMAIN queue
    OBVIOUS
  <2> HIDE DEF S
  <2> QED BY <2>1, <2>2, FS_Subset, FS_CardinalityType
<1>3. k \notin S
  BY <1>1
<1> HIDE DEF longer
<1>4. L = IF bs[x].phase = p THEN S \cup {k} ELSE S
  BY <1>1
<1>5. Cardinality(S \cup {k}) = Cardinality(S) + 1
  <2> HIDE DEF S, k
  <2> QED BY <1>2, <1>3, FS_AddElement
<1>6. Cardinality(L) = Cardinality(S) + (IF bs[x].phase = p THEN 1 ELSE 0)
  <2> HIDE DEF S, L, k
  <2> QED BY <1>2, <1>4, <1>5
<1> QED BY <1>6 DEF InPhase, longer

\* Of the branches of a queue, some are taken out.
LEMMA CountTakenOut ==
    ASSUME NEW bs, NEW queue \in Seq(Nat), Distinct(queue),
           NEW rest \in Seq(Nat), Distinct(rest),
           Range(rest) \subseteq Range(queue), NEW p
    PROVE  LET gone == OfPhase(bs, Range(queue) \ Range(rest), p)
           IN  /\ Cardinality(gone) \in Nat
               /\ InPhase(bs, queue, p) = InPhase(bs, rest, p) + Cardinality(gone)
<1> DEFINE Q == OfPhase(bs, Range(queue), p)
           R == OfPhase(bs, Range(rest), p)
           gone == OfPhase(bs, Range(queue) \ Range(rest), p)
<1>1. IsFiniteSet(Q) /\ InPhase(bs, queue, p) = Cardinality(Q)
  BY CountBranches
<1>2. IsFiniteSet(R) /\ InPhase(bs, rest, p) = Cardinality(R)
  BY CountBranches
<1>3. Q \cap R = R /\ Q \ R = gone
  BY DEF OfPhase
<1> HIDE DEF Q, R, gone
<1>4. IsFiniteSet(gone) /\ Cardinality(gone) = Cardinality(Q) - Cardinality(R)
  <2>1. /\ IsFiniteSet(Q \ R)
        /\ Cardinality(Q \ R) = Cardinality(Q) - Cardinality(Q \cap R)
    BY <1>1, FS_Difference
  <2> QED BY <1>3, <2>1
<1>5. Cardinality(Q) \in Nat /\ Cardinality(R) \in Nat /\ Cardinality(gone) \in Nat
  BY <1>1, <1>2, <1>4, FS_CardinalityType
<1>6. /\ Cardinality(gone) \in Nat
      /\ InPhase(bs, queue, p) = InPhase(bs, rest, p) + Cardinality(gone)
  BY <1>1, <1>2, <1>4, <1>5
<1> QED BY <1>6 DEF gone

\* The branch at the head of the queue comes up.
LEMMA CountHead ==
    ASSUME NEW bs, NEW queue \in Seq(Nat), queue # <<>>, Distinct(queue), NEW p
    PROVE  InPhase(bs, queue, p)
             = InPhase(bs, Tail(queue), p)
                 + (IF bs[Head(queue)].phase = p THEN 1 ELSE 0)
<1> DEFINE t == Tail(queue)
           h == Head(queue)
           gone == OfPhase(bs, Range(queue) \ Range(t), p)
<1>1. /\ t \in Seq(Nat) /\ Distinct(t) /\ Range(t) \subseteq Range(queue)
      /\ Range(queue) \ Range(t) = {h}
  BY TailFacts
<1> HIDE DEF t, h
<1>2. InPhase(bs, queue, p) = InPhase(bs, t, p) + Cardinality(gone)
  BY <1>1, CountTakenOut
<1>3. gone = IF bs[h].phase = p THEN {h} ELSE {}
  BY <1>1 DEF OfPhase
<1>4. Cardinality(gone) = IF bs[h].phase = p THEN 1 ELSE 0
  <2> HIDE DEF gone
  <2> QED BY <1>3, FS_Singleton, FS_EmptySet
<1> QED BY <1>2, <1>4 DEF t, h

------------------------------------------------------------------------------
\* What the layers are after the frontier was compacted, or was not: some
\* branches are gone, all of them dead, and the counts know.
Shrunk(c, registry) ==
    /\ c.current \in Seq(Nat) /\ Distinct(c.current)
    /\ Range(c.current) \subseteq Range(current)
    /\ c.next \in Seq(Nat) /\ Distinct(c.next)
    /\ Range(c.next) \subseteq Range(next)
    /\ c.dropped = (Range(current) \ Range(c.current))
                      \cup (Range(next) \ Range(c.next))
    /\ \A i \in c.dropped : ~ActiveIn(registry, branches[i].label)
    /\ c.removed \in Nat
    /\ Len(current) + Len(next) = Len(c.current) + Len(c.next) + c.removed
    /\ c.counts \in CountType
    /\ \A p \in Phases :
        /\ c.counts.current[p] = InPhase(branches, c.current, p)
        /\ c.counts.next[p] = InPhase(branches, c.next, p)

LEMMA KeptFacts ==
    ASSUME NEW queue \in Seq(Nat), Distinct(queue),
           Range(queue) \cap released = {}, NEW registry
    PROVE  /\ Kept(queue, registry) \in Seq(Nat)
           /\ Distinct(Kept(queue, registry))
           /\ Len(Kept(queue, registry)) <= Len(queue)
           /\ Range(Kept(queue, registry))
                = Range(queue) \ Dropped(queue, registry)
           /\ Dropped(queue, registry) \subseteq Range(queue)
<1> DEFINE stays == Range(queue) \ (released \cup Dropped(queue, registry))
<1>1. Range(queue) \cap stays = Range(queue) \ Dropped(queue, registry)
  OBVIOUS
<1>2. Kept(queue, registry) = Selected(queue, stays)
  BY DEF Kept
<1> HIDE DEF stays
<1>3. Dropped(queue, registry) \subseteq Range(queue)
  BY DEF Dropped
<1>4. /\ Selected(queue, stays) \in Seq(Nat)
      /\ Len(Selected(queue, stays)) <= Len(queue)
      /\ Range(Selected(queue, stays)) = Range(queue) \cap stays
      /\ Distinct(Selected(queue, stays))
  BY SelectionKeeps
<1> QED BY <1>1, <1>2, <1>3, <1>4

LEMMA CountKept ==
    ASSUME NEW queue \in Seq(Nat), Distinct(queue),
           Range(queue) \cap released = {}, NEW registry,
           NEW count \in [Phases -> Nat],
           \A p \in Phases : count[p] = InPhase(branches, queue, p)
    PROVE  /\ CountsWithout(count, Dropped(queue, registry)) \in [Phases -> Nat]
           /\ \A p \in Phases :
               CountsWithout(count, Dropped(queue, registry))[p]
                 = InPhase(branches, Kept(queue, registry), p)
<1> DEFINE kept == Kept(queue, registry)
           gone == Dropped(queue, registry)
<1>1. /\ kept \in Seq(Nat) /\ Distinct(kept) /\ Range(kept) \subseteq Range(queue)
      /\ Range(queue) \ Range(kept) = gone
  BY KeptFacts
<1> HIDE DEF kept, gone
<1>2. ASSUME NEW p \in Phases
      PROVE  /\ CountsWithout(count, gone)[p] = InPhase(branches, kept, p)
             /\ InPhase(branches, kept, p) \in Nat
  <2>1. /\ Cardinality(OfPhase(branches, gone, p)) \in Nat
        /\ InPhase(branches, queue, p)
             = InPhase(branches, kept, p) + Cardinality(OfPhase(branches, gone, p))
    <3> DEFINE taken == OfPhase(branches, Range(queue) \ Range(kept), p)
    <3>1. /\ Cardinality(taken) \in Nat
          /\ InPhase(branches, queue, p)
               = InPhase(branches, kept, p) + Cardinality(taken)
      BY <1>1, CountTakenOut, ZenonT(60)
    <3> QED BY <1>1, <3>1
  <2>2. InPhase(branches, kept, p) \in Nat
    BY <1>1, CountBranches
  <2>3. CountsWithout(count, gone)[p]
          = Minus(count[p], Cardinality(OfPhase(branches, gone, p)))
    BY DEF CountsWithout, OfPhase
  <2>4. count[p] = InPhase(branches, queue, p)
    OBVIOUS
  <2> QED BY <2>1, <2>2, <2>3, <2>4 DEF Minus
<1>3. CountsWithout(count, gone) = [p \in Phases |-> CountsWithout(count, gone)[p]]
  BY DEF CountsWithout
<1>4. CountsWithout(count, gone) \in [Phases -> Nat]
  BY <1>2, <1>3
<1> QED BY <1>2, <1>4 DEF kept, gone

LEMMA CompactionShrinks ==
    ASSUME Typing, Queued, Counted, expanding \in Nat, NEW registry
    PROVE  Shrunk(Compacted(registry), registry)
<1> DEFINE c == Compacted(registry)
           keptC == Kept(current, registry)
           keptN == Kept(next, registry)
           goneC == Dropped(current, registry)
           goneN == Dropped(next, registry)
<1>1. /\ c.current = keptC /\ c.next = keptN
      /\ c.counts = [current |-> CountsWithout(counts.current, goneC),
                     next |-> CountsWithout(counts.next, goneN)]
      /\ c.dropped = goneC \cup goneN
      /\ c.removed = Len(current) + Len(next) - Len(keptC) - Len(keptN)
  BY DEF Compacted
<1>2. Range(current) \cap released = {} /\ Range(next) \cap released = {}
  BY DEF Queued
<1>3. /\ current \in Seq(Nat) /\ Distinct(current)
      /\ next \in Seq(Nat) /\ Distinct(next)
  BY DEF Queued, Typing
<1>4. /\ keptC \in Seq(Nat) /\ Distinct(keptC) /\ Len(keptC) <= Len(current)
      /\ Range(keptC) = Range(current) \ goneC /\ goneC \subseteq Range(current)
  BY <1>2, <1>3, KeptFacts
<1>5. /\ keptN \in Seq(Nat) /\ Distinct(keptN) /\ Len(keptN) <= Len(next)
      /\ Range(keptN) = Range(next) \ goneN /\ goneN \subseteq Range(next)
  BY <1>2, <1>3, KeptFacts
<1>6. \A i \in goneC \cup goneN : ~ActiveIn(registry, branches[i].label)
  BY DEF Dropped
<1>7. /\ counts.current \in [Phases -> Nat]
      /\ \A p \in Phases : counts.current[p] = InPhase(branches, current, p)
  BY DEF Typing, Counted, CountType
<1>15. /\ counts.next \in [Phases -> Nat]
       /\ \A p \in Phases : counts.next[p] = InPhase(branches, next, p)
  BY DEF Typing, Counted, CountType
<1>8. /\ CountsWithout(counts.current, goneC) \in [Phases -> Nat]
      /\ \A p \in Phases : CountsWithout(counts.current, goneC)[p]
                             = InPhase(branches, keptC, p)
  BY <1>2, <1>3, <1>7, CountKept, SMTT(30)
<1>9. /\ CountsWithout(counts.next, goneN) \in [Phases -> Nat]
      /\ \A p \in Phases : CountsWithout(counts.next, goneN)[p]
                             = InPhase(branches, keptN, p)
  BY <1>2, <1>3, <1>15, CountKept
<1>10. /\ Len(current) \in Nat /\ Len(next) \in Nat
       /\ Len(keptC) \in Nat /\ Len(keptN) \in Nat
  BY <1>3, <1>4, <1>5
<1> HIDE DEF c, keptC, keptN, goneC, goneN
<1>11. /\ c.removed \in Nat
       /\ Len(current) + Len(next) = Len(c.current) + Len(c.next) + c.removed
  BY <1>1, <1>4, <1>5, <1>10
<1>12. /\ c.counts \in CountType
       /\ c.counts.current = CountsWithout(counts.current, goneC)
       /\ c.counts.next = CountsWithout(counts.next, goneN)
  BY <1>1, <1>8, <1>9 DEF CountType
<1>13. c.dropped = (Range(current) \ Range(c.current))
                      \cup (Range(next) \ Range(c.next))
  BY <1>1, <1>4, <1>5
<1>14. /\ Range(c.current) \subseteq Range(current)
       /\ Range(c.next) \subseteq Range(next)
  BY <1>1, <1>4, <1>5
<1> QED BY <1>1, <1>4, <1>5, <1>6, <1>8, <1>9, <1>11, <1>12, <1>13, <1>14
        DEF Shrunk, c

LEMMA NoCompactionShrinks ==
    ASSUME Typing, Queued, Counted, NEW registry
    PROVE  Shrunk([current |-> current, next |-> next, counts |-> counts,
                   dropped |-> {}, removed |-> 0], registry)
<1> DEFINE c == [current |-> current, next |-> next, counts |-> counts,
                 dropped |-> {}, removed |-> 0]
<1>1. /\ c.current = current /\ c.next = next /\ c.counts = counts
      /\ c.dropped = {} /\ c.removed = 0
  OBVIOUS
<1>2. Len(current) \in Nat /\ Len(next) \in Nat
  BY DEF Typing
<1> HIDE DEF c
<1>3. Shrunk(c, registry)
  BY <1>1, <1>2 DEF Shrunk, Typing, Queued, Counted
<1> QED BY <1>3 DEF c

------------------------------------------------------------------------------
\* Dead entries are dropped; the rest is still a connection set, and its
\* summary the summary of the rest.
LEMMA FreshFacts ==
    ASSUME Typing, Canonic, NEW y \in Nodes
    PROVE  /\ Fresh(y) \in Seq(Entry)
           /\ Range(Fresh(y)) = {e \in Range(sets[y]) : Active(e.label)}
           /\ Kernel(Fresh(y))
           /\ FreshSummary(y) = Summary(Fresh(y))
<1> DEFINE alive == {e \in Range(sets[y]) : Active(e.label)}
<1>1. sets[y] \in Seq(Entry) /\ Kernel(sets[y]) /\ summary[y] = Summary(sets[y])
  BY DEF Typing, Canonic
<1>2. Fresh(y) = Selected(sets[y], alive)
  BY DEF Fresh
<1>3. Range(sets[y]) \cap alive = alive
  OBVIOUS
<1> HIDE DEF alive
<1>4. /\ Fresh(y) \in Seq(Entry)
      /\ Range(Fresh(y)) = alive
      /\ Kernel(Fresh(y))
  <2>1. /\ Selected(sets[y], alive) \in Seq(Entry)
        /\ Range(Selected(sets[y], alive)) = Range(sets[y]) \cap alive
    BY <1>1, SelectionKeeps
  <2>2. Kernel(Selected(sets[y], alive))
    BY <1>1, SelectionKeepsKernel
  <2> QED BY <1>2, <1>3, <2>1, <2>2
<1>5. FreshSummary(y) = Summary(Fresh(y))
  BY <1>1 DEF FreshSummary
<1> QED BY <1>4, <1>5 DEF alive

------------------------------------------------------------------------------
\* The inductive invariant.
Levelled(bs, level, below) ==
    /\ \A i, j \in level : Len(bs[i].path) = Len(bs[j].path)
    /\ \A i, j \in below : Len(bs[i].path) = Len(bs[j].path)
    /\ \A i \in level, j \in below : Len(bs[j].path) = Len(bs[i].path) + 1

Levels ==
    Levelled(branches, Range(current) \cup ({expanding} \ {None}), Range(next))

IInv ==
    /\ Typing
    /\ Labelled
    /\ Expanding
    /\ Queued
    /\ Counted
    /\ Levels
    /\ ExpandedStaysActive
    /\ Descent
    /\ Canonic
    /\ Pursued

LEMMA RootTyped == Root \in BranchType /\ Root.phase = "AtOrigin"
                   /\ Root.label = None /\ Root.node = Origin
                   /\ Root.m.boarded = FALSE /\ Root.m.nt = 0
                   /\ Elapsed(Root.m)
<1> DEFINE m == [boarded |-> FALSE, dep |-> 0, now |-> 0, access |-> 0,
                 nt |-> 0, imp |-> 0]
<1>1. m \in Riding /\ m.boarded = FALSE /\ m.nt = 0
  BY DEF Riding
<1>2. Root.m = m /\ Root.phase = "AtOrigin" /\ Root.label = None /\ Root.node = Origin
  BY DEF Root
<1>3. Elapsed(Root.m)
  BY <1>1, <1>2 DEF Elapsed
<1>4. Origin \in Nodes /\ "AtOrigin" \in Phases /\ None \in Nat /\ <<>> \in Seq(Legs)
  BY DEF Nodes, Zones, Phases, None
<1>5. Root = [node |-> Origin, phase |-> "AtOrigin", path |-> <<>>, m |-> m,
              label |-> None, parent |-> None]
  BY DEF Root
<1> HIDE DEF m
<1>6. Root \in BranchType
  BY <1>1, <1>4, <1>5 DEF BranchType
<1> QED BY <1>1, <1>2, <1>3, <1>6

LEMMA InitHolds == Init => IInv
<1> SUFFICES ASSUME Init PROVE IInv
  OBVIOUS
<1>1. /\ branches = <<Root>> /\ Len(branches) = 1 /\ DOMAIN branches = {1}
      /\ branches[1] = Root /\ branches \in Seq(BranchType)
  BY RootTyped DEF Init
<1>2. /\ current = <<1>> /\ Len(current) = 1 /\ DOMAIN current = {1}
      /\ current[1] = 1 /\ current \in Seq(Nat) /\ Range(current) = {1}
  BY DEF Init, Range
<1>3. /\ next = <<>> /\ Len(next) = 0 /\ DOMAIN next = {} /\ next \in Seq(Nat)
      /\ Range(next) = {}
  BY DEF Init, Range
<1>4. /\ labels = <<>> /\ Len(labels) = 0 /\ DOMAIN labels = {}
      /\ labels \in Seq(LabelType)
  BY DEF Init
<1>5. /\ sets \in [Nodes -> Seq(Entry)]
      /\ \A y \in Nodes : sets[y] = <<>> /\ Range(sets[y]) = {}
  BY DEF Init, Range
<1>6. NoCounts \in [Phases -> Nat] /\ \A p \in Phases : NoCounts[p] = 0
  BY DEF NoCounts
<1>7. /\ counts \in CountType
      /\ \A p \in Phases : /\ counts.current[p] = IF p = "AtOrigin" THEN 1 ELSE 0
                           /\ counts.next[p] = 0
  <2> DEFINE one == [NoCounts EXCEPT !["AtOrigin"] = 1]
  <2>1. /\ one \in [Phases -> Nat]
        /\ \A p \in Phases : one[p] = IF p = "AtOrigin" THEN 1 ELSE 0
    BY <1>6 DEF Phases
  <2>2. counts = [current |-> one, next |-> NoCounts]
    BY DEF Init
  <2> HIDE DEF one
  <2>3. counts.current = one /\ counts.next = NoCounts
    BY <2>2
  <2>4. counts \in CountType
    BY <1>6, <2>1, <2>2 DEF CountType
  <2> QED BY <1>6, <2>1, <2>3, <2>4
<1>8. /\ stats \in StatsType
      /\ stats.expanded = 0 /\ stats.stale = 0 /\ stats.compacted = 0
  BY DEF Init, StatsType
<1>9. Typing
  BY <1>1, <1>2, <1>3, <1>4, <1>5, <1>7, <1>8 DEF Typing, Init
<1>10. Labelled
  <2>1. Root.m.nt <= MaxTransfers
    BY RootTyped, MaxTransfersAssumption
  <2> QED BY <1>1, <1>4, <1>5, <2>1, RootTyped DEF Labelled, Forest, None
<1>11. expanding = None /\ None = 0 /\ state = "level" /\ todo = {} /\ released = {}
  BY DEF Init, None
<1>12. Expanding
  BY <1>11 DEF Expanding
<1>13. Queued
  BY <1>1, <1>2, <1>3, <1>11 DEF Queued, Distinct
<1>14. Counted
  <2>1. ASSUME NEW p \in Phases
        PROVE  /\ InPhase(branches, current, p)
                    = IF p = "AtOrigin" THEN 1 ELSE 0
               /\ InPhase(branches, next, p) = 0
    <3>1. {i \in DOMAIN next : branches[next[i]].phase = p} = {}
      BY <1>3
    <3>2. {i \in DOMAIN current : branches[current[i]].phase = p}
            = IF p = "AtOrigin" THEN {1} ELSE {}
      BY <1>1, <1>2, RootTyped
    <3> QED BY <3>1, <3>2, FS_EmptySet, FS_Singleton DEF InPhase
  <2> QED BY <1>1, <1>2, <1>3, <1>7, <1>8, <2>1 DEF Counted
<1>15. Levels
  BY <1>1, <1>2, <1>3, <1>11 DEF Levels, Levelled
<1>16. ExpandedStaysActive
  BY <1>11 DEF ExpandedStaysActive
<1>17. Descent
  <2>1. ClosedIn(labels, {}) /\ {} \in SUBSET DOMAIN labels
    BY DEF ClosedIn
  <2>2. \A i \in DOMAIN branches : branches[i].label \in {} \cup {None}
    BY <1>1, RootTyped
  <2> QED BY <1>5, <2>1, <2>2 DEF Descent
<1>18. Canonic
  <2>1. ASSUME NEW y \in Nodes
        PROVE  Kernel(sets[y]) /\ summary[y] = Summary(sets[y])
    <3>1. sets[y] = <<>> /\ DOMAIN sets[y] = {}
      BY <1>5
    <3>2. Kernel(sets[y])
      BY <3>1 DEF Kernel, Ordered, Nondominated, OneLabelEach
    <3>3. summary[y] = {} /\ Summary(<<>>) = {}
      BY DEF Init, Summary
    <3> QED BY <3>1, <3>2, <3>3
  <2> QED BY <2>1 DEF Canonic
<1>19. Pursued
  BY <1>5 DEF Pursued
<1> QED BY <1>9, <1>10, <1>12, <1>13, <1>14, <1>15, <1>16, <1>17, <1>18, <1>19
        DEF IInv

------------------------------------------------------------------------------
(***************************************************************************)
(* The steps.  Most leave the branches, their labels and the connection    *)
(* sets alone, and with them what the invariant says of these.             *)
(***************************************************************************)
LEMMA TreeUntouched ==
    ASSUME IInv, UNCHANGED <<network, branches, cy>>
    PROVE  /\ Labelled' /\ Descent' /\ Canonic'
           /\ /\ UNCHANGED completed
              /\ state \notin {"failing", "failed", "stopped"}
                   \/ state' \in {"failing", "failed", "stopped"}
              => Pursued'
           /\ \A l : Active(l)' = Active(l)
<1>1. /\ branches' = branches /\ labels' = labels /\ sets' = sets
      /\ summary' = summary
  BY DEF cy
<1>2. \A l : Active(l)' = Active(l)
  BY <1>1 DEF Active
<1>3. Labelled'
  BY <1>1 DEF IInv, Labelled
<1>4. Descent'
  BY <1>1 DEF IInv, Descent
<1>5. Canonic'
  BY <1>1 DEF IInv, Canonic
<1>6. /\ UNCHANGED completed
      /\ state \notin {"failing", "failed", "stopped"}
           \/ state' \in {"failing", "failed", "stopped"}
      => Pursued'
  BY <1>1, <1>2 DEF IInv, Pursued
<1> QED BY <1>2, <1>3, <1>4, <1>5, <1>6

\* The layers, their counts and the branch in hand as well.
LEMMA FrontierUntouched ==
    ASSUME IInv, UNCHANGED <<arena, frontier, expanding, stats>>
    PROVE  Queued' /\ Counted' /\ Levels'
<1>1. /\ branches' = branches /\ released' = released
      /\ current' = current /\ next' = next /\ counts' = counts
      /\ expanding' = expanding /\ stats' = stats
  BY DEF arena, frontier
<1>2. Queued'
  BY <1>1 DEF IInv, Queued
<1>3. Counted'
  BY <1>1 DEF IInv, Counted
<1>4. Levels'
  BY <1>1 DEF IInv, Levels
<1> QED BY <1>2, <1>3, <1>4

LEMMA StutterKeeps ==
    ASSUME IInv, UNCHANGED vars
    PROVE  IInv'
<1>1. /\ UNCHANGED <<network, cancelled, state, branches, released, current>>
      /\ UNCHANGED <<next, counts, expanding, todo, labels, sets, summary>>
      /\ UNCHANGED <<removed_since, completed, stats>>
  BY DEF vars, arena, frontier, cy
<1>2. Typing' /\ Expanding'
  BY <1>1 DEF IInv, Typing, Expanding, Successors
<1>3. Labelled' /\ Descent' /\ Canonic' /\ \A l : Active(l)' = Active(l)
  BY <1>1, TreeUntouched DEF cy
<1>4. Queued' /\ Counted' /\ Levels'
  BY <1>1, FrontierUntouched DEF arena, frontier
<1>5. ExpandedStaysActive'
  BY <1>1 DEF IInv, ExpandedStaysActive, Active
<1>6. Pursued'
  BY <1>1, <1>3 DEF IInv, Pursued
<1> QED BY <1>2, <1>3, <1>4, <1>5, <1>6 DEF IInv

LEMMA CancelKeeps ==
    ASSUME IInv, Cancel
    PROVE  IInv'
<1>1. /\ UNCHANGED <<network, state, branches, released, current, next>>
      /\ UNCHANGED <<counts, expanding, todo, labels, sets, summary>>
      /\ UNCHANGED <<removed_since, completed, stats>>
      /\ cancelled' \in BOOLEAN
  BY DEF Cancel, arena, frontier, cy
<1>2. Typing' /\ Expanding'
  BY <1>1 DEF IInv, Typing, Expanding, Successors
<1>3. Labelled' /\ Descent' /\ Canonic' /\ \A l : Active(l)' = Active(l)
  BY <1>1, TreeUntouched DEF cy
<1>4. Queued' /\ Counted' /\ Levels'
  BY <1>1, FrontierUntouched DEF arena, frontier
<1>5. ExpandedStaysActive'
  BY <1>1 DEF IInv, ExpandedStaysActive, Active
<1>6. Pursued'
  BY <1>1, <1>3 DEF IInv, Pursued
<1> QED BY <1>2, <1>3, <1>4, <1>5, <1>6 DEF IInv

LEMMA StopKeeps ==
    ASSUME IInv, Stop
    PROVE  IInv'
<1>1. /\ UNCHANGED <<network, cancelled, branches, released, current, next>>
      /\ UNCHANGED <<counts, expanding, todo, labels, sets, summary>>
      /\ UNCHANGED <<removed_since, completed, stats>>
      /\ state = "level" /\ state' = "stopped"
  BY DEF Stop, arena, frontier, cy
<1>2. Typing' /\ Expanding'
  BY <1>1 DEF IInv, Typing, Expanding
<1>3. Labelled' /\ Descent' /\ Canonic' /\ Pursued'
  BY <1>1, TreeUntouched DEF cy
<1>4. Queued' /\ Counted' /\ Levels'
  BY <1>1, FrontierUntouched DEF arena, frontier
<1>5. ExpandedStaysActive'
  BY <1>1 DEF ExpandedStaysActive
<1> QED BY <1>2, <1>3, <1>4, <1>5 DEF IInv

LEMMA RejectPrefixKeeps ==
    ASSUME IInv, NEW leg \in todo, RejectPrefix(leg)
    PROVE  IInv'
<1>1. /\ UNCHANGED <<network, cancelled, state, branches, released, current>>
      /\ UNCHANGED <<next, counts, expanding, labels, sets, summary>>
      /\ UNCHANGED <<removed_since, completed, stats>>
      /\ state = "scan" /\ todo' = todo \ {leg}
  BY DEF RejectPrefix, Visiting, arena, frontier, cy
<1>2. Typing' /\ Expanding'
  BY <1>1 DEF IInv, Typing, Expanding, Successors
<1>3. Labelled' /\ Descent' /\ Canonic' /\ Pursued'
  BY <1>1, TreeUntouched DEF cy
<1>4. Queued' /\ Counted' /\ Levels'
  BY <1>1, FrontierUntouched DEF arena, frontier
<1>5. ExpandedStaysActive'
  BY <1>1 DEF IInv, ExpandedStaysActive, Active
<1> QED BY <1>2, <1>3, <1>4, <1>5 DEF IInv

\* The branch in hand is released; it was in no layer.
LEMMA FinishKeeps ==
    ASSUME IInv, FinishExpansion
    PROVE  IInv'
<1>1. /\ UNCHANGED <<network, cancelled, branches, current, next, counts>>
      /\ UNCHANGED <<labels, sets, summary, removed_since, completed, stats>>
      /\ \/ state \in {"scan", "failing"} /\ state' \in {"stopped", "failed"}
         \/ state = "scan" /\ state' = "level"
      /\ released' = released \cup {expanding}
      /\ expanding' = None /\ todo' = {}
  BY DEF FinishExpansion, Scanned, frontier, cy
<1>2. expanding \in DOMAIN branches /\ expanding # None
  BY <1>1 DEF IInv, Expanding, Typing, None
<1>3. Typing'
  BY <1>1, <1>2 DEF IInv, Typing
<1>4. Expanding'
  BY <1>1 DEF Expanding
<1>5. Labelled' /\ Descent' /\ Canonic' /\ Pursued'
  BY <1>1, TreeUntouched DEF cy
<1>6. Queued'
  <2>1. None \notin Range(current) \cup Range(next)
    BY DEF IInv, Queued, Typing, None
  <2> QED BY <1>1, <1>2, <2>1 DEF IInv, Queued
<1>7. Counted' /\ Levels'
  BY <1>1 DEF IInv, Counted, Levels, Levelled
<1>8. ExpandedStaysActive'
  BY <1>1 DEF ExpandedStaysActive
<1> QED BY <1>3, <1>4, <1>5, <1>6, <1>7, <1>8 DEF IInv

LEMMA EmptyLayer ==
    ASSUME NEW queue \in Seq(Nat), Range(queue) = {}
    PROVE  /\ queue = <<>> /\ Len(queue) = 0
           /\ \A bs, p : InPhase(bs, queue, p) = 0
<1>1. Len(queue) \in Nat /\ DOMAIN queue = 1 .. Len(queue)
  OBVIOUS
<1>2. DOMAIN queue = {}
  BY DEF Range
<1>3. queue = <<>> /\ Len(queue) = 0
  BY <1>1, <1>2
<1>4. ASSUME NEW bs, NEW p
      PROVE  InPhase(bs, queue, p) = 0
  <2>1. {i \in DOMAIN queue : bs[queue[i]].phase = p} = {}
    BY <1>2
  <2> QED BY <2>1, FS_EmptySet DEF InPhase
<1> QED BY <1>3, <1>4

\* What was left of the next layer becomes the current one.
LEMMA AdvanceKeeps ==
    ASSUME IInv, AdvanceLevel
    PROVE  IInv'
<1> DEFINE c == Compacted(labels)
<1>1. /\ UNCHANGED <<network, cancelled, branches, expanding, todo, labels>>
      /\ UNCHANGED <<sets, summary, completed>>
      /\ state = "level" /\ state' \in {"level", "pop"}
      /\ current = <<>> /\ current' = c.next /\ next' = c.current
      /\ counts' = [current |-> c.counts.next, next |-> NoCounts]
      /\ released' = released \cup c.dropped
      /\ stats' = [stats EXCEPT !.compacted = @ + c.removed]
  BY DEF AdvanceLevel, cy
<1>2. expanding = None /\ expanding \in Nat
  BY <1>1 DEF IInv, Expanding, None
<1>3. Shrunk(c, labels)
  BY <1>1, <1>2, CompactionShrinks DEF IInv
<1> HIDE DEF c
<1>4. /\ c.current \in Seq(Nat) /\ Distinct(c.current)
      /\ c.next \in Seq(Nat) /\ Distinct(c.next)
      /\ Range(c.next) \subseteq Range(next)
      /\ c.removed \in Nat
      /\ Len(current) + Len(next) = Len(c.current) + Len(c.next) + c.removed
      /\ c.counts \in CountType
      /\ \A p \in Phases : c.counts.next[p] = InPhase(branches, c.next, p)
  BY <1>3 DEF Shrunk
<1>5. /\ Range(current) = {} /\ Range(c.current) = {}
      /\ c.dropped = Range(next) \ Range(c.next)
  <2>1. Range(current) = {}
    BY <1>1 DEF Range
  <2> QED BY <1>3, <2>1 DEF Shrunk
<1>6. /\ c.current = <<>> /\ Len(c.current) = 0
      /\ \A p \in Phases : InPhase(branches, c.current, p) = 0
  BY <1>4, <1>5, EmptyLayer
<1>7. NoCounts \in [Phases -> Nat] /\ \A p \in Phases : NoCounts[p] = 0
  BY DEF NoCounts
<1>8. /\ counts' \in CountType
      /\ counts'.current = c.counts.next /\ counts'.next = NoCounts
  BY <1>1, <1>4, <1>7 DEF CountType
<1>9. /\ stats' \in StatsType
      /\ stats'.expanded = stats.expanded /\ stats'.stale = stats.stale
      /\ stats'.compacted = stats.compacted + c.removed
  <2>1. stats \in StatsType
    BY DEF IInv, Typing
  <2>2. stats' = [stats EXCEPT !["compacted"] = stats["compacted"] + c.removed]
    BY <1>1
  <2> QED BY <1>4, <2>1, <2>2 DEF StatsType
<1>10. released' \subseteq DOMAIN branches
  BY <1>1, <1>5 DEF IInv, Typing, Queued
<1>11. Typing'
  BY <1>1, <1>4, <1>8, <1>9, <1>10 DEF IInv, Typing
<1>12. Expanding'
  BY <1>1, <1>2 DEF IInv, Expanding
<1>13. Labelled' /\ Descent' /\ Canonic' /\ Pursued'
  BY <1>1, TreeUntouched DEF cy
<1>14. Queued'
  BY <1>1, <1>2, <1>4, <1>5 DEF IInv, Queued
<1>15. Counted'
  <2>1. \A p \in Phases : /\ counts'.current[p] = InPhase(branches, c.next, p)
                          /\ counts'.next[p] = InPhase(branches, c.current, p)
    BY <1>4, <1>6, <1>7, <1>8
  <2>2. Len(branches) = stats'.expanded + stats'.stale + stats'.compacted
                          + Len(c.next) + Len(c.current)
    <3>1. /\ Len(c.next) \in Nat /\ Len(next) \in Nat /\ Len(current) = 0
          /\ stats.expanded \in Nat /\ stats.stale \in Nat
          /\ stats.compacted \in Nat
          /\ Len(branches) = stats.expanded + stats.stale + stats.compacted
                               + Len(current) + Len(next)
      BY <1>1, <1>4 DEF IInv, Typing, Counted, StatsType
    <3> QED BY <1>4, <1>6, <1>9, <3>1, SMTT(30)
  <2> QED BY <1>1, <2>1, <2>2 DEF Counted
<1>16. Levels'
  BY <1>1, <1>2, <1>4, <1>5 DEF IInv, Levels, Levelled
<1>17. ExpandedStaysActive'
  BY <1>1 DEF ExpandedStaysActive
<1> QED BY <1>11, <1>12, <1>13, <1>14, <1>15, <1>16, <1>17 DEF IInv

\* A branch comes up: it is expanded, or dropped.
LEMMA PopKeeps ==
    ASSUME IInv, Pop
    PROVE  IInv'
<1> DEFINE i == Head(current)
           b == branches[i]
<1>1. /\ UNCHANGED <<network, cancelled, branches, next, labels, sets>>
      /\ UNCHANGED <<summary, completed>>
      /\ state \in {"pop", "level"}
      /\ current # <<>> /\ current' = Tail(current)
      /\ counts' = [counts EXCEPT !.current[b.phase] = Minus(@, 1)]
      /\ \/ /\ Active(b.label) /\ state' = "scan"
            /\ expanding' = i /\ todo' = Successors(b)
            /\ released' = released
         \/ /\ state' = "level" /\ expanding' = expanding /\ todo' = todo
            /\ released' = released \cup {i}
      /\ stats' = IF Active(b.label)
                  THEN [stats EXCEPT !.expanded = @ + 1]
                  ELSE [stats EXCEPT !.stale = @ + 1]
  BY DEF Pop, cy
<1>2. /\ Tail(current) \in Seq(Nat) /\ Distinct(Tail(current))
      /\ Len(current) = Len(Tail(current)) + 1
      /\ i \in Range(current)
      /\ Range(Tail(current)) = Range(current) \ {i}
  BY <1>1, TailFacts DEF IInv, Typing, Queued
<1>3. /\ i \in DOMAIN branches /\ i # None /\ i \notin released
      /\ expanding = None
  <2>1. expanding = None
    BY <1>1 DEF IInv, Expanding
  <2>2. i \in DOMAIN branches
    BY <1>2 DEF IInv, Queued
  <2>3. i # None
    BY <2>2 DEF IInv, Typing, None
  <2> QED BY <1>1, <1>2, <2>1, <2>2, <2>3 DEF IInv, Queued
<1>4. b \in BranchType
  BY <1>3, ElementOfSeq DEF IInv, Typing
<1>5. b.phase \in Phases
  BY <1>4 DEF BranchType
<1>6. \A p \in Phases : InPhase(branches, current, p)
        = InPhase(branches, Tail(current), p) + (IF b.phase = p THEN 1 ELSE 0)
  BY <1>1, CountHead DEF IInv, Typing, Queued
<1>7. \A p \in Phases : InPhase(branches, Tail(current), p) \in Nat
  BY <1>2, CountBranches
<1> HIDE DEF b
<1>8. /\ counts' \in CountType /\ counts'.next = counts.next
      /\ \A p \in Phases :
          counts'.current[p] = InPhase(branches, Tail(current), p)
  <2>1. /\ counts \in CountType /\ counts.current \in [Phases -> Nat]
        /\ \A p \in Phases : counts.current[p] = InPhase(branches, current, p)
    BY DEF IInv, Typing, Counted, CountType
  <2> DEFINE less == [counts.current EXCEPT ![b.phase] = Minus(@, 1)]
  <2>2. \A n \in Nat : Minus(n, 1) \in Nat
    BY DEF Minus
  <2>3. /\ less \in [Phases -> Nat]
        /\ \A p \in Phases :
            less[p] = IF p = b.phase THEN Minus(counts.current[p], 1)
                      ELSE counts.current[p]
    BY <1>5, <2>1, <2>2
  <2>4. counts' = [counts EXCEPT !["current"] = less]
    BY <1>1
  <2> HIDE DEF less
  <2>5. /\ counts' \in CountType /\ counts'.next = counts.next
        /\ counts'.current = less
    BY <2>1, <2>3, <2>4 DEF CountType
  <2>6. ASSUME NEW p \in Phases
        PROVE  less[p] = InPhase(branches, Tail(current), p)
    BY <1>6, <1>7, <2>1, <2>3 DEF Minus
  <2> QED BY <2>5, <2>6
<1>9. /\ stats' \in StatsType /\ stats'.compacted = stats.compacted
      /\ stats'.expanded + stats'.stale = stats.expanded + stats.stale + 1
  <2>1. stats \in StatsType
    BY DEF IInv, Typing
  <2>2. \/ stats' = [stats EXCEPT !["expanded"] = stats["expanded"] + 1]
        \/ stats' = [stats EXCEPT !["stale"] = stats["stale"] + 1]
    BY <1>1
  <2> QED BY <2>1, <2>2 DEF StatsType
<1>10. Typing'
  BY <1>1, <1>2, <1>3, <1>8, <1>9 DEF IInv, Typing
<1>11. Expanding'
  <2>1. Successors(b) \subseteq network
    BY DEF Successors
  <2>2. CASE state' = "scan"
    <3>1. /\ expanding' = i /\ todo' = Successors(b)
      BY <1>1, <2>2
    <3>2. Successors(branches[expanding])' = Successors(b)
      BY <1>1, <3>1 DEF b, Successors
    <3> QED BY <1>1, <1>3, <2>1, <2>2, <3>1, <3>2 DEF Expanding
  <2>3. CASE state' = "level"
    <3>1. expanding' = expanding /\ todo' = todo
      BY <1>1, <2>3
    <3> QED BY <1>1, <1>3, <2>3, <3>1 DEF IInv, Expanding
  <2> QED BY <1>1, <2>2, <2>3
<1>12. Labelled' /\ Descent' /\ Canonic' /\ Pursued'
  BY <1>1, TreeUntouched DEF cy
<1>13. Queued'
  <2>1. None \notin Range(current) \cup Range(next)
    BY DEF IInv, Queued, Typing, None
  <2> QED BY <1>1, <1>2, <1>3, <2>1 DEF IInv, Queued
<1>14. Counted'
  <2>1. \A p \in Phases : counts.next[p] = InPhase(branches, next, p)
    BY DEF IInv, Counted
  <2>2. Len(branches) = stats'.expanded + stats'.stale + stats'.compacted
                          + Len(Tail(current)) + Len(next)
    <3>1. /\ Len(next) \in Nat /\ Len(Tail(current)) \in Nat
          /\ stats.expanded \in Nat /\ stats.stale \in Nat
          /\ stats.compacted \in Nat
      BY <1>2, <1>9 DEF IInv, Typing, StatsType
    <3>2. stats'.expanded \in Nat /\ stats'.stale \in Nat
      BY <1>9 DEF StatsType
    <3>3. Len(branches) = stats.expanded + stats.stale + stats.compacted
                            + Len(current) + Len(next)
      BY DEF IInv, Counted
    <3>4. Len(branches) = (stats.expanded + stats.stale + 1) + stats.compacted
                            + Len(Tail(current)) + Len(next)
      BY <1>2, <3>1, <3>3
    <3> QED BY <1>9, <3>4
  <2> QED BY <1>1, <1>8, <2>1, <2>2 DEF Counted
<1>15. Levels'
  BY <1>1, <1>2, <1>3 DEF IInv, Levels, Levelled
<1>16. ExpandedStaysActive'
  BY <1>1 DEF ExpandedStaysActive, Active, b
<1> QED BY <1>10, <1>11, <1>12, <1>13, <1>14, <1>15, <1>16 DEF IInv

\* Dead entries are dropped from some sets; nothing else happens to the tree.
LEMMA CleaningKeeps ==
    ASSUME IInv, UNCHANGED <<network, branches, labels, completed>>,
           state \in {"level", "scan"},
           \A y \in Nodes :
               \/ sets'[y] = sets[y] /\ summary'[y] = summary[y]
               \/ sets'[y] = Fresh(y) /\ summary'[y] = FreshSummary(y)
    PROVE  /\ Labelled' /\ Descent' /\ Canonic' /\ Pursued'
           /\ \A y \in Nodes : sets'[y] \in Seq(Entry)
<1>1. Typing /\ Canonic /\ Labelled /\ Descent /\ Pursued
  BY DEF IInv
<1>2. ASSUME NEW y \in Nodes
      PROVE  /\ sets'[y] \in Seq(Entry)
             /\ Range(sets'[y]) \subseteq Range(sets[y])
             /\ Kernel(sets'[y]) /\ summary'[y] = Summary(sets'[y])
  <2>1. CASE sets'[y] = sets[y] /\ summary'[y] = summary[y]
    BY <1>1, <2>1 DEF Typing, Canonic
  <2>2. CASE sets'[y] = Fresh(y) /\ summary'[y] = FreshSummary(y)
    <3>1. /\ Fresh(y) \in Seq(Entry)
          /\ Range(Fresh(y)) = {e \in Range(sets[y]) : Active(e.label)}
          /\ Kernel(Fresh(y)) /\ FreshSummary(y) = Summary(Fresh(y))
      BY <1>1, FreshFacts
    <3> QED BY <2>2, <3>1
  <2> QED BY <2>1, <2>2
<1>3. Labelled'
  BY <1>1, <1>2 DEF Labelled
<1>4. Descent'
  <2> SUFFICES ASSUME NEW i \in DOMAIN branches
               PROVE  \E A \in SUBSET DOMAIN labels :
                        /\ ClosedIn(labels, A)
                        /\ branches[i].label \in A \cup {None}
                        /\ \A y \in Nodes : \A e \in Range(sets'[y]) :
                            e.label \in A => PrefixOf(e.m, branches[i].m)
    BY DEF Descent
  <2>1. PICK A \in SUBSET DOMAIN labels :
          /\ ClosedIn(labels, A)
          /\ branches[i].label \in A \cup {None}
          /\ \A y \in Nodes : \A e \in Range(sets[y]) :
              e.label \in A => PrefixOf(e.m, branches[i].m)
    BY <1>1 DEF Descent
  <2> QED BY <1>2, <2>1
<1>5. Canonic'
  BY <1>2 DEF Canonic
<1>6. Pursued'
  <2>1. \A l : Active(l)' = Active(l)
    BY DEF Active
  <2>2. ASSUME NEW y \in Nodes, NEW e \in Range(sets'[y])
        PROVE  \/ ~Active(e.label)
               \/ \E b \in DOMAIN branches :
                   /\ branches[b].label = e.label
                   /\ branches[b].node = y
                   /\ Metrics(branches[b].m) = e.m
               \/ \E path \in completed : path[Len(path)].to = y
    BY <1>1, <1>2 DEF Pursued
  <2> QED BY <2>1, <2>2 DEF Pursued
<1> QED BY <1>2, <1>3, <1>4, <1>5, <1>6

\* The leg in hand leads to a node that has a connection set.
LEMMA LegInHand ==
    ASSUME IInv, NEW leg \in todo, Visiting(leg)
    PROVE  /\ expanding \in DOMAIN branches /\ Branch \in BranchType
           /\ leg \in Legs /\ leg \in Successors(Branch)
           /\ leg.from \in Nodes /\ leg.to \in Nodes
           /\ state = "scan" /\ todo' = todo \ {leg}
<1>1. state = "scan" /\ todo' = todo \ {leg}
  BY DEF Visiting
<1>2. expanding \in DOMAIN branches /\ leg \in Successors(Branch)
  BY <1>1 DEF IInv, Expanding, Branch
<1>3. Branch \in BranchType
  BY <1>2, ElementOfSeq DEF IInv, Typing, Branch
<1>4. leg \in Legs
  BY DEF IInv, Expanding, Typing, Legs
<1> QED BY <1>1, <1>2, <1>3, <1>4, LegFields

LEMMA RejectCandidateKeeps ==
    ASSUME IInv, NEW leg \in todo, RejectCandidate(leg)
    PROVE  IInv'
<1>1. /\ UNCHANGED <<network, cancelled, state, branches, released, current>>
      /\ UNCHANGED <<next, counts, expanding, labels>>
      /\ UNCHANGED <<removed_since, completed, stats>>
      /\ state = "scan" /\ todo' = todo \ {leg} /\ Visiting(leg)
      /\ sets' = [sets EXCEPT ![leg.to] = Fresh(leg.to)]
      /\ summary' = [summary EXCEPT ![leg.to] = FreshSummary(leg.to)]
  BY DEF RejectCandidate, Visiting, arena, frontier
<1>2. leg.to \in Nodes
  BY <1>1, LegInHand
<1>3. sets \in [Nodes -> Seq(Entry)] /\ DOMAIN summary = Nodes
  BY DEF IInv, Typing
<1>4. \A y \in Nodes :
        \/ sets'[y] = sets[y] /\ summary'[y] = summary[y]
        \/ sets'[y] = Fresh(y) /\ summary'[y] = FreshSummary(y)
  BY <1>1, <1>3
<1>5. /\ Labelled' /\ Descent' /\ Canonic' /\ Pursued'
      /\ \A y \in Nodes : sets'[y] \in Seq(Entry)
  BY <1>1, <1>4, CleaningKeeps
<1>6. sets' \in [Nodes -> Seq(Entry)] /\ DOMAIN summary' = Nodes
  BY <1>1, <1>3, <1>5
<1>7. Typing' /\ Expanding'
  BY <1>1, <1>6 DEF IInv, Typing, Expanding, Successors
<1>8. Queued' /\ Counted' /\ Levels'
  BY <1>1, FrontierUntouched DEF arena, frontier
<1>9. ExpandedStaysActive'
  BY <1>1 DEF IInv, ExpandedStaysActive, Active
<1> QED BY <1>5, <1>7, <1>8, <1>9 DEF IInv

\* The end: the sets are cleaned, and what is left in them is alive.
LEMMA ExhaustKeeps ==
    ASSUME IInv, Exhaust
    PROVE  IInv' /\ state' = "exhausted"
<1>1. /\ UNCHANGED <<network, cancelled, branches, released, current>>
      /\ UNCHANGED <<next, counts, expanding, todo, labels>>
      /\ UNCHANGED <<removed_since, completed, stats>>
      /\ state = "level"
      /\ sets' = [y \in Nodes |-> Fresh(y)]
      /\ summary' = [y \in Nodes |-> FreshSummary(y)]
      /\ state' = IF \A y \in Nodes : \A i \in DOMAIN sets'[y] :
                         Active(sets'[y][i].label)
                  THEN "exhausted" ELSE "failed"
  BY DEF Exhaust, arena, frontier
<1>2. \A y \in Nodes :
        /\ sets'[y] = Fresh(y) /\ summary'[y] = FreshSummary(y)
        /\ Range(sets'[y]) = {e \in Range(sets[y]) : Active(e.label)}
  BY <1>1, FreshFacts DEF IInv
<1>3. state' = "exhausted"
  <2>1. \A y \in Nodes : \A i \in DOMAIN sets'[y] : Active(sets'[y][i].label)
    BY <1>2 DEF Range
  <2> QED BY <1>1, <2>1
<1>4. /\ Labelled' /\ Descent' /\ Canonic' /\ Pursued'
      /\ \A y \in Nodes : sets'[y] \in Seq(Entry)
  BY <1>1, <1>2, CleaningKeeps
<1>5. sets' \in [Nodes -> Seq(Entry)] /\ DOMAIN summary' = Nodes
  BY <1>1, <1>4
<1>6. Typing' /\ Expanding'
  BY <1>1, <1>3, <1>5 DEF IInv, Typing, Expanding
<1>7. Queued' /\ Counted' /\ Levels'
  BY <1>1, FrontierUntouched DEF arena, frontier
<1>8. ExpandedStaysActive'
  BY <1>3 DEF ExpandedStaysActive
<1> QED BY <1>3, <1>4, <1>6, <1>7, <1>8 DEF IInv

------------------------------------------------------------------------------
(***************************************************************************)
(* A candidate is accepted: what it turns out, and what becomes of it.     *)
(***************************************************************************)
Reached(leg)   == Extend(Branch.m, leg)
TurnedOut(leg) == DominatedLabels(Fresh(leg.to), Metrics(Reached(leg)))
NewLabel       == Len(labels) + 1
NewBranch(leg) == Candidate(leg, NewLabel)

JoinsNext(leg, c) ==
    /\ leg.to \in Stops /\ state' = state
    /\ branches' = Append(branches, NewBranch(leg))
    /\ next' = Append(c.next, Len(branches) + 1)
    /\ counts' = [c.counts EXCEPT !.next[NewBranch(leg).phase] = @ + 1]
    /\ released' = released \cup c.dropped
    /\ completed \subseteq completed'

IsHandedOver(leg, c) ==
    /\ leg.to \notin Stops /\ state' = state
    /\ UNCHANGED branches /\ next' = c.next /\ counts' = c.counts
    /\ released' = released \cup c.dropped
    /\ completed' = completed \cup {NewBranch(leg).path}

FailsTheCheck(leg, c) ==
    /\ ValidatePhaseInvariants \/ StartsEarly(NewBranch(leg))
    /\ state' = "failing"
    /\ UNCHANGED branches /\ next' = c.next /\ counts' = c.counts
    /\ released' = released \cup c.dropped
    /\ UNCHANGED completed

AcceptedAs(leg, c) ==
    /\ UNCHANGED <<network, cancelled, expanding>>
    /\ labels' = Registered(TurnedOut(leg))
    /\ sets' = [sets EXCEPT ![leg.to] =
           Insert(Fresh(leg.to), Metrics(Reached(leg)), NewLabel)]
    /\ summary' = [summary EXCEPT ![leg.to] =
           SummaryAfterInsert(Fresh(leg.to), FreshSummary(leg.to),
                              Metrics(Reached(leg)), NewLabel)]
    /\ stats' = [stats EXCEPT !.compacted = @ + c.removed]
    /\ current' = c.current
    /\ JoinsNext(leg, c) \/ IsHandedOver(leg, c) \/ FailsTheCheck(leg, c)

\* A leg that ends at no stop ends at a destination.
LEMMA EndsAtDestination ==
    ASSUME NEW b, NEW leg \in Successors(b), leg \in Legs, leg.to \notin Stops
    PROVE  leg.to \in Destinations
BY LegFields DEF Successors, WalkAdmitted

LEMMA AcceptStep ==
    ASSUME IInv, NEW leg \in todo, AcceptCandidate(leg)
    PROVE  /\ Visiting(leg) /\ Wanted(leg)
           /\ \E c : Shrunk(c, Registered(TurnedOut(leg))) /\ AcceptedAs(leg, c)
<1> DEFINE y == leg.to
           m == Metrics(Reached(leg))
           registry == Registered(TurnedOut(leg))
           removals == removed_since + Cardinality(TurnedOut(leg))
                         + Len(sets[y]) - Len(Fresh(y))
           compact == /\ removals >= CompactionMinRemoved
                      /\ Len(current) + Len(next) >= CompactionMinSize
           c == IF compact THEN Compacted(registry)
                ELSE [current |-> current, next |-> next, counts |-> counts,
                      dropped |-> {}, removed |-> 0]
           branch == NewBranch(leg)
           valid == /\ ValidatePhaseInvariants => PhaseInvariant(branch)
                    /\ ~StartsEarly(branch)
           queued == valid /\ y \in Stops
<1>1. /\ Visiting(leg) /\ Wanted(leg)
      /\ labels' = registry
      /\ sets' = [sets EXCEPT ![y] = Insert(Fresh(y), m, NewLabel)]
      /\ summary' = [summary EXCEPT ![y] =
             SummaryAfterInsert(Fresh(y), FreshSummary(y), m, NewLabel)]
      /\ stats' = [stats EXCEPT !.compacted = @ + c.removed]
      /\ current' = c.current
      /\ IF queued
         THEN /\ branches' = Append(branches, branch)
              /\ next' = Append(c.next, Len(branches) + 1)
              /\ counts' = [c.counts EXCEPT !.next[branch.phase] = @ + 1]
         ELSE /\ next' = c.next
              /\ counts' = c.counts
              /\ UNCHANGED branches
      /\ completed' = IF valid /\ y \in Destinations
                      THEN completed \cup {branch.path} ELSE completed
      /\ released' = released \cup c.dropped
      /\ state' = IF valid THEN state ELSE "failing"
      /\ UNCHANGED <<network, cancelled, expanding>>
  BY DEF AcceptCandidate, Reached, TurnedOut, NewLabel, NewBranch
<1>2. /\ expanding \in DOMAIN branches /\ leg \in Legs
      /\ leg \in Successors(Branch) /\ state = "scan"
  BY <1>1, LegInHand
<1>3. y \notin Stops => y \in Destinations
  BY <1>2, EndsAtDestination
<1>4. Shrunk(c, registry)
  <2>1. Typing /\ Queued /\ Counted /\ expanding \in Nat
    BY <1>2 DEF IInv, Typing
  <2>2. CASE compact
    <3>1. Shrunk(Compacted(registry), registry)
      BY <2>1, CompactionShrinks
    <3> HIDE DEF registry, compact
    <3> QED BY <2>2, <3>1
  <2>3. CASE ~compact
    <3>1. Shrunk([current |-> current, next |-> next, counts |-> counts,
                  dropped |-> {}, removed |-> 0], registry)
      BY <2>1, NoCompactionShrinks
    <3> HIDE DEF registry, compact
    <3> QED BY <2>3, <3>1
  <2> QED BY <2>2, <2>3
<1> HIDE DEF c, registry, branch, m
<1>5. JoinsNext(leg, c) \/ IsHandedOver(leg, c) \/ FailsTheCheck(leg, c)
  <2> HIDE DEF valid
  <2>1. CASE valid /\ y \in Stops
    BY <1>1, <2>1 DEF JoinsNext, branch
  <2>2. CASE valid /\ y \notin Stops
    BY <1>1, <1>3, <2>2 DEF IsHandedOver, branch
  <2>3. CASE ~valid
    <3>1. ValidatePhaseInvariants \/ StartsEarly(NewBranch(leg))
      BY <2>3 DEF valid, branch
    <3> QED BY <1>1, <2>3, <3>1 DEF FailsTheCheck
  <2> QED BY <2>1, <2>2, <2>3
<1>6. AcceptedAs(leg, c)
  BY <1>1, <1>5 DEF AcceptedAs, registry, m
<1> QED BY <1>1, <1>4, <1>6 DEF registry

\* The registry after C_y turned some labels out and allocated one.
LEMMA RegisteredFacts ==
    ASSUME labels \in Seq(LabelType), Forest(labels),
           Branch.label \in 0 .. Len(labels), NEW turned_out
    PROVE  LET registry == Registered(turned_out)
           IN  /\ registry \in Seq(LabelType) /\ Forest(registry)
               /\ Len(registry) = NewLabel
               /\ registry[NewLabel].active
               /\ registry[NewLabel].parent = Branch.label
               /\ \A l \in 1 .. Len(labels) :
                   /\ registry[l].parent = labels[l].parent
                   /\ registry[l].active <=>
                        labels[l].active /\ l \notin turned_out
<1> DEFINE old == [l \in DOMAIN labels |->
                     [labels[l] EXCEPT !.active = @ /\ l \notin turned_out]]
           new == [active |-> TRUE, parent |-> Branch.label]
           registry == Append(old, new)
<1>1. Len(labels) \in Nat /\ DOMAIN labels = 1 .. Len(labels)
      /\ \A l \in 1 .. Len(labels) : labels[l] \in LabelType
  BY ElementOfSeq
<1>2. ASSUME NEW l \in 1 .. Len(labels)
      PROVE  /\ old[l] \in LabelType
             /\ old[l].parent = labels[l].parent
             /\ old[l].active <=> labels[l].active /\ l \notin turned_out
  <2> DEFINE flag == labels[l].active /\ l \notin turned_out
  <2>1. old[l] = [labels[l] EXCEPT !.active = flag]
    BY <1>1
  <2>2. flag \in BOOLEAN /\ labels[l] \in LabelType
    BY <1>1 DEF LabelType
  <2> HIDE DEF flag, old
  <2>3. old[l] \in LabelType /\ old[l].parent = labels[l].parent
        /\ old[l].active = flag
    BY <2>1, <2>2 DEF LabelType
  <2> QED BY <2>3 DEF flag
<1>3. old \in Seq(LabelType) /\ Len(old) = Len(labels)
  <2>1. old \in [1 .. Len(labels) -> LabelType]
    <3>1. DOMAIN old = 1 .. Len(labels) /\ old = [l \in 1 .. Len(labels) |-> old[l]]
      BY <1>1
    <3> HIDE DEF old
    <3> QED BY <1>2, <3>1
  <2> HIDE DEF old
  <2> QED BY <1>1, <2>1
<1>4. new \in LabelType /\ new.active /\ new.parent = Branch.label
  BY <1>1 DEF LabelType
<1> HIDE DEF old, new
<1>5. /\ registry \in Seq(LabelType) /\ Len(registry) = Len(labels) + 1
      /\ DOMAIN registry = 1 .. Len(labels) + 1
      /\ registry[Len(labels) + 1] = new
      /\ \A l \in 1 .. Len(labels) : registry[l] = old[l]
  BY <1>1, <1>3, <1>4
<1> HIDE DEF registry
<1>6. Forest(registry)
  <2>1. ASSUME NEW l \in 1 .. Len(labels) + 1
        PROVE  registry[l].parent \in 0 .. l - 1
    <3>1. CASE l = Len(labels) + 1
      BY <1>1, <1>4, <1>5, <3>1
    <3>2. CASE l # Len(labels) + 1
      <4>1. l \in 1 .. Len(labels)
        BY <1>1, <3>2
      <4> QED BY <1>1, <1>2, <1>5, <4>1 DEF Forest
    <3> QED BY <3>1, <3>2
  <2> QED BY <1>5, <2>1 DEF Forest
<1>7. registry = Registered(turned_out)
  BY DEF Registered, registry, old, new
<1>8. /\ registry[NewLabel].active
      /\ registry[NewLabel].parent = Branch.label
      /\ Len(registry) = NewLabel
  BY <1>4, <1>5 DEF NewLabel
<1>9. \A l \in 1 .. Len(labels) :
        /\ registry[l].parent = labels[l].parent
        /\ registry[l].active <=> labels[l].active /\ l \notin turned_out
  BY <1>2, <1>5
<1> QED BY <1>5, <1>6, <1>7, <1>8, <1>9

\* The candidate: typed, worse than its prefix in all but the departure, and
\* unable to turn out a label the branch in hand descends from.
LEMMA CandidateFacts ==
    ASSUME IInv, NEW leg \in todo, Visiting(leg), Wanted(leg)
    PROVE  /\ Reached(leg) \in Riding /\ Elapsed(Reached(leg))
           /\ Grows(Branch.m, Reached(leg))
           /\ Reached(leg).nt <= MaxTransfers
           /\ Metrics(Reached(leg)) \in EntryMetrics
           /\ NewLabel \in Nat /\ NewLabel \notin DOMAIN labels
           /\ NewBranch(leg) \in BranchType
           /\ \A l \in TurnedOut(leg) : \E e \in Range(sets[leg.to]) :
                 e.label = l /\ Dominates(Metrics(Reached(leg)), e.m)
<1> DEFINE x == Reached(leg)
<1>1. /\ expanding \in DOMAIN branches /\ Branch \in BranchType
      /\ leg \in Legs /\ leg \in Successors(Branch) /\ leg.to \in Nodes
  BY LegInHand
<1>2. Elapsed(Branch.m) /\ network \in Networks
  BY <1>1 DEF IInv, Labelled, Typing, Branch
<1>3. x \in Riding /\ Elapsed(x) /\ Grows(Branch.m, x)
  BY <1>1, <1>2, ExtendGrows DEF Reached
<1>4. x.nt <= MaxTransfers
  <2>1. ~(x.nt > MaxTransfers)
    BY DEF Wanted, Barren, Reached
  <2>2. x.nt \in Nat /\ MaxTransfers \in Nat
    BY <1>3, MaxTransfersAssumption DEF Riding
  <2> QED BY <2>1, <2>2
<1>5. Metrics(x) \in EntryMetrics
  BY <1>3, MetricsTyped
<1>6. /\ NewLabel \in Nat /\ NewLabel \notin DOMAIN labels
      /\ Len(branches) \in Nat
  BY DEF IInv, Typing, NewLabel
<1>7. NewBranch(leg) \in BranchType
  <2>1. NextPhase(Branch, leg) \in Phases
    BY DEF NextPhase, Phases
  <2>2. Append(Branch.path, leg) \in Seq(Legs)
    BY <1>1 DEF BranchType
  <2>3. NewBranch(leg) = [node |-> leg.to, phase |-> NextPhase(Branch, leg),
                          path |-> Append(Branch.path, leg), m |-> x,
                          label |-> NewLabel, parent |-> None]
    BY DEF NewBranch, Candidate, Reached
  <2> HIDE DEF x
  <2> QED BY <1>1, <1>3, <1>6, <2>1, <2>2, <2>3 DEF BranchType
<1>8. ASSUME NEW l \in TurnedOut(leg)
      PROVE  \E e \in Range(sets[leg.to]) :
               e.label = l /\ Dominates(Metrics(x), e.m)
  <2>1. PICK i \in DOMAIN Fresh(leg.to) :
          Fresh(leg.to)[i].label = l /\ Dominates(Metrics(x), Fresh(leg.to)[i].m)
    BY DEF TurnedOut, DominatedLabels
  <2>2. Fresh(leg.to)[i] \in Range(sets[leg.to])
    <3>1. Range(Fresh(leg.to)) = {e \in Range(sets[leg.to]) : Active(e.label)}
      BY <1>1, FreshFacts DEF IInv
    <3>2. Fresh(leg.to)[i] \in Range(Fresh(leg.to))
      BY <2>1 DEF Range
    <3> QED BY <3>1, <3>2
  <2> QED BY <2>1, <2>2
<1> QED BY <1>3, <1>4, <1>5, <1>6, <1>7, <1>8

\* The labels the branch in hand descends from keep their flags.
LEMMA AncestorsSpared ==
    ASSUME IInv, NEW leg \in todo, Visiting(leg), Wanted(leg),
           NEW A \in SUBSET DOMAIN labels,
           \A y \in Nodes : \A e \in Range(sets[y]) :
               e.label \in A => PrefixOf(e.m, Branch.m)
    PROVE  A \cap TurnedOut(leg) = {}
<1>1. leg.to \in Nodes /\ Branch \in BranchType
  BY LegInHand
<1>2. ASSUME NEW l \in A, l \in TurnedOut(leg)
      PROVE  FALSE
  <2>1. PICK e \in Range(sets[leg.to]) :
          e.label = l /\ Dominates(Metrics(Reached(leg)), e.m)
    BY <1>2, CandidateFacts
  <2>2. PrefixOf(e.m, Branch.m)
    BY <1>1, <2>1
  <2>3. e.m \in EntryMetrics
    <3>1. sets[leg.to] \in Seq(Entry)
      BY <1>1 DEF IInv, Typing
    <3>2. e \in Entry
      BY <3>1, ElementOfSeq DEF Range
    <3> QED BY <3>2, EntryFields
  <2>4. Branch.m \in Riding
    BY <1>1 DEF BranchType
  <2>5. /\ Reached(leg) \in Riding /\ Elapsed(Reached(leg))
        /\ Grows(Branch.m, Reached(leg))
    BY CandidateFacts
  <2>6. PrefixOf(e.m, Reached(leg))
    BY <2>2, <2>3, <2>4, <2>5, PrefixOfExtension
  <2> QED BY <2>1, <2>3, <2>5, <2>6, PrefixNotDominated
<1> QED BY <1>2

\* What becomes of the labels and of the connection sets.
LEMMA AcceptedLabels ==
    ASSUME IInv, NEW leg \in todo, Visiting(leg), Wanted(leg),
           NEW c, AcceptedAs(leg, c)
    PROVE  /\ labels' \in Seq(LabelType) /\ Forest(labels')
           /\ Len(labels') = Len(labels) + 1 /\ NewLabel \in DOMAIN labels'
           /\ labels'[NewLabel].active
           /\ labels'[NewLabel].parent = Branch.label
           /\ Branch.label \in 0 .. Len(labels)
           /\ DOMAIN labels \subseteq DOMAIN labels'
           /\ \A l \in 1 .. Len(labels) :
               /\ labels'[l].parent = labels[l].parent
               /\ labels'[l].active <=>
                    labels[l].active /\ l \notin TurnedOut(leg)
           /\ \A l \in 0 .. Len(labels) : ActiveIn(labels', l) => ActiveIn(labels, l)
<1>1. Branch.label \in 0 .. Len(labels)
  BY LegInHand DEF IInv, Labelled, Branch
<1>2. labels \in Seq(LabelType) /\ Forest(labels)
  BY DEF IInv, Typing, Labelled
<1>3. labels' = Registered(TurnedOut(leg))
  BY DEF AcceptedAs
<1>4. /\ labels' \in Seq(LabelType) /\ Forest(labels')
      /\ Len(labels') = NewLabel
      /\ labels'[NewLabel].active
      /\ labels'[NewLabel].parent = Branch.label
      /\ \A l \in 1 .. Len(labels) :
          /\ labels'[l].parent = labels[l].parent
          /\ labels'[l].active <=>
               labels[l].active /\ l \notin TurnedOut(leg)
  BY <1>1, <1>2, <1>3, RegisteredFacts
<1>5. /\ Len(labels) \in Nat /\ DOMAIN labels = 1 .. Len(labels)
      /\ NewLabel = Len(labels) + 1 /\ DOMAIN labels' = 1 .. NewLabel
      /\ NewLabel \in DOMAIN labels' /\ DOMAIN labels \subseteq DOMAIN labels'
      /\ Len(labels) <= Len(labels')
  BY <1>2, <1>4 DEF NewLabel
<1>6. ASSUME NEW l \in 0 .. Len(labels), ActiveIn(labels', l)
      PROVE  ActiveIn(labels, l)
  BY <1>2, <1>4, <1>5, <1>6, DeadStaysDead
<1> QED BY <1>1, <1>4, <1>5, <1>6

LEMMA AcceptedSets ==
    ASSUME IInv, NEW leg \in todo, Visiting(leg), Wanted(leg),
           NEW c, AcceptedAs(leg, c)
    PROVE  /\ sets' \in [Nodes -> Seq(Entry)] /\ DOMAIN summary' = Nodes
           /\ Canonic'
           /\ \A y \in Nodes : \A e \in Range(sets'[y]) :
               \/ e \in Range(sets[y]) /\ e.label \in DOMAIN labels
               \/ y = leg.to /\ e = [m |-> Metrics(Reached(leg)),
                                     label |-> NewLabel]
<1> DEFINE y == leg.to
           m == Metrics(Reached(leg))
           old == Fresh(y)
           new == Insert(old, m, NewLabel)
<1>1. y \in Nodes
  BY LegInHand
<1>2. /\ old \in Seq(Entry) /\ Kernel(old) /\ Ordered(old)
      /\ Range(old) \subseteq Range(sets[y])
      /\ FreshSummary(y) = Summary(old)
  BY <1>1, FreshFacts DEF IInv, Kernel
<1>3. m \in EntryMetrics /\ NewLabel \in Nat /\ NewLabel \notin DOMAIN labels
  BY CandidateFacts
<1>4. old # <<>> => Relevant(old, m)
  BY DEF Wanted, Accepts, Reached
<1>5. \A e \in Range(sets[y]) : e.label \in DOMAIN labels
  BY <1>1 DEF IInv, Labelled
<1>6. /\ sets \in [Nodes -> Seq(Entry)] /\ DOMAIN summary = Nodes
      /\ sets' = [sets EXCEPT ![y] = new]
      /\ summary' = [summary EXCEPT ![y] =
             SummaryAfterInsert(old, FreshSummary(y), m, NewLabel)]
  BY DEF IInv, Typing, AcceptedAs
<1> HIDE DEF m, old
<1>7. \A i \in 1 .. Len(old) : old[i].label # NewLabel
  <2>1. \A i \in 1 .. Len(old) : old[i] \in Range(old)
    BY <1>2 DEF Range
  <2> QED BY <1>2, <1>3, <1>5, <2>1
<1>8. Kernel(new)
  BY <1>2, <1>3, <1>4, <1>7, InsertKeepsKernel
<1>9. SummaryAfterInsert(old, FreshSummary(y), m, NewLabel) = Summary(new)
  BY <1>2, <1>3, InsertKeepsSummary
<1>10. /\ new \in Seq(Entry)
       /\ Range(new) \subseteq Range(old) \cup {[m |-> m, label |-> NewLabel]}
  BY <1>2, <1>3, InsertRange
<1> HIDE DEF new
<1>11. sets' \in [Nodes -> Seq(Entry)] /\ DOMAIN summary' = Nodes
  BY <1>1, <1>6, <1>10
<1>12. /\ sets'[y] = new /\ summary'[y] = Summary(new)
       /\ \A z \in Nodes \ {y} : sets'[z] = sets[z] /\ summary'[z] = summary[z]
  BY <1>1, <1>6, <1>9
<1>13. Canonic'
  BY <1>8, <1>12 DEF IInv, Canonic
<1>14. ASSUME NEW z \in Nodes, NEW e \in Range(sets'[z])
       PROVE  \/ e \in Range(sets[z]) /\ e.label \in DOMAIN labels
              \/ z = y /\ e = [m |-> m, label |-> NewLabel]
  <2>1. CASE z = y
    BY <1>2, <1>5, <1>10, <1>12, <2>1
  <2>2. CASE z # y
    BY <1>12, <2>2 DEF IInv, Labelled
  <2> QED BY <2>1, <2>2
<1> QED BY <1>11, <1>13, <1>14 DEF m

\* The branches afterwards: those there were, and perhaps the candidate.
LEMMA AcceptedBranches ==
    ASSUME IInv, NEW leg \in todo, Visiting(leg), Wanted(leg),
           NEW c, AcceptedAs(leg, c)
    PROVE  /\ branches' \in Seq(BranchType)
           /\ DOMAIN branches \subseteq DOMAIN branches'
           /\ \A i \in DOMAIN branches : branches'[i] = branches[i]
           /\ \/ /\ leg.to \in Stops /\ Len(branches') = Len(branches) + 1
                 /\ DOMAIN branches' = DOMAIN branches \cup {Len(branches) + 1}
                 /\ branches'[Len(branches) + 1] = NewBranch(leg)
                 /\ branches' = Append(branches, NewBranch(leg))
              \/ branches' = branches
<1>1. NewBranch(leg) \in BranchType
  BY CandidateFacts
<1>2. branches \in Seq(BranchType)
  BY DEF IInv, Typing
<1>3. CASE branches' = Append(branches, NewBranch(leg)) /\ leg.to \in Stops
  BY <1>1, <1>2, <1>3
<1>4. CASE branches' = branches
  BY <1>2, <1>4
<1> QED BY <1>3, <1>4 DEF AcceptedAs, JoinsNext, IsHandedOver, FailsTheCheck

LEMMA NewBranchFields ==
    ASSUME NEW leg
    PROVE  /\ NewBranch(leg).node = leg.to /\ NewBranch(leg).label = NewLabel
           /\ NewBranch(leg).m = Reached(leg)
           /\ NewBranch(leg).path = Append(Branch.path, leg)
BY DEF NewBranch, Candidate, Reached

LEMMA AcceptKeepsLabelled ==
    ASSUME IInv, NEW leg \in todo, Visiting(leg), Wanted(leg),
           NEW c, AcceptedAs(leg, c)
    PROVE  Labelled'
<1>1. Labelled
  BY DEF IInv
<1>2. /\ Forest(labels') /\ Len(labels') = Len(labels) + 1
      /\ Len(labels) \in Nat /\ NewLabel = Len(labels) + 1
      /\ NewLabel \in DOMAIN labels' /\ DOMAIN labels \subseteq DOMAIN labels'
  BY AcceptedLabels DEF IInv, Typing, NewLabel
<1>3. ASSUME NEW i \in DOMAIN branches'
      PROVE  /\ branches'[i].label \in 0 .. Len(labels')
             /\ branches'[i].m.nt <= MaxTransfers
             /\ Elapsed(branches'[i].m)
             /\ branches'[i].node \in Stops \/ ~branches'[i].m.boarded
  <2>1. CASE i \in DOMAIN branches
    <3>1. branches'[i] = branches[i]
      BY <2>1, AcceptedBranches
    <3>2. /\ branches[i].label \in 0 .. Len(labels)
          /\ branches[i].m.nt <= MaxTransfers
          /\ Elapsed(branches[i].m)
          /\ branches[i].node \in Stops \/ ~branches[i].m.boarded
      BY <1>1, <2>1 DEF Labelled
    <3> QED BY <1>2, <3>1, <3>2
  <2>2. CASE i \notin DOMAIN branches
    <3>1. branches'[i] = NewBranch(leg) /\ leg.to \in Stops
      BY <2>2, AcceptedBranches
    <3>2. Reached(leg).nt <= MaxTransfers /\ Elapsed(Reached(leg))
      BY CandidateFacts
    <3> QED BY <1>2, <3>1, <3>2, NewBranchFields
  <2> QED BY <2>1, <2>2
<1>4. ASSUME NEW y \in Nodes, NEW e \in Range(sets'[y])
      PROVE  e.label \in DOMAIN labels'
  BY <1>2, AcceptedSets
<1> QED BY <1>2, <1>3, <1>4 DEF Labelled

LEMMA AcceptKeepsDescent ==
    ASSUME IInv, NEW leg \in todo, Visiting(leg), Wanted(leg),
           NEW c, AcceptedAs(leg, c)
    PROVE  Descent'
<1> DEFINE x == Reached(leg)
<1>1. /\ expanding \in DOMAIN branches /\ Branch \in BranchType
      /\ Branch = branches[expanding] /\ Branch.m \in Riding
  BY LegInHand DEF BranchType, Branch
<1>2. /\ x \in Riding /\ Elapsed(x) /\ Grows(Branch.m, x)
      /\ NewLabel \notin DOMAIN labels
  BY CandidateFacts
<1>3. /\ NewLabel \in DOMAIN labels'
      /\ labels'[NewLabel].parent = Branch.label
      /\ DOMAIN labels \subseteq DOMAIN labels'
      /\ \A l \in DOMAIN labels : labels'[l].parent = labels[l].parent
  <2>1. DOMAIN labels = 1 .. Len(labels)
    BY DEF IInv, Typing
  <2> QED BY <2>1, AcceptedLabels
<1>4. \A y \in Nodes : \A e \in Range(sets'[y]) :
        \/ e \in Range(sets[y]) /\ e.label \in DOMAIN labels
        \/ e.m = Metrics(x) /\ e.label = NewLabel
  BY AcceptedSets
<1>5. ASSUME NEW i \in DOMAIN branches
      PROVE  \E A \in SUBSET DOMAIN labels :
               /\ ClosedIn(labels, A) /\ ClosedIn(labels', A)
               /\ branches[i].label \in A \cup {None}
               /\ \A y \in Nodes : \A e \in Range(sets[y]) :
                   e.label \in A => PrefixOf(e.m, branches[i].m)
  <2>1. PICK A \in SUBSET DOMAIN labels :
          /\ ClosedIn(labels, A)
          /\ branches[i].label \in A \cup {None}
          /\ \A y \in Nodes : \A e \in Range(sets[y]) :
              e.label \in A => PrefixOf(e.m, branches[i].m)
    BY DEF IInv, Descent
  <2>2. ClosedIn(labels', A)
    BY <1>3, <2>1 DEF ClosedIn
  <2> QED BY <2>1, <2>2
<1>6. ASSUME NEW i \in DOMAIN branches'
      PROVE  \E A \in SUBSET DOMAIN labels' :
               /\ ClosedIn(labels', A)
               /\ branches'[i].label \in A \cup {None}
               /\ \A y \in Nodes : \A e \in Range(sets'[y]) :
                   e.label \in A => PrefixOf(e.m, branches'[i].m)
  <2>1. CASE i \in DOMAIN branches
    <3>1. branches'[i] = branches[i]
      BY <2>1, AcceptedBranches
    <3>2. PICK A \in SUBSET DOMAIN labels :
            /\ ClosedIn(labels, A) /\ ClosedIn(labels', A)
            /\ branches[i].label \in A \cup {None}
            /\ \A y \in Nodes : \A e \in Range(sets[y]) :
                e.label \in A => PrefixOf(e.m, branches[i].m)
      BY <1>5, <2>1
    <3>3. \A y \in Nodes : \A e \in Range(sets'[y]) :
            e.label \in A => PrefixOf(e.m, branches[i].m)
      BY <1>2, <1>4, <3>2
    <3> QED BY <1>3, <3>1, <3>2, <3>3
  <2>2. CASE i \notin DOMAIN branches
    <3>1. branches'[i] = NewBranch(leg)
      BY <2>2, AcceptedBranches
    <3>2. branches'[i].label = NewLabel /\ branches'[i].m = x
      BY <3>1, NewBranchFields
    <3>3. PICK A \in SUBSET DOMAIN labels :
            /\ ClosedIn(labels, A) /\ ClosedIn(labels', A)
            /\ Branch.label \in A \cup {None}
            /\ \A y \in Nodes : \A e \in Range(sets[y]) :
                e.label \in A => PrefixOf(e.m, Branch.m)
      BY <1>1, <1>5
    <3> DEFINE B == A \cup {NewLabel}
    <3>4. B \in SUBSET DOMAIN labels' /\ ClosedIn(labels', B)
      BY <1>3, <3>3 DEF ClosedIn
    <3>5. ASSUME NEW y \in Nodes, NEW e \in Range(sets'[y]), e.label \in B
          PROVE  PrefixOf(e.m, x)
      <4>1. CASE e \in Range(sets[y]) /\ e.label \in DOMAIN labels
        <5>1. e.label \in A
          BY <1>2, <3>5, <4>1
        <5>2. PrefixOf(e.m, Branch.m)
          BY <3>3, <4>1, <5>1
        <5>3. e.m \in EntryMetrics
          <6>1. sets[y] \in Seq(Entry)
            BY DEF IInv, Typing
          <6>2. e \in Entry
            BY <4>1, <6>1, ElementOfSeq DEF Range
          <6> QED BY <6>2, EntryFields
        <5> QED BY <1>1, <1>2, <5>2, <5>3, PrefixOfExtension
      <4>2. CASE e.m = Metrics(x) /\ e.label = NewLabel
        BY <1>2, <4>2, PrefixOfItself
      <4> QED BY <1>4, <4>1, <4>2
    <3> QED BY <3>2, <3>4, <3>5
  <2> QED BY <2>1, <2>2
<1> QED BY <1>6 DEF Descent

\* The loop over the successors goes on with a branch that is alive.
LEMMA AcceptKeepsExpanded ==
    ASSUME IInv, NEW leg \in todo, Visiting(leg), Wanted(leg),
           NEW c, AcceptedAs(leg, c)
    PROVE  ExpandedStaysActive'
<1>1. /\ expanding \in DOMAIN branches /\ Branch = branches[expanding]
      /\ state = "scan"
  BY LegInHand DEF Branch
<1>2. PICK A \in SUBSET DOMAIN labels :
        /\ ClosedIn(labels, A)
        /\ Branch.label \in A \cup {None}
        /\ \A y \in Nodes : \A e \in Range(sets[y]) :
            e.label \in A => PrefixOf(e.m, Branch.m)
  BY <1>1 DEF IInv, Descent
<1>3. A \cap TurnedOut(leg) = {}
  BY <1>2, AncestorsSpared
<1>4. /\ labels \in Seq(LabelType) /\ Forest(labels)
      /\ Len(labels) \in Nat /\ DOMAIN labels = 1 .. Len(labels)
  BY DEF IInv, Typing, Labelled
<1>5. /\ labels' \in Seq(LabelType) /\ Forest(labels')
      /\ Len(labels') = Len(labels) + 1
      /\ \A l \in 1 .. Len(labels) :
          /\ labels'[l].parent = labels[l].parent
          /\ labels'[l].active <=>
               labels[l].active /\ l \notin TurnedOut(leg)
  BY AcceptedLabels
<1>6. \A l \in A : /\ labels'[l].parent = labels[l].parent
                   /\ labels[l].active => labels'[l].active
  BY <1>2, <1>3, <1>4, <1>5
<1>7. ActiveIn(labels, Branch.label)
  BY <1>1 DEF IInv, ExpandedStaysActive, Active
<1>8. Len(labels) <= Len(labels')
  BY <1>4, <1>5
<1>9. ActiveIn(labels', Branch.label)
  BY <1>2, <1>4, <1>5, <1>6, <1>7, <1>8, ClosedStaysActive
<1>10. branches'[expanding] = Branch /\ expanding' = expanding
  BY <1>1, AcceptedBranches DEF AcceptedAs
<1> QED BY <1>9, <1>10 DEF ExpandedStaysActive, Active

LEMMA AcceptKeepsPursued ==
    ASSUME IInv, NEW leg \in todo, Visiting(leg), Wanted(leg),
           NEW c, AcceptedAs(leg, c)
    PROVE  Pursued'
<1> SUFFICES ASSUME state' \notin {"failing", "failed", "stopped"},
                    NEW y \in Nodes, NEW e \in Range(sets'[y])
             PROVE  \/ ~ActiveIn(labels', e.label)
                    \/ \E b \in DOMAIN branches' :
                        /\ branches'[b].label = e.label
                        /\ branches'[b].node = y
                        /\ Metrics(branches'[b].m) = e.m
                    \/ \E path \in completed' : path[Len(path)].to = y
  BY DEF Pursued, Active
<1>1. state = "scan" /\ Branch \in BranchType /\ leg \in Legs
  BY LegInHand
<1>2. completed \subseteq completed'
  BY DEF AcceptedAs, JoinsNext, IsHandedOver, FailsTheCheck
<1>3. \/ e \in Range(sets[y]) /\ e.label \in DOMAIN labels
      \/ y = leg.to /\ e = [m |-> Metrics(Reached(leg)), label |-> NewLabel]
  BY AcceptedSets
<1>4. CASE e \in Range(sets[y]) /\ e.label \in DOMAIN labels
  <2>1. \/ ~Active(e.label)
        \/ \E b \in DOMAIN branches :
            /\ branches[b].label = e.label
            /\ branches[b].node = y
            /\ Metrics(branches[b].m) = e.m
        \/ \E path \in completed : path[Len(path)].to = y
    BY <1>1, <1>4 DEF IInv, Pursued
  <2>2. CASE ~Active(e.label)
    <3>1. e.label \in 0 .. Len(labels)
      BY <1>4 DEF IInv, Typing
    <3> QED BY <2>2, <3>1, AcceptedLabels DEF Active
  <2>3. ASSUME NEW b \in DOMAIN branches, branches[b].label = e.label,
               branches[b].node = y, Metrics(branches[b].m) = e.m
        PROVE  \E d \in DOMAIN branches' :
                 /\ branches'[d].label = e.label
                 /\ branches'[d].node = y
                 /\ Metrics(branches'[d].m) = e.m
    BY <2>3, AcceptedBranches
  <2> QED BY <1>2, <2>1, <2>2, <2>3
<1>5. CASE y = leg.to /\ e = [m |-> Metrics(Reached(leg)), label |-> NewLabel]
  <2>1. CASE JoinsNext(leg, c)
    <3>1. branches' = Append(branches, NewBranch(leg))
      BY <2>1 DEF JoinsNext
    <3>2. /\ Len(branches) + 1 \in DOMAIN branches'
          /\ branches'[Len(branches) + 1] = NewBranch(leg)
      BY <3>1, CandidateFacts DEF IInv, Typing
    <3> QED BY <1>5, <3>2, NewBranchFields
  <2>2. CASE IsHandedOver(leg, c)
    <3>1. Append(Branch.path, leg) \in completed'
      BY <2>2, NewBranchFields DEF IsHandedOver
    <3>2. /\ Len(Append(Branch.path, leg)) = Len(Branch.path) + 1
          /\ Append(Branch.path, leg)[Len(Branch.path) + 1] = leg
      BY <1>1 DEF BranchType
    <3> QED BY <1>5, <3>1, <3>2
  <2> QED BY <2>1, <2>2 DEF AcceptedAs, FailsTheCheck
<1> QED BY <1>3, <1>4, <1>5

LEMMA CountSame ==
    ASSUME NEW bs, NEW later, NEW queue,
           \A i \in Range(queue) : later[i] = bs[i], NEW p
    PROVE  InPhase(later, queue, p) = InPhase(bs, queue, p)
<1>1. {i \in DOMAIN queue : later[queue[i]].phase = p}
        = {i \in DOMAIN queue : bs[queue[i]].phase = p}
  BY DEF Range
<1> QED BY <1>1 DEF InPhase

\* What is queued afterwards: what the compaction left, and perhaps the
\* candidate, which is new.
LEMMA AcceptedLayers ==
    ASSUME IInv, NEW leg \in todo, Visiting(leg), Wanted(leg),
           NEW c, Shrunk(c, Registered(TurnedOut(leg))), AcceptedAs(leg, c)
    PROVE  /\ current' \in Seq(Nat) /\ Distinct(current')
           /\ current' = c.current /\ Range(current') \subseteq Range(current)
           /\ next' \in Seq(Nat) /\ Distinct(next')
           /\ Range(c.next) \subseteq Range(next)
           /\ expanding \in DOMAIN branches /\ expanding # None
           /\ expanding \notin c.dropped
           /\ c.dropped = (Range(current) \ Range(c.current))
                             \cup (Range(next) \ Range(c.next))
           /\ \/ /\ JoinsNext(leg, c)
                 /\ DOMAIN branches' = DOMAIN branches \cup {Len(branches) + 1}
                 /\ Len(branches) + 1 \notin DOMAIN branches
                 /\ Range(next') = Range(c.next) \cup {Len(branches) + 1}
                 /\ Len(branches') = Len(branches) + 1
                 /\ Len(next') = Len(c.next) + 1
              \/ /\ IsHandedOver(leg, c) \/ FailsTheCheck(leg, c)
                 /\ branches' = branches /\ next' = c.next
<1>1. /\ c.current \in Seq(Nat) /\ Distinct(c.current)
      /\ Range(c.current) \subseteq Range(current)
      /\ c.next \in Seq(Nat) /\ Distinct(c.next)
      /\ Range(c.next) \subseteq Range(next)
      /\ c.dropped = (Range(current) \ Range(c.current))
                        \cup (Range(next) \ Range(c.next))
  BY DEF Shrunk
<1>2. current' = c.current
  BY DEF AcceptedAs
<1>3. expanding \in DOMAIN branches /\ expanding # None
      /\ Range(next) \subseteq DOMAIN branches
      /\ expanding \notin Range(current) \cup Range(next)
  <2>1. expanding \in DOMAIN branches
    BY LegInHand
  <2> QED BY <2>1 DEF IInv, Queued, Typing, None
<1>4. /\ Len(branches) \in Nat /\ Len(branches) + 1 \notin DOMAIN branches
      /\ Len(branches) + 1 \in Nat
  BY DEF IInv, Typing
<1>5. CASE JoinsNext(leg, c)
  <2>1. next' = Append(c.next, Len(branches) + 1)
    BY <1>5 DEF JoinsNext
  <2>2. Len(branches) + 1 \notin Range(c.next)
    BY <1>1, <1>3, <1>4
  <2>3. /\ next' \in Seq(Nat) /\ Distinct(next')
        /\ Range(next') = Range(c.next) \cup {Len(branches) + 1}
        /\ Len(next') = Len(c.next) + 1
    BY <1>1, <1>4, <2>1, <2>2, AppendFacts
  <2>4. /\ DOMAIN branches' = DOMAIN branches \cup {Len(branches) + 1}
        /\ Len(branches') = Len(branches) + 1
    <3>1. branches' # branches
      <4>1. Len(branches') = Len(branches) + 1
        BY <1>5, CandidateFacts DEF JoinsNext, IInv, Typing
      <4> QED BY <1>4, <4>1
    <3> QED BY <3>1, AcceptedBranches
  <2> QED BY <1>1, <1>2, <1>3, <1>4, <1>5, <2>3, <2>4
<1>6. CASE IsHandedOver(leg, c) \/ FailsTheCheck(leg, c)
  <2>1. branches' = branches /\ next' = c.next
    BY <1>6 DEF IsHandedOver, FailsTheCheck
  <2> QED BY <1>1, <1>2, <1>3, <1>6, <2>1
<1> QED BY <1>5, <1>6 DEF AcceptedAs

LEMMA AcceptKeepsQueued ==
    ASSUME IInv, NEW leg \in todo, Visiting(leg), Wanted(leg),
           NEW c, Shrunk(c, Registered(TurnedOut(leg))), AcceptedAs(leg, c)
    PROVE  Queued' /\ released' \subseteq DOMAIN branches'
<1>1. Queued /\ state = "scan" /\ released \subseteq DOMAIN branches
  BY LegInHand DEF IInv, Typing
<1>2. /\ Range(current) \cup Range(next) \subseteq DOMAIN branches
      /\ Range(current) \cap Range(next) = {}
      /\ expanding \notin Range(current) \cup Range(next)
      /\ Range(current) \cup Range(next) \cup ({expanding} \ {None})
           = DOMAIN branches \ released
  BY <1>1 DEF Queued
<1>3. expanding' = expanding
  BY DEF AcceptedAs
<1>4. /\ Distinct(current') /\ Distinct(next')
      /\ current' = c.current /\ Range(current') \subseteq Range(current)
      /\ Range(c.next) \subseteq Range(next)
      /\ expanding \in DOMAIN branches /\ expanding # None
      /\ c.dropped = (Range(current) \ Range(c.current))
                        \cup (Range(next) \ Range(c.next))
  BY AcceptedLayers
<1>5. CASE /\ JoinsNext(leg, c)
           /\ DOMAIN branches' = DOMAIN branches \cup {Len(branches) + 1}
           /\ Len(branches) + 1 \notin DOMAIN branches
           /\ Range(next') = Range(c.next) \cup {Len(branches) + 1}
  <2>1. released' = released \cup c.dropped /\ state' = state
    BY <1>5 DEF JoinsNext
  <2>2. Len(branches) + 1 # None
    BY DEF IInv, Typing, None
  <2> QED BY <1>1, <1>2, <1>3, <1>4, <1>5, <2>1, <2>2 DEF Queued
<1>6. CASE IsHandedOver(leg, c) /\ branches' = branches /\ next' = c.next
  <2>1. released' = released \cup c.dropped /\ state' = state
    BY <1>6 DEF IsHandedOver
  <2> QED BY <1>1, <1>2, <1>3, <1>4, <1>6, <2>1 DEF Queued
<1>7. CASE FailsTheCheck(leg, c) /\ branches' = branches /\ next' = c.next
  <2>1. released' = released \cup c.dropped
    BY <1>7 DEF FailsTheCheck
  <2> QED BY <1>1, <1>2, <1>3, <1>4, <1>7, <2>1 DEF Queued
<1> QED BY <1>5, <1>6, <1>7, AcceptedLayers

LEMMA AcceptKeepsCounted ==
    ASSUME IInv, NEW leg \in todo, Visiting(leg), Wanted(leg),
           NEW c, Shrunk(c, Registered(TurnedOut(leg))), AcceptedAs(leg, c)
    PROVE  Counted' /\ counts' \in CountType /\ stats' \in StatsType
<1>1. /\ c.current \in Seq(Nat) /\ Range(c.current) \subseteq Range(current)
      /\ c.next \in Seq(Nat) /\ Range(c.next) \subseteq Range(next)
      /\ c.removed \in Nat
      /\ Len(current) + Len(next) = Len(c.current) + Len(c.next) + c.removed
      /\ c.counts \in CountType
      /\ \A p \in Phases :
          /\ c.counts.current[p] = InPhase(branches, c.current, p)
          /\ c.counts.next[p] = InPhase(branches, c.next, p)
  BY DEF Shrunk
<1>2. /\ stats' \in StatsType
      /\ stats'.expanded = stats.expanded /\ stats'.stale = stats.stale
      /\ stats'.compacted = stats.compacted + c.removed
  <2>1. stats \in StatsType
    BY DEF IInv, Typing
  <2>2. stats' = [stats EXCEPT !["compacted"] = stats["compacted"] + c.removed]
    BY DEF AcceptedAs
  <2> QED BY <1>1, <2>1, <2>2 DEF StatsType
<1>3. /\ Range(c.current) \subseteq DOMAIN branches
      /\ Range(c.next) \subseteq DOMAIN branches
  BY <1>1 DEF IInv, Queued
<1>4. /\ current' = c.current
      /\ \A i \in DOMAIN branches : branches'[i] = branches[i]
  BY AcceptedLayers, AcceptedBranches
<1>5. \A p \in Phases :
        /\ InPhase(branches', c.current, p) = c.counts.current[p]
        /\ InPhase(branches', c.next, p) = c.counts.next[p]
  <2>1. /\ \A i \in Range(c.current) : branches'[i] = branches[i]
        /\ \A i \in Range(c.next) : branches'[i] = branches[i]
    BY <1>3, <1>4
  <2>2. \A p : /\ InPhase(branches', c.current, p) = InPhase(branches, c.current, p)
               /\ InPhase(branches', c.next, p) = InPhase(branches, c.next, p)
    BY <2>1, CountSame
  <2> QED BY <1>1, <2>2
<1>6. /\ Len(c.next) \in Nat /\ Len(c.current) \in Nat /\ Len(next) \in Nat
      /\ Len(current) \in Nat
      /\ stats.expanded \in Nat /\ stats.stale \in Nat /\ stats.compacted \in Nat
  BY <1>1 DEF IInv, Typing, StatsType
<1>7. Len(branches) = stats'.expanded + stats'.stale + stats'.compacted
                        + Len(c.current) + Len(c.next)
  <2>1. Len(branches) = stats.expanded + stats.stale + stats.compacted
                          + Len(current) + Len(next)
    BY DEF IInv, Counted
  <2>2. /\ Len(current) + Len(next) = Len(c.current) + Len(c.next) + c.removed
        /\ c.removed \in Nat
    BY <1>1
  <2>3. Len(branches) = stats.expanded + stats.stale + (stats.compacted + c.removed)
                          + Len(c.current) + Len(c.next)
    <3> DEFINE total == Len(branches)
               u == Len(c.current)
               v == Len(c.next)
               x == Len(current)
               y == Len(next)
               a == stats.expanded
               b == stats.stale
               d == stats.compacted
               r == c.removed
    <3>1. total = a + b + d + x + y /\ x + y = u + v + r
      BY <2>1, <2>2
    <3>2. /\ u \in Nat /\ v \in Nat /\ x \in Nat /\ y \in Nat
          /\ a \in Nat /\ b \in Nat /\ d \in Nat /\ r \in Nat
      BY <1>6, <2>2
    <3> HIDE DEF total, u, v, x, y, a, b, d, r
    <3>3. total = a + b + (d + r) + u + v
      BY <3>1, <3>2
    <3> QED BY <3>3 DEF total, u, v, a, b, d, r
  <2> QED BY <1>2, <2>3
<1>8. CASE JoinsNext(leg, c)
  <2> DEFINE x == Len(branches) + 1
             q == NewBranch(leg).phase
  <2>1. /\ next' = Append(c.next, x) /\ branches' = Append(branches, NewBranch(leg))
        /\ counts' = [c.counts EXCEPT !.next[q] = @ + 1]
    BY <1>8 DEF JoinsNext
  <2>2. NewBranch(leg) \in BranchType /\ branches \in Seq(BranchType)
        /\ q \in Phases
    BY CandidateFacts DEF IInv, Typing, BranchType
  <2>3. branches'[x] = NewBranch(leg) /\ x \in Nat /\ Len(branches') = x
        /\ Len(branches) \in Nat
    BY <2>1, <2>2
  <2>4. Len(next') = Len(c.next) + 1
    BY <1>1, <2>1, <2>3, AppendFacts
  <2>5. \A p \in Phases : InPhase(branches', next', p)
          = c.counts.next[p] + (IF p = q THEN 1 ELSE 0)
    <3>1. \A p \in Phases : InPhase(branches', Append(c.next, x), p)
            = InPhase(branches', c.next, p)
                + (IF branches'[x].phase = p THEN 1 ELSE 0)
      BY <1>1, <2>3, CountJoined
    <3> QED BY <1>5, <2>1, <2>3, <3>1
  <2> HIDE DEF q, x
  <2>6. /\ counts' \in CountType /\ counts'.current = c.counts.current
        /\ \A p \in Phases :
            counts'.next[p] = c.counts.next[p] + (IF p = q THEN 1 ELSE 0)
    <3> DEFINE more == [c.counts.next EXCEPT ![q] = @ + 1]
    <3>1. c.counts.next \in [Phases -> Nat]
      BY <1>1 DEF CountType
    <3>2. /\ more \in [Phases -> Nat]
          /\ \A p \in Phases :
              more[p] = c.counts.next[p] + (IF p = q THEN 1 ELSE 0)
      BY <2>2, <3>1
    <3>3. counts' = [c.counts EXCEPT !["next"] = more]
      BY <2>1
    <3> HIDE DEF more
    <3>4. /\ counts' \in CountType /\ counts'.current = c.counts.current
          /\ counts'.next = more
      BY <1>1, <3>2, <3>3 DEF CountType
    <3> QED BY <3>2, <3>4
  <2>7. Len(branches') = stats'.expanded + stats'.stale + stats'.compacted
                           + Len(current') + Len(next')
    <3>1. stats'.expanded \in Nat /\ stats'.stale \in Nat /\ stats'.compacted \in Nat
      BY <1>2 DEF StatsType
    <3>2. Len(branches') = Len(branches) + 1 /\ Len(current') = Len(c.current)
      BY <1>4, <2>3 DEF x
    <3>3. Len(branches) + 1 = stats'.expanded + stats'.stale + stats'.compacted
                                + Len(c.current) + (Len(c.next) + 1)
      <4> DEFINE total == Len(branches)
                 u == Len(c.current)
                 v == Len(c.next)
      <4>1. /\ total = stats'.expanded + stats'.stale + stats'.compacted + u + v
            /\ u \in Nat /\ v \in Nat
        BY <1>6, <1>7
      <4> HIDE DEF total, u, v
      <4>2. total + 1
              = stats'.expanded + stats'.stale + stats'.compacted + u + (v + 1)
        BY <3>1, <4>1
      <4> QED BY <4>2 DEF total, u, v
    <3> QED BY <2>4, <3>2, <3>3
  <2>8. \A p \in Phases :
          /\ counts'.current[p] = InPhase(branches', current', p)
          /\ counts'.next[p] = InPhase(branches', next', p)
    BY <1>4, <1>5, <2>5, <2>6
  <2> QED BY <1>2, <2>6, <2>7, <2>8 DEF Counted
<1>9. CASE IsHandedOver(leg, c) \/ FailsTheCheck(leg, c)
  <2>1. branches' = branches /\ next' = c.next /\ counts' = c.counts
    BY <1>9 DEF IsHandedOver, FailsTheCheck
  <2> QED BY <1>1, <1>2, <1>4, <1>5, <1>7, <2>1 DEF Counted
<1> QED BY <1>8, <1>9 DEF AcceptedAs

LEMMA AcceptKeepsLevels ==
    ASSUME IInv, NEW leg \in todo, Visiting(leg), Wanted(leg),
           NEW c, Shrunk(c, Registered(TurnedOut(leg))), AcceptedAs(leg, c)
    PROVE  Levels'
<1> DEFINE level == Range(current) \cup ({expanding} \ {None})
           Depth(i) == Len(branches[i].path)
<1>1. Levelled(branches, level, Range(next))
  BY DEF IInv, Levels
<1>2. /\ current' = c.current /\ Range(current') \subseteq Range(current)
      /\ Range(c.next) \subseteq Range(next)
      /\ expanding' = expanding
      /\ expanding \in DOMAIN branches /\ expanding # None
  BY AcceptedLayers DEF AcceptedAs
<1>3. /\ Range(current) \cup Range(next) \subseteq DOMAIN branches
      /\ \A i \in DOMAIN branches : branches'[i] = branches[i]
  BY AcceptedBranches DEF IInv, Queued
<1>4. CASE /\ JoinsNext(leg, c)
           /\ Range(next') = Range(c.next) \cup {Len(branches) + 1}
  <2> DEFINE x == Len(branches) + 1
  <2>1. branches' = Append(branches, NewBranch(leg))
    BY <1>4 DEF JoinsNext
  <2>2. branches'[x] = NewBranch(leg) /\ branches[expanding] = Branch
        /\ Branch \in BranchType /\ leg \in Legs
    BY <2>1, CandidateFacts, LegInHand DEF IInv, Typing, Branch
  <2>3. Len(branches'[x].path) = Depth(expanding) + 1
    BY <2>2, NewBranchFields DEF BranchType
  <2> HIDE DEF x
  <2>4. \A i \in DOMAIN branches : Len(branches'[i].path) = Depth(i)
    BY <1>3
  <2>5. Range(next') = Range(c.next) \cup {x}
    BY <1>4 DEF x
  <2> HIDE DEF Depth
  <2>6. /\ \A i, j \in level : Depth(i) = Depth(j)
        /\ \A i, j \in Range(next) : Depth(i) = Depth(j)
        /\ \A i \in level, j \in Range(next) : Depth(j) = Depth(i) + 1
    BY <1>1 DEF Levelled, Depth
  <2>7. /\ Range(current') \cup ({expanding} \ {None}) \subseteq level
        /\ level \subseteq DOMAIN branches /\ expanding \in level
    BY <1>2, <1>3
  <2> HIDE DEF level
  <2>8. Levelled(branches', Range(current') \cup ({expanding} \ {None}),
                 Range(next'))
    <3>1. \A i \in level : Len(branches'[i].path) = Depth(expanding)
      BY <2>4, <2>6, <2>7
    <3>2. \A j \in Range(next') : Len(branches'[j].path) = Depth(expanding) + 1
      BY <1>2, <1>3, <2>3, <2>4, <2>5, <2>6, <2>7
    <3> QED BY <2>7, <3>1, <3>2 DEF Levelled
  <2> QED BY <1>2, <2>8 DEF Levels
<1>5. CASE branches' = branches /\ next' = c.next
  BY <1>1, <1>2, <1>5 DEF Levels, Levelled
<1> QED BY <1>4, <1>5, AcceptedLayers

LEMMA AcceptKeeps ==
    ASSUME IInv, NEW leg \in todo, AcceptCandidate(leg)
    PROVE  IInv'
<1>1. /\ Visiting(leg) /\ Wanted(leg)
      /\ \E c : Shrunk(c, Registered(TurnedOut(leg))) /\ AcceptedAs(leg, c)
  BY AcceptStep
<1>2. PICK c : Shrunk(c, Registered(TurnedOut(leg))) /\ AcceptedAs(leg, c)
  BY <1>1
<1>3. Queued' /\ released' \subseteq DOMAIN branches'
  BY <1>1, <1>2, AcceptKeepsQueued
<1>4. Counted' /\ counts' \in CountType /\ stats' \in StatsType
  BY <1>1, <1>2, AcceptKeepsCounted
<1>5. Levels'
  BY <1>1, <1>2, AcceptKeepsLevels
<1>6. Labelled' /\ Descent' /\ Pursued' /\ ExpandedStaysActive'
  BY <1>1, <1>2, AcceptKeepsLabelled, AcceptKeepsDescent, AcceptKeepsPursued,
     AcceptKeepsExpanded
<1>7. sets' \in [Nodes -> Seq(Entry)] /\ DOMAIN summary' = Nodes /\ Canonic'
  BY <1>1, <1>2, AcceptedSets
<1>8. /\ UNCHANGED <<network, cancelled, expanding>>
      /\ state = "scan" /\ state' \in {"scan", "failing"}
      /\ todo' = todo \ {leg}
  BY <1>1, <1>2, LegInHand
     DEF AcceptedAs, JoinsNext, IsHandedOver, FailsTheCheck
<1>9. Typing'
  <2>1. branches' \in Seq(BranchType) /\ labels' \in Seq(LabelType)
    BY <1>1, <1>2, AcceptedBranches, AcceptedLabels
  <2>2. current' \in Seq(Nat) /\ next' \in Seq(Nat)
    BY <1>1, <1>2, AcceptedLayers
  <2> QED BY <1>3, <1>4, <1>7, <1>8, <2>1, <2>2 DEF IInv, Typing
<1>10. Expanding'
  <2>1. /\ expanding \in DOMAIN branches
        /\ todo \subseteq network /\ todo \subseteq Successors(branches[expanding])
    BY <1>8 DEF IInv, Expanding
  <2>2. expanding \in DOMAIN branches' /\ branches'[expanding] = branches[expanding]
    BY <1>1, <1>2, <2>1, AcceptedBranches
  <2>3. Successors(branches[expanding])' = Successors(branches[expanding])
    BY <1>8, <2>2 DEF Successors
  <2> QED BY <1>8, <2>1, <2>2, <2>3 DEF Expanding
<1> QED BY <1>3, <1>4, <1>5, <1>6, <1>7, <1>9, <1>10 DEF IInv

------------------------------------------------------------------------------
(***************************************************************************)
(* The theorems.                                                           *)
(***************************************************************************)
LEMMA NextKeeps ==
    ASSUME IInv, [Next]_vars
    PROVE  IInv'
<1>1. CASE Stop
  BY <1>1, StopKeeps
<1>2. CASE AdvanceLevel
  BY <1>2, AdvanceKeeps
<1>3. CASE Pop
  BY <1>3, PopKeeps
<1>4. CASE Examine
  <2>1. PICK leg \in todo :
          RejectPrefix(leg) \/ RejectCandidate(leg) \/ AcceptCandidate(leg)
    BY <1>4 DEF Examine
  <2> QED BY <2>1, RejectPrefixKeeps, RejectCandidateKeeps, AcceptKeeps
<1>5. CASE FinishExpansion
  BY <1>5, FinishKeeps
<1>6. CASE Exhaust
  BY <1>6, ExhaustKeeps
<1>7. CASE Cancel
  BY <1>7, CancelKeeps
<1>8. CASE UNCHANGED vars
  BY <1>8, StutterKeeps
<1> QED BY <1>1, <1>2, <1>3, <1>4, <1>5, <1>6, <1>7, <1>8 DEF Next, Tree

\* The inductive invariant of one origin's tree: its frontier, its labels and
\* its connection sets agree with one another after every step of
\* run_search_tree_levels, whatever the supply and wherever it is cancelled.
THEOREM Invariant == Spec => []IInv
<1>1. Init => IInv
  BY InitHolds
<1>2. IInv /\ [Next]_vars => IInv'
  BY NextKeeps
<1> QED BY <1>1, <1>2, PTL DEF Spec

\* Type correctness of the tree's state (tree_runner.hpp, level_expansion.cpp,
\* retention_operations.cpp).
THEOREM Types == Spec => []TypeOK
<1>1. IInv => TypeOK
  <2> SUFFICES ASSUME IInv PROVE TypeOK
    OBVIOUS
  <2>1. Typing /\ Labelled /\ Expanding
    BY DEF IInv
  <2>2. ASSUME NEW i \in DOMAIN branches
        PROVE  /\ branches[i].node \in Nodes /\ branches[i].phase \in Phases
               /\ branches[i].label \in 0 .. Len(labels)
               /\ branches[i].m.nt \in 0 .. MaxTransfers
    <3>1. branches[i] \in BranchType
      BY <2>1, ElementOfSeq DEF Typing
    <3>2. branches[i].m.nt \in Nat /\ branches[i].m.nt <= MaxTransfers
      BY <2>1, <3>1 DEF BranchType, Riding, Labelled
    <3> QED BY <2>1, <3>1, <3>2, MaxTransfersAssumption DEF BranchType, Labelled
  <2>3. ASSUME NEW l \in DOMAIN labels
        PROVE  labels[l].active \in BOOLEAN /\ labels[l].parent \in 0 .. l - 1
    <3>1. labels[l] \in LabelType
      BY <2>1, ElementOfSeq DEF Typing
    <3> QED BY <2>1, <3>1 DEF LabelType, Labelled, Forest
  <2>4. ASSUME NEW y \in Nodes, NEW i \in DOMAIN sets[y]
        PROVE  sets[y][i].m \in Metric /\ sets[y][i].label \in DOMAIN labels
    <3>1. sets[y] \in Seq(Entry)
      BY <2>1 DEF Typing
    <3>2. sets[y][i] \in Entry /\ sets[y][i] \in Range(sets[y])
      BY <3>1, ElementOfSeq DEF Range
    <3>3. sets[y][i].m \in Metric
      BY <3>2, EntryFields DEF EntryMetrics, Metric
    <3> QED BY <2>1, <3>2, <3>3 DEF Labelled
  <2>5. expanding \in {None} \cup DOMAIN branches /\ todo \subseteq network
    BY <2>1 DEF Typing, Expanding
  <2> QED BY <2>1, <2>2, <2>3, <2>4, <2>5
          DEF TypeOK, Typing, CountType, StatsType
<1> QED BY <1>1, Invariant, PTL

LEMMA EachBranchOnceHolds == IInv => EachBranchOnce
<1> SUFFICES ASSUME IInv PROVE EachBranchOnce
  OBVIOUS
<1>1. /\ current \in Seq(Nat) /\ next \in Seq(Nat) /\ Queued
  BY DEF IInv, Typing
<1>2. /\ Queue \in Seq(Nat) /\ Len(Queue) = Len(current) + Len(next)
      /\ DOMAIN Queue = 1 .. Len(current) + Len(next)
      /\ Len(current) \in Nat /\ Len(next) \in Nat
      /\ DOMAIN current = 1 .. Len(current) /\ DOMAIN next = 1 .. Len(next)
      /\ \A i \in 1 .. Len(current) + Len(next) :
          Queue[i] = IF i <= Len(current) THEN current[i]
                     ELSE next[i - Len(current)]
  BY <1>1 DEF Queue
<1>3. \A i \in DOMAIN Queue :
        \/ i \in DOMAIN current /\ Queue[i] = current[i]
           /\ Queue[i] \in Range(current)
        \/ i - Len(current) \in DOMAIN next
           /\ Queue[i] = next[i - Len(current)] /\ Queue[i] \in Range(next)
  <2> SUFFICES ASSUME NEW i \in DOMAIN Queue
               PROVE  \/ i \in DOMAIN current /\ Queue[i] = current[i]
                         /\ Queue[i] \in Range(current)
                      \/ i - Len(current) \in DOMAIN next
                         /\ Queue[i] = next[i - Len(current)]
                         /\ Queue[i] \in Range(next)
    OBVIOUS
  <2>1. CASE i <= Len(current)
    BY <1>2, <2>1 DEF Range
  <2>2. CASE ~(i <= Len(current))
    <3>1. i - Len(current) \in DOMAIN next
      BY <1>2, <2>2
    <3> QED BY <1>2, <2>2, <3>1 DEF Range
  <2> QED BY <2>1, <2>2
<1>4. Range(Queue) = Range(current) \cup Range(next)
  <2>1. Range(Queue) \subseteq Range(current) \cup Range(next)
    BY <1>3 DEF Range
  <2>2. ASSUME NEW i \in DOMAIN current
        PROVE  current[i] \in Range(Queue)
    <3>1. i \in DOMAIN Queue /\ Queue[i] = current[i]
      BY <1>2
    <3> QED BY <3>1 DEF Range
  <2>3. ASSUME NEW i \in DOMAIN next
        PROVE  next[i] \in Range(Queue)
    <3>1. /\ i + Len(current) \in DOMAIN Queue
          /\ (i + Len(current)) - Len(current) = i
          /\ ~(i + Len(current) <= Len(current))
      BY <1>2
    <3>2. Queue[i + Len(current)] = next[i]
      BY <1>2, <3>1
    <3> QED BY <3>1, <3>2 DEF Range
  <2> QED BY <2>1, <2>2, <2>3 DEF Range
<1>5. ASSUME NEW i \in DOMAIN Queue, NEW j \in DOMAIN Queue, Queue[i] = Queue[j]
      PROVE  i = j
  <2>1. /\ \A a, b \in DOMAIN current : current[a] = current[b] => a = b
        /\ \A a, b \in DOMAIN next : next[a] = next[b] => a = b
        /\ Range(current) \cap Range(next) = {}
    BY <1>1 DEF Queued, Distinct
  <2>2. CASE i \in DOMAIN current /\ Queue[i] = current[i]
             /\ Queue[i] \in Range(current)
    <3>1. j \in DOMAIN current /\ Queue[j] = current[j]
      BY <1>3, <1>5, <2>1, <2>2
    <3> QED BY <1>5, <2>1, <2>2, <3>1
  <2>3. CASE i - Len(current) \in DOMAIN next
             /\ Queue[i] = next[i - Len(current)] /\ Queue[i] \in Range(next)
    <3>1. /\ j - Len(current) \in DOMAIN next
          /\ Queue[j] = next[j - Len(current)]
      BY <1>3, <1>5, <2>1, <2>3
    <3>2. i - Len(current) = j - Len(current)
      BY <1>5, <2>1, <2>3, <3>1
    <3> QED BY <1>2, <3>2
  <2> QED BY <1>3, <2>2, <2>3
<1> QED BY <1>1, <1>4, <1>5 DEF EachBranchOnce, Queued

LEMMA CountsAgreeHolds == IInv => CountsAgree
<1> SUFFICES ASSUME IInv PROVE CountsAgree
  OBVIOUS
<1>1. Len(Queue) = Len(current) + Len(next) /\ Len(current) \in Nat
      /\ Len(next) \in Nat
  BY DEF IInv, Typing, Queue
<1>2. \A p \in Phases :
        /\ counts.current[p]
             = Cardinality({i \in DOMAIN current : branches[current[i]].phase = p})
        /\ counts.next[p]
             = Cardinality({i \in DOMAIN next : branches[next[i]].phase = p})
  BY DEF IInv, Counted, InPhase
<1>3. Len(branches) = stats.expanded + stats.stale + stats.compacted + Len(Queue)
  <2> DEFINE total == Len(branches)
             a == stats.expanded
             b == stats.stale
             d == stats.compacted
             x == Len(current)
             y == Len(next)
  <2>1. total = a + b + d + x + y
    BY DEF IInv, Counted
  <2>2. a \in Nat /\ b \in Nat /\ d \in Nat /\ x \in Nat /\ y \in Nat
    BY <1>1 DEF IInv, Typing, StatsType
  <2> HIDE DEF total, a, b, d, x, y
  <2>3. total = a + b + d + (x + y)
    BY <2>1, <2>2
  <2> QED BY <1>1, <2>3 DEF total, a, b, d, x, y
<1> QED BY <1>2, <1>3 DEF CountsAgree

\* The frontier is kept right though it is compacted inside the callback of
\* the expansion that uses it (batch_tree_execution.cpp): every branch is
\* queued once, in hand, or released; the counts by phase and the reported
\* totals are those of the layers; the branch in hand stays alive; the layers
\* are levels of the tree.
THEOREM Frontier == Spec => []FrontierSound
<1>1. IInv => LevelsAreDepths
  BY DEF IInv, Levels, Levelled, LevelsAreDepths
<1>2. IInv => FrontierSound
  BY <1>1, EachBranchOnceHolds, CountsAgreeHolds DEF IInv, FrontierSound
<1> QED BY <1>2, Invariant, PTL

\* Every C_y keeps what the class comment of ConnectionSetCy promises
\* (search/model/retention.hpp), and its cached summary is the summary of its
\* entries, whatever is inserted, turned out or cleaned up.
THEOREM ConnectionSets == Spec => []ConnectionSetsCanonical
<1>1. IInv => ConnectionSetsCanonical
  BY DEF IInv, Canonic, ConnectionSetsCanonical, Canonical, Kernel
<1> QED BY <1>1, Invariant, PTL

\* An entry that is alive, and so may reject a candidate, stands for a branch
\* of the tree or for a connection handed to a projection slot.
THEOREM Pursuit == Spec => []EntriesPursued
<1>1. IInv => EntriesPursued
  <2> SUFFICES ASSUME IInv, state \notin {"failing", "failed", "stopped"},
                      NEW y \in Nodes, NEW i \in DOMAIN sets[y]
               PROVE  \/ ~Active(sets[y][i].label)
                      \/ \E b \in DOMAIN branches :
                          /\ branches[b].label = sets[y][i].label
                          /\ branches[b].node = y
                          /\ Metrics(branches[b].m) = sets[y][i].m
                      \/ \E path \in completed : path[Len(path)].to = y
    BY DEF EntriesPursued
  <2>1. sets[y][i] \in Range(sets[y])
    BY DEF Range
  <2> QED BY <2>1 DEF IInv, Pursued
<1> QED BY <1>1, Invariant, PTL

\* A branch leaves the queues unexpanded only when its label, or one it
\* descends from, is dead: front() of a layer is popped without asking
\* whether it may be dropped, and compaction drops in bulk.
THEOREM OnlyDeadDropped ==
    ASSUME Destinations # {}
    PROVE  Spec => DropsOnlyDead
<1> DEFINE Dead == \A i \in released' \ released :
                     i = expanding \/ ~ActiveIn(labels', branches[i].label)
<1>1. IInv /\ [Next]_vars => [Dead]_vars
  <2> SUFFICES ASSUME IInv, Next, NEW i \in released' \ released,
                      i # expanding
               PROVE  ~ActiveIn(labels', branches[i].label)
    OBVIOUS
  <2>1. CASE AdvanceLevel
    <3>1. /\ released' = released \cup Compacted(labels).dropped
          /\ labels' = labels /\ state = "level"
      BY <2>1 DEF AdvanceLevel, cy
    <3>2. expanding \in Nat
      BY <3>1 DEF IInv, Expanding, None
    <3>3. Shrunk(Compacted(labels), labels)
      BY <3>1, <3>2, CompactionShrinks DEF IInv
    <3> QED BY <3>1, <3>3 DEF Shrunk
  <2>2. CASE Pop
    <3> DEFINE h == Head(current)
               b == branches[h]
    <3>1. /\ labels' = labels /\ current # <<>>
          /\ i = h
          /\ ~Active(b.label) \/ (b.node \in Zones /\ b.m.boarded)
      BY <2>2 DEF Pop, cy
    <3>2. h \in DOMAIN branches
      BY <3>1, TailFacts DEF IInv, Typing, Queued
    <3>3. ~(b.node \in Zones /\ b.m.boarded)
      BY <3>2, NodesAssumption DEF IInv, Labelled
    <3> QED BY <3>1, <3>3 DEF Active
  <2>3. CASE Examine
    <3>1. PICK leg \in todo :
            RejectPrefix(leg) \/ RejectCandidate(leg) \/ AcceptCandidate(leg)
      BY <2>3 DEF Examine
    <3>2. AcceptCandidate(leg)
      BY <3>1 DEF RejectPrefix, RejectCandidate, arena
    <3>3. PICK c : Shrunk(c, Registered(TurnedOut(leg))) /\ AcceptedAs(leg, c)
      BY <3>2, AcceptStep
    <3>4. i \in c.dropped /\ labels' = Registered(TurnedOut(leg))
      BY <3>3 DEF AcceptedAs, JoinsNext, IsHandedOver, FailsTheCheck
    <3> QED BY <3>3, <3>4 DEF Shrunk
  <2>4. CASE FinishExpansion
    BY <2>4 DEF FinishExpansion
  <2>5. CASE Stop \/ Exhaust \/ Cancel
    BY <2>5 DEF Stop, Exhaust, Cancel, arena
  <2> QED BY <2>1, <2>2, <2>3, <2>4, <2>5 DEF Next, Tree
<1> QED BY <1>1, Invariant, PTL DEF Spec, DropsOnlyDead

------------------------------------------------------------------------------
(***************************************************************************)
(* What is not lost.  A foot is where a prefix stands: all that decides    *)
(* what it may do next and at what cost, where no transfer is barred.      *)
(***************************************************************************)
Feet == [node : Nodes, phase : Phases, m : Riding]

Foot(b) == [node |-> b.node, phase |-> b.phase, m |-> b.m]

\* What Successors leaves of the legs N, but for barred transfers.
Onward(N, f) ==
    {l \in N :
        /\ l.from = f.node
        /\ \/ l.kind = "walk" /\ WalkAdmitted(f, l)
           \/ /\ l.kind = "ride"
              /\ f.phase \notin {"AtOrigin", "Completed"}
              /\ IF f.m.boarded
                 THEN /\ f.m.nt < MaxTransfers
                      /\ l.dep - f.m.now \in MinWait .. MaxWait
                 ELSE l.dep \in TimeDomain}

Go(f, l) == [node |-> l.to, phase |-> NextPhase(f, l), m |-> Extend(f.m, l)]

\* What DominanceSafe asks of the legs themselves.
SafeLegs(N) ==
    /\ N \in SUBSET Legs
    /\ \A w \in N : w.kind = "walk" =>
        /\ w.from \in Stops => w.to \notin Stops
        /\ w.from = Origin => \A t \in TimeDomain : w.time < t
    /\ \A r, l \in N : r.kind = "ride" /\ l.kind = "ride" =>
        /\ <<r, l>> \notin Barred
        /\ r.to = l.from => l.dep - r.arr <= MaxWait
    /\ \/ WaitWeight = 0
       \/ /\ WaitWeight = 1 /\ WalkWeight = 1
          /\ \A r \in N : r.kind = "ride" => r.fare = 0

\* Where a prefix may stand on such legs: at the origin, at its first stop, at
\* a stop it rode to, or at its destination.
AtRoot(f) == f = Foot(Root)

Walked(f) ==
    /\ f.phase = "BeforeFirstBoarding" /\ f.node \in Stops
    /\ f.m.boarded = FALSE /\ f.m.nt = 0
    /\ f.m.imp = WalkWeight * f.m.access
    /\ \A t \in TimeDomain : f.m.access < t

Rode(N, f) ==
    /\ f.phase = "AfterTimedRide" /\ f.node \in Stops
    /\ f.m.boarded = TRUE /\ f.m.nt <= MaxTransfers
    /\ f.m.dep > 0 /\ Elapsed(f.m)
    /\ f.m.dep + f.m.access \in TimeDomain
    /\ \E r \in N : r.kind = "ride" /\ r.to = f.node /\ r.arr = f.m.now
    /\ WaitWeight = 0 \/ f.m.imp = f.m.now - f.m.dep + TransferPenalty * f.m.nt

Arrived(f) ==
    /\ f.phase = "Completed" /\ f.node \in Destinations
    /\ f.m.boarded = TRUE /\ f.m.nt <= MaxTransfers
    /\ Elapsed(f.m)

Proper(N, f) == AtRoot(f) \/ Walked(f) \/ Rode(N, f) \/ Arrived(f)

AsGood(m, n) ==
    m.dep >= n.dep /\ m.arr <= n.arr /\ m.imp <= n.imp /\ m.nt <= n.nt

Covers(f, g) == f.node = g.node /\ AsGood(Metrics(f.m), Metrics(g.m))

------------------------------------------------------------------------------
LEMMA LegsTyped ==
    ASSUME NEW N, SafeLegs(N), NEW l \in N
    PROVE  /\ l.from \in Nodes /\ l.to \in Nodes
           /\ \/ l.kind = "walk" /\ l.time \in Nat
              \/ /\ l.kind = "ride" /\ l.from \in Stops /\ l.to \in Stops
                 /\ l.dep \in Nat /\ l.arr \in Nat /\ l.dep <= l.arr
                 /\ l.fare \in Nat
BY LegFields DEF SafeLegs

LEMMA FootFields ==
    ASSUME NEW f \in Feet
    PROVE  /\ f = [node |-> f.node, phase |-> f.phase, m |-> f.m]
           /\ f.node \in Nodes /\ f.phase \in Phases /\ f.m \in Riding
           /\ f.m.boarded \in BOOLEAN /\ f.m.dep \in Int /\ f.m.now \in Nat
           /\ f.m.access \in Nat /\ f.m.nt \in Nat /\ f.m.imp \in Nat
           /\ f.m = [boarded |-> f.m.boarded, dep |-> f.m.dep,
                     now |-> f.m.now, access |-> f.m.access, nt |-> f.m.nt,
                     imp |-> f.m.imp]
<1>1. f = [node |-> f.node, phase |-> f.phase, m |-> f.m] /\ f.m \in Riding
      /\ f.node \in Nodes /\ f.phase \in Phases
  BY DEF Feet
<1> QED BY <1>1 DEF Riding

LEMMA RootFoot ==
    /\ Foot(Root) \in Feet /\ Foot(Root).node = Origin
    /\ Foot(Root).phase = "AtOrigin"
    /\ Foot(Root).m = [boarded |-> FALSE, dep |-> 0, now |-> 0, access |-> 0,
                       nt |-> 0, imp |-> 0]
    /\ Origin \in Nodes /\ Origin \notin Stops
<1>1. Origin \in Nodes /\ Origin \notin Stops
  BY NodesAssumption DEF Nodes, Zones
<1>2. Root.m = [boarded |-> FALSE, dep |-> 0, now |-> 0, access |-> 0,
                nt |-> 0, imp |-> 0]
      /\ Root.node = Origin /\ Root.phase = "AtOrigin"
  BY DEF Root
<1>3. Root.m \in Riding
  BY <1>2 DEF Riding
<1> QED BY <1>1, <1>2, <1>3 DEF Foot, Feet, Phases

LEMMA MakeFoot ==
    ASSUME NEW y \in Nodes, NEW p \in Phases, NEW b \in BOOLEAN, NEW d \in Int,
           NEW n \in Nat, NEW a \in Nat, NEW t \in Nat, NEW i \in Nat
    PROVE  [node |-> y, phase |-> p,
            m |-> [boarded |-> b, dep |-> d, now |-> n, access |-> a,
                   nt |-> t, imp |-> i]] \in Feet
BY DEF Feet, Riding

LEMMA ProductsAreNat == \A x, y \in Nat : x * y \in Nat
OBVIOUS

\* The four steps there are.
WalkToStop(f, l) ==
    /\ AtRoot(f) /\ l.kind = "walk" /\ l.to \in Stops
    /\ Go(f, l) = [node |-> l.to, phase |-> "BeforeFirstBoarding",
                   m |-> [boarded |-> FALSE, dep |-> 0, now |-> 0,
                          access |-> l.time, nt |-> 0,
                          imp |-> WalkWeight * l.time]]

BoardFirst(f, l) ==
    /\ Walked(f) /\ l.kind = "ride" /\ l.dep \in TimeDomain
    /\ Go(f, l) = [node |-> l.to, phase |-> "AfterTimedRide",
                   m |-> [boarded |-> TRUE, dep |-> l.dep - f.m.access,
                          now |-> l.arr, access |-> f.m.access, nt |-> 0,
                          imp |-> f.m.imp + (l.arr - l.dep) + l.fare]]

Transfer(N, f, l) ==
    /\ Rode(N, f) /\ l.kind = "ride" /\ f.m.nt < MaxTransfers
    /\ l.dep - f.m.now \in MinWait .. MaxWait
    /\ Go(f, l) = [node |-> l.to, phase |-> "AfterTimedRide",
                   m |-> [boarded |-> TRUE, dep |-> f.m.dep, now |-> l.arr,
                          access |-> f.m.access, nt |-> f.m.nt + 1,
                          imp |-> f.m.imp + WaitWeight * (l.dep - f.m.now)
                                    + TransferPenalty
                                    + (l.arr - l.dep) + l.fare]]

WalkToZone(N, f, l) ==
    /\ Rode(N, f) /\ l.kind = "walk" /\ l.to \in Destinations
    /\ Go(f, l) = [node |-> l.to, phase |-> "Completed",
                   m |-> [boarded |-> TRUE, dep |-> f.m.dep,
                          now |-> f.m.now + l.time,
                          access |-> f.m.access, nt |-> f.m.nt,
                          imp |-> f.m.imp + WalkWeight * l.time]]

LEMMA FourSteps ==
    ASSUME NEW N, SafeLegs(N), NEW f \in Feet, Proper(N, f),
           NEW l \in Onward(N, f)
    PROVE  WalkToStop(f, l) \/ BoardFirst(f, l) \/ Transfer(N, f, l)
             \/ WalkToZone(N, f, l)
<1>1. l \in N /\ l.from = f.node
  BY DEF Onward
<1>2. l.kind \in {"walk", "ride"} /\ l.to \in Nodes
  BY <1>1, LegsTyped
<1>3. f.m \in Riding
  BY FootFields
<1>4. CASE AtRoot(f)
  <2>1. f.phase = "AtOrigin" /\ f.m.boarded = FALSE
        /\ f.m = [boarded |-> FALSE, dep |-> 0, now |-> 0, access |-> 0,
                  nt |-> 0, imp |-> 0]
    BY <1>4, RootFoot DEF AtRoot
  <2>2. l.kind = "walk" /\ l.to \in Stops
    BY <2>1 DEF Onward, WalkAdmitted
  <2>3. l.time \in Nat /\ WalkWeight \in Nat /\ WalkWeight * l.time \in Nat
    BY <1>1, <2>2, LegsTyped, ProductsAreNat, WeightsAssumption
  <2>4. Extend(f.m, l) = [f.m EXCEPT !.access = @ + l.time,
                                     !.imp = @ + WalkWeight * l.time]
    BY <2>1, <2>2 DEF Extend
  <2>5. Extend(f.m, l) = [boarded |-> FALSE, dep |-> 0, now |-> 0,
                          access |-> l.time, nt |-> 0,
                          imp |-> WalkWeight * l.time]
    <3> DEFINE w == WalkWeight * l.time
    <3> HIDE DEF w
    <3>1. Extend(f.m, l) = [f.m EXCEPT !.access = @ + l.time, !.imp = @ + w]
      BY <2>4 DEF w
    <3>2. Extend(f.m, l)
            = [boarded |-> f.m.boarded, dep |-> f.m.dep, now |-> f.m.now,
               access |-> f.m.access + l.time, nt |-> f.m.nt,
               imp |-> f.m.imp + w]
      BY <1>3, <3>1 DEF Riding
    <3>3. /\ f.m.boarded = FALSE /\ f.m.dep = 0 /\ f.m.now = 0 /\ f.m.nt = 0
          /\ f.m.access + l.time = l.time /\ f.m.imp + w = w
      BY <2>1, <2>3 DEF w
    <3> QED BY <3>2, <3>3, Zenon DEF w
  <2>6. NextPhase(f, l) = "BeforeFirstBoarding"
    BY <2>1, <2>2 DEF NextPhase
  <2> QED BY <1>4, <2>2, <2>5, <2>6 DEF WalkToStop, Go
<1>5. CASE Walked(f)
  <2>1. f.phase = "BeforeFirstBoarding" /\ f.m.boarded = FALSE /\ f.m.nt = 0
    BY <1>5 DEF Walked
  <2>2. l.kind = "ride" /\ l.dep \in TimeDomain
    BY <2>1 DEF Onward, WalkAdmitted
  <2>3. Extend(f.m, l) = [f.m EXCEPT !.boarded = TRUE,
                              !.dep = l.dep - f.m.access, !.now = l.arr,
                              !.imp = @ + (l.arr - l.dep) + l.fare]
    BY <2>1, <2>2 DEF Extend
  <2>4. Extend(f.m, l) = [boarded |-> TRUE, dep |-> l.dep - f.m.access,
                          now |-> l.arr, access |-> f.m.access, nt |-> 0,
                          imp |-> f.m.imp + (l.arr - l.dep) + l.fare]
    BY <1>3, <2>1, <2>3 DEF Riding
  <2>5. NextPhase(f, l) = "AfterTimedRide"
    BY <1>1, <2>1, <2>2, LegsTyped DEF NextPhase
  <2> QED BY <1>5, <2>2, <2>4, <2>5 DEF BoardFirst, Go
<1>6. CASE Rode(N, f)
  <2>1. f.phase = "AfterTimedRide" /\ f.m.boarded = TRUE /\ f.node \in Stops
    BY <1>6 DEF Rode
  <2>2. CASE l.kind = "ride"
    <3>1. f.m.nt < MaxTransfers /\ l.dep - f.m.now \in MinWait .. MaxWait
      BY <2>1, <2>2 DEF Onward
    <3>2. Extend(f.m, l) = [f.m EXCEPT !.now = l.arr, !.nt = @ + 1,
                              !.imp = @ + WaitWeight * (l.dep - f.m.now)
                                        + TransferPenalty
                                        + (l.arr - l.dep) + l.fare]
      BY <2>1, <2>2 DEF Extend
    <3>3. Extend(f.m, l) = [boarded |-> TRUE, dep |-> f.m.dep, now |-> l.arr,
                            access |-> f.m.access, nt |-> f.m.nt + 1,
                            imp |-> f.m.imp + WaitWeight * (l.dep - f.m.now)
                                      + TransferPenalty
                                      + (l.arr - l.dep) + l.fare]
      BY <1>3, <2>1, <3>2 DEF Riding
    <3>4. NextPhase(f, l) = "AfterTimedRide"
      BY <1>1, <2>1, <2>2, LegsTyped DEF NextPhase
    <3> QED BY <1>6, <2>2, <3>1, <3>3, <3>4 DEF Transfer, Go
  <2>3. CASE l.kind = "walk"
    <3>1. l.to \notin Stops
      BY <1>1, <2>1, <2>3 DEF SafeLegs
    <3>2. l.to \in Destinations
      BY <2>1, <2>3, <3>1 DEF Onward, WalkAdmitted
    <3>3. Extend(f.m, l) = [f.m EXCEPT !.now = @ + l.time,
                                       !.imp = @ + WalkWeight * l.time]
      BY <2>1, <2>3 DEF Extend
    <3>4. Extend(f.m, l) = [boarded |-> TRUE, dep |-> f.m.dep,
                            now |-> f.m.now + l.time,
                            access |-> f.m.access, nt |-> f.m.nt,
                            imp |-> f.m.imp + WalkWeight * l.time]
      BY <1>3, <2>1, <3>3 DEF Riding
    <3>5. NextPhase(f, l) = "Completed"
      BY <2>1, <2>3, <3>1 DEF NextPhase
    <3> QED BY <1>6, <2>3, <3>2, <3>4, <3>5 DEF WalkToZone, Go
  <2> QED BY <1>2, <2>2, <2>3
<1>7. CASE Arrived(f)
  BY <1>7 DEF Arrived, Onward, WalkAdmitted
<1> QED BY <1>4, <1>5, <1>6, <1>7 DEF Proper

LEMMA StepStaysProper ==
    ASSUME NEW N, SafeLegs(N), NEW f \in Feet, Proper(N, f),
           NEW l \in Onward(N, f)
    PROVE  /\ Go(f, l) \in Feet /\ Proper(N, Go(f, l))
           /\ ~AtRoot(Go(f, l)) /\ Grows(f.m, Go(f, l).m)
           /\ Go(f, l).m.nt <= MaxTransfers
<1> DEFINE g == Go(f, l)
<1>1. l \in N /\ l.from = f.node
  BY DEF Onward
<1>2. /\ f.m.dep \in Int /\ f.m.now \in Nat /\ f.m.access \in Nat
      /\ f.m.nt \in Nat /\ f.m.imp \in Nat /\ f.m \in Riding
  BY FootFields
<1>3. /\ WalkWeight \in Nat /\ WaitWeight \in Nat /\ TransferPenalty \in Nat
      /\ MaxTransfers \in Nat /\ MinWait \in Nat /\ MaxWait \in Nat
  BY WeightsAssumption, MaxTransfersAssumption, LimitsAssumption
<1>4. l.to \in Nodes /\ "BeforeFirstBoarding" \in Phases
      /\ "AfterTimedRide" \in Phases /\ "Completed" \in Phases
  BY <1>1, LegsTyped DEF Phases
<1>5. AtRoot(g) => g.phase = "AtOrigin"
  BY RootFoot DEF AtRoot
<1> HIDE DEF g
<1>6. CASE WalkToStop(f, l)
  <2>1. /\ g.node = l.to /\ g.phase = "BeforeFirstBoarding"
        /\ g.m = [boarded |-> FALSE, dep |-> 0, now |-> 0, access |-> l.time,
                  nt |-> 0, imp |-> WalkWeight * l.time]
        /\ g = [node |-> g.node, phase |-> g.phase, m |-> g.m]
        /\ l.to \in Stops /\ l.kind = "walk" /\ AtRoot(f)
    BY <1>6 DEF WalkToStop, g
  <2>2. l.time \in Nat /\ WalkWeight * l.time \in Nat
    BY <1>1, <1>3, <2>1, LegsTyped, ProductsAreNat
  <2>3. g \in Feet
    <3> DEFINE i == WalkWeight * l.time
    <3>1. i \in Nat /\ 0 \in Int /\ 0 \in Nat /\ FALSE \in BOOLEAN
      BY <2>2
    <3>2. g = [node |-> l.to, phase |-> "BeforeFirstBoarding",
               m |-> [boarded |-> FALSE, dep |-> 0, now |-> 0,
                      access |-> l.time, nt |-> 0, imp |-> i]]
      BY <2>1 DEF i
    <3> HIDE DEF i
    <3> QED BY <1>4, <2>2, <3>1, <3>2, MakeFoot
  <2>4. \A t \in TimeDomain : l.time < t
    BY <1>1, <2>1, RootFoot DEF AtRoot, SafeLegs
  <2>5. Walked(g)
    BY <2>1, <2>4 DEF Walked
  <2>6. Grows(f.m, g.m) /\ g.m.nt <= MaxTransfers
    BY <1>3, <2>1, <2>2, RootFoot DEF AtRoot, Grows
  <2> QED BY <1>5, <2>1, <2>3, <2>5, <2>6 DEF Proper, g
<1>7. CASE BoardFirst(f, l)
  <2>1. /\ g.node = l.to /\ g.phase = "AfterTimedRide"
        /\ g.m = [boarded |-> TRUE, dep |-> l.dep - f.m.access,
                  now |-> l.arr, access |-> f.m.access, nt |-> 0,
                  imp |-> f.m.imp + (l.arr - l.dep) + l.fare]
        /\ g = [node |-> g.node, phase |-> g.phase, m |-> g.m]
        /\ l.kind = "ride" /\ Walked(f) /\ l.dep \in TimeDomain
    BY <1>7 DEF BoardFirst, g
  <2>2. /\ l.dep \in Nat /\ l.arr \in Nat /\ l.dep <= l.arr
        /\ l.fare \in Nat /\ l.to \in Stops
    BY <1>1, <2>1, LegsTyped
  <2>3. f.m.access < l.dep /\ f.m.nt = 0 /\ ~f.m.boarded
        /\ f.m.imp = WalkWeight * f.m.access
    BY <2>1 DEF Walked
  <2>4. g \in Feet
    <3> DEFINE d == l.dep - f.m.access
               i == f.m.imp + (l.arr - l.dep) + l.fare
    <3>1. d \in Int /\ i \in Nat
      BY <1>2, <2>2
    <3> HIDE DEF d, i
    <3>2. g = [node |-> l.to, phase |-> "AfterTimedRide",
               m |-> [boarded |-> TRUE, dep |-> d, now |-> l.arr,
                      access |-> f.m.access, nt |-> 0, imp |-> i]]
      BY <2>1 DEF d, i
    <3> QED BY <1>2, <1>4, <2>2, <3>1, <3>2, MakeFoot
  <2>5. WaitWeight = 0 \/ g.m.imp = g.m.now - g.m.dep + TransferPenalty * g.m.nt
    <3>1. CASE WaitWeight = 1 /\ WalkWeight = 1 /\ l.fare = 0
      <4>1. f.m.imp = f.m.access
        BY <1>2, <2>3, <3>1
      <4>2. TransferPenalty * 0 = 0
        BY <1>3
      <4> QED BY <1>2, <2>1, <2>2, <3>1, <4>1, <4>2
    <3> QED BY <1>1, <2>1, <3>1 DEF SafeLegs
  <2>6. g.m.dep + g.m.access = l.dep
    BY <1>2, <2>1, <2>2
  <2>7. Rode(N, g)
    BY <1>1, <1>2, <1>3, <2>1, <2>2, <2>3, <2>5, <2>6 DEF Rode, Elapsed
  <2>8. Grows(f.m, g.m) /\ g.m.nt <= MaxTransfers
    BY <1>2, <1>3, <2>1, <2>2, <2>3 DEF Grows
  <2> QED BY <1>5, <2>1, <2>4, <2>7, <2>8 DEF Proper, g
<1>8. CASE Transfer(N, f, l)
  <2>1. /\ g.node = l.to /\ g.phase = "AfterTimedRide"
        /\ g.m = [boarded |-> TRUE, dep |-> f.m.dep, now |-> l.arr,
                  access |-> f.m.access, nt |-> f.m.nt + 1,
                  imp |-> f.m.imp + WaitWeight * (l.dep - f.m.now)
                            + TransferPenalty + (l.arr - l.dep) + l.fare]
        /\ g = [node |-> g.node, phase |-> g.phase, m |-> g.m]
        /\ l.kind = "ride" /\ Rode(N, f) /\ f.m.nt < MaxTransfers
        /\ l.dep - f.m.now \in MinWait .. MaxWait
    BY <1>8 DEF Transfer, g
  <2>2. /\ l.dep \in Nat /\ l.arr \in Nat /\ l.dep <= l.arr
        /\ l.fare \in Nat /\ l.to \in Stops
    BY <1>1, <2>1, LegsTyped
  <2>3. l.dep - f.m.now \in Nat
    BY <1>2, <1>3, <2>1, <2>2
  <2>4. WaitWeight * (l.dep - f.m.now) \in Nat
    BY <1>3, <2>3, ProductsAreNat
  <2>5. g \in Feet
    <3> DEFINE n == f.m.nt + 1
               i == f.m.imp + WaitWeight * (l.dep - f.m.now)
                      + TransferPenalty + (l.arr - l.dep) + l.fare
    <3>1. n \in Nat /\ i \in Nat
      BY <1>2, <1>3, <2>2, <2>4
    <3> HIDE DEF n, i
    <3>2. g = [node |-> l.to, phase |-> "AfterTimedRide",
               m |-> [boarded |-> TRUE, dep |-> f.m.dep, now |-> l.arr,
                      access |-> f.m.access, nt |-> n, imp |-> i]]
      BY <2>1 DEF n, i
    <3> QED BY <1>2, <1>4, <2>2, <3>1, <3>2, MakeFoot
  <2>6. /\ f.m.dep > 0 /\ f.m.boarded /\ f.m.dep + f.m.access <= f.m.now
        /\ f.m.dep + f.m.access \in TimeDomain
    BY <2>1 DEF Rode, Elapsed
  <2>7. WaitWeight = 0 \/ g.m.imp = g.m.now - g.m.dep + TransferPenalty * g.m.nt
    <3>1. CASE WaitWeight = 1 /\ l.fare = 0
      <4>1. f.m.imp = f.m.now - f.m.dep + TransferPenalty * f.m.nt
        BY <2>1, <3>1 DEF Rode
      <4>2. /\ WaitWeight * (l.dep - f.m.now) = l.dep - f.m.now
            /\ TransferPenalty * (f.m.nt + 1)
                 = TransferPenalty * f.m.nt + TransferPenalty
            /\ TransferPenalty * f.m.nt \in Nat
        BY <1>2, <1>3, <2>2, <3>1, ProductsAreNat
      <4> QED BY <1>2, <1>3, <2>1, <2>2, <3>1, <4>1, <4>2
    <3> QED BY <1>1, <2>1, <3>1 DEF SafeLegs
  <2>8. f.m.now <= l.arr /\ f.m.nt + 1 <= MaxTransfers
    BY <1>2, <1>3, <2>1, <2>2, <2>3
  <2>9. Rode(N, g)
    <3>1. /\ g.phase = "AfterTimedRide" /\ g.node \in Stops
          /\ g.m.boarded = TRUE /\ g.m.nt <= MaxTransfers
          /\ g.m.dep > 0 /\ g.m.dep + g.m.access \in TimeDomain
      BY <2>1, <2>2, <2>6, <2>8
    <3>2. Elapsed(g.m)
      BY <1>2, <2>1, <2>2, <2>6, <2>8 DEF Elapsed
    <3>3. \E r \in N : r.kind = "ride" /\ r.to = g.node /\ r.arr = g.m.now
      BY <1>1, <2>1
    <3> QED BY <2>7, <3>1, <3>2, <3>3 DEF Rode
  <2>10. Grows(f.m, g.m) /\ g.m.nt <= MaxTransfers
    BY <1>2, <1>3, <2>1, <2>2, <2>4, <2>8 DEF Grows
  <2> QED BY <1>5, <2>1, <2>5, <2>9, <2>10 DEF Proper, g
<1>9. CASE WalkToZone(N, f, l)
  <2>1. /\ g.node = l.to /\ g.phase = "Completed"
        /\ g.m = [boarded |-> TRUE, dep |-> f.m.dep,
                  now |-> f.m.now + l.time, access |-> f.m.access,
                  nt |-> f.m.nt, imp |-> f.m.imp + WalkWeight * l.time]
        /\ g = [node |-> g.node, phase |-> g.phase, m |-> g.m]
        /\ l.kind = "walk" /\ Rode(N, f) /\ l.to \in Destinations
    BY <1>9 DEF WalkToZone, g
  <2>2. l.time \in Nat /\ WalkWeight * l.time \in Nat
    BY <1>1, <1>3, <2>1, LegsTyped, ProductsAreNat
  <2>3. g \in Feet
    <3> DEFINE n == f.m.now + l.time
               i == f.m.imp + WalkWeight * l.time
    <3>1. n \in Nat /\ i \in Nat
      BY <1>2, <2>2
    <3> HIDE DEF n, i
    <3>2. g = [node |-> l.to, phase |-> "Completed",
               m |-> [boarded |-> TRUE, dep |-> f.m.dep, now |-> n,
                      access |-> f.m.access, nt |-> f.m.nt, imp |-> i]]
      BY <2>1 DEF n, i
    <3> QED BY <1>2, <1>4, <3>1, <3>2, MakeFoot
  <2>4. f.m.boarded /\ f.m.dep + f.m.access <= f.m.now
        /\ f.m.nt <= MaxTransfers
    BY <2>1 DEF Rode, Elapsed
  <2>5. Arrived(g)
    BY <1>2, <2>1, <2>2, <2>4 DEF Arrived, Elapsed
  <2>6. Grows(f.m, g.m) /\ g.m.nt <= MaxTransfers
    BY <1>2, <2>1, <2>2, <2>4 DEF Grows
  <2> QED BY <1>5, <2>1, <2>3, <2>5, <2>6 DEF Proper, g
<1> QED BY <1>6, <1>7, <1>8, <1>9, FourSteps

LEMMA ProductsGrow == \A x, y, z \in Nat : y <= z => x * y <= x * z
<1> SUFFICES ASSUME NEW x \in Nat, NEW y \in Nat, NEW z \in Nat, y <= z
             PROVE  x * y <= x * z
  OBVIOUS
<1>1. z - y \in Nat /\ z = y + (z - y)
  OBVIOUS
<1>2. x * (z - y) \in Nat /\ x * y \in Nat
  BY <1>1, ProductsAreNat
<1>3. x * z = x * y + x * (z - y)
  BY <1>1
<1> QED BY <1>2, <1>3

\* Of two prefixes at one stop of which one covers the other, both have
\* boarded or none has.
LEMMA SameStanding ==
    ASSUME NEW N, NEW f \in Feet, NEW g \in Feet, Proper(N, f), Covers(f, g)
    PROVE  /\ Walked(g) => Walked(f)
           /\ Rode(N, g) => Rode(N, f)
<1>1. /\ f.node = g.node /\ AsGood(Metrics(f.m), Metrics(g.m))
      /\ f.m.dep \in Int /\ f.m.now \in Nat /\ f.m.access \in Nat
      /\ g.m.dep \in Int /\ g.m.now \in Nat /\ g.m.access \in Nat
  BY FootFields DEF Covers
<1>2. ASSUME g.node \in Stops
      PROVE  Walked(f) \/ Rode(N, f)
  <2>1. ~AtRoot(f)
    BY <1>1, <1>2, RootFoot DEF AtRoot
  <2>2. ~Arrived(f)
    BY <1>1, <1>2, NodesAssumption DEF Arrived, Zones
  <2> QED BY <2>1, <2>2 DEF Proper
<1>3. ASSUME Walked(g), Rode(N, f)
      PROVE  FALSE
  <2>1. f.m.now <= g.m.access
    BY <1>1, <1>3 DEF Walked, Rode, AsGood, Metrics
  <2>2. g.m.access < f.m.dep + f.m.access
    BY <1>3 DEF Walked, Rode
  <2>3. f.m.dep + f.m.access <= f.m.now
    BY <1>3 DEF Rode, Elapsed
  <2> QED BY <1>1, <2>1, <2>2, <2>3
<1>4. ASSUME Rode(N, g), Walked(f)
      PROVE  FALSE
  <2>1. 0 >= g.m.dep
    BY <1>1, <1>4 DEF Walked, Rode, AsGood, Metrics
  <2>2. g.m.dep > 0
    BY <1>4 DEF Rode
  <2> QED BY <1>1, <2>1, <2>2
<1>5. Walked(g) \/ Rode(N, g) => g.node \in Stops
  BY DEF Walked, Rode
<1> QED BY <1>2, <1>3, <1>4, <1>5

\* What a prefix may do next, one that covers it may do as well, and covers
\* it again.
LEMMA MimicStep ==
    ASSUME NEW N, SafeLegs(N), NEW f \in Feet, NEW g \in Feet,
           Proper(N, f), Proper(N, g), ~AtRoot(g), Covers(f, g),
           NEW l \in Onward(N, g)
    PROVE  /\ l \in Onward(N, f)
           /\ Covers(Go(f, l), Go(g, l))
           /\ Go(g, l).m.nt - Go(f, l).m.nt = g.m.nt - f.m.nt
<1>1. /\ f.node = g.node /\ AsGood(Metrics(f.m), Metrics(g.m))
      /\ f.m.dep \in Int /\ f.m.now \in Nat /\ f.m.access \in Nat
      /\ f.m.nt \in Nat /\ f.m.imp \in Nat
      /\ g.m.dep \in Int /\ g.m.now \in Nat /\ g.m.access \in Nat
      /\ g.m.nt \in Nat /\ g.m.imp \in Nat
  BY FootFields DEF Covers
<1>2. /\ WalkWeight \in Nat /\ WaitWeight \in Nat /\ TransferPenalty \in Nat
      /\ MaxTransfers \in Nat /\ MinWait \in Nat /\ MaxWait \in Nat
  BY WeightsAssumption, MaxTransfersAssumption, LimitsAssumption
<1>3. l \in N /\ l.from = f.node
  BY <1>1 DEF Onward
<1>4. CASE BoardFirst(g, l)
  <2>1. l.kind = "ride" /\ l.dep \in TimeDomain /\ Walked(g) /\ Walked(f)
    BY <1>4, SameStanding DEF BoardFirst
  <2>2. l \in Onward(N, f)
    BY <1>3, <2>1 DEF Onward, Walked
  <2>3. BoardFirst(f, l)
    <3>1. ~AtRoot(f) /\ ~Rode(N, f)
      BY <2>1, RootFoot DEF AtRoot, Walked, Rode
    <3> QED BY <2>1, <2>2, <3>1, FourSteps
            DEF WalkToStop, Transfer, WalkToZone
  <2>4. l.dep \in Nat /\ l.arr \in Nat /\ l.fare \in Nat
    BY <1>3, <2>1, LegsTyped
  <2>5. f.m.access <= g.m.access /\ f.m.imp <= g.m.imp
        /\ f.m.nt = 0 /\ g.m.nt = 0
    BY <1>1, <2>1 DEF Walked, AsGood, Metrics
  <2>6. /\ Go(f, l).node = l.to /\ Go(g, l).node = l.to
        /\ Go(f, l).m = [boarded |-> TRUE, dep |-> l.dep - f.m.access,
                  now |-> l.arr, access |-> f.m.access, nt |-> 0,
                  imp |-> f.m.imp + (l.arr - l.dep) + l.fare]
        /\ Go(g, l).m = [boarded |-> TRUE, dep |-> l.dep - g.m.access,
                  now |-> l.arr, access |-> g.m.access, nt |-> 0,
                  imp |-> g.m.imp + (l.arr - l.dep) + l.fare]
    BY <1>4, <2>3 DEF BoardFirst
  <2>7. AsGood(Metrics(Go(f, l).m), Metrics(Go(g, l).m))
    BY <1>1, <2>4, <2>5, <2>6 DEF AsGood, Metrics
  <2> QED BY <2>2, <2>5, <2>6, <2>7 DEF Covers
<1>5. CASE Transfer(N, g, l)
  <2>1. l.kind = "ride" /\ g.m.nt < MaxTransfers /\ Rode(N, g) /\ Rode(N, f)
        /\ l.dep - g.m.now \in MinWait .. MaxWait
    BY <1>5, SameStanding DEF Transfer
  <2>2. l.dep \in Nat /\ l.arr \in Nat /\ l.fare \in Nat
    BY <1>3, <2>1, LegsTyped
  <2>3. f.m.dep >= g.m.dep /\ f.m.now <= g.m.now /\ f.m.imp <= g.m.imp
        /\ f.m.nt <= g.m.nt
    BY <1>1, <2>1 DEF Rode, AsGood, Metrics
  <2>4. l.dep - f.m.now <= MaxWait
    <3>1. PICK r \in N : r.kind = "ride" /\ r.to = f.node /\ r.arr = f.m.now
      BY <2>1 DEF Rode
    <3> QED BY <1>3, <2>1, <3>1 DEF SafeLegs
  <2>5. l.dep - f.m.now \in MinWait .. MaxWait
    BY <1>1, <1>2, <2>1, <2>2, <2>3, <2>4
  <2>6. l \in Onward(N, f)
    BY <1>1, <1>2, <1>3, <2>1, <2>3, <2>5 DEF Onward, Rode
  <2>7. Transfer(N, f, l)
    <3>1. ~AtRoot(f) /\ ~Walked(f)
      BY <2>1, RootFoot DEF AtRoot, Walked, Rode
    <3> QED BY <2>1, <2>6, <3>1, FourSteps
            DEF WalkToStop, BoardFirst, WalkToZone
  <2> DEFINE i == f.m.imp + WaitWeight * (l.dep - f.m.now)
                    + TransferPenalty + (l.arr - l.dep) + l.fare
             j == g.m.imp + WaitWeight * (l.dep - g.m.now)
                    + TransferPenalty + (l.arr - l.dep) + l.fare
  <2>8. i \in Int /\ j \in Int /\ i <= j
    <3>1. CASE WaitWeight = 0
      <4>1. /\ WaitWeight * (l.dep - f.m.now) = 0
            /\ WaitWeight * (l.dep - g.m.now) = 0
        BY <1>1, <2>2, <3>1
      <4> QED BY <1>1, <1>2, <2>2, <2>3, <4>1
    <3>2. CASE WaitWeight = 1
      <4>1. /\ WaitWeight * (l.dep - f.m.now) = l.dep - f.m.now
            /\ WaitWeight * (l.dep - g.m.now) = l.dep - g.m.now
        BY <1>1, <2>2, <3>2
      <4>2. /\ f.m.imp = f.m.now - f.m.dep + TransferPenalty * f.m.nt
            /\ g.m.imp = g.m.now - g.m.dep + TransferPenalty * g.m.nt
        BY <2>1, <3>2 DEF Rode
      <4>3. /\ TransferPenalty * f.m.nt \in Nat
            /\ TransferPenalty * g.m.nt \in Nat
            /\ TransferPenalty * f.m.nt <= TransferPenalty * g.m.nt
        BY <1>1, <1>2, <2>3, ProductsAreNat, ProductsGrow
      <4> HIDE DEF i, j
      <4>4. /\ i = l.dep - f.m.dep + TransferPenalty * f.m.nt
                     + TransferPenalty + (l.arr - l.dep) + l.fare
            /\ j = l.dep - g.m.dep + TransferPenalty * g.m.nt
                     + TransferPenalty + (l.arr - l.dep) + l.fare
        <5> DEFINE p == TransferPenalty * f.m.nt
                   q == TransferPenalty * g.m.nt
        <5>1. /\ i = f.m.imp + (l.dep - f.m.now)
                       + TransferPenalty + (l.arr - l.dep) + l.fare
              /\ j = g.m.imp + (l.dep - g.m.now)
                       + TransferPenalty + (l.arr - l.dep) + l.fare
          BY <4>1, Zenon DEF i, j
        <5>2. p \in Nat /\ q \in Nat /\ f.m.imp = f.m.now - f.m.dep + p
              /\ g.m.imp = g.m.now - g.m.dep + q
          BY <4>2, <4>3
        <5> HIDE DEF p, q
        <5>3. /\ i = l.dep - f.m.dep + p + TransferPenalty + (l.arr - l.dep)
                       + l.fare
              /\ j = l.dep - g.m.dep + q + TransferPenalty + (l.arr - l.dep)
                       + l.fare
          BY <1>1, <1>2, <2>2, <5>1, <5>2
        <5> QED BY <5>3 DEF p, q
      <4> QED BY <1>1, <1>2, <2>2, <2>3, <4>3, <4>4
    <3> QED BY <3>1, <3>2 DEF SafeLegs
  <2>9. /\ Go(f, l).node = l.to /\ Go(g, l).node = l.to
        /\ Go(f, l).m = [boarded |-> TRUE, dep |-> f.m.dep, now |-> l.arr,
                  access |-> f.m.access, nt |-> f.m.nt + 1, imp |-> i]
        /\ Go(g, l).m = [boarded |-> TRUE, dep |-> g.m.dep, now |-> l.arr,
                  access |-> g.m.access, nt |-> g.m.nt + 1, imp |-> j]
    BY <1>5, <2>7 DEF Transfer
  <2> HIDE DEF i, j
  <2>10. AsGood(Metrics(Go(f, l).m), Metrics(Go(g, l).m))
    BY <1>1, <2>2, <2>3, <2>8, <2>9 DEF AsGood, Metrics
  <2> QED BY <1>1, <2>6, <2>9, <2>10 DEF Covers
<1>6. CASE WalkToZone(N, g, l)
  <2>1. l.kind = "walk" /\ l.to \in Destinations /\ Rode(N, g) /\ Rode(N, f)
    BY <1>6, SameStanding DEF WalkToZone
  <2>2. l \in Onward(N, f)
    BY <1>3, <2>1 DEF Onward, WalkAdmitted, Rode
  <2>3. WalkToZone(N, f, l)
    <3>1. ~AtRoot(f) /\ ~Walked(f)
      BY <2>1, RootFoot DEF AtRoot, Walked, Rode
    <3> QED BY <2>1, <2>2, <3>1, FourSteps
            DEF WalkToStop, BoardFirst, Transfer
  <2>4. l.time \in Nat /\ WalkWeight * l.time \in Nat
    BY <1>2, <1>3, <2>1, LegsTyped, ProductsAreNat
  <2>5. f.m.dep >= g.m.dep /\ f.m.now <= g.m.now /\ f.m.imp <= g.m.imp
        /\ f.m.nt <= g.m.nt
    BY <1>1, <2>1 DEF Rode, AsGood, Metrics
  <2> DEFINE w == WalkWeight * l.time
  <2>6. /\ Go(f, l).node = l.to /\ Go(g, l).node = l.to
        /\ Go(f, l).m = [boarded |-> TRUE, dep |-> f.m.dep,
                  now |-> f.m.now + l.time, access |-> f.m.access,
                  nt |-> f.m.nt, imp |-> f.m.imp + w]
        /\ Go(g, l).m = [boarded |-> TRUE, dep |-> g.m.dep,
                  now |-> g.m.now + l.time, access |-> g.m.access,
                  nt |-> g.m.nt, imp |-> g.m.imp + w]
    BY <1>6, <2>3 DEF WalkToZone
  <2>7. w \in Nat
    BY <2>4
  <2> HIDE DEF w
  <2>8. AsGood(Metrics(Go(f, l).m), Metrics(Go(g, l).m))
    BY <1>1, <2>4, <2>5, <2>6, <2>7 DEF AsGood, Metrics
  <2> QED BY <1>1, <2>2, <2>6, <2>8 DEF Covers
<1> QED BY <1>4, <1>5, <1>6, FourSteps DEF WalkToStop

------------------------------------------------------------------------------
\* Where prefixes get to: the least set that no step leaves.
ClosedUnder(N, K) == \A f \in K : \A l \in Onward(N, f) : Go(f, l) \in K

From(N, f) ==
    {g \in Feet : \A K \in SUBSET Feet : f \in K /\ ClosedUnder(N, K) => g \in K}

LEMMA FromItself ==
    ASSUME NEW N, NEW f \in Feet
    PROVE  f \in From(N, f)
BY DEF From

LEMMA FromStepsOn ==
    ASSUME NEW N, NEW f, NEW g \in From(N, f), NEW l \in Onward(N, g),
           Go(g, l) \in Feet
    PROVE  Go(g, l) \in From(N, f)
BY DEF From, ClosedUnder

LEMMA FromFrom ==
    ASSUME NEW N, NEW f, NEW g \in From(N, f)
    PROVE  From(N, g) \subseteq From(N, f)
BY DEF From

LEMMA FromWithin ==
    ASSUME NEW N, NEW f, NEW K \in SUBSET Feet, f \in K, ClosedUnder(N, K)
    PROVE  From(N, f) \subseteq K
BY DEF From

\* Nobody stands improperly.
LEMMA FromIsProper ==
    ASSUME NEW N, SafeLegs(N), NEW f \in Feet, Proper(N, f)
    PROVE  \A g \in From(N, f) :
               /\ g \in Feet /\ Proper(N, g) /\ Grows(f.m, g.m)
               /\ \A l \in Onward(N, g) : Go(g, l) \in From(N, f)
<1> DEFINE K == {g \in Feet : Proper(N, g) /\ Grows(f.m, g.m)}
<1>1. f \in K
  <2>1. /\ f.m.imp <= f.m.imp /\ f.m.nt <= f.m.nt
        /\ f.m.access <= f.m.access /\ f.m.now <= f.m.now
    <3>1. /\ f.m.imp \in Nat /\ f.m.nt \in Nat /\ f.m.access \in Nat
          /\ f.m.now \in Nat
      BY FootFields
    <3> QED BY <3>1
  <2>2. Grows(f.m, f.m)
    BY <2>1, Zenon DEF Grows
  <2> QED BY <2>2
<1>2. ASSUME NEW g \in K, NEW l \in Onward(N, g)
      PROVE  Go(g, l) \in K
  <2>1. /\ Go(g, l) \in Feet /\ Proper(N, Go(g, l)) /\ Grows(g.m, Go(g, l).m)
    BY <1>2, StepStaysProper
  <2>2. f.m \in Riding /\ g.m \in Riding /\ Go(g, l).m \in Riding
    BY <2>1, FootFields
  <2>3. Grows(f.m, Go(g, l).m)
    BY <1>2, <2>1, <2>2 DEF Grows, Riding
  <2> QED BY <2>1, <2>3
<1>3. From(N, f) \subseteq K
  <2>1. ClosedUnder(N, K)
    BY <1>2 DEF ClosedUnder
  <2> QED BY <1>1, <2>1, FromWithin
<1>4. \A g \in From(N, f) : \A l \in Onward(N, g) : Go(g, l) \in From(N, f)
  BY <1>3, StepStaysProper, FromStepsOn
<1> QED BY <1>3, <1>4

\* Either one stays, or one takes a first step.
LEMMA FromUnfolds ==
    ASSUME NEW N, SafeLegs(N), NEW f \in Feet, Proper(N, f),
           NEW g \in From(N, f)
    PROVE  g = f \/ \E l \in Onward(N, f) : g \in From(N, Go(f, l))
<1> DEFINE K == {h \in From(N, f) :
                   h = f \/ \E l \in Onward(N, f) : h \in From(N, Go(f, l))}
<1>1. f \in K
  BY FromItself
<1>2. ASSUME NEW h \in K, NEW k \in Onward(N, h)
      PROVE  Go(h, k) \in K
  <2>1. h \in Feet /\ Proper(N, h) /\ Go(h, k) \in From(N, f)
    BY <1>2, FromIsProper
  <2>2. Go(h, k) \in Feet
    BY <2>1, StepStaysProper
  <2>3. CASE h = f
    <3>1. Go(h, k) \in From(N, Go(f, k))
      BY <2>2, <2>3, FromItself
    <3> QED BY <1>2, <2>1, <2>3, <3>1
  <2>4. CASE \E l \in Onward(N, f) : h \in From(N, Go(f, l))
    <3>1. PICK l \in Onward(N, f) : h \in From(N, Go(f, l))
      BY <2>4
    <3>2. Go(h, k) \in From(N, Go(f, l))
      BY <1>2, <2>2, <3>1, FromStepsOn
    <3> QED BY <2>1, <3>2
  <2> QED BY <1>2, <2>3, <2>4
<1>3. From(N, f) \subseteq K
  <2>1. K \in SUBSET Feet
    BY DEF From
  <2>2. ClosedUnder(N, K)
    BY <1>2 DEF ClosedUnder
  <2> HIDE DEF K
  <2> QED BY <1>1, <2>1, <2>2, FromWithin
<1> QED BY <1>3

LEMMA ProperElapsed ==
    ASSUME NEW N, NEW f \in Feet, Proper(N, f)
    PROVE  Elapsed(f.m)
BY RootFoot DEF Proper, AtRoot, Walked, Rode, Arrived, Elapsed

\* Wherever a prefix gets to, one that covers it gets to as well, with what
\* it had to spare.
LEMMA Mimic ==
    ASSUME NEW N, SafeLegs(N), NEW f \in Feet, NEW g \in Feet,
           Proper(N, f), Proper(N, g), ~AtRoot(g), Covers(f, g),
           NEW h \in From(N, g)
    PROVE  \E k \in From(N, f) : /\ Covers(k, h)
                                 /\ h.m.nt - k.m.nt = g.m.nt - f.m.nt
<1> DEFINE Mimicked(x) == \E k \in From(N, f) :
                            Covers(k, x) /\ x.m.nt - k.m.nt = g.m.nt - f.m.nt
           K == {x \in From(N, g) : ~AtRoot(x) /\ Mimicked(x)}
<1>1. g \in K
  BY FromItself
<1>2. ASSUME NEW x \in K, NEW l \in Onward(N, x)
      PROVE  Go(x, l) \in K
  <2>1. PICK k \in From(N, f) :
          Covers(k, x) /\ x.m.nt - k.m.nt = g.m.nt - f.m.nt
    BY <1>2
  <2>2. /\ x \in Feet /\ Proper(N, x) /\ Go(x, l) \in From(N, g)
        /\ k \in Feet /\ Proper(N, k) /\ ~AtRoot(x)
    BY <1>2, <2>1, FromIsProper
  <2>3. /\ l \in Onward(N, k) /\ Covers(Go(k, l), Go(x, l))
        /\ Go(x, l).m.nt - Go(k, l).m.nt = x.m.nt - k.m.nt
    BY <2>1, <2>2, MimicStep
  <2>4. Go(k, l) \in From(N, f) /\ ~AtRoot(Go(x, l))
    BY <2>2, <2>3, FromIsProper, StepStaysProper
  <2> QED BY <2>1, <2>2, <2>3, <2>4
<1>3. From(N, g) \subseteq K
  <2>1. K \in SUBSET Feet
    BY DEF From
  <2>2. ClosedUnder(N, K)
    BY <1>2 DEF ClosedUnder
  <2> HIDE DEF K
  <2> QED BY <1>1, <2>1, <2>2, FromWithin
<1> QED BY <1>3

------------------------------------------------------------------------------
(***************************************************************************)
(* A label and those it descends from.                                     *)
(***************************************************************************)
Under(registry, a, l) ==
    \A A \in SUBSET DOMAIN registry : ClosedIn(registry, A) /\ l \in A => a \in A

LEMMA UnderUnfolds ==
    ASSUME NEW registry, NEW l \in DOMAIN registry, NEW a, Under(registry, a, l)
    PROVE  \/ a = l
           \/ registry[l].parent # None /\ Under(registry, a, registry[l].parent)
<1> DEFINE p == registry[l].parent
<1>1. CASE p = None
  <2>1. ClosedIn(registry, {l}) /\ {l} \in SUBSET DOMAIN registry
    BY <1>1 DEF ClosedIn
  <2> QED BY <2>1 DEF Under
<1>2. ASSUME a # l, p # None, NEW A \in SUBSET DOMAIN registry,
             ClosedIn(registry, A), p \in A
      PROVE  a \in A
  <2>1. ClosedIn(registry, A \cup {l}) /\ A \cup {l} \in SUBSET DOMAIN registry
    BY <1>2 DEF ClosedIn
  <2> QED BY <1>2, <2>1 DEF Under
<1>3. a # l /\ p # None => Under(registry, a, p)
  BY <1>2 DEF Under
<1> QED BY <1>1, <1>3

LEMMA UnderItself ==
    ASSUME NEW registry, NEW l
    PROVE  Under(registry, l, l)
BY DEF Under

LEMMA UnderParent ==
    ASSUME NEW registry, NEW l, registry[l].parent # None,
           NEW a, Under(registry, a, registry[l].parent)
    PROVE  Under(registry, a, l)
BY DEF Under, ClosedIn

\* A label dies because it, or one it descends from, is turned out.
LEMMA DeathHasACause ==
    ASSUME NEW old \in Seq(LabelType), Forest(old),
           NEW new \in Seq(LabelType), Forest(new),
           Len(old) <= Len(new), NEW T,
           \A l \in 1 .. Len(old) :
               /\ new[l].parent = old[l].parent
               /\ new[l].active <=> old[l].active /\ l \notin T,
           NEW l \in DOMAIN old, ActiveIn(old, l), ~ActiveIn(new, l)
    PROVE  \E a \in T : a \in DOMAIN old /\ Under(old, a, l)
<1> DEFINE A == {x \in DOMAIN old : Under(old, x, l)}
<1>0. DOMAIN old = 1 .. Len(old)
  OBVIOUS
<1>1. ASSUME NEW x \in A, old[x].parent # None
      PROVE  old[x].parent \in A
  <2>1. old[x].parent \in DOMAIN old
    BY <1>0, <1>1 DEF Forest, None
  <2>2. Under(old, old[x].parent, l)
    BY <1>1 DEF Under, ClosedIn
  <2> QED BY <2>1, <2>2
<1>2. ClosedIn(old, A)
  BY <1>1 DEF ClosedIn
<1>3. l \in A
  BY UnderItself
<1>4. ASSUME A \cap T = {}
      PROVE  FALSE
  <2>1. \A x \in A : /\ new[x].parent = old[x].parent
                     /\ old[x].active => new[x].active
    BY <1>0, <1>4
  <2> HIDE DEF A
  <2>2. l \in A \cup {None}
    BY <1>3
  <2>3. ActiveIn(new, l)
    BY <1>2, <2>1, <2>2, ClosedStaysActive
  <2> QED BY <2>3
<1> QED BY <1>4

------------------------------------------------------------------------------
(***************************************************************************)
(* The history of the labels: the prefix each of them was allocated for.   *)
(* The program forgets it; that there is one is all the proof needs.       *)
(***************************************************************************)
Prefix == [node : Nodes, phase : Phases, path : Seq(Legs), m : Riding]

Bare(b) == [node |-> b.node, phase |-> b.phase, path |-> b.path, m |-> b.m]

Extended(p, l) ==
    [node |-> l.to, phase |-> NextPhase(p, l), path |-> Append(p.path, l),
     m |-> Extend(p.m, l)]

At(H, l) == IF l = None THEN Bare(Root) ELSE H[l]

\* Each label was allocated for a successor of its parent's prefix.
Allocated(H) ==
    \A l \in DOMAIN labels :
        \E leg \in Successors(At(H, labels[l].parent)) :
            /\ ~Revisits(At(H, labels[l].parent), leg)
            /\ H[l] = Extended(At(H, labels[l].parent), leg)

History(H) ==
    /\ H \in Seq(Prefix) /\ Len(H) = Len(labels)
    /\ Allocated(H)
    /\ \A i \in DOMAIN branches :
        Bare(branches[i]) = At(H, branches[i].label)
    /\ \A y \in Nodes : \A e \in Range(sets[y]) :
        H[e.label].node = y /\ e.m = Metrics(H[e.label].m)
    /\ \A l \in DOMAIN labels : Active(l) =>
        /\ \E e \in Range(sets[H[l].node]) : e.label = l
        /\ H[l].node \in Stops => \E i \in DOMAIN branches : branches[i].label = l

\* How many legs it takes to stand somewhere.
DepthOf(f) ==
    CASE f.phase = "AtOrigin"            -> 0
      [] f.phase = "BeforeFirstBoarding" -> 1
      [] f.phase = "AfterTimedRide"      -> f.m.nt + 2
      [] f.phase = "Completed"           -> f.m.nt + 3

Wellformed(p) ==
    /\ Foot(p) \in Feet /\ Proper(network, Foot(p))
    /\ p.path \in Seq(network)
    /\ p.m.boarded => \E i \in DOMAIN p.path : p.path[i].kind = "ride"
    /\ Len(p.path) = DepthOf(Foot(p))
    /\ p.phase # "Completed" => \A i \in DOMAIN p.path : p.path[i].to \in Stops

LEMMA SuccessorsGoOnward ==
    ASSUME NEW b
    PROVE  Successors(b) \subseteq Onward(network, Foot(b))
BY DEF Successors, Onward, Foot, WalkAdmitted, RideAdmitted

LEMMA MaxIsMember ==
    ASSUME NEW S \in SUBSET Nat, NEW n \in Nat, \A i \in S : i <= n, S # {}
    PROVE  Max(S) \in S
<1> DEFINE T == {n - i : i \in S}
<1>1. T \in SUBSET Nat /\ T # {}
  OBVIOUS
<1>2. PICK t \in T : \A u \in T : t <= u
  <2> HIDE DEF T
  <2> QED BY <1>1, LeastNumber
<1>3. PICK s \in S : t = n - s
  BY <1>2
<1>4. \A u \in S : s >= u
  <2> SUFFICES ASSUME NEW u \in S
               PROVE  s >= u
    OBVIOUS
  <2>1. n - u \in T
    OBVIOUS
  <2> QED BY <1>2, <1>3, <2>1
<1>5. \E x \in S : \A y \in S : x >= y
  BY <1>4
<1> QED BY <1>5 DEF Max

\* Where no transfer is barred, where a prefix stands decides what it may do.
LEMMA OnwardAreSuccessors ==
    ASSUME NEW p, SafeLegs(network), Wellformed(p)
    PROVE  Successors(p) = Onward(network, Foot(p))
<1> SUFFICES ASSUME NEW l \in Onward(network, Foot(p))
             PROVE  l \in Successors(p)
  BY SuccessorsGoOnward
<1>1. l \in network /\ l.from = p.node
  BY DEF Onward, Foot
<1>2. CASE l.kind = "walk"
  BY <1>1, <1>2 DEF Onward, Foot, WalkAdmitted, Successors
<1>3. CASE l.kind = "ride" /\ p.m.boarded
  <2> DEFINE R == {i \in DOMAIN p.path : p.path[i].kind = "ride"}
  <2>1. p.path \in Seq(network) /\ R # {}
    BY <1>3 DEF Wellformed
  <2>2. R \in SUBSET Nat /\ Len(p.path) \in Nat /\ \A i \in R : i <= Len(p.path)
    BY <2>1
  <2>3. Max(R) \in R
    <3> HIDE DEF R
    <3> QED BY <2>1, <2>2, MaxIsMember
  <2>4. LastRide(p) = p.path[Max(R)]
    BY DEF LastRide
  <2>5. LastRide(p) \in network /\ LastRide(p).kind = "ride"
    <3>1. PICK j \in R : LastRide(p) = p.path[j]
      BY <2>3, <2>4
    <3>2. j \in DOMAIN p.path /\ p.path[j].kind = "ride"
      BY <3>1
    <3>3. p.path[j] \in network
      BY <2>1, <3>2
    <3> QED BY <3>1, <3>2, <3>3
  <2>6. <<LastRide(p), l>> \notin Barred
    BY <1>1, <1>3, <2>5 DEF SafeLegs
  <2> QED BY <1>1, <1>3, <2>6 DEF Onward, Foot, RideAdmitted, Successors
<1>4. CASE l.kind = "ride" /\ ~p.m.boarded
  BY <1>1, <1>4 DEF Onward, Foot, RideAdmitted, Successors
<1> QED BY <1>2, <1>3, <1>4 DEF Onward

LEMMA ExtendedFoot ==
    ASSUME NEW p, NEW l
    PROVE  Foot(Extended(p, l)) = Go(Foot(p), l)
BY DEF Foot, Extended, Go, NextPhase

LEMMA RootWellformed == Wellformed(Bare(Root))
<1>1. Foot(Bare(Root)) = Foot(Root) /\ Bare(Root).path = <<>>
      /\ Bare(Root).m.boarded = FALSE
  BY RootFoot DEF Foot, Bare, Root
<1>2. DepthOf(Foot(Root)) = 0
  BY RootFoot DEF DepthOf
<1>3. DOMAIN Bare(Root).path = {} /\ Bare(Root).path \in Seq(network)
      /\ Len(Bare(Root).path) = 0
  BY <1>1
<1> QED BY <1>1, <1>2, <1>3, RootFoot DEF Wellformed, Proper, AtRoot

LEMMA ExtendedWellformed ==
    ASSUME NEW p, SafeLegs(network), Wellformed(p), NEW l \in Successors(p)
    PROVE  /\ Wellformed(Extended(p, l)) /\ ~AtRoot(Foot(Extended(p, l)))
           /\ Grows(p.m, Extended(p, l).m)
           /\ Extended(p, l).m.nt <= MaxTransfers
<1> DEFINE q == Extended(p, l)
           f == Foot(p)
<1>1. l \in Onward(network, f) /\ f \in Feet /\ Proper(network, f)
  BY SuccessorsGoOnward DEF Wellformed
<1>2. Foot(q) = Go(f, l) /\ f.m = p.m /\ Foot(q).m = q.m
  BY ExtendedFoot DEF Foot
<1>3. /\ Foot(q) \in Feet /\ Proper(network, Foot(q)) /\ ~AtRoot(Foot(q))
      /\ Grows(p.m, q.m) /\ q.m.nt <= MaxTransfers
  BY <1>1, <1>2, StepStaysProper
<1>4. /\ q.path = Append(p.path, l) /\ p.path \in Seq(network) /\ l \in network
      /\ Len(q.path) = Len(p.path) + 1 /\ q.path \in Seq(network)
      /\ q.path[Len(p.path) + 1] = l /\ Len(p.path) + 1 \in DOMAIN q.path
      /\ \A i \in DOMAIN p.path : i \in DOMAIN q.path /\ q.path[i] = p.path[i]
  BY DEF Wellformed, Extended, Successors
<1>5. Len(p.path) = DepthOf(f) /\ f.m.nt \in Nat
  BY <1>1, FootFields DEF Wellformed
<1>6. q.m.boarded => \E i \in DOMAIN q.path : q.path[i].kind = "ride"
  <2>1. CASE l.kind = "ride"
    BY <1>4, <2>1
  <2>2. CASE l.kind # "ride" /\ p.m.boarded
    BY <1>4, <2>2 DEF Wellformed
  <2>3. CASE l.kind # "ride" /\ ~p.m.boarded
    <3>1. f.m.boarded = FALSE
      <4>1. f.m.boarded \in BOOLEAN
        BY <1>1, FootFields
      <4> QED BY <1>2, <2>3, <4>1
    <3>2. WalkToStop(f, l) \/ BoardFirst(f, l) \/ Transfer(network, f, l)
            \/ WalkToZone(network, f, l)
      BY <1>1, FourSteps
    <3>3. ~BoardFirst(f, l) /\ ~Transfer(network, f, l)
      BY <2>3 DEF BoardFirst, Transfer
    <3>4. ~WalkToZone(network, f, l)
      BY <3>1 DEF WalkToZone, Rode
    <3>5. Foot(q).m.boarded = FALSE
      BY <1>2, <3>2, <3>3, <3>4 DEF WalkToStop
    <3> QED BY <1>2, <3>5
  <2> QED BY <2>1, <2>2, <2>3
<1>7. Len(q.path) = DepthOf(Foot(q))
  <2>1. CASE WalkToStop(f, l)
    <3>1. f.phase = "AtOrigin" /\ Foot(q).phase = "BeforeFirstBoarding"
      BY <1>2, <2>1, RootFoot DEF WalkToStop, AtRoot
    <3> QED BY <1>4, <1>5, <3>1 DEF DepthOf
  <2>2. CASE BoardFirst(f, l)
    <3>1. /\ f.phase = "BeforeFirstBoarding" /\ Foot(q).phase = "AfterTimedRide"
          /\ Foot(q).m.nt = 0
      BY <1>2, <2>2 DEF BoardFirst, Walked
    <3> QED BY <1>4, <1>5, <3>1 DEF DepthOf
  <2>3. CASE Transfer(network, f, l)
    <3>1. /\ f.phase = "AfterTimedRide" /\ Foot(q).phase = "AfterTimedRide"
          /\ Foot(q).m.nt = f.m.nt + 1
      BY <1>2, <2>3 DEF Transfer, Rode
    <3>2. DepthOf(f) = f.m.nt + 2 /\ DepthOf(Foot(q)) = Foot(q).m.nt + 2
      BY <3>1 DEF DepthOf
    <3> QED BY <1>4, <1>5, <3>1, <3>2
  <2>4. CASE WalkToZone(network, f, l)
    <3>1. /\ f.phase = "AfterTimedRide" /\ Foot(q).phase = "Completed"
          /\ Foot(q).m.nt = f.m.nt
      BY <1>2, <2>4 DEF WalkToZone, Rode
    <3>2. DepthOf(f) = f.m.nt + 2 /\ DepthOf(Foot(q)) = Foot(q).m.nt + 3
      BY <3>1 DEF DepthOf
    <3> QED BY <1>4, <1>5, <3>1, <3>2
  <2> QED BY <1>1, <2>1, <2>2, <2>3, <2>4, FourSteps
<1>8. q.phase # "Completed" => \A i \in DOMAIN q.path : q.path[i].to \in Stops
  <2> SUFFICES ASSUME q.phase # "Completed", NEW i \in DOMAIN q.path
               PROVE  q.path[i].to \in Stops
    OBVIOUS
  <2>1. Foot(q).phase = q.phase /\ Foot(q).node = l.to
    BY DEF Foot, Extended
  <2>2. l.to \in Stops
    BY <1>3, <2>1, RootFoot DEF Proper, Walked, Rode, Arrived
  <2>3. f.phase # "Completed" /\ f.phase = p.phase
    BY DEF Successors, WalkAdmitted, RideAdmitted, Foot
  <2>4. i = Len(p.path) + 1 \/ i \in DOMAIN p.path
    BY <1>4
  <2> QED BY <1>4, <2>2, <2>3, <2>4 DEF Wellformed
<1> QED BY <1>3, <1>4, <1>6, <1>7, <1>8 DEF Wellformed

\* What is so of the prefix of every label: it stands somewhere proper, goes
\* on from the prefixes of its ancestors, and wherever its path has been, one
\* of these ended.
Sound(H, l) ==
    /\ Wellformed(H[l]) /\ ~AtRoot(Foot(H[l])) /\ H[l].m.nt <= MaxTransfers
    /\ \A i \in DOMAIN H[l].path : \E a \in DOMAIN labels :
        /\ Under(labels, a, l) /\ H[a].node = H[l].path[i].to
        /\ H[l].path[i].kind = "ride" => H[a].m.boarded
    /\ \A a \in DOMAIN labels :
        Under(labels, a, l) => Foot(H[l]) \in From(network, Foot(H[a]))

LEMMA RideBoards ==
    ASSUME NEW p, SafeLegs(network), Wellformed(p), NEW l \in Successors(p),
           l.kind = "ride"
    PROVE  Extended(p, l).m.boarded
<1>1. l \in Onward(network, Foot(p)) /\ Foot(p) \in Feet
      /\ Proper(network, Foot(p))
  BY SuccessorsGoOnward DEF Wellformed
<1>2. BoardFirst(Foot(p), l) \/ Transfer(network, Foot(p), l)
  BY <1>1, FourSteps DEF WalkToStop, WalkToZone
<1>3. Foot(Extended(p, l)) = Go(Foot(p), l)
  BY ExtendedFoot
<1>4. Foot(Extended(p, l)).m.boarded
  BY <1>2, <1>3 DEF BoardFirst, Transfer
<1> QED BY <1>4 DEF Foot

LEMMA SoundFromParent ==
    ASSUME labels \in Seq(LabelType), Forest(labels), SafeLegs(network),
           NEW H, Allocated(H), NEW l \in DOMAIN labels,
           labels[l].parent # None => Sound(H, labels[l].parent)
    PROVE  Sound(H, l)
<1> DEFINE p == labels[l].parent
           P == At(H, p)
<1>1. PICK leg \in Successors(P) : H[l] = Extended(P, leg)
  BY DEF Allocated
<1>2. Wellformed(P)
  BY RootWellformed DEF At, Sound
<1>3. /\ Wellformed(H[l]) /\ ~AtRoot(Foot(H[l])) /\ H[l].m.nt <= MaxTransfers
      /\ leg.kind = "ride" => H[l].m.boarded
  BY <1>1, <1>2, ExtendedWellformed, RideBoards
<1>4. H[l].path = Append(P.path, leg) /\ H[l].node = leg.to
  BY <1>1 DEF Extended
<1>5. ASSUME NEW i \in DOMAIN H[l].path
      PROVE  \E a \in DOMAIN labels :
                /\ Under(labels, a, l) /\ H[a].node = H[l].path[i].to
                /\ H[l].path[i].kind = "ride" => H[a].m.boarded
  <2>1. P.path \in Seq(network) /\ leg \in network
    BY <1>1, <1>2 DEF Wellformed, Successors
  <2>2. \/ i = Len(P.path) + 1 /\ H[l].path[i] = leg
        \/ i \in DOMAIN P.path /\ H[l].path[i] = P.path[i]
    BY <1>4, <1>5, <2>1
  <2>3. CASE H[l].path[i] = leg
    BY <1>3, <1>4, <2>3, UnderItself
  <2>4. CASE i \in DOMAIN P.path /\ H[l].path[i] = P.path[i]
    <3>1. p # None
      <4>1. SUFFICES ASSUME p = None
                     PROVE  FALSE
        OBVIOUS
      <4>2. P.path = <<>>
        BY <4>1 DEF At, Bare, Root
      <4> QED BY <2>4, <4>2
    <3>2. P = H[p] /\ Sound(H, p)
      BY <3>1 DEF At
    <3>3. PICK a \in DOMAIN labels :
            /\ Under(labels, a, p) /\ H[a].node = P.path[i].to
            /\ P.path[i].kind = "ride" => H[a].m.boarded
      BY <2>4, <3>2 DEF Sound
    <3>4. Under(labels, a, l)
      BY <3>1, <3>3, UnderParent
    <3> QED BY <2>4, <3>3, <3>4
  <2> QED BY <2>2, <2>3, <2>4
<1>6. ASSUME NEW a \in DOMAIN labels, Under(labels, a, l)
      PROVE  Foot(H[l]) \in From(network, Foot(H[a]))
  <2>1. CASE a = l
    BY <1>3, <2>1, FromItself DEF Wellformed
  <2>2. CASE a # l
    <3>1. p # None /\ Under(labels, a, p)
      BY <1>6, <2>2, UnderUnfolds
    <3>2. P = H[p] /\ Sound(H, p)
      BY <3>1 DEF At
    <3>3. Foot(P) \in From(network, Foot(H[a]))
      BY <3>1, <3>2 DEF Sound
    <3>4. leg \in Onward(network, Foot(P)) /\ Foot(H[l]) = Go(Foot(P), leg)
      BY <1>1, SuccessorsGoOnward, ExtendedFoot
    <3>5. Foot(H[l]) \in Feet
      BY <1>3 DEF Wellformed
    <3> QED BY <3>3, <3>4, <3>5, FromStepsOn
  <2> QED BY <2>1, <2>2
<1> QED BY <1>3, <1>5, <1>6 DEF Sound

LEMMA AllSound ==
    ASSUME labels \in Seq(LabelType), Forest(labels), SafeLegs(network),
           NEW H, Allocated(H)
    PROVE  \A l \in DOMAIN labels : Sound(H, l)
<1> DEFINE T == {l \in DOMAIN labels : ~Sound(H, l)}
<1> SUFFICES ASSUME T # {}
             PROVE  FALSE
  OBVIOUS
<1>1. T \in SUBSET Nat
  OBVIOUS
<1>2. PICK l \in T : \A k \in T : l <= k
  <2> HIDE DEF T
  <2> QED BY <1>1, LeastNumber
<1>3. l \in DOMAIN labels /\ DOMAIN labels = 1 .. Len(labels)
      /\ labels[l].parent \in 0 .. l - 1
  BY <1>2 DEF Forest
<1>4. ASSUME labels[l].parent # None
      PROVE  Sound(H, labels[l].parent)
  <2>1. labels[l].parent \in DOMAIN labels /\ ~(l <= labels[l].parent)
    BY <1>3, <1>4 DEF None
  <2> QED BY <1>2, <2>1
<1>5. Sound(H, l)
  BY <1>3, <1>4, SoundFromParent
<1> QED BY <1>2, <1>5

------------------------------------------------------------------------------
(***************************************************************************)
(* The prefixes of a search without pruning, level by level.               *)
(***************************************************************************)
FirstLevel == {[node |-> Origin, phase |-> "AtOrigin", path |-> <<>>,
                m |-> Root.m]}

StepsOf(b) == {[node |-> l.to, phase |-> NextPhase(b, l),
                path |-> Append(b.path, l), m |-> Extend(b.m, l)] :
               l \in {k \in Successors(b) : ~Revisits(b, k)}}

NextLevel(S) == UNION {StepsOf(b) : b \in S}

SolvesLevels(f, n) ==
    f = [k \in 0 .. n |-> IF k = 0 THEN FirstLevel ELSE NextLevel(f[k - 1])]

LEMMA LevelsExist ==
    ASSUME NEW N \in Nat
    PROVE  \E f : SolvesLevels(f, N)
<1> DEFINE Holds == {n \in 0 .. N : \E f : SolvesLevels(f, n)}
<1>1. 0 \in Holds
  <2> DEFINE g == [k \in 0 .. 0 |-> FirstLevel]
  <2>1. SolvesLevels(g, 0)
    BY DEF SolvesLevels
  <2> QED BY <2>1
<1>2. ASSUME NEW n \in 1 .. N, n - 1 \in Holds
      PROVE  n \in Holds
  <2>1. PICK f : SolvesLevels(f, n - 1)
    BY <1>2
  <2> DEFINE last == NextLevel(f[n - 1])
             g == [k \in 0 .. n |-> IF k = n THEN last ELSE f[k]]
  <2>2. /\ n \in Nat /\ n # 0 /\ n - 1 \in 0 .. n - 1
        /\ \A k \in 0 .. n : k # n => k \in 0 .. n - 1
        /\ \A k \in 0 .. n : k # 0 => k - 1 \in 0 .. n - 1
        /\ \A k \in 0 .. n - 1 : k \in 0 .. n /\ k # n
    OBVIOUS
  <2>3. \A k \in 0 .. n - 1 :
          f[k] = IF k = 0 THEN FirstLevel ELSE NextLevel(f[k - 1])
    BY <2>1 DEF SolvesLevels
  <2>4. g[n] = last /\ \A k \in 0 .. n - 1 : g[k] = f[k]
    BY <2>2
  <2>5. g = [k \in 0 .. n |-> g[k]]
    OBVIOUS
  <2> HIDE DEF g
  <2>6. ASSUME NEW k \in 0 .. n
        PROVE  g[k] = IF k = 0 THEN FirstLevel ELSE NextLevel(g[k - 1])
    <3>1. CASE k = n
      <4>1. g[n - 1] = f[n - 1]
        BY <2>2, <2>4
      <4> QED BY <2>2, <2>4, <3>1, <4>1
    <3>2. CASE k # n
      <4>1. k \in 0 .. n - 1
        BY <2>2, <3>2
      <4>2. k # 0 => g[k - 1] = f[k - 1]
        BY <2>2, <2>4
      <4> QED BY <2>3, <2>4, <4>1, <4>2
    <3> QED BY <3>1, <3>2
  <2>7. SolvesLevels(g, n)
    BY <2>5, <2>6 DEF SolvesLevels
  <2>8. n \in 0 .. N
    OBVIOUS
  <2> QED BY <2>7, <2>8
<1>3. N \in Holds
  <2> HIDE DEF Holds
  <2>1. 0 .. N \subseteq Holds
    BY <1>1, <1>2, UpTo
  <2> QED BY <2>1
<1> QED BY <1>3

\* What Unpruned is made of.
LEMMA UnprunedLevels ==
    \E f : /\ Unpruned = UNION {f[n] : n \in 1 .. MaxLegs}
           /\ f[0] = FirstLevel
           /\ \A n \in 1 .. MaxLegs : f[n] = NextLevel(f[n - 1])
<1> DEFINE f == CHOOSE g : SolvesLevels(g, MaxLegs)
<1>1. MaxLegs \in Nat /\ MaxLegs >= 3
  BY MaxTransfersAssumption DEF MaxLegs
<1>2. SolvesLevels(f, MaxLegs)
  BY <1>1, LevelsExist, Zenon
<1>3. Unpruned = UNION {f[n] : n \in 1 .. MaxLegs}
  BY DEF Unpruned, SolvesLevels, FirstLevel, NextLevel, StepsOf
<1> HIDE DEF f
<1>4. \A k \in 0 .. MaxLegs :
        f[k] = IF k = 0 THEN FirstLevel ELSE NextLevel(f[k - 1])
  BY <1>2 DEF SolvesLevels
<1>5. f[0] = FirstLevel
  BY <1>1, <1>4
<1>6. \A n \in 1 .. MaxLegs : f[n] = NextLevel(f[n - 1])
  BY <1>1, <1>4
<1> QED BY <1>3, <1>5, <1>6

LEMMA StepIsExtension ==
    ASSUME NEW b
    PROVE  StepsOf(b) = {Extended(b, l) :
                         l \in {k \in Successors(b) : ~Revisits(b, k)}}
BY DEF StepsOf, Extended

\* The feet a prefix may get to, past the origin.
Targets ==
    UNION {From(network, Go(Foot(Root), l)) : l \in Onward(network, Foot(Root))}

LEMMA TargetsGoOn ==
    ASSUME SafeLegs(network), NEW f \in Targets
    PROVE  /\ f \in Feet /\ Proper(network, f) /\ From(network, f) \subseteq Targets
<1>1. PICK l \in Onward(network, Foot(Root)) :
        f \in From(network, Go(Foot(Root), l))
  BY DEF Targets
<1>2. Foot(Root) \in Feet /\ Proper(network, Foot(Root))
  BY RootFoot DEF Proper, AtRoot
<1>3. Go(Foot(Root), l) \in Feet /\ Proper(network, Go(Foot(Root), l))
  BY <1>2, StepStaysProper
<1>4. f \in Feet /\ Proper(network, f)
  BY <1>1, <1>3, FromIsProper
<1>5. From(network, f) \subseteq From(network, Go(Foot(Root), l))
  BY <1>1, FromFrom
<1> QED BY <1>4, <1>5 DEF Targets

LEMMA UnprunedAreTargets ==
    ASSUME SafeLegs(network)
    PROVE  \A b \in Unpruned : Foot(b) \in Targets
<1>1. PICK f : /\ Unpruned = UNION {f[n] : n \in 1 .. MaxLegs}
               /\ f[0] = FirstLevel
               /\ \A n \in 1 .. MaxLegs : f[n] = NextLevel(f[n - 1])
  BY UnprunedLevels
<1>2. MaxLegs \in Nat
  BY MaxTransfersAssumption DEF MaxLegs
<1> DEFINE Good(b) == Foot(b) \in Targets
           Holds == {n \in 0 .. MaxLegs : n # 0 => \A b \in f[n] : Good(b)}
<1>3. 0 \in Holds
  BY <1>2
<1>4. ASSUME NEW n \in 1 .. MaxLegs, n - 1 \in Holds
      PROVE  n \in Holds
  <2> SUFFICES ASSUME NEW b \in f[n]
               PROVE  Good(b)
    BY <1>2
  <2>1. PICK a \in f[n - 1] : \E l \in Successors(a) : b = Extended(a, l)
    BY <1>1, StepIsExtension DEF NextLevel
  <2> PICK l \in Successors(a) : b = Extended(a, l)
    BY <2>1
  <2>2. Foot(b) = Go(Foot(a), l) /\ l \in Onward(network, Foot(a))
    BY ExtendedFoot, SuccessorsGoOnward
  <2>3. CASE n = 1
    <3>1. Foot(a) = Foot(Root)
      <4>1. n - 1 = 0
        BY <2>3
      <4>2. a \in FirstLevel
        BY <1>1, <2>1, <4>1, Zenon
      <4>3. FirstLevel = {Bare(Root)}
        BY DEF FirstLevel, Bare, Root
      <4>4. Foot(Bare(Root)) = Foot(Root)
        BY RootFoot DEF Foot, Bare, Root
      <4> QED BY <4>2, <4>3, <4>4
    <3>2. Foot(Root) \in Feet /\ Proper(network, Foot(Root))
      BY RootFoot DEF Proper, AtRoot
    <3>3. Go(Foot(Root), l) \in Feet
      BY <2>2, <3>1, <3>2, StepStaysProper
    <3> QED BY <2>2, <3>1, <3>3, FromItself DEF Targets
  <2>4. CASE n # 1
    <3>1. Good(a)
      BY <1>4, <2>1, <2>4
    <3>2. Foot(a) \in Feet /\ Proper(network, Foot(a))
          /\ From(network, Foot(a)) \subseteq Targets
      BY <3>1, TargetsGoOn
    <3>3. Go(Foot(a), l) \in From(network, Foot(a))
      BY <2>2, <3>2, FromItself, FromIsProper
    <3> QED BY <2>2, <3>2, <3>3
  <2> QED BY <2>3, <2>4
<1>5. 0 .. MaxLegs \subseteq Holds
  <2> HIDE DEF Holds
  <2> QED BY <1>2, <1>3, <1>4, UpTo
<1> QED BY <1>1, <1>2, <1>5

LEMMA SoundIsUnpruned ==
    ASSUME labels \in Seq(LabelType), Forest(labels), SafeLegs(network),
           NEW H, Allocated(H), NEW l \in 0 .. Len(labels),
           NEW leg \in Successors(At(H, l)), ~Revisits(At(H, l), leg)
    PROVE  Extended(At(H, l), leg) \in Unpruned
<1>1. PICK f : /\ Unpruned = UNION {f[n] : n \in 1 .. MaxLegs}
               /\ f[0] = FirstLevel
               /\ \A n \in 1 .. MaxLegs : f[n] = NextLevel(f[n - 1])
  BY UnprunedLevels
<1>2. MaxLegs \in Nat /\ MaxTransfers \in Nat
      /\ MaxTransfers + 3 <= MaxLegs
  BY MaxTransfersAssumption DEF MaxLegs
<1> DEFINE D(p) == Len(p.path)
<1>3. ASSUME NEW k \in 0 .. Len(labels)
      PROVE  Wellformed(At(H, k)) /\ D(At(H, k)) \in Nat
  <2>1. Wellformed(At(H, k))
    <3>1. CASE k = None
      BY <3>1, RootWellformed DEF At
    <3>2. CASE k # None
      <4>1. k \in DOMAIN labels
        BY <3>2 DEF None
      <4> QED BY <3>2, <4>1, AllSound DEF At, Sound
    <3> QED BY <3>1, <3>2
  <2> QED BY <2>1 DEF Wellformed
<1>4. ASSUME NEW k \in 0 .. Len(labels), NEW e \in Successors(At(H, k)),
             ~Revisits(At(H, k), e), At(H, k) \in f[D(At(H, k))]
      PROVE  /\ D(Extended(At(H, k), e)) \in 1 .. MaxLegs
             /\ Extended(At(H, k), e) \in f[D(Extended(At(H, k), e))]
  <2> DEFINE p == At(H, k)
             q == Extended(p, e)
  <2>1. Wellformed(p) /\ D(p) \in Nat
    BY <1>3
  <2>2. Wellformed(q) /\ ~AtRoot(Foot(q)) /\ q.m.nt <= MaxTransfers
    BY <2>1, ExtendedWellformed
  <2>3. D(q) = D(p) + 1
    BY <2>1 DEF Extended, Wellformed
  <2>4. D(q) <= MaxTransfers + 3
    <3>1. /\ Foot(q).phase \in Phases /\ Foot(q).m.nt \in Nat
          /\ Foot(q).m = q.m /\ D(q) = DepthOf(Foot(q))
          /\ Proper(network, Foot(q))
      BY <2>2, FootFields DEF Wellformed, Foot
    <3>2. Foot(q).phase \in {"BeforeFirstBoarding", "AfterTimedRide", "Completed"}
      BY <2>2, <3>1 DEF Proper, Walked, Rode, Arrived
    <3> HIDE DEF D, q
    <3>3. CASE Foot(q).phase = "BeforeFirstBoarding"
      BY <1>2, <3>1, <3>3 DEF DepthOf
    <3>4. CASE Foot(q).phase = "AfterTimedRide"
      <4>1. D(q) = Foot(q).m.nt + 2
        BY <3>1, <3>4 DEF DepthOf
      <4> QED BY <1>2, <2>2, <3>1, <4>1
    <3>5. CASE Foot(q).phase = "Completed"
      <4>1. D(q) = Foot(q).m.nt + 3
        BY <3>1, <3>5 DEF DepthOf
      <4> QED BY <1>2, <2>2, <3>1, <4>1
    <3> QED BY <3>2, <3>3, <3>4, <3>5
  <2>5. D(q) \in 1 .. MaxLegs
    BY <1>2, <2>1, <2>3, <2>4
  <2>6. f[D(q)] = NextLevel(f[D(p)])
    BY <1>1, <2>1, <2>3, <2>5
  <2>7. q \in StepsOf(p)
    BY <1>4, StepIsExtension
  <2> QED BY <1>4, <2>5, <2>6, <2>7 DEF NextLevel
<1> DEFINE T == {k \in 0 .. Len(labels) : At(H, k) \notin f[D(At(H, k))]}
<1>5. T = {}
  <2> SUFFICES ASSUME T # {}
               PROVE  FALSE
    OBVIOUS
  <2>1. PICK k \in T : \A j \in T : k <= j
    <3>1. T \in SUBSET Nat
      OBVIOUS
    <3> HIDE DEF T
    <3> QED BY <3>1, LeastNumber
  <2>2. CASE k = None
    <3>1. At(H, k) \in FirstLevel /\ D(At(H, k)) = 0
      BY <2>2 DEF At, Bare, Root, FirstLevel
    <3> QED BY <1>1, <2>1, <3>1
  <2>3. CASE k # None
    <3> DEFINE j == labels[k].parent
    <3>1. k \in DOMAIN labels /\ j \in 0 .. k - 1 /\ j \in 0 .. Len(labels)
      BY <2>1, <2>3 DEF Forest, None
    <3>2. At(H, j) \in f[D(At(H, j))]
      BY <2>1, <3>1
    <3>3. PICK e \in Successors(At(H, j)) :
            ~Revisits(At(H, j), e) /\ H[k] = Extended(At(H, j), e)
      BY <3>1 DEF Allocated
    <3>4. H[k] \in f[D(H[k])]
      BY <1>4, <3>1, <3>2, <3>3
    <3> QED BY <2>1, <2>3, <3>4 DEF At
  <2> QED BY <2>2, <2>3
<1>6. At(H, l) \in f[D(At(H, l))]
  BY <1>5
<1> QED BY <1>1, <1>4, <1>6

------------------------------------------------------------------------------
\* Where no two prefixes at a node are beyond the tolerances of one another,
\* none is beyond those of a summary.
LEMMA SummaryTolerates ==
    ASSUME NEW entries \in Seq(Entry), entries # <<>>, NEW m \in EntryMetrics,
           \A e \in Range(entries) : WithinTolerance(Improved({}, e.m), m)
    PROVE  WithinTolerance(Summary(entries), m)
<1> DEFINE I(x) == m.imp <= Tolerances.imp_mult * x + Tolerances.imp_add
           J(x) == m.jt <= Tolerances.jt_mult * x + Tolerances.jt_add
           K(x) == m.nt <= Tolerances.nt_mult * x + Tolerances.nt_add
<1>1. \A e \in Range(entries) :
        m.nt <= MaxTransfers /\ I(e.m.imp) /\ J(e.m.jt) /\ K(e.m.nt)
  <2> SUFFICES ASSUME NEW e \in Range(entries)
               PROVE  m.nt <= MaxTransfers /\ I(e.m.imp) /\ J(e.m.jt) /\ K(e.m.nt)
    OBVIOUS
  <2> DEFINE s == [imp |-> e.m.imp, jt |-> e.m.jt, nt |-> e.m.nt]
  <2>1. Improved({}, e.m) = {s}
    BY DEF Improved
  <2>2. m.nt <= MaxTransfers /\ I(s.imp) /\ J(s.jt) /\ K(s.nt)
    BY <2>1, Zenon DEF WithinTolerance
  <2>3. s.imp = e.m.imp /\ s.jt = e.m.jt /\ s.nt = e.m.nt
    OBVIOUS
  <2> HIDE DEF s
  <2> QED BY <2>2, <2>3, Zenon
<1>2. \E e \in Range(entries) : e = entries[1]
  BY DEF Range
<1>3. /\ Imps(entries) \in SUBSET Nat /\ Imps(entries) # {}
      /\ Jts(entries) \in SUBSET Nat /\ Jts(entries) # {}
      /\ Nts(entries) \in SUBSET Nat /\ Nts(entries) # {}
  <2>1. \A e \in Range(entries) :
          e.m.imp \in Nat /\ e.m.jt \in Nat /\ e.m.nt \in Nat
    BY EntryFields DEF Range
  <2>2. PICK e \in Range(entries) : e = entries[1]
    BY <1>2
  <2>3. Imps(entries) # {} /\ Jts(entries) # {} /\ Nts(entries) # {}
    <3>1. e.m.imp \in Imps(entries)
      BY ValuesOfRange
    <3>2. e.m.jt \in Jts(entries)
      BY ValuesOfRange
    <3>3. e.m.nt \in Nts(entries)
      BY ValuesOfRange
    <3> QED BY <3>1, <3>2, <3>3
  <2>4. Imps(entries) \in SUBSET Nat
    BY <2>1, ValuesOfRange
  <2>5. Jts(entries) \in SUBSET Nat
    BY <2>1, ValuesOfRange
  <2>6. Nts(entries) \in SUBSET Nat
    BY <2>1, ValuesOfRange
  <2> QED BY <2>3, <2>4, <2>5, <2>6
<1>4. I(Min(Imps(entries))) /\ J(Min(Jts(entries))) /\ K(Min(Nts(entries)))
  <2>1. PICK e \in Range(entries) : e.m.imp = Min(Imps(entries))
    BY <1>3, MinIsLeast, ValuesOfRange
  <2>2. PICK f \in Range(entries) : f.m.jt = Min(Jts(entries))
    BY <1>3, MinIsLeast, ValuesOfRange
  <2>3. PICK g \in Range(entries) : g.m.nt = Min(Nts(entries))
    BY <1>3, MinIsLeast, ValuesOfRange
  <2>4. I(e.m.imp) /\ J(f.m.jt) /\ K(g.m.nt)
    BY <1>1
  <2> QED BY <2>1, <2>2, <2>3, <2>4, Zenon
<1> DEFINE t == [imp |-> Min(Imps(entries)), jt |-> Min(Jts(entries)),
                 nt |-> Min(Nts(entries))]
<1>5. Summary(entries) = {t} /\ t.imp = Min(Imps(entries))
      /\ t.jt = Min(Jts(entries)) /\ t.nt = Min(Nts(entries))
  BY SummaryIsMinima
<1> HIDE DEF t
<1>6. I(t.imp) /\ J(t.jt) /\ K(t.nt) /\ m.nt <= MaxTransfers
  BY <1>1, <1>2, <1>4, <1>5, Zenon
<1> QED BY <1>5, <1>6, Zenon DEF WithinTolerance

\* What is safe depends on the supply alone, which no step changes.
UnprunedOf(N) ==
    LET onward(b) == {leg \in N :
            /\ leg.from = b.node
            /\ \/ leg.kind = "walk" /\ WalkAdmitted(b, leg)
               \/ leg.kind = "ride" /\ RideAdmitted(b, leg)}
        step(b) == {[node |-> l.to, phase |-> NextPhase(b, l),
                     path |-> Append(b.path, l), m |-> Extend(b.m, l)] :
                    l \in {k \in onward(b) : ~Revisits(b, k)}}
        level[n \in 0 .. MaxLegs] ==
            IF n = 0 THEN {[node |-> Origin, phase |-> "AtOrigin",
                            path |-> <<>>, m |-> Root.m]}
            ELSE UNION {step(b) : b \in level[n - 1]}
    IN  UNION {level[n] : n \in 1 .. MaxLegs}

SafeFor(N, pruned) ==
    LET walks == {l \in N : l.kind = "walk"}
        rides == {l \in N : l.kind = "ride"}
    IN  /\ \A w \in walks :
            /\ w.from \in Stops => w.to \notin Stops
            /\ w.from = Origin => \A t \in TimeDomain : w.time < t
        /\ \A r, l \in rides :
            /\ <<r, l>> \notin Barred
            /\ r.to = l.from => l.dep - r.arr <= MaxWait
        /\ \/ WaitWeight = 0
           \/ WaitWeight = 1 /\ WalkWeight = 1 /\ \A r \in rides : r.fare = 0
        /\ \A b, c \in pruned :
            b.node = c.node =>
                WithinTolerance(Improved({}, Metrics(c.m)), Metrics(b.m))

LEMMA UnprunedSame ==
    ASSUME UNCHANGED network
    PROVE  Unpruned' = Unpruned
<1>1. Unpruned = UnprunedOf(network)
  BY DEF Unpruned, UnprunedOf, Successors
<1>2. Unpruned' = UnprunedOf(network')
  BY DEF Unpruned, UnprunedOf, Successors
<1> QED BY <1>1, <1>2

LEMMA SafetySame ==
    ASSUME UNCHANGED network
    PROVE  DominanceSafe' <=> DominanceSafe
<1>1. DominanceSafe = SafeFor(network, Unpruned)
  BY DEF DominanceSafe, SafeFor
<1>2. DominanceSafe' = SafeFor(network', Unpruned')
  BY DEF DominanceSafe, SafeFor
<1> QED BY <1>1, <1>2, UnprunedSame

LEMMA SafetyOfLegs ==
    ASSUME network \in Networks, DominanceSafe
    PROVE  SafeLegs(network)
<1>1. network \in SUBSET Legs
  BY DEF Legs
<1> QED BY <1>1 DEF SafeLegs, DominanceSafe

LEMMA SuccessorsSame ==
    ASSUME UNCHANGED network
    PROVE  \A b : Successors(b)' = Successors(b)
BY DEF Successors

------------------------------------------------------------------------------
(***************************************************************************)
(* What the steps do to the history.                                       *)
(***************************************************************************)
LEMMA HistoryFields ==
    ASSUME NEW H, History(H), Typing, Labelled
    PROVE  /\ DOMAIN H = DOMAIN labels /\ DOMAIN labels = 1 .. Len(labels)
           /\ \A l \in DOMAIN labels : H[l] \in Prefix /\ H[l].node \in Nodes
                                       /\ H[l].m \in Riding
           /\ \A i \in DOMAIN branches :
                /\ branches[i].label \in 0 .. Len(labels)
                /\ branches[i].label # None =>
                     /\ branches[i].label \in DOMAIN labels
                     /\ Bare(branches[i]) = H[branches[i].label]
<1>1. DOMAIN H = DOMAIN labels /\ DOMAIN labels = 1 .. Len(labels)
  BY DEF History, Typing
<1>2. \A l \in DOMAIN labels : H[l] \in Prefix
  BY <1>1 DEF History
<1>3. \A i \in DOMAIN branches :
        /\ branches[i].label \in 0 .. Len(labels)
        /\ Bare(branches[i]) = At(H, branches[i].label)
  BY DEF History, Labelled
<1>4. \A l \in 0 .. Len(labels) :
        l # None => l \in 1 .. Len(labels) /\ At(H, l) = H[l]
  BY DEF None, At
<1> QED BY <1>1, <1>2, <1>3, <1>4 DEF Prefix

LEMMA BareFacts ==
    ASSUME NEW b
    PROVE  /\ Foot(Bare(b)) = Foot(b) /\ Bare(b).path = b.path /\ Bare(b).m = b.m
           /\ Bare(b).node = b.node /\ Bare(b).phase = b.phase
           /\ Successors(Bare(b)) = Successors(b)
           /\ \A l : Revisits(Bare(b), l) <=> Revisits(b, l)
           /\ \A l : Extended(Bare(b), l)
                       = [node |-> l.to, phase |-> NextPhase(b, l),
                          path |-> Append(b.path, l), m |-> Extend(b.m, l)]
<1>1. /\ Bare(b).path = b.path /\ Bare(b).m = b.m
      /\ Bare(b).node = b.node /\ Bare(b).phase = b.phase
  BY DEF Bare
<1> QED BY <1>1 DEF Foot, Successors, WalkAdmitted, RideAdmitted, LastRide,
                    Revisits, Visited, Occurrences, Extended, NextPhase

\* No label is allocated, no branch appended, and no entry lost that is alive.
LEMMA HistoryStays ==
    ASSUME NEW H, History(H), Typing, Labelled,
           UNCHANGED <<network, branches, labels>>,
           \A y \in Nodes :
               /\ Range(sets'[y]) \subseteq Range(sets[y])
               /\ \A e \in Range(sets[y]) : Active(e.label) => e \in Range(sets'[y])
    PROVE  History(H)'
<1>1. Allocated(H)'
  <2>1. \A b : Successors(b)' = Successors(b)
    BY SuccessorsSame
  <2>2. labels' = labels
    OBVIOUS
  <2> QED BY <2>1, <2>2 DEF History, Allocated
<1>2. H \in Seq(Prefix) /\ (Len(H) = Len(labels))'
  BY DEF History
<1>3. (\A i \in DOMAIN branches : Bare(branches[i]) = At(H, branches[i].label))'
  BY DEF History
<1>4. \A y \in Nodes : \A e \in Range(sets'[y]) :
        H[e.label].node = y /\ e.m = Metrics(H[e.label].m)
  BY DEF History
<1>5. ASSUME NEW l \in DOMAIN labels, Active(l)
      PROVE  /\ \E e \in Range(sets'[H[l].node]) : e.label = l
             /\ H[l].node \in Stops =>
                  \E i \in DOMAIN branches : branches[i].label = l
  <2>1. PICK e \in Range(sets[H[l].node]) : e.label = l
    BY <1>5 DEF History
  <2>2. H[l].node \in Nodes
    BY HistoryFields
  <2> QED BY <1>5, <2>1, <2>2 DEF History
<1>6. \A l : Active(l)' <=> Active(l)
  BY DEF Active
<1>7. (\A l \in DOMAIN labels : Active(l) =>
         /\ \E e \in Range(sets[H[l].node]) : e.label = l
         /\ H[l].node \in Stops => \E i \in DOMAIN branches : branches[i].label = l)'
  BY <1>5, <1>6
<1> QED BY <1>1, <1>2, <1>3, <1>4, <1>7 DEF History

\* What an insertion leaves, and what it turns out.
LEMMA InsertedRange ==
    ASSUME NEW entries \in Seq(Entry), Ordered(entries),
           NEW m \in EntryMetrics, NEW label \in Nat
    PROVE  /\ [m |-> m, label |-> label] \in Range(Insert(entries, m, label))
           /\ \A e \in Range(entries) :
                \/ e \in Range(Insert(entries, m, label))
                \/ e.label \in DominatedLabels(entries, m)
<1> DEFINE r == Insert(entries, m, label)
<1>1. PICK k, from : IsInsertion(entries, m, label, r, k, from)
  BY InsertPlaces
<1> HIDE DEF r
<1>2. r \in Seq(Entry) /\ DOMAIN r = 1 .. Len(r) /\ DOMAIN entries = 1 .. Len(entries)
      /\ k + 1 \in DOMAIN r
  BY <1>1 DEF IsInsertion
<1>3. [m |-> m, label |-> label] \in Range(r)
  BY <1>1, <1>2 DEF IsInsertion, Range
<1>4. ASSUME NEW n \in DOMAIN entries
      PROVE  \/ entries[n] \in Range(r)
             \/ entries[n].label \in DominatedLabels(entries, m)
  <2>1. CASE entries[n].m.arr < m.arr \/ ~Dominates(m, entries[n].m)
    <3>1. PICK i \in 1 .. Len(r) : i # k + 1 /\ from[i] = n
      BY <1>1, <1>2, <2>1 DEF IsInsertion
    <3>2. r[i] = entries[n]
      BY <1>1, <3>1 DEF IsInsertion
    <3> QED BY <1>2, <3>2 DEF Range
  <2>2. CASE ~(entries[n].m.arr < m.arr) /\ Dominates(m, entries[n].m)
    <3>1. n > Earlier(entries, m)
      <4>1. Earlier(entries, m) \in Nat /\ n \in Nat
            /\ ~(n <= Earlier(entries, m))
        BY <1>2, <2>2, EarlierIsPrefix
      <4> QED BY <4>1
    <3> QED BY <2>2, <3>1 DEF DominatedLabels
  <2> QED BY <2>1, <2>2
<1> QED BY <1>3, <1>4 DEF Range, r

LEMMA AcceptedEntries ==
    ASSUME IInv, NEW leg \in todo, Visiting(leg), Wanted(leg),
           NEW c, AcceptedAs(leg, c)
    PROVE  /\ [m |-> Metrics(Reached(leg)), label |-> NewLabel]
                \in Range(sets'[leg.to])
           /\ \A y \in Nodes : \A e \in Range(sets[y]) :
                Active(e.label) /\ ActiveIn(labels', e.label)
                  => e \in Range(sets'[y])
<1> DEFINE y == leg.to
           m == Metrics(Reached(leg))
           old == Fresh(y)
           new == Insert(old, m, NewLabel)
<1>1. y \in Nodes
  BY LegInHand
<1>2. /\ old \in Seq(Entry) /\ Ordered(old)
      /\ Range(old) = {e \in Range(sets[y]) : Active(e.label)}
  BY <1>1, FreshFacts DEF IInv, Kernel
<1>3. m \in EntryMetrics /\ NewLabel \in Nat
  BY CandidateFacts
<1>4. sets'[y] = new /\ \A z \in Nodes \ {y} : sets'[z] = sets[z]
  BY <1>1 DEF IInv, Typing, AcceptedAs
<1>5. /\ [m |-> m, label |-> NewLabel] \in Range(new)
      /\ \A e \in Range(old) : e \in Range(new) \/ e.label \in TurnedOut(leg)
  <2> HIDE DEF m, old
  <2>1. /\ [m |-> m, label |-> NewLabel] \in Range(new)
        /\ \A e \in Range(old) :
             e \in Range(new) \/ e.label \in DominatedLabels(old, m)
    BY <1>2, <1>3, InsertedRange
  <2> QED BY <2>1 DEF TurnedOut, m, old
<1> HIDE DEF m, old, new
<1>6. ASSUME NEW z \in Nodes, NEW e \in Range(sets[z]),
             Active(e.label), ActiveIn(labels', e.label)
      PROVE  e \in Range(sets'[z])
  <2>1. e.label \in DOMAIN labels /\ DOMAIN labels = 1 .. Len(labels)
    BY <1>6 DEF IInv, Labelled, Typing
  <2>2. labels'[e.label].active
    <3>1. labels' \in Seq(LabelType) /\ Forest(labels')
          /\ Len(labels') = Len(labels) + 1 /\ Len(labels) \in Nat
      BY AcceptedLabels DEF IInv, Typing
    <3>2. e.label \in 1 .. Len(labels')
      BY <2>1, <3>1
    <3> QED BY <1>6, <3>1, <3>2, ActiveUnfolds
  <2>3. e.label \notin TurnedOut(leg)
    BY <2>1, <2>2, AcceptedLabels
  <2> QED BY <1>2, <1>4, <1>5, <1>6, <2>3
<1> QED BY <1>4, <1>5, <1>6 DEF m

\* The prefix of the candidate.
NewPrefix(leg) == Extended(Bare(Branch), leg)

LEMMA NewPrefixFacts ==
    ASSUME IInv, NEW leg \in todo, Visiting(leg), Wanted(leg),
           SafeLegs(network), NEW H, History(H)
    PROVE  /\ NewPrefix(leg) \in Prefix /\ NewPrefix(leg) = Bare(NewBranch(leg))
           /\ NewPrefix(leg).node = leg.to /\ NewPrefix(leg).m = Reached(leg)
           /\ Bare(Branch) = At(H, Branch.label) /\ Branch.label \in 0 .. Len(labels)
           /\ leg \in Successors(Bare(Branch)) /\ ~Revisits(Bare(Branch), leg)
<1>1. expanding \in DOMAIN branches /\ leg \in Successors(Branch)
  BY LegInHand
<1>2. Bare(Branch) = At(H, Branch.label) /\ Branch.label \in 0 .. Len(labels)
  BY <1>1 DEF IInv, Labelled, History, Branch
<1>3. leg \in Successors(Bare(Branch)) /\ ~Revisits(Bare(Branch), leg)
  BY <1>1, BareFacts DEF Wanted, Barren
<1>4. NewPrefix(leg) = Bare(NewBranch(leg))
  <2>1. NewPrefix(leg) = [node |-> leg.to, phase |-> NextPhase(Branch, leg),
                          path |-> Append(Branch.path, leg),
                          m |-> Extend(Branch.m, leg)]
    BY BareFacts DEF NewPrefix
  <2> QED BY <2>1 DEF NewBranch, Candidate, Bare
<1>5. NewBranch(leg) \in BranchType
  BY CandidateFacts
<1>6. Bare(NewBranch(leg)) \in Prefix
  BY <1>5 DEF BranchType, Prefix, Bare
<1>7. NewPrefix(leg).node = leg.to /\ NewPrefix(leg).m = Reached(leg)
  BY <1>4, NewBranchFields DEF Bare
<1> QED BY <1>2, <1>3, <1>4, <1>6, <1>7

LEMMA HistoryGrows ==
    ASSUME IInv, NEW leg \in todo, Visiting(leg), Wanted(leg),
           SafeLegs(network), NEW c, AcceptedAs(leg, c), state' # "failing",
           NEW H, History(H), NEW K, K = Append(H, NewPrefix(leg))
    PROVE  History(K)'
<1> DEFINE q == NewPrefix(leg)
<1>0. Typing /\ Labelled /\ UNCHANGED network
  BY DEF IInv, AcceptedAs
<1>1. /\ q \in Prefix /\ q = Bare(NewBranch(leg))
      /\ q.node = leg.to /\ q.m = Reached(leg)
      /\ Bare(Branch) = At(H, Branch.label) /\ Branch.label \in 0 .. Len(labels)
      /\ leg \in Successors(Bare(Branch)) /\ ~Revisits(Bare(Branch), leg)
      /\ q = Extended(Bare(Branch), leg)
  BY NewPrefixFacts DEF NewPrefix
<1> HIDE DEF q
<1>2. /\ H \in Seq(Prefix) /\ Len(H) = Len(labels) /\ DOMAIN H = DOMAIN labels
      /\ DOMAIN labels = 1 .. Len(labels) /\ Len(labels) \in Nat
      /\ \A l \in DOMAIN labels : H[l].node \in Nodes
  <2>1. H \in Seq(Prefix) /\ Len(H) = Len(labels)
    BY DEF History
  <2>2. Len(labels) \in Nat
    BY <1>0 DEF Typing
  <2> QED BY <1>0, <2>1, <2>2, HistoryFields
<1>3. /\ labels' \in Seq(LabelType) /\ Forest(labels')
      /\ Len(labels') = Len(labels) + 1 /\ DOMAIN labels' = 1 .. Len(labels')
      /\ labels'[NewLabel].parent = Branch.label
      /\ \A l \in 1 .. Len(labels) : labels'[l].parent = labels[l].parent
      /\ \A l \in 0 .. Len(labels) : ActiveIn(labels', l) => Active(l)
      /\ NewLabel = Len(labels) + 1
  BY AcceptedLabels DEF NewLabel, Active
<1>4. /\ K \in Seq(Prefix) /\ Len(K) = Len(labels')
      /\ K[NewLabel] = q /\ \A l \in DOMAIN labels : K[l] = H[l]
  BY <1>1, <1>2, <1>3 DEF q
<1>5. \A l \in 0 .. Len(labels) : At(K, l) = At(H, l)
  BY <1>2, <1>4 DEF At, None
<1>6. Allocated(K)'
  <2>1. \A b : Successors(b)' = Successors(b)
    BY <1>0, SuccessorsSame
  <2>2. ASSUME NEW l \in DOMAIN labels'
        PROVE  \E e \in Successors(At(K, labels'[l].parent)) :
                  /\ ~Revisits(At(K, labels'[l].parent), e)
                  /\ K[l] = Extended(At(K, labels'[l].parent), e)
    <3>1. CASE l = NewLabel
      <4>1. At(K, labels'[l].parent) = Bare(Branch)
        BY <1>1, <1>3, <1>5, <3>1
      <4> QED BY <1>1, <1>4, <3>1, <4>1
    <3>2. CASE l # NewLabel
      <4>1. l \in DOMAIN labels /\ l \in 1 .. Len(labels)
        BY <1>2, <1>3, <3>2
      <4>2. labels[l].parent \in 0 .. Len(labels)
        BY <1>0, <1>2, <4>1 DEF Labelled, Forest
      <4>3. At(K, labels'[l].parent) = At(H, labels[l].parent) /\ K[l] = H[l]
        BY <1>3, <1>4, <1>5, <4>1, <4>2
      <4>4. \E e \in Successors(At(H, labels[l].parent)) :
              /\ ~Revisits(At(H, labels[l].parent), e)
              /\ H[l] = Extended(At(H, labels[l].parent), e)
        BY <4>1 DEF History, Allocated
      <4> QED BY <4>3, <4>4
    <3> QED BY <3>1, <3>2
  <2> QED BY <2>1, <2>2 DEF Allocated
<1>7. \A i \in DOMAIN branches' :
        Bare(branches'[i]) = At(K, branches'[i].label)
  <2> SUFFICES ASSUME NEW i \in DOMAIN branches'
               PROVE  Bare(branches'[i]) = At(K, branches'[i].label)
    OBVIOUS
  <2>1. \/ i \in DOMAIN branches /\ branches'[i] = branches[i]
        \/ branches'[i] = NewBranch(leg)
    BY AcceptedBranches
  <2>2. CASE i \in DOMAIN branches /\ branches'[i] = branches[i]
    BY <1>0, <1>5, <2>2 DEF Labelled, History
  <2>3. CASE branches'[i] = NewBranch(leg)
    <3>1. NewBranch(leg).label = NewLabel /\ NewLabel # None
      BY <1>2, <1>3, NewBranchFields DEF None
    <3> QED BY <1>1, <1>4, <2>3, <3>1 DEF At
  <2> QED BY <2>1, <2>2, <2>3
<1>8. \A y \in Nodes : \A e \in Range(sets'[y]) :
        K[e.label].node = y /\ e.m = Metrics(K[e.label].m)
  <2> SUFFICES ASSUME NEW y \in Nodes, NEW e \in Range(sets'[y])
               PROVE  K[e.label].node = y /\ e.m = Metrics(K[e.label].m)
    OBVIOUS
  <2>1. CASE e \in Range(sets[y]) /\ e.label \in DOMAIN labels
    BY <1>4, <2>1 DEF History
  <2>2. CASE y = leg.to /\ e = [m |-> Metrics(Reached(leg)), label |-> NewLabel]
    BY <1>1, <1>4, <2>2
  <2> QED BY <2>1, <2>2, AcceptedSets
<1>9. ASSUME NEW l \in DOMAIN labels', ActiveIn(labels', l)
      PROVE  /\ \E e \in Range(sets'[K[l].node]) : e.label = l
             /\ K[l].node \in Stops =>
                  \E i \in DOMAIN branches' : branches'[i].label = l
  <2>1. CASE l = NewLabel
    <3>1. K[l].node = leg.to
      BY <1>1, <1>4, <2>1
    <3>2. \E e \in Range(sets'[leg.to]) : e.label = l
      BY <2>1, AcceptedEntries
    <3>3. leg.to \in Stops => \E i \in DOMAIN branches' : branches'[i].label = l
      <4> SUFFICES ASSUME leg.to \in Stops
                   PROVE  \E i \in DOMAIN branches' : branches'[i].label = l
        OBVIOUS
      <4>1. JoinsNext(leg, c)
        BY DEF AcceptedAs, IsHandedOver, FailsTheCheck
      <4>2. branches' = Append(branches, NewBranch(leg)) /\ branches \in Seq(BranchType)
        BY <1>0, <4>1 DEF JoinsNext, Typing
      <4>3. Len(branches) + 1 \in DOMAIN branches'
            /\ branches'[Len(branches) + 1] = NewBranch(leg)
        <5>1. NewBranch(leg) \in BranchType
          BY CandidateFacts
        <5> QED BY <4>2, <5>1
      <4> QED BY <2>1, <4>3, NewBranchFields
    <3> QED BY <3>1, <3>2, <3>3
  <2>2. CASE l # NewLabel
    <3>1. l \in DOMAIN labels /\ l \in 0 .. Len(labels)
      BY <1>2, <1>3, <2>2
    <3>2. Active(l) /\ K[l] = H[l] /\ H[l].node \in Nodes
      BY <1>2, <1>3, <1>4, <1>9, <3>1
    <3>3. PICK e \in Range(sets[H[l].node]) : e.label = l
      BY <3>1, <3>2 DEF History
    <3>4. e \in Range(sets'[H[l].node])
      BY <1>9, <3>2, <3>3, AcceptedEntries
    <3>5. H[l].node \in Stops =>
            \E i \in DOMAIN branches : branches[i].label = l
      BY <3>1, <3>2 DEF History
    <3>6. \A i \in DOMAIN branches :
            i \in DOMAIN branches' /\ branches'[i] = branches[i]
      BY AcceptedBranches
    <3>7. H[l].node \in Stops =>
            \E i \in DOMAIN branches' : branches'[i].label = l
      BY <3>5, <3>6
    <3> QED BY <3>2, <3>3, <3>4, <3>7
  <2> QED BY <2>1, <2>2
<1>10. K \in Seq(Prefix) /\ (Len(K) = Len(labels))'
  BY <1>4
<1>11. (\A l \in DOMAIN labels : Active(l) =>
          /\ \E e \in Range(sets[K[l].node]) : e.label = l
          /\ K[l].node \in Stops => \E i \in DOMAIN branches : branches[i].label = l)'
  BY <1>9 DEF Active
<1> QED BY <1>6, <1>7, <1>8, <1>10, <1>11 DEF History

------------------------------------------------------------------------------
(***************************************************************************)
(* Nothing is lost as long as every foot a search without pruning would    *)
(* get to is held by an entry, or can still be got to, or past, by a       *)
(* successor somebody will try.                                            *)
(***************************************************************************)
Underway == Range(current) \cup Range(next) \cup ({expanding} \ {None})

\* A branch that was expanded and is alive is no deeper than those to come.
Shallow ==
    \A i \in released, j \in Underway :
        Active(branches[i].label) => Len(branches[i].path) <= Len(branches[j].path)

Held(u) ==
    \E e \in Range(sets[u.node]) : Active(e.label) /\ AsGood(e.m, Metrics(u.m))

Pending(i, l) ==
    /\ i \in DOMAIN branches /\ Active(branches[i].label)
    /\ l \in Onward(network, Foot(branches[i]))
    /\ \/ i \in Range(current) \cup Range(next)
       \/ state = "scan" /\ i = expanding /\ l \in todo

Reachable(i, l, u) ==
    \E h \in From(network, Go(Foot(branches[i]), l)) : Covers(h, u)

Promised(u) == Held(u) \/ \E i, l : Pending(i, l) /\ Reachable(i, l, u)

NoneLost ==
    \A u \in Targets : IF state = "exhausted" THEN Held(u) ELSE Promised(u)

SafeInv == Shallow /\ (\E H : History(H)) /\ NoneLost

LInv ==
    /\ IInv
    /\ DominanceSafe /\ state \notin {"failing", "stopped", "failed"} => SafeInv

LEMMA ShallowStays ==
    ASSUME IInv, Shallow,
           \A i \in DOMAIN branches :
               /\ branches'[i] = branches[i]
               /\ ActiveIn(labels', branches[i].label) => Active(branches[i].label),
           \A i \in released' :
               \/ i \in released
               \/ /\ i \in DOMAIN branches
                  /\ ~ActiveIn(labels', branches[i].label),
           \A j \in Underway' :
               \/ j \in Underway
               \/ /\ Len(branches'[j].path) \in Nat
                  /\ \E k \in Underway :
                       Len(branches'[j].path) >= Len(branches[k].path)
    PROVE  Shallow'
<1>1. /\ released \subseteq DOMAIN branches /\ Underway \subseteq DOMAIN branches
      /\ \A i \in DOMAIN branches : Len(branches[i].path) \in Nat
  BY DEF IInv, Typing, Queued, Expanding, Underway, BranchType
<1> SUFFICES ASSUME NEW i \in released', NEW j \in Underway',
                    ActiveIn(labels', branches'[i].label)
             PROVE  Len(branches'[i].path) <= Len(branches'[j].path)
  BY DEF Shallow, Active
<1>2. i \in released /\ i \in DOMAIN branches
  BY <1>1
<1>3. branches'[i] = branches[i] /\ Active(branches[i].label)
  BY <1>2
<1>4. \A k \in Underway : Len(branches[i].path) <= Len(branches[k].path)
  BY <1>2, <1>3 DEF Shallow
<1>5. CASE j \in Underway
  BY <1>1, <1>3, <1>4, <1>5
<1>6. CASE j \notin Underway
  <2>1. PICK k \in Underway :
          /\ Len(branches'[j].path) \in Nat
          /\ Len(branches'[j].path) >= Len(branches[k].path)
    BY <1>6
  <2>2. Len(branches[i].path) <= Len(branches[k].path)
        /\ Len(branches[i].path) \in Nat /\ Len(branches[k].path) \in Nat
    BY <1>1, <1>2, <1>4
  <2> QED BY <1>3, <2>1, <2>2
<1> QED BY <1>5, <1>6

LEMMA MetricsOfFeet ==
    ASSUME NEW f \in Feet
    PROVE  /\ Metrics(f.m).dep \in Int /\ Metrics(f.m).arr \in Nat
           /\ Metrics(f.m).nt \in Nat /\ Metrics(f.m).imp \in Nat
           /\ Metrics(f.m).nt = f.m.nt
<1>1. /\ f.m.dep \in Int /\ f.m.now \in Nat /\ f.m.access \in Nat
      /\ f.m.nt \in Nat /\ f.m.imp \in Nat
  BY FootFields
<1>2. /\ Metrics(f.m).dep = IF f.m.boarded THEN f.m.dep ELSE 0
      /\ Metrics(f.m).arr = IF f.m.boarded THEN f.m.now ELSE f.m.access
      /\ Metrics(f.m).nt = f.m.nt /\ Metrics(f.m).imp = f.m.imp
  BY DEF Metrics
<1> QED BY <1>1, <1>2

LEMMA CoveringChains ==
    ASSUME NEW f \in Feet, NEW g \in Feet, NEW h \in Feet,
           Covers(f, g), Covers(g, h)
    PROVE  Covers(f, h)
<1>1. \A x \in {f, g, h} :
        /\ Metrics(x.m).dep \in Int /\ Metrics(x.m).arr \in Nat
        /\ Metrics(x.m).nt \in Nat /\ Metrics(x.m).imp \in Nat
  BY MetricsOfFeet
<1> QED BY <1>1 DEF Covers, AsGood

LEMMA EntryCovers ==
    ASSUME NEW m \in EntryMetrics, NEW g \in Feet, NEW h \in Feet,
           AsGood(m, Metrics(g.m)), Covers(g, h)
    PROVE  AsGood(m, Metrics(h.m))
<1>1. \A x \in {g, h} :
        /\ Metrics(x.m).dep \in Int /\ Metrics(x.m).arr \in Nat
        /\ Metrics(x.m).nt \in Nat /\ Metrics(x.m).imp \in Nat
  BY MetricsOfFeet
<1>2. m.dep \in Int /\ m.arr \in Nat /\ m.nt \in Nat /\ m.imp \in Nat
  BY DEF EntryMetrics
<1> QED BY <1>1, <1>2 DEF Covers, AsGood

\* What is promised for a foot is promised for all it covers.
LEMMA PromiseCovers ==
    ASSUME sets' \in [Nodes -> Seq(Entry)], NEW k \in Feet, NEW u \in Feet,
           Covers(k, u), Promised(k)'
    PROVE  Promised(u)'
<1>1. CASE Held(k)'
  <2>1. PICK e \in Range(sets'[k.node]) :
          ActiveIn(labels', e.label) /\ AsGood(e.m, Metrics(k.m))
    BY <1>1 DEF Held, Active
  <2>2. sets'[k.node] \in Seq(Entry)
    BY FootFields
  <2>3. e.m \in EntryMetrics
    BY <2>2, EntryFields DEF Range
  <2>4. AsGood(e.m, Metrics(u.m)) /\ u.node = k.node
    BY <2>1, <2>3, EntryCovers DEF Covers
  <2>5. Held(u)'
    BY <2>1, <2>4 DEF Held, Active
  <2> QED BY <2>5 DEF Promised
<1>2. ASSUME NEW i, NEW l, Pending(i, l)', Reachable(i, l, k)'
      PROVE  Promised(u)'
  <2>1. PICK h \in From(network', Go(Foot(branches'[i]), l)) : Covers(h, k)
    BY <1>2 DEF Reachable
  <2>2. h \in Feet
    BY <2>1 DEF From
  <2>3. Covers(h, u)
    BY <2>1, <2>2, CoveringChains
  <2>4. Reachable(i, l, u)'
    BY <2>1, <2>3 DEF Reachable
  <2> QED BY <1>2, <2>4 DEF Promised
<1> QED BY <1>1, <1>2 DEF Promised

\* A promise is kept where no entry alive is lost and no successor to be tried
\* is forgotten.
LEMMA PromiseStays ==
    ASSUME UNCHANGED <<network, branches, labels>>,
           \A y \in Nodes : \A e \in Range(sets[y]) :
               Active(e.label) => e \in Range(sets'[y]),
           \A i, l : Pending(i, l) => Pending(i, l)',
           NEW u \in Feet, Promised(u)
    PROVE  Promised(u)'
<1>1. u.node \in Nodes
  BY FootFields
<1>2. Held(u) => Held(u)'
  BY <1>1 DEF Held, Active
<1>3. \A i, l : Reachable(i, l, u) => Reachable(i, l, u)'
  BY DEF Reachable
<1> QED BY <1>2, <1>3 DEF Promised

LEMMA BranchStands ==
    ASSUME Typing, Labelled, SafeLegs(network), NEW H, History(H),
           NEW i \in DOMAIN branches
    PROVE  /\ Wellformed(Bare(branches[i]))
           /\ Foot(branches[i]) \in Feet /\ Proper(network, Foot(branches[i]))
           /\ Len(branches[i].path) = DepthOf(Foot(branches[i]))
           /\ Successors(branches[i]) = Onward(network, Foot(branches[i]))
<1> DEFINE b == branches[i]
<1>1. Allocated(H) /\ labels \in Seq(LabelType) /\ Forest(labels)
  BY DEF History, Typing, Labelled
<1>2. Wellformed(Bare(b))
  <2>1. CASE b.label = None
    <3>1. Bare(b) = Bare(Root)
      BY <2>1 DEF History, At
    <3> QED BY <3>1, RootWellformed
  <2>2. CASE b.label # None
    <3>1. b.label \in DOMAIN labels /\ Bare(b) = H[b.label]
      BY <2>2, HistoryFields
    <3> QED BY <1>1, <3>1, AllSound DEF Sound
  <2> QED BY <2>1, <2>2
<1> HIDE DEF b
<1>3. /\ Foot(Bare(b)) = Foot(b) /\ Bare(b).path = b.path
      /\ Successors(Bare(b)) = Successors(b)
  BY BareFacts
<1>4. Successors(Bare(b)) = Onward(network, Foot(Bare(b)))
  BY <1>2, OnwardAreSuccessors
<1>5. Foot(b) \in Feet /\ Proper(network, Foot(b)) /\ Len(b.path) = DepthOf(Foot(b))
  BY <1>2, <1>3 DEF Wellformed
<1> QED BY <1>2, <1>3, <1>4, <1>5 DEF b

LEMMA TargetsSame ==
    ASSUME UNCHANGED network
    PROVE  Targets' = Targets
BY DEF Targets

\* Steps that allocate nothing, lose no entry alive and forget no successor.
LEMMA EasyStep ==
    ASSUME IInv, SafeInv, SafeLegs(network),
           UNCHANGED <<network, branches, labels>>,
           \A y \in Nodes :
               /\ Range(sets'[y]) \subseteq Range(sets[y])
               /\ \A e \in Range(sets[y]) : Active(e.label) => e \in Range(sets'[y]),
           Shallow', \A i, l : Pending(i, l) => Pending(i, l)',
           state' = "exhausted" => state = "exhausted"
    PROVE  SafeInv'
<1>1. \E H : History(H)'
  <2>1. PICK H : History(H)
    BY DEF SafeInv
  <2>2. History(H)'
    BY <2>1, HistoryStays DEF IInv
  <2> QED BY <2>2
<1>2. ASSUME NEW u \in Targets
      PROVE  IF state' = "exhausted" THEN Held(u)' ELSE Promised(u)'
  <2>1. u \in Feet /\ u.node \in Nodes
    BY TargetsGoOn, FootFields
  <2>2. CASE state' = "exhausted"
    <3>1. Held(u)
      BY <2>2 DEF SafeInv, NoneLost
    <3>2. Held(u)'
      BY <2>1, <3>1 DEF Held, Active
    <3> QED BY <2>2, <3>2
  <2>3. CASE state' # "exhausted"
    <3>1. Promised(u)
      BY DEF SafeInv, NoneLost, Promised
    <3>2. Promised(u)'
      BY <2>1, <3>1, PromiseStays
    <3> QED BY <2>3, <3>2
  <2> QED BY <2>2, <2>3
<1>3. NoneLost'
  BY <1>2, TargetsSame DEF NoneLost
<1> QED BY <1>1, <1>3 DEF SafeInv

\* Nothing that matters here changes.
LEMMA IdleKeepsSafe ==
    ASSUME IInv, SafeInv, SafeLegs(network),
           UNCHANGED <<network, state, arena, frontier, expanding, todo, cy>>
    PROVE  SafeInv'
<1>0. UNCHANGED <<network, branches, labels>> /\ sets' = sets /\ state' = state
      /\ released' = released /\ current' = current /\ next' = next
      /\ expanding' = expanding /\ todo' = todo
  BY DEF arena, frontier, cy
<1>1. Shallow'
  BY <1>0 DEF SafeInv, Shallow, Underway, Active
<1>2. \A i, l : Pending(i, l) => Pending(i, l)'
  BY <1>0 DEF Pending, Active
<1> QED BY <1>0, <1>1, <1>2, EasyStep

LEMMA AdvanceKeepsSafe ==
    ASSUME IInv, SafeInv, SafeLegs(network), AdvanceLevel
    PROVE  SafeInv'
<1> DEFINE c == Compacted(labels)
<1>1. /\ UNCHANGED <<network, branches, labels>> /\ sets' = sets
      /\ expanding' = expanding
      /\ state = "level" /\ state' \in {"level", "pop"}
      /\ current' = c.next /\ next' = c.current
      /\ released' = released \cup c.dropped
  BY DEF AdvanceLevel, cy
<1>2. expanding = None /\ expanding \in Nat
  BY <1>1 DEF IInv, Expanding, None
<1>3. Shrunk(c, labels)
  BY <1>1, <1>2, CompactionShrinks DEF IInv
<1> HIDE DEF c
<1>4. /\ Range(c.current) \subseteq Range(current)
      /\ Range(c.next) \subseteq Range(next)
      /\ c.dropped = (Range(current) \ Range(c.current))
                        \cup (Range(next) \ Range(c.next))
      /\ \A i \in c.dropped : ~Active(branches[i].label)
  BY <1>3 DEF Shrunk, Active
<1>5. Range(current) \cup Range(next) \subseteq DOMAIN branches
  BY DEF IInv, Queued
<1>6. Shallow'
  <2>1. \A i \in released' :
          \/ i \in released
          \/ i \in DOMAIN branches /\ ~ActiveIn(labels', branches[i].label)
    BY <1>1, <1>4, <1>5 DEF Active
  <2>2. Underway' \subseteq Underway
    BY <1>1, <1>4 DEF Underway
  <2>3. \A i \in DOMAIN branches :
          /\ branches'[i] = branches[i]
          /\ ActiveIn(labels', branches[i].label) => Active(branches[i].label)
    BY <1>1 DEF Active
  <2> QED BY <2>1, <2>2, <2>3, ShallowStays DEF SafeInv
<1>7. \A i, l : Pending(i, l) => Pending(i, l)'
  BY <1>1, <1>4 DEF Pending, Active
<1> QED BY <1>1, <1>6, <1>7, EasyStep

LEMMA PopKeepsSafe ==
    ASSUME IInv, SafeInv, SafeLegs(network), Pop, Destinations # {}
    PROVE  SafeInv'
<1> DEFINE h == Head(current)
           b == branches[h]
<1>1. /\ UNCHANGED <<network, branches, next, labels>> /\ sets' = sets
      /\ state \in {"pop", "level"} /\ state' \in {"scan", "level"}
      /\ current # <<>> /\ current' = Tail(current)
  BY DEF Pop, cy
<1>2. h \in Range(current) /\ Range(Tail(current)) = Range(current) \ {h}
  BY <1>1, TailFacts DEF IInv, Typing, Queued
<1>3. h \in DOMAIN branches /\ h # None /\ expanding = None
  BY <1>1, <1>2 DEF IInv, Queued, Typing, Expanding, None
<1>4. \/ /\ Active(b.label) /\ state' = "scan" /\ expanding' = h
         /\ todo' = Successors(b) /\ released' = released
      \/ /\ ~Active(b.label) /\ state' = "level" /\ expanding' = expanding
         /\ released' = released \cup {h}
  <2>1. ~(b.node \in Zones /\ b.m.boarded)
    BY <1>3, NodesAssumption DEF IInv, Labelled
  <2> QED BY <2>1 DEF Pop
<1>5. Successors(b) = Onward(network, Foot(b))
  <2>1. PICK H : History(H)
    BY DEF SafeInv
  <2> QED BY <1>3, <2>1, BranchStands DEF IInv
<1> HIDE DEF h, b
<1>6. Shallow'
  <2>1. \A i \in released' :
          \/ i \in released
          \/ i \in DOMAIN branches /\ ~ActiveIn(labels', branches[i].label)
    BY <1>1, <1>3, <1>4 DEF Active, b
  <2>2. Underway' \subseteq Underway
    BY <1>1, <1>2, <1>3, <1>4 DEF Underway
  <2>3. \A i \in DOMAIN branches :
          /\ branches'[i] = branches[i]
          /\ ActiveIn(labels', branches[i].label) => Active(branches[i].label)
    BY <1>1 DEF Active
  <2> QED BY <2>1, <2>2, <2>3, ShallowStays DEF SafeInv
<1>7. ASSUME NEW i, NEW l, Pending(i, l)
      PROVE  Pending(i, l)'
  <2>1. i \in Range(current) \cup Range(next)
    BY <1>1, <1>7 DEF Pending
  <2>2. CASE i \in Range(current') \cup Range(next')
    BY <1>1, <1>7, <2>2 DEF Pending, Active
  <2>3. CASE i = h
    BY <1>1, <1>4, <1>5, <1>7, <2>3 DEF Pending, Active, b
  <2> QED BY <1>1, <1>2, <2>1, <2>2, <2>3
<1> QED BY <1>1, <1>6, <1>7, EasyStep

LEMMA FinishKeepsSafe ==
    ASSUME IInv, SafeInv, SafeLegs(network), FinishExpansion, state' = "level"
    PROVE  SafeInv'
<1>1. /\ UNCHANGED <<network, branches, current, next, labels>> /\ sets' = sets
      /\ state = "scan" /\ todo = {} /\ state' = "level"
      /\ released' = released \cup {expanding} /\ expanding' = None
  BY DEF FinishExpansion, Scanned, cy, frontier
<1>2. Shallow'
  <2> SUFFICES ASSUME NEW i \in released', NEW j \in Underway',
                      Active(branches[i].label)
               PROVE  Len(branches[i].path) <= Len(branches[j].path)
    BY <1>1 DEF Shallow, Active
  <2>1. j \in Range(current) \cup Range(next) /\ j \in Underway
    BY <1>1 DEF Underway
  <2>2. CASE i \in released
    BY <2>1, <2>2 DEF SafeInv, Shallow
  <2>3. CASE i = expanding
    <3>1. expanding \in DOMAIN branches /\ expanding # None
          /\ j \in DOMAIN branches
      BY <1>1, <2>1 DEF IInv, Expanding, Typing, None, Queued
    <3>2. Len(branches[i].path) \in Nat /\ Len(branches[j].path) \in Nat
      <4>1. branches[i] \in BranchType /\ branches[j] \in BranchType
        BY <2>3, <3>1, ElementOfSeq DEF IInv, Typing
      <4> QED BY <4>1 DEF BranchType
    <3>3. \/ Len(branches[i].path) = Len(branches[j].path)
          \/ Len(branches[j].path) = Len(branches[i].path) + 1
      BY <2>1, <2>3, <3>1 DEF IInv, Levels, Levelled
    <3> QED BY <3>2, <3>3
  <2> QED BY <1>1, <2>2, <2>3
<1>3. \A i, l : Pending(i, l) => Pending(i, l)'
  BY <1>1 DEF Pending, Active
<1> QED BY <1>1, <1>2, <1>3, EasyStep

LEMMA ExhaustKeepsSafe ==
    ASSUME IInv, SafeInv, SafeLegs(network), Exhaust
    PROVE  SafeInv'
<1>1. /\ UNCHANGED <<network, branches, current, next, labels>>
      /\ UNCHANGED <<released, expanding>>
      /\ state = "level" /\ current \o next = <<>>
      /\ sets' = [y \in Nodes |-> Fresh(y)]
  BY DEF Exhaust, frontier, arena
<1>2. \A y \in Nodes :
        /\ Range(sets'[y]) \subseteq Range(sets[y])
        /\ \A e \in Range(sets[y]) : Active(e.label) => e \in Range(sets'[y])
  BY <1>1, FreshFacts DEF IInv
<1>3. Shallow'
  BY <1>1 DEF SafeInv, Shallow, Underway, Active
<1>4. \E H : History(H)'
  <2>1. PICK H : History(H)
    BY DEF SafeInv
  <2>2. History(H)'
    BY <1>1, <1>2, <2>1, HistoryStays DEF IInv
  <2> QED BY <2>2
<1>5. \A i, l : ~Pending(i, l)
  <2>1. Range(current) \cup Range(next) = {}
    <3>1. current = <<>> /\ next = <<>>
      BY <1>1 DEF IInv, Typing
    <3> QED BY <3>1 DEF Range
  <2> QED BY <1>1, <2>1 DEF Pending
<1>6. ASSUME NEW u \in Targets
      PROVE  Held(u)'
  <2>1. u.node \in Nodes
    BY TargetsGoOn, FootFields
  <2>2. Promised(u)
    BY <1>1 DEF SafeInv, NoneLost
  <2>3. Held(u)
    BY <1>5, <2>2 DEF Promised
  <2> QED BY <1>1, <1>2, <2>1, <2>3 DEF Held, Active
<1>7. NoneLost'
  BY <1>1, <1>6, TargetsSame DEF NoneLost, Promised
<1> QED BY <1>3, <1>4, <1>7 DEF SafeInv

LEMMA LabelsAreTargets ==
    ASSUME Typing, Labelled, SafeLegs(network), NEW H, History(H),
           NEW a \in DOMAIN labels
    PROVE  /\ H[a] \in Unpruned /\ Foot(H[a]) \in Targets
           /\ Sound(H, a) /\ Foot(H[a]) \in Feet /\ Proper(network, Foot(H[a]))
           /\ ~AtRoot(Foot(H[a]))
           /\ From(network, Foot(H[a])) \subseteq Targets
<1>1. Allocated(H) /\ labels \in Seq(LabelType) /\ Forest(labels)
  BY DEF History, Typing, Labelled
<1>2. PICK leg \in Successors(At(H, labels[a].parent)) :
        /\ ~Revisits(At(H, labels[a].parent), leg)
        /\ H[a] = Extended(At(H, labels[a].parent), leg)
  BY <1>1 DEF Allocated
<1>3. labels[a].parent \in 0 .. Len(labels)
  BY <1>1 DEF Forest
<1>4. H[a] \in Unpruned
  BY <1>1, <1>2, <1>3, SoundIsUnpruned
<1>5. Foot(H[a]) \in Targets
  BY <1>4, UnprunedAreTargets
<1>6. Sound(H, a)
  BY <1>1, AllSound
<1> QED BY <1>4, <1>5, <1>6, TargetsGoOn DEF Sound

\* A candidate turned down promises nothing that the prefix that beats it does
\* not: the best foot it might have been needed for is got to from there.
LEMMA Rejection ==
    ASSUME IInv, SafeInv, SafeLegs(network), NEW leg \in todo, Visiting(leg),
           UNCHANGED <<network, state, branches, released, current, next,
                       expanding, labels>>,
           sets' \in [Nodes -> Seq(Entry)],
           \A y \in Nodes :
               /\ Range(sets'[y]) \subseteq Range(sets[y])
               /\ \A e \in Range(sets[y]) : Active(e.label) => e \in Range(sets'[y]),
           NEW H, History(H), NEW a \in DOMAIN labels,
           Covers(Foot(H[a]), Go(Foot(Branch), leg)),
           \/ H[a].m.nt < Go(Foot(Branch), leg).m.nt
           \/ \A k \in From(network, Foot(H[a])) : Promised(k)'
    PROVE  SafeInv'
<1> DEFINE f == Foot(H[a])
           g == Go(Foot(Branch), leg)
<1>1. /\ f \in Feet /\ Proper(network, f) /\ From(network, f) \subseteq Targets
      /\ f.m = H[a].m
  BY LabelsAreTargets DEF IInv, Foot
<1>2. /\ expanding \in DOMAIN branches /\ leg \in Successors(Branch)
      /\ state = "scan" /\ todo' = todo \ {leg}
  BY LegInHand
<1>3. /\ Foot(Branch) \in Feet /\ Proper(network, Foot(Branch))
      /\ leg \in Onward(network, Foot(Branch))
  BY <1>2, BranchStands DEF IInv, Branch
<1>4. g \in Feet /\ Proper(network, g) /\ ~AtRoot(g)
  BY <1>3, StepStaysProper
<1> DEFINE Bad == {u \in Targets : ~Promised(u)'}
<1>5. Bad = {}
  <2> SUFFICES ASSUME Bad # {}
               PROVE  FALSE
    OBVIOUS
  <2>1. \A u \in Bad : u \in Targets /\ u \in Feet /\ u.m.nt \in Nat /\ u.node \in Nodes
    BY TargetsGoOn, FootFields
  <2>2. PICK u \in Bad : \A v \in Bad : u.m.nt <= v.m.nt
    <3> DEFINE S == {v.m.nt : v \in Bad}
    <3>1. S \in SUBSET Nat /\ S # {}
      BY <2>1
    <3>2. PICK n \in S : \A k \in S : n <= k
      <4> HIDE DEF S
      <4> QED BY <3>1, LeastNumber
    <3> QED BY <3>2
  <2>3. Promised(u)
    BY <1>2, <2>1 DEF SafeInv, NoneLost
  <2>4. ~Held(u)
    <3> SUFFICES ASSUME Held(u)
                 PROVE  Held(u)'
      BY <2>2 DEF Promised
    <3> QED BY <2>1 DEF Held, Active
  <2>5. PICK i, l : Pending(i, l) /\ Reachable(i, l, u)
    BY <2>3, <2>4 DEF Promised
  <2>6. i = expanding /\ l = leg
    <3> SUFFICES ASSUME ~(i = expanding /\ l = leg)
                 PROVE  FALSE
      OBVIOUS
    <3>1. Pending(i, l)'
      BY <1>2, <2>5 DEF Pending, Active
    <3>2. Reachable(i, l, u)'
      BY <2>5 DEF Reachable
    <3> QED BY <2>2, <3>1, <3>2 DEF Promised
  <2>7. PICK h \in From(network, g) : Covers(h, u)
    BY <2>5, <2>6 DEF Reachable, Branch
  <2>8. PICK k \in From(network, f) :
          Covers(k, h) /\ h.m.nt - k.m.nt = g.m.nt - f.m.nt
    BY <1>1, <1>4, <2>7, Mimic
  <2>9. h \in Feet /\ k \in Feet /\ u \in Feet
    BY <2>1, <2>7, <2>8 DEF From
  <2>10. Covers(k, u)
    BY <2>7, <2>8, <2>9, CoveringChains
  <2>11. ~Promised(k)'
    BY <2>2, <2>9, <2>10, PromiseCovers
  <2>12. f.m.nt < g.m.nt
    BY <1>1, <2>8, <2>11
  <2>13. k \in Bad
    BY <1>1, <2>8, <2>11
  <2>14. k.m.nt < u.m.nt
    <3>1. /\ k.m.nt \in Nat /\ h.m.nt \in Nat /\ u.m.nt \in Nat
          /\ f.m.nt \in Nat /\ g.m.nt \in Nat
      BY <1>1, <1>4, <2>9, FootFields
    <3>2. h.m.nt <= u.m.nt
      BY <2>7, <2>9, MetricsOfFeet DEF Covers, AsGood
    <3> QED BY <2>8, <2>12, <3>1, <3>2
  <2> QED BY <2>2, <2>13, <2>14, <2>1
<1>6. NoneLost'
  BY <1>2, <1>5, TargetsSame DEF NoneLost
<1>7. Shallow'
  BY DEF SafeInv, Shallow, Underway, Active
<1>8. History(H)'
  BY HistoryStays DEF IInv
<1> QED BY <1>6, <1>7, <1>8 DEF SafeInv

\* A ride to where the branch has been comes later, and dearer, than the
\* prefix that was there first.
LEMMA RevisitIsCovered ==
    ASSUME IInv, SafeLegs(network), NEW H, History(H),
           NEW leg \in todo, Visiting(leg), Barren(leg)
    PROVE  \E a \in DOMAIN labels :
              /\ Covers(Foot(H[a]), Go(Foot(Branch), leg))
              /\ H[a].m.nt < Go(Foot(Branch), leg).m.nt
<1> DEFINE x == Foot(Branch)
           g == Go(x, leg)
<1>1. expanding \in DOMAIN branches /\ leg \in Successors(Branch)
  BY LegInHand
<1>2. /\ x \in Feet /\ Proper(network, x) /\ leg \in Onward(network, x)
      /\ Wellformed(Bare(Branch))
  BY <1>1, BranchStands DEF IInv, Branch
<1>3. /\ Bare(Branch).path = Branch.path /\ x.node = Branch.node
      /\ x.m = Branch.m /\ x.phase = Branch.phase
      /\ Bare(Branch).phase = Branch.phase /\ Foot(Bare(Branch)) = x
  BY BareFacts DEF Foot
<1>4. g \in Feet /\ Grows(x.m, g.m) /\ g.m.nt <= MaxTransfers
      /\ g.m = Extend(Branch.m, leg)
  BY <1>2, <1>3, StepStaysProper DEF Go
<1>5. Revisits(Branch, leg)
  <2>1. g.m.nt \in Nat /\ MaxTransfers \in Nat
    BY <1>4, FootFields, MaxTransfersAssumption
  <2>2. ~(g.m.nt > MaxTransfers)
    BY <1>4, <2>1
  <2> QED BY <1>4, <2>2 DEF Barren
<1>6. /\ Branch.path \in Seq(network)
      /\ Len(Branch.path) = DepthOf(x)
      /\ x.phase # "Completed" =>
           \A i \in DOMAIN Branch.path : Branch.path[i].to \in Stops
  BY <1>2, <1>3 DEF Wellformed
<1>7. WalkToStop(x, leg) \/ BoardFirst(x, leg) \/ Transfer(network, x, leg)
        \/ WalkToZone(network, x, leg)
  BY <1>2, FourSteps
<1> HIDE DEF x, g
<1>8. ~WalkToStop(x, leg)
  <2> SUFFICES ASSUME WalkToStop(x, leg)
               PROVE  FALSE
    OBVIOUS
  <2>1. /\ x.node = Origin /\ x.phase = "AtOrigin" /\ leg.kind = "walk"
        /\ leg.to \in Stops /\ Origin \notin Stops
    BY RootFoot DEF WalkToStop, AtRoot
  <2>2. Len(Branch.path) = 0
    BY <1>6, <2>1 DEF DepthOf
  <2>3. DOMAIN Branch.path = {}
    BY <1>6, <2>2
  <2> QED BY <1>3, <1>5, <2>1, <2>3 DEF Revisits, Visited
<1>9. ~WalkToZone(network, x, leg)
  <2> SUFFICES ASSUME WalkToZone(network, x, leg)
               PROVE  FALSE
    OBVIOUS
  <2>1. /\ x.node \in Stops /\ x.phase # "Completed" /\ leg.kind = "walk"
        /\ leg.to \in Destinations
    BY DEF WalkToZone, Rode
  <2>2. leg.to \notin Stops
    BY <2>1, NodesAssumption DEF Zones
  <2> QED BY <1>3, <1>5, <1>6, <2>1, <2>2 DEF Revisits, Visited
<1>10. leg.kind = "ride"
  BY <1>7, <1>8, <1>9 DEF BoardFirst, Transfer
<1>11. PICK i \in DOMAIN Branch.path :
         Branch.path[i].kind = "ride" /\ Branch.path[i].to = leg.to
  <2>1. <<leg.to, leg.position>> \in Occurrences(Branch)
    BY <1>5, <1>10 DEF Revisits
  <2>2. PICK m \in Range(Branch.path) : m.kind = "ride" /\ m.to = leg.to
    BY <2>1 DEF Occurrences
  <2> QED BY <2>2 DEF Range
<1>12. /\ Branch.label \in DOMAIN labels /\ Bare(Branch) = H[Branch.label]
  <2>1. Branch.label # None
    <3> SUFFICES ASSUME Branch.label = None
                 PROVE  FALSE
      OBVIOUS
    <3>1. Bare(Branch) = Bare(Root)
      BY <1>1 DEF History, At, Branch
    <3>2. Branch.path = <<>>
      BY <1>3, <3>1 DEF Bare, Root
    <3> QED BY <1>11, <3>2
  <2> QED BY <1>1, <2>1, HistoryFields DEF IInv, Branch
<1>13. Sound(H, Branch.label)
  BY <1>12, LabelsAreTargets DEF IInv
<1>14. PICK a \in DOMAIN labels :
         /\ Under(labels, a, Branch.label) /\ H[a].node = leg.to
         /\ H[a].m.boarded
  BY <1>3, <1>11, <1>12, <1>13 DEF Sound
<1> DEFINE f == Foot(H[a])
<1>15. /\ f \in Feet /\ Proper(network, f) /\ f.node = leg.to /\ f.m = H[a].m
  BY <1>14, LabelsAreTargets DEF IInv, Foot
<1>16. Grows(f.m, x.m)
  <2>1. Foot(H[Branch.label]) \in From(network, f)
    BY <1>13, <1>14 DEF Sound
  <2>2. Foot(H[Branch.label]) = x
    BY <1>3, <1>12
  <2> QED BY <1>15, <2>1, <2>2, FromIsProper
<1>17. f.m.boarded
  BY <1>14, <1>15
<1> HIDE DEF f
<1>18. x.m.boarded
  BY <1>16, <1>17 DEF Grows
<1>19. Transfer(network, x, leg)
  BY <1>7, <1>8, <1>9, <1>18 DEF BoardFirst, Walked
<1>20. g.node = leg.to /\ g.m.nt = x.m.nt + 1 /\ g.m.boarded
  BY <1>19 DEF Transfer, g
<1>21. /\ f.m.dep \in Int /\ f.m.now \in Nat /\ f.m.nt \in Nat /\ f.m.imp \in Nat
       /\ x.m.dep \in Int /\ x.m.now \in Nat /\ x.m.nt \in Nat /\ x.m.imp \in Nat
       /\ g.m.dep \in Int /\ g.m.now \in Nat /\ g.m.nt \in Nat /\ g.m.imp \in Nat
  BY <1>2, <1>4, <1>15, FootFields
<1>22. /\ f.m.dep = g.m.dep /\ f.m.now <= g.m.now /\ f.m.imp <= g.m.imp
       /\ f.m.nt < g.m.nt /\ f.m.nt <= g.m.nt
  BY <1>4, <1>16, <1>17, <1>18, <1>20, <1>21 DEF Grows
<1>23. Covers(f, g)
  <2>1. /\ Metrics(f.m).dep = f.m.dep /\ Metrics(f.m).arr = f.m.now
        /\ Metrics(f.m).imp = f.m.imp /\ Metrics(f.m).nt = f.m.nt
        /\ Metrics(g.m).dep = g.m.dep /\ Metrics(g.m).arr = g.m.now
        /\ Metrics(g.m).imp = g.m.imp /\ Metrics(g.m).nt = g.m.nt
    BY <1>17, <1>20 DEF Metrics
  <2> QED BY <1>15, <1>20, <1>21, <1>22, <2>1 DEF Covers, AsGood
<1> QED BY <1>14, <1>15, <1>22, <1>23 DEF f, g, x

LEMMA RejectPrefixKeepsSafe ==
    ASSUME IInv, SafeInv, SafeLegs(network), NEW leg \in todo, RejectPrefix(leg)
    PROVE  SafeInv'
<1>1. /\ UNCHANGED <<network, state, branches, released, current, next,
                     expanding, labels>>
      /\ sets' = sets /\ Visiting(leg) /\ Barren(leg)
  BY DEF RejectPrefix, arena, frontier, cy
<1>2. PICK H : History(H)
  BY DEF SafeInv
<1>3. PICK a \in DOMAIN labels :
        /\ Covers(Foot(H[a]), Go(Foot(Branch), leg))
        /\ H[a].m.nt < Go(Foot(Branch), leg).m.nt
  BY <1>1, <1>2, RevisitIsCovered
<1>4. sets' \in [Nodes -> Seq(Entry)]
  BY <1>1 DEF IInv, Typing
<1> QED BY <1>1, <1>2, <1>3, <1>4, Rejection

LEMMA CoversSelf ==
    ASSUME NEW f \in Feet
    PROVE  Covers(f, f)
<1>1. /\ Metrics(f.m).dep \in Int /\ Metrics(f.m).arr \in Nat
      /\ Metrics(f.m).nt \in Nat /\ Metrics(f.m).imp \in Nat
  BY MetricsOfFeet
<1> QED BY <1>1 DEF Covers, AsGood

\* Where depths say who has fewer transfers.
LEMMA ShallowerTransfersLess ==
    ASSUME NEW f \in Feet, NEW g \in Feet, Proper(network, f), Proper(network, g),
           ~AtRoot(f), ~AtRoot(g), f.node \in Stops, Covers(f, g),
           DepthOf(f) < DepthOf(g)
    PROVE  f.m.nt < g.m.nt
<1>1. g.node \in Stops /\ \A y \in Destinations : y \notin Stops
  BY NodesAssumption DEF Covers, Zones
<1>2. (Walked(f) \/ Rode(network, f)) /\ (Walked(g) \/ Rode(network, g))
  BY <1>1 DEF Proper, Arrived
<1>3. f.m.nt \in Nat /\ g.m.nt \in Nat /\ f.m.dep \in Int /\ g.m.dep \in Int
  BY FootFields
<1>4. Walked(f) => DepthOf(f) = 1
  BY DEF Walked, DepthOf
<1>5. Walked(g) => DepthOf(g) = 1
  BY DEF Walked, DepthOf
<1>6. Rode(network, f) => DepthOf(f) = f.m.nt + 2
  BY DEF Rode, DepthOf
<1>7. Rode(network, g) => DepthOf(g) = g.m.nt + 2
  BY DEF Rode, DepthOf
<1>8. CASE Walked(f) /\ Rode(network, g)
  <2>1. Metrics(f.m).dep = 0 /\ Metrics(g.m).dep = g.m.dep /\ g.m.dep > 0
    BY <1>8 DEF Metrics, Walked, Rode
  <2>2. Metrics(f.m).dep >= Metrics(g.m).dep
    BY DEF Covers, AsGood
  <2> QED BY <1>3, <2>1, <2>2
<1> QED BY <1>2, <1>3, <1>4, <1>5, <1>6, <1>7, <1>8

\* No candidate is turned down for a tolerance.
LEMMA RejectedIsDominated ==
    ASSUME IInv, DominanceSafe, SafeLegs(network), NEW H, History(H),
           NEW leg \in todo, Visiting(leg), ~Barren(leg), ~Wanted(leg)
    PROVE  \E e \in Range(Fresh(leg.to)) :
              Dominates(e.m, Metrics(Reached(leg)))
<1> DEFINE m == Metrics(Reached(leg))
           old == Fresh(leg.to)
           x == Foot(Branch)
<1>1. /\ expanding \in DOMAIN branches /\ leg \in Successors(Branch)
      /\ leg.to \in Nodes
  BY LegInHand
<1>2. /\ old \in Seq(Entry) /\ FreshSummary(leg.to) = Summary(old)
      /\ Range(old) \subseteq Range(sets[leg.to])
  BY <1>1, FreshFacts DEF IInv
<1>3. /\ x \in Feet /\ Proper(network, x) /\ leg \in Onward(network, x)
      /\ x.m = Branch.m
  BY <1>1, BranchStands DEF IInv, Branch, Foot
<1>4. /\ Go(x, leg) \in Feet /\ Proper(network, Go(x, leg))
      /\ Go(x, leg).m = Reached(leg) /\ Reached(leg).nt <= MaxTransfers
  BY <1>3, StepStaysProper DEF Go, Reached
<1>5. m \in EntryMetrics /\ m.nt = Reached(leg).nt
  <2>1. Reached(leg) \in Riding /\ Elapsed(Reached(leg))
    BY <1>4, FootFields, ProperElapsed
  <2> QED BY <2>1, MetricsTyped DEF Metrics
<1>6. old # <<>> /\ ~(Relevant(old, m) /\ WithinTolerance(Summary(old), m))
  BY <1>2 DEF Wanted, Accepts, Reached
<1> DEFINE q == Extended(Bare(Branch), leg)
<1>7. q \in Unpruned /\ q.node = leg.to /\ Metrics(q.m) = m
  <2>1. Bare(Branch) = At(H, Branch.label) /\ Branch.label \in 0 .. Len(labels)
    BY <1>1 DEF IInv, Labelled, History, Branch
  <2>2. leg \in Successors(Bare(Branch)) /\ ~Revisits(Bare(Branch), leg)
    BY <1>1, BareFacts DEF Barren
  <2>3. Allocated(H) /\ labels \in Seq(LabelType) /\ Forest(labels)
    BY DEF History, IInv, Typing, Labelled
  <2>4. q \in Unpruned
    BY <2>1, <2>2, <2>3, SoundIsUnpruned
  <2> QED BY <2>4, BareFacts DEF Extended, Reached
<1> HIDE DEF q, m, old
<1>8. \A e \in Range(old) : WithinTolerance(Improved({}, e.m), m)
  <2> SUFFICES ASSUME NEW e \in Range(old)
               PROVE  WithinTolerance(Improved({}, e.m), m)
    OBVIOUS
  <2>1. e.label \in DOMAIN labels /\ H[e.label].node = leg.to
        /\ e.m = Metrics(H[e.label].m)
    BY <1>1, <1>2 DEF IInv, Labelled, History
  <2>2. H[e.label] \in Unpruned
    BY <2>1, LabelsAreTargets DEF IInv
  <2>3. \A b, c \in Unpruned :
          b.node = c.node =>
            WithinTolerance(Improved({}, Metrics(c.m)), Metrics(b.m))
    BY DEF DominanceSafe
  <2>4. WithinTolerance(Improved({}, Metrics(H[e.label].m)), Metrics(q.m))
    BY <1>7, <2>1, <2>2, <2>3
  <2> QED BY <1>7, <2>1, <2>4
<1>9. WithinTolerance(Summary(old), m)
  BY <1>2, <1>5, <1>6, <1>8, SummaryTolerates
<1>10. PICK i \in DOMAIN old : Dominates(old[i].m, m)
  BY <1>6, <1>9 DEF Relevant
<1> QED BY <1>10 DEF Range, m, old

LEMMA RejectCandidateKeepsSafe ==
    ASSUME IInv, SafeInv, DominanceSafe, SafeLegs(network),
           NEW leg \in todo, RejectCandidate(leg)
    PROVE  SafeInv'
<1>1. /\ UNCHANGED <<network, state, branches, released, current, next,
                     expanding, labels>>
      /\ sets' = [sets EXCEPT ![leg.to] = Fresh(leg.to)]
      /\ Visiting(leg) /\ ~Barren(leg) /\ ~Wanted(leg)
  BY DEF RejectCandidate, arena, frontier
<1>2. PICK H : History(H)
  BY DEF SafeInv
<1>3. /\ expanding \in DOMAIN branches /\ leg \in Successors(Branch)
      /\ leg.to \in Nodes /\ state = "scan"
  BY <1>1, LegInHand
<1>4. /\ Fresh(leg.to) \in Seq(Entry)
      /\ Range(Fresh(leg.to)) = {e \in Range(sets[leg.to]) : Active(e.label)}
  BY <1>3, FreshFacts DEF IInv
<1>5. sets' \in [Nodes -> Seq(Entry)] /\ sets'[leg.to] = Fresh(leg.to)
      /\ \A y \in Nodes \ {leg.to} : sets'[y] = sets[y]
  BY <1>1, <1>3, <1>4 DEF IInv, Typing
<1>6. \A y \in Nodes :
        /\ Range(sets'[y]) \subseteq Range(sets[y])
        /\ \A e \in Range(sets[y]) : Active(e.label) => e \in Range(sets'[y])
  BY <1>4, <1>5
<1>7. PICK e \in Range(Fresh(leg.to)) : Dominates(e.m, Metrics(Reached(leg)))
  BY <1>1, <1>2, RejectedIsDominated
<1> DEFINE a == e.label
           f == Foot(H[a])
           x == Foot(Branch)
           g == Go(x, leg)
<1>8. /\ a \in DOMAIN labels /\ Active(a) /\ e \in Range(sets[leg.to])
      /\ H[a].node = leg.to /\ e.m = Metrics(H[a].m)
  BY <1>2, <1>3, <1>4, <1>7 DEF IInv, Labelled, History
<1>9. /\ f \in Feet /\ Proper(network, f) /\ ~AtRoot(f)
      /\ f.node = leg.to /\ f.m = H[a].m
  BY <1>2, <1>8, LabelsAreTargets DEF IInv, Foot
<1>10. /\ x \in Feet /\ Proper(network, x) /\ leg \in Onward(network, x)
       /\ x.m = Branch.m /\ Wellformed(Bare(Branch))
       /\ Len(Branch.path) = DepthOf(x)
  BY <1>2, <1>3, BranchStands DEF IInv, Branch, Foot
<1>11. /\ g \in Feet /\ Proper(network, g) /\ ~AtRoot(g)
       /\ g.node = leg.to /\ g.m = Reached(leg)
  BY <1>10, StepStaysProper DEF Go, Reached
<1>12. Covers(f, g)
  BY <1>7, <1>8, <1>9, <1>11 DEF Covers, AsGood, Dominates
<1>13. ASSUME NEW k \in From(network, f), k = f
       PROVE  Promised(k)'
  <2>1. AsGood(e.m, Metrics(f.m))
    BY <1>8, <1>9, CoversSelf DEF Covers
  <2>2. Held(f)'
    BY <1>1, <1>5, <1>7, <1>8, <1>9, <2>1 DEF Held, Active
  <2> QED BY <1>13, <2>2 DEF Promised
<1>14. \/ H[a].m.nt < g.m.nt
       \/ \A k \in From(network, f) : Promised(k)'
  <2>1. CASE leg.to \notin Stops
    <3>1. Onward(network, f) = {}
      <4>1. Arrived(f)
        BY <1>9, <2>1 DEF Proper, Walked, Rode
      <4> QED BY <4>1 DEF Arrived, Onward, WalkAdmitted
    <3>2. \A k \in From(network, f) : k = f
      BY <1>9, <3>1, FromUnfolds
    <3> QED BY <1>13, <3>2
  <2>2. CASE leg.to \in Stops
    <3>1. PICK i \in DOMAIN branches : branches[i].label = a
      BY <1>2, <1>8, <2>2 DEF History
    <3>2. Foot(branches[i]) = f
      <4>1. Bare(branches[i]) = H[a]
        <5>1. a # None
          BY <1>8 DEF None, IInv, Typing
        <5> QED BY <1>2, <3>1, <5>1, HistoryFields DEF IInv
      <4> QED BY <4>1, BareFacts
    <3>3. CASE i \in Range(current) \cup Range(next)
      <4>1. ASSUME NEW k \in From(network, f)
            PROVE  Promised(k)'
        <5>1. CASE k = f
          BY <1>13, <5>1
        <5>2. ASSUME NEW l \in Onward(network, f), k \in From(network, Go(f, l))
              PROVE  Promised(k)'
          <6>1. Pending(i, l)'
            BY <1>1, <1>8, <3>1, <3>2, <3>3, <5>2 DEF Pending, Active
          <6>2. Covers(k, k)
            BY CoversSelf DEF From
          <6>3. Reachable(i, l, k)'
            BY <1>1, <3>2, <5>2, <6>2 DEF Reachable
          <6> QED BY <6>1, <6>3 DEF Promised
        <5> QED BY <1>9, <5>1, <5>2, FromUnfolds
      <4> QED BY <4>1
    <3>4. CASE i \notin Range(current) \cup Range(next)
      <4>1. i \in released \/ i = expanding
        BY <1>3, <3>4 DEF IInv, Queued
      <4>2. expanding \in Underway
        BY <1>3 DEF Underway, IInv, Typing, None
      <4>3. Len(branches[i].path) <= Len(Branch.path)
        <5>1. CASE i \in released
          BY <1>8, <3>1, <4>2, <5>1 DEF SafeInv, Shallow, Branch
        <5>2. CASE i = expanding
          <6>1. Len(Branch.path) \in Nat
            <7>1. Bare(Branch).path = Branch.path
              BY BareFacts
            <7>2. Branch.path \in Seq(network)
              BY <1>10, <7>1 DEF Wellformed
            <7> QED BY <7>2
          <6> QED BY <5>2, <6>1 DEF Branch
        <5> QED BY <4>1, <5>1, <5>2
      <4>4. Len(branches[i].path) = DepthOf(f)
        BY <1>2, <3>2, BranchStands DEF IInv
      <4>5. DepthOf(g) = Len(Branch.path) + 1 /\ Len(Branch.path) \in Nat
        <5> DEFINE q == Extended(Bare(Branch), leg)
        <5>1. leg \in Successors(Bare(Branch)) /\ Bare(Branch).path = Branch.path
              /\ Foot(Bare(Branch)) = x
          BY <1>3, BareFacts
        <5>2. Wellformed(q) /\ Foot(q) = g
          BY <1>10, <5>1, ExtendedWellformed, ExtendedFoot
        <5>3. q.path = Append(Branch.path, leg) /\ Branch.path \in Seq(network)
          BY <1>10, <5>1 DEF Extended, Wellformed
        <5>4. Len(q.path) = Len(Branch.path) + 1 /\ Len(Branch.path) \in Nat
          BY <5>3
        <5> QED BY <5>2, <5>4 DEF Wellformed
      <4>6. DepthOf(f) \in Int /\ DepthOf(f) < DepthOf(g)
        <5>1. Len(branches[i].path) \in Nat
          <6>1. branches[i] \in BranchType
            BY ElementOfSeq DEF IInv, Typing
          <6> QED BY <6>1 DEF BranchType
        <5> QED BY <4>3, <4>4, <4>5, <5>1
      <4> QED BY <1>9, <1>11, <1>12, <2>2, <4>6, ShallowerTransfersLess
    <3> QED BY <3>3, <3>4
  <2> QED BY <2>1, <2>2
<1> QED BY <1>1, <1>2, <1>5, <1>6, <1>8, <1>12, <1>14, Rejection

\* What the candidate covers, its own branch, or its entry, goes on to promise.
LEMMA CandidatePromises ==
    ASSUME IInv, SafeLegs(network), NEW leg \in todo, Visiting(leg), Wanted(leg),
           NEW c, Shrunk(c, Registered(TurnedOut(leg))), AcceptedAs(leg, c),
           state' # "failing", ActiveIn(labels', NewLabel),
           NEW H, History(H),
           NEW k \in From(network, Go(Foot(Branch), leg))
    PROVE  Promised(k)'
<1> DEFINE x == Foot(Branch)
<1>0. PICK g, n : g = Go(x, leg) /\ n = Len(branches) + 1
  OBVIOUS
<1>1. expanding \in DOMAIN branches /\ leg \in Successors(Branch)
      /\ leg.to \in Nodes
  BY LegInHand
<1>2. /\ x \in Feet /\ Proper(network, x) /\ leg \in Onward(network, x)
      /\ x.m = Branch.m
  BY <1>1, BranchStands DEF IInv, Branch, Foot
<1>3. /\ g \in Feet /\ Proper(network, g) /\ ~AtRoot(g)
      /\ g.node = leg.to /\ g.m = Reached(leg)
  BY <1>0, <1>2, StepStaysProper DEF Go, Reached
<1>4. Foot(NewBranch(leg)) = g
  BY <1>0 DEF NewBranch, Candidate, Foot, Go, NextPhase
<1> HIDE DEF x
<1>5. CASE k = g
  <2>0. PICK e : e = [m |-> Metrics(Reached(leg)), label |-> NewLabel]
    OBVIOUS
  <2>1. e \in Range(sets'[leg.to])
    BY <2>0, AcceptedEntries
  <2>2. AsGood(e.m, Metrics(g.m))
    BY <1>3, <2>0, CoversSelf DEF Covers
  <2>3. e.label = NewLabel
    BY <2>0
  <2>4. Held(g)'
    BY <1>3, <2>1, <2>2, <2>3 DEF Held, Active
  <2> QED BY <1>5, <2>4 DEF Promised
<1>6. ASSUME NEW l \in Onward(network, g), k \in From(network, Go(g, l))
      PROVE  Promised(k)'
  <2>1. leg.to \in Stops
    <3> SUFFICES ASSUME leg.to \notin Stops
                 PROVE  FALSE
      OBVIOUS
    <3>1. Arrived(g)
      BY <1>3 DEF Proper, Walked, Rode
    <3> QED BY <1>6, <3>1 DEF Arrived, Onward, WalkAdmitted
  <2>2. JoinsNext(leg, c)
    BY <2>1 DEF AcceptedAs, IsHandedOver, FailsTheCheck
  <2>3. n \in DOMAIN branches' /\ n \in Range(next')
    <3>1. leg.to \in Stops /\ state' # "failing"
      BY <2>1
    <3>2. ~(IsHandedOver(leg, c) \/ FailsTheCheck(leg, c))
      BY <3>1 DEF IsHandedOver, FailsTheCheck
    <3> QED BY <1>0, <3>2, AcceptedLayers
  <2>4. branches'[n] = NewBranch(leg)
    <3>1. NewBranch(leg) \in BranchType /\ branches \in Seq(BranchType)
      BY CandidateFacts DEF IInv, Typing
    <3> QED BY <1>0, <2>2, <3>1 DEF JoinsNext
  <2>5. network' = network
    BY DEF AcceptedAs
  <2>6. branches'[n].label = NewLabel /\ Foot(branches'[n]) = g
    BY <1>4, <2>4, NewBranchFields
  <2>7. Pending(n, l)'
    BY <1>6, <2>3, <2>5, <2>6 DEF Pending, Active
  <2>8. k \in Feet /\ Covers(k, k)
    BY CoversSelf DEF From
  <2>9. Reachable(n, l, k)'
    BY <1>6, <2>5, <2>6, <2>8 DEF Reachable
  <2> QED BY <2>7, <2>9 DEF Promised
<1>7. k = g \/ \E l \in Onward(network, g) : k \in From(network, Go(g, l))
  BY <1>0, <1>3, FromUnfolds DEF x
<1> QED BY <1>5, <1>6, <1>7

\* What got on from a prefix the candidate turns out, gets on from the
\* candidate as well.
LEMMA TurnedOutIsCovered ==
    ASSUME IInv, SafeLegs(network), NEW leg \in todo, Visiting(leg), Wanted(leg),
           NEW c, AcceptedAs(leg, c), NEW H, History(H),
           NEW l \in DOMAIN labels, Active(l), ~ActiveIn(labels', l),
           NEW h \in From(network, Foot(H[l]))
    PROVE  \E k \in From(network, Go(Foot(Branch), leg)) : Covers(k, h)
<1> DEFINE x == Foot(Branch)
           g == Go(x, leg)
<1>1. expanding \in DOMAIN branches /\ leg \in Successors(Branch)
      /\ leg.to \in Nodes
  BY LegInHand
<1>2. /\ x \in Feet /\ Proper(network, x) /\ leg \in Onward(network, x)
      /\ x.m = Branch.m
  BY <1>1, BranchStands DEF IInv, Branch, Foot
<1>3. /\ g \in Feet /\ Proper(network, g)
      /\ g.node = leg.to /\ g.m = Reached(leg)
  BY <1>2, StepStaysProper DEF Go, Reached
<1>4. /\ labels \in Seq(LabelType) /\ Forest(labels) /\ Len(labels) \in Nat
      /\ DOMAIN labels = 1 .. Len(labels)
  BY DEF IInv, Typing, Labelled
<1>5. PICK a \in TurnedOut(leg) : a \in DOMAIN labels /\ Under(labels, a, l)
  <2>1. /\ labels' \in Seq(LabelType) /\ Forest(labels')
        /\ Len(labels') = Len(labels) + 1
        /\ \A j \in 1 .. Len(labels) :
            /\ labels'[j].parent = labels[j].parent
            /\ labels'[j].active <=> labels[j].active /\ j \notin TurnedOut(leg)
    BY AcceptedLabels
  <2>2. Len(labels) <= Len(labels') /\ ActiveIn(labels, l)
    BY <1>4, <2>1 DEF Active
  <2> QED BY <1>4, <2>1, <2>2, DeathHasACause
<1>6. PICK e \in Range(sets[leg.to]) :
        e.label = a /\ Dominates(Metrics(Reached(leg)), e.m)
  BY <1>5, CandidateFacts
<1> DEFINE f == Foot(H[a])
<1>7. /\ f \in Feet /\ Proper(network, f) /\ ~AtRoot(f)
      /\ f.m = H[a].m /\ f.node = H[a].node
  BY <1>5, LabelsAreTargets DEF IInv, Foot
<1>8. H[a].node = leg.to /\ e.m = Metrics(H[a].m)
  BY <1>1, <1>6 DEF History
<1>9. Covers(g, f)
  BY <1>3, <1>6, <1>7, <1>8 DEF Covers, AsGood, Dominates
<1>10. h \in From(network, f)
  <2>1. Foot(H[l]) \in From(network, f)
    BY <1>5, LabelsAreTargets DEF IInv, Sound
  <2> QED BY <2>1, FromFrom
<1> QED BY <1>3, <1>7, <1>9, <1>10, Mimic

LEMMA AcceptKeepsShallow ==
    ASSUME IInv, Shallow, NEW leg \in todo, Visiting(leg), Wanted(leg),
           NEW c, Shrunk(c, Registered(TurnedOut(leg))), AcceptedAs(leg, c),
           state' # "failing"
    PROVE  Shallow'
<1>1. /\ expanding \in DOMAIN branches /\ expanding # None
      /\ expanding' = expanding /\ branches \in Seq(BranchType)
  BY LegInHand DEF IInv, Typing, None, AcceptedAs
<1>2. /\ Range(current') \subseteq Range(current)
      /\ Range(c.next) \subseteq Range(next)
      /\ c.dropped = (Range(current) \ Range(c.current))
                        \cup (Range(next) \ Range(c.next))
      /\ c.dropped \subseteq DOMAIN branches
      /\ released' = released \cup c.dropped
  <2>1. JoinsNext(leg, c) \/ IsHandedOver(leg, c)
    BY DEF AcceptedAs, FailsTheCheck
  <2>2. released' = released \cup c.dropped
    BY <2>1 DEF JoinsNext, IsHandedOver
  <2> QED BY <2>2, AcceptedLayers DEF IInv, Queued
<1>3. \A i \in c.dropped : ~ActiveIn(labels', branches[i].label)
  BY DEF Shrunk, AcceptedAs
<1>4. ASSUME NEW i \in DOMAIN branches
      PROVE  /\ branches'[i] = branches[i]
             /\ ActiveIn(labels', branches[i].label) => Active(branches[i].label)
  <2>1. branches[i].label \in 0 .. Len(labels)
    BY DEF IInv, Labelled
  <2>2. ActiveIn(labels', branches[i].label) => ActiveIn(labels, branches[i].label)
    BY <2>1, AcceptedLabels
  <2> QED BY <2>2, AcceptedBranches DEF Active
<1>5. ASSUME NEW j \in Underway', j \notin Underway
      PROVE  /\ Len(branches'[j].path) \in Nat
             /\ \E k \in Underway :
                  Len(branches'[j].path) >= Len(branches[k].path)
  <2>1. j \in Range(next') /\ j \notin Range(c.next)
    BY <1>1, <1>2, <1>5 DEF Underway
  <2>2. j = Len(branches) + 1 /\ JoinsNext(leg, c)
    BY <2>1, AcceptedLayers
  <2>3. branches'[j] = NewBranch(leg) /\ NewBranch(leg).path = Append(Branch.path, leg)
    <3>1. NewBranch(leg) \in BranchType
      BY CandidateFacts
    <3> QED BY <1>1, <2>2, <3>1, NewBranchFields DEF JoinsNext
  <2>4. Branch.path \in Seq(Legs) /\ leg \in Legs
    <3>1. Branch \in BranchType /\ leg \in Legs
      BY LegInHand
    <3> QED BY <3>1 DEF BranchType
  <2>5. Len(branches'[j].path) = Len(Branch.path) + 1 /\ Len(Branch.path) \in Nat
    BY <2>3, <2>4
  <2>6. expanding \in Underway
    BY <1>1 DEF Underway
  <2>7. Len(branches'[j].path) >= Len(branches[expanding].path)
    BY <2>5 DEF Branch
  <2> QED BY <2>5, <2>6, <2>7
<1> QED BY <1>2, <1>3, <1>4, <1>5, ShallowStays

LEMMA AcceptKeepsSafe ==
    ASSUME IInv, SafeInv, SafeLegs(network), NEW leg \in todo,
           AcceptCandidate(leg), state' # "failing"
    PROVE  SafeInv'
<1>1. /\ Visiting(leg) /\ Wanted(leg)
      /\ \E c : Shrunk(c, Registered(TurnedOut(leg))) /\ AcceptedAs(leg, c)
  BY AcceptStep
<1>2. PICK c : Shrunk(c, Registered(TurnedOut(leg))) /\ AcceptedAs(leg, c)
  BY <1>1
<1>3. PICK H : History(H)
  BY DEF SafeInv
<1>4. IInv'
  BY AcceptKeeps
<1>5. /\ state = "scan" /\ state' = "scan" /\ network' = network
      /\ expanding' = expanding /\ todo' = todo \ {leg}
      /\ expanding \in DOMAIN branches /\ leg \in Successors(Branch)
  <2>1. /\ state = "scan" /\ expanding \in DOMAIN branches
        /\ todo' = todo \ {leg} /\ leg \in Successors(Branch)
    BY <1>1, LegInHand
  <2> QED BY <1>2, <2>1 DEF AcceptedAs, JoinsNext, IsHandedOver, FailsTheCheck
<1>6. Shallow'
  BY <1>1, <1>2, AcceptKeepsShallow DEF SafeInv
<1>7. \E K : History(K)'
  <2>1. PICK K : K = Append(H, NewPrefix(leg))
    OBVIOUS
  <2>2. History(K)'
    BY <1>1, <1>2, <1>3, <2>1, HistoryGrows
  <2> QED BY <2>2
<1>8. ActiveIn(labels', NewLabel)
  <2>1. /\ labels' \in Seq(LabelType) /\ Forest(labels')
        /\ NewLabel \in 1 .. Len(labels') /\ labels'[NewLabel].active
        /\ labels'[NewLabel].parent = Branch.label
    BY <1>1, <1>2, AcceptedLabels
  <2>2. ActiveIn(labels', Branch.label)
    <3>1. branches'[expanding] = Branch
      BY <1>1, <1>2, <1>5, AcceptedBranches DEF Branch
    <3>2. ActiveIn(labels', branches'[expanding].label)
      BY <1>4, <1>5 DEF IInv, ExpandedStaysActive, Active
    <3> QED BY <3>1, <3>2
  <2> QED BY <2>1, <2>2, ActiveUnfolds
<1>9. sets' \in [Nodes -> Seq(Entry)]
  BY <1>4 DEF IInv, Typing
<1>10. ASSUME NEW u \in Feet, NEW k \in From(network, Go(Foot(Branch), leg)),
              Covers(k, u)
       PROVE  Promised(u)'
  <2>1. Promised(k)'
    BY <1>1, <1>2, <1>3, <1>8, CandidatePromises
  <2>2. k \in Feet
    BY DEF From
  <2> QED BY <1>9, <1>10, <2>1, <2>2, PromiseCovers
<1>11. ASSUME NEW u \in Feet, NEW l \in DOMAIN labels,
              Active(l), ~ActiveIn(labels', l),
              NEW h \in From(network, Foot(H[l])), Covers(h, u)
       PROVE  Promised(u)'
  <2>1. PICK k \in From(network, Go(Foot(Branch), leg)) : Covers(k, h)
    BY <1>1, <1>2, <1>3, <1>11, TurnedOutIsCovered
  <2>2. k \in Feet /\ h \in Feet
    BY DEF From
  <2>3. Covers(k, u)
    BY <1>11, <2>1, <2>2, CoveringChains
  <2> QED BY <1>10, <2>3
<1>12. ASSUME NEW u \in Targets
       PROVE  Promised(u)'
  <2>1. u \in Feet /\ u.node \in Nodes
    BY TargetsGoOn, FootFields
  <2>2. Promised(u)
    BY <1>5 DEF SafeInv, NoneLost
  <2>3. ASSUME Held(u)
        PROVE  Promised(u)'
    <3>1. PICK e \in Range(sets[u.node]) : Active(e.label) /\ AsGood(e.m, Metrics(u.m))
      BY <2>3 DEF Held
    <3>2. CASE ActiveIn(labels', e.label)
      <4>1. e \in Range(sets'[u.node])
        BY <1>1, <1>2, <2>1, <3>1, <3>2, AcceptedEntries
      <4>2. Held(u)'
        BY <3>1, <3>2, <4>1 DEF Held, Active
      <4> QED BY <4>2 DEF Promised
    <3>3. CASE ~ActiveIn(labels', e.label)
      <4>1. /\ e.label \in DOMAIN labels /\ H[e.label].node = u.node
            /\ e.m = Metrics(H[e.label].m)
        BY <1>3, <2>1 DEF IInv, Labelled, History
      <4>2. Foot(H[e.label]) \in Feet
        BY <1>3, <4>1, LabelsAreTargets DEF IInv
      <4>3. Foot(H[e.label]) \in From(network, Foot(H[e.label]))
        BY <4>2, FromItself
      <4>4. Covers(Foot(H[e.label]), u)
        BY <3>1, <4>1 DEF Covers, Foot
      <4> QED BY <1>11, <2>1, <3>1, <3>3, <4>1, <4>3, <4>4
    <3> QED BY <3>2, <3>3
  <2>4. ASSUME NEW i, NEW l, Pending(i, l), Reachable(i, l, u)
        PROVE  Promised(u)'
    <3>1. /\ i \in DOMAIN branches /\ Active(branches[i].label)
          /\ l \in Onward(network, Foot(branches[i]))
      BY <2>4 DEF Pending
    <3>2. branches'[i] = branches[i] /\ i \in DOMAIN branches'
      BY <1>1, <1>2, <3>1, AcceptedBranches
    <3>3. PICK h \in From(network, Go(Foot(branches[i]), l)) : Covers(h, u)
      BY <2>4 DEF Reachable
    <3>4. CASE i = expanding /\ l = leg
      BY <1>10, <2>1, <3>3, <3>4 DEF Branch
    <3>5. CASE ~(i = expanding /\ l = leg) /\ ActiveIn(labels', branches[i].label)
      <4>1. i \in Range(current) \cup Range(next)
              => i \in Range(current') \cup Range(next')
        <5>1. \A j \in c.dropped : ~ActiveIn(labels', branches[j].label)
          BY <1>2 DEF Shrunk, AcceptedAs
        <5>2. /\ c.dropped = (Range(current) \ Range(c.current))
                                \cup (Range(next) \ Range(c.next))
              /\ current' = c.current /\ Range(c.next) \subseteq Range(next')
          BY <1>1, <1>2, AcceptedLayers
        <5> QED BY <3>5, <5>1, <5>2
      <4>2. Pending(i, l)'
        BY <1>5, <2>4, <3>1, <3>2, <3>5, <4>1 DEF Pending, Active
      <4>3. Reachable(i, l, u)'
        BY <1>5, <3>2, <3>3 DEF Reachable
      <4> QED BY <4>2, <4>3 DEF Promised
    <3>6. CASE ~ActiveIn(labels', branches[i].label)
      <4> DEFINE b == branches[i]
      <4>1. b.label # None
        <5>1. ActiveIn(labels', None)
          BY <1>4, ActiveUnfolds DEF IInv, Typing, Labelled
        <5> QED BY <3>6, <5>1
      <4>2. b.label \in DOMAIN labels /\ Bare(b) = H[b.label]
        BY <1>3, <3>1, <4>1, HistoryFields DEF IInv
      <4>3. Foot(H[b.label]) = Foot(b)
        BY <4>2, BareFacts
      <4>4. /\ Foot(b) \in Feet /\ Proper(network, Foot(b))
        BY <1>3, <3>1, BranchStands DEF IInv
      <4>5. Go(Foot(b), l) \in From(network, Foot(b))
        BY <3>1, <4>4, FromItself, FromIsProper
      <4>6. h \in From(network, Foot(H[b.label]))
        BY <3>3, <4>3, <4>5, FromFrom
      <4> QED BY <1>11, <2>1, <3>1, <3>3, <3>6, <4>2, <4>6
    <3> QED BY <3>4, <3>5, <3>6
  <2> QED BY <2>2, <2>3, <2>4 DEF Promised
<1>13. NoneLost'
  BY <1>5, <1>12, TargetsSame DEF NoneLost
<1> QED BY <1>6, <1>7, <1>13 DEF SafeInv

LEMMA InitIsSafe ==
    ASSUME Init, IInv
    PROVE  SafeInv
<1>1. /\ branches = <<Root>> /\ released = {} /\ current = <<1>>
      /\ labels = <<>> /\ sets = [y \in Nodes |-> <<>>] /\ state = "level"
  BY DEF Init
<1>2. DOMAIN branches = {1} /\ branches[1] = Root /\ 1 \in Range(current)
  BY <1>1 DEF Range
<1>3. DOMAIN labels = {} /\ Len(labels) = 0 /\ labels \in Seq(LabelType)
  BY <1>1
<1>4. Shallow
  BY <1>1 DEF Shallow
<1>5. History(<<>>)
  <2>1. <<>> \in Seq(Prefix) /\ Len(<<>>) = Len(labels)
    BY <1>3
  <2>2. \A i \in DOMAIN branches : Bare(branches[i]) = At(<<>>, branches[i].label)
    BY <1>2, RootTyped DEF At
  <2>3. \A y \in Nodes : Range(sets[y]) = {}
    BY <1>1 DEF Range
  <2>4. Allocated(<<>>)
    BY <1>3 DEF Allocated
  <2> QED BY <1>3, <2>1, <2>2, <2>3, <2>4 DEF History
<1>6. ASSUME NEW u \in Targets
      PROVE  Promised(u)
  <2>1. PICK l \in Onward(network, Foot(Root)) :
          u \in From(network, Go(Foot(Root), l))
    BY DEF Targets
  <2>2. Active(None)
    BY <1>3, ActiveUnfolds DEF IInv, Labelled, Active
  <2>3. Pending(1, l)
    BY <1>2, <2>1, <2>2, RootTyped DEF Pending
  <2>4. Covers(u, u)
    BY <2>1, CoversSelf DEF From
  <2>5. Reachable(1, l, u)
    BY <1>2, <2>1, <2>4 DEF Reachable
  <2> QED BY <2>3, <2>5 DEF Promised
<1>7. NoneLost
  BY <1>1, <1>6 DEF NoneLost
<1> QED BY <1>4, <1>5, <1>7 DEF SafeInv

LEMMA NextKeepsSafe ==
    ASSUME LInv, [Next]_vars, Destinations # {}
    PROVE  LInv'
<1>1. IInv /\ IInv'
  <2>1. IInv
    BY DEF LInv
  <2> QED BY <2>1, NextKeeps, SMTT(30)
<1>2. UNCHANGED network
  BY DEF Next, Tree, Examine, Stop, AdvanceLevel, Pop, RejectPrefix,
         RejectCandidate, AcceptCandidate, FinishExpansion, Exhaust, Cancel, vars
<1> SUFFICES ASSUME DominanceSafe', state' \notin {"failing", "stopped", "failed"}
             PROVE  SafeInv'
  BY <1>1 DEF LInv
<1>3. DominanceSafe /\ SafeLegs(network)
  BY <1>1, <1>2, SafetySame, SafetyOfLegs DEF IInv, Typing
<1>4. state \notin {"failing", "stopped", "failed"} => SafeInv
  BY <1>3 DEF LInv
<1>5. CASE UNCHANGED vars \/ Cancel
  <2>1. UNCHANGED <<network, state, arena, frontier, expanding, todo, cy>>
    BY <1>5 DEF vars, Cancel
  <2>2. SafeInv
    BY <1>4, <2>1
  <2> QED BY <1>1, <1>3, <2>1, <2>2, IdleKeepsSafe
<1>6. CASE Stop
  BY <1>6 DEF Stop
<1>7. CASE AdvanceLevel
  <2>1. SafeInv
    BY <1>4, <1>7 DEF AdvanceLevel
  <2> QED BY <1>1, <1>3, <1>7, <2>1, AdvanceKeepsSafe
<1>8. CASE Pop
  <2>1. SafeInv
    BY <1>4, <1>8 DEF Pop
  <2> QED BY <1>1, <1>3, <1>8, <2>1, PopKeepsSafe
<1>9. ASSUME NEW leg \in todo,
             RejectPrefix(leg) \/ RejectCandidate(leg) \/ AcceptCandidate(leg)
      PROVE  SafeInv'
  <2>1. SafeInv
    BY <1>4, <1>9 DEF RejectPrefix, RejectCandidate, AcceptCandidate, Visiting
  <2>2. CASE RejectPrefix(leg)
    BY <1>1, <1>3, <2>1, <2>2, RejectPrefixKeepsSafe
  <2>3. CASE RejectCandidate(leg)
    BY <1>1, <1>3, <2>1, <2>3, RejectCandidateKeepsSafe
  <2>4. CASE AcceptCandidate(leg)
    BY <1>1, <1>3, <2>1, <2>4, AcceptKeepsSafe
  <2> QED BY <1>9, <2>2, <2>3, <2>4
<1>10. CASE FinishExpansion
  <2>1. SafeInv /\ state' = "level"
    BY <1>4, <1>10 DEF FinishExpansion, Scanned
  <2> QED BY <1>1, <1>3, <1>10, <2>1, FinishKeepsSafe
<1>11. CASE Exhaust
  <2>1. SafeInv
    BY <1>4, <1>11 DEF Exhaust
  <2> QED BY <1>1, <1>3, <1>11, <2>1, ExhaustKeepsSafe
<1> QED BY <1>5, <1>6, <1>7, <1>8, <1>9, <1>10, <1>11 DEF Next, Tree, Examine

LEMMA NothingLostHolds == LInv => NothingLost
<1> SUFFICES ASSUME LInv, state = "exhausted", DominanceSafe, NEW b \in Unpruned
             PROVE  \E i \in DOMAIN sets[b.node] :
                       \/ sets[b.node][i].m = Metrics(b.m)
                       \/ Dominates(sets[b.node][i].m, Metrics(b.m))
  BY DEF NothingLost
<1>1. SafeLegs(network) /\ SafeInv /\ sets \in [Nodes -> Seq(Entry)]
  BY SafetyOfLegs DEF LInv, IInv, Typing
<1> DEFINE u == Foot(b)
<1>2. u \in Targets /\ u.node = b.node /\ u.m = b.m
  BY <1>1, UnprunedAreTargets DEF Foot
<1>3. u \in Feet /\ Proper(network, u) /\ u.node \in Nodes
  BY <1>1, <1>2, TargetsGoOn, FootFields
<1>4. PICK e \in Range(sets[b.node]) : AsGood(e.m, Metrics(b.m))
  BY <1>1, <1>2 DEF SafeInv, NoneLost, Held
<1>5. PICK i \in DOMAIN sets[b.node] : e = sets[b.node][i]
  BY DEF Range
<1>6. e \in Entry
  <2>1. sets[b.node] \in Seq(Entry)
    BY <1>1, <1>2, <1>3
  <2> QED BY <1>5, <2>1
<1>7. Metrics(b.m) \in EntryMetrics /\ e.m \in EntryMetrics
  BY <1>2, <1>3, <1>6, FootFields, ProperElapsed, MetricsTyped, EntryFields
<1>8. e.m = Metrics(b.m) \/ Dominates(e.m, Metrics(b.m))
  <2> DEFINE m == Metrics(b.m)
  <2>1. m.jt = m.arr - m.dep
    BY DEF Metrics
  <2>2. e.m.jt = e.m.arr - e.m.dep
    <3>1. PICK H : History(H)
      BY <1>1 DEF SafeInv
    <3>2. e.m = Metrics(H[e.label].m)
      BY <1>2, <1>3, <3>1 DEF History
    <3> QED BY <3>2 DEF Metrics
  <2>3. /\ m = [dep |-> m.dep, arr |-> m.arr, jt |-> m.jt, nt |-> m.nt,
                imp |-> m.imp]
        /\ e.m = [dep |-> e.m.dep, arr |-> e.m.arr, jt |-> e.m.jt,
                  nt |-> e.m.nt, imp |-> e.m.imp]
        /\ m.dep \in Int /\ m.arr \in Nat /\ m.nt \in Nat /\ m.imp \in Nat
        /\ e.m.dep \in Int /\ e.m.arr \in Nat /\ e.m.nt \in Nat
        /\ e.m.imp \in Nat
    BY <1>7 DEF EntryMetrics
  <2> HIDE DEF m
  <2>4. CASE /\ e.m.dep = m.dep /\ e.m.arr = m.arr /\ e.m.nt = m.nt
             /\ e.m.imp = m.imp
    <3>1. e.m.jt = m.jt
      BY <2>1, <2>2, <2>4
    <3> QED BY <2>3, <2>4, <3>1, Zenon DEF m
  <2>5. CASE ~(/\ e.m.dep = m.dep /\ e.m.arr = m.arr /\ e.m.nt = m.nt
               /\ e.m.imp = m.imp)
    <3>1. AsGood(e.m, m)
      BY <1>4 DEF m
    <3>2. Dominates(e.m, m)
      BY <2>3, <2>5, <3>1 DEF AsGood, Dominates
    <3> QED BY <3>2 DEF m
  <2> QED BY <2>4, <2>5
<1> QED BY <1>5, <1>8

\* Where dominance is sound, nothing that C_y turns down or turns out is lost:
\* a search that finishes holds, for every prefix a search without pruning
\* would reach, an entry that matches or dominates it, though dominance kills
\* labels with all that descends from them, queued or not
\* (retention_operations.cpp, batch_tree_execution.cpp).
THEOREM NothingIsLost ==
    ASSUME Destinations # {}
    PROVE  Spec => []NothingLost
<1>1. Init => LInv
  BY InitHolds, InitIsSafe DEF LInv
<1>2. LInv /\ [Next]_vars => LInv'
  BY NextKeepsSafe
<1>3. LInv => NothingLost
  BY NothingLostHolds
<1> QED BY <1>1, <1>2, <1>3, PTL DEF Spec

------------------------------------------------------------------------------
(***************************************************************************)
(* What may fail a search: its branches are among those that a search      *)
(* without pruning would reach, whatever the supply.                       *)
(***************************************************************************)
\* A prefix has no more legs than its phase and its transfers allow.
Fits(b) ==
    /\ b.m.nt <= MaxTransfers
    /\ CASE b.phase = "AtOrigin" ->
              b.path = <<>> /\ ~b.m.boarded /\ b.m.nt = 0
         [] b.phase = "BeforeFirstBoarding" ->
              Len(b.path) = 1 /\ ~b.m.boarded /\ b.m.nt = 0
         [] b.phase = "AfterTimedRide" ->
              b.m.boarded /\ Len(b.path) <= 2 * b.m.nt + 2
         [] b.phase = "AfterTransferWalk" ->
              /\ b.m.boarded /\ b.m.nt < MaxTransfers
              /\ Len(b.path) <= 2 * b.m.nt + 3
         [] b.phase = "Completed" ->
              Len(b.path) <= 2 * b.m.nt + 3

LEMMA FitsIsBounded ==
    ASSUME NEW b, Fits(b), b.phase \in Phases, b.m \in Riding,
           Len(b.path) \in Nat
    PROVE  Len(b.path) <= MaxLegs
<1> DEFINE nt == b.m.nt
           n == Len(b.path)
<1>1. nt \in Nat /\ MaxTransfers \in Nat /\ n \in Nat
  BY MaxTransfersAssumption DEF Riding
<1>2. b.path = <<>> => n = 0
  OBVIOUS
<1>3. /\ nt <= MaxTransfers
      /\ n = 0 \/ n = 1 \/ n <= 2 * nt + 2 \/ n <= 2 * nt + 3
  <2>1. CASE b.phase \in {"AtOrigin", "BeforeFirstBoarding"}
    BY <1>2, <2>1 DEF Fits
  <2>2. CASE b.phase \in {"AfterTimedRide", "AfterTransferWalk"}
    BY <2>2 DEF Fits
  <2>3. CASE b.phase = "Completed"
    BY <2>3 DEF Fits
  <2> QED BY <2>1, <2>2, <2>3 DEF Phases
<1> HIDE DEF nt, n
<1>4. n <= 2 * MaxTransfers + 3
  BY <1>1, <1>3
<1> QED BY <1>4 DEF n, MaxLegs

LEMMA ExtensionFits ==
    ASSUME NEW b, b.m \in Riding, b.phase \in Phases, Fits(b), NEW S,
           b.path \in Seq(S), NEW l \in Successors(b), l \in Legs, l \in S
    PROVE  Fits(Extended(b, l)) /\ Extended(b, l).phase \in Phases
<1> DEFINE q == Extended(b, l)
<1>1. /\ q.phase = NextPhase(b, l) /\ q.m = Extend(b.m, l)
      /\ Len(q.path) = Len(b.path) + 1 /\ Len(b.path) \in Nat
  BY DEF Extended
<1>2. /\ b.m.nt \in Nat /\ MaxTransfers \in Nat /\ b.m.boarded \in BOOLEAN
      /\ b.m.nt <= MaxTransfers
  BY MaxTransfersAssumption DEF Riding, Fits
<1>3. \/ l.kind = "walk" /\ WalkAdmitted(b, l)
      \/ l.kind = "ride" /\ RideAdmitted(b, l)
  BY DEF Successors
<1>4. CASE l.kind = "walk" /\ WalkAdmitted(b, l)
  <2>1. q.m.boarded = b.m.boarded /\ q.m.nt = b.m.nt
    BY <1>1, <1>2, <1>4 DEF Extend, Riding
  <2>2. CASE b.phase = "AtOrigin"
    <3>1. q.phase = "BeforeFirstBoarding"
      BY <1>1, <1>4, <2>2 DEF NextPhase
    <3>2. b.path = <<>> /\ ~b.m.boarded /\ b.m.nt = 0
      BY <2>2 DEF Fits
    <3>3. Len(q.path) = 1
      BY <1>1, <3>2
    <3> QED BY <1>2, <2>1, <3>1, <3>2, <3>3 DEF Fits, Phases
  <2>3. CASE b.phase # "AtOrigin"
    <3>1. /\ b.phase = "AfterTimedRide"
          /\ l.to \in Destinations \/ (l.to \in Stops /\ b.m.nt < MaxTransfers)
      BY <1>4, <2>3 DEF WalkAdmitted
    <3>2. b.m.boarded /\ Len(b.path) <= 2 * b.m.nt + 2
      BY <3>1 DEF Fits
    <3>3. CASE l.to \in Stops /\ b.m.nt < MaxTransfers
      <4>1. q.phase = "AfterTransferWalk"
        BY <1>1, <1>4, <3>1, <3>3 DEF NextPhase
      <4> QED BY <1>1, <1>2, <2>1, <3>2, <3>3, <4>1 DEF Fits, Phases
    <3>4. CASE l.to \notin Stops
      <4>1. q.phase = "Completed"
        BY <1>1, <1>4, <3>1, <3>4 DEF NextPhase
      <4> QED BY <1>1, <1>2, <2>1, <3>2, <4>1 DEF Fits, Phases
    <3>5. l.to \in Destinations => l.to \notin Stops
      BY NodesAssumption DEF Zones
    <3> QED BY <3>1, <3>3, <3>4, <3>5
  <2> QED BY <2>2, <2>3
<1>5. CASE l.kind = "ride" /\ RideAdmitted(b, l)
  <2>1. q.phase = "AfterTimedRide"
    BY <1>1, <1>5 DEF NextPhase
  <2>2. b.phase \notin {"AtOrigin", "Completed"}
        /\ (b.m.boarded => b.m.nt < MaxTransfers)
    BY <1>5 DEF RideAdmitted
  <2>3. CASE ~b.m.boarded
    <3>1. Len(b.path) = 1 /\ b.m.nt = 0
      BY <2>2, <2>3 DEF Fits, Phases
    <3>2. q.m.boarded /\ q.m.nt = 0
      BY <1>1, <1>2, <1>5, <2>3, <3>1 DEF Extend, Riding
    <3> QED BY <1>1, <1>2, <2>1, <3>1, <3>2 DEF Fits, Phases
  <2>4. CASE b.m.boarded
    <3>1. Len(b.path) <= 2 * b.m.nt + 2 \/ Len(b.path) <= 2 * b.m.nt + 3
      <4>1. b.phase = "AfterTimedRide" \/ b.phase = "AfterTransferWalk"
        BY <2>2, <2>4 DEF Fits, Phases
      <4>2. CASE b.phase = "AfterTimedRide"
        BY <4>2 DEF Fits
      <4>3. CASE b.phase = "AfterTransferWalk"
        BY <4>3 DEF Fits
      <4> QED BY <4>1, <4>2, <4>3
    <3>2. q.m.boarded /\ q.m.nt = b.m.nt + 1
      <4>1. /\ Extend(b.m, l).boarded
            /\ Extend(b.m, l).nt = b.m.nt + 1
        BY <1>5, <2>4 DEF Extend, Riding
      <4> QED BY <1>1, <4>1
    <3>3. b.m.nt + 1 <= MaxTransfers
      BY <1>2, <2>2, <2>4
    <3>4. Len(b.path) + 1 <= 2 * (b.m.nt + 1) + 2
      <4>1. Len(b.path) \in Nat /\ b.m.nt \in Nat
        BY <1>1, <1>2
      <4> DEFINE length == Len(b.path)
                 transfers == b.m.nt
      <4>2. length \in Nat /\ transfers \in Nat
            /\ (length <= 2 * transfers + 2 \/ length <= 2 * transfers + 3)
        BY <3>1, <4>1
      <4>3. length + 1 <= 2 * (transfers + 1) + 2
        <5> HIDE DEF length, transfers
        <5> QED BY <4>2
      <4> QED BY <4>3
    <3>5. q.m.nt <= MaxTransfers /\ Len(q.path) <= 2 * q.m.nt + 2
      <4>1. Len(q.path) = Len(b.path) + 1
        BY <1>1
      <4> HIDE DEF q
      <4> QED BY <3>2, <3>3, <3>4, <4>1
    <3> QED BY <2>1, <3>2, <3>5 DEF Fits, Phases
  <2> QED BY <1>2, <2>3, <2>4
<1> QED BY <1>3, <1>4, <1>5

\* A level holds the prefixes of as many legs.
LEMMA LevelsCount ==
    ASSUME NEW f, f[0] = FirstLevel,
           \A n \in 1 .. MaxLegs : f[n] = NextLevel(f[n - 1])
    PROVE  \A n \in 0 .. MaxLegs : \A b \in f[n] :
              b.path \in Seq(network) /\ Len(b.path) = n
<1> DEFINE Of(b, n) == b.path \in Seq(network) /\ Len(b.path) = n
           Holds == {n \in 0 .. MaxLegs : \A b \in f[n] : Of(b, n)}
<1>1. MaxLegs \in Nat
  BY MaxTransfersAssumption DEF MaxLegs
<1>2. 0 \in Holds
  <2>1. \A b \in f[0] : b.path = <<>>
    BY DEF FirstLevel
  <2>2. <<>> \in Seq(network) /\ Len(<<>>) = 0
    OBVIOUS
  <2>3. \A b \in f[0] : Of(b, 0)
    BY <2>1, <2>2
  <2> QED BY <1>1, <2>3
<1>3. ASSUME NEW n \in 1 .. MaxLegs, n - 1 \in Holds
      PROVE  n \in Holds
  <2> SUFFICES ASSUME NEW b \in f[n]
               PROVE  Of(b, n)
    BY <1>1
  <2>1. PICK a \in f[n - 1] : \E l \in Successors(a) : b = Extended(a, l)
    BY StepIsExtension DEF NextLevel
  <2> PICK l \in Successors(a) : b = Extended(a, l)
    BY <2>1
  <2>2. l \in network /\ b.path = Append(a.path, l)
    BY DEF Successors, Extended
  <2>3. a.path \in Seq(network) /\ Len(a.path) = n - 1
    BY <1>3
  <2> QED BY <2>2, <2>3
<1>4. 0 .. MaxLegs \subseteq Holds
  <2> HIDE DEF Holds
  <2> QED BY <1>1, <1>2, <1>3, UpTo
<1> QED BY <1>4

Reachables == Unpruned \cup FirstLevel

LEMMA ExtensionIsUnpruned ==
    ASSUME NEW b \in Reachables, b.m \in Riding, b.phase \in Phases, Fits(b),
           NEW l \in Successors(b), l \in Legs, ~Revisits(b, l),
           Extend(b.m, l) \in Riding
    PROVE  Extended(b, l) \in Unpruned
<1>1. PICK f : /\ Unpruned = UNION {f[n] : n \in 1 .. MaxLegs}
               /\ f[0] = FirstLevel
               /\ \A n \in 1 .. MaxLegs : f[n] = NextLevel(f[n - 1])
  BY UnprunedLevels
<1>2. MaxLegs \in Nat
  BY MaxTransfersAssumption DEF MaxLegs
<1>3. PICK n \in 0 .. MaxLegs : b \in f[n]
  BY <1>1, <1>2 DEF Reachables
<1>4. b.path \in Seq(network) /\ Len(b.path) = n /\ l \in network
  BY <1>1, <1>3, LevelsCount DEF Successors
<1> DEFINE q == Extended(b, l)
<1>5. Fits(q) /\ q.phase \in Phases
  BY <1>4, ExtensionFits
<1>6. q.m \in Riding /\ Len(q.path) = n + 1
  BY <1>4 DEF Extended
<1>7. n + 1 <= MaxLegs
  BY <1>3, <1>5, <1>6, FitsIsBounded
<1>8. n + 1 \in 1 .. MaxLegs /\ (n + 1) - 1 = n
  BY <1>2, <1>3, <1>7
<1>9. f[n + 1] = NextLevel(f[n])
  BY <1>1, <1>8
<1>10. q \in NextLevel(f[n])
  BY <1>3, StepIsExtension DEF NextLevel
<1> QED BY <1>1, <1>8, <1>9, <1>10

\* The branches of a tree are found without pruning too.
Found == \A i \in DOMAIN branches :
            Bare(branches[i]) \in Reachables /\ Fits(branches[i])

LEMMA CandidateIsUnpruned ==
    ASSUME IInv, Found, NEW leg \in todo, Visiting(leg), Wanted(leg)
    PROVE  Bare(NewBranch(leg)) \in Unpruned /\ Fits(NewBranch(leg))
<1> DEFINE b == Bare(Branch)
<1>1. /\ expanding \in DOMAIN branches /\ Branch \in BranchType
      /\ leg \in Legs /\ leg \in Successors(Branch)
  BY LegInHand
<1>2. b \in Reachables /\ Fits(Branch)
  BY <1>1 DEF Found, Branch
<1>3. /\ b.m = Branch.m /\ b.phase = Branch.phase /\ b.path = Branch.path
      /\ leg \in Successors(b) /\ (Revisits(b, leg) <=> Revisits(Branch, leg))
      /\ Extended(b, leg) = Bare(NewBranch(leg))
  <2>1. /\ b.m = Branch.m /\ b.phase = Branch.phase /\ b.path = Branch.path
        /\ Successors(b) = Successors(Branch)
        /\ (Revisits(b, leg) <=> Revisits(Branch, leg))
        /\ Extended(b, leg)
             = [node |-> leg.to, phase |-> NextPhase(Branch, leg),
                path |-> Append(Branch.path, leg), m |-> Extend(Branch.m, leg)]
    BY BareFacts
  <2> HIDE DEF b
  <2>2. Bare(NewBranch(leg))
          = [node |-> leg.to, phase |-> NextPhase(Branch, leg),
             path |-> Append(Branch.path, leg), m |-> Extend(Branch.m, leg)]
    BY DEF NewBranch, Candidate, Bare
  <2> QED BY <1>1, <2>1, <2>2
<1>4. Fits(b) /\ b.m \in Riding /\ b.phase \in Phases
  BY <1>1, <1>2, <1>3 DEF Fits, BranchType
<1>5. ~Revisits(b, leg)
  BY <1>3 DEF Wanted, Barren
<1>6. Extend(b.m, leg) \in Riding
  BY <1>3, CandidateFacts DEF Reached
<1>7. Extended(b, leg) \in Unpruned
  BY <1>1, <1>2, <1>3, <1>4, <1>5, <1>6, ExtensionIsUnpruned
<1>8. Fits(Extended(b, leg))
  <2>1. b.path \in Seq(Legs)
    BY <1>1, <1>3 DEF BranchType
  <2> QED BY <1>1, <1>3, <1>4, <2>1, ExtensionFits
<1>9. Fits(NewBranch(leg))
  BY <1>3, <1>8, BareFacts DEF Fits
<1> QED BY <1>3, <1>7, <1>9

\* Without the phase checks a search fails only for a connection that starts
\* before midnight (complete_connection.cpp, connection.cpp) and that a search
\* without pruning would find as well: no other check of its own refuses what
\* it made, not that of the labels left in C_y at the end
\* (validate_retained_connection_label_sync).  With the phase checks it does,
\* as a run shows.
THEOREM OnlyEarlyStartsFail ==
    ASSUME ~ValidatePhaseInvariants
    PROVE  Spec => []FailsOnlyEarly
<1> DEFINE FInv == IInv /\ Found /\ FailsOnlyEarly
<1>1. Init => FInv
  <2> SUFFICES ASSUME Init PROVE Found /\ FailsOnlyEarly
    BY InitHolds
  <2>1. branches = <<Root>> /\ state = "level"
    BY DEF Init
  <2>2. \A i \in DOMAIN branches : branches[i] = Root
    BY <2>1
  <2>3. Bare(Root) \in FirstLevel
    BY DEF Bare, Root, FirstLevel
  <2>4. Fits(Root)
    BY MaxTransfersAssumption DEF Fits, Root
  <2> QED BY <2>1, <2>2, <2>3, <2>4 DEF Found, Reachables, FailsOnlyEarly
<1>2. FInv /\ [Next]_vars => FInv'
  <2> SUFFICES ASSUME FInv, [Next]_vars PROVE Found' /\ FailsOnlyEarly'
    <3> SUFFICES ASSUME FInv, [Next]_vars PROVE IInv'
      OBVIOUS
    <3>1. IInv
      OBVIOUS
    <3> QED BY <3>1, NextKeeps, SMTT(30)
  <2>1. UNCHANGED network
    BY DEF Next, Tree, Examine, Stop, AdvanceLevel, Pop, RejectPrefix,
           RejectCandidate, AcceptCandidate, FinishExpansion, Exhaust, Cancel,
           vars
  <2>2. Unpruned' = Unpruned /\ Reachables' = Reachables
    BY <2>1, UnprunedSame DEF Reachables, FirstLevel
  <2>3. \A b : Fits(b)' = Fits(b) /\ StartsEarly(b)' = StartsEarly(b)
               /\ Bare(b)' = Bare(b)
    BY DEF Fits, StartsEarly, Bare
  <2>4. ASSUME NEW leg \in todo, AcceptCandidate(leg)
        PROVE  Found' /\ FailsOnlyEarly'
    <3>1. Visiting(leg) /\ Wanted(leg) /\ \E c : AcceptedAs(leg, c)
      BY <2>4, AcceptStep
    <3>2. PICK c : AcceptedAs(leg, c)
      BY <3>1
    <3>3. Bare(NewBranch(leg)) \in Unpruned /\ Fits(NewBranch(leg))
      BY <3>1, CandidateIsUnpruned
    <3>4. \A i \in DOMAIN branches' :
            \/ i \in DOMAIN branches /\ branches'[i] = branches[i]
            \/ branches'[i] = NewBranch(leg)
      BY <3>1, <3>2, AcceptedBranches
    <3>5. Found'
      BY <2>2, <2>3, <3>3, <3>4 DEF Found, Reachables, Bare, Fits
    <3>6. ASSUME state' \in {"failing", "failed"}
          PROVE  \E b \in Unpruned : StartsEarly(b)
      <4>1. state = "scan"
        BY <2>4, <3>1, LegInHand
      <4>2. StartsEarly(NewBranch(leg))
        BY <3>2, <3>6, <4>1 DEF AcceptedAs, JoinsNext, IsHandedOver, FailsTheCheck
      <4>3. StartsEarly(Bare(NewBranch(leg)))
        BY <4>2, BareFacts DEF StartsEarly
      <4> QED BY <3>3, <4>3
    <3> QED BY <2>2, <2>3, <3>5, <3>6 DEF FailsOnlyEarly, StartsEarly
  <2>5. CASE UNCHANGED branches
             /\ (state' \in {"failing", "failed"}
                   => state \in {"failing", "failed"})
    <3>1. Found'
      BY <2>2, <2>3, <2>5 DEF Found, Bare, Fits
    <3> QED BY <2>2, <2>5, <3>1 DEF FailsOnlyEarly, StartsEarly
  <2>6. CASE Examine
    <3>1. PICK leg \in todo :
            RejectPrefix(leg) \/ RejectCandidate(leg) \/ AcceptCandidate(leg)
      BY <2>6 DEF Examine
    <3> QED BY <2>4, <2>5, <3>1 DEF RejectPrefix, RejectCandidate, arena
  <2>7. CASE Exhaust
    BY <2>5, <2>7, ExhaustKeeps DEF Exhaust, arena
  <2>8. CASE Stop \/ AdvanceLevel \/ FinishExpansion \/ Cancel \/ UNCHANGED vars
    BY <2>5, <2>8
       DEF Stop, AdvanceLevel, FinishExpansion, Scanned, Cancel, vars, arena
  <2>9. CASE Pop
    BY <2>5, <2>9 DEF Pop
  <2> QED BY <2>6, <2>7, <2>8, <2>9 DEF Next, Tree
<1> QED BY <1>1, <1>2, PTL DEF Spec
==============================================================================
