-------------------------- MODULE InputReading_proof --------------------------
(***************************************************************************)
(* Proofs about InputReading, for every directory, whatever its files say  *)
(* and whenever they come and go: what a load that succeeds leaves in the  *)
(* input is what the files say.                                            *)
(***************************************************************************)
EXTENDS InputReading, FiniteSetTheorems, SequenceTheorems, TLAPS

(***************************************************************************)
(* Places: the elements of a finite set of numbers, in their order.        *)
(***************************************************************************)
Below(K, n)  == {j \in K : j < n}
PlaceIn(K, i) == Cardinality({j \in K : j <= i})

LEMMA BelowIsFinite ==
    ASSUME NEW K, IsFiniteSet(K), NEW n
    PROVE  IsFiniteSet(Below(K, n)) /\ Cardinality(Below(K, n)) \in Nat
<1>1. Below(K, n) \in SUBSET K
  BY DEF Below
<1> QED BY <1>1, FS_Subset, FS_CardinalityType

\* The next number is one more if it is one of them.
LEMMA BelowGrows ==
    ASSUME NEW K \in SUBSET Int, IsFiniteSet(K), NEW n \in Int
    PROVE  /\ n \in K => /\ Below(K, n + 1) = Below(K, n) \cup {n}
                         /\ Cardinality(Below(K, n + 1)) = Cardinality(Below(K, n)) + 1
           /\ n \notin K => Below(K, n + 1) = Below(K, n)
<1>1. \A j \in K : /\ j \in Int /\ ~(n < n)
                     /\ j < n + 1 <=> j < n \/ j = n
  OBVIOUS
<1>2. ASSUME n \in K
      PROVE  /\ Below(K, n + 1) = Below(K, n) \cup {n}
             /\ Cardinality(Below(K, n + 1)) = Cardinality(Below(K, n)) + 1
  <2>1. Below(K, n + 1) = Below(K, n) \cup {n} /\ n \notin Below(K, n)
    BY <1>1, <1>2, Zenon DEF Below
  <2> QED BY <2>1, BelowIsFinite, FS_AddElement
<1>3. ASSUME n \notin K
      PROVE  Below(K, n + 1) = Below(K, n)
  <2>1. \A j \in K : j < n + 1 <=> j < n
    <3> TAKE j \in K
    <3>1. j # n
      BY <1>3
    <3> QED BY <1>1, <3>1
  <2> QED BY <2>1, Zenon DEF Below
<1> QED BY <1>2, <1>3

LEMMA PlaceIsNext ==
    ASSUME NEW K \in SUBSET Int, IsFiniteSet(K), NEW i \in K
    PROVE  PlaceIn(K, i) = Cardinality(Below(K, i)) + 1
<1>2. i \in Int /\ \A j \in K : j <= i <=> j < i + 1
  OBVIOUS
<1>1. {j \in K : j <= i} = Below(K, i + 1)
  BY <1>2, Zenon DEF Below
<1>3. Cardinality(Below(K, i + 1)) = Cardinality(Below(K, i)) + 1
  BY <1>2, BelowGrows
<1> QED BY <1>1, <1>3 DEF PlaceIn

LEMMA PlacesAreInOrder ==
    ASSUME NEW K \in SUBSET Int, IsFiniteSet(K), NEW i \in K, NEW n \in Int, i < n
    PROVE  /\ PlaceIn(K, i) \in 1 .. Cardinality(Below(K, n))
           /\ n \in K => PlaceIn(K, i) < PlaceIn(K, n)
<1>0. \A j \in K : j <= i => j < n
  OBVIOUS
<1>1. {j \in K : j <= i} \in SUBSET Below(K, n) /\ IsFiniteSet(Below(K, n))
  BY <1>0, BelowIsFinite, Zenon DEF Below
<1>2. PlaceIn(K, i) <= Cardinality(Below(K, n))
  BY <1>1, FS_Subset DEF PlaceIn
<1>3. /\ Cardinality(Below(K, i)) \in Nat /\ Cardinality(Below(K, n)) \in Nat
      /\ PlaceIn(K, i) = Cardinality(Below(K, i)) + 1
  BY BelowIsFinite, PlaceIsNext
<1>4. n \in K => PlaceIn(K, n) = Cardinality(Below(K, n)) + 1
  BY PlaceIsNext
<1> QED BY <1>2, <1>3, <1>4

\* Each number up to their count is the place of one of them.
LEMMA PlacesAreTaken ==
    ASSUME NEW K \in SUBSET Int, IsFiniteSet(K)
    PROVE  /\ Cardinality(K) \in Nat
           /\ \A i \in K : PlaceIn(K, i) \in 1 .. Cardinality(K)
           /\ \A i, j \in K : PlaceIn(K, i) = PlaceIn(K, j) => i = j
           /\ \A k \in 1 .. Cardinality(K) : \E i \in K : PlaceIn(K, i) = k
<1> DEFINE n == Cardinality(K)
           f == [i \in K |-> PlaceIn(K, i)]
<1>1. n \in Nat
  BY FS_CardinalityType
<1>2. ASSUME NEW i \in K
      PROVE  PlaceIn(K, i) \in 1 .. n
  <2>1. {j \in K : j <= i} \in SUBSET K
    OBVIOUS
  <2>2. PlaceIn(K, i) <= n
    BY <2>1, FS_Subset DEF PlaceIn
  <2>3. PlaceIn(K, i) = Cardinality(Below(K, i)) + 1 /\ Cardinality(Below(K, i)) \in Nat
    BY PlaceIsNext, BelowIsFinite
  <2> QED BY <1>1, <2>2, <2>3
<1>3. ASSUME NEW i \in K, NEW j \in K, PlaceIn(K, i) = PlaceIn(K, j)
      PROVE  i = j
  <2>1. i \in Int /\ j \in Int /\ PlaceIn(K, i) \in Int
    BY <1>2
  <2>2. i < j => PlaceIn(K, i) < PlaceIn(K, j)
    BY <2>1, PlacesAreInOrder
  <2>3. j < i => PlaceIn(K, j) < PlaceIn(K, i)
    BY <2>1, PlacesAreInOrder
  <2> QED BY <1>3, <2>1, <2>2, <2>3
<1>4. f \in Injection(K, 1 .. n)
  BY <1>2, <1>3 DEF Injection, IsInjective
<1>5. IsFiniteSet(1 .. n) /\ Cardinality(1 .. n) = n
  <2>1. /\ IsFiniteSet(1 .. n)
        /\ Cardinality(1 .. n) = IF 1 > n THEN 0 ELSE n - 1 + 1
    BY <1>1, FS_Interval, 1 \in Int
  <2> QED BY <1>1, <2>1
<1>6. f \in Surjection(K, 1 .. n)
  BY <1>4, <1>5, FS_Injection
<1>7. \A k \in 1 .. n : \E i \in K : f[i] = k
  BY <1>6 DEF Surjection
<1> QED BY <1>1, <1>2, <1>3, <1>7

LEMMA FirstExists ==
    ASSUME NEW S \in SUBSET Int, IsFiniteSet(S), S # {}
    PROVE  \E x \in S : \A y \in S : x <= y
<1>1. Cardinality(S) \in Nat /\ Cardinality(S) # 0
  BY FS_EmptySet, FS_CardinalityType
<1>2. PICK x \in S : PlaceIn(S, x) = 1
  <2>1. 1 \in 1 .. Cardinality(S)
    BY <1>1
  <2> QED BY <2>1, PlacesAreTaken
<1>3. ASSUME NEW y \in S, y < x
      PROVE  FALSE
  <2>1. PlaceIn(S, y) < PlaceIn(S, x) /\ PlaceIn(S, y) \in 1 .. Cardinality(S)
    BY <1>3, PlacesAreInOrder, PlacesAreTaken
  <2> QED BY <1>2, <2>1
<1> QED BY <1>2, <1>3

------------------------------------------------------------------------------
(***************************************************************************)
(* Rows, and the routes found for them.                                    *)
(***************************************************************************)
LEMMA RowFields ==
    ASSUME NEW row \in RowType
    PROVE  /\ row.fromZone \in Int /\ row.fromStop \in Int /\ row.toZone \in Int
           /\ row.toStop \in Int /\ row.line \in Int /\ row.trip \in Int
           /\ row.route \in Int /\ row.fromIndex \in Int /\ row.toIndex \in Int
           /\ row.dep \in Int /\ row.arr \in Int /\ row.time \in Int
           /\ row.length \in Int /\ row.fare \in Int
BY DEF RowType

LEMMA RowsAreFinite ==
    ASSUME NEW rows \in Seq(RowType)
    PROVE  /\ DOMAIN rows = 1 .. Len(rows) /\ Len(rows) \in Nat
           /\ DOMAIN rows \in SUBSET Int /\ IsFiniteSet(DOMAIN rows)
           /\ \A i \in DOMAIN rows : rows[i] \in RowType
<1>1. DOMAIN rows = 1 .. Len(rows) /\ Len(rows) \in Nat
  OBVIOUS
<1>2. IsFiniteSet(1 .. Len(rows))
  BY <1>1, FS_Interval, 1 \in Int
<1> QED BY <1>1, <1>2

LEMMA TripsAreFinite ==
    ASSUME NEW rows \in Seq(RowType)
    PROVE  TripsOf(rows) \in SUBSET Int /\ IsFiniteSet(TripsOf(rows))
<1> DEFINE f == [i \in Rides(rows) |-> rows[i].trip]
<1>1. Rides(rows) \in SUBSET DOMAIN rows
  BY DEF Rides
<1>2. IsFiniteSet(Rides(rows))
  BY <1>1, RowsAreFinite, FS_Subset
<1>3. f \in Surjection(Rides(rows), TripsOf(rows))
  BY DEF Surjection, TripsOf
<1>4. IsFiniteSet(TripsOf(rows))
  BY <1>2, <1>3, FS_Surjection
<1>5. \A i \in Rides(rows) : rows[i].trip \in Int
  BY <1>1, RowsAreFinite, RowFields
<1> QED BY <1>4, <1>5 DEF TripsOf

\* Two rides are of one route iff their trips have one signature: the routes are
\* numbered by how many signatures there are among the trips before the first.
LEMMA RoutesAreSignatures ==
    ASSUME NEW rows \in Seq(RowType), NEW i \in Rides(rows), NEW j \in Rides(rows)
    PROVE  /\ Inferred(rows)[i] \in Nat
           /\ Inferred(rows)[i] = Inferred(rows)[j] <=>
                 Signature(rows, rows[i].trip) = Signature(rows, rows[j].trip)
<1> DEFINE T == TripsOf(rows)
           sig == [t \in T |-> Signature(rows, t)]
           Earlier(n) == {sig[t] : t \in {u \in T : u < n}}
           First(s) == CHOOSE t \in T : sig[t] = s /\ \A u \in T : sig[u] = s => t <= u
<1>1. T \in SUBSET Int /\ IsFiniteSet(T)
  BY TripsAreFinite
<1>2. /\ rows[i].trip \in T /\ rows[j].trip \in T
      /\ i \in DOMAIN rows /\ j \in DOMAIN rows
  BY DEF TripsOf, Rides
<1>3. \A k \in {i, j} :
        Inferred(rows)[k] = Cardinality(Earlier(First(sig[rows[k].trip])))
  BY <1>2 DEF Inferred
<1>4. \A n : IsFiniteSet(Earlier(n)) /\ Cardinality(Earlier(n)) \in Nat
  <2> TAKE n
  <2> DEFINE U == {u \in T : u < n}
             f == [t \in U |-> sig[t]]
  <2>1. IsFiniteSet(U)
    BY <1>1, FS_Subset, U \in SUBSET T
  <2>2. f \in Surjection(U, Earlier(n))
    BY DEF Surjection
  <2>3. IsFiniteSet(Earlier(n))
    <3> HIDE DEF Earlier, U, f
    <3> QED BY <2>1, <2>2, FS_Surjection
  <2> QED BY <2>3, FS_CardinalityType
<1>5. ASSUME NEW t \in T
      PROVE  /\ First(sig[t]) \in T /\ sig[First(sig[t])] = sig[t]
             /\ \A u \in T : sig[u] = sig[t] => First(sig[t]) <= u
  <2> DEFINE S == {u \in T : sig[u] = sig[t]}
  <2>1. S \in SUBSET Int /\ IsFiniteSet(S) /\ S # {}
    BY <1>1, FS_Subset, S \in SUBSET T
  <2>2. \E x \in S : \A y \in S : x <= y
    <3> HIDE DEF S
    <3> QED BY <2>1, FirstExists
  <2>3. \E x \in T : sig[x] = sig[t] /\ \A u \in T : sig[u] = sig[t] => x <= u
    BY <2>2
  <2> HIDE DEF sig, T, S
  <2> QED BY <2>3, Zenon
<1>6. ASSUME NEW t \in T, NEW u \in T, First(sig[t]) < First(sig[u])
      PROVE  Cardinality(Earlier(First(sig[t]))) < Cardinality(Earlier(First(sig[u])))
  <2> DEFINE a == First(sig[t])
             b == First(sig[u])
  <2>1. /\ a \in T /\ b \in T /\ a \in Int /\ b \in Int /\ a < b
        /\ sig[a] = sig[t] /\ \A v \in T : sig[v] = sig[t] => a <= v
    BY <1>1, <1>5, <1>6
  <2> HIDE DEF a, b, sig, T
  <2>2. Earlier(a) \in SUBSET Earlier(b)
    <3>1. \A v \in T : v < a => v < b
      BY <1>1, <2>1
    <3> QED BY <3>1
  <2>3. sig[a] \in Earlier(b)
    BY <2>1
  <2>4. sig[a] \notin Earlier(a)
    <3>1. \A v \in T : sig[v] = sig[a] => ~(v < a)
      BY <1>1, <2>1
    <3> QED BY <3>1
  <2> HIDE DEF Earlier
  <2>5. /\ Cardinality(Earlier(a)) <= Cardinality(Earlier(b))
        /\ Cardinality(Earlier(a)) # Cardinality(Earlier(b))
    BY <1>4, <2>2, <2>3, <2>4, FS_Subset
  <2>6. Cardinality(Earlier(a)) \in Nat /\ Cardinality(Earlier(b)) \in Nat
    BY <1>4
  <2>7. Cardinality(Earlier(a)) < Cardinality(Earlier(b))
    BY <2>5, <2>6
  <2> QED BY <2>7 DEF a, b
<1> DEFINE s == sig[rows[i].trip]
           r == sig[rows[j].trip]
<1>7. /\ s = Signature(rows, rows[i].trip) /\ r = Signature(rows, rows[j].trip)
      /\ First(s) \in Int /\ First(r) \in Int
      /\ First(s) = First(r) => s = r
      /\ First(s) < First(r) => Cardinality(Earlier(First(s))) < Cardinality(Earlier(First(r)))
      /\ First(r) < First(s) => Cardinality(Earlier(First(r))) < Cardinality(Earlier(First(s)))
  <2>1. s = Signature(rows, rows[i].trip) /\ r = Signature(rows, rows[j].trip)
    BY <1>2
  <2> HIDE DEF sig, T, First, Earlier
  <2>2. First(s) \in T /\ First(r) \in T /\ sig[First(s)] = s /\ sig[First(r)] = r
    BY <1>2, <1>5
  <2> QED BY <1>1, <1>2, <1>6, <2>1, <2>2
<1>8. /\ Inferred(rows)[i] = Cardinality(Earlier(First(s)))
      /\ Inferred(rows)[j] = Cardinality(Earlier(First(r)))
  BY <1>3
<1>9. Cardinality(Earlier(First(s))) \in Nat /\ Cardinality(Earlier(First(r))) \in Nat
  BY <1>4
<1> HIDE DEF s, r, First, Earlier, sig, T
<1> QED BY <1>7, <1>8, <1>9

LEMMA TwoElements ==
    ASSUME NEW S, IsFiniteSet(S), NEW c \in S, NEW d \in S, c # d
    PROVE  Cardinality(S) >= 2
<1>1. {c, d} \in SUBSET S
  OBVIOUS
<1>2. Cardinality({c}) = 1 /\ IsFiniteSet({c})
  BY FS_Singleton
<1>3. Cardinality({c} \cup {d}) = 2
  BY <1>2, FS_AddElement
<1>4. {c} \cup {d} = {c, d}
  OBVIOUS
<1>5. Cardinality({c, d}) <= Cardinality(S) /\ Cardinality(S) \in Nat
  BY <1>1, FS_Subset, FS_CardinalityType
<1> QED BY <1>3, <1>4, <1>5

LEMMA CallsAreFinite ==
    ASSUME NEW rows \in Seq(RowType), NEW trip
    PROVE  IsFiniteSet(Calls(rows, trip))
<1> DEFINE K == {k \in RowsOfTrip(rows, trip) : Indexed(rows[k])}
           f == [k \in K |-> <<rows[k].fromIndex, rows[k].fromStop>>]
           g == [k \in K |-> <<rows[k].toIndex, rows[k].toStop>>]
           A == {f[k] : k \in K}
           B == {g[k] : k \in K}
<1>1. K \in SUBSET DOMAIN rows
  BY DEF RowsOfTrip, Rides
<1>2. IsFiniteSet(K)
  BY <1>1, RowsAreFinite, FS_Subset
<1>3. IsFiniteSet(A)
  <2>1. f \in Surjection(K, A)
    BY DEF Surjection
  <2> HIDE DEF A, K, f
  <2> QED BY <1>2, <2>1, FS_Surjection
<1>4. IsFiniteSet(B)
  <2>1. g \in Surjection(K, B)
    BY DEF Surjection
  <2> HIDE DEF B, K, g
  <2> QED BY <1>2, <2>1, FS_Surjection
<1>5. Calls(rows, trip) = A \cup B
  <2>1. Calls(rows, trip) = UNION {{f[k], g[k]} : k \in K}
    BY DEF Calls
  <2> HIDE DEF K, f, g
  <2> QED BY <2>1
<1> HIDE DEF A, B
<1> QED BY <1>3, <1>4, <1>5, FS_Union

\* Two kept rides are of one route iff they are of one trip or of trips of one
\* pattern.
LEMMA SignatureTellsPattern ==
    ASSUME columns.rows \in Seq(RowType), Inferable(columns.rows),
           NEW i \in Rides(columns.rows), NEW j \in Rides(columns.rows),
           NEW r, NEW q, RowFits(columns.rows[i], r), RowFits(columns.rows[j], q),
           NEW a, a = columns.rows[i].trip, NEW b, b = columns.rows[j].trip
    PROVE  Signature(columns.rows, a) = Signature(columns.rows, b)
              <=> a = b \/ SamePattern(a, b)
<1> DEFINE R == columns.rows
           own(x) == R[CHOOSE k \in RowsOfTrip(R, x) : TRUE].line
<1>1. /\ i \in RowsOfTrip(R, a) /\ j \in RowsOfTrip(R, b)
      /\ a # Missing /\ b # Missing
  BY DEF RowsOfTrip, Inferable
<1>2. ASSUME NEW x \in {a, b}, NEW k \in RowsOfTrip(R, x)
      PROVE  R[k].line = own(x) /\ k \in Rides(R)
  <2>1. PICK y \in {i, j} : y \in Rides(R) /\ R[y].trip = x
    OBVIOUS
  <2>2. \A n \in RowsOfTrip(R, x) : R[n].line = R[y].line
    BY <2>1 DEF Inferable
  <2>3. (CHOOSE n \in RowsOfTrip(R, x) : TRUE) \in RowsOfTrip(R, x)
    BY <1>2
  <2> QED BY <1>2, <2>2, <2>3 DEF RowsOfTrip
<1>3. /\ Signature(R, a).line = own(a) /\ Signature(R, b).line = own(b)
      /\ Signature(R, a).calls = Calls(R, a) /\ Signature(R, b).calls = Calls(R, b)
      /\ Signature(R, a).alone \in {a, Missing} /\ Signature(R, b).alone \in {b, Missing}
      /\ \A x \in {a, b} : Signature(R, x).alone = Missing
            <=> (\A k \in RowsOfTrip(R, x) : Indexed(R[k])) /\ Cardinality(Calls(R, x)) >= 2
  BY <1>1 DEF Signature
<1>4. Signature(R, a) = Signature(R, b) <=>
         /\ own(a) = own(b) /\ Calls(R, a) = Calls(R, b)
         /\ Signature(R, a).alone = Signature(R, b).alone
  BY DEF Signature
<1> HIDE DEF own
<1>5. ASSUME Signature(R, a) = Signature(R, b), a # b
      PROVE  SamePattern(a, b)
  <2>1. \A x \in {a, b} : \A k \in RowsOfTrip(R, x) : Indexed(R[k])
    BY <1>1, <1>3, <1>4, <1>5
  <2>2. ASSUME NEW x \in {a, b}, NEW y \in {a, b}, NEW k \in RowsOfTrip(R, x)
        PROVE  \E n \in RowsOfTrip(R, y) : R[n].line = R[k].line
    BY <1>1, <1>2, <1>4, <1>5
  <2>3. \A x, y \in {a, b} : Calls(R, x) = Calls(R, y)
    BY <1>4, <1>5
  <2> SUFFICES ASSUME NEW x \in {a, b}, NEW y \in {a, b}, NEW k \in RowsOfTrip(R, x)
               PROVE  /\ Indexed(R[k])
                      /\ \E n \in RowsOfTrip(R, y) : R[n].line = R[k].line
                      /\ \A call \in Calls(R, x) : call \in Calls(R, y)
    BY Zenon DEF SamePattern
  <2>4. \A call \in Calls(R, x) : call \in Calls(R, y)
    BY <2>3
  <2>5. Indexed(R[k])
    BY <2>1
  <2>6. \E n \in RowsOfTrip(R, y) : R[n].line = R[k].line
    BY <2>2, Zenon
  <2> QED BY <2>4, <2>5, <2>6, Zenon
<1>6. ASSUME SamePattern(a, b)
      PROVE  Signature(R, a) = Signature(R, b)
  <2>1. \A x, y \in {a, b} : \A k \in RowsOfTrip(R, x) :
           /\ Indexed(R[k])
           /\ \E n \in RowsOfTrip(R, y) : R[n].line = R[k].line
           /\ \A call \in Calls(R, x) : call \in Calls(R, y)
    BY <1>6 DEF SamePattern
  <2>2. Calls(R, a) = Calls(R, b)
    BY <1>1, <2>1
  <2>3. own(a) = own(b)
    <3>1. PICK n \in RowsOfTrip(R, b) : R[n].line = R[i].line
      BY <1>1, <2>1
    <3> QED BY <1>1, <1>2, <3>1
  <2>4. Cardinality(Calls(R, a)) >= 2
    <3>1. R[i].fromIndex # R[i].toIndex
      <4>1. R[i] \in RowType /\ R[i].line # Missing
        BY RowsAreFinite DEF Rides
      <4>2. Indexed(R[i]) /\ RideFits(R[i], r)
        BY <1>1, <2>1, <4>1 DEF RowFits
      <4> QED BY <4>1, <4>2, RowFields DEF Indexed, RideFits
    <3> DEFINE c == <<R[i].fromIndex, R[i].fromStop>>
               d == <<R[i].toIndex, R[i].toStop>>
    <3>2. c # d /\ c \in Calls(R, a) /\ d \in Calls(R, a)
      <4>1. i \in {n \in RowsOfTrip(R, a) : Indexed(R[n])}
        BY <1>1, <2>1
      <4>2. {c, d} \in {{<<R[n].fromIndex, R[n].fromStop>>, <<R[n].toIndex, R[n].toStop>>} :
                          n \in {n \in RowsOfTrip(R, a) : Indexed(R[n])}}
        BY <4>1
      <4> QED BY <3>1, <4>2 DEF Calls
    <3>3. IsFiniteSet(Calls(R, a))
      BY CallsAreFinite
    <3> QED BY <3>2, <3>3, TwoElements
  <2> QED BY <1>3, <1>4, <2>1, <2>2, <2>3, <2>4
<1> QED BY <1>5, <1>6

------------------------------------------------------------------------------
(***************************************************************************)
(* Building: what the rows before the next one gave.                       *)
(***************************************************************************)
SegmentOfRow(i) == SegmentOf(columns.rows[i], routes[i])

RowSegments == {SegmentOfRow(i) : i \in DOMAIN columns.rows}
Connections == {ConnectionOf(columns.rows[x[1]], x[2]) : x \in (DOMAIN columns.rows) \X Nat}

\* b is what the rows before n gave.
Holds(b, n) ==
    /\ DOMAIN b = {"segments", "connections", "stops", "zones", "lines", "dropped"}
    /\ b.segments \in Seq(RowSegments)
    /\ b.connections \in Seq(Connections)
    /\ Len(b.connections) = Cardinality(Below(KeptRows, n))
    /\ \A i \in Below(KeptRows, n) :
          /\ RowFits(columns.rows[i], routes[i])
          /\ \E k \in DOMAIN b.segments :
                /\ b.connections[PlaceOf(i)] = ConnectionOf(columns.rows[i], k)
                /\ b.segments[k] = SegmentOfRow(i)
          /\ StopsOf(columns.rows[i]) \subseteq b.stops
          /\ ZonesOf(columns.rows[i]) \subseteq b.zones
          /\ columns.rows[i].line # Missing => columns.rows[i].line \in b.lines
    /\ \A k, m \in DOMAIN b.segments : SameRide(b.segments[k], b.segments[m]) => k = m
    /\ \A k \in DOMAIN b.segments :
          /\ \E c \in DOMAIN b.connections : b.connections[c].segment = k
          /\ \E i \in Below(KeptRows, n) : b.segments[k] = SegmentOfRow(i)

LEMMA KeptAreRows ==
    ASSUME columns.rows \in Seq(RowType)
    PROVE  /\ KeptRows \in SUBSET Int /\ IsFiniteSet(KeptRows)
           /\ KeptRows \subseteq DOMAIN columns.rows
           /\ \A i : PlaceOf(i) = PlaceIn(KeptRows, i)
<1>1. KeptRows \subseteq DOMAIN columns.rows
  BY DEF KeptRows
<1>2. KeptRows \in SUBSET Int /\ IsFiniteSet(KeptRows)
  BY <1>1, RowsAreFinite, FS_Subset
<1>3. \A i : PlaceOf(i) = PlaceIn(KeptRows, i)
  BY DEF PlaceOf, PlaceIn
<1> QED BY <1>1, <1>2, <1>3

\* c has the segment of row n, and what b has.
SegmentFound(b, c, n) ==
    \E at \in DOMAIN c.segments :
       /\ c.segments \in Seq(RowSegments)
       /\ c.connections = Append(b.connections, ConnectionOf(columns.rows[n], at))
       /\ at \in Nat /\ c.segments[at] = SegmentOfRow(n)
       /\ DOMAIN c.segments = (DOMAIN b.segments) \cup {at}
       /\ \A k \in DOMAIN b.segments : c.segments[k] = b.segments[k]
       /\ \A k, m \in DOMAIN c.segments : SameRide(c.segments[k], c.segments[m]) => k = m

\* The segment that is made, or the one that is there, is the segment of the row.
LEMMA SegmentIsThere ==
    ASSUME columns.rows \in Seq(RowType), NEW n \in DOMAIN columns.rows, NEW b, Holds(b, n),
           SegmentFits(b.segments, SegmentOfRow(n))
    PROVE  SegmentFound(b, Built(b, columns.rows[n], routes[n]), n)
<1> DEFINE c     == Built(b, columns.rows[n], routes[n])
           new   == SegmentOfRow(n)
           known == {k \in DOMAIN b.segments : SameRide(b.segments[k], new)}
           at    == IF known = {} THEN Len(b.segments) + 1 ELSE CHOOSE k \in known : TRUE
<1>1. /\ b.segments \in Seq(RowSegments) /\ new \in RowSegments
      /\ \A k, m \in DOMAIN b.segments : SameRide(b.segments[k], b.segments[m]) => k = m
  BY DEF Holds, RowSegments
<1>2. /\ DOMAIN b.segments = 1 .. Len(b.segments) /\ Len(b.segments) \in Nat
      /\ \A k \in DOMAIN b.segments : b.segments[k] \in RowSegments
  BY <1>1
<1>3. /\ c.segments = IF known = {} THEN Append(b.segments, new) ELSE b.segments
      /\ c.connections = Append(b.connections, ConnectionOf(columns.rows[n], at))
  BY DEF Built, SegmentOfRow
<1> SUFFICES SegmentFound(b, c, n)
  OBVIOUS
<1> HIDE DEF c
<1> USE DEF SegmentFound
<1>4. \A s, t : SameRide(s, t) <=> s.line # Missing /\ s.from = t.from /\ s.to = t.to
                                     /\ s.line = t.line /\ s.route = t.route
  BY DEF SameRide
<1>5. CASE known = {}
  <2> HIDE DEF new
  <2>1. /\ at = Len(b.segments) + 1 /\ c.segments = Append(b.segments, new)
        /\ c.segments \in Seq(RowSegments) /\ at \in Nat /\ c.segments[at] = new
        /\ DOMAIN c.segments = (DOMAIN b.segments) \cup {at}
        /\ \A k \in DOMAIN b.segments : c.segments[k] = b.segments[k]
    BY <1>1, <1>2, <1>3, <1>5
  <2>2. \A k \in DOMAIN b.segments : ~SameRide(b.segments[k], new) /\ ~SameRide(new, b.segments[k])
    BY <1>4, <1>5
  <2>3. \A k, m \in DOMAIN c.segments : SameRide(c.segments[k], c.segments[m]) => k = m
    <3> SUFFICES ASSUME NEW k \in DOMAIN c.segments, NEW m \in DOMAIN c.segments,
                        SameRide(c.segments[k], c.segments[m])
                 PROVE  k = m
      OBVIOUS
    <3>1. CASE k \in DOMAIN b.segments /\ m \in DOMAIN b.segments
      BY <1>1, <2>1, <3>1
    <3>2. k \in DOMAIN b.segments => m \in DOMAIN b.segments
      BY <2>1, <2>2
    <3>3. m \in DOMAIN b.segments => k \in DOMAIN b.segments
      BY <2>1, <2>2
    <3>4. k \in DOMAIN b.segments \/ k = at
      BY <2>1, Zenon
    <3>5. m \in DOMAIN b.segments \/ m = at
      BY <2>1, Zenon
    <3> QED BY <3>1, <3>2, <3>3, <3>4, <3>5, Zenon
  <2> HIDE DEF at
  <2> WITNESS at \in DOMAIN c.segments
  <2> QED BY <1>3, <2>1, <2>3 DEF new
<1>6. CASE known # {}
  <2>1. at \in known /\ c.segments = b.segments
    BY <1>3, <1>6
  <2>2. /\ at \in DOMAIN b.segments /\ SameRide(b.segments[at], new)
        /\ b.segments[at].time = new.time /\ b.segments[at].length = new.length
    BY <2>1 DEF SegmentFits
  <2>3. PICK i \in DOMAIN columns.rows : b.segments[at] = SegmentOfRow(i)
    BY <1>2, <2>2 DEF RowSegments
  <2>4. b.segments[at] = new
    BY <1>4, <2>2, <2>3 DEF SegmentOfRow, SegmentOf
  <2> HIDE DEF known, at
  <2>5. /\ at \in Nat /\ (DOMAIN b.segments) \cup {at} = DOMAIN b.segments
        /\ c.segments \in Seq(RowSegments)
        /\ \A k, m \in DOMAIN c.segments : SameRide(c.segments[k], c.segments[m]) => k = m
    <3>1. at \in Nat /\ (DOMAIN b.segments) \cup {at} = DOMAIN b.segments
      BY <1>2, <2>2
    <3>2. c.segments \in Seq(RowSegments)
      BY <1>1, <2>1
    <3>3. \A k, m \in DOMAIN c.segments : SameRide(c.segments[k], c.segments[m]) => k = m
      BY <1>1, <2>1
    <3> QED BY <3>1, <3>2, <3>3
  <2> WITNESS at \in DOMAIN c.segments
  <2> QED BY <1>3, <2>1, <2>2, <2>4, <2>5 DEF new
<1> QED BY <1>5, <1>6

LEMMA BuiltHolds ==
    ASSUME columns.rows \in Seq(RowType), NEW n \in KeptRows, NEW b, Holds(b, n),
           RowFits(columns.rows[n], routes[n]), SegmentFits(b.segments, SegmentOfRow(n))
    PROVE  Holds(Built(b, columns.rows[n], routes[n]), n + 1)
<1> DEFINE row  == columns.rows[n]
           c    == Built(b, row, routes[n])
           done == Below(KeptRows, n)
           next_done == Below(KeptRows, n + 1)
<1>0. /\ n \in DOMAIN columns.rows /\ n \in Int
      /\ KeptRows \in SUBSET Int /\ IsFiniteSet(KeptRows)
  BY KeptAreRows
<1>1. PICK at \in DOMAIN c.segments :
         /\ c.segments \in Seq(RowSegments)
         /\ c.connections = Append(b.connections, ConnectionOf(columns.rows[n], at))
         /\ at \in Nat /\ c.segments[at] = SegmentOfRow(n)
         /\ DOMAIN c.segments = (DOMAIN b.segments) \cup {at}
         /\ \A k \in DOMAIN b.segments : c.segments[k] = b.segments[k]
         /\ \A k, m \in DOMAIN c.segments : SameRide(c.segments[k], c.segments[m]) => k = m
  <2>1. SegmentFound(b, c, n)
    BY <1>0, SegmentIsThere
  <2> HIDE DEF c
  <2> QED BY <2>1 DEF SegmentFound
<1>2. /\ c.stops = b.stops \cup StopsOf(row) /\ c.zones = b.zones \cup ZonesOf(row)
      /\ c.lines = IF row.line # Missing THEN b.lines \cup {row.line} ELSE b.lines
  BY DEF Built
<1>3. /\ next_done = done \cup {n}
      /\ Cardinality(next_done) = Cardinality(done) + 1
      /\ Cardinality(done) \in Nat /\ PlaceOf(n) = Cardinality(done) + 1
      /\ \A i \in done : PlaceOf(i) \in 1 .. Cardinality(done)
  <2>1. \A i \in done : i \in KeptRows /\ i < n
    BY DEF Below
  <2>2. \A i \in done : PlaceIn(KeptRows, i) \in 1 .. Cardinality(done)
    BY <1>0, <2>1, PlacesAreInOrder
  <2> QED BY <1>0, <2>2, BelowGrows, BelowIsFinite, PlaceIsNext, KeptAreRows
<1>4. /\ b.connections \in Seq(Connections) /\ Len(b.connections) = Cardinality(done)
      /\ \A i \in done :
          /\ RowFits(columns.rows[i], routes[i])
          /\ \E k \in DOMAIN b.segments :
                /\ b.connections[PlaceOf(i)] = ConnectionOf(columns.rows[i], k)
                /\ b.segments[k] = SegmentOfRow(i)
          /\ StopsOf(columns.rows[i]) \subseteq b.stops
          /\ ZonesOf(columns.rows[i]) \subseteq b.zones
          /\ columns.rows[i].line # Missing => columns.rows[i].line \in b.lines
      /\ \A k \in DOMAIN b.segments :
          /\ \E x \in DOMAIN b.connections : b.connections[x].segment = k
          /\ \E i \in done : b.segments[k] = SegmentOfRow(i)
  BY DEF Holds
<1> HIDE DEF c, done, next_done
<1>5. ConnectionOf(row, at) \in Connections /\ ConnectionOf(row, at).segment = at
  <2>1. <<n, at>> \in (DOMAIN columns.rows) \X Nat
    BY <1>0, <1>1
  <2> QED BY <2>1 DEF Connections, ConnectionOf
<1>6. /\ c.connections \in Seq(Connections)
      /\ Len(c.connections) = Cardinality(next_done)
      /\ DOMAIN c.connections = (DOMAIN b.connections) \cup {PlaceOf(n)}
      /\ c.connections[PlaceOf(n)] = ConnectionOf(row, at)
      /\ \A x \in DOMAIN b.connections : c.connections[x] = b.connections[x]
      /\ \A i \in done : PlaceOf(i) \in DOMAIN b.connections
  BY <1>1, <1>3, <1>4, <1>5
<1>7. ASSUME NEW i \in next_done
      PROVE  /\ RowFits(columns.rows[i], routes[i])
             /\ \E k \in DOMAIN c.segments :
                   /\ c.connections[PlaceOf(i)] = ConnectionOf(columns.rows[i], k)
                   /\ c.segments[k] = SegmentOfRow(i)
             /\ StopsOf(columns.rows[i]) \subseteq c.stops
             /\ ZonesOf(columns.rows[i]) \subseteq c.zones
             /\ columns.rows[i].line # Missing => columns.rows[i].line \in c.lines
  <2>1. CASE i = n
    BY <1>1, <1>2, <1>6, <2>1
  <2>2. CASE i \in done
    <3>1. PICK k \in DOMAIN b.segments :
                /\ b.connections[PlaceOf(i)] = ConnectionOf(columns.rows[i], k)
                /\ b.segments[k] = SegmentOfRow(i)
      BY <1>4, <2>2
    <3>2. /\ k \in DOMAIN c.segments /\ c.segments[k] = SegmentOfRow(i)
          /\ c.connections[PlaceOf(i)] = ConnectionOf(columns.rows[i], k)
      BY <1>1, <1>6, <2>2, <3>1
    <3>3. b.stops \subseteq c.stops /\ b.zones \subseteq c.zones /\ b.lines \subseteq c.lines
      BY <1>2
    <3> QED BY <1>4, <2>2, <3>2, <3>3
  <2> QED BY <1>3, <2>1, <2>2
<1>8. ASSUME NEW k \in DOMAIN c.segments
      PROVE  /\ \E x \in DOMAIN c.connections : c.connections[x].segment = k
             /\ \E i \in next_done : c.segments[k] = SegmentOfRow(i)
  <2>1. CASE k = at
    BY <1>1, <1>3, <1>5, <1>6, <2>1
  <2>2. CASE k \in DOMAIN b.segments
    <3>1. PICK x \in DOMAIN b.connections : b.connections[x].segment = k
      BY <1>4, <2>2
    <3>2. PICK i \in done : b.segments[k] = SegmentOfRow(i)
      BY <1>4, <2>2
    <3>3. x \in DOMAIN c.connections /\ c.connections[x].segment = k
      BY <1>6, <3>1
    <3>4. i \in next_done /\ c.segments[k] = SegmentOfRow(i)
      BY <1>1, <1>3, <2>2, <3>2
    <3> QED BY <3>3, <3>4
  <2> QED BY <1>1, <2>1, <2>2
<1>9. DOMAIN c = {"segments", "connections", "stops", "zones", "lines", "dropped"}
  BY DEF c, Built
<1>10. Holds(c, n + 1)
  BY <1>9, <1>1, <1>6, <1>7, <1>8 DEF Holds, next_done
<1> QED BY <1>10 DEF c

\* The routes of the rows are those the file names, or those that are found.
RoutesFound ==
    IF columns.given THEN routes = [i \in DOMAIN columns.rows |-> columns.rows[i].route]
    ELSE routes = Inferred(columns.rows) /\ Inferable(columns.rows)

\* All rows are behind.
AllBuilt ==
    /\ columns.rows \in Seq(RowType) /\ RoutesFound
    /\ next \in Nat /\ next > Len(columns.rows) /\ Holds(built, next)
    /\ built.zones \subseteq columns.zones

LEMMA AllAreKept ==
    ASSUME AllBuilt
    PROVE  Below(KeptRows, next) = KeptRows
<1>1. \A i \in KeptRows : i < next
  BY KeptAreRows, RowsAreFinite DEF AllBuilt
<1> QED BY <1>1, Zenon DEF Below

LEMMA ConnectionsAreTold ==
    ASSUME AllBuilt
    PROVE  ConnectionsTold
<1>1. /\ Len(built.connections) = Cardinality(KeptRows)
      /\ \A k, m \in DOMAIN built.segments :
            SameRide(built.segments[k], built.segments[m]) => k = m
      /\ \A k \in DOMAIN built.segments :
            \E c \in DOMAIN built.connections : built.connections[c].segment = k
  BY AllAreKept DEF AllBuilt, Holds
<1>2. ASSUME NEW i \in KeptRows
      PROVE  LET row == columns.rows[i]
                 c   == built.connections[PlaceOf(i)]
                 s   == built.segments[c.segment]
             IN
             /\ c.dep = row.dep /\ c.arr = row.arr /\ c.trip = row.trip /\ c.fare = row.fare
             /\ s.from = From(row) /\ s.to = To(row) /\ s.line = row.line
             /\ s.time = row.time /\ s.length = row.length
             /\ row.line # Missing => s.time = c.arr - c.dep
             /\ columns.given => s.route = row.route
  <2> DEFINE row == columns.rows[i]
             c   == built.connections[PlaceOf(i)]
             s   == built.segments[c.segment]
  <2>1. /\ RowFits(row, routes[i])
        /\ \E k \in DOMAIN built.segments :
              /\ c = ConnectionOf(row, k) /\ built.segments[k] = SegmentOfRow(i)
    <3>1. Below(KeptRows, next) = KeptRows /\ Holds(built, next)
      BY AllAreKept DEF AllBuilt
    <3> QED BY <3>1 DEF Holds
  <2>2. /\ c.dep = row.dep /\ c.arr = row.arr /\ c.trip = row.trip /\ c.fare = row.fare
        /\ s = SegmentOf(row, routes[i])
    BY <1>2, <2>1 DEF ConnectionOf, SegmentOfRow
  <2>3. /\ s.from = From(row) /\ s.to = To(row) /\ s.line = row.line
        /\ s.time = row.time /\ s.length = row.length /\ s.route = routes[i]
    BY <2>2 DEF SegmentOf
  <2>4. row.line # Missing => row.time = row.arr - row.dep
    BY <2>1 DEF RowFits, RideFits
  <2>5. columns.given => routes[i] = row.route
    BY <1>2, KeptAreRows DEF AllBuilt, RoutesFound
  <2> HIDE DEF row, s, c
  <2>6. /\ c.dep = row.dep /\ c.arr = row.arr /\ c.trip = row.trip /\ c.fare = row.fare
        /\ s.from = From(row) /\ s.to = To(row) /\ s.line = row.line
        /\ s.time = row.time /\ s.length = row.length
        /\ row.line # Missing => s.time = c.arr - c.dep
        /\ columns.given => s.route = row.route
    BY <2>2, <2>3, <2>4, <2>5
  <2> QED BY <2>6 DEF row, c, s
<1> QED BY <1>1, <1>2, Zenon DEF ConnectionsTold

LEMMA RoutesAreTold ==
    ASSUME AllBuilt
    PROVE  RoutesTold
<1> SUFFICES ASSUME ~columns.given, NEW i \in KeptRows, NEW j \in KeptRows
             PROVE  LET s == built.segments[built.connections[PlaceOf(i)].segment]
                        t == built.segments[built.connections[PlaceOf(j)].segment]
                        a == columns.rows[i].trip
                        b == columns.rows[j].trip
                    IN  s.line # Missing /\ t.line # Missing =>
                           ((s.route = t.route) <=> (a = b \/ SamePattern(a, b)))
  BY DEF RoutesTold
<1> DEFINE s == built.segments[built.connections[PlaceOf(i)].segment]
           t == built.segments[built.connections[PlaceOf(j)].segment]
           a == columns.rows[i].trip
           b == columns.rows[j].trip
<1> SUFFICES ASSUME s.line # Missing, t.line # Missing
             PROVE  (s.route = t.route) <=> (a = b \/ SamePattern(a, b))
  OBVIOUS
<1>1. ASSUME NEW k \in KeptRows,
             NEW u, u = built.segments[built.connections[PlaceOf(k)].segment]
      PROVE  /\ RowFits(columns.rows[k], routes[k])
             /\ u.line = columns.rows[k].line /\ u.route = routes[k]
             /\ u.line # Missing => k \in Rides(columns.rows)
  <2>1. /\ RowFits(columns.rows[k], routes[k])
        /\ \E x \in DOMAIN built.segments :
              /\ built.connections[PlaceOf(k)] = ConnectionOf(columns.rows[k], x)
              /\ built.segments[x] = SegmentOfRow(k)
    <3>1. Below(KeptRows, next) = KeptRows /\ Holds(built, next)
      BY AllAreKept DEF AllBuilt
    <3> QED BY <3>1 DEF Holds
  <2>2. u = SegmentOf(columns.rows[k], routes[k])
    BY <1>1, <2>1 DEF ConnectionOf, SegmentOfRow
  <2>3. u.line = columns.rows[k].line /\ u.route = routes[k]
    BY <2>2 DEF SegmentOf
  <2> QED BY <2>1, <2>3, KeptAreRows DEF AllBuilt, Rides
<1>2. /\ RowFits(columns.rows[i], routes[i]) /\ RowFits(columns.rows[j], routes[j])
      /\ s.route = routes[i] /\ t.route = routes[j]
      /\ i \in Rides(columns.rows) /\ j \in Rides(columns.rows)
  BY <1>1
<1>3. /\ columns.rows \in Seq(RowType) /\ Inferable(columns.rows)
      /\ routes = Inferred(columns.rows)
  BY DEF AllBuilt, RoutesFound
<1>4. routes[i] = routes[j] <=> Signature(columns.rows, a) = Signature(columns.rows, b)
  BY <1>2, <1>3, RoutesAreSignatures
<1>5. Signature(columns.rows, a) = Signature(columns.rows, b) <=> a = b \/ SamePattern(a, b)
  BY <1>2, <1>3, SignatureTellsPattern
<1> QED BY <1>2, <1>4, <1>5

LEMMA ZonesAreKnown ==
    ASSUME AllBuilt
    PROVE  ZonesKnown
<1> SUFFICES ASSUME NEW k \in DOMAIN built.segments
             PROVE  /\ \A x \in {built.segments[k].from, built.segments[k].to} :
                          x[2] \in (IF x[1] = "zone" THEN columns.zones ELSE built.stops)
                    /\ built.segments[k].line # Missing => built.segments[k].line \in built.lines
  BY DEF ZonesKnown
<1>1. PICK i \in KeptRows : built.segments[k] = SegmentOfRow(i)
  BY AllAreKept DEF AllBuilt, Holds
<1> DEFINE row == columns.rows[i]
<1>2. /\ RowFits(row, routes[i]) /\ StopsOf(row) \subseteq built.stops
      /\ ZonesOf(row) \subseteq columns.zones
      /\ row.line # Missing => row.line \in built.lines
  BY AllAreKept DEF AllBuilt, Holds
<1>3. /\ built.segments[k].from = From(row) /\ built.segments[k].to = To(row)
      /\ built.segments[k].line = row.line
  BY <1>1 DEF SegmentOfRow, SegmentOf
<1> HIDE DEF row
<1>4. Endpoint(row.fromZone, row.fromStop) /\ Endpoint(row.toZone, row.toStop)
  BY <1>2 DEF RowFits
<1>5. From(row)[2] \in (IF From(row)[1] = "zone" THEN columns.zones ELSE built.stops)
  <2>1. CASE row.fromZone # Missing
    <3>1. From(row) = <<"zone", row.fromZone>> /\ row.fromZone \in ZonesOf(row)
      <4>1. From(row) = <<"zone", row.fromZone>>
        BY <2>1 DEF From
      <4> QED BY <2>1, <4>1 DEF ZonesOf
    <3> QED BY <1>2, <3>1
  <2>2. CASE row.fromZone = Missing
    <3>1. row.fromStop \in StopsOf(row)
      BY <1>4, <2>2 DEF Endpoint, StopsOf
    <3>2. \/ From(row) = <<"stop", row.fromStop>>
          \/ From(row) = <<"stop", row.fromStop, FromPosition(row)>>
      BY <2>2 DEF From
    <3>3. From(row)[1] = "stop" /\ From(row)[2] = row.fromStop
      BY <3>2
    <3> QED BY <1>2, <3>1, <3>3
  <2> QED BY <2>1, <2>2
<1>6. To(row)[2] \in (IF To(row)[1] = "zone" THEN columns.zones ELSE built.stops)
  <2>1. CASE row.toZone # Missing
    <3>1. To(row) = <<"zone", row.toZone>> /\ row.toZone \in ZonesOf(row)
      <4>1. To(row) = <<"zone", row.toZone>>
        BY <2>1 DEF To
      <4> QED BY <2>1, <4>1 DEF ZonesOf
    <3> QED BY <1>2, <3>1
  <2>2. CASE row.toZone = Missing
    <3>1. row.toStop \in StopsOf(row)
      BY <1>4, <2>2 DEF Endpoint, StopsOf
    <3>2. \/ To(row) = <<"stop", row.toStop>>
          \/ To(row) = <<"stop", row.toStop, ToPosition(row)>>
      BY <2>2 DEF To
    <3>3. To(row)[1] = "stop" /\ To(row)[2] = row.toStop
      BY <3>2
    <3> QED BY <1>2, <3>1, <3>3
  <2> QED BY <2>1, <2>2
<1> QED BY <1>2, <1>3, <1>5, <1>6

------------------------------------------------------------------------------
(***************************************************************************)
(* The demand of a matrix: the cells of a table, one row after another.    *)
(***************************************************************************)
LEMMA CellHasPlace ==
    ASSUME NEW n \in Nat \ {0}, NEW c \in 1 .. (n * n)
    PROVE  /\ ((c - 1) \div n) + 1 \in 1 .. n /\ ((c - 1) % n) + 1 \in 1 .. n
           /\ c = n * ((c - 1) \div n) + ((c - 1) % n) + 1
<1> DEFINE q == (c - 1) \div n
           r == (c - 1) % n
<1>0. c - 1 \in Int /\ n * n \in Int /\ 0 <= c - 1 /\ c - 1 < n * n
  OBVIOUS
<1>1. /\ q \in Int /\ r \in Int /\ 0 <= r /\ r < n
      /\ c - 1 = n * q + r
  BY <1>0
<1> HIDE DEF q, r
<1>2. 0 <= q
  <2>1. CASE q < 0
    <3>1. n * (q + 1) <= n * 0
      BY <1>1, <2>1
    <3>2. n * (q + 1) = n * q + n
      BY <1>1
    <3> QED BY <1>0, <1>1, <3>1, <3>2
  <2> QED BY <1>1, <2>1
<1>3. q < n
  <2>1. CASE n <= q
    <3>1. n * n <= n * q
      BY <1>1, <2>1
    <3> QED BY <1>0, <1>1, <3>1
  <2> QED BY <1>1, <2>1
<1> QED BY <1>0, <1>1, <1>2, <1>3 DEF q, r

IsCell(n, i, k, c) == ((c - 1) \div n) + 1 = i /\ ((c - 1) % n) + 1 = k

LEMMA PlaceHasCell ==
    ASSUME NEW n \in Nat \ {0}, NEW i \in 1 .. n, NEW k \in 1 .. n
    PROVE  \E c \in 1 .. (n * n) : IsCell(n, i, k, c)
<1> DEFINE c == n * (i - 1) + k
<1>1. /\ i - 1 \in Nat /\ n * (i - 1) \in Nat /\ n * (n - 1) \in Nat /\ n * n = n * (n - 1) + n
      /\ n * n \in Nat
  OBVIOUS
<1>2. n * (i - 1) <= n * (n - 1)
  OBVIOUS
<1>3. c \in 1 .. (n * n)
  BY <1>1, <1>2
<1> DEFINE q == (c - 1) \div n
           r == (c - 1) % n
<1>4. /\ q \in Int /\ r \in Int /\ 0 <= r /\ r < n /\ c - 1 = n * q + r
  BY <1>1, <1>3
<1>5. n * q + r = n * (i - 1) + (k - 1)
  BY <1>1, <1>4
<1> HIDE DEF q, r
<1>6. ~(q < i - 1)
  <2> SUFFICES ASSUME q < i - 1 PROVE FALSE
    OBVIOUS
  <2>1. n * (q + 1) <= n * (i - 1)
    BY <1>1, <1>4
  <2>2. n * (q + 1) = n * q + n /\ n * q \in Int
    BY <1>4
  <2> QED BY <1>1, <1>4, <1>5, <2>1, <2>2
<1>7. ~(q > i - 1)
  <2> SUFFICES ASSUME q > i - 1 PROVE FALSE
    OBVIOUS
  <2>1. n * i <= n * q
    BY <1>1, <1>4
  <2>2. n * i = n * (i - 1) + n /\ n * q \in Int /\ n * i \in Int
    BY <1>4
  <2> QED BY <1>1, <1>4, <1>5, <2>1, <2>2
<1>8. q = i - 1
  BY <1>1, <1>4, <1>6, <1>7
<1>9. r = k - 1
  BY <1>1, <1>4, <1>5, <1>8
<1>10. ((c - 1) \div n) + 1 = i /\ ((c - 1) % n) + 1 = k
  BY <1>1, <1>8, <1>9 DEF q, r
<1> HIDE DEF c
<1> QED BY <1>3, <1>10 DEF IsCell

\* g says of each entry which cell it is.
Picks(g, F, N) ==
    /\ DOMAIN Positive(F) = DOMAIN g /\ IsFiniteSet(DOMAIN g)
    /\ \A e \in DOMAIN g :
          /\ g[e] \in 1 .. N /\ F[g[e]].passengers > 0
          /\ Positive(F)[e] = F[g[e]]
          /\ \A f \in DOMAIN g : g[e] = g[f] => e = f
    /\ \A c \in 1 .. N : F[c].passengers > 0 => \E e \in DOMAIN g : g[e] = c

\* The positive cells keep their order, and none is left out or there twice.
LEMMA PositiveCells ==
    ASSUME NEW F, NEW N \in Nat, DOMAIN F = 1 .. N,
           \A c \in 1 .. N : F[c].passengers \in Int
    PROVE  \E g : Picks(g, F, N)
<1> DEFINE some   == {c \in DOMAIN F : F[c].passengers > 0}
           nth(k) == CHOOSE c \in some : Cardinality({b \in some : b <= c}) = k
           g      == [k \in 1 .. Cardinality(some) |-> nth(k)]
<1>1. some \in SUBSET Int /\ IsFiniteSet(some)
  <2>1. IsFiniteSet(1 .. N) /\ 1 .. N \in SUBSET Int
    BY FS_Interval, 1 \in Int
  <2> QED BY <2>1, FS_Subset
<1>2. Positive(F) = [k \in 1 .. Cardinality(some) |-> F[nth(k)]]
  BY DEF Positive
<1>3. \A c \in some : c \in 1 .. N /\ F[c].passengers > 0
  OBVIOUS
<1>4. \A c \in 1 .. N : F[c].passengers > 0 => c \in some
  OBVIOUS
<1>5. \A c \in some : PlaceIn(some, c) = Cardinality({b \in some : b <= c})
  BY DEF PlaceIn
<1> HIDE DEF some
<1>6. /\ Cardinality(some) \in Nat /\ IsFiniteSet(1 .. Cardinality(some))
      /\ \A c \in some : PlaceIn(some, c) \in 1 .. Cardinality(some)
      /\ \A c, d \in some : PlaceIn(some, c) = PlaceIn(some, d) => c = d
      /\ \A k \in 1 .. Cardinality(some) : \E c \in some : PlaceIn(some, c) = k
  <2> DEFINE count == Cardinality(some)
  <2>1. /\ count \in Nat
        /\ \A c \in some : PlaceIn(some, c) \in 1 .. count
        /\ \A c, d \in some : PlaceIn(some, c) = PlaceIn(some, d) => c = d
        /\ \A k \in 1 .. count : \E c \in some : PlaceIn(some, c) = k
    BY <1>1, PlacesAreTaken, Zenon
  <2> HIDE DEF count
  <2>2. 1 \in Int /\ count \in Int
    BY <2>1
  <2>3. IsFiniteSet(1 .. count)
    BY <2>2, FS_Interval
  <2> QED BY <2>1, <2>3, Zenon DEF count
<1>7. ASSUME NEW k \in 1 .. Cardinality(some)
      PROVE  nth(k) \in some /\ PlaceIn(some, nth(k)) = k
  <2>1. \E c \in some : Cardinality({b \in some : b <= c}) = k
    BY <1>5, <1>6
  <2>2. nth(k) \in some /\ Cardinality({b \in some : b <= nth(k)}) = k
    BY <2>1
  <2> QED BY <1>5, <2>2
<1> HIDE DEF nth
<1>8. DOMAIN g = 1 .. Cardinality(some) /\ \A e \in DOMAIN g : g[e] = nth(e)
  OBVIOUS
<1>9. DOMAIN Positive(F) = DOMAIN g /\ \A e \in DOMAIN g : Positive(F)[e] = F[g[e]]
  BY <1>2, <1>8
<1>10. \A e, f \in DOMAIN g : g[e] = g[f] => e = f
  BY <1>7, <1>8
<1>11. \A c \in 1 .. N : F[c].passengers > 0 => \E e \in DOMAIN g : g[e] = c
  <2> SUFFICES ASSUME NEW c \in 1 .. N, F[c].passengers > 0
               PROVE  \E e \in DOMAIN g : g[e] = c
    OBVIOUS
  <2>1. c \in some /\ PlaceIn(some, c) \in DOMAIN g
    BY <1>4, <1>6, <1>8
  <2>2. nth(PlaceIn(some, c)) = c
    BY <1>6, <1>7, <1>8, <2>1
  <2> QED BY <1>8, <2>1, <2>2
<1>12. \A e \in DOMAIN g : g[e] \in 1 .. N /\ F[g[e]].passengers > 0
  BY <1>3, <1>7, <1>8
<1>13. IsFiniteSet(DOMAIN g)
  BY <1>6, <1>8
<1> HIDE DEF g
<1> WITNESS g
<1> QED BY <1>9, <1>10, <1>11, <1>12, <1>13 DEF Picks

LEMMA MatrixCells ==
    ASSUME NEW m, MatrixFits(m),
           m.destinations \in Seq(Int), m.rows \in Seq([origin : Int, cells : Seq(Int)])
    PROVE  /\ DOMAIN m.destinations = 1 .. Len(m.destinations) /\ DOMAIN m.rows = DOMAIN m.destinations
           /\ Len(m.destinations) \in Nat \ {0}
           /\ \A i \in DOMAIN m.rows : m.rows[i].origin = m.destinations[i]
           /\ \A i, k \in DOMAIN m.destinations :
                 m.rows[i].cells[k] \in Int /\ m.rows[i].cells[k] >= 0
<1> DEFINE n == Len(m.destinations)
<1>1. /\ m.destinations # <<>>
      /\ [i \in DOMAIN m.rows |-> m.rows[i].origin] = m.destinations
      /\ \A i \in DOMAIN m.rows : /\ Len(m.rows[i].cells) >= n
                                   /\ \A k \in DOMAIN m.destinations : m.rows[i].cells[k] >= 0
  BY DEF MatrixFits
<1>2. n \in Nat \ {0} /\ DOMAIN m.destinations = 1 .. n
  BY <1>1
<1>3. /\ DOMAIN m.rows = DOMAIN m.destinations
      /\ \A i \in DOMAIN m.rows : m.rows[i].origin = m.destinations[i]
  BY <1>1, Zenon
<1>4. ASSUME NEW i \in DOMAIN m.destinations, NEW k \in DOMAIN m.destinations
      PROVE  m.rows[i].cells[k] \in Int
  <2>1. m.rows[i] \in [origin : Int, cells : Seq(Int)]
    <3>1. i \in DOMAIN m.rows
      BY <1>3
    <3> DEFINE T == [origin : Int, cells : Seq(Int)]
    <3>2. m.rows \in Seq(T)
      OBVIOUS
    <3> HIDE DEF T
    <3>3. m.rows[i] \in T
      BY <3>1, <3>2
    <3> QED BY <3>3 DEF T
  <2>2. m.rows[i].cells \in Seq(Int) /\ Len(m.rows[i].cells) \in Nat
    BY <2>1
  <2>3. Len(m.rows[i].cells) >= n
    BY <1>1, <1>3
  <2>4. k \in DOMAIN m.rows[i].cells
    <3> DEFINE cells == m.rows[i].cells
    <3>1. cells \in Seq(Int) /\ Len(cells) \in Nat /\ Len(cells) >= n
      BY <2>2, <2>3
    <3>2. k \in 1 .. n
      BY <1>2
    <3> HIDE DEF n, cells
    <3>3. k \in 1 .. Len(cells) /\ DOMAIN cells = 1 .. Len(cells)
      BY <1>2, <3>1, <3>2
    <3> QED BY <3>3, Zenon DEF cells
  <2> DEFINE cells == m.rows[i].cells
  <2> HIDE DEF cells
  <2>5. cells \in Seq(Int) /\ k \in DOMAIN cells
    BY <2>2, <2>4 DEF cells
  <2>6. cells[k] \in Int
    BY <2>5
  <2> QED BY <2>6 DEF cells
<1> QED BY <1>1, <1>2, <1>3, <1>4

\* Entry for entry, D is the cells of m with passengers.
CellsTold(m, D) ==
    /\ \A e \in DOMAIN D : D[e].interval = 1
    /\ \A o, d : \A v \in Int :
          Cardinality({e \in DOMAIN D : /\ D[e].origin = o /\ D[e].destination = d
                                        /\ D[e].passengers = v})
             = IF v > 0 THEN Cardinality(CellsFor(m, o, d, v)) ELSE 0
    /\ \A e \in DOMAIN D :
          CellsFor(m, D[e].origin, D[e].destination, D[e].passengers) # {}

LEMMA MatrixIsTold ==
    ASSUME NEW m, MatrixFits(m),
           m.destinations \in Seq(Int), m.rows \in Seq([origin : Int, cells : Seq(Int)]),
           NEW D, D = MatrixDemand(m)
    PROVE  CellsTold(m, D)
<1> DEFINE n == Len(m.destinations)
           F == [c \in 1 .. (n * n) |->
                   [origin      |-> m.rows[((c - 1) \div n) + 1].origin,
                    destination |-> m.destinations[((c - 1) % n) + 1],
                    interval    |-> 1,
                    passengers  |-> m.rows[((c - 1) \div n) + 1].cells[((c - 1) % n) + 1]]]
           row(c) == ((c - 1) \div n) + 1
           col(c) == ((c - 1) % n) + 1
<1>1. /\ n \in Nat \ {0} /\ DOMAIN m.destinations = 1 .. n /\ n * n \in Nat
      /\ DOMAIN m.rows = 1 .. n
      /\ \A i \in 1 .. n : /\ m.rows[i].origin = m.destinations[i]
                            /\ \A k \in 1 .. n : m.rows[i].cells[k] \in Int
  <2>1. /\ DOMAIN m.destinations = 1 .. n /\ DOMAIN m.rows = DOMAIN m.destinations
        /\ n \in Nat \ {0}
        /\ \A i \in DOMAIN m.rows : m.rows[i].origin = m.destinations[i]
        /\ \A i, k \in DOMAIN m.destinations : m.rows[i].cells[k] \in Int
    BY MatrixCells
  <2> HIDE DEF n
  <2>2. n * n \in Nat
    BY <2>1
  <2> QED BY <2>1, <2>2
<1>2. D = Positive(F)
  BY DEF MatrixDemand
<1> HIDE DEF n
<1>3. ASSUME NEW c \in 1 .. (n * n)
      PROVE  /\ row(c) \in 1 .. n /\ col(c) \in 1 .. n /\ c = n * (row(c) - 1) + col(c)
             /\ F[c].origin = m.destinations[row(c)] /\ F[c].destination = m.destinations[col(c)]
             /\ F[c].interval = 1
             /\ F[c].passengers = m.rows[row(c)].cells[col(c)] /\ F[c].passengers \in Int
  <2>1. row(c) \in 1 .. n /\ col(c) \in 1 .. n /\ c = n * ((c - 1) \div n) + ((c - 1) % n) + 1
    BY <1>1, CellHasPlace
  <2>2. c = n * (row(c) - 1) + col(c)
    <3>1. row(c) - 1 = (c - 1) \div n
      BY <1>1
    <3> QED BY <1>1, <2>1, <3>1
  <2>3. F[c] = [origin      |-> m.rows[row(c)].origin,
                destination |-> m.destinations[col(c)],
                interval    |-> 1,
                passengers  |-> m.rows[row(c)].cells[col(c)]]
    OBVIOUS
  <2> HIDE DEF row, col, F
  <2>4. /\ F[c].origin = m.rows[row(c)].origin /\ F[c].destination = m.destinations[col(c)]
        /\ F[c].interval = 1 /\ F[c].passengers = m.rows[row(c)].cells[col(c)]
    BY <2>3
  <2>5. m.rows[row(c)].origin = m.destinations[row(c)] /\ m.rows[row(c)].cells[col(c)] \in Int
    BY <1>1, <2>1
  <2> QED BY <2>1, <2>2, <2>4, <2>5
<1>4. \A i, k \in 1 .. n : \E c \in 1 .. (n * n) : row(c) = i /\ col(c) = k
  <2> SUFFICES ASSUME NEW i \in 1 .. n, NEW k \in 1 .. n
               PROVE  \E c \in 1 .. (n * n) : row(c) = i /\ col(c) = k
    OBVIOUS
  <2>1. n \in Nat \ {0}
    BY <1>1
  <2>2. \E c \in 1 .. (n * n) : IsCell(n, i, k, c)
    BY <2>1, PlaceHasCell
  <2>3. PICK c \in 1 .. (n * n) : ((c - 1) \div n) + 1 = i /\ ((c - 1) % n) + 1 = k
    BY <2>2 DEF IsCell
  <2>4. row(c) = i /\ col(c) = k
    BY <2>3
  <2> HIDE DEF row, col
  <2> QED BY <2>4
<1>5. DOMAIN F = 1 .. (n * n)
  OBVIOUS
<1> HIDE DEF row, col, F
<1>6. PICK g : /\ DOMAIN Positive(F) = DOMAIN g /\ IsFiniteSet(DOMAIN g)
               /\ \A e \in DOMAIN g :
                     /\ g[e] \in 1 .. (n * n) /\ F[g[e]].passengers > 0
                     /\ Positive(F)[e] = F[g[e]]
                     /\ \A f \in DOMAIN g : g[e] = g[f] => e = f
               /\ \A c \in 1 .. (n * n) : F[c].passengers > 0 => \E e \in DOMAIN g : g[e] = c
  <2>1. n * n \in Nat /\ DOMAIN F = 1 .. (n * n) /\ \A c \in 1 .. (n * n) : F[c].passengers \in Int
    BY <1>1, <1>3, <1>5
  <2>2. \E g : Picks(g, F, n * n)
    BY <2>1, PositiveCells
  <2> QED BY <2>2, Zenon DEF Picks
<1>7. ASSUME NEW e \in DOMAIN D
      PROVE  /\ e \in DOMAIN g /\ row(g[e]) \in 1 .. n /\ col(g[e]) \in 1 .. n
             /\ g[e] = n * (row(g[e]) - 1) + col(g[e])
             /\ D[e].origin = m.destinations[row(g[e])]
             /\ D[e].destination = m.destinations[col(g[e])]
             /\ D[e].interval = 1
             /\ D[e].passengers = m.rows[row(g[e])].cells[col(g[e])] /\ D[e].passengers \in Int
             /\ D[e].passengers > 0
  <2>1. e \in DOMAIN g /\ D[e] = F[g[e]] /\ g[e] \in 1 .. (n * n) /\ F[g[e]].passengers > 0
    BY <1>2, <1>6
  <2> QED BY <1>3, <2>1
<1>8. ASSUME NEW e \in DOMAIN D
      PROVE  CellsFor(m, D[e].origin, D[e].destination, D[e].passengers) # {}
  <2>1. <<row(g[e]), col(g[e])>> \in CellsFor(m, D[e].origin, D[e].destination, D[e].passengers)
    BY <1>1, <1>7 DEF CellsFor
  <2> QED BY <2>1
<1>9. ASSUME NEW o, NEW d, NEW v \in Int
      PROVE  Cardinality({e \in DOMAIN D : /\ D[e].origin = o /\ D[e].destination = d
                                           /\ D[e].passengers = v})
                = IF v > 0 THEN Cardinality(CellsFor(m, o, d, v)) ELSE 0
  <2> DEFINE E == {e \in DOMAIN D : /\ D[e].origin = o /\ D[e].destination = d
                                    /\ D[e].passengers = v}
             C == CellsFor(m, o, d, v)
             h == [e \in E |-> <<row(g[e]), col(g[e])>>]
  <2>1. CASE v <= 0
    <3>1. E = {}
      BY <1>7, <2>1
    <3> HIDE DEF E
    <3>2. Cardinality(E) = 0 /\ ~(v > 0)
      BY <2>1, <3>1, FS_EmptySet
    <3> QED BY <3>2 DEF E
  <2>2. CASE v > 0
    <3>1. \A e \in E : /\ e \in DOMAIN D /\ D[e].origin = o /\ D[e].destination = d
                         /\ D[e].passengers = v
      OBVIOUS
    <3>2. \A e \in DOMAIN D : D[e].origin = o /\ D[e].destination = d /\ D[e].passengers = v => e \in E
      OBVIOUS
    <3>3. /\ \A x : x \in C => x = <<x[1], x[2]>>
          /\ \A i, k : <<i, k>> \in C
               <=> /\ i \in 1 .. n /\ k \in 1 .. n /\ m.destinations[i] = o /\ m.destinations[k] = d
                   /\ m.rows[i].cells[k] = v
      BY <1>1 DEF CellsFor
    <3>4. IsFiniteSet(E)
      <4>1. E \in SUBSET DOMAIN g
        BY <1>2, <1>6
      <4> QED BY <1>6, <4>1, FS_Subset
    <3>5. DOMAIN h = E /\ \A e \in E : h[e] = <<row(g[e]), col(g[e])>>
      OBVIOUS
    <3>6. h \in [E -> C]
      <4>1. \A e \in E : <<row(g[e]), col(g[e])>> \in C
        <5> TAKE e \in E
        <5>1. /\ e \in DOMAIN D /\ D[e].origin = o /\ D[e].destination = d
              /\ D[e].passengers = v
          BY <3>1
        <5>2. /\ row(g[e]) \in 1 .. n /\ col(g[e]) \in 1 .. n
              /\ m.destinations[row(g[e])] = o /\ m.destinations[col(g[e])] = d
              /\ m.rows[row(g[e])].cells[col(g[e])] = v
          BY <1>7, <5>1
        <5> HIDE DEF C, h, E
        <5> QED BY <3>3, <5>2
      <4> QED BY <4>1
    <3> HIDE DEF E, C, h
    <3>7. ASSUME NEW e \in E, NEW f \in E, h[e] = h[f]
          PROVE  e = f
      <4>1. row(g[e]) = row(g[f]) /\ col(g[e]) = col(g[f])
        BY <3>5, <3>7
      <4>2. g[e] = g[f] /\ e \in DOMAIN g /\ f \in DOMAIN g
        BY <1>7, <3>1, <4>1
      <4> QED BY <1>6, <4>2
    <3>8. ASSUME NEW x \in C
          PROVE  \E e \in E : h[e] = x
      <4>1. PICK c \in 1 .. (n * n) : row(c) = x[1] /\ col(c) = x[2]
        BY <1>4, <3>3
      <4>2. /\ F[c].origin = o /\ F[c].destination = d /\ F[c].passengers = v
        <5>1. /\ x[1] \in 1 .. n /\ x[2] \in 1 .. n /\ m.destinations[x[1]] = o
              /\ m.destinations[x[2]] = d /\ m.rows[x[1]].cells[x[2]] = v
          <6> DEFINE i == x[1]
                     k == x[2]
          <6>1. <<i, k>> \in C
            BY <3>3
          <6> HIDE DEF i, k
          <6>2. /\ i \in 1 .. n /\ k \in 1 .. n /\ m.destinations[i] = o
                /\ m.destinations[k] = d /\ m.rows[i].cells[k] = v
            BY <3>3, <6>1
          <6> QED BY <6>2 DEF i, k
        <5> QED BY <1>3, <4>1, <5>1
      <4>3. PICK e \in DOMAIN g : g[e] = c
        BY <1>6, <2>2, <4>2
      <4>4. e \in DOMAIN D /\ D[e] = F[c]
        BY <1>2, <1>6, <4>3
      <4>5. e \in E
        BY <3>2, <4>2, <4>4
      <4>6. h[e] = x
        <5>1. row(g[e]) = x[1] /\ col(g[e]) = x[2]
          BY <4>1, <4>3
        <5> HIDE DEF row, col
        <5>2. <<row(g[e]), col(g[e])>> = <<x[1], x[2]>>
          BY <5>1
        <5> QED BY <3>3, <3>5, <4>5, <5>2, Zenon
      <4> QED BY <4>5, <4>6
    <3>9. h \in Bijection(E, C)
      BY <3>6, <3>7, <3>8 DEF Bijection, Injection, Surjection, IsInjective
    <3>10. Cardinality(E) = Cardinality(C)
      BY <3>4, <3>9, FS_Bijection DEF ExistsBijection
    <3> QED BY <2>2, <3>10 DEF E, C
  <2> QED BY <2>1, <2>2
<1>10. \A e \in DOMAIN D : D[e].interval = 1
  BY <1>7
<1> QED BY <1>8, <1>9, <1>10, Zenon DEF CellsTold

------------------------------------------------------------------------------
(***************************************************************************)
(* The settings: what a file names overrules what that implies.            *)
(***************************************************************************)
LEMMA ExecutionTellsNamed ==
    ASSUME NEW named, DOMAIN named \subseteq DOMAIN Tokens
    PROVE  LET e == Execution(named)
           IN  /\ \A k \in DOMAIN named : e[k] = named[k]
               /\ "projection" \in DOMAIN named =>
                     /\ "formulation" \notin DOMAIN named =>
                           e.formulation = FormulationOf(named.projection)
                     /\ "retention" \notin DOMAIN named =>
                           e.retention = DefaultRetention(named.projection)
<1> DEFINE base      == Preset(IF "formulation" \in DOMAIN named THEN named.formulation ELSE "od_day")
           plain     == [f \in DOMAIN base |->
                           IF f \in DOMAIN named \ {"retention"} THEN named[f] ELSE base[f]]
           projected == IF "projection" \notin DOMAIN named THEN plain
                        ELSE [plain EXCEPT !.retention = DefaultRetention(named.projection)]
           inferred  == IF "projection" \notin DOMAIN named \/ "formulation" \in DOMAIN named
                        THEN projected
                        ELSE [projected EXCEPT
                                !.formulation = FormulationOf(named.projection),
                                !.diagnostic  = named.projection # "od_day_pairs"]
           e         == Execution(named)
           Fields    == {"formulation", "mode", "diagnostic", "origins", "source", "destinations",
                         "projection", "retention"}
<1>1. DOMAIN base = Fields
  BY DEF Preset
<1>2. DOMAIN Tokens \subseteq Fields \ {"diagnostic"}
  BY DEF Tokens
<1>3. e = IF "retention" \in DOMAIN named THEN [inferred EXCEPT !.retention = named.retention]
          ELSE inferred
  BY DEF Execution
<1> HIDE DEF base, e
<1>4. /\ DOMAIN plain = Fields
      /\ \A f \in DOMAIN named \ {"retention"} : plain[f] = named[f]
  BY <1>1, <1>2
<1> HIDE DEF plain
<1>5. /\ DOMAIN projected = Fields
      /\ \A f \in Fields \ {"retention"} : projected[f] = plain[f]
      /\ "projection" \in DOMAIN named => projected.retention = DefaultRetention(named.projection)
  BY <1>4
<1> HIDE DEF projected
<1>6. /\ DOMAIN inferred = Fields
      /\ \A f \in Fields \ {"formulation", "diagnostic"} : inferred[f] = projected[f]
      /\ "formulation" \in DOMAIN named => inferred.formulation = projected.formulation
      /\ "projection" \in DOMAIN named /\ "formulation" \notin DOMAIN named =>
            inferred.formulation = FormulationOf(named.projection)
  BY <1>5
<1> HIDE DEF inferred
<1>7. /\ \A f \in Fields \ {"retention"} : e[f] = inferred[f]
      /\ "retention" \in DOMAIN named => e.retention = named.retention
      /\ "retention" \notin DOMAIN named => e.retention = inferred.retention
  BY <1>3, <1>6
<1>8. ASSUME NEW k \in DOMAIN named
      PROVE  e[k] = named[k]
  <2>1. k \in Fields /\ k # "diagnostic"
    BY <1>2
  <2>2. CASE k = "retention"
    BY <1>7, <2>2
  <2>3. CASE k = "formulation"
    BY <1>4, <1>5, <1>6, <1>7, <2>3
  <2>4. CASE k \notin {"retention", "formulation"}
    BY <1>4, <1>5, <1>6, <1>7, <2>1, <2>4
  <2> QED BY <2>2, <2>3, <2>4
<1>9. "projection" \in DOMAIN named /\ "formulation" \notin DOMAIN named =>
         e.formulation = FormulationOf(named.projection)
  BY <1>6, <1>7
<1>10. "projection" \in DOMAIN named /\ "retention" \notin DOMAIN named =>
          e.retention = DefaultRetention(named.projection)
  BY <1>5, <1>6, <1>7
<1> QED BY <1>8, <1>9, <1>10 DEF e

LEMMA WholeSeconds ==
    ASSUME NEW x, NEW v \in Int, v % One = 0
    PROVE  Seconds(x, v) = (IF InMinutes(x) THEN 60 ELSE 1) * v
<1>1. Whole(v) = v
  BY DEF Whole, One
<1>2. CASE InMinutes(x)
  <2>1. x # <<"search", "maxNumTransfers">>
    BY <1>2 DEF InMinutes
  <2> QED BY <1>2, <2>1 DEF Seconds
<1>3. CASE ~InMinutes(x)
  BY <1>1, <1>3 DEF Seconds
<1> QED BY <1>2, <1>3

\* What the settings of a file say of it.
ParamsTold(root, settings) ==
    LET named == Named(root)
    IN  /\ \A x \in Numbers :
              ValueAt(root, x) % One = 0 =>
                 settings.numbers[x] = (IF InMinutes(x) THEN 60 ELSE 1) * ValueAt(root, x)
        /\ \A k \in DOMAIN named \cap DOMAIN Tokens : settings.execution[k] = named[k]
        /\ "projection" \in DOMAIN named =>
              /\ "formulation" \notin DOMAIN named =>
                    settings.execution.formulation = FormulationOf(named.projection)
              /\ "retention" \notin DOMAIN named =>
                    (settings.execution.retention = "slot"
                       <=> settings.execution.projection = "demand_tasks")

LEMMA SettingsAreTold ==
    ASSUME NEW root, Acceptable(root),
           \A x \in Numbers : IsNumber(root, x) => ValueAt(root, x) \in Int
    PROVE  ParamsTold(root, Mapped(root))
<1> DEFINE s     == Mapped(root)
           named == Named(root)
           known == [k \in DOMAIN named \cap DOMAIN Tokens |-> named[k]]
           e     == Execution(known)
<1>1. s.numbers = [x \in Numbers |-> Seconds(x, ValueAt(root, x))] /\ s.execution = e
  BY DEF Mapped
<1>2. \A x \in Numbers : ValueAt(root, x) \in Int
  BY DEF Acceptable
<1>3. ASSUME NEW x \in Numbers, ValueAt(root, x) % One = 0
      PROVE  s.numbers[x] = (IF InMinutes(x) THEN 60 ELSE 1) * ValueAt(root, x)
  <2>1. s.numbers[x] = Seconds(x, ValueAt(root, x))
    BY <1>1
  <2> QED BY <1>2, <1>3, <2>1, WholeSeconds
<1>4. DOMAIN known = DOMAIN named \cap DOMAIN Tokens /\ \A k \in DOMAIN known : known[k] = named[k]
  OBVIOUS
<1>5. /\ \A k \in DOMAIN known : e[k] = known[k]
      /\ "projection" \in DOMAIN known =>
            /\ "formulation" \notin DOMAIN known =>
                  e.formulation = FormulationOf(known.projection)
            /\ "retention" \notin DOMAIN known =>
                  e.retention = DefaultRetention(known.projection)
  <2> HIDE DEF named
  <2>1. DOMAIN known \subseteq DOMAIN Tokens
    BY <1>4
  <2> HIDE DEF known
  <2> QED BY <2>1, ExecutionTellsNamed
<1>6. {"projection", "formulation", "retention"} \subseteq DOMAIN Tokens
  BY DEF Tokens
<1> HIDE DEF s, named, known, e
<1>7. \A k \in DOMAIN named \cap DOMAIN Tokens : s.execution[k] = named[k]
  BY <1>1, <1>4, <1>5
<1>8. ASSUME "projection" \in DOMAIN named
      PROVE  /\ "formulation" \notin DOMAIN named =>
                   s.execution.formulation = FormulationOf(named.projection)
             /\ "retention" \notin DOMAIN named =>
                   (s.execution.retention = "slot" <=> s.execution.projection = "demand_tasks")
  <2>1. "projection" \in DOMAIN known /\ known.projection = named.projection
    BY <1>4, <1>6, <1>8
  <2>2. \A k \in {"formulation", "retention"} : k \in DOMAIN known <=> k \in DOMAIN named
    BY <1>4, <1>6
  <2>3. s.execution.projection = named.projection
    BY <1>6, <1>7, <1>8
  <2> QED BY <1>1, <1>5, <2>1, <2>2, <2>3 DEF DefaultRetention
<1> QED BY <1>3, <1>7, <1>8, Zenon DEF ParamsTold, s, named

------------------------------------------------------------------------------
(***************************************************************************)
(* The invariant: what is known in each phase.                             *)
(***************************************************************************)
FilesKnown ==
    /\ case \in Cases /\ contents = FilesOf(case) /\ files \subseteq DOMAIN contents
    /\ DOMAIN input = {"capacity", "intervals", "demand", "settings"}

IsFile(path) == path \in DOMAIN contents /\ ~Data(path).folder

\* Where the source found its files when it was made; a directory source ends
\* with its segments.
PathsKnown ==
    phase \notin {"new", "failed"} =>
       /\ SourceOf(case) = "single" => paths.segments = <<"file">> /\ IsFile(<<"file">>)
       /\ SourceOf(case) = "pair" =>
             /\ paths.segments \in {<<"segments">>, <<"7064", "segments">>} /\ IsFile(paths.segments)
             /\ paths.intervals = None => paths.demand = <<"matrix">> /\ IsFile(<<"matrix">>)
             /\ paths.params # None => paths.params = <<"params">> /\ IsFile(<<"params">>)
       /\ SourceOf(case) = "dir" => paths.segments = None /\ phase = "segments"

ColumnsKnown ==
    phase \in {"routes", "rows", "capacity", "demand", "settings", "loaded"} =>
       columns.rows \in Seq(RowType)

RowsKnown ==
    /\ phase \in {"new", "segments", "routes"} => next = 1 /\ built = NothingBuilt
    /\ phase \in {"rows", "capacity", "demand", "settings", "loaded"} =>
          RoutesFound /\ next \in Nat \ {0} /\ Holds(built, next)

RowsDone ==
    phase \in {"capacity", "demand", "settings", "loaded"} =>
       next > Len(columns.rows) /\ built.zones \subseteq columns.zones

DemandKnown ==
    phase \in {"settings", "loaded"} /\ SourceOf(case) = "pair" => DemandTold

SettingsKnown ==
    phase = "loaded" /\ SourceOf(case) = "pair" => SettingsTold(input.settings[1])

LoadInv ==
    FilesKnown /\ PathsKnown /\ ColumnsKnown /\ RowsKnown /\ RowsDone /\ DemandKnown /\ SettingsKnown

LEMMA InitInv ==
    ASSUME Init
    PROVE  LoadInv
<1>1. FilesKnown
  BY DEF Init, FilesKnown
<1>2. PathsKnown /\ ColumnsKnown /\ RowsKnown /\ RowsDone /\ DemandKnown /\ SettingsKnown
  BY DEF Init, PathsKnown, ColumnsKnown, RowsKnown, RowsDone, DemandKnown, SettingsKnown
<1> QED BY <1>1, <1>2 DEF LoadInv

\* What is told of the rows is said of the columns and the routes only.
LEMMA HoldsNext ==
    ASSUME columns' = columns, routes' = routes, Holds(built', next')
    PROVE  Holds(built, next)'
<1>1. KeptRows' = KeptRows
  BY DEF KeptRows
<1>2. RowSegments' = RowSegments
  BY DEF RowSegments, SegmentOfRow
<1>3. Connections' = Connections
  BY DEF Connections
<1>4. \A i : PlaceOf(i)' = PlaceOf(i)
  BY <1>1 DEF PlaceOf
<1>5. \A i : SegmentOfRow(i)' = SegmentOfRow(i)
  BY DEF SegmentOfRow
<1> QED BY <1>1, <1>2, <1>3, <1>4, <1>5, Zenon DEF Holds

\* Nothing the conjuncts speak of changes.
LEMMA StutterKeepsInv ==
    ASSUME LoadInv,
           UNCHANGED <<case, contents, paths, phase, columns, routes, next, built, input>>,
           files' \subseteq DOMAIN contents
    PROVE  LoadInv'
<1>1. FilesKnown'
  BY DEF LoadInv, FilesKnown
<1>2. PathsKnown' /\ ColumnsKnown'
  BY DEF LoadInv, PathsKnown, ColumnsKnown, IsFile, Data
<1>3. RowsKnown' /\ RowsDone'
  <2>1. Holds(built, next) => Holds(built, next)'
    <3>1. Holds(built, next) => Holds(built', next')
      BY Zenon
    <3> QED BY <3>1, HoldsNext
  <2>2. RoutesFound => RoutesFound'
    BY DEF RoutesFound
  <2> QED BY <2>1, <2>2, Zenon DEF LoadInv, RowsKnown, RowsDone
<1>4. DemandKnown'
  <2>1. \A o, d, n : EntriesFor(o, d, n)' = EntriesFor(o, d, n)
    BY DEF EntriesFor
  <2>2. \A m, o, d, n : CellsFor(m, o, d, n)' = CellsFor(m, o, d, n)
    BY DEF CellsFor
  <2>3. DemandTold => DemandTold'
    BY <2>1, <2>2 DEF DemandTold, Data
  <2> QED BY <2>3, Zenon DEF LoadInv, DemandKnown
<1>5. SettingsKnown'
  BY Zenon DEF LoadInv, SettingsKnown, SettingsTold, Data
<1> QED BY <1>1, <1>2, <1>3, <1>4, <1>5 DEF LoadInv

LEMMA FailureKeepsInv ==
    ASSUME LoadInv, phase' = "failed", UNCHANGED <<case, contents, files, input>>
    PROVE  LoadInv'
BY DEF LoadInv, FilesKnown, PathsKnown, ColumnsKnown, RowsKnown, RowsDone, DemandKnown,
       SettingsKnown

\* What the readers leave of the files of the directory.
LEMMA FilesAreRead ==
    ASSUME FilesKnown, NEW path \in DOMAIN contents
    PROVE  /\ path \in {<<"segments">>, <<"7064", "segments">>} => RowsRead(Data(path))
           /\ path = <<"file">>   => TxtRead(Data(path))
           /\ path = <<"matrix">> => MatrixRead(Data(path))
           /\ path = <<"params">> => ParamsRead(Data(path))
BY FilesAssumption DEF FilesKnown, Data

LEMMA OpenKeepsInv ==
    ASSUME LoadInv, Open
    PROVE  LoadInv'
<1>0. phase = "new" /\ UNCHANGED <<case, contents, files, columns, routes, next, built, input>>
  BY DEF Open
<1>1. CASE ~Found
  BY <1>0, <1>1, FailureKeepsInv DEF Open
<1>2. CASE Found
  <2>1. phase' = "segments"
    BY <1>2 DEF Open
  <2>2. \A path : Regular(path) => IsFile(path)
    BY DEF Regular, There, IsFile, LoadInv, FilesKnown
  <2>3. ASSUME SourceOf(case) = "single"
      PROVE  PathsKnown'
    <3>1. paths' = [segments |-> <<"file">>] /\ Regular(<<"file">>)
      BY <1>2, <2>3 DEF Open, Found
    <3> QED BY <1>0, <2>1, <2>2, <2>3, <3>1 DEF PathsKnown, IsFile, Data
  <2>4. ASSUME SourceOf(case) = "dir"
      PROVE  PathsKnown'
    <3>1. paths' = NoPaths
      BY <1>2, <2>4 DEF Open
    <3> QED BY <1>0, <2>1, <2>4, <3>1 DEF PathsKnown, NoPaths
  <2>5. ASSUME SourceOf(case) = "pair"
      PROVE  PathsKnown'
    <3>1. paths' = PairPaths /\ PairFound
      BY <1>2, <2>5 DEF Open, Found
    <3>2. /\ paths'.segments = Segments /\ Regular(Segments)
          /\ paths'.params = Optional(<<"params">>)
          /\ paths'.intervals = (IF There(<<"matrix">>) THEN None ELSE Support("intervals"))
          /\ paths'.demand = (IF There(<<"matrix">>) THEN <<"matrix">> ELSE Support("demand"))
      BY <3>1 DEF PairPaths, PairFound
    <3>3. Segments \in {<<"segments">>, <<"7064", "segments">>}
      BY DEF Segments
    <3>4. paths'.intervals = None => paths'.demand = <<"matrix">> /\ Regular(<<"matrix">>)
      <4>1. Support("intervals") # None
        BY DEF Support, None
      <4> QED BY <3>1, <3>2, <4>1 DEF PairFound, DemandFound
    <3>5. paths'.params # None => paths'.params = <<"params">> /\ Regular(<<"params">>)
      BY <3>2, Zenon DEF Optional
    <3>6. \A path : Regular(path) => IsFile(path)'
      BY <1>0, <2>2 DEF IsFile, Data
    <3>7. IsFile(paths.segments)'
      BY <1>0, <2>2, <3>2 DEF IsFile, Data
    <3>8. /\ paths'.intervals = None => paths'.demand = <<"matrix">> /\ IsFile(<<"matrix">>)'
          /\ paths'.params # None => paths'.params = <<"params">> /\ IsFile(<<"params">>)'
      BY <3>4, <3>5, <3>6, Zenon
    <3> QED BY <1>0, <2>5, <3>2, <3>3, <3>7, <3>8 DEF PathsKnown
  <2>6. PathsKnown'
    <3>1. SourceOf(case) \in {"pair", "single", "dir"}
      BY FilesAssumption DEF LoadInv, FilesKnown
    <3> QED BY <2>3, <2>4, <2>5, <3>1
  <2>7. FilesKnown' /\ RowsKnown'
    BY <1>0, <2>1 DEF LoadInv, FilesKnown, RowsKnown
  <2>8. ColumnsKnown' /\ RowsDone' /\ DemandKnown' /\ SettingsKnown'
    BY <2>1 DEF ColumnsKnown, RowsDone, DemandKnown, SettingsKnown
  <2> QED BY <2>6, <2>7, <2>8 DEF LoadInv
<1> QED BY <1>1, <1>2

LEMMA ReadSegmentsKeepsInv ==
    ASSUME LoadInv, ReadSegments
    PROVE  LoadInv'
<1>0. /\ phase = "segments"
      /\ UNCHANGED <<case, contents, files, paths, routes, next, built, input>>
  BY DEF ReadSegments
<1>1. CASE ~SegmentsReadable
  BY <1>0, <1>1, FailureKeepsInv DEF ReadSegments
<1>2. CASE SegmentsReadable
  <2>1. /\ phase' = "routes"
        /\ columns' = IF SourceOf(case) = "pair" THEN CsvColumns(Data(paths.segments))
                      ELSE TxtColumns(Data(paths.segments))
    BY <1>2 DEF ReadSegments
  <2>2. SourceOf(case) \in {"pair", "single"}
    <3>1. SourceOf(case) \in {"pair", "single", "dir"}
      BY FilesAssumption DEF LoadInv, FilesKnown
    <3> QED BY <1>0, <1>2, <3>1 DEF LoadInv, PathsKnown, SegmentsReadable
  <2>3. ColumnsKnown'
    <3> DEFINE file == Data(paths.segments)
    <3>1. CASE SourceOf(case) = "pair"
      <4>1. /\ paths.segments \in {<<"segments">>, <<"7064", "segments">>}
            /\ paths.segments \in DOMAIN contents /\ ~file.folder
        BY <1>0, <3>1 DEF LoadInv, PathsKnown, IsFile
      <4>2. RowsRead(file) /\ Readable(file)
        BY <1>2, <3>1, <4>1, FilesAreRead DEF LoadInv, SegmentsReadable
      <4>3. file.rows \in Seq(RowType)
        BY <4>1, <4>2 DEF RowsRead
      <4>4. columns'.rows = file.rows
        BY <2>1, <3>1 DEF CsvColumns
      <4> QED BY <4>3, <4>4 DEF ColumnsKnown
    <3>2. CASE SourceOf(case) = "single"
      <4>1. paths.segments = <<"file">> /\ <<"file">> \in DOMAIN contents /\ ~file.folder
        BY <1>0, <3>2 DEF LoadInv, PathsKnown, IsFile
      <4>2. TxtRead(file) /\ TxtReadable(file)
        BY <1>2, <3>2, <4>1, FilesAreRead DEF LoadInv, SegmentsReadable
      <4>3. file.rows \in Seq(RowType)
        BY <4>1, <4>2 DEF TxtRead
      <4>4. columns'.rows = [i \in DOMAIN file.rows |->
                  [file.rows[i] EXCEPT !.trip = Missing, !.route = Missing,
                                       !.fromIndex = Missing, !.toIndex = Missing]]
        BY <2>1, <3>2 DEF TxtColumns
      <4> HIDE DEF file
      <4>5. \A row \in RowType : [row EXCEPT !.trip = Missing, !.route = Missing,
                                  !.fromIndex = Missing, !.toIndex = Missing] \in RowType
        <5>1. Missing \in Int
          BY DEF Missing
        <5>2. ASSUME NEW row \in RowType
              PROVE  /\ [row EXCEPT !.trip = Missing] \in RowType
                     /\ [row EXCEPT !.route = Missing] \in RowType
                     /\ [row EXCEPT !.fromIndex = Missing] \in RowType
                     /\ [row EXCEPT !.toIndex = Missing] \in RowType
          BY <5>1 DEF RowType
        <5>3. ASSUME NEW row \in RowType
              PROVE  [row EXCEPT !.trip = Missing, !.route = Missing,
                                 !.fromIndex = Missing, !.toIndex = Missing] \in RowType
          <6> DEFINE a == [row EXCEPT !.trip = Missing]
                     b == [a EXCEPT !.route = Missing]
                     c == [b EXCEPT !.fromIndex = Missing]
          <6>1. a \in RowType
            BY <5>2
          <6>2. b \in RowType
            <7> HIDE DEF a
            <7> QED BY <5>2, <6>1
          <6>3. c \in RowType
            <7> HIDE DEF b
            <7> QED BY <5>2, <6>2
          <6>4. [c EXCEPT !.toIndex = Missing] \in RowType
            <7> HIDE DEF c
            <7> QED BY <5>2, <6>3
          <6> QED BY <6>4
        <5> QED BY <5>3
      <4>6. DOMAIN file.rows = 1 .. Len(file.rows) /\ Len(file.rows) \in Nat
        BY <4>3
      <4>7. \A i \in 1 .. Len(file.rows) :
               [file.rows[i] EXCEPT !.trip = Missing, !.route = Missing,
                                    !.fromIndex = Missing, !.toIndex = Missing] \in RowType
        BY <4>3, <4>5, <4>6, ElementOfSeq
      <4>8. columns'.rows \in Seq(RowType)
        <5> DEFINE told(i) == [file.rows[i] EXCEPT !.trip = Missing, !.route = Missing,
                                               !.fromIndex = Missing, !.toIndex = Missing]
        <5>1. \A i \in 1 .. Len(file.rows) : told(i) \in RowType
          BY <4>7
        <5>2. columns'.rows = [i \in 1 .. Len(file.rows) |-> told(i)]
          BY <4>4, <4>6
        <5> HIDE DEF told
        <5> QED BY <4>6, <5>1, <5>2
      <4> QED BY <4>8 DEF ColumnsKnown
    <3> QED BY <2>2, <3>1, <3>2
  <2>4. FilesKnown' /\ RowsKnown'
    BY <1>0, <2>1 DEF LoadInv, FilesKnown, RowsKnown
  <2>5. PathsKnown'
    BY <1>0, <2>1, <2>2 DEF LoadInv, PathsKnown, IsFile, Data
  <2>6. RowsDone' /\ DemandKnown' /\ SettingsKnown'
    BY <2>1 DEF RowsDone, DemandKnown, SettingsKnown
  <2> QED BY <2>3, <2>4, <2>5, <2>6 DEF LoadInv
<1> QED BY <1>1, <1>2

\* Where the files are stays known while the phases go on.
LEMMA PathsStay ==
    ASSUME LoadInv, UNCHANGED <<case, contents, paths>>,
           phase \notin {"new", "segments", "failed"}
    PROVE  PathsKnown'
BY DEF LoadInv, PathsKnown, IsFile, Data

LEMMA FindRoutesKeepsInv ==
    ASSUME LoadInv, FindRoutes
    PROVE  LoadInv'
<1>0. /\ phase = "routes" /\ next = 1 /\ built = NothingBuilt
      /\ UNCHANGED <<case, contents, files, paths, columns, next, built, input>>
  BY DEF FindRoutes, LoadInv, RowsKnown
<1>1. CASE phase' = "failed"
  BY <1>0, <1>1, FailureKeepsInv
<1>2. CASE phase' # "failed"
  <2>1. /\ phase' = "rows"
        /\ columns.given \/ Inferable(columns.rows)
        /\ routes' = IF columns.given THEN [i \in DOMAIN columns.rows |-> columns.rows[i].route]
                     ELSE IF Inferable(columns.rows) THEN Inferred(columns.rows) ELSE routes
    BY <1>2, Zenon DEF FindRoutes
  <2>2. RoutesFound'
    BY <1>0, <2>1 DEF RoutesFound
  <2>3. columns.rows \in Seq(RowType)
    BY <1>0 DEF LoadInv, ColumnsKnown
  <2>4. Below(KeptRows, 1) = {}
    <3>1. \A i \in KeptRows : ~(i < 1)
      BY <2>3, KeptAreRows, RowsAreFinite
    <3> QED BY <3>1, Zenon DEF Below
  <2>5. Holds(built, next)'
    <3>1. /\ KeptRows' = KeptRows /\ built' = NothingBuilt /\ next' = 1
      BY <1>0 DEF KeptRows
    <3>2. Below(KeptRows', 1) = {} /\ Cardinality({}) = 0
      BY <2>4, <3>1, FS_EmptySet
    <3>3. /\ DOMAIN NothingBuilt = {"segments", "connections", "stops", "zones", "lines", "dropped"}
          /\ NothingBuilt.segments = <<>> /\ NothingBuilt.connections = <<>>
      BY DEF NothingBuilt
    <3>4. /\ <<>> \in Seq(RowSegments) /\ <<>> \in Seq(Connections) /\ Len(<<>>) = 0
          /\ DOMAIN <<>> = {}
      OBVIOUS
    <3>5. /\ NothingBuilt.segments \in Seq(RowSegments)'
          /\ NothingBuilt.connections \in Seq(Connections)'
          /\ Len(NothingBuilt.connections) = 0
          /\ DOMAIN NothingBuilt.segments = {}
      BY <1>0, <3>3, <3>4 DEF RowSegments, Connections, SegmentOfRow
    <3> QED BY <3>1, <3>2, <3>3, <3>5 DEF Holds
  <2>6. ColumnsKnown' /\ RowsKnown'
    BY <1>0, <2>1, <2>2, <2>3, <2>5 DEF ColumnsKnown, RowsKnown
  <2>7. FilesKnown' /\ PathsKnown'
    BY <1>0, <2>1, PathsStay DEF LoadInv, FilesKnown
  <2>8. RowsDone' /\ DemandKnown' /\ SettingsKnown'
    <3>1. phase' = "rows"
      BY <2>1
    <3> QED BY <3>1 DEF RowsDone, DemandKnown, SettingsKnown
  <2> QED BY <2>6, <2>7, <2>8 DEF LoadInv
<1> QED BY <1>1, <1>2

\* The rows stay as they are while the next ones are taken.
LEMMA RowStepKeepsInv ==
    ASSUME LoadInv, phase = "rows", phase' = "rows", Holds(built', next'), next' \in Nat \ {0},
           UNCHANGED <<case, contents, files, paths, columns, routes, input>>
    PROVE  LoadInv'
<1>1. Holds(built, next)'
  BY HoldsNext
<1>2. RoutesFound' /\ columns.rows \in Seq(RowType)
  BY DEF LoadInv, RowsKnown, RoutesFound, ColumnsKnown
<1>3. RowsKnown' /\ ColumnsKnown'
  BY <1>1, <1>2 DEF RowsKnown, ColumnsKnown
<1>4. FilesKnown' /\ PathsKnown'
  BY PathsStay DEF LoadInv, FilesKnown
<1>5. RowsDone' /\ DemandKnown' /\ SettingsKnown'
  BY DEF RowsDone, DemandKnown, SettingsKnown
<1> QED BY <1>3, <1>4, <1>5 DEF LoadInv

LEMMA SamePartsHold ==
    ASSUME NEW b, NEW n, NEW c, NEW m, Holds(b, n), Below(KeptRows, m) = Below(KeptRows, n),
           DOMAIN c = DOMAIN b, c.segments = b.segments, c.connections = b.connections,
           c.stops = b.stops, c.zones = b.zones, c.lines = b.lines
    PROVE  Holds(c, m)
<1> DEFINE done == Below(KeptRows, n)
<1>1. /\ DOMAIN b = {"segments", "connections", "stops", "zones", "lines", "dropped"}
      /\ b.segments \in Seq(RowSegments) /\ b.connections \in Seq(Connections)
      /\ Len(b.connections) = Cardinality(done)
  BY DEF Holds
<1>2. \A i \in done :
          /\ RowFits(columns.rows[i], routes[i])
          /\ \E k \in DOMAIN b.segments :
                /\ b.connections[PlaceOf(i)] = ConnectionOf(columns.rows[i], k)
                /\ b.segments[k] = SegmentOfRow(i)
          /\ StopsOf(columns.rows[i]) \subseteq b.stops
          /\ ZonesOf(columns.rows[i]) \subseteq b.zones
          /\ columns.rows[i].line # Missing => columns.rows[i].line \in b.lines
  BY DEF Holds
<1>3. \A k, x \in DOMAIN b.segments : SameRide(b.segments[k], b.segments[x]) => k = x
  BY DEF Holds
<1>4. \A k \in DOMAIN b.segments :
          /\ \E x \in DOMAIN b.connections : b.connections[x].segment = k
          /\ \E i \in done : b.segments[k] = SegmentOfRow(i)
  BY DEF Holds
<1> HIDE DEF done
<1>5. Below(KeptRows, m) = done
  BY DEF done
<1>6. /\ DOMAIN c = {"segments", "connections", "stops", "zones", "lines", "dropped"}
      /\ c.segments \in Seq(RowSegments) /\ c.connections \in Seq(Connections)
      /\ Len(c.connections) = Cardinality(done)
  BY <1>1
<1>7. \A i \in done :
          /\ RowFits(columns.rows[i], routes[i])
          /\ \E k \in DOMAIN c.segments :
                /\ c.connections[PlaceOf(i)] = ConnectionOf(columns.rows[i], k)
                /\ c.segments[k] = SegmentOfRow(i)
          /\ StopsOf(columns.rows[i]) \subseteq c.stops
          /\ ZonesOf(columns.rows[i]) \subseteq c.zones
          /\ columns.rows[i].line # Missing => columns.rows[i].line \in c.lines
  BY <1>2
<1>8. \A k, x \in DOMAIN c.segments : SameRide(c.segments[k], c.segments[x]) => k = x
  BY <1>3
<1>9. \A k \in DOMAIN c.segments :
          /\ \E x \in DOMAIN c.connections : c.connections[x].segment = k
          /\ \E i \in done : c.segments[k] = SegmentOfRow(i)
  BY <1>4
<1> QED BY <1>5, <1>6, <1>7, <1>8, <1>9, Zenon DEF Holds

LEMMA DropRowKeepsInv ==
    ASSUME LoadInv, DropRow
    PROVE  LoadInv'
<1>1. /\ phase = "rows" /\ columns.rows \in Seq(RowType)
      /\ next \in Nat \ {0} /\ Holds(built, next)
  BY DEF DropRow, LoadInv, ColumnsKnown, RowsKnown
<1>2. /\ phase' = "rows" /\ next' = next + 1 /\ built' = [built EXCEPT !.dropped = @ + 1]
      /\ UNCHANGED <<case, contents, files, paths, columns, routes, input>>
  BY DEF DropRow
<1>3. next \notin KeptRows
  BY DEF DropRow, KeptRows, Row
<1>4. Below(KeptRows, next + 1) = Below(KeptRows, next)
  BY <1>1, <1>3, KeptAreRows, BelowGrows
<1>5. /\ DOMAIN built' = DOMAIN built
      /\ built'.segments = built.segments /\ built'.connections = built.connections
      /\ built'.stops = built.stops /\ built'.zones = built.zones /\ built'.lines = built.lines
  BY <1>1, <1>2 DEF Holds
<1>6. Holds(built', next')
  BY <1>1, <1>2, <1>4, <1>5, SamePartsHold
<1> QED BY <1>1, <1>2, <1>6, RowStepKeepsInv

LEMMA TakeRowKeepsInv ==
    ASSUME LoadInv, TakeRow
    PROVE  LoadInv'
<1>1. /\ phase = "rows" /\ columns.rows \in Seq(RowType)
      /\ next \in Nat \ {0} /\ Holds(built, next)
  BY DEF TakeRow, LoadInv, ColumnsKnown, RowsKnown
<1>2. UNCHANGED <<case, contents, files, paths, columns, routes, input>>
  BY DEF TakeRow
<1>3. CASE ~(RowFits(Row, Route) /\ SegmentFits(built.segments, SegmentOf(Row, Route)))
  BY <1>2, <1>3, FailureKeepsInv DEF TakeRow
<1>4. CASE RowFits(Row, Route) /\ SegmentFits(built.segments, SegmentOf(Row, Route))
  <2>1. phase' = "rows" /\ next' = next + 1 /\ built' = Built(built, Row, Route)
    BY <1>1, <1>4 DEF TakeRow
  <2>2. next \in KeptRows
    <3>1. next \in DOMAIN columns.rows
      BY <1>1, RowsAreFinite DEF TakeRow
    <3> QED BY <3>1 DEF TakeRow, KeptRows, Row
  <2>3. Holds(built', next')
    BY <1>1, <1>4, <2>1, <2>2, BuiltHolds DEF Row, Route, SegmentOfRow
  <2> QED BY <1>1, <1>2, <2>1, <2>3, RowStepKeepsInv
<1> QED BY <1>3, <1>4

\* Nothing more is read of the rows.
LEMMA RowsStay ==
    ASSUME LoadInv, UNCHANGED <<columns, routes, next, built>>,
           phase \in {"capacity", "demand", "settings"}
    PROVE  ColumnsKnown' /\ RowsDone' /\ (phase' \notin {"new", "segments", "routes"} => RowsKnown')
<1>1. Holds(built, next)'
  <2>1. Holds(built', next')
    BY Zenon DEF LoadInv, RowsKnown
  <2> QED BY <2>1, HoldsNext
<1>2. /\ columns.rows \in Seq(RowType) /\ RoutesFound /\ next \in Nat \ {0}
      /\ next > Len(columns.rows) /\ built.zones \subseteq columns.zones
  BY DEF LoadInv, ColumnsKnown, RowsKnown, RowsDone
<1>3. RoutesFound'
  BY <1>2 DEF RoutesFound
<1>4. ColumnsKnown' /\ RowsDone'
  BY <1>2 DEF ColumnsKnown, RowsDone
<1> QED BY <1>1, <1>2, <1>3, <1>4 DEF RowsKnown

LEMMA FinishSegmentsKeepsInv ==
    ASSUME LoadInv, FinishSegments
    PROVE  LoadInv'
<1>1. /\ phase = "rows" /\ next > Len(columns.rows)
      /\ UNCHANGED <<case, contents, files, paths, columns, routes, next, built, input>>
  BY DEF FinishSegments
<1>2. CASE ~(built.zones \subseteq columns.zones)
  BY <1>1, <1>2, FailureKeepsInv DEF FinishSegments
<1>3. CASE built.zones \subseteq columns.zones
  <2>1. phase' = IF SourceOf(case) = "single" THEN "loaded" ELSE "capacity"
    BY <1>3 DEF FinishSegments
  <2>2. columns.rows \in Seq(RowType) /\ RoutesFound /\ next \in Nat \ {0} /\ Holds(built, next)
    BY <1>1 DEF LoadInv, ColumnsKnown, RowsKnown
  <2>3. Holds(built, next)'
    <3>1. Holds(built', next')
      BY <1>1, <2>2, Zenon
    <3> QED BY <1>1, <3>1, HoldsNext
  <2>4. RoutesFound'
    BY <1>1, <2>2 DEF RoutesFound
  <2>5. ColumnsKnown' /\ RowsDone'
    BY <1>1, <1>3, <2>2 DEF ColumnsKnown, RowsDone
  <2>6. RowsKnown'
    BY <1>1, <2>1, <2>2, <2>3, <2>4 DEF RowsKnown
  <2>7. FilesKnown' /\ PathsKnown'
    BY <1>1, PathsStay DEF LoadInv, FilesKnown
  <2>8. DemandKnown' /\ SettingsKnown'
    BY <1>1, <2>1 DEF DemandKnown, SettingsKnown
  <2> QED BY <2>5, <2>6, <2>7, <2>8 DEF LoadInv
<1> QED BY <1>2, <1>3

LEMMA ReadCapacityKeepsInv ==
    ASSUME LoadInv, ReadCapacity
    PROVE  LoadInv'
<1>1. /\ phase = "capacity"
      /\ UNCHANGED <<case, contents, files, paths, columns, routes, next, built>>
  BY DEF ReadCapacity
<1>2. CASE phase' = "failed"
  <2>1. UNCHANGED input
    BY <1>2 DEF ReadCapacity
  <2> QED BY <1>1, <1>2, <2>1, FailureKeepsInv
<1>3. CASE phase' = "demand"
  <2>1. DOMAIN input' = DOMAIN input
    <3>1. \/ UNCHANGED input
          \/ input' = [input EXCEPT !.capacity = [loaded |-> TRUE, rows |-> Data(paths.capacity).rows]]
      BY DEF ReadCapacity
    <3> QED BY <3>1
  <2>2. FilesKnown'
    BY <1>1, <2>1 DEF LoadInv, FilesKnown
  <2>3. ColumnsKnown' /\ RowsDone' /\ RowsKnown' /\ PathsKnown'
    BY <1>1, <1>3, RowsStay, PathsStay
  <2>4. DemandKnown' /\ SettingsKnown'
    BY <1>3 DEF DemandKnown, SettingsKnown
  <2> QED BY <2>2, <2>3, <2>4 DEF LoadInv
<1> QED BY <1>2, <1>3 DEF ReadCapacity

\* Reading the demand keeps what is known, if it is told.
LEMMA TakenDemandKeepsInv ==
    ASSUME LoadInv, phase = "demand", NEW I, NEW D, TakeDemand(I, D),
           UNCHANGED <<case, contents, files, paths, columns, routes, next, built>>,
           SourceOf(case) = "pair" => DemandTold'
    PROVE  LoadInv'
<1>1. phase' = "settings" /\ input' = [input EXCEPT !.intervals = I, !.demand = D]
  BY DEF TakeDemand
<1>2. DOMAIN input' = DOMAIN input
  BY <1>1
<1>3. FilesKnown'
  BY <1>2 DEF LoadInv, FilesKnown
<1>4. ColumnsKnown' /\ RowsDone' /\ RowsKnown' /\ PathsKnown'
  BY <1>1, RowsStay, PathsStay
<1>5. DemandKnown' /\ SettingsKnown'
  BY <1>1 DEF DemandKnown, SettingsKnown
<1> QED BY <1>3, <1>4, <1>5 DEF LoadInv

LEMMA ReadDemandKeepsInv ==
    ASSUME LoadInv, ReadDemand
    PROVE  LoadInv'
<1>1. /\ phase = "demand" /\ paths.intervals # None
      /\ UNCHANGED <<case, contents, files, paths, columns, routes, next, built>>
  BY DEF ReadDemand
<1> DEFINE I == Data(paths.intervals).rows
           D == Data(paths.demand).rows
<1>2. CASE Refuse
  BY <1>1, <1>2, FailureKeepsInv DEF Refuse
<1>3. CASE TakeDemand(I, D) /\ DemandFits(D, I)
  <2>1. input'.demand = D /\ input'.intervals = I
    BY <1>3 DEF TakeDemand, LoadInv, FilesKnown
  <2>2. \A i \in DOMAIN D : \E j \in DOMAIN I : I[j].id = D[i].interval
    BY <1>3 DEF DemandFits
  <2>3. Data(paths.demand)' = Data(paths.demand) /\ paths'.intervals # None
    BY <1>1 DEF Data
  <2> HIDE DEF I
  <2>4. DemandTold'
    BY <2>1, <2>2, <2>3 DEF DemandTold
  <2> QED BY <1>1, <1>3, <2>4, TakenDemandKeepsInv DEF I
<1> QED BY <1>2, <1>3 DEF ReadDemand

LEMMA ReadMatrixKeepsInv ==
    ASSUME LoadInv, ReadMatrix
    PROVE  LoadInv'
<1>1. /\ phase = "demand" /\ paths.intervals = None
      /\ UNCHANGED <<case, contents, files, paths, columns, routes, next, built>>
  BY DEF ReadMatrix
<1> DEFINE m == Data(paths.demand)
           D == MatrixDemand(m)
<1>2. CASE Refuse
  BY <1>1, <1>2, FailureKeepsInv DEF Refuse
<1>3. CASE TakeDemand(Day, D) /\ m.readable /\ MatrixFits(m)
  <2>1. ASSUME SourceOf(case) = "pair"
        PROVE  DemandTold'
    <3>1. input'.demand = D /\ input'.intervals = Day
      BY <1>3 DEF TakeDemand, LoadInv, FilesKnown
    <3>2. /\ m.destinations \in Seq(Int)
          /\ m.rows \in Seq([origin : Int, cells : Seq(Int)])
      <4>1. /\ paths.demand = <<"matrix">> /\ <<"matrix">> \in DOMAIN contents
            /\ ~Data(<<"matrix">>).folder
        BY <1>1, <2>1 DEF LoadInv, PathsKnown, IsFile
      <4>2. MatrixRead(Data(<<"matrix">>))
        BY <4>1, FilesAreRead DEF LoadInv
      <4> QED BY <1>3, <4>1, <4>2 DEF MatrixRead
    <3>3. PICK M, E : M = m /\ E = D
      OBVIOUS
    <3> HIDE DEF m, D
    <3>4. /\ \A e \in DOMAIN E : E[e].interval = 1
          /\ \A o, d : \A v \in Int :
                Cardinality({e \in DOMAIN E : /\ E[e].origin = o /\ E[e].destination = d
                                              /\ E[e].passengers = v})
                   = IF v > 0 THEN Cardinality(CellsFor(M, o, d, v)) ELSE 0
          /\ \A e \in DOMAIN E :
                CellsFor(M, E[e].origin, E[e].destination, E[e].passengers) # {}
      <4>1. /\ MatrixFits(M) /\ E = MatrixDemand(M) /\ M.destinations \in Seq(Int)
            /\ M.rows \in Seq([origin : Int, cells : Seq(Int)])
        BY <1>3, <3>2, <3>3 DEF D
      <4>2. CellsTold(M, E)
        BY <4>1, MatrixIsTold
      <4> QED BY <4>2, Zenon DEF CellsTold
    <3>5. /\ Data(paths.demand)' = M /\ paths'.intervals = None
          /\ input'.demand = E /\ input'.intervals = Day
      BY <1>1, <3>1, <3>3 DEF m, Data
    <3>6. ASSUME NEW o, NEW d, NEW v
          PROVE  /\ EntriesFor(o, d, v)' = {e \in DOMAIN E : /\ E[e].origin = o
                                                           /\ E[e].destination = d
                                                           /\ E[e].passengers = v}
                 /\ CellsFor(M, o, d, v)' = CellsFor(M, o, d, v)
      BY <3>5 DEF EntriesFor, CellsFor
    <3>7. ASSUME NEW i \in DOMAIN M.destinations, NEW k \in DOMAIN M.destinations,
                 NEW o, NEW d, NEW n, n = M.rows[i].cells[k]
          PROVE  Cardinality(EntriesFor(o, d, n)')
                    = IF n = 0 THEN 0 ELSE Cardinality(CellsFor(M, o, d, n)')
      <4>1. n \in Int /\ n >= 0
        BY <1>3, <3>2, <3>3, <3>7, MatrixCells
      <4>2. Cardinality(EntriesFor(o, d, n)')
               = IF n > 0 THEN Cardinality(CellsFor(M, o, d, n)') ELSE 0
        BY <3>4, <3>6, <4>1
      <4> QED BY <4>1, <4>2
    <3>8. \A e \in DOMAIN E : \E j \in DOMAIN Day : Day[j].id = E[e].interval
      <4>1. 1 \in DOMAIN Day /\ Day[1].id = 1
        BY DEF Day
      <4> QED BY <3>4, <4>1
    <3>9. \A e \in DOMAIN E :
             CellsFor(M, E[e].origin, E[e].destination, E[e].passengers)' # {}
      BY <3>4, <3>6
    <3> QED BY <3>5, <3>7, <3>8, <3>9 DEF DemandTold
  <2> QED BY <1>1, <1>3, <2>1, TakenDemandKeepsInv
<1> QED BY <1>2, <1>3 DEF ReadMatrix

\* The demand is told by what the settings leave alone.
LEMMA DemandStays ==
    ASSUME DemandTold, UNCHANGED <<contents, paths>>,
           input'.demand = input.demand, input'.intervals = input.intervals
    PROVE  DemandTold'
<1>1. \A o, d, n : EntriesFor(o, d, n)' = EntriesFor(o, d, n)
  BY DEF EntriesFor
<1>2. \A m, o, d, n : CellsFor(m, o, d, n)' = CellsFor(m, o, d, n)
  BY DEF CellsFor
<1> QED BY <1>1, <1>2 DEF DemandTold, Data

LEMMA ConfigureKeepsInv ==
    ASSUME LoadInv, Configure
    PROVE  LoadInv'
<1>1. /\ phase = "settings"
      /\ UNCHANGED <<case, contents, files, paths, columns, routes, next, built>>
  BY DEF Configure
<1>2. CASE Refuse
  BY <1>1, <1>2, FailureKeepsInv DEF Refuse
<1> DEFINE root == Data(paths.params).root
           given == IF paths.params = None THEN BuiltIn ELSE Mapped(root)
<1>3. CASE ~Refuse
  <2>1. /\ phase' = "loaded" /\ input' = [input EXCEPT !.settings = <<given>>]
        /\ paths.params # None => Acceptable(root)
    BY <1>3 DEF Configure
  <2>2. /\ DOMAIN input' = DOMAIN input /\ input'.settings[1] = given
        /\ input'.demand = input.demand /\ input'.intervals = input.intervals
    <3> HIDE DEF given
    <3> QED BY <2>1 DEF LoadInv, FilesKnown
  <2>3. FilesKnown'
    BY <1>1, <2>2 DEF LoadInv, FilesKnown
  <2>4. ColumnsKnown' /\ RowsDone' /\ RowsKnown' /\ PathsKnown'
    BY <1>1, <2>1, RowsStay, PathsStay
  <2>5. DemandKnown'
    BY <1>1, <2>1, <2>2, DemandStays DEF LoadInv, DemandKnown
  <2>6. ASSUME SourceOf(case) = "pair"
        PROVE  SettingsTold(input.settings[1])'
    <3>1. CASE paths.params = None
      <4>1. input'.settings[1].execution = Preset("od_day")
        BY <2>2, <3>1 DEF BuiltIn
      <4> QED BY <1>1, <3>1, <4>1 DEF SettingsTold
    <3>2. CASE paths.params # None
      <4>1. /\ paths.params = <<"params">> /\ <<"params">> \in DOMAIN contents
            /\ ~Data(<<"params">>).folder
        BY <1>1, <2>6, <3>2 DEF LoadInv, PathsKnown, IsFile
      <4>2. ParamsRead(Data(<<"params">>)) /\ Data(<<"params">>).readable
        BY <1>3, <3>2, <4>1, FilesAreRead DEF LoadInv, Configure
      <4>3. \A x \in Numbers : IsNumber(root, x) => ValueAt(root, x) \in Int
        BY <4>1, <4>2 DEF ParamsRead
      <4>4. ParamsTold(root, given)
        <5> HIDE DEF root
        <5> QED BY <2>1, <3>2, <4>3, SettingsAreTold
      <4>5. Data(paths.params)'.root = root /\ paths'.params # None
        BY <1>1, <3>2 DEF Data
      <4> HIDE DEF root, given
      <4>6. PICK r, g : r = root /\ g = given
        OBVIOUS
      <4>7. ParamsTold(r, g) /\ Data(paths.params)'.root = r /\ input'.settings[1] = g
        BY <2>2, <4>4, <4>5, <4>6
      <4> QED BY <4>5, <4>7, Zenon DEF SettingsTold, ParamsTold
    <3> QED BY <3>1, <3>2
  <2>7. SettingsKnown'
    BY <1>1, <2>6 DEF SettingsKnown
  <2> QED BY <2>3, <2>4, <2>5, <2>7 DEF LoadInv
<1> QED BY <1>2, <1>3

LEMMA NextKeepsInv ==
    ASSUME LoadInv, [Next]_vars
    PROVE  LoadInv'
<1>1. CASE Open
  BY <1>1, OpenKeepsInv
<1>2. CASE ReadSegments
  BY <1>2, ReadSegmentsKeepsInv
<1>3. CASE FindRoutes
  BY <1>3, FindRoutesKeepsInv
<1>4. CASE DropRow
  BY <1>4, DropRowKeepsInv
<1>5. CASE TakeRow
  BY <1>5, TakeRowKeepsInv
<1>6. CASE FinishSegments
  BY <1>6, FinishSegmentsKeepsInv
<1>7. CASE ReadCapacity
  BY <1>7, ReadCapacityKeepsInv
<1>8. CASE ReadMatrix
  BY <1>8, ReadMatrixKeepsInv
<1>9. CASE ReadDemand
  BY <1>9, ReadDemandKeepsInv
<1>10. CASE Configure
  BY <1>10, ConfigureKeepsInv
<1>11. ASSUME NEW path \in DOMAIN contents, Change(path)
       PROVE  LoadInv'
  <2>1. files' \subseteq DOMAIN contents
    BY <1>11 DEF Change, LoadInv, FilesKnown
  <2> QED BY <1>11, <2>1, StutterKeepsInv DEF Change
<1>12. CASE UNCHANGED vars
  <2>1. files' \subseteq DOMAIN contents
    BY <1>12 DEF vars, LoadInv, FilesKnown
  <2> QED BY <1>12, <2>1, StutterKeepsInv DEF vars
<1> QED BY <1>1, <1>2, <1>3, <1>4, <1>5, <1>6, <1>7, <1>8, <1>9, <1>10, <1>11, <1>12 DEF Next

LEMMA InvTellsTheFiles ==
    ASSUME LoadInv
    PROVE  LoadTellsTheFiles
<1> SUFFICES ASSUME phase = "loaded"
             PROVE  /\ ConnectionsTold /\ RoutesTold /\ ZonesKnown
                    /\ SourceOf(case) = "pair" => DemandTold /\ SettingsTold(input.settings[1])
  BY DEF LoadTellsTheFiles, Loaded
<1>1. AllBuilt
  BY DEF LoadInv, ColumnsKnown, RowsKnown, RowsDone, AllBuilt
<1>2. ConnectionsTold /\ RoutesTold /\ ZonesKnown
  BY <1>1, ConnectionsAreTold, RoutesAreTold, ZonesAreKnown
<1>3. SourceOf(case) = "pair" => DemandTold /\ SettingsTold(input.settings[1])
  BY DEF LoadInv, DemandKnown, SettingsKnown
<1> QED BY <1>2, <1>3

\* A load that succeeds tells what the files say: whatever directory it reads,
\* with any rows, matrix and params.txt, and whichever files come and go while
\* it does (load_pair_assignment_input and what it calls).
THEOREM WhatIsLoadedIsInTheFiles == Spec => []LoadTellsTheFiles
<1>1. Init => LoadInv
  BY InitInv
<1>2. LoadInv /\ [Next]_vars => LoadInv'
  BY NextKeepsInv
<1>3. LoadInv => LoadTellsTheFiles
  BY InvTellsTheFiles
<1> QED BY <1>1, <1>2, <1>3, PTL DEF Spec

===============================================================================
