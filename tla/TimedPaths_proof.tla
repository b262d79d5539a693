---------------------------- MODULE TimedPaths_proof ---------------------------
(***************************************************************************)
(* Proofs about TimedTree in terms of the paths of the timetable, for      *)
(* every batch as in TimedTree_proof: a tree without pruning finds exactly *)
(* what is on offer, and exact pruning loses nothing where the timetable   *)
(* keeps its contract.                                                     *)
(***************************************************************************)
EXTENDS TimedTree_proof

(* Paths: what their legs may be, one after another.                       *)

LEMMA MaxIs ==
    ASSUME NEW S \in SUBSET Int, NEW m \in S, \A x \in S : x <= m
    PROVE  Max(S) = m
<1>1. \A y \in S : m >= y
  OBVIOUS
<1>2. Max(S) \in S /\ \A y \in S : Max(S) >= y
  BY <1>1 DEF Max
<1>3. Max(S) \in Int /\ m \in Int /\ Max(S) >= m /\ Max(S) <= m
  BY <1>2
<1> QED BY <1>3

LEMMA MinIs ==
    ASSUME NEW S \in SUBSET Int, NEW m \in S, \A x \in S : m <= x
    PROVE  Min(S) = m
<1>1. Min(S) \in S /\ \A y \in S : Min(S) <= y
  BY DEF Min
<1>2. Min(S) \in Int /\ m \in Int /\ Min(S) <= m /\ m <= Min(S)
  BY <1>1
<1> QED BY <1>2

LEMMA LegIs ==
    ASSUME NEW j \in Batches, NEW l \in j.network
    PROVE  /\ l.kind \in {"walk", "ride"}
           /\ l.kind = "walk" => l.time \in Nat
           /\ l.kind = "ride" => /\ l.to \in Stops
                                 /\ l.dep \in Int /\ l.arr \in Int
                                 /\ l.dep <= l.arr /\ l.fare \in Nat
BY LegsAssumption

\* Every leg of the path is one a traveller may take.
Allowed(j, p) == /\ p \in Seq(j.network)
                 /\ \A k \in DOMAIN p : LegAllowed(Timetable(j), p, k)

\* The rides among the first legs, and the last of them.
RidesTo(p, n) == {r \in Rides(p) : r <= n}
LastAt(p, n) == IF p[n].kind = "ride" THEN n ELSE n - 1

LEMMA PathFields ==
    ASSUME NEW j \in Batches, NEW p, Allowed(j, p)
    PROVE  /\ Len(p) \in Nat /\ DOMAIN p = 1 .. Len(p)
           /\ \A k \in 1 .. Len(p) : /\ p[k] \in j.network
                                     /\ p[k].kind \in {"walk", "ride"}
                                     /\ LegAllowed(Timetable(j), p, k)
                                     /\ p[k].kind = "ride" => p[k].to \in Stops
BY LegIs DEF Allowed

\* A walk, a ride, and then rides with or without a walk between.
LEMMA PathShape ==
    ASSUME NEW j \in Batches, NEW p, Allowed(j, p)
    PROVE  /\ 1 <= Len(p) => /\ p[1].kind = "walk" /\ p[1].to \in Stops
                             /\ p[1].from = Origin
           /\ 2 <= Len(p) => p[2].kind = "ride"
           /\ \A k \in 2 .. Len(p) : /\ p[k].from = p[k - 1].to
                                     /\ p[k].kind = "walk" => p[k - 1].kind = "ride"
<1>1. 1 <= Len(p) => /\ p[1].kind = "walk" /\ p[1].to \in Stops /\ p[1].from = Origin
  <2> HAVE 1 <= Len(p)
  <2>1. 1 \in 1 .. Len(p)
    BY PathFields
  <2>2. LegAllowed(Timetable(j), p, 1) /\ p[1].kind \in {"walk", "ride"}
    BY <2>1, PathFields
  <2> QED BY <2>2 DEF LegAllowed
<1>2. ASSUME NEW k \in 2 .. Len(p)
      PROVE  /\ p[k].from = p[k - 1].to
             /\ p[k].kind = "walk" => p[k - 1].kind = "ride"
  <2>1. k \in 1 .. Len(p) /\ k # 1 /\ k > 1
    BY PathFields
  <2>2. LegAllowed(Timetable(j), p, k)
    BY <2>1, PathFields
  <2> QED BY <2>1, <2>2 DEF LegAllowed
<1>3. 2 <= Len(p) => p[2].kind = "ride"
  <2> HAVE 2 <= Len(p)
  <2>1. 2 \in 2 .. Len(p) /\ 2 \in 1 .. Len(p) /\ 1 <= Len(p) /\ 2 - 1 = 1
    BY PathFields
  <2>2. p[2].kind \in {"walk", "ride"}
    BY <2>1, PathFields
  <2>3. p[2].kind = "walk" => p[2 - 1].kind = "ride"
    BY <1>2, <2>1, SMTT(30)
  <2> QED BY <1>1, <2>1, <2>2, <2>3
<1> QED BY <1>1, <1>2, <1>3

LEMMA RidesToFacts ==
    ASSUME NEW j \in Batches, NEW p, Allowed(j, p), NEW n \in 0 .. Len(p)
    PROVE  /\ RidesTo(p, n) \in SUBSET (1 .. n) /\ IsFiniteSet(RidesTo(p, n))
           /\ RidesTo(p, n) = {r \in Rides(p) : r < n + 1}
           /\ n <= 1 => RidesTo(p, n) = {}
           /\ 2 <= n => /\ LastAt(p, n) \in RidesTo(p, n) /\ LastAt(p, n) \in 2 .. n
                        /\ Max(RidesTo(p, n)) = LastAt(p, n)
                        /\ p[LastAt(p, n)].kind = "ride"
           /\ 1 <= n => /\ n \notin RidesTo(p, n - 1)
                        /\ RidesTo(p, n) = IF p[n].kind = "ride"
                                           THEN RidesTo(p, n - 1) \cup {n}
                                           ELSE RidesTo(p, n - 1)
           /\ n = Len(p) => RidesTo(p, n) = Rides(p)
<1>1. /\ Len(p) \in Nat /\ DOMAIN p = 1 .. Len(p) /\ n \in Nat
      /\ \A k \in 1 .. Len(p) : p[k].kind \in {"walk", "ride"}
  BY PathFields
<1>2. Rides(p) = {k \in 1 .. Len(p) : p[k].kind = "ride"}
  BY <1>1 DEF Rides
<1>3. RidesTo(p, n) = {k \in 1 .. n : p[k].kind = "ride"}
  BY <1>1, <1>2 DEF RidesTo
<1>4. IsFiniteSet(RidesTo(p, n))
  <2>1. IsFiniteSet(1 .. n)
    BY <1>1, FS_Interval
  <2> QED BY <1>3, <2>1, FS_Subset
<1>5. RidesTo(p, n) = {r \in Rides(p) : r < n + 1}
  BY <1>1, <1>2 DEF RidesTo
<1>6. n <= 1 => RidesTo(p, n) = {}
  <2>1. n = 0 \/ (n = 1 /\ 1 <= Len(p)) \/ n > 1
    BY <1>1
  <2>2. 1 <= Len(p) => p[1].kind = "walk"
    BY PathShape
  <2> QED BY <1>1, <1>3, <2>1, <2>2
<1>7. ASSUME 2 <= n
      PROVE  /\ LastAt(p, n) \in RidesTo(p, n) /\ LastAt(p, n) \in 2 .. n
             /\ Max(RidesTo(p, n)) = LastAt(p, n)
             /\ p[LastAt(p, n)].kind = "ride"
  <2>1. n \in 2 .. Len(p) /\ n \in 1 .. Len(p)
    BY <1>1, <1>7
  <2>2. p[n].kind = "walk" => p[n - 1].kind = "ride" /\ n # 2
    <3>1. p[n].kind = "walk" => p[n - 1].kind = "ride"
      BY <2>1, PathShape
    <3>2. 2 <= Len(p) /\ p[2].kind = "ride"
      BY <1>1, <1>7, PathShape
    <3> QED BY <3>1, <3>2
  <2>3. p[LastAt(p, n)].kind = "ride" /\ LastAt(p, n) \in 2 .. n
    BY <1>1, <1>7, <2>1, <2>2 DEF LastAt
  <2>4. LastAt(p, n) \in RidesTo(p, n)
    BY <1>3, <2>3
  <2>5. \A x \in RidesTo(p, n) : x <= LastAt(p, n)
    BY <1>1, <1>3, <2>1 DEF LastAt
  <2>6. RidesTo(p, n) \in SUBSET Int
    BY <1>3
  <2> QED BY <2>3, <2>4, <2>5, <2>6, MaxIs
<1>8. 1 <= n => /\ n \notin RidesTo(p, n - 1)
                /\ RidesTo(p, n) = IF p[n].kind = "ride"
                                   THEN RidesTo(p, n - 1) \cup {n}
                                   ELSE RidesTo(p, n - 1)
  BY <1>1, <1>2, <1>3 DEF RidesTo
<1>9. n = Len(p) => RidesTo(p, n) = Rides(p)
  BY <1>2, <1>3
<1> QED BY <1>1, <1>3, <1>4, <1>5, <1>6, <1>7, <1>8, <1>9

------------------------------------------------------------------------------
(* Where a path leads, and at what cost: the branch of a path has, leg by  *)
(* leg, the metrics that are measured of the whole.                        *)

Riding(p) == OnRides(p, LAMBDA l : l.arr - l.dep)
Fares(p) == OnRides(p, LAMBDA l : l.fare)

LEMMA SumsOfLegs ==
    ASSUME NEW j \in Batches, NEW p, Allowed(j, p)
    PROVE  /\ SumsOf(Partial(Riding(p)), Riding(p)) /\ Len(Riding(p)) = Len(p)
           /\ SumsOf(Partial(Fares(p)), Fares(p)) /\ Len(Fares(p)) = Len(p)
           /\ SumsOf(Partial(Walking(p)), Walking(p)) /\ Len(Walking(p)) = Len(p)
           /\ Total(Riding(p)) = Partial(Riding(p))[Len(p)]
           /\ Total(Fares(p)) = Partial(Fares(p))[Len(p)]
           /\ Total(Walking(p)) = Partial(Walking(p))[Len(p)]
           /\ \A k \in 1 .. Len(p) :
                /\ p[k].kind = "ride" => /\ Riding(p)[k] = p[k].arr - p[k].dep
                                         /\ Fares(p)[k] = p[k].fare
                                         /\ Walking(p)[k] = 0
                /\ p[k].kind = "walk" => /\ Riding(p)[k] = 0 /\ Fares(p)[k] = 0
                                         /\ Walking(p)[k] = p[k].time
<1>1. /\ Len(p) \in Nat /\ DOMAIN p = 1 .. Len(p)
      /\ \A k \in 1 .. Len(p) :
            /\ p[k].kind \in {"walk", "ride"}
            /\ k \in Rides(p) <=> p[k].kind = "ride"
            /\ p[k].kind = "walk" => p[k].time \in Int
            /\ p[k].kind = "ride" => p[k].arr - p[k].dep \in Int /\ p[k].fare \in Int
  <2>1. \A k \in 1 .. Len(p) : p[k] \in j.network
    BY PathFields
  <2> QED BY <2>1, PathFields, LegIs DEF Rides
<1>2. /\ Riding(p) = [k \in 1 .. Len(p) |->
                        IF k \in Rides(p) THEN p[k].arr - p[k].dep ELSE 0]
      /\ Fares(p) = [k \in 1 .. Len(p) |-> IF k \in Rides(p) THEN p[k].fare ELSE 0]
      /\ Walking(p) = [k \in 1 .. Len(p) |-> IF k \in Rides(p) THEN 0 ELSE p[k].time]
  BY <1>1 DEF Riding, Fares, Walking, OnRides
<1>3. /\ Riding(p) \in Seq(Int) /\ Len(Riding(p)) = Len(p)
      /\ Fares(p) \in Seq(Int) /\ Len(Fares(p)) = Len(p)
      /\ Walking(p) \in Seq(Int) /\ Len(Walking(p)) = Len(p)
  <2>1. /\ Riding(p) \in [1 .. Len(p) -> Int]
        /\ Fares(p) \in [1 .. Len(p) -> Int]
        /\ Walking(p) \in [1 .. Len(p) -> Int]
    BY <1>1, <1>2
  <2>2. \A s \in [1 .. Len(p) -> Int] : s \in Seq(Int) /\ Len(s) = Len(p)
    BY <1>1
  <2> QED BY <2>1, <2>2
<1>4. \A k \in 1 .. Len(p) :
            /\ p[k].kind = "ride" => /\ Riding(p)[k] = p[k].arr - p[k].dep
                                     /\ Fares(p)[k] = p[k].fare
                                     /\ Walking(p)[k] = 0
            /\ p[k].kind = "walk" => /\ Riding(p)[k] = 0 /\ Fares(p)[k] = 0
                                     /\ Walking(p)[k] = p[k].time
  BY <1>1, <1>2
<1> QED BY <1>3, <1>4, TotalIs

Rode(p, n) == Partial(Riding(p))[n]
Paid(p, n) == Partial(Fares(p))[n]
Walked(p, n) == Partial(Walking(p))[n]

LEMMA SumsGrow ==
    ASSUME NEW j \in Batches, NEW p, Allowed(j, p)
    PROVE  /\ Rode(p, 0) = 0 /\ Paid(p, 0) = 0 /\ Walked(p, 0) = 0
           /\ \A n \in 0 .. Len(p) : /\ Rode(p, n) \in Int /\ Paid(p, n) \in Int
                                     /\ Walked(p, n) \in Int
           /\ \A n \in 1 .. Len(p) :
                /\ p[n].kind = "ride" =>
                     /\ Rode(p, n) = Rode(p, n - 1) + (p[n].arr - p[n].dep)
                     /\ Paid(p, n) = Paid(p, n - 1) + p[n].fare
                     /\ Walked(p, n) = Walked(p, n - 1)
                /\ p[n].kind = "walk" =>
                     /\ Rode(p, n) = Rode(p, n - 1) /\ Paid(p, n) = Paid(p, n - 1)
                     /\ Walked(p, n) = Walked(p, n - 1) + p[n].time
<1>1. Len(p) \in Nat
  BY PathFields
<1>2. /\ \A n \in 0 .. Len(p) : /\ Rode(p, n) \in Int /\ Paid(p, n) \in Int
                                /\ Walked(p, n) \in Int
      /\ Rode(p, 0) = 0 /\ Paid(p, 0) = 0 /\ Walked(p, 0) = 0
      /\ \A n \in 1 .. Len(p) :
            /\ Rode(p, n) = Rode(p, n - 1) + Riding(p)[n]
            /\ Paid(p, n) = Paid(p, n - 1) + Fares(p)[n]
            /\ Walked(p, n) = Walked(p, n - 1) + Walking(p)[n]
  BY SumsOfLegs DEF SumsOf, Rode, Paid, Walked
<1>3. \A n \in 1 .. Len(p) : n - 1 \in 0 .. Len(p)
  BY <1>1
<1>4. \A n \in 1 .. Len(p) :
        /\ p[n].kind = "ride" => /\ Riding(p)[n] = p[n].arr - p[n].dep
                                 /\ Fares(p)[n] = p[n].fare
                                 /\ Walking(p)[n] = 0
        /\ p[n].kind = "walk" => /\ Riding(p)[n] = 0 /\ Fares(p)[n] = 0
                                 /\ Walking(p)[n] = p[n].time
  BY SumsOfLegs
<1>5. ASSUME NEW n \in 1 .. Len(p)
      PROVE  /\ p[n].kind = "ride" =>
                     /\ Rode(p, n) = Rode(p, n - 1) + (p[n].arr - p[n].dep)
                     /\ Paid(p, n) = Paid(p, n - 1) + p[n].fare
                     /\ Walked(p, n) = Walked(p, n - 1)
             /\ p[n].kind = "walk" =>
                     /\ Rode(p, n) = Rode(p, n - 1) /\ Paid(p, n) = Paid(p, n - 1)
                     /\ Walked(p, n) = Walked(p, n - 1) + p[n].time
  <2>1. /\ Rode(p, n - 1) \in Int /\ Paid(p, n - 1) \in Int
        /\ Walked(p, n - 1) \in Int
    BY <1>2, <1>3
  <2>2. /\ Rode(p, n) = Rode(p, n - 1) + Riding(p)[n]
        /\ Paid(p, n) = Paid(p, n - 1) + Fares(p)[n]
        /\ Walked(p, n) = Walked(p, n - 1) + Walking(p)[n]
    BY <1>2
  <2> HIDE DEF Rode, Paid, Walked, Riding, Fares
  <2> QED BY <1>4, <2>1, <2>2
<1> QED BY <1>2, <1>5

\* The arrival after the first n legs.
ArrivalAt(p, n) == IF p[n].kind = "ride" THEN p[n].arr ELSE p[n - 1].arr + p[n].time

\* The impedance of times and fares.
Weigh(rode, walked, paid, transfers, dep, arr) ==
    rode + WalkWeight * walked + WaitWeight * ((arr - dep) - rode - walked)
      + TransferPenalty * transfers + paid

\* The impedance of the first n legs, of which the second is the first ride.
ImpedanceAt(p, n) ==
    Weigh(Rode(p, n), Walked(p, n), Paid(p, n), Cardinality(RidesTo(p, n)) - 1,
          p[2].dep - p[1].time, ArrivalAt(p, n))

\* A branch is where the first n legs lead.
IsAt(p, n, x) ==
    /\ x.m \in Travelled
    /\ x.node = IF n = 0 THEN Origin ELSE p[n].to
    /\ x.phase = IF n = 0 THEN "AtOrigin" ELSE IF n = 1 THEN "BeforeFirstBoarding"
                 ELSE IF p[n].kind = "ride" THEN "AfterTimedRide"
                 ELSE IF p[n].to \in Stops THEN "AfterTransferWalk" ELSE "Completed"
    /\ n <= 1 => /\ ~x.m.boarded /\ x.m.nt = 0
                 /\ x.m.access = IF n = 0 THEN 0 ELSE p[1].time
                 /\ x.m.imp = WalkWeight * x.m.access
    /\ 2 <= n => /\ x.m.boarded /\ x.m.dep = p[2].dep - p[1].time
                 /\ x.m.now = ArrivalAt(p, n)
                 /\ x.m.nt = Cardinality(RidesTo(p, n)) - 1
                 /\ x.m.imp = ImpedanceAt(p, n)

LEMMA Distributes ==
    ASSUME NEW w \in Int, NEW a \in Int, NEW b \in Int
    PROVE  w * a \in Int /\ w * b \in Int /\ w * (a + b) = w * a + w * b
OBVIOUS

\* The weights are used as integers.
LEMMA WeightsAreInt ==
    /\ WalkWeight \in Int /\ WaitWeight \in Int /\ TransferPenalty \in Int
BY WeightsAssumption

\* One leg more: what is spent on the way is spent on the whole.
Spent(a, w, f, n, dep, now) ==
    {a, w, f, n, dep, now} \subseteq Int

LEMMA WalkSpends ==
    ASSUME NEW a, NEW w, NEW f, NEW n, NEW dep, NEW now, Spent(a, w, f, n, dep, now),
           NEW time \in Int
    PROVE  Weigh(a, w + time, f, n, dep, now + time)
             = Weigh(a, w, f, n, dep, now) + WalkWeight * time
<1> USE DEF Spent
<1>1. ((now + time) - dep) - a - (w + time) = (now - dep) - a - w
  OBVIOUS
<1>2. /\ WalkWeight * (w + time) = WalkWeight * w + WalkWeight * time
      /\ WalkWeight * w \in Int /\ WalkWeight * time \in Int
  BY WeightsAreInt, Distributes
<1>3. WaitWeight * ((now - dep) - a - w) \in Int /\ TransferPenalty * n \in Int
  BY WeightsAreInt
<1> QED BY <1>1, <1>2, <1>3 DEF Weigh

LEMMA RideSpends ==
    ASSUME NEW a, NEW w, NEW f, NEW n, NEW dep, NEW now, Spent(a, w, f, n, dep, now),
           NEW from \in Int, NEW to \in Int, NEW fare \in Int
    PROVE  Weigh(a + (to - from), w, f + fare, n + 1, dep, to)
           = Weigh(a, w, f, n, dep, now) + WaitWeight * (from - now) + TransferPenalty + (to - from) + fare
<1> USE DEF Spent
<1>1. (to - dep) - (a + (to - from)) - w = ((now - dep) - a - w) + (from - now)
  OBVIOUS
<1>2. /\ WaitWeight * (((now - dep) - a - w) + (from - now))
           = WaitWeight * ((now - dep) - a - w) + WaitWeight * (from - now)
      /\ WaitWeight * ((now - dep) - a - w) \in Int
      /\ WaitWeight * (from - now) \in Int
  BY WeightsAreInt, Distributes
<1>3. TransferPenalty * (n + 1) = TransferPenalty * n + TransferPenalty
      /\ TransferPenalty * n \in Int
  BY WeightsAreInt, Distributes
<1>4. WalkWeight * w \in Int
  BY WeightsAreInt
<1> QED BY <1>1, <1>2, <1>3, <1>4, WeightsAreInt DEF Weigh

LEMMA FirstRideSpends ==
    ASSUME NEW w \in Int, NEW from \in Int, NEW to \in Int, NEW fare \in Int
    PROVE  Weigh(to - from, w, fare, 0, from - w, to)
           = WalkWeight * w + (to - from) + fare
<1>1. (to - (from - w)) - (to - from) - w = 0
  OBVIOUS
<1>2. WaitWeight * 0 = 0 /\ TransferPenalty * 0 = 0 /\ WalkWeight * w \in Int
  BY WeightsAreInt
<1> QED BY <1>1, <1>2 DEF Weigh

Start == [node |-> Origin, phase |-> "AtOrigin", m |-> Root.m]

LEMMA StartIsAt ==
    ASSUME NEW p
    PROVE  /\ IsAt(p, 0, Start) /\ Standing(Start)
           /\ Start.node = Origin /\ Start.phase = "AtOrigin" /\ Start.m = Root.m
<1>1. /\ Root.m \in Travelled /\ Root.m.boarded = FALSE /\ Root.m.nt = 0
      /\ Root.m.access = 0 /\ Root.m.imp = 0
  BY DEF Root, Travelled
<1>2. Start.node = Origin /\ Start.phase = "AtOrigin" /\ Start.m = Root.m
  BY DEF Start
<1>3. WalkWeight * 0 = 0
  BY WeightsAreInt
<1>4. IsAt(p, 0, Start)
  BY <1>1, <1>2, <1>3 DEF IsAt
<1>5. Standing(Start)
  BY <1>1, <1>2, OriginAssumption, MaxTransfersAssumption DEF Standing
<1> QED BY <1>2, <1>4, <1>5

LEMMA FirstWalkIsAt ==
    ASSUME NEW j \in Batches, NEW p, Allowed(j, p), 1 <= Len(p), NEW x, IsAt(p, 0, x)
    PROVE  IsAt(p, 1, Onward(x, p[1]))
<1> DEFINE y == Onward(x, p[1])
<1>1. /\ p[1] \in j.network /\ p[1].kind = "walk" /\ p[1].time \in Nat
      /\ p[1].to \in Stops
  <2>1. 1 \in 1 .. Len(p)
    BY PathFields
  <2> QED BY <2>1, PathFields, PathShape, LegIs
<1>2. /\ x.m \in Travelled /\ ~x.m.boarded /\ x.m.nt = 0 /\ x.m.access = 0
      /\ x.m.imp = WalkWeight * 0 /\ x.phase = "AtOrigin"
  BY DEF IsAt
<1>3. y.node = p[1].to /\ y.phase = NextPhase(x, p[1]) /\ y.m = Extend(x.m, p[1])
  BY OnwardFields
<1> HIDE DEF y
<1>4. y.phase = "BeforeFirstBoarding"
  BY <1>1, <1>2, <1>3 DEF NextPhase
<1>5. /\ y.m \in Travelled /\ ~y.m.boarded /\ y.m.nt = 0
      /\ y.m.access = x.m.access + p[1].time
      /\ y.m.imp = x.m.imp + WalkWeight * p[1].time
  BY <1>1, <1>2, <1>3, ExtendTyped, WalkAdds
<1>6. y.m.access = p[1].time /\ y.m.imp = WalkWeight * p[1].time
  BY <1>1, <1>2, <1>5, WeightsAreInt
<1>7. IsAt(p, 1, y)
  BY <1>1, <1>3, <1>4, <1>5, <1>6 DEF IsAt
<1> QED BY <1>7 DEF y

LEMMA FirstRideIsAt ==
    ASSUME NEW j \in Batches, NEW p, Allowed(j, p), 2 <= Len(p), NEW x, IsAt(p, 1, x)
    PROVE  IsAt(p, 2, Onward(x, p[2]))
<1> DEFINE y == Onward(x, p[2])
<1>0. 1 \in 1 .. Len(p) /\ 2 \in 1 .. Len(p) /\ 2 \in 0 .. Len(p) /\ 1 \in 0 .. Len(p)
  BY PathFields
<1>1. /\ p[2] \in j.network /\ p[2].kind = "ride" /\ p[2].dep \in Int
      /\ p[2].arr \in Int /\ p[2].fare \in Int
      /\ p[1].kind = "walk" /\ p[1].time \in Int
  BY <1>0, PathFields, PathShape, LegIs
<1>2. /\ x.m \in Travelled /\ ~x.m.boarded /\ x.m.nt = 0
      /\ x.m.access = p[1].time /\ x.m.imp = WalkWeight * p[1].time
      /\ x.phase = "BeforeFirstBoarding"
  BY DEF IsAt
<1>3. y.node = p[2].to /\ y.phase = NextPhase(x, p[2]) /\ y.m = Extend(x.m, p[2])
  BY OnwardFields
<1> HIDE DEF y
<1>4. y.phase = "AfterTimedRide"
  BY <1>1, <1>3 DEF NextPhase
<1>5. /\ y.m \in Travelled /\ y.m.boarded /\ y.m.nt = 0 /\ y.m.now = p[2].arr
      /\ y.m.dep = p[2].dep - p[1].time
      /\ y.m.imp = WalkWeight * p[1].time + (p[2].arr - p[2].dep) + p[2].fare
  BY <1>1, <1>2, <1>3, ExtendTyped, RideAdds
<1>6. Rode(p, 1) = 0 /\ Paid(p, 1) = 0 /\ Walked(p, 1) = p[1].time
  <2>1. /\ Rode(p, 1) = Rode(p, 1 - 1) /\ Paid(p, 1) = Paid(p, 1 - 1)
        /\ Walked(p, 1) = Walked(p, 1 - 1) + p[1].time
    BY <1>0, <1>1, SumsGrow
  <2> QED BY <1>1, <2>1, SumsGrow
<1>7. /\ Rode(p, 2) = p[2].arr - p[2].dep /\ Paid(p, 2) = p[2].fare
      /\ Walked(p, 2) = p[1].time
  <2>1. /\ Rode(p, 2) = Rode(p, 2 - 1) + (p[2].arr - p[2].dep)
        /\ Paid(p, 2) = Paid(p, 2 - 1) + p[2].fare
        /\ Walked(p, 2) = Walked(p, 2 - 1)
    BY <1>0, <1>1, SumsGrow
  <2> QED BY <1>1, <1>6, <2>1
<1>8. Cardinality(RidesTo(p, 2)) - 1 = 0
  <2>1. RidesTo(p, 1) = {}
    BY <1>0, RidesToFacts
  <2>2. RidesTo(p, 2) = RidesTo(p, 2 - 1) \cup {2}
    BY <1>0, <1>1, RidesToFacts
  <2>3. RidesTo(p, 2) = {2}
    BY <2>1, <2>2
  <2>4. Cardinality(RidesTo(p, 2)) = 1
    BY <2>3, FS_Singleton
  <2> QED BY <2>4
<1>9. ImpedanceAt(p, 2) = WalkWeight * p[1].time + (p[2].arr - p[2].dep) + p[2].fare
  <2>1. ArrivalAt(p, 2) = p[2].arr
    BY <1>1 DEF ArrivalAt
  <2> DEFINE from == p[2].dep
             to == p[2].arr
             fare == p[2].fare
             w == p[1].time
  <2>2. from \in Int /\ to \in Int /\ fare \in Int /\ w \in Int
    BY <1>1
  <2>3. ImpedanceAt(p, 2) = Weigh(to - from, w, fare, 0, from - w, to)
    BY <1>7, <1>8, <2>1, Zenon DEF ImpedanceAt
  <2> HIDE DEF from, to, fare, w
  <2>4. Weigh(to - from, w, fare, 0, from - w, to) = WalkWeight * w + (to - from) + fare
    BY <2>2, FirstRideSpends
  <2> QED BY <2>3, <2>4, Zenon DEF from, to, fare, w
<1>10. IsAt(p, 2, y)
  BY <1>1, <1>3, <1>4, <1>5, <1>8, <1>9 DEF IsAt, ArrivalAt
<1> QED BY <1>10 DEF y

LEMMA LaterLegIsAt ==
    ASSUME NEW j \in Batches, NEW p, Allowed(j, p), NEW n \in 3 .. Len(p),
           NEW x, IsAt(p, n - 1, x)
    PROVE  IsAt(p, n, Onward(x, p[n]))
<1> DEFINE y == Onward(x, p[n])
           a == Rode(p, n - 1)
           w == Walked(p, n - 1)
           f == Paid(p, n - 1)
           dep == p[2].dep - p[1].time
           now == ArrivalAt(p, n - 1)
           nt == Cardinality(RidesTo(p, n - 1)) - 1
<1>0. /\ Len(p) \in Nat /\ 1 \in 1 .. Len(p) /\ 2 \in 1 .. Len(p) /\ n \in 1 .. Len(p)
      /\ n - 1 \in 1 .. Len(p) /\ n \in 0 .. Len(p) /\ n - 1 \in 0 .. Len(p)
      /\ n \in 2 .. Len(p) /\ n - 1 \in 2 .. Len(p) /\ 2 <= n - 1 /\ 2 <= n
      /\ ~(n <= 1) /\ ~(n - 1 <= 1) /\ n # 0 /\ n # 1 /\ n - 1 # 0 /\ n - 1 # 1
  BY PathFields
<1>1. /\ p[2].kind = "ride" /\ p[2].dep \in Int /\ p[1].kind = "walk" /\ p[1].time \in Int
      /\ dep \in Int
  <2>1. p[2].kind = "ride" /\ p[1].kind = "walk"
    BY <1>0, PathShape
  <2> QED BY <1>0, <2>1, PathFields, LegIs
<1>2. /\ x.m \in Travelled /\ x.m.boarded /\ x.m.dep = dep /\ x.m.now = now
      /\ x.m.nt = nt /\ x.m.imp = ImpedanceAt(p, n - 1)
      /\ x.phase # "AtOrigin"
      /\ nt \in Int /\ now \in Int
  <2>1. /\ x.m \in Travelled /\ x.m.boarded /\ x.m.dep = dep /\ x.m.now = now
        /\ x.m.nt = nt /\ x.m.imp = ImpedanceAt(p, n - 1)
    BY <1>0 DEF IsAt
  <2>2. x.phase # "AtOrigin"
    BY <1>0 DEF IsAt
  <2> HIDE DEF nt, now
  <2> QED BY <2>1, <2>2, TravelledFields
<1>3. y.node = p[n].to /\ y.phase = NextPhase(x, p[n]) /\ y.m = Extend(x.m, p[n])
  BY OnwardFields
<1>4. a \in Int /\ w \in Int /\ f \in Int
  BY <1>0, SumsGrow
<1>5. x.m.imp = Weigh(a, w, f, nt, dep, now)
  BY <1>2 DEF ImpedanceAt
<1>6. p[n] \in j.network
  BY <1>0, PathFields
<1>7. CASE p[n].kind = "walk"
  <2>1. p[n].time \in Int /\ p[n].time \in Nat
    BY <1>6, <1>7, LegIs
  <2>2. /\ y.m \in Travelled /\ y.m.boarded /\ y.m.nt = nt /\ y.m.dep = dep
        /\ y.m.now = now + p[n].time
        /\ y.m.imp = x.m.imp + WalkWeight * p[n].time
    <3> HIDE DEF dep, now, nt, y
    <3> QED BY <1>2, <1>3, <1>6, <1>7, <2>1, ExtendTyped, WalkAdds
  <2>3. y.phase = IF p[n].to \in Stops THEN "AfterTransferWalk" ELSE "Completed"
    BY <1>2, <1>3, <1>7 DEF NextPhase
  <2>4. p[n - 1].kind = "ride"
    BY <1>0, <1>7, PathShape
  <2>5. ArrivalAt(p, n) = now + p[n].time
    BY <1>7, <2>4 DEF ArrivalAt
  <2>6. /\ Rode(p, n) = a /\ Paid(p, n) = f /\ Walked(p, n) = w + p[n].time
    BY <1>0, <1>7, SumsGrow
  <2>7. Cardinality(RidesTo(p, n)) - 1 = nt
    <3>1. RidesTo(p, n) = RidesTo(p, n - 1)
      BY <1>0, <1>7, RidesToFacts
    <3> QED BY <3>1
  <2>8. ImpedanceAt(p, n)
          = Weigh(a, w + p[n].time, f, nt, dep, now + p[n].time)
    <3> HIDE DEF a, w, f, now, nt
    <3> QED BY <2>5, <2>6, <2>7 DEF ImpedanceAt
  <2>9. ImpedanceAt(p, n) = x.m.imp + WalkWeight * p[n].time
    <3> DEFINE time == p[n].time
    <3>1. time \in Int
      BY <2>1
    <3> HIDE DEF a, w, f, now, nt, dep, time
    <3>2. Spent(a, w, f, nt, dep, now)
      BY <1>1, <1>2, <1>4 DEF Spent
    <3>3. Weigh(a, w + time, f, nt, dep, now + time)
            = Weigh(a, w, f, nt, dep, now) + WalkWeight * time
      BY <3>1, <3>2, WalkSpends
    <3> QED BY <1>5, <2>8, <3>3, Zenon DEF time
  <2>10. p[n].kind # "ride"
    BY <1>7
  <2> HIDE DEF y
  <2>11. IsAt(p, n, y)
    BY <1>0, <1>3, <2>2, <2>3, <2>5, <2>7, <2>9, <2>10 DEF IsAt
  <2> QED BY <2>11 DEF y
<1>8. CASE p[n].kind = "ride"
  <2>1. /\ p[n].dep \in Int /\ p[n].arr \in Int /\ p[n].fare \in Int
    BY <1>6, <1>8, LegIs
  <2>2. /\ y.m \in Travelled /\ y.m.boarded /\ y.m.nt = nt + 1 /\ y.m.dep = dep
        /\ y.m.now = p[n].arr
        /\ y.m.imp = x.m.imp + WaitWeight * (p[n].dep - now) + TransferPenalty
                       + (p[n].arr - p[n].dep) + p[n].fare
    <3> HIDE DEF dep, now, nt, y
    <3> QED BY <1>2, <1>3, <1>6, <1>8, ExtendTyped, RideAdds
  <2>3. y.phase = "AfterTimedRide"
    BY <1>3, <1>8 DEF NextPhase
  <2>5. ArrivalAt(p, n) = p[n].arr
    BY <1>8 DEF ArrivalAt
  <2>6. /\ Rode(p, n) = a + (p[n].arr - p[n].dep) /\ Paid(p, n) = f + p[n].fare
        /\ Walked(p, n) = w
    BY <1>0, <1>8, SumsGrow
  <2>7. Cardinality(RidesTo(p, n)) - 1 = nt + 1
    <3>1. /\ RidesTo(p, n) = RidesTo(p, n - 1) \cup {n} /\ n \notin RidesTo(p, n - 1)
          /\ IsFiniteSet(RidesTo(p, n - 1))
      BY <1>0, <1>8, RidesToFacts
    <3>2. /\ Cardinality(RidesTo(p, n)) = Cardinality(RidesTo(p, n - 1)) + 1
          /\ Cardinality(RidesTo(p, n - 1)) \in Nat
      BY <3>1, FS_AddElement, FS_CardinalityType
    <3> QED BY <3>2
  <2>8. ImpedanceAt(p, n)
          = Weigh(a + (p[n].arr - p[n].dep), w, f + p[n].fare, nt + 1, dep, p[n].arr)
    <3> HIDE DEF a, w, f, now, nt
    <3> QED BY <2>5, <2>6, <2>7 DEF ImpedanceAt
  <2>9. ImpedanceAt(p, n) = x.m.imp + WaitWeight * (p[n].dep - now)
                              + TransferPenalty + (p[n].arr - p[n].dep) + p[n].fare
    <3> DEFINE from == p[n].dep
               to == p[n].arr
               fare == p[n].fare
    <3>1. from \in Int /\ to \in Int /\ fare \in Int
      BY <2>1
    <3> HIDE DEF a, w, f, now, nt, dep, from, to, fare
    <3>2. Spent(a, w, f, nt, dep, now)
      BY <1>1, <1>2, <1>4 DEF Spent
    <3>3. Weigh(a + (to - from), w, f + fare, nt + 1, dep, to)
            = Weigh(a, w, f, nt, dep, now) + WaitWeight * (from - now)
                + TransferPenalty + (to - from) + fare
      BY <3>1, <3>2, RideSpends
    <3> QED BY <1>5, <2>8, <3>3, Zenon DEF from, to, fare
  <2> HIDE DEF y
  <2>11. IsAt(p, n, y)
    BY <1>0, <1>3, <1>8, <2>2, <2>3, <2>5, <2>7, <2>9 DEF IsAt
  <2> QED BY <2>11 DEF y
<1> QED BY <1>0, <1>7, <1>8, PathFields

\* The branches of a path, from the origin on.
Along(p, at, n) ==
    at[0] = Start /\ \A k \in 1 .. n : at[k] = Onward(at[k - 1], p[k])

LEMMA AlongIs ==
    ASSUME NEW j \in Batches, NEW p, Allowed(j, p), NEW n \in 0 .. Len(p), NEW at,
           Along(p, at, n)
    PROVE  \A k \in 0 .. n : IsAt(p, k, at[k])
<1> DEFINE Holds == {k \in 0 .. n : IsAt(p, k, at[k])}
<1>0. Len(p) \in Nat /\ n \in Nat
  BY PathFields
<1>1. 0 \in Holds
  BY <1>0, StartIsAt DEF Along
<1>2. ASSUME NEW k \in 1 .. n, k - 1 \in Holds
      PROVE  k \in Holds
  <2>1. IsAt(p, k - 1, at[k - 1]) /\ at[k] = Onward(at[k - 1], p[k])
    BY <1>2 DEF Along
  <2>2. k = 1 \/ k = 2 \/ k \in 3 .. Len(p)
    BY <1>0
  <2>3. k <= Len(p) /\ k \in 0 .. n
    BY <1>0
  <2>4. CASE k = 1
    BY <2>1, <2>3, <2>4, FirstWalkIsAt
  <2>5. CASE k = 2
    BY <2>1, <2>3, <2>5, FirstRideIsAt
  <2>6. CASE k \in 3 .. Len(p)
    BY <2>1, <2>3, <2>6, LaterLegIsAt
  <2> QED BY <2>2, <2>4, <2>5, <2>6
<1>3. \A k \in 1 .. n : k - 1 \in Holds => k \in Holds
  BY <1>2
<1>4. 0 .. n \subseteq Holds
  <2> HIDE DEF Holds
  <2> QED BY <1>0, <1>1, <1>3, UpTo
<1> QED BY <1>4

LEMMA MaxIsMember ==
    ASSUME NEW S \in SUBSET Nat, NEW n \in Nat, \A i \in S : i <= n, S # {}
    PROVE  Max(S) \in S
<1> DEFINE T == {n - i : i \in S}
<1>1. T \in SUBSET Nat /\ T # {}
  <2>1. \A i \in S : i \in Nat /\ n - i \in Nat
    OBVIOUS
  <2> QED BY <2>1
<1>2. PICK t \in T : \A u \in T : t <= u
  <2> HIDE DEF T
  <2> QED BY <1>1, LeastNumber
<1>3. PICK s \in S : t = n - s
  BY <1>2
<1>4. \A u \in S : s >= u
  <2> SUFFICES ASSUME NEW u \in S
               PROVE  s >= u
    OBVIOUS
  <2>1. n - u \in T
    OBVIOUS
  <2> QED BY <1>2, <1>3, <2>1
<1>5. \E x \in S : \A y \in S : x >= y
  BY <1>4
<1> QED BY <1>5 DEF Max

\* Whether a leg is allowed depends on the legs before it, and on none after.
LEMMA OnlyTheLegsBefore ==
    ASSUME NEW j \in Batches, NEW p \in Seq(j.network), NEW q \in Seq(j.network),
           NEW n \in Nat, n <= Len(p), n <= Len(q),
           \A k \in 1 .. n : p[k] = q[k]
    PROVE  /\ RidesTo(p, n) = RidesTo(q, n)
           /\ \A k \in 1 .. n :
                LegAllowed(Timetable(j), p, k) <=> LegAllowed(Timetable(j), q, k)
<1>0. /\ Len(p) \in Nat /\ DOMAIN p = 1 .. Len(p)
      /\ Len(q) \in Nat /\ DOMAIN q = 1 .. Len(q)
  OBVIOUS
<1>1. RidesTo(p, n) = RidesTo(q, n)
  BY <1>0 DEF RidesTo, Rides
<1>2. ASSUME NEW k \in 1 .. n
      PROVE  LegAllowed(Timetable(j), p, k) <=> LegAllowed(Timetable(j), q, k)
  <2> DEFINE before == {r \in Rides(p) : r < k}
  <2>1. before = {r \in Rides(q) : r < k}
    BY <1>0 DEF Rides
  <2>2. \A h \in 1 .. k : h \in 1 .. n /\ p[h] = q[h]
    BY <1>0
  <2>3. /\ before \subseteq 1 .. k
        /\ k # 1 => k - 1 \in 1 .. k
        /\ k \in 1 .. k /\ \A h \in 1 .. k - 1 : h \in 1 .. k
    BY <1>0 DEF Rides
  <2>4. before # {} => Max(before) \in 1 .. k
    <3> HAVE before # {}
    <3>1. before \in SUBSET Nat /\ k \in Nat /\ \A h \in before : h <= k
      BY <1>0, <2>3
    <3>3. Max(before) \in before
      <4> HIDE DEF before
      <4> QED BY <3>1, MaxIsMember
    <3> QED BY <2>3, <3>3
  <2>5. p[k] = q[k] /\ (k > 1 => p[k - 1] = q[k - 1])
    BY <2>2, <2>3
  <2>6. before # {} => p[Max(before)] = q[Max(before)]
    BY <2>2, <2>4
  <2>7. {p[h].to : h \in 1 .. k - 1} = {q[h].to : h \in 1 .. k - 1}
    BY <2>2, <2>3
  <2>8. \A h \in before : p[h] = q[h]
    BY <2>2, <2>3
  <2> DEFINE ended == {p[h].to : h \in 1 .. k - 1}
             fresh(x) == \A h \in before :
                            <<x[h].to, x[h].position>> # <<x[k].to, x[k].position>>
             rule(x) ==
                LET walked == IF x[k - 1].kind = "walk" THEN x[k - 1].time ELSE 0
                IN  /\ x[k].from = IF k = 1 THEN Origin ELSE x[k - 1].to
                    /\ IF x[k].kind = "walk"
                       THEN /\ k > 1 => x[k - 1].kind = "ride"
                            /\ k = 1 => x[k].to \in Stops
                            /\ x[k].to \notin ended \cup {x[k].from}
                       ELSE /\ k > 1
                            /\ fresh(x)
                            /\ IF before = {} THEN x[k].dep \in Timetable(j).departures
                               ELSE /\ Overtakes(Timetable(j).network, x[Max(before)], x[k])
                                    /\ x[k].dep - x[Max(before)].arr - walked
                                          \in MinWait .. MaxWait
  <2>9. LegAllowed(Timetable(j), p, k) <=> rule(p)
    BY DEF LegAllowed
  <2>10. LegAllowed(Timetable(j), q, k) <=> rule(q)
    <3>1. {r \in Rides(q) : r < k} = before /\ {q[h].to : h \in 1 .. k - 1} = ended
      BY <2>1, <2>7
    <3> HIDE DEF before, ended
    <3> QED BY <3>1 DEF LegAllowed
  <2>11. fresh(p) <=> fresh(q)
    BY <2>5, <2>8
  <2>12. rule(p) <=> rule(q)
    <3> HIDE DEF before, ended, fresh
    <3>1. CASE k = 1
      BY <2>5, <2>11, <3>1
    <3>2. CASE k > 1
      BY <2>5, <2>6, <2>11, <3>2
    <3> QED BY <1>0, <3>1, <3>2
  <2> HIDE DEF rule
  <2> QED BY <2>9, <2>10, <2>12
<1> QED BY <1>1, <1>2

\* A leg that may follow a path.
MayFollow(j, q, l) ==
    LET n == Len(q) IN
    /\ l.from = IF n = 0 THEN Origin ELSE q[n].to
    /\ IF l.kind = "walk"
       THEN /\ n # 0 => q[n].kind = "ride"
            /\ n = 0 => l.to \in Stops
            /\ l.to \notin {q[h].to : h \in 1 .. n} \cup {l.from}
       ELSE /\ n # 0
            /\ \A h \in Rides(q) : <<q[h].to, q[h].position>> # <<l.to, l.position>>
            /\ IF n = 1 THEN l.dep \in j.departures
               ELSE /\ Overtakes(j.network, q[LastAt(q, n)], l)
                    /\ l.dep - ArrivalAt(q, n) \in MinWait .. MaxWait

LEMMA AppendedFields ==
    ASSUME NEW S, NEW q \in Seq(S), NEW l \in S
    PROVE  /\ Append(q, l) \in Seq(S) /\ Len(Append(q, l)) = Len(q) + 1
           /\ Append(q, l)[Len(q) + 1] = l
           /\ \A k \in 1 .. Len(q) : Append(q, l)[k] = q[k]
           /\ Len(q) \in Nat /\ DOMAIN q = 1 .. Len(q)
OBVIOUS

LEMMA MayFollowIs ==
    ASSUME NEW j \in Batches, NEW q, Allowed(j, q), NEW l \in j.network
    PROVE  LegAllowed(Timetable(j), Append(q, l), Len(q) + 1) <=> MayFollow(j, q, l)
<1> DEFINE p == Append(q, l)
           n == Len(q)
<1>0. q \in Seq(j.network)
  BY DEF Allowed
<1>1. /\ p \in Seq(j.network) /\ Len(p) = n + 1 /\ p[n + 1] = l /\ n \in Nat
      /\ DOMAIN q = 1 .. n /\ DOMAIN p = 1 .. n + 1
      /\ \A k \in 1 .. n : p[k] = q[k]
  BY <1>0, AppendedFields
<1>2. Timetable(j).network = j.network /\ Timetable(j).departures = j.departures
  BY DEF Timetable
<1>3. {r \in Rides(p) : r < n + 1} = Rides(q)
  <2> HIDE DEF p, n
  <2> QED BY <1>1 DEF Rides
<1>4. {p[h].to : h \in 1 .. n} = {q[h].to : h \in 1 .. n}
  BY <1>1
<1>5. n + 1 > 1 <=> n # 0
  BY <1>1
<1>6. n # 0 => p[n] = q[n]
  <2>1. n # 0 => n \in 1 .. n
    BY <1>1
  <2> HIDE DEF p, n
  <2> QED BY <1>1, <2>1
<1>7. \A h \in Rides(q) : p[h] = q[h]
  BY <1>1 DEF Rides
<1>8. /\ n <= 1 => Rides(q) = {}
      /\ n > 1 => /\ Max(Rides(q)) = LastAt(q, n) /\ Rides(q) # {}
                  /\ LastAt(q, n) \in Rides(q)
  <2>1. n \in 0 .. Len(q)
    BY <1>1
  <2>2. RidesTo(q, n) = Rides(q)
    BY <2>1, RidesToFacts
  <2>3. n > 1 => 2 <= n
    BY <1>1
  <2>4. n <= 1 => Rides(q) = {}
    BY <2>1, <2>2, RidesToFacts
  <2>5. 2 <= n => /\ Max(Rides(q)) = LastAt(q, n) /\ LastAt(q, n) \in Rides(q)
    BY <2>1, <2>2, RidesToFacts
  <2> QED BY <2>3, <2>4, <2>5
<1> DEFINE last == p[Max(Rides(q))]
           walked == IF p[n].kind = "walk" THEN p[n].time ELSE 0
<1>9. LegAllowed(Timetable(j), p, n + 1) <=>
        /\ l.from = IF n = 0 THEN Origin ELSE p[n].to
        /\ IF l.kind = "walk"
           THEN /\ n # 0 => p[n].kind = "ride"
                /\ n = 0 => l.to \in Stops
                /\ l.to \notin {p[h].to : h \in 1 .. n} \cup {l.from}
           ELSE /\ n # 0
                /\ \A h \in Rides(q) : <<p[h].to, p[h].position>> # <<l.to, l.position>>
                /\ IF Rides(q) = {} THEN l.dep \in j.departures
                   ELSE /\ Overtakes(j.network, last, l)
                        /\ l.dep - last.arr - walked \in MinWait .. MaxWait
  <2>1. (n + 1) - 1 = n /\ (n + 1 = 1 <=> n = 0)
    BY <1>1
  <2> DEFINE k == n + 1
  <2>2. k - 1 = n /\ (k = 1 <=> n = 0) /\ (k > 1 <=> n # 0) /\ p[k] = l
        /\ {r \in Rides(p) : r < k} = Rides(q)
    BY <1>1, <1>3, <1>5, <2>1
  <2> HIDE DEF p, n, k
  <2>3. LegAllowed(Timetable(j), p, k) <=>
        /\ l.from = IF n = 0 THEN Origin ELSE p[n].to
        /\ IF l.kind = "walk"
           THEN /\ n # 0 => p[n].kind = "ride"
                /\ n = 0 => l.to \in Stops
                /\ l.to \notin {p[h].to : h \in 1 .. n} \cup {l.from}
           ELSE /\ n # 0
                /\ \A h \in Rides(q) : <<p[h].to, p[h].position>> # <<l.to, l.position>>
                /\ IF Rides(q) = {} THEN l.dep \in j.departures
                   ELSE /\ Overtakes(j.network, last, l)
                        /\ l.dep - last.arr - walked \in MinWait .. MaxWait
    BY <1>2, <2>2 DEF LegAllowed
  <2> QED BY <2>3 DEF k
<1>10. (\A h \in Rides(q) : <<p[h].to, p[h].position>> # <<l.to, l.position>>)
         <=> \A h \in Rides(q) : <<q[h].to, q[h].position>> # <<l.to, l.position>>
  <2> HIDE DEF p
  <2> QED BY <1>7
<1>11. CASE n = 0
  <2> HIDE DEF p, n, last, walked
  <2>1. \A h \in Rides(q) : FALSE
    BY <1>1, <1>8, <1>11
  <2> QED BY <1>4, <1>9, <1>11, <2>1 DEF MayFollow, n, p
<1>12. CASE n = 1
  <2>1. Rides(q) = {} /\ n # 0
    BY <1>1, <1>8, <1>12
  <2> HIDE DEF p, n, last, walked
  <2> QED BY <1>4, <1>6, <1>9, <1>10, <1>12, <2>1 DEF MayFollow, n, p
<1>13. CASE n > 1
  <2>1. Rides(q) # {} /\ n # 0 /\ n # 1 /\ 2 <= n /\ n \in 2 .. Len(q) /\ n \in 1 .. Len(q)
        /\ n - 1 \in 1 .. Len(q)
    BY <1>1, <1>8, <1>13
  <2>2. last = q[LastAt(q, n)]
    BY <1>7, <1>8, <1>13
  <2>3. CASE l.kind = "walk"
    <3> HIDE DEF p, n, last, walked
    <3> QED BY <1>4, <1>6, <1>9, <2>1, <2>3 DEF MayFollow, n, p
  <2>4. CASE l.kind = "ride"
    <3>1. l.dep - last.arr - walked = l.dep - ArrivalAt(q, n)
      <4>1. l.dep \in Int
        BY <2>4, LegIs
      <4>2. CASE q[n].kind = "ride"
        <5>1. q[n].arr \in Int
          BY <2>1, <4>2, PathFields, LegIs
        <5>2. walked = 0 /\ last = q[n] /\ ArrivalAt(q, n) = q[n].arr
          BY <1>6, <2>1, <2>2, <4>2 DEF LastAt, ArrivalAt
        <5> HIDE DEF last, walked
        <5> QED BY <4>1, <5>1, <5>2
      <4>3. CASE q[n].kind = "walk"
        <5>1. q[n].time \in Int /\ q[n - 1].kind = "ride" /\ q[n - 1].arr \in Int
          <6>1. q[n - 1].kind = "ride"
            BY <2>1, <4>3, PathShape
          <6> QED BY <2>1, <4>3, <6>1, PathFields, LegIs
        <5>2. /\ walked = q[n].time /\ last = q[n - 1]
              /\ ArrivalAt(q, n) = q[n - 1].arr + q[n].time
          BY <1>6, <2>1, <2>2, <4>3 DEF LastAt, ArrivalAt
        <5> HIDE DEF last, walked
        <5> QED BY <4>1, <5>1, <5>2
      <4> QED BY <2>1, <4>2, <4>3, PathFields
    <3> HIDE DEF p, n, last, walked
    <3> QED BY <1>6, <1>9, <1>10, <2>1, <2>2, <2>4, <3>1 DEF MayFollow, n, p
  <2> QED BY <2>3, <2>4, LegIs
<1> QED BY <1>1, <1>11, <1>12, <1>13

\* A path of the tree: the legs before its last one end at stops.
PathOf(j, q) ==
    /\ Allowed(j, q)
    /\ \A k \in 1 .. Len(q) - 1 : q[k].to \in Stops

\* All its legs do, so that it may go on.
OpenPath(j, q) ==
    /\ Allowed(j, q)
    /\ \A k \in 1 .. Len(q) : q[k].to \in Stops

LEMMA LegalIs ==
    ASSUME NEW j \in Batches, NEW p \in Seq(j.network)
    PROVE  Legal(Timetable(j), p)
             <=> PathOf(j, p) /\ Cardinality(Rides(p)) <= MaxTransfers + 1
BY DEF Legal, PathOf, Allowed

\* The path that leads to a branch and a leg that may follow.
LEMMA FollowedIsAllowed ==
    ASSUME NEW j \in Batches, NEW q, Allowed(j, q), NEW l \in j.network,
           MayFollow(j, q, l)
    PROVE  Allowed(j, Append(q, l))
<1> DEFINE p == Append(q, l)
<1>1. q \in Seq(j.network)
  BY DEF Allowed
<1>2. /\ p \in Seq(j.network) /\ Len(p) = Len(q) + 1 /\ Len(q) \in Nat
      /\ DOMAIN p = 1 .. Len(q) + 1 /\ DOMAIN q = 1 .. Len(q)
      /\ \A k \in 1 .. Len(q) : p[k] = q[k]
  BY <1>1, AppendedFields
<1>3. \A k \in 1 .. Len(q) : LegAllowed(Timetable(j), p, k)
  <2>1. \A k \in 1 .. Len(q) : LegAllowed(Timetable(j), q, k)
    BY PathFields
  <2>2. Len(q) <= Len(p) /\ Len(q) <= Len(q)
    BY <1>2
  <2> HIDE DEF p
  <2> QED BY <1>1, <1>2, <2>1, <2>2, OnlyTheLegsBefore
<1>4. LegAllowed(Timetable(j), p, Len(q) + 1)
  BY MayFollowIs
<1>5. \A k \in DOMAIN p : k \in 1 .. Len(q) \/ k = Len(q) + 1
  BY <1>2
<1> HIDE DEF p
<1>6. Allowed(j, p)
  BY <1>2, <1>3, <1>4, <1>5 DEF Allowed
<1> QED BY <1>6 DEF p

\* A path that goes the way of another one so far.
Begins(q, p) == Len(q) <= Len(p) /\ \A k \in 1 .. Len(q) : q[k] = p[k]

LEMMA NextLegMayFollow ==
    ASSUME NEW j \in Batches, NEW p, Allowed(j, p), NEW q, Allowed(j, q),
           Begins(q, p), Len(q) < Len(p)
    PROVE  /\ p[Len(q) + 1] \in j.network /\ MayFollow(j, q, p[Len(q) + 1])
           /\ Begins(Append(q, p[Len(q) + 1]), p)
           /\ Len(Append(q, p[Len(q) + 1])) = Len(q) + 1
<1> DEFINE n == Len(q)
           l == p[n + 1]
           r == Append(q, l)
<1>1. /\ n \in Nat /\ Len(p) \in Nat /\ n + 1 \in 1 .. Len(p) /\ l \in j.network
      /\ p \in Seq(j.network) /\ q \in Seq(j.network)
  <2>1. n \in Nat /\ Len(p) \in Nat /\ p \in Seq(j.network) /\ q \in Seq(j.network)
    BY PathFields DEF Allowed
  <2>2. n + 1 \in 1 .. Len(p)
    BY <2>1
  <2> QED BY <2>1, <2>2, PathFields
<1>2. /\ r \in Seq(j.network) /\ Len(r) = n + 1 /\ r[n + 1] = l
      /\ \A k \in 1 .. n : r[k] = q[k]
  <2> HIDE DEF l
  <2> QED BY <1>1, AppendedFields
<1>3. \A k \in 1 .. n + 1 : r[k] = p[k]
  <2>1. \A k \in 1 .. n + 1 : k \in 1 .. n \/ k = n + 1
    BY <1>1
  <2> HIDE DEF r
  <2> QED BY <1>2, <2>1 DEF Begins
<1>4. Len(r) <= Len(p) /\ n + 1 \in Nat /\ n + 1 <= Len(p) /\ n + 1 <= Len(r)
  BY <1>1, <1>2
<1>5. LegAllowed(Timetable(j), r, n + 1)
  <2>1. LegAllowed(Timetable(j), p, n + 1)
    BY <1>1, PathFields
  <2>2. n + 1 \in 1 .. n + 1 /\ \A k \in 1 .. n + 1 : p[k] = r[k]
    BY <1>1, <1>3
  <2> HIDE DEF n, l, r
  <2> QED BY <1>1, <1>2, <1>4, <2>1, <2>2, OnlyTheLegsBefore
<1>6. MayFollow(j, q, l)
  BY <1>1, <1>5, MayFollowIs
<1>7. Begins(r, p)
  <2> HIDE DEF r
  <2> QED BY <1>2, <1>3, <1>4 DEF Begins
<1> QED BY <1>1, <1>2, <1>6, <1>7

LEMMA PrefixIs ==
    ASSUME NEW j \in Batches, NEW p, Allowed(j, p), NEW n \in 0 .. Len(p)
    PROVE  \E q : /\ Allowed(j, q) /\ Len(q) = n /\ Begins(q, p)
                  /\ PathOf(j, p) /\ n < Len(p) => OpenPath(j, q)
<1> DEFINE q == [k \in 1 .. n |-> p[k]]
<1>1. /\ Len(p) \in Nat /\ n \in Nat /\ p \in Seq(j.network)
      /\ \A k \in 1 .. n : k \in 1 .. Len(p) /\ p[k] \in j.network
  <2>1. Len(p) \in Nat /\ p \in Seq(j.network)
    BY PathFields DEF Allowed
  <2>2. n \in Nat /\ \A k \in 1 .. n : k \in 1 .. Len(p)
    BY <2>1
  <2> QED BY <2>1, <2>2, PathFields
<1>2. /\ q \in Seq(j.network) /\ Len(q) = n /\ DOMAIN q = 1 .. n
      /\ \A k \in 1 .. n : q[k] = p[k]
  <2>1. q \in [1 .. n -> j.network]
    BY <1>1
  <2>2. q \in Seq(j.network) /\ Len(q) = n
    BY <1>1, <2>1
  <2> QED BY <2>2
<1> HIDE DEF q
<1>3. Len(q) <= Len(p) /\ n <= Len(p) /\ n <= Len(q)
  BY <1>1, <1>2
<1>4. \A k \in 1 .. n : LegAllowed(Timetable(j), q, k)
  <2>1. \A k \in 1 .. n : LegAllowed(Timetable(j), p, k)
    BY <1>1, PathFields
  <2>2. \A k \in 1 .. n : p[k] = q[k]
    BY <1>2
  <2> QED BY <1>1, <1>2, <1>3, <2>1, <2>2, OnlyTheLegsBefore
<1>5. Allowed(j, q)
  BY <1>2, <1>4 DEF Allowed
<1>6. Begins(q, p)
  BY <1>2, <1>3 DEF Begins
<1>7. PathOf(j, p) /\ n < Len(p) => OpenPath(j, q)
  <2>1. n < Len(p) => \A k \in 1 .. n : k \in 1 .. Len(p) - 1
    BY <1>1
  <2> QED BY <1>2, <1>5, <2>1 DEF PathOf, OpenPath
<1> QED BY <1>2, <1>5, <1>6, <1>7

\* No more rides than the transfers allow.
FewRides(p) == Cardinality(Rides(p)) <= MaxTransfers + 1

LEMMA RidesLeft ==
    ASSUME NEW j \in Batches, NEW p, Allowed(j, p), FewRides(p), NEW n \in 2 .. Len(p)
    PROVE  /\ Cardinality(RidesTo(p, n)) \in Nat
           /\ Cardinality(RidesTo(p, n)) - 1 <= MaxTransfers
           /\ \A k \in n + 1 .. Len(p) : p[k].kind = "ride" =>
                Cardinality(RidesTo(p, n)) - 1 < MaxTransfers
<1>1. Len(p) \in Nat /\ n \in 0 .. Len(p) /\ DOMAIN p = 1 .. Len(p)
  BY PathFields
<1>2. IsFiniteSet(Rides(p)) /\ Rides(p) \in SUBSET (1 .. Len(p))
  <2>1. Len(p) \in 0 .. Len(p)
    BY <1>1
  <2> QED BY <2>1, RidesToFacts
<1>3. RidesTo(p, n) \subseteq Rides(p) /\ IsFiniteSet(RidesTo(p, n))
  BY <1>1, RidesToFacts DEF RidesTo
<1>4. /\ Cardinality(RidesTo(p, n)) \in Nat /\ Cardinality(Rides(p)) \in Nat
      /\ Cardinality(RidesTo(p, n)) <= Cardinality(Rides(p))
  BY <1>2, <1>3, FS_Subset, FS_CardinalityType
<1>5. ASSUME NEW k \in n + 1 .. Len(p), p[k].kind = "ride"
      PROVE  Cardinality(RidesTo(p, n)) < Cardinality(Rides(p))
  <2>1. k \in Rides(p) /\ k \notin RidesTo(p, n)
    BY <1>1, <1>5 DEF Rides, RidesTo
  <2> QED BY <1>2, <1>3, <1>4, <2>1, FS_Subset
<1> QED BY <1>4, <1>5, MaxTransfersAssumption DEF FewRides

\* The next leg of a path is one that a branch may take.
LEMMA NextLegIsTaken ==
    ASSUME NEW j \in Batches, NEW p, PathOf(j, p), FewRides(p),
           NEW n \in 1 .. Len(p), NEW x, IsAt(p, n - 1, x)
    PROVE  MayTake(x, p[n])
<1>0. Allowed(j, p)
  BY DEF PathOf
<1>1. Len(p) \in Nat /\ n - 1 \in 0 .. Len(p) /\ n - 1 < Len(p)
  BY <1>0, PathFields
<1>2. PICK q : Allowed(j, q) /\ Len(q) = n - 1 /\ Begins(q, p) /\ OpenPath(j, q)
  BY <1>0, <1>1, PrefixIs
<1>3. p[n] \in j.network /\ MayFollow(j, q, p[n])
  <2>1. (n - 1) + 1 = n /\ Len(q) < Len(p)
    BY <1>1, <1>2
  <2>2. p[Len(q) + 1] \in j.network /\ MayFollow(j, q, p[Len(q) + 1])
    BY <1>0, <1>2, <2>1, NextLegMayFollow
  <2> QED BY <1>2, <2>1, <2>2
<1>4. n - 1 # 0 => q[n - 1] = p[n - 1] /\ n - 1 \in 1 .. Len(p) /\ p[n - 1].to \in Stops
  <2>1. n - 1 # 0 => n - 1 \in 1 .. n - 1 /\ n - 1 \in 1 .. Len(p)
    BY <1>1
  <2> QED BY <1>2, <2>1 DEF Begins, OpenPath
<1>5. p[n].from = x.node
  BY <1>2, <1>3, <1>4 DEF MayFollow, IsAt
<1>6. CASE p[n].kind = "walk" /\ n = 1
  <2>1. n - 1 = 0
    BY <1>6
  <2>2. p[n].to \in Stops /\ x.phase = "AtOrigin"
    BY <1>2, <1>3, <1>6, <2>1 DEF MayFollow, IsAt
  <2> QED BY <1>5, <1>6, <2>2 DEF MayTake
<1>7. CASE p[n].kind = "walk" /\ n # 1
  <2>1. n - 1 # 0 /\ n \in 2 .. Len(p)
    BY <1>1, <1>7
  <2>2. p[n - 1].kind = "ride"
    BY <1>0, <1>7, <2>1, PathShape
  <2>3. n - 1 # 1
    <3>1. 1 <= Len(p) /\ p[1].kind = "walk"
      BY <1>0, <1>1, <2>1, PathShape
    <3> QED BY <2>2, <3>1
  <2>4. x.phase = "AfterTimedRide"
    BY <2>1, <2>2, <2>3 DEF IsAt
  <2> QED BY <1>5, <1>7, <2>4 DEF MayTake
<1>8. CASE p[n].kind = "ride" /\ n = 2
  <2>1. n - 1 = 1 /\ n - 1 # 0 /\ n - 1 <= 1
    BY <1>8
  <2>2. x.phase = "BeforeFirstBoarding" /\ ~x.m.boarded
    BY <2>1 DEF IsAt
  <2> QED BY <1>5, <1>8, <2>2 DEF MayTake
<1>9. CASE p[n].kind = "ride" /\ n > 2
  <2>1. /\ n - 1 # 0 /\ n - 1 # 1 /\ 2 <= n - 1 /\ n - 1 \in 2 .. Len(p)
        /\ n \in (n - 1) + 1 .. Len(p) /\ n - 2 \in 1 .. n - 1
    BY <1>1, <1>9
  <2>2. x.m.boarded /\ x.m.now = ArrivalAt(p, n - 1) /\ x.m.nt < MaxTransfers
    BY <1>0, <1>9, <2>1, RidesLeft DEF IsAt
  <2>3. ArrivalAt(q, n - 1) = ArrivalAt(p, n - 1)
    <3>1. q[n - 1] = p[n - 1] /\ q[n - 2] = p[n - 2] /\ (n - 1) - 1 = n - 2
      BY <1>2, <1>4, <2>1 DEF Begins
    <3> QED BY <3>1 DEF ArrivalAt
  <2>4. p[n].dep - ArrivalAt(q, n - 1) \in MinWait .. MaxWait
    BY <1>2, <1>3, <1>9, <2>1 DEF MayFollow
  <2>5. x.phase \notin {"AtOrigin", "Completed"}
    BY <1>4, <2>1 DEF IsAt
  <2> QED BY <1>5, <1>9, <2>2, <2>3, <2>4, <2>5 DEF MayTake
<1>10. p[n].kind = "ride" => n # 1
  <2>1. 1 <= Len(p) => p[1].kind = "walk"
    BY <1>0, PathShape
  <2> QED BY <1>1, <2>1
<1> QED BY <1>1, <1>3, <1>6, <1>7, <1>8, <1>9, <1>10, LegIs

LEMMA AlongExists ==
    ASSUME NEW j \in Batches, NEW p, Allowed(j, p)
    PROVE  \E at : Along(p, at, Len(p))
<1> DEFINE S == [node : Nodes, phase : Phases, m : Travelled]
           step == [k \in 1 .. Len(p) |-> [x \in S |-> Onward(x, p[k])]]
<1>1. Len(p) \in Nat /\ \A k \in 1 .. Len(p) : p[k] \in j.network
  BY PathFields
<1>2. Start \in S
  <2>1. Origin \in Nodes /\ "AtOrigin" \in Phases
    BY DEF Nodes, Phases
  <2>2. Root.m \in Travelled
    BY DEF Root, Travelled
  <2> QED BY <2>1, <2>2 DEF Start
<1>3. \A x \in S : \A l \in j.network : Onward(x, l) \in S
  <2> SUFFICES ASSUME NEW x \in S, NEW l \in j.network
               PROVE  Onward(x, l) \in S
    OBVIOUS
  <2>1. x.m \in Travelled
    OBVIOUS
  <2>2. Extend(x.m, l) \in Travelled
    BY <2>1, ExtendTyped
  <2>3. l.to \in Nodes
    BY DEF Nodes, Legs
  <2>4. NextPhase(x, l) \in Phases
    BY DEF NextPhase, Phases
  <2> QED BY <2>2, <2>3, <2>4 DEF Onward
<1>4. Stepping(step, Len(p), S)
  <2>1. \A k \in 1 .. Len(p) : [x \in S |-> Onward(x, p[k])] \in [S -> S]
    <3> HIDE DEF S
    <3> QED BY <1>1, <1>3
  <2> HIDE DEF S
  <2> QED BY <2>1 DEF Stepping
<1>5. PICK at : Stepwise(at, Len(p), S, Start, step)
  <2> HIDE DEF S, step
  <2> QED BY <1>1, <1>2, <1>4, Recursion
<1>6. at[0] = Start
  BY <1>5 DEF Stepwise
<1>7. ASSUME NEW k \in 1 .. Len(p)
      PROVE  at[k] = Onward(at[k - 1], p[k])
  <2>1. k - 1 \in 0 .. Len(p)
    BY <1>1
  <2>2. at[k - 1] \in S
    <3> HIDE DEF S, step
    <3> QED BY <1>5, <2>1 DEF Stepwise
  <2>3. at[k] = step[k][at[k - 1]]
    <3> HIDE DEF S, step
    <3> QED BY <1>5 DEF Stepwise
  <2>4. step[k] = [x \in S |-> Onward(x, p[k])]
    OBVIOUS
  <2> HIDE DEF S, step
  <2> QED BY <2>2, <2>3, <2>4
<1> QED BY <1>6, <1>7 DEF Along

LEMMA PathStands ==
    ASSUME NEW j \in Batches, NEW p, PathOf(j, p), FewRides(p), NEW n \in 0 .. Len(p),
           NEW at, Along(p, at, n)
    PROVE  \A k \in 0 .. n : Standing(at[k])
<1> DEFINE Holds == {k \in 0 .. n : Standing(at[k])}
<1>0. Allowed(j, p) /\ Len(p) \in Nat /\ n \in Nat
  BY PathFields DEF PathOf
<1>1. 0 \in Holds
  BY <1>0, StartIsAt DEF Along
<1>2. ASSUME NEW k \in 1 .. n, k - 1 \in Holds
      PROVE  k \in Holds
  <2>1. k \in 1 .. Len(p) /\ k - 1 \in 0 .. n /\ k \in 0 .. n
    BY <1>0
  <2>2. IsAt(p, k - 1, at[k - 1])
    BY <1>0, <2>1, AlongIs
  <2>3. MayTake(at[k - 1], p[k]) /\ p[k] \in j.network
    BY <1>0, <2>1, <2>2, NextLegIsTaken, PathFields
  <2>4. Standing(Onward(at[k - 1], p[k]))
    BY <1>2, <2>3, OnwardStands
  <2> QED BY <2>1, <2>4 DEF Along
<1>3. \A k \in 1 .. n : k - 1 \in Holds => k \in Holds
  BY <1>2
<1>4. 0 .. n \subseteq Holds
  <2> HIDE DEF Holds
  <2> QED BY <1>0, <1>1, <1>3, UpTo
<1> QED BY <1>4

\* What is left of a path is a journey from where its beginning leads.
LEMMA RestIsJourney ==
    ASSUME NEW j \in Batches, NEW p, PathOf(j, p), FewRides(p), NEW n \in 0 .. Len(p),
           NEW at, Along(p, at, Len(p))
    PROVE  \E m, on : Journey(j.network, on, m) /\ on[0] = at[n] /\ on[m] = at[Len(p)]
<1> DEFINE m == Len(p) - n
           on == [k \in 0 .. m |-> at[n + k]]
<1>0. Allowed(j, p) /\ Len(p) \in Nat /\ n \in Nat /\ m \in Nat /\ n + m = Len(p)
  BY PathFields DEF PathOf
<1>1. on[0] = at[n] /\ on[m] = at[Len(p)]
  BY <1>0
<1>2. ASSUME NEW k \in 1 .. m
      PROVE  \E leg \in j.network :
                MayTake(on[k - 1], leg) /\ on[k] = Onward(on[k - 1], leg)
  <2>1. /\ n + k \in 1 .. Len(p) /\ (n + k) - 1 = n + (k - 1)
        /\ (n + k) - 1 \in 0 .. Len(p)
    BY <1>0
  <2>2. on[k - 1] = at[(n + k) - 1] /\ on[k] = at[n + k]
    BY <1>0, <2>1
  <2>3. IsAt(p, (n + k) - 1, at[(n + k) - 1])
    <3>1. Len(p) \in 0 .. Len(p)
      BY <1>0
    <3> QED BY <1>0, <2>1, <3>1, AlongIs
  <2>4. MayTake(at[(n + k) - 1], p[n + k]) /\ p[n + k] \in j.network
    <3> DEFINE h == n + k
    <3>1. h \in 1 .. Len(p) /\ IsAt(p, h - 1, at[h - 1])
      BY <2>1, <2>3
    <3> HIDE DEF h
    <3>2. MayTake(at[h - 1], p[h]) /\ p[h] \in j.network
      BY <1>0, <3>1, NextLegIsTaken, PathFields
    <3> QED BY <3>2 DEF h
  <2>5. at[n + k] = Onward(at[(n + k) - 1], p[n + k])
    BY <2>1 DEF Along
  <2> HIDE DEF on
  <2> QED BY <2>2, <2>4, <2>5
<1>3. Journey(j.network, on, m)
  <2> HIDE DEF on, m
  <2> QED BY <1>0, <1>2 DEF Journey
<1> HIDE DEF on, m
<1> QED BY <1>1, <1>3

\* A path that ends at a zone.
Ends(p) == Len(p) # 0 /\ p[Len(p)].to \notin Stops

LEMMA EndsShape ==
    ASSUME NEW j \in Batches, NEW p, Allowed(j, p), Ends(p)
    PROVE  /\ Len(p) \in 3 .. Len(p) /\ Len(p) - 1 \in 2 .. Len(p)
           /\ p[Len(p)].kind = "walk" /\ p[Len(p) - 1].kind = "ride"
<1>1. Len(p) \in Nat /\ Len(p) # 0 /\ Len(p) \in 1 .. Len(p)
  BY PathFields DEF Ends
<1>2. p[Len(p)].kind = "walk"
  BY <1>1, PathFields DEF Ends
<1>3. Len(p) # 1
  BY <1>1, PathShape DEF Ends
<1>4. Len(p) # 2
  BY <1>1, <1>2, PathShape
<1> DEFINE n == Len(p)
<1>5. n \in 2 .. n /\ n \in 3 .. n /\ n - 1 \in 2 .. n
  <2>1. n \in Nat /\ n # 0 /\ n # 1 /\ n # 2
    BY <1>1, <1>3, <1>4
  <2> HIDE DEF n
  <2> QED BY <2>1
<1>6. p[Len(p) - 1].kind = "ride"
  BY <1>2, <1>5, PathShape
<1> QED BY <1>2, <1>5, <1>6

\* The branch that completes a path has the metrics that are measured of it.
LEMMA MeasuredIs ==
    ASSUME NEW j \in Batches, NEW p, Allowed(j, p), Ends(p),
           NEW y, IsAt(p, Len(p), y)
    PROVE  /\ y.phase = "Completed" /\ y.node = p[Len(p)].to /\ y.m \in Travelled
           /\ Measured(p) = [path |-> p, dep |-> y.m.dep, arr |-> y.m.now,
                             nt |-> y.m.nt, imp |-> y.m.imp]
<1> DEFINE n == Len(p)
<1>1. /\ n \in Nat /\ n \in 3 .. n /\ n - 1 \in 2 .. n /\ p[n].kind = "walk"
      /\ p[n - 1].kind = "ride" /\ 2 <= n /\ n # 0 /\ n # 1 /\ n \in 0 .. n
      /\ 2 \in 1 .. n /\ ~(n <= 1)
  BY EndsShape, PathFields
<1>2. /\ y.m \in Travelled /\ y.m.dep = p[2].dep - p[1].time
      /\ y.m.now = ArrivalAt(p, n)
      /\ y.m.nt = Cardinality(RidesTo(p, n)) - 1
      /\ y.m.imp = ImpedanceAt(p, n) /\ y.node = p[n].to
  BY <1>1 DEF IsAt
<1>3. y.phase = "Completed"
  <2>1. p[n].kind # "ride" /\ p[n].to \notin Stops
    BY <1>1 DEF Ends
  <2> QED BY <1>1, <2>1 DEF IsAt
<1>4. /\ RidesTo(p, n) = Rides(p) /\ Max(Rides(p)) = n - 1
      /\ Rides(p) \in SUBSET (1 .. n)
  <2>1. RidesTo(p, n) = Rides(p) /\ RidesTo(p, n) \in SUBSET (1 .. n)
    BY <1>1, RidesToFacts
  <2>2. Max(RidesTo(p, n)) = LastAt(p, n)
    BY <1>1, RidesToFacts
  <2>3. LastAt(p, n) = n - 1
    BY <1>1 DEF LastAt
  <2> QED BY <2>1, <2>2, <2>3
<1>5. Min(Rides(p)) = 2
  <2>1. p[2].kind = "ride" /\ p[1].kind = "walk"
    BY <1>1, PathShape
  <2>2. 2 \in Rides(p) /\ 1 \notin Rides(p)
    BY <1>1, <2>1, PathFields DEF Rides
  <2>3. \A x \in Rides(p) : 2 <= x
    BY <1>4, <2>2
  <2>4. Rides(p) \in SUBSET Int
    BY <1>4
  <2> QED BY <2>2, <2>3, <2>4, MinIs
<1>6. /\ Total(OnRides(p, LAMBDA l : l.arr - l.dep)) = Rode(p, n)
      /\ Total(OnRides(p, LAMBDA l : l.fare)) = Paid(p, n)
      /\ Total(Walking(p)) = Walked(p, n)
  BY SumsOfLegs DEF Rode, Paid, Walked, Riding, Fares
<1>7. p[n - 1].arr + p[n].time = ArrivalAt(p, n)
  BY <1>1 DEF ArrivalAt
<1> DEFINE dep == p[2].dep - p[1].time
           arr == ArrivalAt(p, n)
           transfers == Cardinality(Rides(p)) - 1
           walking == Walked(p, n)
           riding == Rode(p, n)
           fares == Paid(p, n)
<1>8. Measured(p) =
        [path |-> p, dep |-> dep, arr |-> arr, nt |-> transfers,
         imp |-> riding + WalkWeight * walking
                   + WaitWeight * ((arr - dep) - riding - walking)
                   + TransferPenalty * transfers + fares]
  BY <1>4, <1>5, <1>6, <1>7 DEF Measured
<1>9. y.m.imp = riding + WalkWeight * walking
                  + WaitWeight * ((arr - dep) - riding - walking)
                  + TransferPenalty * transfers + fares
  BY <1>2, <1>4 DEF ImpedanceAt, Weigh
<1>10. y.m.dep = dep /\ y.m.now = arr /\ y.m.nt = transfers
  BY <1>2, <1>4
<1> HIDE DEF dep, arr, transfers, walking, riding, fares
<1> QED BY <1>2, <1>3, <1>8, <1>9, <1>10

------------------------------------------------------------------------------
(* What a timetable offers: the legal paths, and no others.                *)

LEMMA SameLegs ==
    ASSUME NEW S, NEW p \in Seq(S), NEW q \in Seq(S), Len(p) = Len(q),
           \A k \in 1 .. Len(p) : p[k] = q[k]
    PROVE  p = q
<1>1. DOMAIN p = 1 .. Len(p) /\ DOMAIN q = 1 .. Len(p)
  OBVIOUS
<1>2. p = [k \in 1 .. Len(p) |-> p[k]] /\ q = [k \in 1 .. Len(p) |-> q[k]]
  BY <1>1
<1> QED BY <1>2

LEMMA LengthIsBounded ==
    ASSUME NEW j \in Batches, NEW p, Allowed(j, p), FewRides(p)
    PROVE  Len(p) <= LongestSuffix
<1> DEFINE Holds == {n \in 0 .. Len(p) :
                        /\ Cardinality(RidesTo(p, n)) \in Nat
                        /\ n <= 2 * Cardinality(RidesTo(p, n)) + 1
                        /\ n # 0 /\ p[n].kind = "ride" =>
                                n <= 2 * Cardinality(RidesTo(p, n))}
<1>0. Len(p) \in Nat
  BY PathFields
<1>1. 0 \in Holds
  <2>1. 0 \in 0 .. Len(p)
    BY <1>0
  <2>2. IsFiniteSet(RidesTo(p, 0))
    BY <2>1, RidesToFacts
  <2>3. Cardinality(RidesTo(p, 0)) \in Nat
    BY <2>2, FS_CardinalityType
  <2> QED BY <2>1, <2>3
<1>2. ASSUME NEW n \in 1 .. Len(p), n - 1 \in Holds
      PROVE  n \in Holds
  <2> DEFINE was == Cardinality(RidesTo(p, n - 1))
             is == Cardinality(RidesTo(p, n))
  <2>1. n \in 0 .. Len(p) /\ n - 1 \in 0 .. Len(p)
    BY <1>0
  <2>2. /\ was \in Nat /\ n - 1 <= 2 * was + 1
        /\ n - 1 # 0 /\ p[n - 1].kind = "ride" => n - 1 <= 2 * was
    BY <1>2
  <2>3. IsFiniteSet(RidesTo(p, n - 1))
    BY <2>1, RidesToFacts
  <2>4. p[n].kind = "ride" => is = was + 1
    <3> HAVE p[n].kind = "ride"
    <3>1. RidesTo(p, n) = RidesTo(p, n - 1) \cup {n} /\ n \notin RidesTo(p, n - 1)
      BY <2>1, RidesToFacts
    <3> QED BY <2>3, <3>1, FS_AddElement
  <2>5. p[n].kind # "ride" => is = was /\ (n # 1 => p[n - 1].kind = "ride")
    <3> HAVE p[n].kind # "ride"
    <3>1. RidesTo(p, n) = RidesTo(p, n - 1)
      BY <2>1, RidesToFacts
    <3>2. p[n].kind = "walk" /\ (n # 1 => n \in 2 .. Len(p))
      BY <1>0, PathFields
    <3> QED BY <3>1, <3>2, PathShape
  <2> HIDE DEF was, is
  <2>6. is \in Nat /\ n <= 2 * is + 1 /\ (p[n].kind = "ride" => n <= 2 * is)
    <3>1. CASE p[n].kind = "ride"
      BY <2>2, <2>4, <3>1
    <3>2. CASE p[n].kind # "ride"
      BY <2>2, <2>5, <3>2
    <3> QED BY <3>1, <3>2
  <2> QED BY <2>1, <2>6 DEF is
<1>3. \A n \in 1 .. Len(p) : n - 1 \in Holds => n \in Holds
  BY <1>2
<1>4. 0 .. Len(p) \subseteq Holds
  <2> HIDE DEF Holds
  <2> QED BY <1>0, <1>1, <1>3, UpTo
<1>5. Len(p) \in Holds /\ RidesTo(p, Len(p)) = Rides(p)
  <2>1. Len(p) \in 0 .. Len(p)
    BY <1>0
  <2> HIDE DEF Holds
  <2> QED BY <1>4, <2>1, RidesToFacts
<1>6. Cardinality(Rides(p)) \in Nat /\ Len(p) <= 2 * Cardinality(Rides(p)) + 1
  BY <1>5
<1> QED BY <1>0, <1>6, MaxTransfersAssumption DEF FewRides, LongestSuffix

\* The beginning of a legal path is one.
LEMMA PrefixIsLegal ==
    ASSUME NEW j \in Batches, NEW p \in Seq(j.network), Legal(Timetable(j), p),
           Len(p) # 0
    PROVE  \E q \in Seq(j.network) : /\ Legal(Timetable(j), q)
                                     /\ Len(q) = Len(p) - 1
                                     /\ p[Len(p)] \in j.network
                                     /\ p = Append(q, p[Len(p)])
<1>1. PathOf(j, p) /\ FewRides(p) /\ Allowed(j, p)
  BY LegalIs DEF PathOf, FewRides
<1> DEFINE n == Len(p)
<1>2. n \in Nat /\ n - 1 \in 0 .. n /\ n - 1 < n /\ n \in 1 .. n /\ n \in 0 .. n
  BY <1>1, PathFields
<1>3. PICK q : /\ Allowed(j, q) /\ Len(q) = n - 1 /\ Begins(q, p) /\ OpenPath(j, q)
  BY <1>1, <1>2, PrefixIs
<1>4. q \in Seq(j.network) /\ Len(q) \in Nat /\ DOMAIN q = 1 .. n - 1 /\ DOMAIN p = 1 .. n
  BY <1>1, <1>3, PathFields DEF Allowed
<1>5. FewRides(q)
  <2>1. Rides(q) \subseteq Rides(p)
    BY <1>2, <1>3, <1>4 DEF Rides, Begins
  <2>2. IsFiniteSet(Rides(p))
    BY <1>1, <1>2, RidesToFacts
  <2>3. /\ Cardinality(Rides(q)) <= Cardinality(Rides(p))
        /\ Cardinality(Rides(q)) \in Nat /\ Cardinality(Rides(p)) \in Nat
    BY <2>1, <2>2, FS_Subset, FS_CardinalityType
  <2> QED BY <1>1, <2>3, MaxTransfersAssumption DEF FewRides
<1>6. Legal(Timetable(j), q)
  <2>1. PathOf(j, q)
    <3>1. \A k \in 1 .. Len(q) - 1 : k \in 1 .. Len(q)
      BY <1>4
    <3> QED BY <1>3, <3>1 DEF PathOf, OpenPath
  <2> QED BY <1>4, <1>5, <2>1, LegalIs DEF FewRides
<1>7. p[n] \in j.network
  BY <1>1, <1>2, PathFields
<1>8. p = Append(q, p[n])
  <2> DEFINE l == p[n]
             r == Append(q, l)
  <2>1. /\ r \in Seq(j.network) /\ Len(r) = Len(q) + 1 /\ r[Len(q) + 1] = l
        /\ \A k \in 1 .. Len(q) : r[k] = q[k]
    <3> HIDE DEF l
    <3>1. l \in j.network
      BY <1>7 DEF l
    <3> QED BY <1>4, <3>1, AppendedFields
  <2>2. Len(r) = n /\ r[n] = p[n]
    BY <1>2, <1>3, <2>1
  <2>3. \A k \in 1 .. n : k \in 1 .. n - 1 \/ k = n
    BY <1>2
  <2>4. \A k \in 1 .. n : p[k] = r[k]
    <3> HIDE DEF r
    <3> QED BY <1>3, <2>1, <2>2, <2>3 DEF Begins
  <2> HIDE DEF r
  <2> QED BY <2>1, <2>2, <2>4, SameLegs DEF r
<1> QED BY <1>3, <1>4, <1>6, <1>7, <1>8

LEMMA LegalPathsAre ==
    ASSUME NEW j \in Batches
    PROVE  LegalPaths(Timetable(j)) =
             {p \in Seq(j.network) : Legal(Timetable(j), p) /\ Len(p) # 0}
<1> DEFINE t == Timetable(j)
           Longer(Q) == {p \in UNION {{Append(q, l) : l \in t.network} : q \in Q} : Legal(t, p)}
           S == SUBSET Seq(j.network)
           N == LongestSuffix
           step == [k \in 1 .. N |-> [Q \in S |-> Longer(Q)]]
           Solves(f) == f = [n \in 0 .. N |-> IF n = 0 THEN {<<>>} ELSE Longer(f[n - 1])]
           Of(n) == {p \in Seq(j.network) : Legal(t, p) /\ Len(p) = n}
<1>0. N \in Nat /\ t.network = j.network
  BY LongestIsNat DEF Timetable
<1>1. \A Q \in S : Longer(Q) \in S
  <2> SUFFICES ASSUME NEW Q \in S, NEW p \in Longer(Q)
               PROVE  p \in Seq(j.network)
    OBVIOUS
  <2>1. PICK q \in Q : \E l \in j.network : p = Append(q, l)
    BY <1>0
  <2> QED BY <2>1
<1>2. Stepping(step, N, S)
  <2> HIDE DEF S, Longer, N
  <2>1. [Q \in S |-> Longer(Q)] \in [S -> S]
    BY <1>1
  <2> QED BY <2>1 DEF Stepping
<1>3. {<<>>} \in S
  OBVIOUS
<1>4. PICK g : Stepwise(g, N, S, {<<>>}, step)
  <2> HIDE DEF S, step, N
  <2> QED BY <1>0, <1>2, <1>3, Recursion
<1>5. Solves(g)
  <2>1. g = [n \in 0 .. N |-> g[n]] /\ g[0] = {<<>>}
    <3> HIDE DEF S, step, N
    <3> QED BY <1>4 DEF Stepwise
  <2>2. \A n \in 1 .. N : g[n] = step[n][g[n - 1]] /\ g[n - 1] \in S
    <3>1. \A n \in 1 .. N : n - 1 \in 0 .. N
      BY <1>0
    <3> HIDE DEF S, step, N
    <3> QED BY <1>4, <3>1 DEF Stepwise
  <2>3. \A n \in 1 .. N : step[n] = [Q \in S |-> Longer(Q)]
    <3> HIDE DEF S, Longer, N
    <3> QED OBVIOUS
  <2> HIDE DEF S, Longer, step
  <2>4. \A n \in 1 .. N : g[n] = Longer(g[n - 1])
    BY <2>2, <2>3
  <2>5. \A n \in 0 .. N : n # 0 => n \in 1 .. N
    BY <1>0
  <2>6. \A n \in 0 .. N : g[n] = IF n = 0 THEN {<<>>} ELSE Longer(g[n - 1])
    BY <2>1, <2>4, <2>5
  <2> QED BY <2>1, <2>6
<1> DEFINE level == CHOOSE f : Solves(f)
<1>6. Solves(level)
  <2> HIDE DEF Solves
  <2> QED BY <1>5
<1>7. LegalPaths(t) = UNION {level[n] : n \in 1 .. N}
  BY DEF LegalPaths
<1>8. Of(0) = {<<>>}
  <2>1. Legal(t, <<>>) /\ <<>> \in Seq(j.network) /\ Len(<<>>) = 0
    <3>1. DOMAIN <<>> = {} /\ Len(<<>>) = 0
      OBVIOUS
    <3>2. Rides(<<>>) = {} /\ Cardinality({}) = 0
      BY <3>1, FS_EmptySet DEF Rides
    <3>3. /\ \A k \in DOMAIN <<>> : LegAllowed(Timetable(j), <<>>, k)
          /\ \A k \in 1 .. Len(<<>>) - 1 : <<>>[k].to \in Stops
      BY <3>1
    <3>4. Cardinality(Rides(<<>>)) <= MaxTransfers + 1
      <4>1. Cardinality(Rides(<<>>)) = 0
        BY <3>2, Zenon
      <4>2. 0 <= MaxTransfers + 1
        BY MaxTransfersAssumption
      <4> QED BY <4>1, <4>2, Zenon
    <3>5. Legal(t, <<>>)
      BY <3>3, <3>4 DEF Legal
    <3>6. <<>> \in Seq(j.network)
      OBVIOUS
    <3> QED BY <3>1, <3>5, <3>6
  <2>2. \A p \in Seq(j.network) : Len(p) = 0 => p = <<>>
    OBVIOUS
  <2> QED BY <2>1, <2>2
<1>9. \A n \in 1 .. N : Longer(Of(n - 1)) = Of(n)
  <2> SUFFICES ASSUME NEW n \in 1 .. N
               PROVE  Longer(Of(n - 1)) = Of(n)
    OBVIOUS
  <2>1. ASSUME NEW p \in Longer(Of(n - 1))
        PROVE  p \in Of(n)
    <3>1. PICK q \in Of(n - 1) : \E l \in j.network : p = Append(q, l)
      BY <1>0
    <3>2. PICK l \in j.network : p = Append(q, l)
      BY <3>1
    <3>3. p \in Seq(j.network) /\ Len(p) = Len(q) + 1 /\ Len(q) = n - 1
      BY <3>1, <3>2, AppendedFields
    <3>4. Len(p) = n
      BY <1>0, <3>3
    <3> QED BY <3>3, <3>4
  <2>2. ASSUME NEW p \in Of(n)
        PROVE  p \in Longer(Of(n - 1))
    <3>1. p \in Seq(j.network) /\ Legal(t, p) /\ Len(p) = n /\ Len(p) # 0
      BY <1>0
    <3>2. PICK q \in Seq(j.network) : /\ Legal(Timetable(j), q) /\ Len(q) = Len(p) - 1
                                      /\ p[Len(p)] \in j.network
                                      /\ p = Append(q, p[Len(p)])
      BY <3>1, PrefixIsLegal
    <3>3. q \in Of(n - 1)
      BY <3>1, <3>2
    <3> HIDE DEF Of
    <3> QED BY <1>0, <3>1, <3>2, <3>3
  <2> HIDE DEF Of, Longer
  <2> QED BY <2>1, <2>2
<1>10. \A n \in 0 .. N : level[n] = Of(n)
  <2> DEFINE Holds == {n \in 0 .. N : level[n] = Of(n)}
  <2>1. \A n \in 0 .. N : level[n] = IF n = 0 THEN {<<>>} ELSE Longer(level[n - 1])
    <3> HIDE DEF level, Longer, N
    <3> QED BY <1>6
  <2> HIDE DEF level, Longer, Of
  <2>2. 0 \in Holds
    BY <1>0, <1>8, <2>1
  <2>3. \A n \in 1 .. N : n - 1 \in Holds => n \in Holds
    <3> SUFFICES ASSUME NEW n \in 1 .. N, n - 1 \in Holds
                 PROVE  n \in Holds
      OBVIOUS
    <3>1. n \in 0 .. N /\ n # 0
      BY <1>0
    <3> HIDE DEF N
    <3> QED BY <1>9, <2>1, <3>1
  <2>4. 0 .. N \subseteq Holds
    <3> HIDE DEF Holds, N
    <3> QED BY <1>0, <2>2, <2>3, UpTo
  <2> QED BY <2>4
<1>11. ASSUME NEW p \in LegalPaths(t)
       PROVE  p \in Seq(j.network) /\ Legal(t, p) /\ Len(p) # 0
  <2>1. PICK n \in 1 .. N : p \in level[n]
    BY <1>7, <1>11
  <2>2. n \in 0 .. N /\ n # 0
    BY <1>0
  <2>3. p \in Of(n)
    <3> HIDE DEF level, Of, N
    <3> QED BY <1>10, <2>1, <2>2
  <2> QED BY <2>2, <2>3
<1>12. ASSUME NEW p \in Seq(j.network), Legal(t, p), Len(p) # 0
       PROVE  p \in LegalPaths(t)
  <2>1. Allowed(j, p) /\ FewRides(p)
    BY <1>12, LegalIs DEF PathOf, FewRides
  <2>2. Len(p) <= N /\ Len(p) \in Nat
    BY <2>1, LengthIsBounded, PathFields
  <2>3. Len(p) \in 1 .. N /\ Len(p) \in 0 .. N
    <3> HIDE DEF N
    <3> QED BY <1>0, <1>12, <2>2
  <2>4. p \in Of(Len(p))
    BY <1>12
  <2>5. p \in level[Len(p)]
    <3> HIDE DEF level, Of, N
    <3> QED BY <1>10, <2>3, <2>4
  <2> HIDE DEF level, N
  <2> QED BY <1>7, <2>3, <2>5
<1> HIDE DEF t
<1>13. LegalPaths(t) = {p \in Seq(j.network) : Legal(t, p) /\ Len(p) # 0}
  BY <1>11, <1>12
<1> QED BY <1>13 DEF t

------------------------------------------------------------------------------
(* The path that leads to a branch, read through its parents.              *)

PathIn(slots, i) ==
    LET path[k \in 0 .. Len(slots)] ==
            IF k = None \/ slots[k].parent = None THEN <<>>
            ELSE Append(path[slots[k].parent], slots[k].leg)
    IN  path[i]

Steppable == Legs \cup {Root.leg}

SolvesPath(f, slots) ==
    f = [k \in 0 .. Len(slots) |->
            IF k = None \/ slots[k].parent = None THEN <<>>
            ELSE Append(f[slots[k].parent], slots[k].leg)]

PathUpTo(f, slots, n) ==
    /\ f \in [0 .. n -> Seq(Steppable)]
    /\ \A k \in 0 .. n :
        f[k] = IF k = None \/ slots[k].parent = None THEN <<>>
               ELSE Append(f[slots[k].parent], slots[k].leg)

LEMMA PathsExist ==
    ASSUME NEW slots \in Seq(BranchType), Forest(slots)
    PROVE  \E f : PathUpTo(f, slots, Len(slots)) /\ SolvesPath(f, slots)
<1> DEFINE Holds == {n \in 0 .. Len(slots) : \E f : PathUpTo(f, slots, n)}
<1>0. Len(slots) \in Nat /\ DOMAIN slots = 1 .. Len(slots)
  OBVIOUS
<1>1. 0 \in Holds
  <2> DEFINE g == [k \in 0 .. 0 |-> <<>>]
  <2>1. g \in [0 .. 0 -> Seq(Steppable)] /\ \A k \in 0 .. 0 : k = None /\ g[k] = <<>>
    BY DEF None
  <2> HIDE DEF g
  <2>2. PathUpTo(g, slots, 0)
    BY <2>1 DEF PathUpTo
  <2> QED BY <1>0, <2>2
<1>2. ASSUME NEW n \in 1 .. Len(slots), n - 1 \in Holds
      PROVE  n \in Holds
  <2>1. PICK f : PathUpTo(f, slots, n - 1)
    BY <1>2
  <2> DEFINE p == slots[n].parent
             last == IF p = None THEN <<>> ELSE Append(f[p], slots[n].leg)
             g == [k \in 0 .. n |-> IF k = n THEN last ELSE f[k]]
  <2>2. /\ n \in Nat /\ n # None /\ p \in 0 .. n - 1 /\ p \in Nat
        /\ n \in 0 .. Len(slots) /\ slots[n].leg \in Steppable
        /\ \A k \in 0 .. n : k # n => k \in 0 .. n - 1
    <3>1. slots[n] \in BranchType
      BY ParentIsBefore
    <3>2. slots[n].leg \in Steppable
      BY <3>1 DEF BranchType, Steppable
    <3>3. /\ n \in Nat /\ n # None /\ p \in 0 .. n - 1 /\ p \in Nat
          /\ n \in 0 .. Len(slots)
          /\ \A k \in 0 .. n : k # n => k \in 0 .. n - 1
      BY <1>0, ParentIsBefore DEF None
    <3> QED BY <3>2, <3>3
  <2>3. f \in [0 .. n - 1 -> Seq(Steppable)]
    BY <2>1 DEF PathUpTo
  <2>4. last \in Seq(Steppable)
    <3>1. f[p] \in Seq(Steppable)
      BY <2>2, <2>3
    <3> HIDE DEF p
    <3> QED BY <2>2, <3>1
  <2>5. g \in [0 .. n -> Seq(Steppable)]
    <3> HIDE DEF last
    <3> QED BY <2>2, <2>3, <2>4
  <2>6. g[n] = last /\ \A k \in 0 .. n - 1 : g[k] = f[k]
    <3> HIDE DEF last
    <3> QED BY <2>2
  <2> HIDE DEF g
  <2>7. ASSUME NEW k \in 0 .. n
        PROVE  g[k] = IF k = None \/ slots[k].parent = None THEN <<>>
                      ELSE Append(g[slots[k].parent], slots[k].leg)
    <3>1. CASE k = n
      BY <2>2, <2>6, <3>1
    <3>2. CASE k # n
      <4>1. k \in 0 .. n - 1
        BY <2>2, <3>2
      <4>2. f[k] = IF k = None \/ slots[k].parent = None THEN <<>>
                   ELSE Append(f[slots[k].parent], slots[k].leg)
        BY <2>1, <4>1 DEF PathUpTo
      <4>3. k # None => slots[k].parent \in 0 .. n - 1
        <5>1. k # None => k \in 1 .. Len(slots)
          BY <1>0, <2>2, <4>1 DEF None
        <5>2. k # None => slots[k].parent \in 0 .. k - 1
          BY <5>1, ParentIsBefore
        <5> QED BY <2>2, <4>1, <5>2
      <4> QED BY <2>6, <4>1, <4>2, <4>3
    <3> QED BY <3>1, <3>2
  <2>8. PathUpTo(g, slots, n)
    BY <2>5, <2>7 DEF PathUpTo
  <2> QED BY <2>2, <2>8
<1>3. PICK f : PathUpTo(f, slots, Len(slots))
  <2> HIDE DEF Holds
  <2>1. 0 .. Len(slots) \subseteq Holds
    BY <1>0, <1>1, <1>2, UpTo
  <2>2. Len(slots) \in Holds
    BY <1>0, <2>1
  <2> QED BY <2>2 DEF Holds
<1>4. SolvesPath(f, slots)
  BY <1>3 DEF PathUpTo, SolvesPath
<1> QED BY <1>3, <1>4

\* One leg back.
LEMMA PathUnfolds ==
    ASSUME NEW slots \in Seq(BranchType), Forest(slots), NEW k \in 1 .. Len(slots)
    PROVE  PathIn(slots, k) =
             IF k = 1 THEN <<>>
             ELSE Append(PathIn(slots, slots[k].parent), slots[k].leg)
<1> DEFINE f == CHOOSE g : SolvesPath(g, slots)
<1>1. SolvesPath(f, slots)
  <2>1. \E g : SolvesPath(g, slots)
    BY PathsExist, Zenon
  <2> QED BY <2>1, Zenon
<1>2. \A l : PathIn(slots, l) = f[l]
  BY DEF PathIn, SolvesPath
<1> HIDE DEF f
<1>3. k \in 0 .. Len(slots) /\ k # None
  BY DEF None
<1>4. f[k] = IF k = None \/ slots[k].parent = None THEN <<>>
             ELSE Append(f[slots[k].parent], slots[k].leg)
  BY <1>1, <1>3 DEF SolvesPath
<1>5. slots[k].parent = None <=> k = 1
  BY ParentIsBefore
<1> QED BY <1>2, <1>3, <1>4, <1>5

\* As long as branches keep their legs and parents, paths stay.
LEMMA PathStays ==
    ASSUME NEW old \in Seq(BranchType), Forest(old),
           NEW new \in Seq(BranchType), Forest(new), Len(old) <= Len(new),
           \A k \in DOMAIN old : SameBranch(old[k], new[k])
    PROVE  \A k \in DOMAIN old : PathIn(new, k) = PathIn(old, k)
<1> DEFINE Bad == {k \in DOMAIN old : PathIn(new, k) # PathIn(old, k)}
<1>0. /\ Len(old) \in Nat /\ DOMAIN old = 1 .. Len(old)
      /\ Len(new) \in Nat /\ DOMAIN new = 1 .. Len(new)
  OBVIOUS
<1>1. ASSUME Bad # {} PROVE FALSE
  <2>1. PICK n \in Bad : \A l \in Bad : n <= l
    <3>1. Bad \in SUBSET Nat
      BY <1>0
    <3> HIDE DEF Bad
    <3> QED BY <1>1, <3>1, LeastNumber
  <2>2. n \in 1 .. Len(old) /\ n \in 1 .. Len(new) /\ n \in DOMAIN old
        /\ PathIn(new, n) # PathIn(old, n)
    BY <1>0, <2>1
  <2>3. n # 1
    BY <2>2, PathUnfolds
  <2> DEFINE p == old[n].parent
  <2>4. new[n].parent = p /\ new[n].leg = old[n].leg
    BY <2>2 DEF SameBranch
  <2>5. p \in 0 .. n - 1 /\ p \in 1 .. Len(old)
    BY <2>2, <2>3, ParentIsBefore
  <2>6. PathIn(new, p) = PathIn(old, p)
    <3>1. p \in DOMAIN old /\ ~(n <= p)
      BY <1>0, <2>2, <2>5
    <3> HIDE DEF p
    <3> QED BY <2>1, <3>1
  <2>7. /\ PathIn(new, n) = Append(PathIn(new, p), old[n].leg)
        /\ PathIn(old, n) = Append(PathIn(old, p), old[n].leg)
    BY <2>2, <2>3, <2>4, PathUnfolds
  <2> QED BY <2>2, <2>6, <2>7
<1> QED BY <1>1

LEMMA PathToIs ==
    ASSUME NEW i
    PROVE  PathTo(i) = PathIn(arena, i)
BY DEF PathTo, PathIn

------------------------------------------------------------------------------
(* A branch stands where its path leads, and its successors are the legs   *)
(* that may follow.                                                        *)

SameSpot(x, y) == y.m = x.m /\ y.phase = x.phase /\ y.node = x.node

Leads(q, x) == \E at : Along(q, at, Len(q)) /\ SameSpot(at[Len(q)], x)

LEMMA OnwardAlike ==
    ASSUME NEW x, NEW y, SameSpot(x, y), NEW leg
    PROVE  Onward(x, leg) = Onward(y, leg) /\ (MayTake(x, leg) <=> MayTake(y, leg))
BY DEF SameSpot, Onward, NextPhase, MayTake

LEMMA AlongTheSame ==
    ASSUME NEW j \in Batches, NEW q, Allowed(j, q), NEW p, Begins(q, p),
           NEW at, Along(q, at, Len(q))
    PROVE  Along(p, at, Len(q))
BY DEF Along, Begins

LEMMA SameWay ==
    ASSUME NEW p, NEW n \in Nat, NEW at, Along(p, at, n), NEW on, Along(p, on, n)
    PROVE  at[n] = on[n]
<1> DEFINE Holds == {k \in 0 .. n : at[k] = on[k]}
<1>1. 0 \in Holds
  BY DEF Along
<1>2. \A k \in 1 .. n : k - 1 \in Holds => k \in Holds
  <2> SUFFICES ASSUME NEW k \in 1 .. n, k - 1 \in Holds
               PROVE  k \in Holds
    OBVIOUS
  <2>1. at[k] = Onward(at[k - 1], p[k]) /\ on[k] = Onward(on[k - 1], p[k])
    BY DEF Along
  <2>2. k \in 0 .. n /\ at[k - 1] = on[k - 1]
    OBVIOUS
  <2> QED BY <2>1, <2>2
<1>3. 0 .. n \subseteq Holds
  <2> HIDE DEF Holds
  <2> QED BY <1>1, <1>2, UpTo
<1>4. n \in 0 .. n
  OBVIOUS
<1> QED BY <1>3, <1>4

LEMMA AlongLess ==
    ASSUME NEW p, NEW n \in Nat, NEW k \in 0 .. n, NEW at, Along(p, at, n)
    PROVE  Along(p, at, k)
<1>1. \A h \in 1 .. k : h \in 1 .. n
  OBVIOUS
<1> QED BY <1>1 DEF Along

LEMMA IsAtAlike ==
    ASSUME NEW p, NEW n, NEW x, IsAt(p, n, x), NEW y, SameSpot(x, y)
    PROVE  IsAt(p, n, y)
BY DEF SameSpot, IsAt

LEMMA LeadsIs ==
    ASSUME NEW j \in Batches, NEW q, Allowed(j, q), NEW p, Allowed(j, p), Begins(q, p),
           NEW x, Leads(q, x)
    PROVE  /\ Len(q) \in 0 .. Len(p) /\ IsAt(p, Len(q), x)
           /\ \A at : Along(p, at, Len(p)) => SameSpot(at[Len(q)], x)
<1> DEFINE n == Len(q)
<1>1. n \in Nat /\ Len(p) \in Nat /\ n \in 0 .. Len(p) /\ n \in 0 .. n
  BY PathFields DEF Begins
<1>2. PICK on : Along(q, on, n) /\ SameSpot(on[n], x)
  BY DEF Leads
<1>3. Along(p, on, n)
  BY <1>2, AlongTheSame
<1> HIDE DEF n
<1>4. IsAt(p, n, on[n])
  BY <1>1, <1>3, AlongIs
<1>5. IsAt(p, n, x)
  BY <1>2, <1>4, IsAtAlike
<1>6. ASSUME NEW at, Along(p, at, Len(p))
      PROVE  SameSpot(at[n], x)
  <2>1. Along(p, at, n)
    BY <1>1, <1>6, AlongLess
  <2>2. at[n] = on[n]
    BY <1>1, <1>3, <2>1, SameWay
  <2> QED BY <1>2, <2>2
<1> QED BY <1>1, <1>5, <1>6 DEF n

LEMMA LeadsOn ==
    ASSUME NEW j \in Batches, NEW q, Allowed(j, q), NEW l \in j.network,
           NEW x, Leads(q, x), NEW y, SameSpot(Onward(x, l), y)
    PROVE  Leads(Append(q, l), y)
<1> DEFINE n == Len(q)
           p == Append(q, l)
<1>1. q \in Seq(j.network)
  BY DEF Allowed
<1>2. /\ Len(p) = n + 1 /\ p[n + 1] = l /\ n \in Nat
      /\ \A k \in 1 .. n : p[k] = q[k]
  BY <1>1, AppendedFields
<1>3. PICK on : Along(q, on, n) /\ SameSpot(on[n], x)
  BY DEF Leads
<1> DEFINE at == [k \in 0 .. n + 1 |-> IF k = n + 1 THEN Onward(on[n], l) ELSE on[k]]
<1>4. /\ at[n + 1] = Onward(on[n], l)
      /\ \A k \in 0 .. n : at[k] = on[k]
  BY <1>2
<1> HIDE DEF at, p, n
<1>5. at[0] = Start
  BY <1>2, <1>3, <1>4 DEF Along
<1>6. ASSUME NEW k \in 1 .. n + 1
      PROVE  at[k] = Onward(at[k - 1], p[k])
  <2>1. CASE k = n + 1
    <3>1. k - 1 = n /\ n \in 0 .. n
      BY <1>2, <2>1
    <3> QED BY <1>2, <1>4, <2>1, <3>1
  <2>2. CASE k # n + 1
    <3>1. k \in 1 .. n /\ k \in 0 .. n /\ k - 1 \in 0 .. n
      BY <1>2, <2>2
    <3> QED BY <1>2, <1>3, <1>4, <3>1 DEF Along
  <2> QED BY <2>1, <2>2
<1>7. Along(p, at, n + 1)
  BY <1>5, <1>6 DEF Along
<1>8. SameSpot(at[n + 1], y)
  <2>1. Onward(on[n], l) = Onward(x, l)
    BY <1>3, OnwardAlike
  <2> QED BY <1>4, <2>1
<1> QED BY <1>2, <1>7, <1>8 DEF Leads, p

LEMMA BeginsItself ==
    ASSUME NEW j \in Batches, NEW q, Allowed(j, q)
    PROVE  Begins(q, q) /\ Len(q) \in 0 .. Len(q)
<1>1. Len(q) \in Nat
  BY PathFields
<1> QED BY <1>1 DEF Begins

\* What has been visited along a path.
LEMMA RevisitsIs ==
    ASSUME NEW i, NEW j \in Batches, OpenPath(j, PathTo(i)),
           Leads(PathTo(i), arena[i]), NEW leg, leg.from = arena[i].node
    PROVE  LET q == PathTo(i) IN
           /\ leg.from = IF Len(q) = 0 THEN Origin ELSE q[Len(q)].to
           /\ leg.kind = "walk" =>
                (Revisits(Branch(i), leg)
                    <=> leg.to \in {q[h].to : h \in 1 .. Len(q)} \cup {leg.from})
           /\ leg.kind # "walk" =>
                (Revisits(Branch(i), leg)
                    <=> \E h \in Rides(q) :
                            <<q[h].to, q[h].position>> = <<leg.to, leg.position>>)
<1> DEFINE q == PathTo(i)
           n == Len(q)
<1>1. Allowed(j, q) /\ n \in Nat /\ DOMAIN q = 1 .. n
  BY PathFields DEF OpenPath
<1>2. IsAt(q, n, arena[i])
  BY <1>1, BeginsItself, LeadsIs
<1>3. leg.from = IF n = 0 THEN Origin ELSE q[n].to
  BY <1>2 DEF IsAt
<1>4. Branch(i).node = arena[i].node /\ Branch(i).path = q
  BY DEF Branch
<1> HIDE DEF q
<1>5. leg.kind = "walk" =>
        (Revisits(Branch(i), leg)
            <=> leg.to \in {q[h].to : h \in 1 .. n} \cup {leg.from})
  BY <1>1, <1>4 DEF Revisits, Visited
<1>6. leg.kind # "walk" =>
        (Revisits(Branch(i), leg)
            <=> \E h \in Rides(q) :
                    <<q[h].to, q[h].position>> = <<leg.to, leg.position>>)
  <2> DEFINE R == {m \in Range(q) : m.kind = "ride"}
  <2>1. R = {q[h] : h \in Rides(q)}
    BY <1>1 DEF Rides, Range
  <2> HIDE DEF R
  <2>2. Occurrences(Branch(i)) = {<<l.to, l.position>> : l \in R}
    BY <1>4 DEF Occurrences, R
  <2> QED BY <2>1, <2>2 DEF Revisits
<1> QED BY <1>3, <1>5, <1>6 DEF q

\* What is known of the spot a branch is at.
LEMMA SpotIs ==
    ASSUME NEW i, NEW j \in Batches, OpenPath(j, PathTo(i)),
           Leads(PathTo(i), arena[i])
    PROVE  LET q == PathTo(i)
               n == Len(q)
               x == arena[i]
           IN  /\ Allowed(j, q) /\ n \in Nat /\ IsAt(q, n, x)
               /\ x.node = IF n = 0 THEN Origin ELSE q[n].to
               /\ n # 0 => x.node \in Stops
               /\ x.phase = "AtOrigin" <=> n = 0
               /\ x.phase = "AfterTimedRide" <=> n >= 2 /\ q[n].kind = "ride"
               /\ x.phase # "Completed"
               /\ x.m.boarded <=> n >= 2
               /\ n >= 2 => /\ x.m.now = ArrivalAt(q, n)
                            /\ LastRide(q) = q[LastAt(q, n)]
                            /\ x.m.nt = Cardinality(Rides(q)) - 1
               /\ n < 2 => Rides(q) = {}
<1> DEFINE q == PathTo(i)
           n == Len(q)
           x == arena[i]
<1>1. Allowed(j, q) /\ n \in Nat /\ n \in 0 .. n
  BY PathFields DEF OpenPath
<1>2. IsAt(q, n, x)
  BY <1>1, BeginsItself, LeadsIs
<1>3. RidesTo(q, n) = Rides(q)
  BY <1>1, RidesToFacts
<1>4. n < 2 => Rides(q) = {}
  <2>1. n < 2 => n <= 1
    BY <1>1
  <2> QED BY <1>1, <1>3, <2>1, RidesToFacts
<1>5. n >= 2 => LastRide(q) = q[LastAt(q, n)]
  <2>1. n >= 2 => 2 <= n
    BY <1>1
  <2>2. 2 <= n => Max(RidesTo(q, n)) = LastAt(q, n)
    BY <1>1, RidesToFacts
  <2> QED BY <1>3, <2>1, <2>2 DEF LastRide
<1>6. n # 0 => q[n].to \in Stops
  <2>1. n # 0 => n \in 1 .. n
    BY <1>1
  <2> QED BY <2>1 DEF OpenPath
<1>7. n = 1 => q[n].kind = "walk"
  BY <1>1, PathShape
<1> HIDE DEF q, x, n
<1>8. n >= 2 => n # 0 /\ n # 1 /\ 2 <= n
  BY <1>1
<1>9. n < 2 => n <= 1 /\ (n = 0 \/ n = 1) /\ ~(n >= 2)
  BY <1>1
<1>10. n >= 2 \/ n < 2
  BY <1>1
<1>11. CASE n >= 2
  <2>1. /\ x.m.boarded /\ x.m.now = ArrivalAt(q, n)
        /\ x.m.nt = Cardinality(Rides(q)) - 1
    BY <1>2, <1>3, <1>8, <1>11 DEF IsAt
  <2>2. x.phase = IF q[n].kind = "ride" THEN "AfterTimedRide" ELSE "AfterTransferWalk"
    BY <1>2, <1>6, <1>8, <1>11 DEF IsAt
  <2> QED BY <1>1, <1>2, <1>5, <1>6, <1>8, <1>11, <2>1, <2>2 DEF IsAt, q, n, x
<1>12. CASE n < 2
  <2>1. /\ ~x.m.boarded
        /\ x.phase = IF n = 0 THEN "AtOrigin" ELSE "BeforeFirstBoarding"
    BY <1>2, <1>9, <1>12 DEF IsAt
  <2> QED BY <1>1, <1>2, <1>4, <1>6, <1>9, <1>12, <2>1 DEF IsAt, q, n, x
<1> QED BY <1>10, <1>11, <1>12

\* A successor that does not revisit may follow.
LEMMA SuccessorFollows ==
    ASSUME NEW i, job \in Batches, OpenPath(job, PathTo(i)),
           Leads(PathTo(i), arena[i]), NEW leg \in Successors(i),
           ~Revisits(Branch(i), leg)
    PROVE  leg \in job.network /\ MayFollow(job, PathTo(i), leg)
<1> DEFINE q == PathTo(i)
           n == Len(q)
           x == arena[i]
<1>1. leg \in job.network /\ leg.from = x.node
  BY DEF Successors
<1>2. /\ Allowed(job, q) /\ n \in Nat
      /\ x.phase = "AtOrigin" <=> n = 0
      /\ x.phase = "AfterTimedRide" <=> n >= 2 /\ q[n].kind = "ride"
      /\ x.m.boarded <=> n >= 2
      /\ n >= 2 => x.m.now = ArrivalAt(q, n) /\ LastRide(q) = q[LastAt(q, n)]
  BY SpotIs
<1>3. /\ leg.from = IF n = 0 THEN Origin ELSE q[n].to
      /\ leg.kind = "walk" => leg.to \notin {q[h].to : h \in 1 .. n} \cup {leg.from}
      /\ leg.kind # "walk" =>
            \A h \in Rides(q) : <<q[h].to, q[h].position>> # <<leg.to, leg.position>>
  BY <1>1, RevisitsIs
<1> HIDE DEF q, x
<1>4. CASE leg.kind = "walk"
  <2>1. WalkAdmitted(i, leg)
    BY <1>4 DEF Successors
  <2>2. \/ n = 0 /\ leg.to \in Stops
        \/ n # 0 /\ q[n].kind = "ride"
    BY <1>2, <2>1 DEF WalkAdmitted, x
  <2> HIDE DEF n
  <2>3. MayFollow(job, q, leg)
    BY <1>3, <1>4, <2>2 DEF MayFollow, n
  <2> QED BY <1>1, <2>3 DEF q
<1>5. CASE leg.kind # "walk"
  <2>1. RideAdmitted(i, leg)
    BY <1>5 DEF Successors
  <2>2. n # 0
    BY <1>2, <2>1 DEF RideAdmitted, x
  <2>3. CASE n = 1
    <3>1. leg.dep \in job.departures
      BY <1>2, <2>1, <2>3 DEF RideAdmitted, x
    <3> HIDE DEF n
    <3>2. MayFollow(job, q, leg)
      BY <1>3, <1>5, <2>2, <2>3, <3>1 DEF MayFollow, n
    <3> QED BY <1>1, <3>2 DEF q
  <2>4. CASE n # 1
    <3>0. n >= 2
      BY <1>2, <2>2, <2>4
    <3> DEFINE last == q[LastAt(q, n)]
    <3>1. /\ leg.trip # last.trip
          /\ leg.line = last.line => Reboards(last, leg)
          /\ leg.dep - ArrivalAt(q, n) \in MinWait .. MaxWait
      BY <1>2, <2>1, <3>0 DEF RideAdmitted, x, q
    <3> HIDE DEF last
    <3>2. Overtakes(job.network, last, leg)
      BY <3>1 DEF Overtakes, Reboards, Continuations
    <3> HIDE DEF n
    <3>3. MayFollow(job, q, leg)
      BY <1>3, <1>5, <2>2, <2>4, <3>1, <3>2 DEF MayFollow, n, last
    <3> QED BY <1>1, <3>3 DEF q
  <2> QED BY <2>3, <2>4
<1> QED BY <1>4, <1>5

\* A path to a zone that is still looked for goes on with a successor.
LEMMA FollowerIsSuccessor ==
    ASSUME NEW i, job \in Batches, OpenPath(job, PathTo(i)),
           Leads(PathTo(i), arena[i]),
           NEW p, PathOf(job, p), FewRides(p), Ends(p), Begins(PathTo(i), p),
           p[Len(p)].to \in ActiveZones(i)
    PROVE  /\ Len(PathTo(i)) \in 0 .. Len(p) - 1
           /\ p[Len(PathTo(i)) + 1] \in Successors(i)
           /\ ~Revisits(Branch(i), p[Len(PathTo(i)) + 1])
<1> DEFINE q == PathTo(i)
           n == Len(q)
           x == arena[i]
           leg == p[n + 1]
<1>1. /\ Allowed(job, p) /\ Allowed(job, q) /\ n \in Nat /\ Len(p) \in Nat
      /\ x.phase = "AtOrigin" <=> n = 0
      /\ x.phase = "AfterTimedRide" <=> n >= 2 /\ q[n].kind = "ride"
      /\ x.phase # "Completed"
      /\ x.m.boarded <=> n >= 2
      /\ n >= 2 => /\ x.m.now = ArrivalAt(q, n)
                   /\ LastRide(q) = q[LastAt(q, n)]
                   /\ x.m.nt = Cardinality(Rides(q)) - 1
      /\ x.node = IF n = 0 THEN Origin ELSE q[n].to
  BY SpotIs, PathFields DEF PathOf
<1>2. n < Len(p)
  <2> SUFFICES ASSUME n = Len(p)
               PROVE  FALSE
    BY <1>1 DEF Begins
  <2>1. n \in 1 .. n /\ n # 0
    BY <1>1 DEF Ends
  <2>2. q[n].to \in Stops /\ q[n] = p[n]
    BY <2>1 DEF OpenPath, Begins
  <2> QED BY <2>2 DEF Ends
<1>3. /\ leg \in job.network /\ MayFollow(job, q, leg)
  BY <1>1, <1>2, NextLegMayFollow
<1>4. leg.from = x.node /\ leg.kind \in {"walk", "ride"}
  BY <1>1, <1>3, LegIs DEF MayFollow
<1>5. ~Revisits(Branch(i), leg)
  <2> HIDE DEF leg
  <2>1. /\ leg.kind = "walk" =>
             (Revisits(Branch(i), leg)
                 <=> leg.to \in {q[h].to : h \in 1 .. n} \cup {leg.from})
        /\ leg.kind # "walk" =>
             (Revisits(Branch(i), leg)
                 <=> \E h \in Rides(q) :
                         <<q[h].to, q[h].position>> = <<leg.to, leg.position>>)
    BY <1>4, RevisitsIs
  <2>2. /\ leg.kind = "walk" => leg.to \notin {q[h].to : h \in 1 .. n} \cup {leg.from}
        /\ leg.kind # "walk" => \A h \in Rides(q) :
               <<q[h].to, q[h].position>> # <<leg.to, leg.position>>
    BY <1>3 DEF MayFollow
  <2> HIDE DEF q, n
  <2> QED BY <2>1, <2>2
\* The transfers that are left allow for the rides to come.
<1>6. n >= 2 => \A k \in n + 1 .. Len(p) : p[k].kind = "ride" => x.m.nt < MaxTransfers
  <2> HAVE n >= 2
  <2>1. n \in 2 .. Len(p) /\ n \in 0 .. n
    BY <1>1, <1>2
  <2>2. \A k \in n + 1 .. Len(p) : p[k].kind = "ride" =>
            Cardinality(RidesTo(p, n)) - 1 < MaxTransfers
    BY <1>1, <2>1, RidesLeft
  <2>3. RidesTo(p, n) = RidesTo(q, n) /\ RidesTo(q, n) = Rides(q)
    <3>1. p \in Seq(job.network) /\ q \in Seq(job.network)
      BY <1>1 DEF Allowed
    <3>2. n <= Len(p) /\ n <= Len(q) /\ \A k \in 1 .. n : p[k] = q[k]
      BY <1>1 DEF Begins
    <3>3. RidesTo(p, n) = RidesTo(q, n)
      <4> HIDE DEF q, n
      <4> QED BY <1>1, <3>1, <3>2, OnlyTheLegsBefore
    <3> QED BY <1>1, <2>1, <3>3, RidesToFacts
  <2> QED BY <1>1, <2>2, <2>3
<1> HIDE DEF q, x, leg
<1>7. CASE leg.kind = "walk"
  <2>1. \/ n = 0 /\ leg.to \in Stops
        \/ n # 0 /\ q[n].kind = "ride"
    BY <1>3, <1>7 DEF MayFollow
  <2>2. CASE n = 0 /\ leg.to \in Stops
    <3>1. WalkAdmitted(i, leg)
      BY <1>1, <2>2 DEF WalkAdmitted, x
    <3> QED BY <1>1, <1>2, <1>3, <1>4, <1>5, <1>7, <3>1 DEF Successors, x, leg, q
  <2>3. CASE n # 0 /\ q[n].kind = "ride"
    <3>1. n >= 2
      <4>1. n = 1 => q[1].kind = "walk"
        BY <1>1, PathShape DEF n
      <4>2. n \in Nat /\ n # 0 /\ n # 1
        BY <1>1, <2>3, <4>1
      <4> HIDE DEF n
      <4> QED BY <4>2
    <3>2. x.phase = "AfterTimedRide"
      BY <1>1, <2>3, <3>1
    <3>3. \/ leg.to \in ActiveZones(i)
          \/ leg.to \in Stops /\ x.m.nt < MaxTransfers
      <4>1. CASE n + 1 = Len(p)
        BY <4>1 DEF leg
      <4>2. CASE n + 1 # Len(p)
        <5>1. /\ n + 1 \in 1 .. Len(p) - 1 /\ n + 2 \in n + 1 .. Len(p)
              /\ n + 1 \in 1 .. Len(p) /\ n + 2 \in 2 .. Len(p) /\ (n + 2) - 1 = n + 1
          BY <1>1, <1>2, <4>2
        <5>2. leg.to \in Stops
          BY <5>1 DEF PathOf, leg
        <5>3. p[n + 2].kind = "ride"
          <6>1. p[n + 2].kind = "walk" => p[(n + 2) - 1].kind = "ride"
            BY <1>1, <5>1, PathShape
          <6>2. p[n + 1].kind = "walk"
            BY <1>7 DEF leg
          <6>3. p[n + 2].kind \in {"walk", "ride"}
            <7>1. n + 2 \in 1 .. Len(p)
              BY <1>1, <5>1
            <7> QED BY <1>1, <7>1, PathFields
          <6> QED BY <5>1, <6>1, <6>2, <6>3
        <5> QED BY <1>6, <3>1, <5>1, <5>2, <5>3
      <4> QED BY <4>1, <4>2
    <3>4. WalkAdmitted(i, leg)
      BY <3>2, <3>3 DEF WalkAdmitted, x
    <3> QED BY <1>1, <1>2, <1>3, <1>4, <1>5, <1>7, <3>4 DEF Successors, x, leg, q
  <2> QED BY <2>1, <2>2, <2>3
<1>8. CASE leg.kind = "ride"
  <2>1. n # 0 /\ x.phase \notin {"AtOrigin", "Completed"}
    BY <1>1, <1>3, <1>8 DEF MayFollow
  <2>2. CASE n = 1
    <3>1. leg.dep \in job.departures
      BY <1>3, <1>8, <2>2 DEF MayFollow, n
    <3>2. RideAdmitted(i, leg)
      BY <1>1, <2>1, <2>2, <3>1 DEF RideAdmitted, x
    <3> QED BY <1>1, <1>2, <1>3, <1>4, <1>5, <1>8, <3>2 DEF Successors, x, leg, q
  <2>3. CASE n # 1
    <3>0. n >= 2
      <4>1. n \in Nat /\ n # 0 /\ n # 1
        BY <1>1, <2>1, <2>3
      <4> HIDE DEF n
      <4> QED BY <4>1
    <3> DEFINE last == q[LastAt(q, n)]
    <3>1. /\ Overtakes(job.network, last, leg)
          /\ leg.dep - ArrivalAt(q, n) \in MinWait .. MaxWait
      BY <1>3, <1>8, <2>1, <2>3 DEF MayFollow, n
    <3>2. x.m.nt < MaxTransfers
      <4>1. n + 1 \in n + 1 .. Len(p)
        BY <1>1, <1>2
      <4> QED BY <1>6, <1>8, <3>0, <4>1 DEF leg
    <3>3. LastRide(q) = last /\ x.m.now = ArrivalAt(q, n) /\ x.m.boarded
      BY <1>1, <3>0
    <3> HIDE DEF last
    <3>4. /\ leg.trip # last.trip
          /\ leg.line = last.line => Reboards(last, leg)
      BY <3>1 DEF Overtakes, Reboards, Continuations
    <3>5. RideAdmitted(i, leg)
      BY <2>1, <3>1, <3>2, <3>3, <3>4 DEF RideAdmitted, x, q
    <3> QED BY <1>1, <1>2, <1>3, <1>4, <1>5, <1>8, <3>5 DEF Successors, x, leg, q
  <2> QED BY <2>2, <2>3
<1> QED BY <1>4, <1>7, <1>8

------------------------------------------------------------------------------
(* The branches of a tree are those that paths of its timetable lead to,   *)
(* and what its slots keep is measured of such paths.                      *)

\* The complete paths to the zone of a slot.
Sought(slot) ==
    {p \in Seq(job.network) : /\ PathOf(job, p) /\ FewRides(p) /\ Ends(p)
                              /\ p[Len(p)].to = job.slots[slot].to}

\* Whatever task a branch has, it has the task's zone among its targets.
TargetsFor(j, x) ==
    \A s \in x.tasks : j.slots[s].to \in {j.targets[t] : t \in x.targets}

BranchTraced(i) ==
    OpenPath(job, PathTo(i)) /\ Leads(PathTo(i), arena[i]) /\ TargetsFor(job, arena[i])

Traced ==
    /\ \A i \in DOMAIN arena : BranchTraced(i)
    /\ state = "scan" => \A i \in {expanding} : todo \subseteq Successors(i)

KeptFrom(slot, S) ==
    /\ IsFiniteSet(S)
    /\ ~job.allow_end_wait => S = {}
    /\ \A c \in S : Admissible(slot, c) /\ \E p \in Sought(slot) : c = Measured(p)

AllKeptFrom == \A s \in DOMAIN kept : KeptFrom(s, kept[s])

KInv == JInv /\ Traced /\ AllKeptFrom

LEMMA SamePaths ==
    ASSUME Typing, SameArena, NEW i \in DOMAIN arena
    PROVE  /\ PathTo(i)' = PathTo(i) /\ SameSpot(arena[i], arena'[i])
           /\ arena'[i].tasks = arena[i].tasks /\ arena'[i].targets = arena[i].targets
           /\ Successors(i)' = Successors(i)
<1>1. /\ SameBranch(arena[i], arena'[i]) /\ job' = job
      /\ arena \in Seq(BranchType) /\ Forest(arena)
      /\ arena' \in Seq(BranchType) /\ Forest(arena')
      /\ Len(arena) <= Len(arena')
  <2>1. DOMAIN arena' = DOMAIN arena /\ arena \in Seq(BranchType) /\ arena' \in Seq(BranchType)
    BY DEF SameArena, Typing
  <2>2. Len(arena) <= Len(arena')
    BY <2>1
  <2> QED BY <2>1, <2>2 DEF SameArena, Typing
<1>2. PathIn(arena', i) = PathIn(arena, i)
  BY <1>1, PathStays DEF SameArena
<1>3. PathTo(i)' = PathIn(arena', i) /\ PathTo(i) = PathIn(arena, i)
  BY DEF PathTo, PathIn
<1>4. PathTo(i)' = PathTo(i)
  BY <1>2, <1>3
<1>5. /\ arena'[i].m = arena[i].m /\ arena'[i].phase = arena[i].phase
      /\ arena'[i].node = arena[i].node
      /\ arena'[i].tasks = arena[i].tasks /\ arena'[i].targets = arena[i].targets
  BY <1>1 DEF SameBranch
<1>6. Successors(i)' = Successors(i)
  <2>1. \A leg : WalkAdmitted(i, leg)' <=> WalkAdmitted(i, leg)
    BY <1>1, <1>5 DEF WalkAdmitted, ActiveZones
  <2>2. \A last, leg : Reboards(last, leg)' <=> Reboards(last, leg)
    BY <1>1 DEF Reboards, Continuations
  <2>3. \A leg : RideAdmitted(i, leg)' <=> RideAdmitted(i, leg)
    BY <1>1, <1>4, <1>5, <2>2 DEF RideAdmitted
  <2> QED BY <1>1, <1>5, <2>1, <2>3 DEF Successors
<1> QED BY <1>4, <1>5, <1>6 DEF SameSpot

LEMMA LeadsAlike ==
    ASSUME NEW q, NEW x, NEW y, Leads(q, x), SameSpot(x, y)
    PROVE  Leads(q, y)
BY DEF Leads, SameSpot

LEMMA TracedBranchesKept ==
    ASSUME Typing, Traced, SameArena
    PROVE  \A i \in DOMAIN arena' : BranchTraced(i)'
<1> SUFFICES ASSUME NEW i \in DOMAIN arena'
             PROVE  BranchTraced(i)'
  OBVIOUS
<1>1. i \in DOMAIN arena /\ job' = job
  BY DEF SameArena
<1>2. /\ PathTo(i)' = PathTo(i) /\ SameSpot(arena[i], arena'[i])
      /\ arena'[i].tasks = arena[i].tasks /\ arena'[i].targets = arena[i].targets
  BY <1>1, SamePaths
<1>3. OpenPath(job, PathTo(i)) /\ Leads(PathTo(i), arena[i]) /\ TargetsFor(job, arena[i])
  BY <1>1 DEF Traced, BranchTraced
<1>4. OpenPath(job', PathTo(i)')
  BY <1>1, <1>2, <1>3
<1>5. Leads(PathTo(i)', arena'[i])
  BY <1>2, <1>3, LeadsAlike
<1>6. TargetsFor(job', arena'[i])
  BY <1>1, <1>2, <1>3 DEF TargetsFor
<1> QED BY <1>4, <1>5, <1>6 DEF BranchTraced, OpenPath, Allowed, Leads, Along

LEMMA TracedResting ==
    ASSUME IInv, Traced, UNCHANGED <<job, residual, arena, expanding>>,
           todo' \subseteq todo, state' = "scan" => state = "scan"
    PROVE  Traced'
<1>1. SameArena
  BY ArenaUnchanged DEF IInv
<1>2. \A i \in DOMAIN arena' : BranchTraced(i)'
  BY <1>1, TracedBranchesKept DEF IInv
<1>3. ASSUME state' = "scan", NEW i \in {expanding'}
      PROVE  todo' \subseteq Successors(i)'
  <2>1. todo \subseteq Successors(i) /\ i \in DOMAIN arena
    BY <1>3 DEF Traced, IInv, Typing
  <2>2. Successors(i)' = Successors(i)
    BY <1>1, <2>1, SamePaths DEF IInv
  <2> QED BY <2>1, <2>2
<1> QED BY <1>2, <1>3 DEF Traced

\* What is left of a branch's tasks and targets a leg further on.
TargetsAhead(leg) == ReachableTargets(Candidate(leg), arena[expanding].targets)

Hopeful(leg) == {t \in ReachableTasks(Candidate(leg), arena[expanding].tasks) :
                    ~Hopeless(Candidate(leg), t)}

Wanted(leg) == /\ TargetsAhead(leg) # {}
               /\ job.scope = "tree" => Retains("tree", Candidate(leg))

TasksAhead(leg) == IF ~Wanted(leg) THEN {}
                   ELSE IF job.scope = "tree" THEN Hopeful(leg)
                   ELSE {t \in Hopeful(leg) : Retains(t, Candidate(leg))}

TargetsLeft(leg) == IF job.kind = "completion_target" THEN TasksAhead(leg)
                    ELSE TargetsAhead(leg)

LEMMA ContinueIs ==
    ASSUME NEW leg \in todo, ContinueStep(leg)
    PROVE  /\ Visiting(leg) /\ ~Cycles(leg) /\ leg.to \in Stops
           /\ UNCHANGED <<job, stopping, state, residual, expanding, kept, found>>
           /\ IF TasksAhead(leg) = {} THEN UNCHANGED <<arena, current, next>>
              ELSE Queueing(leg, TasksAhead(leg), TargetsLeft(leg))
<1> DEFINE b == Candidate(leg)
           targets == ReachableTargets(b, arena[expanding].targets)
           hopeful == {t \in ReachableTasks(b, arena[expanding].tasks) :
                          ~Hopeless(b, t)}
           wanted == targets # {} /\ (job.scope = "tree" => Retains("tree", b))
           tasks == IF ~wanted THEN {}
                    ELSE IF job.scope = "tree" THEN hopeful
                    ELSE {t \in hopeful : Retains(t, b)}
           left == IF job.kind = "completion_target" THEN tasks ELSE targets
<1>1. /\ Visiting(leg) /\ ~Cycles(leg) /\ b.node \in Stops
      /\ UNCHANGED <<job, stopping, state, residual, expanding, kept, found>>
      /\ IF tasks = {} THEN UNCHANGED <<arena, current, next>>
         ELSE /\ arena' = Appended(OffspringOf(leg, tasks, left))
              /\ current' = IF Sooner(leg) THEN Append(current, Len(arena'))
                            ELSE current
              /\ next' = IF Sooner(leg) THEN next ELSE Append(next, Len(arena'))
  BY DEF ContinueStep, OffspringOf, Sooner
<1>2. /\ tasks \subseteq ReachableTasks(b, arena[expanding].tasks)
      /\ left \subseteq tasks \cup arena[expanding].targets
  BY DEF ReachableTargets
<1>3. b.node = leg.to
  BY DEF Candidate
<1>4. /\ targets = TargetsAhead(leg) /\ hopeful = Hopeful(leg)
  BY DEF TargetsAhead, Hopeful
<1>5. wanted <=> Wanted(leg)
  BY <1>4 DEF Wanted
<1>6. tasks = TasksAhead(leg)
  <2> HIDE DEF wanted, hopeful
  <2> QED BY <1>4, <1>5 DEF TasksAhead
<1>7. left = TargetsLeft(leg)
  <2> HIDE DEF tasks, targets
  <2> QED BY <1>4, <1>6 DEF TargetsLeft
<1> HIDE DEF tasks, left
<1>8. tasks = {} \/ Queueing(leg, tasks, left)
  BY <1>1, <1>2 DEF Queueing, b
<1> QED BY <1>1, <1>3, <1>6, <1>7, <1>8

\* A task of a candidate is one of its branch, and has a target left.
LEMMA AheadFacts ==
    ASSUME KInv, state = "scan", NEW leg \in todo
    PROVE  /\ TasksAhead(leg) \subseteq arena[expanding].tasks
           /\ TasksAhead(leg) \subseteq DOMAIN job.slots
           /\ \A s \in TasksAhead(leg) :
                job.slots[s].to \in {job.targets[t] : t \in TargetsLeft(leg)}
<1>1. expanding \in DOMAIN arena /\ job \in Batches
  BY DEF KInv, JInv, IInv, Typing
<1>2. /\ arena[expanding].tasks \subseteq DOMAIN job.slots
      /\ TargetsFor(job, arena[expanding])
  BY <1>1 DEF KInv, JInv, Afoot, Placed, Traced, BranchTraced
<1>3. TasksAhead(leg) \subseteq ReachableTasks(Candidate(leg), arena[expanding].tasks)
  BY DEF TasksAhead, Hopeful
<1>4. \A s \in TasksAhead(leg) :
          /\ s \in arena[expanding].tasks
          /\ Feasible(residual, job.slots[s].to, MaskKey(Candidate(leg)))
  BY <1>3 DEF ReachableTasks
<1>5. ASSUME NEW s \in TasksAhead(leg)
      PROVE  job.slots[s].to \in {job.targets[t] : t \in TargetsLeft(leg)}
  <2>1. CASE job.kind = "completion_target"
    <3>1. s \in DOMAIN job.slots /\ TargetsLeft(leg) = TasksAhead(leg)
      BY <1>2, <1>4, <2>1 DEF TargetsLeft
    <3>2. [t \in DOMAIN job.slots |-> job.slots[t].to] = job.targets
      BY <1>1, <2>1, BatchesAssumption
    <3>3. job.targets[s] = job.slots[s].to
      BY <3>1, <3>2
    <3> QED BY <3>1, <3>3
  <2>2. CASE job.kind # "completion_target"
    <3>1. PICK t \in arena[expanding].targets : job.slots[s].to = job.targets[t]
      BY <1>2, <1>4 DEF TargetsFor
    <3>2. t \in TargetsAhead(leg)
      BY <1>4, <3>1 DEF TargetsAhead, ReachableTargets
    <3> QED BY <2>2, <3>1, <3>2 DEF TargetsLeft
  <2> QED BY <2>1, <2>2
<1> QED BY <1>2, <1>4, <1>5

\* A candidate stands where its path leads.
LEMMA CandidateLeads ==
    ASSUME KInv, state = "scan", NEW leg \in todo, ~Cycles(leg)
    PROVE  LET p == Append(PathTo(expanding), leg) IN
           /\ Allowed(job, PathTo(expanding)) /\ Allowed(job, p) /\ PathOf(job, p)
           /\ Candidate(leg).path = p /\ Candidate(leg).node = leg.to
           /\ Leads(p, Candidate(leg)) /\ Len(p) = Len(PathTo(expanding)) + 1
           /\ Len(PathTo(expanding)) \in Nat /\ p[Len(p)] = leg
           /\ leg.to \in Stops => OpenPath(job, p)
<1> DEFINE q == PathTo(expanding)
           p == Append(q, leg)
<1>1. /\ expanding \in DOMAIN arena /\ job \in Batches /\ leg \in Successors(expanding)
      /\ OpenPath(job, q) /\ Leads(q, arena[expanding])
  <2>1. expanding \in DOMAIN arena /\ job \in Batches
    BY DEF KInv, JInv, IInv, Typing
  <2> QED BY <2>1 DEF KInv, Traced, BranchTraced
<1>2. ~Revisits(Branch(expanding), leg)
  BY DEF Cycles
<1>3. leg \in job.network /\ MayFollow(job, q, leg)
  BY <1>1, <1>2, SuccessorFollows
<1>4. Allowed(job, q) /\ Allowed(job, p)
  BY <1>1, <1>3, FollowedIsAllowed DEF OpenPath
<1>5. /\ Len(p) = Len(q) + 1 /\ p[Len(q) + 1] = leg /\ Len(q) \in Nat
      /\ \A k \in 1 .. Len(q) : p[k] = q[k]
  <2>1. q \in Seq(job.network)
    BY <1>4 DEF Allowed
  <2> QED BY <1>3, <2>1, AppendedFields
<1>6. Candidate(leg).path = p /\ Candidate(leg).node = leg.to
  BY DEF Candidate, Branch
<1>7. SameSpot(Onward(arena[expanding], leg), Candidate(leg))
  BY CandidateIsOnward DEF SameSpot, KInv
<1>8. Leads(p, Candidate(leg))
  BY <1>1, <1>3, <1>4, <1>7, LeadsOn
<1> HIDE DEF p, q
<1>9. PathOf(job, p)
  BY <1>1, <1>4, <1>5 DEF PathOf, OpenPath
<1>10. leg.to \in Stops => OpenPath(job, p)
  <2> SUFFICES ASSUME leg.to \in Stops, NEW k \in 1 .. Len(p)
               PROVE  p[k].to \in Stops
    BY <1>4 DEF OpenPath
  <2>1. k \in 1 .. Len(q) \/ k = Len(q) + 1
    BY <1>5
  <2> QED BY <1>1, <1>5, <2>1 DEF OpenPath
<1> QED BY <1>4, <1>5, <1>6, <1>8, <1>9, <1>10 DEF p, q

\* A candidate that reaches a zone is what is measured of its path.
LEMMA CandidateMeasured ==
    ASSUME KInv, state = "scan", NEW leg \in todo, ~Cycles(leg), leg.to \notin Stops
    PROVE  LET p == Append(PathTo(expanding), leg) IN
           /\ p \in Seq(job.network) /\ PathOf(job, p) /\ FewRides(p) /\ Ends(p)
           /\ p[Len(p)].to = leg.to /\ Connection(Candidate(leg)) = Measured(p)
<1> DEFINE q == PathTo(expanding)
           p == Append(q, leg)
           y == Candidate(leg)
<1>1. /\ job \in Batches /\ Allowed(job, p) /\ PathOf(job, p) /\ y.path = p
      /\ Leads(p, y) /\ Len(p) = Len(q) + 1 /\ Len(q) \in Nat /\ p[Len(p)] = leg
  BY CandidateLeads DEF KInv, JInv, IInv, Typing
<1>2. Standing(y)
  BY CandidateIsOnward DEF KInv
<1> HIDE DEF y, p
<1>3. p \in Seq(job.network) /\ Ends(p)
  <2>1. Len(p) # 0
    BY <1>1
  <2> QED BY <1>1, <2>1 DEF Allowed, Ends
<1>4. IsAt(p, Len(p), y) /\ Len(p) \in 0 .. Len(p)
  BY <1>1, BeginsItself, LeadsIs
<1>5. /\ Measured(p) = [path |-> p, dep |-> y.m.dep, arr |-> y.m.now,
                        nt |-> y.m.nt, imp |-> y.m.imp]
  BY <1>1, <1>3, <1>4, MeasuredIs
<1>6. Connection(y) = Measured(p)
  BY <1>1, <1>5 DEF Connection
<1>7. FewRides(p)
  <2>1. 2 <= Len(p)
    <3>1. Len(p) \in 3 .. Len(p)
      BY <1>1, <1>3, EndsShape
    <3> QED BY <3>1
  <2>2. y.m.nt = Cardinality(Rides(p)) - 1
    BY <1>1, <1>4, <2>1, RidesToFacts DEF IsAt
  <2>3. y.m.nt <= MaxTransfers
    BY <1>2 DEF Standing
  <2>4. Cardinality(Rides(p)) \in Nat
    <3>1. IsFiniteSet(RidesTo(p, Len(p))) /\ RidesTo(p, Len(p)) = Rides(p)
      BY <1>1, <1>4, RidesToFacts
    <3> QED BY <3>1, FS_CardinalityType
  <2> QED BY <2>2, <2>3, <2>4, MaxTransfersAssumption DEF FewRides
<1> QED BY <1>1, <1>3, <1>6, <1>7 DEF p, y

------------------------------------------------------------------------------
(* Every step keeps the branches traced and what is kept measured.          *)

LEMMA PrepareTraces ==
    ASSUME KInv, Prepare
    PROVE  Traced'
<1> DEFINE r == Residual(job.network, Range(job.targets))
           tasks == {t \in DOMAIN job.slots :
                        Feasible(r, job.slots[t].to, MaskKey(Root))}
           targets == {t \in DOMAIN job.targets :
                          Feasible(r, job.targets[t], MaskKey(Root))}
           b == RootOf(tasks, targets)
<1>1. /\ state = "prepare" /\ state' # "scan" /\ job' = job
      /\ \/ UNCHANGED <<residual, arena, current, kept>>
         \/ arena' = <<b>>
      /\ UNCHANGED <<expanding, todo>>
  BY DEF Prepare, RootOf
<1>2. job \in Batches /\ arena = <<>>
  BY <1>1 DEF KInv, JInv, IInv, Typing
<1>3. CASE UNCHANGED <<residual, arena, current, kept>>
  <2>1. arena' = <<>>
    BY <1>2, <1>3
  <2> QED BY <1>1, <2>1 DEF Traced
<1>4. CASE arena' = <<b>>
  <2>1. TargetsFor(job, b)
    <3>1. \A t \in DOMAIN job.slots : job.slots[t].to \in Range(job.targets)
      BY <1>2, BatchesAssumption
    <3>2. b.tasks = tasks /\ b.targets = targets
      <4> HIDE DEF tasks, targets
      <4>1. b.tasks = tasks
        BY RootFields DEF RootOf, BranchType
      <4>2. b.targets = targets
        BY RootFields DEF RootOf, BranchType
      <4> QED BY <4>1, <4>2
    <3> HIDE DEF b
    <3>3. ASSUME NEW s \in tasks
          PROVE  job.slots[s].to \in {job.targets[t] : t \in targets}
      <4>1. PICK t \in DOMAIN job.targets : job.targets[t] = job.slots[s].to
        BY <3>1 DEF Range
      <4>2. t \in targets
        BY <4>1
      <4> QED BY <4>1, <4>2
    <3> HIDE DEF tasks, targets
    <3> QED BY <3>2, <3>3 DEF TargetsFor
  <2>2. /\ b.node = Origin /\ b.phase = "AtOrigin" /\ b.m = Root.m
    <3> HIDE DEF tasks, targets
    <3>1. b.node = Root.node /\ b.m = Root.m
      BY RootFields DEF RootOf, BranchType
    <3>2. b.phase = "AtOrigin"
      BY RootFields DEF RootOf, BranchType
    <3>3. Root.node = Origin
      BY DEF Root
    <3> QED BY <3>1, <3>2, <3>3
  <2> HIDE DEF b
  <2>3. /\ arena' \in Seq(BranchType) /\ Forest(arena') /\ DOMAIN arena' = {1}
        /\ arena'[1] = b /\ 1 \in 1 .. Len(arena')
    <3>1. IInv'
      BY NextKeeps DEF KInv, JInv, TreeNext
    <3>2. arena' \in Seq(BranchType) /\ Forest(arena')
      BY <3>1 DEF IInv, Typing
    <3> QED BY <1>4, <3>2
  <2>4. PathIn(arena', 1) = <<>>
    BY <2>3, PathUnfolds
  <2>5. PathTo(1)' = <<>>
    BY <2>4 DEF PathTo, PathIn
  <2>6. OpenPath(job, <<>>)
    BY DEF OpenPath, Allowed
  <2>7. Leads(<<>>, b)
    <3> DEFINE at == [k \in 0 .. 0 |-> Start]
    <3>1. at[0] = Start
      OBVIOUS
    <3> HIDE DEF at
    <3>2. Along(<<>>, at, 0)
      BY <3>1 DEF Along
    <3>3. SameSpot(at[0], b)
      BY <2>2, <3>1, StartIsAt DEF SameSpot
    <3>4. Len(<<>>) = 0
      OBVIOUS
    <3> QED BY <3>2, <3>3, <3>4 DEF Leads
  <2>8. BranchTraced(1)'
    <3>1. OpenPath(job, PathTo(1)')
      BY <2>5, <2>6
    <3>2. Leads(PathTo(1)', arena'[1])
      BY <2>3, <2>5, <2>7
    <3>3. TargetsFor(job', arena'[1])
      BY <1>1, <2>1, <2>3
    <3> QED BY <1>1, <3>1, <3>2, <3>3 DEF BranchTraced, OpenPath, Allowed, Leads, Along
  <2> QED BY <1>1, <2>3, <2>8 DEF Traced
<1> QED BY <1>1, <1>3, <1>4

LEMMA PopTraces ==
    ASSUME KInv, Pop
    PROVE  Traced'
<1>0. PICK i : i = Head(current)
  OBVIOUS
<1>1. /\ state \in {"advanced", "level"} /\ current # <<>>
      /\ UNCHANGED <<job, residual>>
      /\ \/ /\ state' = "level" /\ arena' = Release(arena, i)
         \/ /\ state' = "scan" /\ expanding' = i /\ todo' = Successors(i)
            /\ UNCHANGED arena
  BY <1>0 DEF Pop
<1>2. i \in Range(current)
  <2>1. current \in Seq(Nat) /\ Distinct(current)
    BY DEF KInv, JInv, IInv, Typing, Queued
  <2> QED BY <1>0, <1>1, <2>1, TailFacts
<1>3. i \in InHand /\ i \in DOMAIN arena
  <2>1. i \in InHand /\ InHand \subseteq DOMAIN arena
    BY <1>2 DEF InHand, KInv, JInv, IInv, Queued
  <2> QED BY <2>1
<1>4. CASE state' = "level" /\ arena' = Release(arena, i)
  <2>1. SameArena
    BY <1>1, <1>3, <1>4, ReleaseRight DEF KInv, JInv
  <2>2. \A k \in DOMAIN arena' : BranchTraced(k)'
    BY <2>1, TracedBranchesKept DEF KInv, JInv, IInv
  <2> QED BY <1>4, <2>2 DEF Traced
<1>5. CASE /\ state' = "scan" /\ expanding' = i /\ todo' = Successors(i)
           /\ UNCHANGED arena
  <2>1. SameArena
    BY <1>1, <1>5, ArenaUnchanged DEF KInv, JInv, IInv
  <2>2. \A k \in DOMAIN arena' : BranchTraced(k)'
    BY <2>1, TracedBranchesKept DEF KInv, JInv, IInv
  <2>3. Successors(i)' = Successors(i)
    BY <1>3, <2>1, SamePaths DEF KInv, JInv, IInv
  <2>4. \A k \in {expanding'} : todo' \subseteq Successors(k)'
    BY <1>5, <2>3
  <2> QED BY <2>2, <2>4 DEF Traced
<1> QED BY <1>1, <1>4, <1>5

LEMMA FinishTraces ==
    ASSUME KInv, FinishExpansion
    PROVE  Traced'
<1>1. /\ state = "scan" /\ arena' = Release(arena, expanding)
      /\ state' \in {"level", "stopped"}
      /\ UNCHANGED <<job, residual, kept>>
  BY DEF FinishExpansion
<1>2. expanding \in InHand
  <2>1. expanding \in DOMAIN arena /\ expanding # None
    BY <1>1 DEF KInv, JInv, IInv, Typing, None
  <2> QED BY <2>1 DEF InHand
<1>3. SameArena
  BY <1>1, <1>2, ReleaseRight DEF KInv, JInv
<1>4. \A k \in DOMAIN arena' : BranchTraced(k)'
  BY <1>3, TracedBranchesKept DEF KInv, JInv, IInv
<1> QED BY <1>1, <1>4 DEF Traced

\* What is known of a branch that has been queued: the others are as they
\* were, and it has the path of its parent and the leg.
LEMMA BirthIsTraced ==
    ASSUME KInv, NEW leg \in todo, ContinueStep(leg), TasksAhead(leg) # {}
    PROVE  LET n == Len(arena) + 1
               p == Append(PathTo(expanding), leg)
               b == OffspringOf(leg, TasksAhead(leg), TargetsLeft(leg)) IN
           /\ state = "scan" /\ n \notin DOMAIN arena
           /\ DOMAIN arena' = DOMAIN arena \cup {n} /\ Len(arena') = n
           /\ arena'[n] = b /\ SameSpot(Candidate(leg), b)
           /\ b.tasks = TasksAhead(leg) /\ b.targets = TargetsLeft(leg)
           /\ PathIn(arena', n) = p /\ Leads(p, b) /\ OpenPath(job, p)
           /\ \A k \in DOMAIN arena :
                /\ SameBranch(arena[k], arena'[k])
                /\ PathTo(k)' = PathTo(k) /\ Successors(k)' = Successors(k)
<1> DEFINE n == Len(arena) + 1
           p == Append(PathTo(expanding), leg)
           b == OffspringOf(leg, TasksAhead(leg), TargetsLeft(leg))
<1>1. /\ Visiting(leg) /\ ~Cycles(leg) /\ leg.to \in Stops
      /\ UNCHANGED <<job, state, residual, expanding>>
      /\ Queueing(leg, TasksAhead(leg), TargetsLeft(leg))
  BY ContinueIs
<1>2. state = "scan" /\ todo' \subseteq todo
  BY <1>1 DEF Visiting
<1>3. Offspring(b) /\ b.m = Candidate(leg).m /\ b.parent = expanding
  BY <1>1, <1>2, OffspringIsRight DEF KInv, JInv
<1>4. arena' = Born(arena, b)
  BY <1>1 DEF Queueing, Appended, Born
<1>5. /\ b.node = Candidate(leg).node /\ b.phase = Candidate(leg).phase
      /\ b.leg = leg /\ b.tasks = TasksAhead(leg) /\ b.targets = TargetsLeft(leg)
  <2>1. b.node = Candidate(leg).node
    BY RootFields DEF OffspringOf, BranchType
  <2>2. b.phase = Candidate(leg).phase
    BY RootFields DEF OffspringOf, BranchType
  <2>3. b.leg = leg
    BY RootFields DEF OffspringOf, BranchType
  <2>4. b.tasks = TasksAhead(leg)
    BY RootFields DEF OffspringOf, BranchType
  <2>5. b.targets = TargetsLeft(leg)
    BY RootFields DEF OffspringOf, BranchType
  <2> QED BY <2>1, <2>2, <2>3, <2>4, <2>5
<1> HIDE DEF b
<1>6. /\ arena' \in Seq(BranchType) /\ Forest(arena')
      /\ arena \in Seq(BranchType) /\ Forest(arena)
      /\ DOMAIN arena' = DOMAIN arena \cup {n} /\ n \notin DOMAIN arena
      /\ arena'[n] = b /\ Len(arena') = Len(arena) + 1 /\ n \in Nat
      /\ \A k \in DOMAIN arena : SameBranch(arena[k], arena'[k])
  <2>1. arena \in Seq(BranchType) /\ Forest(arena)
    BY DEF KInv, JInv, IInv, Typing
  <2> QED BY <1>1, <1>2, <1>3, <1>4, <2>1, BirthIsRight DEF KInv, JInv
<1>7. /\ DOMAIN arena = 1 .. Len(arena) /\ Len(arena) \in Nat
      /\ n \in 1 .. Len(arena') /\ expanding \in DOMAIN arena /\ n # 1
      /\ Len(arena) <= Len(arena')
  <2>1. expanding \in DOMAIN arena
    BY <1>2 DEF KInv, JInv, IInv, Typing
  <2>2. DOMAIN arena = 1 .. Len(arena) /\ Len(arena) \in Nat
    BY <1>6
  <2> QED BY <1>6, <2>1, <2>2
<1>8. \A k \in DOMAIN arena : PathIn(arena', k) = PathIn(arena, k)
  BY <1>6, <1>7, PathStays
<1>9. \A k \in DOMAIN arena : PathTo(k)' = PathTo(k)
  BY <1>8 DEF PathTo, PathIn
<1>10. PathIn(arena', n) = p
  <2>1. PathIn(arena', n) = Append(PathIn(arena', b.parent), b.leg)
    BY <1>6, <1>7, PathUnfolds
  <2>2. PathIn(arena', n) = Append(PathIn(arena, expanding), leg)
    BY <1>3, <1>5, <1>7, <1>8, <2>1
  <2>3. PathTo(expanding) = PathIn(arena, expanding)
    BY DEF PathTo, PathIn
  <2> QED BY <2>2, <2>3
<1>11. SameSpot(Candidate(leg), b)
  BY <1>3, <1>5 DEF SameSpot
<1>12. Leads(p, b) /\ OpenPath(job, p)
  <2>1. Leads(p, Candidate(leg)) /\ OpenPath(job, p)
    BY <1>1, <1>2, CandidateLeads
  <2> QED BY <1>11, <2>1, LeadsAlike
<1>13. ASSUME NEW k \in DOMAIN arena
       PROVE  Successors(k)' = Successors(k)
  <2>0. job' = job
    BY <1>1
  <2>1. /\ arena'[k].m = arena[k].m /\ arena'[k].phase = arena[k].phase
        /\ arena'[k].node = arena[k].node /\ arena'[k].targets = arena[k].targets
    BY <1>6 DEF SameBranch
  <2>2. \A l : WalkAdmitted(k, l)' <=> WalkAdmitted(k, l)
    BY <2>0, <2>1 DEF WalkAdmitted, ActiveZones
  <2>3. \A last, l : Reboards(last, l)' <=> Reboards(last, l)
    BY <2>0 DEF Reboards, Continuations
  <2>4. \A l : RideAdmitted(k, l)' <=> RideAdmitted(k, l)
    BY <1>9, <2>0, <2>1, <2>3 DEF RideAdmitted
  <2> QED BY <2>0, <2>1, <2>2, <2>4 DEF Successors
<1> QED BY <1>2, <1>5, <1>6, <1>9, <1>10, <1>11, <1>12, <1>13 DEF b

LEMMA ContinueTraces ==
    ASSUME KInv, NEW leg \in todo, ContinueStep(leg)
    PROVE  Traced'
<1>1. /\ Visiting(leg) /\ ~Cycles(leg) /\ leg.to \in Stops
      /\ UNCHANGED <<job, stopping, state, residual, expanding, kept, found>>
      /\ IF TasksAhead(leg) = {} THEN UNCHANGED <<arena, current, next>>
         ELSE Queueing(leg, TasksAhead(leg), TargetsLeft(leg))
  BY ContinueIs
<1>2. state = "scan" /\ todo' \subseteq todo
  BY <1>1 DEF Visiting
<1>3. CASE TasksAhead(leg) = {}
  BY <1>1, <1>2, <1>3, TracedResting DEF KInv, JInv
<1>4. CASE TasksAhead(leg) # {}
  <2> DEFINE p == Append(PathTo(expanding), leg)
             b == OffspringOf(leg, TasksAhead(leg), TargetsLeft(leg))
  <2>0. PICK n : n = Len(arena) + 1
    OBVIOUS
  <2>1. /\ DOMAIN arena' = DOMAIN arena \cup {n} /\ n \notin DOMAIN arena
        /\ arena'[n] = b
        /\ b.tasks = TasksAhead(leg) /\ b.targets = TargetsLeft(leg)
        /\ PathIn(arena', n) = p /\ Leads(p, b) /\ OpenPath(job, p)
        /\ \A k \in DOMAIN arena :
             /\ SameBranch(arena[k], arena'[k])
             /\ PathTo(k)' = PathTo(k) /\ Successors(k)' = Successors(k)
    BY <1>4, <2>0, BirthIsTraced
  <2> HIDE DEF b, p
  <2>2. TargetsFor(job, b)
    BY <1>2, <2>1, AheadFacts DEF TargetsFor
  <2>3. ASSUME NEW k \in DOMAIN arena'
        PROVE  BranchTraced(k)'
    <3>1. OpenPath(job, PathTo(k)') /\ Leads(PathTo(k)', arena'[k])
          /\ TargetsFor(job, arena'[k])
      <4>1. CASE k = n
        <5>1. PathTo(k)' = p
          BY <2>1, <4>1 DEF PathTo, PathIn
        <5> QED BY <2>1, <2>2, <4>1, <5>1
      <4>2. CASE k \in DOMAIN arena
        <5>1. /\ OpenPath(job, PathTo(k)) /\ Leads(PathTo(k), arena[k])
              /\ TargetsFor(job, arena[k])
          BY <4>2 DEF KInv, Traced, BranchTraced
        <5>2. PathTo(k)' = PathTo(k) /\ SameSpot(arena[k], arena'[k])
              /\ arena'[k].tasks = arena[k].tasks /\ arena'[k].targets = arena[k].targets
          BY <2>1, <4>2 DEF SameBranch, SameSpot
        <5>3. Leads(PathTo(k)', arena'[k])
          BY <5>1, <5>2, LeadsAlike
        <5> QED BY <5>1, <5>2, <5>3 DEF TargetsFor
      <4> QED BY <2>1, <4>1, <4>2
    <3> QED BY <1>1, <3>1 DEF BranchTraced, OpenPath, Allowed, Leads, Along
  <2>4. ASSUME NEW k \in {expanding'}
        PROVE  todo' \subseteq Successors(k)'
    <3>1. k \in DOMAIN arena /\ todo \subseteq Successors(k)
      BY <1>1, <1>2 DEF KInv, Traced, JInv, IInv, Typing
    <3> QED BY <1>2, <2>1, <3>1
  <2> QED BY <2>3, <2>4 DEF Traced
<1> QED BY <1>3, <1>4

LEMMA CompleteIs ==
    ASSUME NEW leg \in todo, CompleteStep(leg)
    PROVE  LET b == Candidate(leg) IN
           /\ state = "scan" /\ todo' = todo \ {leg} /\ ~Cycles(leg)
           /\ leg.to \notin Stops
           /\ UNCHANGED <<job, stopping, residual, arena, current, next, expanding>>
           /\ DOMAIN kept' = DOMAIN kept
           /\ \/ /\ state' = "failed" /\ kept' = kept
                 /\ job.kind = "demand_task" /\ Connection(b).dep < 0
                 /\ \E s \in arena[expanding].tasks : job.slots[s].to = leg.to
              \/ /\ state' = state
                 /\ \A s \in DOMAIN kept :
                      kept'[s] = IF s \in arena[expanding].tasks
                                    /\ job.slots[s].to = leg.to /\ job.allow_end_wait
                                 THEN Retained(s, Connection(b)) ELSE kept[s]
<1> DEFINE b == Candidate(leg)
<1>1. b.node = leg.to
  BY DEF Candidate
<1>2. Connection(b).dep = b.m.dep
  BY DEF Connection
<1> HIDE DEF b
<1>3. CASE StartsEarly(expanding, b)
  <2>1. /\ state' = "failed" /\ UNCHANGED kept
        /\ UNCHANGED <<job, stopping, residual, arena, current, next, expanding>>
    BY <1>3 DEF CompleteStep, b
  <2> QED BY <1>1, <1>2, <1>3, <2>1
          DEF CompleteStep, Visiting, StartsEarly, CompletedSlots, b
<1>4. CASE ~StartsEarly(expanding, b)
  <2>1. /\ kept' = [s \in DOMAIN kept |->
                      IF s \in CompletedSlots(expanding, b)
                      THEN Retained(s, Connection(b)) ELSE kept[s]]
        /\ UNCHANGED <<job, stopping, state, residual, arena, current, next, expanding>>
    BY <1>4 DEF CompleteStep, b
  <2> QED BY <1>1, <2>1 DEF CompleteStep, Visiting, CompletedSlots, b
<1> QED BY <1>3, <1>4

LEMMA CompleteKeepsMeasured ==
    ASSUME KInv, NEW leg \in todo, CompleteStep(leg)
    PROVE  AllKeptFrom'
<1> DEFINE b == Candidate(leg)
           c == Connection(b)
           p == Append(PathTo(expanding), leg)
<1>1. /\ state = "scan" /\ ~Cycles(leg) /\ leg.to \notin Stops /\ job' = job
      /\ DOMAIN kept' = DOMAIN kept
      /\ \A s \in DOMAIN kept :
           \/ kept'[s] = kept[s]
           \/ /\ job.slots[s].to = leg.to /\ job.allow_end_wait
              /\ kept'[s] = Retained(s, c)
  BY CompleteIs
<1>2. /\ p \in Seq(job.network) /\ PathOf(job, p) /\ FewRides(p) /\ Ends(p)
      /\ p[Len(p)].to = leg.to /\ c = Measured(p)
  BY <1>1, CandidateMeasured
<1> HIDE DEF c, p
<1>3. ASSUME NEW s \in DOMAIN kept
      PROVE  KeptFrom(s, kept'[s])
  <2>1. KeptFrom(s, kept[s])
    BY DEF KInv, AllKeptFrom
  <2>2. CASE kept'[s] = kept[s]
    BY <2>1, <2>2
  <2>3. CASE /\ job.slots[s].to = leg.to /\ job.allow_end_wait
             /\ Admissible(s, c)
             /\ kept'[s] = {k \in kept[s] :
                              ~Complete!Dominates(job.direct_barred, c, k)} \cup {c}
    <3>1. p \in Sought(s)
      BY <1>2, <2>3 DEF Sought
    <3>2. IsFiniteSet(kept'[s])
      <4>1. IsFiniteSet({k \in kept[s] : ~Complete!Dominates(job.direct_barred, c, k)})
        BY <2>1, FS_Subset DEF KeptFrom
      <4> QED BY <2>3, <4>1, FS_AddElement
    <3>3. \A k \in kept'[s] : Admissible(s, k) /\ \E o \in Sought(s) : k = Measured(o)
      BY <1>2, <2>1, <2>3, <3>1 DEF KeptFrom
    <3> QED BY <2>3, <3>2, <3>3 DEF KeptFrom
  <2> QED BY <1>1, <2>2, <2>3 DEF Retained
<1>4. \A s : Sought(s)' = Sought(s)
  BY <1>1 DEF Sought, PathOf, Allowed
<1>5. ASSUME NEW s \in DOMAIN kept, NEW S, KeptFrom(s, S)
      PROVE  KeptFrom(s, S)'
  BY <1>1, <1>4, <1>5 DEF KeptFrom, Admissible
<1> QED BY <1>1, <1>3, <1>5 DEF AllKeptFrom

LEMMA StepsKeepMeasured ==
    ASSUME KInv, UNCHANGED <<job, kept>>
    PROVE  AllKeptFrom'
<1>1. \A s : Sought(s)' = Sought(s)
  BY DEF Sought, PathOf, Allowed
<1>2. ASSUME NEW s \in DOMAIN kept'
      PROVE  KeptFrom(s, kept[s])'
  <2>1. KeptFrom(s, kept[s])
    BY <1>2 DEF KInv, AllKeptFrom
  <2> QED BY <1>1, <2>1 DEF KeptFrom, Admissible
<1> QED BY <1>2 DEF AllKeptFrom

LEMMA PrepareKeepsMeasured ==
    ASSUME KInv, Prepare
    PROVE  AllKeptFrom'
<1>1. UNCHANGED <<job, kept>> \/ kept' = [s \in DOMAIN job.slots |-> {}]
  BY DEF Prepare
<1>2. CASE UNCHANGED <<job, kept>>
  BY <1>2, StepsKeepMeasured
<1>3. CASE kept' = [s \in DOMAIN job.slots |-> {}]
  <2>1. \A s \in DOMAIN kept' : kept'[s] = {}
    BY <1>3
  <2>2. IsFiniteSet({})
    BY FS_EmptySet
  <2> QED BY <2>1, <2>2 DEF AllKeptFrom, KeptFrom
<1> QED BY <1>1, <1>2, <1>3

LEMMA StepsKeepTraces ==
    ASSUME KInv, [TreeNext]_tree_vars
    PROVE  KInv'
<1>1. JInv'
  BY StepsKeepSlots DEF KInv
<1>2. CASE Prepare
  BY <1>1, <1>2, PrepareTraces, PrepareKeepsMeasured DEF KInv
<1>3. CASE Cancel \/ Stop \/ AdvanceLevel \/ Exhaust \/ UNCHANGED tree_vars
  <2>1. /\ UNCHANGED <<job, residual, arena, expanding, kept>>
        /\ todo' \subseteq todo /\ (state' = "scan" => state = "scan")
    <3>1. CASE Cancel
      BY <3>1 DEF Cancel
    <3>2. CASE Stop
      BY <3>2 DEF Stop
    <3>3. CASE AdvanceLevel
      BY <3>3 DEF AdvanceLevel
    <3>4. CASE Exhaust
      BY <3>4 DEF Exhaust
    <3>5. CASE UNCHANGED tree_vars
      BY <3>5 DEF tree_vars
    <3> QED BY <1>3, <3>1, <3>2, <3>3, <3>4, <3>5
  <2> QED BY <1>1, <2>1, TracedResting, StepsKeepMeasured DEF KInv, JInv
<1>4. CASE Pop
  <2>1. UNCHANGED <<job, kept>>
    BY <1>4 DEF Pop
  <2> QED BY <1>1, <1>4, <2>1, PopTraces, StepsKeepMeasured DEF KInv
<1>5. ASSUME NEW leg \in todo, RejectStep(leg)
      PROVE  KInv'
  <2>1. /\ UNCHANGED <<job, residual, arena, expanding, kept>>
        /\ todo' \subseteq todo /\ (state' = "scan" => state = "scan")
    BY <1>5 DEF RejectStep, Visiting
  <2> QED BY <1>1, <2>1, TracedResting, StepsKeepMeasured DEF KInv, JInv
<1>6. ASSUME NEW leg \in todo, CompleteStep(leg)
      PROVE  KInv'
  <2>1. /\ UNCHANGED <<job, residual, arena, expanding>> /\ todo' \subseteq todo
        /\ state = "scan"
    BY <1>6, CompleteIs
  <2>2. Traced'
    BY <2>1, TracedResting DEF KInv, JInv
  <2>3. AllKeptFrom'
    BY <1>6, CompleteKeepsMeasured
  <2> QED BY <1>1, <2>2, <2>3 DEF KInv
<1>7. ASSUME NEW leg \in todo, ContinueStep(leg)
      PROVE  KInv'
  <2>1. UNCHANGED <<job, kept>>
    BY <1>7, ContinueIs
  <2> QED BY <1>1, <1>7, <2>1, ContinueTraces, StepsKeepMeasured DEF KInv
<1>8. CASE FinishExpansion
  <2>1. UNCHANGED <<job, kept>>
    BY <1>8 DEF FinishExpansion
  <2> QED BY <1>1, <1>8, <2>1, FinishTraces, StepsKeepMeasured DEF KInv
<1> QED BY <1>2, <1>3, <1>4, <1>5, <1>6, <1>7, <1>8 DEF TreeNext, Visit

LEMMA InitIsTraced ==
    ASSUME TreeInit
    PROVE  KInv
<1>1. JInv
  BY InitKeepsNothing
<1>2. DOMAIN arena = {} /\ DOMAIN kept = {} /\ state # "scan"
  BY DEF TreeInit
<1> QED BY <1>1, <1>2 DEF KInv, Traced, AllKeptFrom

\* The branches of a tree are where the legs lead that led to them, and what
\* a slot keeps is measured of a whole path to its zone, in every state.
THEOREM TracesInvariant == TreeSpec => []KInv
<1>1. TreeInit => KInv
  BY InitIsTraced
<1>2. KInv /\ [TreeNext]_tree_vars => KInv'
  BY StepsKeepTraces
<1> QED BY <1>1, <1>2, PTL DEF TreeSpec

------------------------------------------------------------------------------
(* Without pruning, no path to a slot is lost on the way: its connection is *)
(* kept, or the slot has no use for it, or a branch in hand is on its way.  *)

Settled(slot, p) ==
    \/ ~Admissible(slot, Measured(p)) \/ Measured(p) \in kept[slot]
    \/ NoUse(job, kept[slot], Measured(p))

OnTheWay(i, slot, p) == slot \in arena[i].tasks /\ Begins(PathTo(i), p)

Pending(slot, p) ==
    \/ \E i \in Range(current) \cup Range(next) : OnTheWay(i, slot, p)
    \/ state = "scan" /\ \E i \in {expanding} :
            OnTheWay(i, slot, p) /\ p[Len(PathTo(i)) + 1] \in todo

Covered ==
    state \in {"level", "advanced", "scan", "exhausted"}
    /\ job.plan = "disabled" /\ job.allow_end_wait =>
        \A slot \in DOMAIN kept : \A p \in Sought(slot) :
            Settled(slot, p) \/ Pending(slot, p)

LEMMA NoUseAlike ==
    ASSUME NEW j, NEW S, NEW c, NEW d, d.dep = c.dep, d.arr = c.arr, d.nt = c.nt,
           d.imp = c.imp, NoUse(j, S, c)
    PROVE  NoUse(j, S, d)
<1>1. \A k : Complete!Dominates(j.direct_barred, k, c)
                <=> Complete!Dominates(j.direct_barred, k, d)
  BY DEF Complete!Dominates, Complete!CanDominate
<1>2. Complete!Within(c, S) <=> Complete!Within(d, S)
  BY DEF Complete!Within, Complete!JourneyTime
<1> QED BY <1>1, <1>2 DEF NoUse

\* A journey may set out from any branch at the same spot.
LEMMA ArrivesAlike ==
    ASSUME NEW j \in Batches, j = job, NEW m, NEW on, Journey(j.network, on, m),
           NEW x, SameSpot(on[0], x), x.node \in Stops,
           NEW d, d \notin Stops, on[m].phase = "Completed", on[m].node = d
    PROVE  Arrives(x, d, on[m])
<1> DEFINE at == [k \in 0 .. m |-> IF k = 0 THEN x ELSE on[k]]
<1>1. m \in Nat /\ m # 0
  BY DEF Journey, SameSpot
<1>2. at[0] = x /\ at[m] = on[m] /\ \A k \in 1 .. m : at[k] = on[k]
  BY <1>1
<1> HIDE DEF at
<1>3. ASSUME NEW k \in 1 .. m
      PROVE  \E leg \in j.network :
                MayTake(at[k - 1], leg) /\ at[k] = Onward(at[k - 1], leg)
  <2>1. PICK leg \in j.network :
            MayTake(on[k - 1], leg) /\ on[k] = Onward(on[k - 1], leg)
    BY DEF Journey
  <2>2. SameSpot(on[k - 1], at[k - 1])
    <3>1. CASE k = 1
      BY <1>2, <3>1
    <3>2. CASE k # 1
      <4>1. k - 1 \in 1 .. m
        BY <1>1, <3>2
      <4> QED BY <1>2, <4>1 DEF SameSpot
    <3> QED BY <3>1, <3>2
  <2>3. /\ Onward(on[k - 1], leg) = Onward(at[k - 1], leg)
        /\ MayTake(at[k - 1], leg)
    BY <2>1, <2>2, OnwardAlike
  <2> QED BY <1>2, <2>1, <2>3
<1>4. Journey(j.network, at, m)
  BY <1>1, <1>3 DEF Journey
<1> QED BY <1>2, <1>4 DEF Arrives

\* Where a path to a zone leads, at every leg of it.
LEMMA WayOfPath ==
    ASSUME NEW j \in Batches, NEW p, PathOf(j, p), FewRides(p), Ends(p)
    PROVE  /\ Weighed(Measured(p)) /\ p[Len(p)].to \notin Stops
           /\ \E at : /\ Along(p, at, Len(p)) /\ at[Len(p)].phase = "Completed"
                      /\ at[Len(p)].node = p[Len(p)].to
                      /\ Measured(p).dep = at[Len(p)].m.dep
                      /\ Measured(p).arr = at[Len(p)].m.now
                      /\ Measured(p).nt = at[Len(p)].m.nt
                      /\ Measured(p).imp = at[Len(p)].m.imp
<1>1. Allowed(j, p) /\ Len(p) \in Nat /\ Len(p) \in 0 .. Len(p)
  <2>1. Allowed(j, p)
    BY DEF PathOf
  <2> QED BY <2>1, PathFields
<1>2. PICK at : Along(p, at, Len(p))
  BY <1>1, AlongExists
<1> DEFINE y == at[Len(p)]
<1>3. IsAt(p, Len(p), y)
  BY <1>1, <1>2, AlongIs
<1> HIDE DEF y
<1>4. /\ y.phase = "Completed" /\ y.node = p[Len(p)].to /\ y.m \in Travelled
      /\ Measured(p) = [path |-> p, dep |-> y.m.dep, arr |-> y.m.now,
                        nt |-> y.m.nt, imp |-> y.m.imp]
  BY <1>1, <1>3, MeasuredIs
<1>5. /\ Measured(p).dep = y.m.dep /\ Measured(p).arr = y.m.now
      /\ Measured(p).nt = y.m.nt /\ Measured(p).imp = y.m.imp
  BY <1>4
<1>6. Weighed(Measured(p))
  BY <1>4, <1>5, TravelledFields DEF Weighed
<1> QED BY <1>2, <1>4, <1>5, <1>6 DEF y, Ends

\* What is settled stays so.
LEMMA SettledStays ==
    ASSUME KInv, [TreeNext]_tree_vars, NEW slot \in DOMAIN kept,
           NEW p \in Sought(slot), Settled(slot, p), job' = job
    PROVE  Settled(slot, p)'
<1> DEFINE c == Measured(p)
<1>1. job \in Batches /\ NoUseStays /\ Weighed(c)
  <2>1. job \in Batches
    BY DEF KInv, JInv, IInv, Typing
  <2>2. NoUseStays
    BY StepsKeepSlots DEF KInv
  <2> QED BY <2>1, <2>2, WayOfPath DEF Sought
<1>2. Kept(job, kept[slot])
  BY DEF KInv, JInv, SlotsRight
<1>3. c' = c
  BY DEF Measured, Rides, OnRides, Walking, Total
<1> HIDE DEF c
<1>4. CASE ~Admissible(slot, c)
  <2>1. ~Admissible(slot, c)'
    BY <1>3, <1>4 DEF Admissible
  <2> QED BY <2>1 DEF Settled, c
<1>5. CASE NoUse(job, kept[slot], c)
  <2>1. NoUse(job', kept'[slot], c)
    BY <1>1, <1>5 DEF NoUseStays
  <2>2. NoUse(job, kept[slot], c)'
    BY <1>3, <2>1 DEF NoUse, Complete!Dominates, Complete!CanDominate, Complete!Within,
                      Complete!JourneyTime
  <2> QED BY <2>2 DEF Settled, c
<1>6. CASE c \in kept[slot]
  <2>1. c \in kept'[slot] \/ NoUse(job', kept'[slot], c)
    <3>1. CASE kept' = kept
      BY <1>6, <3>1
    <3>2. ASSUME NEW leg \in todo, CompleteStep(leg)
          PROVE  c \in kept'[slot] \/ NoUse(job', kept'[slot], c)
      <4> DEFINE d == Connection(Candidate(leg))
      <4>1. \/ kept'[slot] = kept[slot]
            \/ kept'[slot] = Retained(slot, d)
        BY <3>2, CompleteIs
      <4> HIDE DEF d
      <4>2. \/ kept'[slot] = kept[slot]
            \/ kept'[slot] = {k \in kept[slot] :
                                ~Complete!Dominates(job.direct_barred, d, k)} \cup {d}
        BY <4>1 DEF Retained
      <4>3. \/ c \in kept'[slot]
            \/ d \in kept'[slot] /\ Complete!Dominates(job.direct_barred, d, c)
        BY <1>6, <4>2
      <4> QED BY <4>3 DEF NoUse
    <3>3. kept' = kept \/ \E leg \in todo : CompleteStep(leg)
      <4>1. ASSUME Prepare PROVE kept' = kept
        <5>1. DOMAIN kept = {}
          BY <4>1 DEF Prepare, KInv, JInv, SlotsRight, Prepared
        <5> QED BY <5>1
      <4>2. CASE UNCHANGED tree_vars
        BY <4>2 DEF tree_vars
      <4>3. CASE Cancel \/ Stop \/ AdvanceLevel \/ Pop \/ FinishExpansion \/ Exhaust
        BY <4>3 DEF Cancel, Stop, AdvanceLevel, Pop, FinishExpansion, Exhaust
      <4>4. ASSUME NEW leg \in todo, RejectStep(leg) \/ ContinueStep(leg)
            PROVE  kept' = kept
        BY <4>4 DEF RejectStep, ContinueStep
      <4> QED BY <4>1, <4>2, <4>3, <4>4 DEF TreeNext, Visit
    <3> QED BY <3>1, <3>2, <3>3
  <2>2. CASE c \in kept'[slot]
    BY <1>3, <2>2 DEF Settled, c
  <2>3. CASE NoUse(job', kept'[slot], c)
    <3>1. NoUse(job, kept[slot], c)'
      BY <1>3, <2>3 DEF NoUse, Complete!Dominates, Complete!CanDominate,
                        Complete!Within, Complete!JourneyTime
    <3> QED BY <3>1 DEF Settled, c
  <2> QED BY <2>1, <2>2, <2>3
<1> QED BY <1>4, <1>5, <1>6 DEF Settled, c

\* What is asked of a path does not change.
LEMMA SoughtStays ==
    ASSUME job' = job, NEW slot
    PROVE  Sought(slot)' = Sought(slot)
BY DEF Sought, PathOf, Allowed

LEMMA SoughtFields ==
    ASSUME job \in Batches, NEW slot \in DOMAIN job.slots, NEW p \in Sought(slot)
    PROVE  /\ PathOf(job, p) /\ Allowed(job, p) /\ FewRides(p) /\ Ends(p)
           /\ p[Len(p)].to = job.slots[slot].to /\ Len(p) \in Nat /\ Len(p) # 0
           /\ job.slots[slot].to \in Range(job.targets)
           /\ job.slots[slot].to \notin Stops
<1>1. /\ PathOf(job, p) /\ FewRides(p) /\ Ends(p)
      /\ p[Len(p)].to = job.slots[slot].to
  BY DEF Sought
<1>2. Allowed(job, p)
  BY <1>1 DEF PathOf
<1>3. Len(p) \in Nat
  BY <1>2, PathFields
<1> QED BY <1>1, <1>2, <1>3, BatchesAssumption DEF Ends

\* At first the root is on its way to everything.
LEMMA RootIsOnTheWay ==
    ASSUME job \in Batches, NEW slot \in DOMAIN job.slots, NEW p \in Sought(slot)
    PROVE  Feasible(Residual(job.network, Range(job.targets)), job.slots[slot].to,
                    MaskKey(Root))
<1> DEFINE d == job.slots[slot].to
<1>1. /\ PathOf(job, p) /\ Allowed(job, p) /\ FewRides(p) /\ Ends(p)
      /\ p[Len(p)].to = d /\ Len(p) \in Nat /\ d \in Range(job.targets)
  BY SoughtFields
<1> HIDE DEF d
<1>2. PICK at : /\ Along(p, at, Len(p)) /\ at[Len(p)].phase = "Completed"
                /\ at[Len(p)].node = p[Len(p)].to
  BY <1>1, WayOfPath
<1>3. 0 \in 0 .. Len(p)
  BY <1>1
<1>4. PICK m, on : Journey(job.network, on, m) /\ on[0] = at[0] /\ on[m] = at[Len(p)]
  BY <1>1, <1>2, <1>3, RestIsJourney
<1>5. on[0] = Start
  BY <1>2, <1>4 DEF Along
<1>6. Standing(on[0])
  BY <1>5, StartIsAt
<1>7. Feasible(Residual(job.network, Range(job.targets)), d, MaskKey(on[0]))
  BY <1>1, <1>2, <1>4, <1>6, NothingReachableIsCut
<1>8. MaskKey(Start) = MaskKey(Root)
  BY StartIsAt DEF MaskKey, Root
<1> QED BY <1>5, <1>7, <1>8 DEF d

LEMMA PrepareCovers ==
    ASSUME KInv, Prepare
    PROVE  Covered'
<1> DEFINE r == Residual(job.network, Range(job.targets))
           tasks == {t \in DOMAIN job.slots :
                        Feasible(r, job.slots[t].to, MaskKey(Root))}
           targets == {t \in DOMAIN job.targets :
                          Feasible(r, job.targets[t], MaskKey(Root))}
           b == RootOf(tasks, targets)
<1>1. /\ job' = job
      /\ \/ state' = "skipped"
         \/ /\ arena' = <<b>> /\ current' = <<1>>
            /\ kept' = [s \in DOMAIN job.slots |-> {}]
  BY DEF Prepare, RootOf
<1>2. CASE state' = "skipped"
  BY <1>2 DEF Covered
<1>3. CASE /\ arena' = <<b>> /\ current' = <<1>>
           /\ kept' = [s \in DOMAIN job.slots |-> {}]
  <2>1. job \in Batches
    BY DEF KInv, JInv, IInv, Typing
  <2>2. b.tasks = tasks
    <3> HIDE DEF tasks, targets
    <3> QED BY RootFields DEF RootOf, BranchType
  <2> HIDE DEF b
  <2>3. PathTo(1)' = <<>> /\ arena'[1] = b
    <3>1. KInv'
      BY StepsKeepTraces DEF TreeNext
    <3>2. arena' \in Seq(BranchType) /\ Forest(arena')
      BY <3>1 DEF KInv, JInv, IInv, Typing
    <3>3. 1 \in 1 .. Len(arena')
      BY <1>3
    <3>4. PathIn(arena', 1) = <<>>
      BY <3>2, <3>3, PathUnfolds
    <3> QED BY <1>3, <3>4 DEF PathTo, PathIn
  <2>4. ASSUME NEW slot \in DOMAIN job.slots, NEW p \in Sought(slot)
        PROVE  Pending(slot, p)'
    <3>1. slot \in tasks
      BY <2>1, <2>4, RootIsOnTheWay
    <3>2. Begins(<<>>, p)
      <4>1. Len(p) \in Nat
        BY <2>1, <2>4, SoughtFields
      <4> QED BY <4>1 DEF Begins
    <3> HIDE DEF tasks
    <3>3. OnTheWay(1, slot, p)'
      BY <2>2, <2>3, <3>1, <3>2 DEF OnTheWay, Begins
    <3>4. 1 \in Range(current')
      BY <1>3 DEF Range
    <3> QED BY <3>3, <3>4 DEF Pending
  <2>5. \A slot : Sought(slot)' = Sought(slot)
    BY <1>1, SoughtStays
  <2>6. DOMAIN kept' = DOMAIN job.slots
    BY <1>3
  <2> QED BY <2>4, <2>5, <2>6 DEF Covered
<1> QED BY <1>1, <1>2, <1>3

\* It suffices to follow what is pending.
LEMMA CoveredIf ==
    ASSUME KInv, Covered, [TreeNext]_tree_vars, job' = job,
           state \in {"level", "advanced", "scan", "exhausted"},
           DOMAIN kept' = DOMAIN kept,
           \A slot \in DOMAIN kept : \A p \in Sought(slot) :
               job.plan = "disabled" /\ job.allow_end_wait /\ Pending(slot, p)
                    => Pending(slot, p)' \/ Settled(slot, p)'
    PROVE  Covered'
<1> SUFFICES ASSUME job.plan = "disabled" /\ job.allow_end_wait,
                    NEW slot \in DOMAIN kept, NEW p \in Sought(slot)
             PROVE  Settled(slot, p)' \/ Pending(slot, p)'
  BY SoughtStays DEF Covered
<1>1. Settled(slot, p) \/ Pending(slot, p)
  BY DEF Covered
<1>2. CASE Settled(slot, p)
  BY <1>2, SettledStays
<1> QED BY <1>1, <1>2

\* Branches that are still in hand are still on the way.
LEMMA OnTheWayStays ==
    ASSUME KInv, SameArena, NEW i \in DOMAIN arena, NEW slot, NEW p,
           OnTheWay(i, slot, p)
    PROVE  OnTheWay(i, slot, p)'
<1>1. PathTo(i)' = PathTo(i) /\ arena'[i].tasks = arena[i].tasks
  BY SamePaths DEF KInv, JInv, IInv
<1> QED BY <1>1 DEF OnTheWay, Begins

\* What is pending of a branch goes on with one of its successors.
LEMMA PendingIsSuccessor ==
    ASSUME KInv, NEW i \in DOMAIN arena, NEW slot \in DOMAIN job.slots,
           NEW p \in Sought(slot), OnTheWay(i, slot, p)
    PROVE  LET n == Len(PathTo(i)) IN
           /\ n \in 0 .. Len(p) - 1 /\ p[n + 1] \in Successors(i)
           /\ ~Revisits(Branch(i), p[n + 1])
           /\ arena[i].targets # {} /\ ~(arena[i].node \notin Stops /\ arena[i].m.boarded)
           /\ \E t \in arena[i].targets : job.targets[t] = job.slots[slot].to
<1>1. /\ job \in Batches /\ OpenPath(job, PathTo(i)) /\ Leads(PathTo(i), arena[i])
      /\ TargetsFor(job, arena[i])
  BY DEF KInv, JInv, IInv, Typing, Traced, BranchTraced
<1>2. \E t \in arena[i].targets : job.targets[t] = job.slots[slot].to
  BY <1>1 DEF TargetsFor, OnTheWay
<1>3. /\ PathOf(job, p) /\ FewRides(p) /\ Ends(p)
      /\ p[Len(p)].to \in ActiveZones(i)
  BY <1>1, <1>2, SoughtFields DEF ActiveZones
<1>4. LET n == Len(PathTo(i)) IN
      /\ n \in 0 .. Len(p) - 1 /\ p[n + 1] \in Successors(i)
      /\ ~Revisits(Branch(i), p[n + 1])
  BY <1>1, <1>3, FollowerIsSuccessor DEF OnTheWay
<1>5. ~(arena[i].node \notin Stops /\ arena[i].m.boarded)
  <2>1. LET n == Len(PathTo(i)) IN
        /\ n # 0 => arena[i].node \in Stops
        /\ arena[i].m.boarded <=> n >= 2
    BY <1>1, SpotIs
  <2> QED BY <2>1
<1> QED BY <1>2, <1>4, <1>5

LEMMA PopCovers ==
    ASSUME KInv, Covered, Pop
    PROVE  Covered'
<1>0. PICK i : i = Head(current)
  OBVIOUS
<1> DEFINE idle == \/ arena[i].targets = {}
                   \/ arena[i].node \notin Stops /\ arena[i].m.boarded
<1>1. /\ state \in {"advanced", "level"} /\ current # <<>>
      /\ UNCHANGED <<job, residual, next, kept>> /\ current' = Tail(current)
      /\ IF idle THEN state' = "level" /\ arena' = Release(arena, i)
         ELSE /\ state' = "scan" /\ expanding' = i /\ todo' = Successors(i)
              /\ UNCHANGED arena
  BY <1>0 DEF Pop
<1>2. /\ i \in Range(current) /\ Range(current) = {i} \cup Range(current')
  <2>1. current \in Seq(Nat) /\ Distinct(current)
    BY DEF KInv, JInv, IInv, Typing, Queued
  <2> QED BY <1>0, <1>1, <2>1, TailFacts
<1>3. i \in InHand /\ InHand \subseteq DOMAIN arena
  BY <1>2 DEF InHand, KInv, JInv, IInv, Queued
<1>4. SameArena
  <2>1. CASE arena' = Release(arena, i)
    BY <1>1, <1>3, <2>1, ReleaseRight DEF KInv, JInv
  <2>2. CASE UNCHANGED arena
    BY <1>1, <2>2, ArenaUnchanged DEF KInv, JInv, IInv
  <2> QED BY <1>1, <2>1, <2>2
<1> HIDE DEF idle
<1>5. ASSUME NEW slot \in DOMAIN kept, NEW p \in Sought(slot), Pending(slot, p)
      PROVE  Pending(slot, p)'
  <2>1. PICK k \in Range(current) \cup Range(next) : OnTheWay(k, slot, p)
    BY <1>1, <1>5 DEF Pending
  <2>2. k \in DOMAIN arena /\ slot \in DOMAIN job.slots
    <3>1. k \in DOMAIN arena
      BY <1>3 DEF InHand
    <3>2. slot \in DOMAIN job.slots
      BY <3>1, <2>1 DEF KInv, JInv, Afoot, Placed, OnTheWay
    <3> QED BY <3>1, <3>2
  <2>3. OnTheWay(k, slot, p)'
    BY <1>4, <2>1, <2>2, OnTheWayStays
  <2>4. CASE k # i
    <3>1. k \in Range(current') \cup Range(next')
      BY <1>1, <1>2, <2>4
    <3> QED BY <2>3, <3>1 DEF Pending
  <2>5. CASE k = i
    <3>1. ~idle /\ p[Len(PathTo(k)) + 1] \in Successors(k)
      BY <2>1, <2>2, <2>5, PendingIsSuccessor DEF idle
    <3>2. PathTo(k)' = PathTo(k)
      BY <1>4, <2>2, SamePaths DEF KInv, JInv, IInv
    <3>3. p[Len(PathTo(k)') + 1] \in todo' /\ state' = "scan" /\ k \in {expanding'}
      BY <1>1, <2>5, <3>1, <3>2
    <3> QED BY <2>3, <3>3 DEF Pending
  <2> QED BY <2>4, <2>5
<1> QED BY <1>1, <1>5, CoveredIf DEF TreeNext

LEMMA FinishCovers ==
    ASSUME KInv, Covered, FinishExpansion
    PROVE  Covered'
<1>1. /\ state = "scan" /\ arena' = Release(arena, expanding)
      /\ state' = IF todo = {} THEN "level" ELSE "stopped"
      /\ UNCHANGED <<job, residual, current, next, kept>>
  BY DEF FinishExpansion
<1>2. CASE todo # {}
  BY <1>1, <1>2 DEF Covered
<1>3. CASE todo = {}
  <2>1. expanding \in InHand /\ InHand \subseteq DOMAIN arena
    <3>1. expanding \in DOMAIN arena /\ expanding # None
      BY <1>1 DEF KInv, JInv, IInv, Typing, None
    <3> QED BY <3>1 DEF InHand, KInv, JInv, IInv, Queued
  <2>2. SameArena
    BY <1>1, <2>1, ReleaseRight DEF KInv, JInv
  <2>3. ASSUME NEW slot \in DOMAIN kept, NEW p \in Sought(slot), Pending(slot, p)
        PROVE  Pending(slot, p)'
    <3>1. PICK k \in Range(current) \cup Range(next) : OnTheWay(k, slot, p)
      BY <1>3, <2>3 DEF Pending
    <3>2. k \in DOMAIN arena
      BY <2>1 DEF InHand
    <3>3. OnTheWay(k, slot, p)'
      BY <2>2, <3>1, <3>2, OnTheWayStays
    <3> QED BY <1>1, <3>3 DEF Pending
  <2> QED BY <1>1, <2>3, CoveredIf DEF TreeNext
<1> QED BY <1>2, <1>3

LEMMA RestCovers ==
    ASSUME KInv, Covered, Cancel \/ Stop \/ AdvanceLevel \/ Exhaust \/ UNCHANGED tree_vars
    PROVE  Covered'
<1>1. CASE Stop
  <2>1. state' = "stopped"
    BY <1>1 DEF Stop
  <2> QED BY <2>1 DEF Covered
<1>2. CASE Cancel \/ AdvanceLevel \/ Exhaust \/ UNCHANGED tree_vars
  <2>1. /\ UNCHANGED <<job, residual, arena, expanding, todo, kept>>
        /\ Range(current') \cup Range(next') = Range(current) \cup Range(next)
        /\ \/ state' = state
           \/ state = "level" /\ state' \in {"advanced", "exhausted"}
    <3>1. CASE Cancel
      BY <3>1 DEF Cancel
    <3>2. CASE AdvanceLevel
      BY <3>2 DEF AdvanceLevel
    <3>3. CASE Exhaust
      BY <3>3 DEF Exhaust
    <3>4. CASE UNCHANGED tree_vars
      BY <3>4 DEF tree_vars
    <3> QED BY <1>2, <3>1, <3>2, <3>3, <3>4
  <2>2. ASSUME NEW slot \in DOMAIN kept, NEW p \in Sought(slot), Pending(slot, p)
        PROVE  Pending(slot, p)'
    <3>1. \A i : OnTheWay(i, slot, p)' <=> OnTheWay(i, slot, p)
      BY <2>1 DEF OnTheWay, PathTo, Begins
    <3>2. \A i : PathTo(i)' = PathTo(i)
      BY <2>1 DEF PathTo
    <3>3. state' = "scan" <=> state = "scan"
      BY <2>1
    <3> QED BY <2>1, <2>2, <3>1, <3>2, <3>3 DEF Pending
  <2>3. [TreeNext]_tree_vars /\ job' = job /\ DOMAIN kept' = DOMAIN kept
    BY <1>2, <2>1 DEF TreeNext
  <2>4. CASE state \in {"level", "advanced", "scan", "exhausted"}
    BY <2>2, <2>3, <2>4, CoveredIf
  <2>5. CASE state \notin {"level", "advanced", "scan", "exhausted"}
    BY <2>1, <2>5 DEF Covered
  <2> QED BY <2>4, <2>5
<1> QED BY <1>1, <1>2

\* In the midst of an expansion: what is pending elsewhere is so still, and
\* what is pending here is so unless its leg is the one that is tried.
LEMMA ScanLeaves ==
    ASSUME KInv, state = "scan", NEW leg \in todo, todo' = todo \ {leg},
           UNCHANGED <<job, residual, state, expanding>>,
           \A k \in DOMAIN arena :
              PathTo(k)' = PathTo(k) /\ arena'[k].tasks = arena[k].tasks,
           Range(current) \cup Range(next) \subseteq Range(current') \cup Range(next'),
           NEW slot, NEW p, Pending(slot, p)
    PROVE  \/ Pending(slot, p)'
           \/ /\ slot \in DOMAIN job.slots /\ expanding \in DOMAIN arena
              /\ OnTheWay(expanding, slot, p)
              /\ p[Len(PathTo(expanding)) + 1] = leg
<1>1. /\ InHand \subseteq DOMAIN arena /\ expanding \in DOMAIN arena
  BY DEF KInv, JInv, IInv, Queued, Typing
<1>2. ASSUME NEW k \in DOMAIN arena, OnTheWay(k, slot, p)
      PROVE  OnTheWay(k, slot, p)'
  BY <1>2 DEF OnTheWay, Begins
<1>3. CASE \E i \in Range(current) \cup Range(next) : OnTheWay(i, slot, p)
  <2>1. PICK i \in Range(current) \cup Range(next) : OnTheWay(i, slot, p)
    BY <1>3
  <2>2. i \in DOMAIN arena /\ i \in Range(current') \cup Range(next')
    BY <1>1 DEF InHand
  <2>3. OnTheWay(i, slot, p)'
    BY <1>2, <2>1, <2>2
  <2> QED BY <2>2, <2>3 DEF Pending
<1>4. ASSUME NEW i \in {expanding}, OnTheWay(i, slot, p),
             p[Len(PathTo(i)) + 1] \in todo
      PROVE  \/ Pending(slot, p)'
             \/ /\ slot \in DOMAIN job.slots /\ expanding \in DOMAIN arena
                /\ OnTheWay(expanding, slot, p)
                /\ p[Len(PathTo(expanding)) + 1] = leg
  <2>1. i \in DOMAIN arena /\ i \in {expanding'}
    BY <1>1
  <2>2. OnTheWay(i, slot, p)' /\ PathTo(i)' = PathTo(i)
    BY <1>2, <1>4, <2>1
  <2>3. CASE p[Len(PathTo(i)) + 1] # leg
    <3>1. p[Len(PathTo(i)') + 1] \in todo'
      BY <1>4, <2>2, <2>3
    <3> QED BY <2>1, <2>2, <3>1 DEF Pending
  <2>4. CASE p[Len(PathTo(i)) + 1] = leg
    <3>1. slot \in DOMAIN job.slots
      BY <1>4, <2>1 DEF KInv, JInv, Afoot, Placed, OnTheWay
    <3> QED BY <1>1, <1>4, <2>4, <3>1
  <2> QED BY <2>3, <2>4
<1> QED BY <1>3, <1>4 DEF Pending

\* A leg that is tried is the next of a path: it leads on along the path.
LEMMA TriedLeg ==
    ASSUME KInv, state = "scan", NEW leg \in todo, NEW slot \in DOMAIN job.slots,
           NEW p \in Sought(slot), OnTheWay(expanding, slot, p),
           p[Len(PathTo(expanding)) + 1] = leg
    PROVE  LET q == Append(PathTo(expanding), leg) IN
           /\ ~Cycles(leg) /\ Begins(q, p) /\ Len(q) = Len(PathTo(expanding)) + 1
           /\ Len(q) \in 1 .. Len(p)
           /\ leg.to \notin Stops <=> Len(q) = Len(p)
           /\ leg.to \notin Stops => q = p
           /\ \E t \in arena[expanding].targets : job.targets[t] = job.slots[slot].to
<1> DEFINE r == PathTo(expanding)
           n == Len(r)
           q == Append(r, leg)
<1>1. /\ expanding \in DOMAIN arena /\ job \in Batches /\ OpenPath(job, r)
  BY DEF KInv, JInv, IInv, Typing, Traced, BranchTraced
<1>2. /\ PathOf(job, p) /\ Allowed(job, p) /\ FewRides(p) /\ Ends(p)
      /\ p[Len(p)].to = job.slots[slot].to /\ Len(p) \in Nat /\ Len(p) # 0
  BY <1>1, SoughtFields
<1>3. /\ n \in 0 .. Len(p) - 1 /\ ~Revisits(Branch(expanding), leg)
      /\ \E t \in arena[expanding].targets : job.targets[t] = job.slots[slot].to
  BY <1>1, PendingIsSuccessor
<1>4. Allowed(job, r) /\ Begins(r, p)
  BY <1>1 DEF OpenPath, OnTheWay
<1>5. /\ leg \in job.network /\ Begins(q, p) /\ Len(q) = n + 1
  <2>1. n < Len(p)
    BY <1>2, <1>3
  <2> QED BY <1>1, <1>2, <1>4, <2>1, NextLegMayFollow
<1> HIDE DEF r, q
<1>6. Len(q) \in 1 .. Len(p) /\ n + 1 \in 1 .. Len(p)
  BY <1>2, <1>3, <1>5
<1>7. leg.to \notin Stops <=> Len(q) = Len(p)
  <2>1. n + 1 # Len(p) => n + 1 \in 1 .. Len(p) - 1
    BY <1>2, <1>6
  <2>2. n + 1 # Len(p) => p[n + 1].to \in Stops
    BY <1>2, <2>1 DEF PathOf
  <2>3. n + 1 = Len(p) => p[n + 1].to \notin Stops
    BY <1>2 DEF Ends
  <2> QED BY <1>5, <2>2, <2>3 DEF r
<1>8. leg.to \notin Stops => q = p
  <2> SUFFICES ASSUME leg.to \notin Stops
               PROVE  q = p
    OBVIOUS
  <2>1. q \in Seq(job.network)
    <3>1. r \in Seq(job.network)
      BY <1>4 DEF Allowed
    <3> QED BY <1>5, <3>1 DEF q
  <2>2. p \in Seq(job.network) /\ Len(q) = Len(p) /\ \A k \in 1 .. Len(q) : q[k] = p[k]
    BY <1>2, <1>5, <1>7 DEF Allowed, Begins
  <2> QED BY <2>1, <2>2, SameLegs
<1> QED BY <1>3, <1>5, <1>6, <1>7, <1>8 DEF Cycles, q, r

LEMMA RejectCovers ==
    ASSUME KInv, Covered, NEW leg \in todo, RejectStep(leg)
    PROVE  Covered'
<1>1. [TreeNext]_tree_vars
  BY DEF TreeNext, Visit
<1>2. /\ state = "scan" /\ todo' = todo \ {leg}
      /\ UNCHANGED <<job, residual, arena, expanding, current, next, kept>>
  BY DEF RejectStep, Visiting
<1>3. Cycles(leg) /\ state' = state
  BY OnlyCyclesAreRejected DEF KInv, JInv
<1>4. ASSUME NEW slot \in DOMAIN kept, NEW p \in Sought(slot), Pending(slot, p)
      PROVE  Pending(slot, p)'
  <2>1. \A k \in DOMAIN arena :
              PathTo(k)' = PathTo(k) /\ arena'[k].tasks = arena[k].tasks
    BY <1>2 DEF PathTo
  <2>2. Range(current) \cup Range(next) \subseteq Range(current') \cup Range(next')
    BY <1>2
  <2> QED BY <1>2, <1>3, <1>4, <2>1, <2>2, ScanLeaves, TriedLeg
<1> QED BY <1>1, <1>2, <1>4, CoveredIf

\* A path that is completed is settled.
LEMMA CompletedIsSettled ==
    ASSUME KInv, NEW leg \in todo, CompleteStep(leg), NEW slot \in DOMAIN job.slots,
           slot \in DOMAIN kept, NEW p \in Sought(slot), OnTheWay(expanding, slot, p),
           p[Len(PathTo(expanding)) + 1] = leg, job.allow_end_wait,
           state' # "failed"
    PROVE  Settled(slot, p)'
<1>1. PICK c : c = Connection(Candidate(leg))
  OBVIOUS
<1>2. /\ state = "scan" /\ ~Cycles(leg) /\ leg.to \notin Stops /\ UNCHANGED job
      /\ \A s \in DOMAIN kept :
           kept'[s] = IF s \in arena[expanding].tasks /\ job.slots[s].to = leg.to
                         /\ job.allow_end_wait
                      THEN Retained(s, c) ELSE kept[s]
  BY <1>1, CompleteIs
<1>3. c = Measured(Append(PathTo(expanding), leg))
  BY <1>1, <1>2, CandidateMeasured
<1>4. Append(PathTo(expanding), leg) = p
  BY <1>2, TriedLeg
<1>5. c = Measured(p) /\ p[Len(p)] = leg
  <2>1. leg.to \notin Stops <=> Len(Append(PathTo(expanding), leg)) = Len(p)
    BY <1>2, TriedLeg
  <2>2. Len(Append(PathTo(expanding), leg)) = Len(PathTo(expanding)) + 1
    BY <1>2, TriedLeg
  <2> QED BY <1>3, <1>4, <2>2
<1>6. kept'[slot] = Retained(slot, c)
  <2>1. leg.to = job.slots[slot].to
    BY <1>5 DEF Sought
  <2> QED BY <1>2, <2>1 DEF OnTheWay
<1>7. \/ ~Admissible(slot, c) \/ c \in kept'[slot]
      \/ \E k \in kept'[slot] : Complete!Dominates(job.direct_barred, k, c)
  BY <1>6, SMTT(30) DEF Retained
<1>8. Measured(p)' = c
  BY <1>5 DEF Measured, Rides, OnRides, Walking, Total
<1>9. ~Admissible(slot, c) => ~Admissible(slot, Measured(p))'
  BY <1>2, <1>8 DEF Admissible
<1>10. (\E k \in kept'[slot] : Complete!Dominates(job.direct_barred, k, c))
          => NoUse(job, kept[slot], Measured(p))'
  BY <1>2, <1>8 DEF NoUse, Complete!Dominates, Complete!CanDominate
<1> QED BY <1>7, <1>8, <1>9, <1>10 DEF Settled

LEMMA CompleteCovers ==
    ASSUME KInv, Covered, NEW leg \in todo, CompleteStep(leg)
    PROVE  Covered'
<1>1. [TreeNext]_tree_vars
  BY DEF TreeNext, Visit
<1>2. /\ state = "scan" /\ todo' = todo \ {leg} /\ ~Cycles(leg) /\ leg.to \notin Stops
      /\ UNCHANGED <<job, residual, arena, expanding, current, next>>
      /\ DOMAIN kept' = DOMAIN kept /\ state' \in {state, "failed"}
  BY CompleteIs
<1>4. CASE state' = "failed"
  BY <1>4 DEF Covered
<1>5. CASE state' # "failed"
  <2>1. ASSUME NEW slot \in DOMAIN kept, NEW p \in Sought(slot), Pending(slot, p),
               job.allow_end_wait
        PROVE  Pending(slot, p)' \/ Settled(slot, p)'
    <3>1. \A k \in DOMAIN arena :
                PathTo(k)' = PathTo(k) /\ arena'[k].tasks = arena[k].tasks
      BY <1>2 DEF PathTo
    <3>2. Range(current) \cup Range(next) \subseteq Range(current') \cup Range(next')
      BY <1>2
    <3>3. CASE /\ slot \in DOMAIN job.slots /\ expanding \in DOMAIN arena
               /\ OnTheWay(expanding, slot, p)
               /\ p[Len(PathTo(expanding)) + 1] = leg
      BY <1>5, <2>1, <3>3, CompletedIsSettled
    <3> QED BY <1>2, <1>5, <2>1, <3>1, <3>2, <3>3, ScanLeaves
  <2> QED BY <1>1, <1>2, <1>5, <2>1, CoveredIf
<1> QED BY <1>2, <1>4, <1>5

\* What is cut off where a path leads on has no use for the path's connection.
LEMMA CutIsOfNoUse ==
    ASSUME KInv, state = "scan", NEW leg \in todo, NEW slot \in DOMAIN job.slots,
           NEW p \in Sought(slot), OnTheWay(expanding, slot, p),
           p[Len(PathTo(expanding)) + 1] = leg, leg.to \in Stops
    PROVE  TargetsAhead(leg) # {} /\ (slot \in Hopeful(leg) \/ Settled(slot, p))
<1> DEFINE q == Append(PathTo(expanding), leg)
           x == Candidate(leg)
           d == job.slots[slot].to
<1>1. /\ job \in Batches /\ expanding \in DOMAIN arena
  BY DEF KInv, JInv, IInv, Typing
<1>2. /\ PathOf(job, p) /\ Allowed(job, p) /\ FewRides(p) /\ Ends(p)
      /\ p[Len(p)].to = d /\ Len(p) \in Nat /\ d \notin Stops
  BY <1>1, SoughtFields
<1>3. /\ ~Cycles(leg) /\ Begins(q, p) /\ Len(q) \in 1 .. Len(p)
      /\ \E t \in arena[expanding].targets : job.targets[t] = d
  BY TriedLeg
<1>4. Allowed(job, q) /\ Leads(q, x) /\ x.node \in Stops
  BY <1>3, CandidateLeads
<1> HIDE DEF q, x, d
<1>5. PICK at : /\ Along(p, at, Len(p)) /\ at[Len(p)].phase = "Completed"
                /\ at[Len(p)].node = p[Len(p)].to
                /\ Measured(p).dep = at[Len(p)].m.dep
                /\ Measured(p).arr = at[Len(p)].m.now
                /\ Measured(p).nt = at[Len(p)].m.nt
                /\ Measured(p).imp = at[Len(p)].m.imp
  BY <1>1, <1>2, WayOfPath
<1> DEFINE y == at[Len(p)]
<1>6. SameSpot(at[Len(q)], x)
  BY <1>1, <1>2, <1>3, <1>4, <1>5, LeadsIs
<1>7. Len(q) \in 0 .. Len(p)
  BY <1>3
<1>8. PICK m, on : /\ Journey(job.network, on, m) /\ on[0] = at[Len(q)]
                   /\ on[m] = at[Len(p)]
  BY <1>1, <1>2, <1>5, <1>7, RestIsJourney
<1>9. Arrives(x, d, y)
  <2>1. /\ SameSpot(on[0], x) /\ on[m].phase = "Completed" /\ on[m].node = d /\ on[m] = y
    BY <1>2, <1>5, <1>6, <1>8
  <2> QED BY <1>1, <1>2, <1>4, <1>8, <2>1, ArrivesAlike
<1> HIDE DEF y
<1>10. CutsAreSafe
  BY InvariantGivesSafeCuts DEF KInv
<1>11. TargetsAhead(leg) # {}
  <2>1. PICK t \in arena[expanding].targets : job.targets[t] = d
    BY <1>3
  <2>2. t \in ReachableTargets(x, arena[expanding].targets)
    BY <1>9, <1>10, <2>1 DEF CutsAreSafe, x
  <2> QED BY <2>2 DEF TargetsAhead, x
<1>12. /\ slot \in ReachableTasks(x, arena[expanding].tasks)
       /\ Hopeless(x, slot) => NoUse(job, kept[slot], Ended(y))
  BY <1>9, <1>10 DEF CutsAreSafe, OnTheWay, x, d
<1>13. CASE ~Hopeless(x, slot)
  <2>1. slot \in Hopeful(leg)
    BY <1>12, <1>13 DEF Hopeful, x
  <2> QED BY <1>11, <2>1
<1>14. CASE Hopeless(x, slot)
  <2>1. NoUse(job, kept[slot], Ended(y))
    BY <1>12, <1>14
  <2>2. NoUse(job, kept[slot], Measured(p))
    BY <1>5, <2>1, EndedFields, NoUseAlike DEF y
  <2> QED BY <1>11, <2>2 DEF Settled
<1> QED BY <1>13, <1>14

LEMMA CutIsSettled ==
    ASSUME KInv, state = "scan", NEW leg \in todo, NEW slot \in DOMAIN job.slots,
           NEW p \in Sought(slot), OnTheWay(expanding, slot, p),
           p[Len(PathTo(expanding)) + 1] = leg, leg.to \in Stops,
           job.plan = "disabled"
    PROVE  slot \in TasksAhead(leg) \/ Settled(slot, p)
<1>1. TargetsAhead(leg) # {} /\ (slot \in Hopeful(leg) \/ Settled(slot, p))
  BY CutIsOfNoUse
<1>2. Wanted(leg)
  BY <1>1 DEF Wanted, Retains
<1> QED BY <1>1, <1>2 DEF TasksAhead, Retains

LEMMA ContinueCovers ==
    ASSUME KInv, Covered, NEW leg \in todo, ContinueStep(leg)
    PROVE  Covered'
<1>1. [TreeNext]_tree_vars
  BY DEF TreeNext, Visit
<1>2. /\ state = "scan" /\ todo' = todo \ {leg} /\ ~Cycles(leg) /\ leg.to \in Stops
      /\ UNCHANGED <<job, state, residual, expanding, kept>>
      /\ IF TasksAhead(leg) = {} THEN UNCHANGED <<arena, current, next>>
         ELSE Queueing(leg, TasksAhead(leg), TargetsLeft(leg))
  BY ContinueIs DEF Visiting
<1>3. current \in Seq(Nat) /\ next \in Seq(Nat)
  BY DEF KInv, JInv, IInv, Typing
<1>4. ASSUME NEW slot \in DOMAIN kept, NEW p \in Sought(slot), Pending(slot, p),
             job.plan = "disabled"
      PROVE  Pending(slot, p)' \/ Settled(slot, p)'
  <2>1. CASE TasksAhead(leg) = {}
    <3>1. \A k \in DOMAIN arena :
                PathTo(k)' = PathTo(k) /\ arena'[k].tasks = arena[k].tasks
      BY <1>2, <2>1 DEF PathTo
    <3>2. Range(current) \cup Range(next) \subseteq Range(current') \cup Range(next')
      BY <1>2, <2>1
    <3>3. \/ Pending(slot, p)'
          \/ /\ slot \in DOMAIN job.slots /\ expanding \in DOMAIN arena
             /\ OnTheWay(expanding, slot, p)
             /\ p[Len(PathTo(expanding)) + 1] = leg
      BY <1>2, <1>4, <3>1, <3>2, ScanLeaves
    <3>4. Pending(slot, p)' \/ Settled(slot, p)
      BY <1>2, <1>4, <2>1, <3>3, CutIsSettled
    <3> QED BY <1>1, <1>2, <3>4, SettledStays
  <2>2. CASE TasksAhead(leg) # {}
    <3> DEFINE q == Append(PathTo(expanding), leg)
               b == OffspringOf(leg, TasksAhead(leg), TargetsLeft(leg))
    <3>0. PICK n : n = Len(arena) + 1
      OBVIOUS
    <3>1. /\ Len(arena') = n /\ n \in Nat
          /\ arena'[n] = b /\ b.tasks = TasksAhead(leg)
          /\ PathIn(arena', n) = q
          /\ \A k \in DOMAIN arena :
               SameBranch(arena[k], arena'[k]) /\ PathTo(k)' = PathTo(k)
      <4>1. Len(arena) \in Nat
        <5>1. arena \in Seq(BranchType)
          BY DEF KInv, JInv, IInv, Typing
        <5> QED BY <5>1
      <4> QED BY <2>2, <3>0, <4>1, BirthIsTraced
    <3> HIDE DEF b, q
    <3>2. \A k \in DOMAIN arena :
                PathTo(k)' = PathTo(k) /\ arena'[k].tasks = arena[k].tasks
      BY <3>1 DEF SameBranch
    <3>3. /\ n \in Range(current') \cup Range(next')
          /\ Range(current) \cup Range(next) \subseteq Range(current') \cup Range(next')
      <4>1. \/ current' = Append(current, n) /\ next' = next
            \/ current' = current /\ next' = Append(next, n)
        BY <1>2, <2>2, <3>1 DEF Queueing
      <4>2. /\ Range(Append(current, n)) = Range(current) \cup {n}
            /\ Range(Append(next, n)) = Range(next) \cup {n}
        BY <1>3, <3>1, AppendFacts
      <4> QED BY <4>1, <4>2
    <3>4. CASE /\ slot \in DOMAIN job.slots /\ expanding \in DOMAIN arena
               /\ OnTheWay(expanding, slot, p)
               /\ p[Len(PathTo(expanding)) + 1] = leg
      <4>1. slot \in TasksAhead(leg) \/ Settled(slot, p)
        BY <1>2, <1>4, <3>4, CutIsSettled
      <4>2. CASE slot \in TasksAhead(leg)
        <5>1. Begins(q, p)
          BY <1>2, <3>4, TriedLeg DEF q
        <5>2. PathTo(n)' = q
          BY <3>1 DEF PathTo, PathIn
        <5>3. OnTheWay(n, slot, p)'
          BY <3>1, <4>2, <5>1, <5>2 DEF OnTheWay, Begins
        <5> QED BY <3>3, <5>3 DEF Pending
      <4>3. CASE Settled(slot, p)
        BY <1>1, <1>2, <4>3, SettledStays
      <4> QED BY <4>1, <4>2, <4>3
    <3> QED BY <1>2, <1>4, <3>2, <3>3, <3>4, ScanLeaves
  <2> QED BY <2>1, <2>2
<1> QED BY <1>1, <1>2, <1>4, CoveredIf

LEMMA StepsCover ==
    ASSUME KInv, Covered, [TreeNext]_tree_vars
    PROVE  Covered'
<1>1. CASE Prepare
  BY <1>1, PrepareCovers
<1>2. CASE Cancel \/ Stop \/ AdvanceLevel \/ Exhaust \/ UNCHANGED tree_vars
  BY <1>2, RestCovers
<1>3. CASE Pop
  BY <1>3, PopCovers
<1>4. ASSUME NEW leg \in todo, RejectStep(leg)
      PROVE  Covered'
  BY <1>4, RejectCovers
<1>5. ASSUME NEW leg \in todo, CompleteStep(leg)
      PROVE  Covered'
  BY <1>5, CompleteCovers
<1>6. ASSUME NEW leg \in todo, ContinueStep(leg)
      PROVE  Covered'
  BY <1>6, ContinueCovers
<1>7. CASE FinishExpansion
  BY <1>7, FinishCovers
<1> QED BY <1>1, <1>2, <1>3, <1>4, <1>5, <1>6, <1>7 DEF TreeNext, Visit

\* In a tree without pruning, at every moment: each path the timetable has to
\* a slot's zone is settled, or a branch in hand is on its way along it, with
\* the slot among its tasks.
THEOREM NoPathIsLost == TreeSpec => []Covered
<1>1. TreeInit => Covered
  BY DEF TreeInit, Covered
<1>2. KInv /\ Covered /\ [TreeNext]_tree_vars => Covered'
  BY StepsCover
<1> QED BY <1>1, <1>2, TracesInvariant, PTL DEF TreeSpec

------------------------------------------------------------------------------
(* A tree that has run to its end has nothing in hand any more.             *)

Drained == state = "exhausted" => Range(current) = {} /\ Range(next) = {}

LEMMA StepsDrain ==
    ASSUME Typing, Drained, [TreeNext]_tree_vars
    PROVE  Drained'
<1>1. \/ state' # "exhausted"
      \/ UNCHANGED <<state, current, next>>
      \/ Exhaust
  <2>1. CASE UNCHANGED tree_vars
    BY <2>1 DEF tree_vars
  <2>2. CASE Prepare \/ Cancel \/ Stop \/ AdvanceLevel \/ Pop \/ FinishExpansion
    BY <2>2 DEF Prepare, Cancel, Stop, AdvanceLevel, Pop, FinishExpansion
  <2>3. ASSUME NEW leg \in todo,
               RejectStep(leg) \/ CompleteStep(leg) \/ ContinueStep(leg)
        PROVE  state' \in {"scan", "failed"}
    BY <2>3 DEF RejectStep, CompleteStep, ContinueStep, Visiting
  <2> QED BY <2>1, <2>2, <2>3 DEF TreeNext, Visit
<1>2. CASE UNCHANGED <<state, current, next>>
  BY <1>2 DEF Drained, Range
<1>3. CASE Exhaust
  <2>1. current \in Seq(Nat) /\ next \in Seq(Nat)
    BY DEF Typing
  <2>2. current \o next = <<>> /\ current' = current /\ next' = next
    BY <1>3 DEF Exhaust
  <2>3. Len(current) + Len(next) = 0
    BY <2>1, <2>2
  <2>4. DOMAIN current = {} /\ DOMAIN next = {}
    BY <2>1, <2>3
  <2> QED BY <2>2, <2>4 DEF Drained, Range
<1> QED BY <1>1, <1>2, <1>3 DEF Drained

THEOREM NothingIsInHand == TreeSpec => []Drained
<1>1. TreeInit => Drained
  BY DEF TreeInit, Drained
<1>2. KInv /\ Drained /\ [TreeNext]_tree_vars => Drained'
  BY StepsDrain DEF KInv, JInv, IInv
<1> QED BY <1>1, <1>2, TracesInvariant, PTL DEF TreeSpec

------------------------------------------------------------------------------
(* What is on offer, in terms of paths.                                     *)

LEMMA OfferedAre ==
    ASSUME job \in Batches, NEW c
    PROVE  c \in Offered <=> \E p \in Seq(job.network) :
                /\ PathOf(job, p) /\ FewRides(p) /\ Ends(p) /\ c = Measured(p)
<1>1. Offered = {Measured(p) : p \in CompletePaths(Timetable(job))}
  BY DEF Offered, Offers
<1>2. CompletePaths(Timetable(job)) =
        {p \in LegalPaths(Timetable(job)) : p[Len(p)].to \notin Stops}
  BY DEF CompletePaths
<1>3. LegalPaths(Timetable(job)) =
        {p \in Seq(job.network) : Legal(Timetable(job), p) /\ Len(p) # 0}
  BY LegalPathsAre
<1>4. \A p \in Seq(job.network) :
        Legal(Timetable(job), p) <=> PathOf(job, p) /\ FewRides(p)
  BY LegalIs DEF FewRides
<1>5. CompletePaths(Timetable(job)) =
        {p \in Seq(job.network) : PathOf(job, p) /\ FewRides(p) /\ Ends(p)}
  BY <1>2, <1>3, <1>4 DEF Ends
<1> QED BY <1>1, <1>5

LEMMA PathOfMeasured ==
    ASSUME NEW p
    PROVE  Measured(p).path = p
BY DEF Measured

LEMMA OfferedToIs ==
    ASSUME job \in Batches, NEW slot \in DOMAIN job.slots, NEW c
    PROVE  c \in OfferedTo(slot)
             <=> Admissible(slot, c) /\ \E p \in Sought(slot) : c = Measured(p)
<1>1. ASSUME c \in OfferedTo(slot)
      PROVE  Admissible(slot, c) /\ \E p \in Sought(slot) : c = Measured(p)
  <2>1. /\ c \in Offered /\ c.path[Len(c.path)].to = job.slots[slot].to
        /\ Admissible(slot, c)
    BY <1>1 DEF OfferedTo
  <2>2. PICK p \in Seq(job.network) :
            /\ PathOf(job, p) /\ FewRides(p) /\ Ends(p) /\ c = Measured(p)
    BY <2>1, OfferedAre
  <2>3. c.path = p
    BY <2>2, PathOfMeasured
  <2> QED BY <2>1, <2>2, <2>3 DEF Sought
<1>2. ASSUME Admissible(slot, c), NEW p \in Sought(slot), c = Measured(p)
      PROVE  c \in OfferedTo(slot)
  <2>1. c \in Offered
    BY <1>2, OfferedAre DEF Sought
  <2>2. c.path = p /\ p[Len(p)].to = job.slots[slot].to
    BY <1>2, PathOfMeasured DEF Sought
  <2> QED BY <1>2, <2>1, <2>2 DEF OfferedTo
<1> QED BY <1>1, <1>2

\* A tree of demand tasks fails only by a connection on offer to one of its
\* slots' zones that starts before midnight, and no other tree fails at all:
\* no residual model and no branch the search has made is ever refused.
THEOREM OnlyEarlyStartsFail == TreeSpec => []FailsOnlyEarly
<1>1. TreeInit => FailsOnlyEarly
  BY DEF TreeInit, FailsOnlyEarly
<1>2. KInv /\ FailsOnlyEarly /\ [TreeNext]_tree_vars => FailsOnlyEarly'
  <2> SUFFICES ASSUME KInv, FailsOnlyEarly, [TreeNext]_tree_vars, state' = "failed"
               PROVE  FailsOnlyEarly'
    BY DEF FailsOnlyEarly
  <2>1. CASE UNCHANGED <<job, state>>
    BY <2>1 DEF FailsOnlyEarly, Offered, Timetable
  <2>2. ASSUME NEW leg \in todo, CompleteStep(leg), state # "failed"
        PROVE  FailsOnlyEarly'
    <3> DEFINE p == Append(PathTo(expanding), leg)
               c == Connection(Candidate(leg))
    <3>1. /\ state = "scan" /\ ~Cycles(leg) /\ leg.to \notin Stops /\ job' = job
          /\ job.kind = "demand_task" /\ c.dep < 0
          /\ \E s \in arena[expanding].tasks : job.slots[s].to = leg.to
      BY <2>2, CompleteIs
    <3>2. /\ p \in Seq(job.network) /\ PathOf(job, p) /\ FewRides(p) /\ Ends(p)
          /\ p[Len(p)].to = leg.to /\ c = Measured(p)
      BY <2>2, <3>1, CandidateMeasured
    <3> HIDE DEF p, c
    <3>3. c \in Offered /\ c.path = p
      <4>1. job \in Batches
        BY DEF KInv, JInv, IInv, Typing
      <4> QED BY <3>2, <4>1, OfferedAre, PathOfMeasured
    <3>4. arena[expanding].tasks \subseteq DOMAIN job.slots
      <4>1. expanding \in DOMAIN arena
        BY <3>1 DEF KInv, JInv, IInv, Typing
      <4> QED BY <4>1 DEF KInv, JInv, Afoot, Placed
    <3>5. Offered' = Offered
      BY <3>1 DEF Offered, Timetable
    <3> QED BY <3>1, <3>2, <3>3, <3>4, <3>5 DEF FailsOnlyEarly
  <2>3. ASSUME NEW leg \in todo, RejectStep(leg) \/ ContinueStep(leg)
        PROVE  UNCHANGED <<job, state>>
    <3>1. ASSUME RejectStep(leg) PROVE UNCHANGED <<job, state>>
      <4>1. state' = state
        BY <3>1, OnlyCyclesAreRejected DEF KInv, JInv
      <4> QED BY <3>1, <4>1 DEF RejectStep
    <3>2. ASSUME ContinueStep(leg) PROVE UNCHANGED <<job, state>>
      BY <3>2 DEF ContinueStep
    <3> QED BY <2>3, <3>1, <3>2
  <2>4. ~Prepare
    <3>1. ASSUME Prepare PROVE FALSE
      BY <3>1, PrepareSucceeds DEF KInv, JInv
    <3> QED BY <3>1
  <2>5. CASE Cancel \/ Stop \/ AdvanceLevel \/ Pop \/ FinishExpansion \/ Exhaust
             \/ UNCHANGED tree_vars
    <3>1. UNCHANGED <<job, state>>
      BY <2>5 DEF Cancel, Stop, AdvanceLevel, Pop, FinishExpansion, Exhaust, tree_vars
    <3> QED BY <2>1, <3>1
  <2>6. ASSUME NEW leg \in todo, CompleteStep(leg)
        PROVE  state # "failed"
    BY <2>6 DEF CompleteStep, Visiting
  <2> QED BY <2>1, <2>2, <2>3, <2>4, <2>5, <2>6 DEF TreeNext, Visit
<1> QED BY <1>1, <1>2, TracesInvariant, PTL DEF TreeSpec

------------------------------------------------------------------------------
(* No connection on offer takes less than no time or costs less than        *)
(* nothing, so that there are best ones among them.                         *)

LEMMA NothingIsNegative ==
    ASSUME NEW j \in Batches, NEW p, PathOf(j, p), FewRides(p), Ends(p)
    PROVE  /\ Weighed(Measured(p))
           /\ Measured(p).arr - Measured(p).dep \in Nat /\ Measured(p).imp \in Nat
<1> DEFINE d == p[Len(p)].to
           states == ReachableStates(ReverseGraph(j.network), d)
           ways == WaysOn(ReverseGraph(j.network), states)
           c == Measured(p)
<1>1. Allowed(j, p) /\ Len(p) \in Nat /\ 0 \in 0 .. Len(p)
  <2>1. Allowed(j, p)
    BY DEF PathOf
  <2> QED BY <2>1, PathFields
<1>2. Weighed(c) /\ d \notin Stops
  BY WayOfPath
<1>3. PICK at : /\ Along(p, at, Len(p)) /\ at[Len(p)].phase = "Completed"
                /\ at[Len(p)].node = p[Len(p)].to
                /\ Measured(p).dep = at[Len(p)].m.dep
                /\ Measured(p).arr = at[Len(p)].m.now
                /\ Measured(p).nt = at[Len(p)].m.nt
                /\ Measured(p).imp = at[Len(p)].m.imp
  BY WayOfPath
<1>4. PICK n, on : Journey(j.network, on, n) /\ on[0] = at[0] /\ on[n] = at[Len(p)]
  BY <1>1, <1>3, RestIsJourney
<1>5. on[0] = Start /\ Standing(on[0])
  BY <1>3, <1>4, StartIsAt DEF Along
<1>6. /\ MaskKey(on[0]) \in states
      /\ \A x \in Criteria : Bounded(x, states, ways, d, on[0], on[n])
  <2> HIDE DEF d
  <2> QED BY <1>2, <1>3, <1>4, <1>5, JourneyIsBounded DEF d
<1>7. \A x \in Criteria : Distances(x, ways, d, states)[MaskKey(on[0])] \in Nat
  <2>1. StatesRight(ReverseGraph(j.network), d, states)
    BY <1>2, ReachableStatesAreRight
  <2> QED BY <1>2, <1>6, <2>1, DistancesAreNat
<1> HIDE DEF d, states, ways
<1> DEFINE jt == Distances("jt", ways, d, states)[MaskKey(on[0])]
           imp == Distances("imp", ways, d, states)[MaskKey(on[0])]
<1>8. /\ Metrics(Root.m)["jt"] + jt <= Metrics(on[n].m)["jt"] /\ jt \in Nat
      /\ Metrics(Root.m)["imp"] + imp <= Metrics(on[n].m)["imp"] /\ imp \in Nat
  <2>1. on[0].m = Root.m
    BY <1>5, StartIsAt
  <2>2. "jt" \in Criteria /\ "imp" \in Criteria
    BY DEF Criteria
  <2> QED BY <1>6, <1>7, <2>1, <2>2 DEF Bounded
<1>9. Metrics(Root.m)["jt"] = 0 /\ Metrics(Root.m)["imp"] = 0
  <2>1. Root.m \in Travelled /\ ~Root.m.boarded /\ Root.m.access = 0 /\ Root.m.imp = 0
    BY DEF Root, Travelled
  <2> QED BY <2>1, MetricsFields
<1>10. Standing(on[n])
  <2>1. n \in 0 .. n
    BY <1>4 DEF Journey
  <2> QED BY <1>4, <1>5, <2>1, JourneyStands
<1>11. on[n].m \in Travelled /\ on[n].m.boarded
  BY <1>3, <1>4, <1>10 DEF Standing
<1>12. /\ Metrics(on[n].m)["jt"] = on[n].m.now - on[n].m.dep
       /\ Metrics(on[n].m)["imp"] = on[n].m.imp
  BY <1>11, MetricsFields
<1>13. /\ c.dep \in Int /\ c.arr \in Int /\ c.imp \in Int
       /\ Metrics(on[n].m)["jt"] = c.arr - c.dep /\ Metrics(on[n].m)["imp"] = c.imp
  BY <1>2, <1>3, <1>4, <1>12 DEF Weighed
<1> HIDE DEF c, jt, imp
<1>14. jt <= c.arr - c.dep /\ imp <= c.imp
  BY <1>8, <1>9, <1>13
<1>15. c.arr - c.dep \in Nat /\ c.imp \in Nat
  BY <1>8, <1>13, <1>14
<1> QED BY <1>2, <1>15 DEF c

Burden(c) == (c.arr - c.dep) + c.nt + c.imp

LEMMA OfferedWeigh ==
    ASSUME job \in Batches, NEW slot \in DOMAIN job.slots, NEW c \in OfferedTo(slot)
    PROVE  Weighed(c) /\ Burden(c) \in Nat
<1>1. PICK p \in Sought(slot) : c = Measured(p)
  BY OfferedToIs
<1>2. PathOf(job, p) /\ FewRides(p) /\ Ends(p)
  BY DEF Sought
<1>3. Weighed(c) /\ c.arr - c.dep \in Nat /\ c.imp \in Nat
  BY <1>1, <1>2, NothingIsNegative
<1> QED BY <1>3 DEF Burden, Weighed

LEMMA DominatingWeighsLess ==
    ASSUME NEW barred, NEW a, NEW b, Weighed(a), Weighed(b),
           Complete!Dominates(barred, a, b)
    PROVE  Burden(a) < Burden(b)
BY DEF Weighed, Complete!Dominates, Burden

\* Whatever is on offer to a slot, one of the best is it or dominates it.
LEMMA BestBelow ==
    ASSUME job \in Batches, NEW slot \in DOMAIN job.slots, NEW c \in OfferedTo(slot)
    PROVE  \E l \in Undominated(OfferedTo(slot)) :
                l = c \/ Complete!Dominates(job.direct_barred, l, c)
<1> DEFINE Below == {l \in OfferedTo(slot) :
                        l = c \/ Complete!Dominates(job.direct_barred, l, c)}
           Burdens == {Burden(l) : l \in Below}
<1>1. \A l \in OfferedTo(slot) : Weighed(l) /\ Burden(l) \in Nat
  BY OfferedWeigh
<1>2. Burdens \in SUBSET Nat /\ Burdens # {}
  <2>1. c \in Below
    OBVIOUS
  <2> QED BY <1>1, <2>1
<1>3. PICK l \in Below : \A k \in Below : Burden(l) <= Burden(k)
  <2>1. PICK n \in Burdens : \A k \in Burdens : n <= k
    <3> HIDE DEF Burdens
    <3> QED BY <1>2, LeastNumber
  <2> QED BY <2>1
<1>4. ASSUME NEW d \in OfferedTo(slot), Complete!Dominates(job.direct_barred, d, l)
      PROVE  FALSE
  <2>1. l = c \/ Complete!Dominates(job.direct_barred, l, c)
    BY <1>3
  <2>2. Complete!Dominates(job.direct_barred, d, c)
    BY <1>1, <1>3, <1>4, <2>1, DominanceOrders
  <2>3. Burden(l) <= Burden(d)
    BY <1>3, <2>2
  <2>4. Burden(d) < Burden(l)
    BY <1>1, <1>3, <1>4, DominatingWeighsLess
  <2>5. Burden(d) \in Nat /\ Burden(l) \in Nat
    BY <1>1, <1>3
  <2> QED BY <2>3, <2>4, <2>5
<1>5. l \in Undominated(OfferedTo(slot))
  BY <1>3, <1>4 DEF Undominated
<1> QED BY <1>3, <1>5

------------------------------------------------------------------------------
(* What a slot has kept when the tree is done.                              *)

Done == KInv /\ Covered /\ Drained /\ Reported /\ state = "exhausted"

LEMMA DoneFacts ==
    ASSUME Done, NEW slot \in DOMAIN job.slots
    PROVE  /\ job \in Batches /\ DOMAIN kept = DOMAIN job.slots
           /\ residual = Residual(job.network, Range(job.targets))
           /\ Kept(job, kept[slot]) /\ KeptFrom(slot, kept[slot])
<1>1. job \in Batches /\ SlotsRight /\ AllKeptFrom /\ Prepared
  BY DEF Done, KInv, JInv, IInv, Typing, Prepared
<1> QED BY <1>1 DEF SlotsRight, AllKeptFrom

LEMMA KeptIsOffered ==
    ASSUME Done, NEW slot \in DOMAIN job.slots
    PROVE  kept[slot] \subseteq OfferedTo(slot) /\ kept[slot] = Undominated(kept[slot])
<1>1. kept[slot] \subseteq OfferedTo(slot)
  BY DoneFacts, OfferedToIs DEF KeptFrom
<1>2. kept[slot] = Undominated(kept[slot])
  BY DoneFacts DEF Kept, IsFront, Undominated
<1> QED BY <1>1, <1>2

\* Without pruning on the way, what is on offer to a slot is kept, or the slot
\* has no use for it.
LEMMA OfferedIsSettled ==
    ASSUME Done, NEW slot \in DOMAIN job.slots, job.plan = "disabled",
           job.allow_end_wait, NEW c \in OfferedTo(slot)
    PROVE  c \in kept[slot] \/ NoUse(job, kept[slot], c)
<1>1. job \in Batches /\ slot \in DOMAIN kept
  BY DoneFacts
<1>2. PICK p \in Sought(slot) : c = Measured(p) /\ Admissible(slot, c)
  BY <1>1, OfferedToIs
<1>3. Settled(slot, p) \/ Pending(slot, p)
  BY <1>1 DEF Done, Covered
<1>4. ~Pending(slot, p)
  BY DEF Done, Drained, Pending
<1> QED BY <1>2, <1>3, <1>4 DEF Settled

LEMMA AllTheBestAreKept ==
    ASSUME Done, NEW slot \in DOMAIN job.slots
    PROVE  KeptExactly(slot)
<1>1. CASE ~job.allow_end_wait
  BY <1>1, DoneFacts DEF KeptFrom, KeptExactly
<1>2. CASE job.allow_end_wait
  <2> DEFINE S == kept[slot]
             O == OfferedTo(slot)
  <2>1. S \subseteq O /\ S = Undominated(S)
    BY KeptIsOffered
  <2>2. ASSUME job.rollout = "exact_only", job.plan = "disabled"
        PROVE  S = Undominated(O)
    <3>1. \A c \in O : Weighed(c)
      BY DoneFacts, OfferedWeigh
    <3>2. \A c \in O : \/ c \in S
                       \/ \E k \in S : Complete!Dominates(job.direct_barred, k, c)
      BY <1>2, <2>2, OfferedIsSettled DEF NoUse
    <3>3. \A k, c \in S : ~Complete!Dominates(job.direct_barred, k, c)
      BY DoneFacts DEF Kept, IsFront
    <3> HIDE DEF S, O
    <3>4. ASSUME NEW c \in S, NEW d \in O, Complete!Dominates(job.direct_barred, d, c)
          PROVE  FALSE
      <4>1. CASE d \in S
        BY <3>3, <3>4, <4>1
      <4>2. CASE d \notin S
        <5>1. PICK k \in S : Complete!Dominates(job.direct_barred, k, d)
          BY <3>2, <4>2
        <5>2. Complete!Dominates(job.direct_barred, k, c)
          BY <2>1, <3>1, <3>4, <5>1, DominanceOrders
        <5> QED BY <3>3, <5>2
      <4> QED BY <4>1, <4>2
    <3>5. S \subseteq Undominated(O)
      BY <2>1, <3>4 DEF Undominated
    <3>6. Undominated(O) \subseteq S
      BY <2>1, <3>2 DEF Undominated
    <3> QED BY <3>5, <3>6
  <2> QED BY <1>2, <2>1, <2>2 DEF KeptExactly
<1> QED BY <1>1, <1>2

\* A connection tolerable beside the best is tolerable beside all on offer.
LEMMA TolerableOfAll ==
    ASSUME job \in Batches, NEW slot \in DOMAIN job.slots, NEW c \in OfferedTo(slot),
           Complete!Within(c, Undominated(OfferedTo(slot)))
    PROVE  \A k \in OfferedTo(slot) : ~Exceeds(c, k)
<1> DEFINE best == Undominated(OfferedTo(slot))
<1>1. \A l \in OfferedTo(slot) : Weighed(l)
  BY OfferedWeigh
<1>2. best \subseteq OfferedTo(slot)
  BY DEF Undominated
<1>3. \A l \in best : ~Exceeds(c, l)
  <2>1. Complete!Within(c, best) /\ Weighed(c) /\ \A l \in best : Weighed(l)
    BY <1>1, <1>2
  <2> HIDE DEF best
  <2> QED BY <2>1, WithinIs
<1>4. ASSUME NEW k \in OfferedTo(slot), Exceeds(c, k)
      PROVE  FALSE
  <2>1. PICK l \in best : l = k \/ Complete!Dominates(job.direct_barred, l, k)
    BY BestBelow
  <2> HIDE DEF best
  <2>2. Exceeds(c, l)
    BY <1>1, <1>2, <1>4, <2>1, ExceedsMore
  <2> QED BY <1>3, <2>2
<1> QED BY <1>4

LEMMA AllTolerableAreFound ==
    ASSUME Done, NEW slot \in DOMAIN job.slots
    PROVE  TolerableFound(slot)
<1> DEFINE best == Undominated(OfferedTo(slot))
           tolerable == {c \in best : Complete!Within(c, best)}
<1>1. /\ job \in Batches /\ slot \in DOMAIN kept /\ kept[slot] \subseteq OfferedTo(slot)
      /\ IsFiniteSet(kept[slot])
      /\ \A c \in OfferedTo(slot) : Weighed(c)
  BY DoneFacts, KeptIsOffered, OfferedWeigh DEF KeptFrom
<1>2. ASSUME job.allow_end_wait, job.plan = "disabled", NEW c \in tolerable
      PROVE  c \in Final(slot)
  <2>1. /\ c \in OfferedTo(slot) /\ Complete!Within(c, best)
        /\ \A k \in OfferedTo(slot) : ~Complete!Dominates(job.direct_barred, k, c)
    BY <1>2 DEF Undominated
  <2>2. \A k \in kept[slot] : ~Exceeds(c, k)
    BY <1>1, <2>1, TolerableOfAll
  <2>3. Complete!Within(c, kept[slot])
    BY <1>1, <2>1, <2>2, WithinIs
  <2>4. c \in kept[slot]
    <3>1. ~NoUse(job, kept[slot], c)
      BY <1>1, <2>1, <2>3 DEF NoUse
    <3> QED BY <1>2, <2>1, <3>1, OfferedIsSettled
  <2> QED BY <2>3, <2>4 DEF Final
<1>3. found[slot] = IF job.kind = "completion_target" THEN Cardinality(Final(slot))
                    ELSE Final(slot)
  <2>1. found = [s \in DOMAIN kept |->
                    IF job.kind = "completion_target" THEN Cardinality(Final(s))
                    ELSE Final(s)]
    BY DEF Done, Reported
  <2> QED BY <1>1, <2>1
<1>4. Final(slot) \subseteq kept[slot]
  BY DEF Final
<1> HIDE DEF tolerable
<1>5. ASSUME job.allow_end_wait, job.plan = "disabled"
      PROVE  /\ tolerable \subseteq Final(slot)
             /\ Cardinality(Final(slot)) >= Cardinality(tolerable)
  <2>1. tolerable \subseteq Final(slot)
    BY <1>2, <1>5
  <2>2. IsFiniteSet(Final(slot)) /\ IsFiniteSet(tolerable)
    BY <1>1, <1>4, <2>1, FS_Subset
  <2>3. Cardinality(tolerable) <= Cardinality(Final(slot))
    BY <2>1, <2>2, FS_Subset
  <2>4. Cardinality(tolerable) \in Nat /\ Cardinality(Final(slot)) \in Nat
    BY <2>2, FS_CardinalityType
  <2> QED BY <2>1, <2>3, <2>4
<1>6. job.allow_end_wait /\ job.plan = "disabled" =>
        IF job.kind = "completion_target" THEN found[slot] >= Cardinality(tolerable)
        ELSE tolerable \subseteq found[slot]
  BY <1>3, <1>5
<1> QED BY <1>6 DEF TolerableFound, tolerable
------------------------------------------------------------------------------
(* Where every beginning of a connection leads, and the bounds of its rest. *)

SolvesPrefix(f, path, k) ==
    f = [n \in 0 .. k |->
            IF n = 0 THEN [node |-> Origin, phase |-> "AtOrigin", m |-> Root.m]
            ELSE [node |-> path[n].to, phase |-> NextPhase(f[n - 1], path[n]),
                  m |-> Extend(f[n - 1].m, path[n])]]

PrefixOf(path, k) == CHOOSE f : SolvesPrefix(f, path, k)

LEMMA PrefixIsAlong ==
    ASSUME NEW p, NEW n \in Nat, NEW at, Along(p, at, n), NEW k \in 0 .. n
    PROVE  PrefixOf(p, k)[k] = at[k]
<1> DEFINE g == [h \in 0 .. k |-> at[h]]
           f == PrefixOf(p, k)
<1>1. SolvesPrefix(g, p, k)
  <2>1. ASSUME NEW h \in 0 .. k
        PROVE  g[h] = IF h = 0 THEN [node |-> Origin, phase |-> "AtOrigin", m |-> Root.m]
                      ELSE [node |-> p[h].to, phase |-> NextPhase(g[h - 1], p[h]),
                            m |-> Extend(g[h - 1].m, p[h])]
    <3>1. CASE h = 0
      BY <3>1 DEF Along, Start
    <3>2. CASE h # 0
      <4>1. h \in 1 .. n /\ h - 1 \in 0 .. k
        BY <3>2
      <4>2. g[h] = at[h] /\ g[h - 1] = at[h - 1]
        BY <4>1
      <4>3. at[h] = Onward(at[h - 1], p[h])
        BY <4>1 DEF Along
      <4> HIDE DEF g
      <4> QED BY <3>2, <4>2, <4>3 DEF Onward
    <3> QED BY <3>1, <3>2
  <2>2. g = [h \in 0 .. k |-> g[h]]
    OBVIOUS
  <2> HIDE DEF g
  <2> QED BY <2>1, <2>2 DEF SolvesPrefix
<1>2. SolvesPrefix(f, p, k)
  <2>1. \E h : SolvesPrefix(h, p, k)
    BY <1>1
  <2> QED BY <2>1, Zenon DEF PrefixOf
<1> HIDE DEF f, g
<1>3. Along(p, f, k)
  <2>1. k \in Nat /\ 0 \in 0 .. k
    OBVIOUS
  <2>2. f[0] = Start
    BY <1>2, <2>1 DEF SolvesPrefix, Start
  <2>3. ASSUME NEW h \in 1 .. k
        PROVE  f[h] = Onward(f[h - 1], p[h])
    <3>1. h \in 0 .. k /\ h # 0
      BY <2>1
    <3>2. f[h] = [node |-> p[h].to, phase |-> NextPhase(f[h - 1], p[h]),
                  m |-> Extend(f[h - 1].m, p[h])]
      BY <1>2, <3>1 DEF SolvesPrefix
    <3> QED BY <3>2 DEF Onward
  <2> QED BY <2>2, <2>3 DEF Along
<1>4. Along(p, at, k) /\ k \in Nat
  BY AlongLess
<1>5. f[k] = at[k]
  BY <1>3, <1>4, SameWay
<1> QED BY <1>5 DEF f

\* What SuffixesAreBounded asks of where a beginning leads.
SuffixBounded(c, zone, x) ==
    LET bound == LowerBound(x, residual[zone].bounds[MaskKey(x)])
    IN  /\ Feasible(residual, zone, MaskKey(x))
        /\ bound.jt <= c.arr - c.dep /\ bound.nt <= c.nt /\ bound.imp <= c.imp
        /\ x.m.boarded => bound.arr <= c.arr

LEMMA SuffixesAre ==
    SuffixesAreBounded <=>
        \A c \in Offered :
            c.path[Len(c.path)].to \in DOMAIN residual =>
                \A k \in 1 .. Len(c.path) - 1 :
                    SuffixBounded(c, c.path[Len(c.path)].to, PrefixOf(c.path, k)[k])
BY DEF SuffixesAreBounded, SuffixBounded, After, PrefixOf, SolvesPrefix

LEMMA AllSuffixesAreBounded ==
    ASSUME job \in Batches, residual = Residual(job.network, Range(job.targets))
    PROVE  SuffixesAreBounded
<1> SUFFICES ASSUME NEW c \in Offered, c.path[Len(c.path)].to \in DOMAIN residual,
                    NEW k \in 1 .. Len(c.path) - 1
             PROVE  SuffixBounded(c, c.path[Len(c.path)].to, PrefixOf(c.path, k)[k])
  BY SuffixesAre
<1>1. PICK p \in Seq(job.network) :
          /\ PathOf(job, p) /\ FewRides(p) /\ Ends(p) /\ c = Measured(p)
  BY OfferedAre
<1> DEFINE d == p[Len(p)].to
<1>2. c.path = p /\ d \in DOMAIN residual /\ k \in 1 .. Len(p) - 1 /\ Len(p) \in Nat
  BY <1>1, PathOfMeasured
<1>3. d \in Range(job.targets)
  BY <1>2 DEF Residual
<1>4. PICK at : /\ Along(p, at, Len(p)) /\ at[Len(p)].phase = "Completed"
                /\ at[Len(p)].node = p[Len(p)].to
                /\ Measured(p).dep = at[Len(p)].m.dep
                /\ Measured(p).arr = at[Len(p)].m.now
                /\ Measured(p).nt = at[Len(p)].m.nt
                /\ Measured(p).imp = at[Len(p)].m.imp
  BY <1>1, WayOfPath
<1>5. k \in 0 .. Len(p) /\ Len(p) \in 0 .. Len(p)
  BY <1>2
<1>6. PrefixOf(p, k)[k] = at[k]
  BY <1>2, <1>4, <1>5, PrefixIsAlong
<1>7. Standing(at[k])
  BY <1>1, <1>4, <1>5, PathStands
<1>8. PICK m, on : Journey(job.network, on, m) /\ on[0] = at[k] /\ on[m] = at[Len(p)]
  BY <1>1, <1>4, <1>5, RestIsJourney
<1> DEFINE x == at[k]
           bound == LowerBound(x, residual[d].bounds[MaskKey(x)])
<1>9. /\ Feasible(residual, d, MaskKey(x))
      /\ BoundOf(x, bound, Ended(at[Len(p)]))
  BY <1>3, <1>4, <1>7, <1>8, NothingReachableIsCut
<1>10. /\ c.dep = Ended(at[Len(p)]).dep /\ c.arr = Ended(at[Len(p)]).arr
       /\ c.nt = Ended(at[Len(p)]).nt /\ c.imp = Ended(at[Len(p)]).imp
  BY <1>1, <1>4, EndedFields
<1>11. SuffixBounded(c, d, x)
  <2> HIDE DEF x, d
  <2>1. /\ bound.jt <= c.arr - c.dep /\ bound.nt <= c.nt /\ bound.imp <= c.imp
        /\ x.m.boarded => bound.arr <= c.arr
    <3> HIDE DEF bound
    <3> QED BY <1>9, <1>10 DEF BoundOf
  <2> QED BY <1>9, <2>1 DEF SuffixBounded
<1> QED BY <1>2, <1>6, <1>11

(***************************************************************************)
(* A tree that has run to its end has found what its timetable offers: what*)
(* a slot keeps is on offer and none of it turns out another; without      *)
(* pruning on the way it is all of the best, or, with tolerances, all that *)
(* is tolerable beside them; and no suffix was better than its bounds.     *)
(***************************************************************************)
THEOREM TreeFindsExactly == TreeSpec => []TreeIsExact
<1>1. TreeInit => Reported
  BY DEF TreeInit, Reported
<1>2. Reported /\ [TreeNext]_tree_vars => Reported'
  BY StepsReport
<1>3. KInv /\ Covered /\ Drained /\ Reported => TreeIsExact
  <2> SUFFICES ASSUME Done
               PROVE  /\ SuffixesAreBounded
                      /\ \A slot \in DOMAIN job.slots :
                            KeptExactly(slot) /\ TolerableFound(slot)
    BY DEF Done, TreeIsExact
  <2>1. job \in Batches /\ residual = Residual(job.network, Range(job.targets))
    BY DEF Done, KInv, JInv, IInv, Typing, SlotsRight, Prepared
  <2> QED BY <2>1, AllSuffixesAreBounded, AllTheBestAreKept, AllTolerableAreFound
<1> QED BY <1>1, <1>2, <1>3, TracesInvariant, NoPathIsLost, NothingIsInHand, PTL
        DEF TreeSpec

------------------------------------------------------------------------------
(***************************************************************************)
(* Exact pruning of prefixes, where search states with one key have the    *)
(* same future.  First, what a state's metrics are after an insertion.     *)
(***************************************************************************)
SolvesSelection(f, s, those) ==
    f = [n \in 0 .. Len(s) |->
            IF n = 0 THEN <<>>
            ELSE IF s[n] \in those THEN Append(f[n - 1], s[n])
            ELSE f[n - 1]]

LEMMA SelectedIs ==
    ASSUME NEW S, NEW s \in Seq(S), NEW those
    PROVE  Selected(s, those) \in Seq(S)
<1> DEFINE n == Len(s)
           step == [k \in 1 .. n |-> [v \in Seq(S) |->
                        IF s[k] \in those THEN Append(v, s[k]) ELSE v]]
           f == CHOOSE g : SolvesSelection(g, s, those)
<1>1. n \in Nat /\ \A k \in 1 .. n : s[k] \in S
  OBVIOUS
<1>2. \A k \in 1 .. n : \A v \in Seq(S) :
          (IF s[k] \in those THEN Append(v, s[k]) ELSE v) \in Seq(S)
  BY <1>1
<1>3. Stepping(step, n, Seq(S))
  <2> HIDE DEF n
  <2> QED BY <1>2 DEF Stepping
<1>4. PICK g : Stepwise(g, n, Seq(S), <<>>, step)
  <2>1. <<>> \in Seq(S)
    OBVIOUS
  <2> HIDE DEF step, n
  <2> QED BY <1>1, <1>3, <2>1, Recursion
<1>5. \A k \in 1 .. n : \A v \in Seq(S) :
          step[k][v] = IF s[k] \in those THEN Append(v, s[k]) ELSE v
  <2> HIDE DEF n
  <2> QED OBVIOUS
<1> HIDE DEF step
<1>6. SolvesSelection(g, s, those)
  <2>1. g = [k \in 0 .. n |-> g[k]]
    BY <1>4 DEF Stepwise
  <2>2. ASSUME NEW k \in 0 .. n
        PROVE  g[k] = IF k = 0 THEN <<>>
                      ELSE IF s[k] \in those THEN Append(g[k - 1], s[k])
                      ELSE g[k - 1]
    <3>1. CASE k = 0
      BY <1>4, <3>1 DEF Stepwise
    <3>2. CASE k # 0
      <4>1. k \in 1 .. n /\ k - 1 \in 0 .. n
        BY <1>1, <3>2
      <4>2. g[k - 1] \in Seq(S) /\ g[k] = step[k][g[k - 1]]
        BY <1>4, <4>1 DEF Stepwise
      <4> QED BY <1>5, <3>2, <4>1, <4>2
    <3> QED BY <3>1, <3>2
  <2> QED BY <2>1, <2>2 DEF SolvesSelection
<1>7. SolvesSelection(f, s, those)
  BY <1>6, Zenon
<1> HIDE DEF f
<1>8. \A k \in 0 .. n :
          f[k] = IF k = 0 THEN <<>>
                 ELSE IF s[k] \in those THEN Append(f[k - 1], s[k]) ELSE f[k - 1]
  BY <1>7 DEF SolvesSelection
<1> DEFINE Sound == {k \in 0 .. n : f[k] \in Seq(S)}
<1>9. 0 \in Sound
  <2>1. 0 \in 0 .. n /\ f[0] = <<>>
    BY <1>1, <1>8
  <2>2. <<>> \in Seq(S)
    OBVIOUS
  <2> HIDE DEF n
  <2> QED BY <2>1, <2>2
<1>10. ASSUME NEW k \in 1 .. n, k - 1 \in Sound
       PROVE  k \in Sound
  <2>1. k \in 0 .. n /\ k # 0 /\ f[k - 1] \in Seq(S)
    BY <1>1, <1>10
  <2>2. s[k] \in S /\ f[k] = IF s[k] \in those THEN Append(f[k - 1], s[k]) ELSE f[k - 1]
    BY <1>1, <1>8, <2>1
  <2>3. f[k] \in Seq(S)
    <3> HIDE DEF n
    <3> QED BY <2>1, <2>2
  <2> QED BY <2>1, <2>3
<1>11. n \in Sound
  <2>1. \A k \in 1 .. n : k - 1 \in Sound => k \in Sound
    BY <1>10
  <2>2. 0 .. n \subseteq Sound
    <3> HIDE DEF Sound, n
    <3> QED BY <1>1, <1>9, <2>1, UpTo
  <2>3. n \in 0 .. n
    BY <1>1
  <2> HIDE DEF Sound
  <2> QED BY <2>2, <2>3
<1>12. Selected(s, those) = f[n]
  BY DEF Selected, SolvesSelection, f
<1> QED BY <1>11, <1>12

LEMMA InsertedAre ==
    ASSUME NEW S, NEW entries \in Seq(S), NEW m, NEW label, [m |-> m, label |-> label] \in S
    PROVE  Insert(entries, m, label) \in Seq(S)
<1> DEFINE k == Earlier(entries, m)
           those == {e \in Range(entries) : ~Dominates(m, e.m)}
<1>1. k \in 0 .. Len(entries) /\ Len(entries) \in Nat /\ k + 1 \in Nat
  <2> DEFINE before == {i \in DOMAIN entries : entries[i].m.arr < m.arr}
  <2>1. Len(entries) \in Nat /\ before \subseteq 1 .. Len(entries)
    OBVIOUS
  <2>2. /\ IsFiniteSet(1 .. Len(entries)) /\ Cardinality(1 .. Len(entries)) = Len(entries)
    <3>1. 1 \in Int /\ Len(entries) \in Int
      BY <2>1
    <3> HIDE DEF before
    <3> QED BY <2>1, <3>1, FS_Interval
  <2> HIDE DEF before
  <2>3. Cardinality(before) <= Len(entries) /\ IsFiniteSet(before)
    BY <2>1, <2>2, FS_Subset
  <2>4. Cardinality(before) \in Nat
    BY <2>3, FS_CardinalityType
  <2> QED BY <2>1, <2>3, <2>4 DEF Earlier, before
<1> HIDE DEF k, those
<1>2. SubSeq(entries, 1, k) \in Seq(S) /\ SubSeq(entries, k + 1, Len(entries)) \in Seq(S)
  BY <1>1
<1>3. Selected(SubSeq(entries, k + 1, Len(entries)), those) \in Seq(S)
  BY <1>2, SelectedIs
<1>4. SubSeq(entries, 1, k) \o <<[m |-> m, label |-> label]>>
        \o Selected(SubSeq(entries, k + 1, Len(entries)), those) \in Seq(S)
  <2>1. <<[m |-> m, label |-> label]>> \in Seq(S)
    OBVIOUS
  <2> QED BY <1>2, <1>3, <2>1
<1> QED BY <1>4 DEF Insert, k, those

------------------------------------------------------------------------------
(* Beginnings of paths, and what they are compared by.                      *)

\* Beginnings that have boarded and may go on.
Begun(j) == {p \in LegalPaths(Timetable(j)) : p[Len(p)].to \in Stops /\ Rides(p) # {}}

Bearer(j, q, x) ==
    StateKeyBy(j.reference, [node |-> x.node, phase |-> x.phase, path |-> q])

\* Where a path leads on, there it stands when it is a branch's.
LEMMA BeginningIs ==
    ASSUME job \in Batches, NEW q, OpenPath(job, q), NEW x, Leads(q, x),
           Standing(x), x.m.boarded
    PROVE  /\ q \in Begun(job) /\ Len(q) \in Nat
           /\ KeyOf(job, q) = Bearer(job, q, x) /\ MetricsOf(q) = Metrics(x.m)
<1> DEFINE n == Len(q)
<1>1. /\ Allowed(job, q) /\ n \in Nat /\ q \in Seq(job.network) /\ n \in 0 .. n
      /\ \A k \in 1 .. n : q[k].to \in Stops
  <2>1. Allowed(job, q) /\ \A k \in 1 .. n : q[k].to \in Stops
    BY DEF OpenPath
  <2> QED BY <2>1, PathFields DEF Allowed
<1>2. IsAt(q, n, x)
  BY <1>1, BeginsItself, LeadsIs
<1>3. 2 <= n
  BY <1>1, <1>2 DEF IsAt
<1>4. /\ x.m.nt = Cardinality(Rides(q)) - 1 /\ IsFiniteSet(Rides(q)) /\ Rides(q) # {}
  <2>1. /\ IsFiniteSet(RidesTo(q, n)) /\ RidesTo(q, n) = Rides(q)
    BY <1>1, RidesToFacts
  <2>2. x.m.nt = Cardinality(RidesTo(q, n)) - 1
    BY <1>2, <1>3 DEF IsAt
  <2>3. x.m.nt \in Nat
    BY DEF Standing, Travelled
  <2>4. Rides(q) # {}
    <3> SUFFICES ASSUME Rides(q) = {}
                 PROVE  FALSE
      OBVIOUS
    <3>1. Cardinality(Rides(q)) = 0
      BY FS_EmptySet
    <3> QED BY <2>1, <2>2, <2>3, <3>1
  <2> QED BY <2>1, <2>2, <2>4
<1>5. PathOf(job, q) /\ FewRides(q)
  <2>1. PathOf(job, q)
    <3>1. \A k \in 1 .. n - 1 : k \in 1 .. n
      BY <1>1
    <3> QED BY <1>1, <3>1 DEF PathOf
  <2>2. x.m.nt <= MaxTransfers
    BY DEF Standing
  <2>3. Cardinality(Rides(q)) \in Nat
    BY <1>4, FS_CardinalityType
  <2> QED BY <1>4, <2>1, <2>2, <2>3, MaxTransfersAssumption DEF FewRides
<1>6. q \in LegalPaths(Timetable(job))
  <2>1. Legal(Timetable(job), q) /\ Len(q) # 0
    BY <1>1, <1>3, <1>5, LegalIs DEF FewRides
  <2> QED BY <1>1, <2>1, LegalPathsAre
<1>7. q[n].to \in Stops
  BY <1>1, <1>3
<1>8. After(q, n).m = x.m /\ After(q, n).phase = x.phase /\ After(q, n).node = x.node
  <2>1. PICK at : Along(q, at, n) /\ SameSpot(at[n], x)
    BY DEF Leads
  <2>2. PrefixOf(q, n)[n] = at[n]
    BY <1>1, <2>1, PrefixIsAlong
  <2>3. After(q, n) = PrefixOf(q, n)[n]
    BY DEF After, PrefixOf, SolvesPrefix
  <2> QED BY <2>1, <2>2, <2>3 DEF SameSpot
<1>9. q \in Begun(job)
  BY <1>4, <1>6, <1>7 DEF Begun
<1> QED BY <1>1, <1>8, <1>9 DEF KeyOf, MetricsOf, Bearer

LEMMA BeginningFields ==
    ASSUME job \in Batches, NEW q \in Begun(job)
    PROVE  Allowed(job, q) /\ Len(q) \in Nat
<1>1. q \in Seq(job.network) /\ Legal(Timetable(job), q)
  BY LegalPathsAre DEF Begun
<1>2. Allowed(job, q)
  BY <1>1, LegalIs DEF PathOf
<1> QED BY <1>2, PathFields

LEMMA PrefixBegins ==
    ASSUME job \in Batches, NEW q, Allowed(job, q), NEW p, Allowed(job, p)
    PROVE  IsPrefix(q, p) <=> Begins(q, p)
<1>1. /\ q \in Seq(job.network) /\ p \in Seq(job.network)
      /\ Len(q) \in Nat /\ Len(p) \in Nat
  BY PathFields DEF Allowed
<1>2. CASE Len(q) <= Len(p)
  <2>1. /\ SubSeq(q, 1, Len(q)) = [k \in 1 .. Len(q) |-> q[k]]
        /\ SubSeq(p, 1, Len(q)) = [k \in 1 .. Len(q) |-> p[k]]
    BY <1>1, <1>2
  <2>2. SubSeq(q, 1, Len(q)) = SubSeq(p, 1, Len(q)) <=> \A k \in 1 .. Len(q) : q[k] = p[k]
    BY <2>1
  <2> QED BY <1>2, <2>2 DEF IsPrefix, Begins
<1>3. CASE ~(Len(q) <= Len(p))
  BY <1>3 DEF IsPrefix, Begins
<1> QED BY <1>2, <1>3

\* What a dominated beginning leads to, the dominating one may match.
LEMMA SafeMeans ==
    ASSUME job \in Batches, job \in SafeBatches, NEW slot \in DOMAIN job.slots,
           NEW p \in Sought(slot), NEW q \in Begun(job), Begins(q, p),
           NEW r \in Begun(job), KeyOf(job, r) = KeyOf(job, q),
           Dominates(MetricsOf(r), MetricsOf(q))
    PROVE  \E d \in Sought(slot) :
               /\ Begins(r, d) /\ Len(d) - Len(r) <= Len(p) - Len(q)
               /\ NoWorse(job, Measured(d), Measured(p))
<1> DEFINE whole == CompletePaths(Timetable(job))
<1>1. whole = {c \in Seq(job.network) : PathOf(job, c) /\ FewRides(c) /\ Ends(c)}
  <2>1. LegalPaths(Timetable(job)) =
          {c \in Seq(job.network) : Legal(Timetable(job), c) /\ Len(c) # 0}
    BY LegalPathsAre
  <2>2. \A c \in Seq(job.network) :
          Legal(Timetable(job), c) <=> PathOf(job, c) /\ FewRides(c)
    BY LegalIs DEF FewRides
  <2> QED BY <2>1, <2>2 DEF CompletePaths, Ends
<1>2. ExtensionSafe(job)
  BY DEF SafeBatches
<1>3. p \in whole /\ p[Len(p)].to = job.slots[slot].to /\ Allowed(job, p)
  BY <1>1 DEF Sought, PathOf
<1>4. Allowed(job, q) /\ IsPrefix(q, p)
  BY <1>3, BeginningFields, PrefixBegins
<1>5. PICK d \in whole :
          /\ IsPrefix(r, d) /\ Len(d) - Len(r) <= Len(p) - Len(q)
          /\ d[Len(d)].to = p[Len(p)].to
          /\ NoWorse(job, Measured(d), Measured(p))
  BY <1>2, <1>3, <1>4 DEF ExtensionSafe, Begun
<1>6. d \in Sought(slot) /\ Allowed(job, d)
  BY <1>1, <1>3, <1>5 DEF Sought, PathOf
<1>7. Begins(r, d)
  BY <1>5, <1>6, BeginningFields, PrefixBegins
<1> QED BY <1>5, <1>6, <1>7

LEMMA NoWorseIs ==
    ASSUME NEW c, NEW d, Weighed(c), Weighed(d)
    PROVE  NoWorse(job, d, c)
             <=> \/ d.dep = c.dep /\ d.arr = c.arr /\ d.nt = c.nt /\ d.imp = c.imp
                 \/ Complete!Dominates(job.direct_barred, d, c)
<1>1. \A x : Vectors({x}) = {[dep |-> x.dep, arr |-> x.arr, nt |-> x.nt, imp |-> x.imp]}
  BY DEF Vectors
<1>2. Vectors({d}) = Vectors({c})
        <=> [dep |-> d.dep, arr |-> d.arr, nt |-> d.nt, imp |-> d.imp]
              = [dep |-> c.dep, arr |-> c.arr, nt |-> c.nt, imp |-> c.imp]
  BY <1>1
<1>3. [dep |-> d.dep, arr |-> d.arr, nt |-> d.nt, imp |-> d.imp]
        = [dep |-> c.dep, arr |-> c.arr, nt |-> c.nt, imp |-> c.imp]
        <=> d.dep = c.dep /\ d.arr = c.arr /\ d.nt = c.nt /\ d.imp = c.imp
  OBVIOUS
<1> QED BY <1>2, <1>3 DEF NoWorse

LEMMA NoWorseOrders ==
    ASSUME NEW c, NEW d, NEW e, Weighed(c), Weighed(d), Weighed(e)
    PROVE  /\ NoWorse(job, c, c)
           /\ NoWorse(job, e, d) /\ NoWorse(job, d, c) => NoWorse(job, e, c)
<1>1. NoWorse(job, c, c)
  BY NoWorseIs
<1>2. ASSUME NoWorse(job, e, d), NoWorse(job, d, c)
      PROVE  NoWorse(job, e, c)
  <2>1. CASE e.dep = d.dep /\ e.arr = d.arr /\ e.nt = d.nt /\ e.imp = d.imp
    <3>1. Complete!Dominates(job.direct_barred, d, c)
            => Complete!Dominates(job.direct_barred, e, c)
      BY <2>1 DEF Complete!Dominates, Complete!CanDominate
    <3> QED BY <1>2, <2>1, <3>1, NoWorseIs
  <2>2. CASE d.dep = c.dep /\ d.arr = c.arr /\ d.nt = c.nt /\ d.imp = c.imp
    <3>1. Complete!Dominates(job.direct_barred, e, d)
            => Complete!Dominates(job.direct_barred, e, c)
      BY <2>2 DEF Complete!Dominates
    <3> QED BY <1>2, <2>2, <3>1, NoWorseIs
  <2>3. CASE /\ Complete!Dominates(job.direct_barred, e, d)
             /\ Complete!Dominates(job.direct_barred, d, c)
    BY <2>3, DominanceOrders, NoWorseIs
  <2> QED BY <1>2, <2>1, <2>2, <2>3, NoWorseIs
<1> QED BY <1>1, <1>2

------------------------------------------------------------------------------
(* With exact pruning, a path that a search has entered upon is settled, or *)
(* a branch in hand goes on with it, or the search has entered upon one     *)
(* that is no worse and has fewer legs to go.                               *)

\* A search has come by a branch m legs along a path.
Passed(slot, p, m) ==
    \/ Settled(slot, p)
    \/ \E i \in DOMAIN arena : OnTheWay(i, slot, p) /\ Len(PathTo(i)) = m

Overtaken(slot, p, n) ==
    \E d \in Sought(slot) : \E m \in 0 .. Len(d) :
        /\ NoWorse(job, Measured(d), Measured(p))
        /\ Len(d) - m <= Len(p) - n
        /\ Passed(slot, d, m)

GoesOn(i, p) ==
    \/ i \in Range(current) \cup Range(next)
    \/ state = "scan" /\ i = expanding /\ p[Len(PathTo(i)) + 1] \in todo

Pruning ==
    /\ state \in {"level", "advanced", "scan", "exhausted"}
    /\ job.plan = "exact" /\ job.allow_end_wait /\ job \in SafeBatches

Entered ==
    Pruning => \A slot \in DOMAIN kept : \A p \in Sought(slot) : Passed(slot, p, 0)

Followed ==
    Pruning => \A slot \in DOMAIN kept : \A p \in Sought(slot) : \A i \in DOMAIN arena :
        OnTheWay(i, slot, p) =>
            GoesOn(i, p) \/ Overtaken(slot, p, Len(PathTo(i)) + 1)

\* What is retained for all slots at once serves each that may want it.
AllServed ==
    Pruning /\ job.scope = "tree" =>
        \A slot \in DOMAIN kept : \A p \in Sought(slot) : \A i \in DOMAIN arena :
            Begins(PathTo(i), p) => slot \in arena[i].tasks \/ Settled(slot, p)

\* Metrics that are known at a state are those of a beginning that the search
\* has entered upon, for every slot that they prune for.
Source(k, e) ==
    \E q \in Begun(job) :
        /\ k[2] = KeyOf(job, q) /\ e.m = MetricsOf(q)
        /\ \A slot \in DOMAIN kept : \A p \in Sought(slot) :
              (job.scope = "tree" \/ k[1] = slot) /\ Begins(q, p)
                => Passed(slot, p, Len(q))

KnownFrom ==
    Pruning => \A k \in DOMAIN known :
        known[k] \in Seq(Range(known[k])) /\ \A e \in Range(known[k]) : Source(k, e)

NothingKnown == state = "prepare" => known = <<>>

PInv == Entered /\ Followed /\ AllServed /\ KnownFrom /\ NothingKnown

\* What was entered upon stays so while branches are only added.
Grown ==
    /\ job' = job /\ DOMAIN kept' = DOMAIN kept
    /\ \A k \in DOMAIN arena : /\ k \in DOMAIN arena' /\ PathTo(k)' = PathTo(k)
                               /\ arena'[k].tasks = arena[k].tasks

LEMMA ComparedAlike ==
    ASSUME job' = job
    PROVE  /\ Begun(job)' = Begun(job)
           /\ \A q : KeyOf(job, q)' = KeyOf(job, q) /\ MetricsOf(q)' = MetricsOf(q)
           /\ \A d, p : NoWorse(job, Measured(d), Measured(p))'
                          <=> NoWorse(job, Measured(d), Measured(p))
<1>1. Begun(job)' = Begun(job)
  OBVIOUS
<1>2. \A q : KeyOf(job, q)' = KeyOf(job, q) /\ MetricsOf(q)' = MetricsOf(q)
  OBVIOUS
<1>3. \A d, p : NoWorse(job, Measured(d), Measured(p))'
                  <=> NoWorse(job, Measured(d), Measured(p))
  OBVIOUS
<1> QED BY <1>1, <1>2, <1>3

LEMMA PassedStays ==
    ASSUME KInv, [TreeNext]_tree_vars, Grown, NEW slot \in DOMAIN kept,
           NEW p \in Sought(slot), NEW m, Passed(slot, p, m)
    PROVE  Passed(slot, p, m)'
<1>1. CASE Settled(slot, p)
  BY <1>1, SettledStays DEF Passed, Grown
<1>2. ASSUME NEW i \in DOMAIN arena, OnTheWay(i, slot, p), Len(PathTo(i)) = m
      PROVE  Passed(slot, p, m)'
  <2>1. i \in DOMAIN arena' /\ PathTo(i)' = PathTo(i) /\ arena'[i].tasks = arena[i].tasks
    BY DEF Grown
  <2>2. OnTheWay(i, slot, p)'
    BY <1>2, <2>1 DEF OnTheWay, Begins
  <2> QED BY <1>2, <2>1, <2>2 DEF Passed
<1> QED BY <1>1, <1>2 DEF Passed

LEMMA OvertakenStays ==
    ASSUME KInv, [TreeNext]_tree_vars, Grown, NEW slot \in DOMAIN kept,
           NEW p \in Sought(slot), NEW n, Overtaken(slot, p, n)
    PROVE  Overtaken(slot, p, n)'
<1> DEFINE Leading(d, m) == /\ NoWorse(job, Measured(d), Measured(p))
                           /\ Len(d) - m <= Len(p) - n /\ Passed(slot, d, m)
<1>0. PICK d \in Sought(slot) : \E m \in 0 .. Len(d) : Leading(d, m)
  BY DEF Overtaken
<1>1. PICK m \in 0 .. Len(d) : Leading(d, m)
  BY <1>0
<1>2. /\ Sought(slot)' = Sought(slot)
      /\ NoWorse(job, Measured(d), Measured(p))'
  BY <1>1, SoughtStays, ComparedAlike DEF Grown
<1>3. Passed(slot, d, m)'
  BY <1>1, PassedStays
<1> QED BY <1>1, <1>2, <1>3 DEF Overtaken

LEMMA SourceStays ==
    ASSUME KInv, [TreeNext]_tree_vars, Grown, NEW k, NEW e, Source(k, e)
    PROVE  Source(k, e)'
<1>1. PICK q \in Begun(job) :
        /\ k[2] = KeyOf(job, q) /\ e.m = MetricsOf(q)
        /\ \A slot \in DOMAIN kept : \A p \in Sought(slot) :
              (job.scope = "tree" \/ k[1] = slot) /\ Begins(q, p)
                => Passed(slot, p, Len(q))
  BY DEF Source
<1>2. /\ job' = job /\ DOMAIN kept' = DOMAIN kept /\ q \in Begun(job)'
      /\ KeyOf(job, q)' = KeyOf(job, q) /\ MetricsOf(q)' = MetricsOf(q)
      /\ \A slot : Sought(slot)' = Sought(slot)
  BY <1>1, SoughtStays, ComparedAlike DEF Grown
<1>3. ASSUME NEW slot \in DOMAIN kept, NEW p \in Sought(slot),
             job.scope = "tree" \/ k[1] = slot, Begins(q, p)
      PROVE  Passed(slot, p, Len(q))'
  BY <1>1, <1>3, PassedStays
<1> QED BY <1>1, <1>2, <1>3 DEF Source, Begins

LEMMA StepsGrow ==
    ASSUME KInv, [TreeNext]_tree_vars, ~Prepare
    PROVE  Grown
<1>1. Typing /\ IInv /\ InHand \subseteq DOMAIN arena
  BY DEF KInv, JInv, IInv, Queued
<1>2. SameArena /\ DOMAIN kept' = DOMAIN kept => Grown
  BY <1>1, SamePaths DEF Grown, SameArena
<1>3. CASE Cancel \/ Stop \/ AdvanceLevel \/ Exhaust \/ UNCHANGED tree_vars
  <2>1. UNCHANGED <<job, residual, arena, kept>>
    BY <1>3 DEF Cancel, Stop, AdvanceLevel, Exhaust, tree_vars
  <2> QED BY <1>1, <1>2, <2>1, ArenaUnchanged
<1>4. CASE Pop
  <2>0. PICK i : i = Head(current)
    OBVIOUS
  <2>1. /\ UNCHANGED <<job, residual, kept>> /\ current # <<>>
        /\ arena' = Release(arena, i) \/ UNCHANGED arena
    BY <1>4, <2>0 DEF Pop
  <2>2. i \in InHand
    <3>1. current \in Seq(Nat) /\ Distinct(current)
      BY DEF KInv, JInv, IInv, Typing, Queued
    <3> QED BY <2>0, <2>1, <3>1, TailFacts DEF InHand
  <2>3. SameArena
    BY <1>1, <2>1, <2>2, ReleaseRight, ArenaUnchanged
  <2> QED BY <1>2, <2>1, <2>3
<1>5. CASE FinishExpansion
  <2>1. state = "scan" /\ arena' = Release(arena, expanding) /\ UNCHANGED <<job, residual, kept>>
    BY <1>5 DEF FinishExpansion
  <2>2. expanding \in InHand
    <3>1. expanding \in DOMAIN arena /\ expanding # None
      BY <2>1 DEF KInv, JInv, IInv, Typing, None
    <3> QED BY <3>1 DEF InHand
  <2> QED BY <1>1, <1>2, <2>1, <2>2, ReleaseRight
<1>6. ASSUME NEW leg \in todo, RejectStep(leg)
      PROVE  Grown
  <2>1. UNCHANGED <<job, residual, arena, kept>>
    BY <1>6 DEF RejectStep
  <2> QED BY <1>1, <1>2, <2>1, ArenaUnchanged
<1>7. ASSUME NEW leg \in todo, CompleteStep(leg)
      PROVE  Grown
  <2>1. UNCHANGED <<job, residual, arena>> /\ DOMAIN kept' = DOMAIN kept
    BY <1>7, CompleteIs
  <2> QED BY <1>1, <1>2, <2>1, ArenaUnchanged
<1>8. ASSUME NEW leg \in todo, ContinueStep(leg)
      PROVE  Grown
  <2>1. UNCHANGED <<job, residual, kept>> /\ (TasksAhead(leg) = {} => UNCHANGED arena)
    BY <1>8, ContinueIs
  <2>2. CASE TasksAhead(leg) = {}
    BY <1>1, <1>2, <2>1, <2>2, ArenaUnchanged
  <2>3. CASE TasksAhead(leg) # {}
    <3>1. /\ DOMAIN arena' = DOMAIN arena \cup {Len(arena) + 1}
          /\ \A k \in DOMAIN arena :
               SameBranch(arena[k], arena'[k]) /\ PathTo(k)' = PathTo(k)
      BY <1>8, <2>3, BirthIsTraced
    <3> QED BY <2>1, <3>1 DEF Grown, SameBranch
  <2> QED BY <2>2, <2>3
<1> QED BY <1>3, <1>4, <1>5, <1>6, <1>7, <1>8 DEF TreeNext, Visit

LEMMA PassedIsOvertaken ==
    ASSUME job \in Batches, NEW slot \in DOMAIN job.slots, NEW p \in Sought(slot),
           NEW n \in 0 .. Len(p), Passed(slot, p, n)
    PROVE  Overtaken(slot, p, n)
<1>1. PathOf(job, p) /\ FewRides(p) /\ Ends(p) /\ Len(p) \in Nat
  BY SoughtFields
<1>2. Weighed(Measured(p))
  BY <1>1, WayOfPath
<1>3. NoWorse(job, Measured(p), Measured(p))
  BY <1>2, NoWorseOrders
<1>4. Len(p) - n <= Len(p) - n
  BY <1>1
<1> QED BY <1>3, <1>4 DEF Overtaken

LEMMA NowOvertaken ==
    ASSUME KInv, job' = job, NEW slot \in DOMAIN job.slots, NEW p \in Sought(slot),
           NEW n \in 0 .. Len(p), Passed(slot, p, n)'
    PROVE  Overtaken(slot, p, n)'
<1>1. job \in Batches
  BY DEF KInv, JInv, IInv, Typing
<1>2. PathOf(job, p) /\ FewRides(p) /\ Ends(p) /\ Len(p) \in Nat
  BY <1>1, SoughtFields
<1>3. Weighed(Measured(p))
  BY <1>1, <1>2, WayOfPath
<1>4. NoWorse(job, Measured(p), Measured(p))
  BY <1>3, NoWorseOrders
<1>5. Sought(slot)' = Sought(slot) /\ NoWorse(job, Measured(p), Measured(p))'
  BY <1>4, SoughtStays, ComparedAlike
<1>6. Len(p) - n <= Len(p) - n
  BY <1>2
<1> QED BY <1>5, <1>6 DEF Overtaken

\* Once a tree is under way, it was so before, unless it was just prepared.
LEMMA PruningBefore ==
    ASSUME KInv, [TreeNext]_tree_vars, ~Prepare, Pruning'
    PROVE  Pruning /\ job' = job /\ DOMAIN kept' = DOMAIN kept
<1>1. Grown
  BY StepsGrow
<1>2. state \in {"level", "advanced", "scan", "exhausted"}
  <2>1. state' \in {"level", "advanced", "scan", "exhausted"}
    BY DEF Pruning
  <2>2. CASE Cancel \/ Stop \/ AdvanceLevel \/ Exhaust \/ UNCHANGED tree_vars
    BY <2>1, <2>2 DEF Cancel, Stop, AdvanceLevel, Exhaust, tree_vars
  <2>3. CASE Pop \/ FinishExpansion
    BY <2>3 DEF Pop, FinishExpansion
  <2>4. ASSUME NEW leg \in todo,
               RejectStep(leg) \/ CompleteStep(leg) \/ ContinueStep(leg)
        PROVE  state = "scan"
    BY <2>4 DEF RejectStep, CompleteStep, ContinueStep, Visiting
  <2> QED BY <2>2, <2>3, <2>4 DEF TreeNext, Visit
<1> QED BY <1>1, <1>2 DEF Grown, Pruning, SafeBatches

\* It suffices to follow what goes on, where nothing new is known.
LEMMA QuietKeeps ==
    ASSUME KInv, PInv, [TreeNext]_tree_vars, ~Prepare,
           DOMAIN arena' = DOMAIN arena, known' = known,
           \A slot \in DOMAIN kept : \A p \in Sought(slot) : \A i \in DOMAIN arena :
               Pruning /\ OnTheWay(i, slot, p) /\ GoesOn(i, p) /\ Pruning'
                   => GoesOn(i, p)' \/ Overtaken(slot, p, Len(PathTo(i)) + 1)'
    PROVE  PInv'
<1>1. Grown
  BY StepsGrow
<1>2. job' = job /\ DOMAIN kept' = DOMAIN kept /\ \A slot : Sought(slot)' = Sought(slot)
  BY <1>1, SoughtStays DEF Grown
<1>3. \A i \in DOMAIN arena :
        /\ PathTo(i)' = PathTo(i) /\ arena'[i].tasks = arena[i].tasks
        /\ \A slot, p : OnTheWay(i, slot, p)' <=> OnTheWay(i, slot, p)
        /\ \A p : Begins(PathTo(i), p)' <=> Begins(PathTo(i), p)
  BY <1>1 DEF Grown, OnTheWay, Begins
<1>4. Entered'
  <2> SUFFICES ASSUME Pruning', NEW slot \in DOMAIN kept, NEW p \in Sought(slot)
               PROVE  Passed(slot, p, 0)'
    BY <1>2 DEF Entered
  <2>1. Passed(slot, p, 0)
    BY PruningBefore DEF PInv, Entered
  <2> QED BY <1>1, <2>1, PassedStays
<1>5. Followed'
  <2> SUFFICES ASSUME Pruning', NEW slot \in DOMAIN kept, NEW p \in Sought(slot),
                      NEW i \in DOMAIN arena, OnTheWay(i, slot, p)
               PROVE  GoesOn(i, p)' \/ Overtaken(slot, p, Len(PathTo(i)) + 1)'
    BY <1>2, <1>3 DEF Followed
  <2>1. Pruning /\ (GoesOn(i, p) \/ Overtaken(slot, p, Len(PathTo(i)) + 1))
    BY PruningBefore DEF PInv, Followed
  <2>2. CASE GoesOn(i, p)
    BY <2>1, <2>2
  <2>3. CASE Overtaken(slot, p, Len(PathTo(i)) + 1)
    <3>1. PICK n : n = Len(PathTo(i)) + 1
      OBVIOUS
    <3>2. Overtaken(slot, p, n)'
      BY <1>1, <2>3, <3>1, OvertakenStays
    <3>3. (Len(PathTo(i)) + 1)' = n
      BY <1>3, <3>1
    <3> QED BY <3>2, <3>3 DEF Overtaken
  <2> QED BY <2>1, <2>2, <2>3
<1>6. AllServed'
  <2> SUFFICES ASSUME Pruning', job.scope = "tree", NEW slot \in DOMAIN kept,
                      NEW p \in Sought(slot), NEW i \in DOMAIN arena, Begins(PathTo(i), p)
               PROVE  slot \in arena'[i].tasks \/ Settled(slot, p)'
    BY <1>2, <1>3 DEF AllServed
  <2>1. slot \in arena[i].tasks \/ Settled(slot, p)
    BY PruningBefore DEF PInv, AllServed
  <2> QED BY <1>2, <1>3, <2>1, SettledStays
<1>7. KnownFrom'
  <2> SUFFICES ASSUME Pruning', NEW k \in DOMAIN known
               PROVE  /\ known[k] \in Seq(Range(known[k]))
                      /\ \A e \in Range(known[k]) : Source(k, e)'
    BY DEF KnownFrom
  <2>1. known[k] \in Seq(Range(known[k])) /\ \A e \in Range(known[k]) : Source(k, e)
    BY PruningBefore DEF PInv, KnownFrom
  <2> QED BY <1>1, <2>1, SourceStays
<1>8. NothingKnown'
  <2>1. state' = "prepare" => state = "prepare"
    <3>1. CASE Cancel \/ Stop \/ AdvanceLevel \/ Exhaust \/ UNCHANGED tree_vars
      BY <3>1 DEF Cancel, Stop, AdvanceLevel, Exhaust, tree_vars
    <3>2. CASE Pop \/ FinishExpansion
      BY <3>2 DEF Pop, FinishExpansion
    <3>3. ASSUME NEW leg \in todo,
                 RejectStep(leg) \/ CompleteStep(leg) \/ ContinueStep(leg)
          PROVE  state' # "prepare"
      BY <3>3 DEF RejectStep, CompleteStep, ContinueStep, Visiting
    <3> QED BY <3>1, <3>2, <3>3 DEF TreeNext, Visit
  <2> QED BY <2>1 DEF PInv, NothingKnown
<1> QED BY <1>4, <1>5, <1>6, <1>7, <1>8 DEF PInv

LEMMA PreparePrunes ==
    ASSUME KInv, PInv, Prepare
    PROVE  PInv'
<1> DEFINE r == Residual(job.network, Range(job.targets))
           tasks == {t \in DOMAIN job.slots :
                        Feasible(r, job.slots[t].to, MaskKey(Root))}
           targets == {t \in DOMAIN job.targets :
                          Feasible(r, job.targets[t], MaskKey(Root))}
           b == RootOf(tasks, targets)
<1>1. /\ job' = job /\ known' = known /\ state = "prepare"
      /\ \/ state' = "skipped"
         \/ /\ arena' = <<b>> /\ current' = <<1>>
            /\ kept' = [s \in DOMAIN job.slots |-> {}]
      /\ state' # "prepare"
  BY DEF Prepare, RootOf
<1>2. known' = <<>>
  BY <1>1 DEF PInv, NothingKnown
<1>3. CASE state' = "skipped"
  BY <1>1, <1>3 DEF PInv, Entered, Followed, AllServed, KnownFrom, NothingKnown, Pruning
<1>4. CASE /\ arena' = <<b>> /\ current' = <<1>>
           /\ kept' = [s \in DOMAIN job.slots |-> {}]
  <2>1. job \in Batches
    BY DEF KInv, JInv, IInv, Typing
  <2>2. b.tasks = tasks
    <3> HIDE DEF tasks, targets
    <3> QED BY RootFields DEF RootOf, BranchType
  <2> HIDE DEF b
  <2>3. /\ PathTo(1)' = <<>> /\ arena'[1] = b /\ DOMAIN arena' = {1}
    <3>1. KInv'
      BY StepsKeepTraces DEF TreeNext
    <3>2. arena' \in Seq(BranchType) /\ Forest(arena')
      BY <3>1 DEF KInv, JInv, IInv, Typing
    <3>3. 1 \in 1 .. Len(arena') /\ DOMAIN arena' = {1}
      BY <1>4
    <3>4. PathIn(arena', 1) = <<>>
      BY <3>2, <3>3, PathUnfolds
    <3> QED BY <1>4, <3>3, <3>4 DEF PathTo, PathIn
  <2>4. ASSUME NEW slot \in DOMAIN job.slots, NEW p \in Sought(slot)
        PROVE  OnTheWay(1, slot, p)' /\ slot \in arena'[1].tasks
    <3>1. slot \in tasks
      BY <2>1, <2>4, RootIsOnTheWay
    <3>2. Begins(<<>>, p)
      <4>1. Len(p) \in Nat
        BY <2>1, <2>4, SoughtFields
      <4> QED BY <4>1 DEF Begins
    <3> HIDE DEF tasks
    <3> QED BY <2>2, <2>3, <3>1, <3>2 DEF OnTheWay, Begins
  <2>5. \A slot : Sought(slot)' = Sought(slot)
    BY <1>1, SoughtStays
  <2>6. DOMAIN kept' = DOMAIN job.slots
    BY <1>4
  <2>7. Entered'
    <3>1. ASSUME NEW slot \in DOMAIN job.slots, NEW p \in Sought(slot)
          PROVE  Passed(slot, p, 0)'
      <4>1. OnTheWay(1, slot, p)' /\ 1 \in DOMAIN arena'
        BY <2>3, <2>4, <3>1
      <4>2. Len(PathTo(1)') = 0
        BY <2>3
      <4> QED BY <4>1, <4>2 DEF Passed
    <3> QED BY <2>5, <2>6, <3>1 DEF Entered
  <2>8. Followed'
    <3>1. 1 \in Range(current')
      BY <1>4 DEF Range
    <3> QED BY <2>3, <3>1 DEF Followed, GoesOn
  <2>9. AllServed'
    BY <2>3, <2>4, <2>5, <2>6 DEF AllServed
  <2>10. KnownFrom' /\ NothingKnown'
    BY <1>1, <1>2 DEF KnownFrom, NothingKnown
  <2> QED BY <2>7, <2>8, <2>9, <2>10 DEF PInv
<1> QED BY <1>1, <1>3, <1>4

LEMMA PopPrunes ==
    ASSUME KInv, PInv, Pop
    PROVE  PInv'
<1>0. PICK i : i = Head(current)
  OBVIOUS
<1> DEFINE idle == \/ arena[i].targets = {}
                   \/ arena[i].node \notin Stops /\ arena[i].m.boarded
<1>1. /\ state \in {"advanced", "level"} /\ current # <<>>
      /\ UNCHANGED <<job, residual, next, kept, known>> /\ current' = Tail(current)
      /\ IF idle THEN state' = "level" /\ arena' = Release(arena, i)
         ELSE /\ state' = "scan" /\ expanding' = i /\ todo' = Successors(i)
              /\ UNCHANGED arena
  BY <1>0 DEF Pop
<1>2. /\ i \in Range(current) /\ Range(current) = {i} \cup Range(current')
  <2>1. current \in Seq(Nat) /\ Distinct(current)
    BY DEF KInv, JInv, IInv, Typing, Queued
  <2> QED BY <1>0, <1>1, <2>1, TailFacts
<1>3. i \in InHand
  BY <1>2 DEF InHand
<1>4. SameArena
  <2>1. CASE arena' = Release(arena, i)
    BY <1>1, <1>3, <2>1, ReleaseRight DEF KInv, JInv
  <2>2. CASE UNCHANGED arena
    BY <1>1, <2>2, ArenaUnchanged DEF KInv, JInv, IInv
  <2> QED BY <1>1, <2>1, <2>2
<1> HIDE DEF idle
<1>5. ASSUME NEW slot \in DOMAIN kept, NEW p \in Sought(slot), NEW k \in DOMAIN arena,
             OnTheWay(k, slot, p), GoesOn(k, p)
      PROVE  GoesOn(k, p)'
  <2>1. k \in Range(current) \cup Range(next)
    BY <1>1, <1>5 DEF GoesOn
  <2>2. slot \in DOMAIN job.slots
    BY <1>5 DEF KInv, JInv, Afoot, Placed, OnTheWay
  <2>3. CASE k # i
    BY <1>1, <1>2, <2>1, <2>3 DEF GoesOn
  <2>4. CASE k = i
    <3>1. ~idle /\ p[Len(PathTo(k)) + 1] \in Successors(k)
      BY <1>5, <2>2, <2>4, PendingIsSuccessor DEF idle
    <3>2. PathTo(k)' = PathTo(k)
      BY <1>4, SamePaths DEF KInv, JInv, IInv
    <3> QED BY <1>1, <2>4, <3>1, <3>2 DEF GoesOn
  <2> QED BY <2>3, <2>4
<1>6. [TreeNext]_tree_vars /\ ~Prepare
  BY <1>1 DEF TreeNext, Prepare
<1> QED BY <1>1, <1>4, <1>5, <1>6, QuietKeeps DEF SameArena

LEMMA FinishPrunes ==
    ASSUME KInv, PInv, FinishExpansion
    PROVE  PInv'
<1>1. /\ state = "scan" /\ arena' = Release(arena, expanding)
      /\ state' = IF todo = {} THEN "level" ELSE "stopped"
      /\ UNCHANGED <<job, residual, current, next, kept, known>>
  BY DEF FinishExpansion
<1>2. SameArena
  <2>1. expanding \in InHand
    <3>1. expanding \in DOMAIN arena /\ expanding # None
      BY <1>1 DEF KInv, JInv, IInv, Typing, None
    <3> QED BY <3>1 DEF InHand
  <2> QED BY <1>1, <2>1, ReleaseRight DEF KInv, JInv
<1>3. ASSUME NEW p, NEW k, GoesOn(k, p), Pruning'
      PROVE  GoesOn(k, p)'
  <2>1. todo = {}
    BY <1>1, <1>3 DEF Pruning
  <2> QED BY <1>1, <1>3, <2>1 DEF GoesOn
<1>4. [TreeNext]_tree_vars /\ ~Prepare
  BY <1>1 DEF TreeNext, Prepare
<1> QED BY <1>1, <1>2, <1>3, <1>4, QuietKeeps DEF SameArena

LEMMA RestPrunes ==
    ASSUME KInv, PInv, Cancel \/ Stop \/ AdvanceLevel \/ Exhaust \/ UNCHANGED tree_vars
    PROVE  PInv'
<1>1. /\ UNCHANGED <<job, arena, expanding, todo, kept, known>>
      /\ \/ state' = "stopped"
         \/ /\ state' = "scan" <=> state = "scan"
            /\ Range(current') \cup Range(next') = Range(current) \cup Range(next)
  <2>1. CASE Cancel
    BY <2>1 DEF Cancel
  <2>2. CASE AdvanceLevel
    BY <2>2 DEF AdvanceLevel
  <2>3. CASE Exhaust
    BY <2>3 DEF Exhaust
  <2>4. CASE Stop
    BY <2>4 DEF Stop
  <2>5. CASE UNCHANGED tree_vars
    BY <2>5 DEF tree_vars
  <2> QED BY <2>1, <2>2, <2>3, <2>4, <2>5
<1>2. ASSUME NEW p, NEW k, GoesOn(k, p), Pruning'
      PROVE  GoesOn(k, p)'
  <2>1. PathTo(k)' = PathTo(k)
    BY <1>1 DEF PathTo
  <2>2. state' # "stopped"
    BY <1>2 DEF Pruning
  <2> QED BY <1>1, <1>2, <2>1, <2>2 DEF GoesOn
<1>3. [TreeNext]_tree_vars /\ (~Prepare \/ UNCHANGED tree_vars)
  BY DEF TreeNext, Prepare, Cancel, Stop, AdvanceLevel, Exhaust
<1>4. CASE ~Prepare
  BY <1>1, <1>2, <1>3, <1>4, QuietKeeps
<1>5. CASE Prepare
  BY <1>5, PreparePrunes
<1> QED BY <1>4, <1>5

\* In the midst of an expansion, what goes on goes on still, unless its leg is
\* the one that is tried.
LEMMA ScanGoesOn ==
    ASSUME KInv, state = "scan", NEW leg \in todo, todo' = todo \ {leg},
           UNCHANGED <<state, expanding>>,
           NEW i \in DOMAIN arena, PathTo(i)' = PathTo(i),
           Range(current) \cup Range(next) \subseteq Range(current') \cup Range(next'),
           NEW slot, NEW p, OnTheWay(i, slot, p), GoesOn(i, p)
    PROVE  \/ GoesOn(i, p)'
           \/ /\ slot \in DOMAIN job.slots /\ i = expanding
              /\ p[Len(PathTo(expanding)) + 1] = leg
<1>1. CASE i \in Range(current) \cup Range(next)
  BY <1>1 DEF GoesOn
<1>2. CASE i = expanding /\ p[Len(PathTo(i)) + 1] \in todo
  <2>1. slot \in DOMAIN job.slots
    BY DEF KInv, JInv, Afoot, Placed, OnTheWay
  <2> QED BY <1>2, <2>1 DEF GoesOn
<1> QED BY <1>1, <1>2 DEF GoesOn

LEMMA RejectPrunes ==
    ASSUME KInv, PInv, NEW leg \in todo, RejectStep(leg)
    PROVE  PInv'
<1>1. [TreeNext]_tree_vars /\ ~Prepare
  BY DEF TreeNext, Visit, RejectStep, Visiting, Prepare
<1>2. /\ state = "scan" /\ todo' = todo \ {leg}
      /\ UNCHANGED <<job, residual, arena, expanding, current, next, kept, known>>
  BY DEF RejectStep, Visiting
<1>3. Cycles(leg) /\ state' = state
  BY OnlyCyclesAreRejected DEF KInv, JInv
<1>4. ASSUME NEW slot \in DOMAIN kept, NEW p \in Sought(slot), NEW i \in DOMAIN arena,
             OnTheWay(i, slot, p), GoesOn(i, p)
      PROVE  GoesOn(i, p)'
  <2>1. PathTo(i)' = PathTo(i)
    BY <1>2 DEF PathTo
  <2> QED BY <1>2, <1>3, <1>4, <2>1, ScanGoesOn, TriedLeg
<1> QED BY <1>1, <1>2, <1>4, QuietKeeps

LEMMA CompletePrunes ==
    ASSUME KInv, PInv, NEW leg \in todo, CompleteStep(leg)
    PROVE  PInv'
<1>1. [TreeNext]_tree_vars /\ ~Prepare
  BY DEF TreeNext, Visit, CompleteStep, Visiting, Prepare
<1>2. /\ state = "scan" /\ todo' = todo \ {leg} /\ ~Cycles(leg) /\ leg.to \notin Stops
      /\ UNCHANGED <<job, residual, arena, expanding, current, next, known>>
      /\ DOMAIN kept' = DOMAIN kept /\ state' \in {state, "failed"}
  BY CompleteIs DEF CompleteStep
<1>3. ASSUME NEW slot \in DOMAIN kept, NEW p \in Sought(slot), NEW i \in DOMAIN arena,
             Pruning, OnTheWay(i, slot, p), GoesOn(i, p), Pruning'
      PROVE  GoesOn(i, p)' \/ Overtaken(slot, p, Len(PathTo(i)) + 1)'
  <2>1. PathTo(i)' = PathTo(i) /\ Range(current') = Range(current) /\ Range(next') = Range(next)
    BY <1>2 DEF PathTo
  <2>3. state' # "failed"
    BY <1>3 DEF Pruning
  <2>2. CASE slot \in DOMAIN job.slots /\ i = expanding /\ p[Len(PathTo(expanding)) + 1] = leg
    <3>1. Settled(slot, p)'
      BY <1>3, <2>2, <2>3, CompletedIsSettled DEF Pruning
    <3>2. Len(Append(PathTo(i), leg)) \in 1 .. Len(p)
          /\ Len(Append(PathTo(i), leg)) = Len(PathTo(i)) + 1
      BY <1>2, <1>3, <2>2, TriedLeg
    <3>3. PICK n : n = Len(PathTo(i)) + 1
      OBVIOUS
    <3>4. n \in 0 .. Len(p)
      BY <3>2, <3>3
    <3>5. Passed(slot, p, n)'
      BY <3>1 DEF Passed
    <3>6. Overtaken(slot, p, n)'
      BY <1>2, <2>2, <3>4, <3>5, NowOvertaken
    <3> QED BY <2>1, <3>3, <3>6 DEF Overtaken
  <2> QED BY <1>2, <1>3, <2>1, <2>2, <2>3, ScanGoesOn
<1> QED BY <1>1, <1>2, <1>3, QuietKeeps

\* A candidate that has boarded is compared as the beginning that leads to it.
LEMMA CandidateBegins ==
    ASSUME KInv, state = "scan", NEW leg \in todo, ~Cycles(leg), leg.to \in Stops,
           Candidate(leg).m.boarded
    PROVE  LET q == Append(PathTo(expanding), leg) IN
           /\ q \in Begun(job) /\ Len(q) \in Nat
           /\ KeyOf(job, q) = StateKey(Candidate(leg))
           /\ MetricsOf(q) = Metrics(Candidate(leg).m)
<1> DEFINE q == Append(PathTo(expanding), leg)
           x == Candidate(leg)
<1>1. /\ job \in Batches /\ OpenPath(job, q) /\ Leads(q, x) /\ x.path = q /\ Standing(x)
  BY CandidateLeads, CandidateIsOnward DEF KInv, JInv, IInv, Typing
<1> HIDE DEF q, x
<1>2. /\ q \in Begun(job) /\ Len(q) \in Nat
      /\ KeyOf(job, q) = Bearer(job, q, x) /\ MetricsOf(q) = Metrics(x.m)
  BY <1>1, BeginningIs DEF x
<1>3. Bearer(job, q, x) = StateKey(x)
  BY <1>1 DEF Bearer, StateKey, StateKeyBy
<1> QED BY <1>2, <1>3 DEF q, x

\* What is turned out is dominated by a beginning that the search has entered
\* upon, and with it by one that may be gone on with no worse.
LEMMA TurnedOutIsOvertaken ==
    ASSUME KInv, PInv, Pruning, state = "scan", NEW leg \in todo,
           NEW slot \in DOMAIN kept, slot \in DOMAIN job.slots,
           NEW p \in Sought(slot), OnTheWay(expanding, slot, p),
           p[Len(PathTo(expanding)) + 1] = leg, leg.to \in Stops,
           NEW scope, job.scope = "tree" \/ scope = slot, ~Retains(scope, Candidate(leg))
    PROVE  Overtaken(slot, p, Len(PathTo(expanding)) + 1)
<1> DEFINE q == Append(PathTo(expanding), leg)
           x == Candidate(leg)
           k == <<scope, StateKey(x)>>
<1>1. /\ ~Cycles(leg) /\ Begins(q, p) /\ Len(q) = Len(PathTo(expanding)) + 1
  BY TriedLeg
<1>2. x.m.boarded /\ job.plan = "exact" /\ ~Relevant(KnownAt(scope, x), Metrics(x.m))
  BY DEF Retains, Pruning
<1>3. PICK i \in DOMAIN KnownAt(scope, x) :
          Dominates(KnownAt(scope, x)[i].m, Metrics(x.m))
  BY <1>2 DEF Relevant
<1>4. k \in DOMAIN known /\ KnownAt(scope, x) = known[k]
  <2>1. CASE k \in DOMAIN known
    BY <2>1 DEF KnownAt
  <2>2. CASE k \notin DOMAIN known
    <3>1. KnownAt(scope, x) = <<>>
      BY <2>2 DEF KnownAt
    <3> QED BY <1>3, <3>1
  <2> QED BY <2>1, <2>2
<1>5. PICK e \in Range(known[k]) : Dominates(e.m, Metrics(x.m))
  BY <1>3, <1>4 DEF Range
<1>6. Source(k, e)
  BY <1>4 DEF PInv, KnownFrom
<1>7. k[1] = scope /\ k[2] = StateKey(x)
  OBVIOUS
<1>8. /\ q \in Begun(job) /\ KeyOf(job, q) = StateKey(x) /\ MetricsOf(q) = Metrics(x.m)
  BY <1>1, <1>2, CandidateBegins
<1> HIDE DEF q, x, k
<1>9. PICK r \in Begun(job) :
        /\ KeyOf(job, r) = KeyOf(job, q) /\ e.m = MetricsOf(r)
        /\ \A d \in Sought(slot) : Begins(r, d) => Passed(slot, d, Len(r))
  BY <1>6, <1>7, <1>8 DEF Source
<1>10. job \in Batches /\ job \in SafeBatches
  BY DEF KInv, JInv, IInv, Typing, Pruning
<1>11. PICK d \in Sought(slot) :
          /\ Begins(r, d) /\ Len(d) - Len(r) <= Len(p) - Len(q)
          /\ NoWorse(job, Measured(d), Measured(p))
  BY <1>1, <1>5, <1>8, <1>9, <1>10, SafeMeans
<1>12. Passed(slot, d, Len(r)) /\ Len(r) \in 0 .. Len(d)
  <2>1. Len(r) \in Nat /\ Len(d) \in Nat
    BY <1>10, BeginningFields, SoughtFields
  <2> QED BY <1>9, <1>11, <2>1 DEF Begins
<1> QED BY <1>1, <1>11, <1>12 DEF Overtaken

\* The slots that a leg leads on to a path of are the tasks ahead, or settled,
\* or their path is overtaken.
LEMMA TriedIsAccounted ==
    ASSUME KInv, PInv, Pruning, state = "scan", NEW leg \in todo,
           NEW slot \in DOMAIN kept, slot \in DOMAIN job.slots,
           NEW p \in Sought(slot), OnTheWay(expanding, slot, p),
           p[Len(PathTo(expanding)) + 1] = leg, leg.to \in Stops
    PROVE  \/ slot \in TasksAhead(leg) \/ Settled(slot, p)
           \/ Overtaken(slot, p, Len(PathTo(expanding)) + 1)
<1>1. TargetsAhead(leg) # {} /\ (slot \in Hopeful(leg) \/ Settled(slot, p))
  BY CutIsOfNoUse
<1>2. CASE job.scope = "tree" /\ ~Retains("tree", Candidate(leg))
  BY <1>2, TurnedOutIsOvertaken
<1>3. CASE job.scope # "tree" /\ ~Retains(slot, Candidate(leg))
  BY <1>3, TurnedOutIsOvertaken
<1>4. CASE job.scope = "tree" /\ Retains("tree", Candidate(leg))
  BY <1>1, <1>4 DEF TasksAhead, Wanted
<1>5. CASE job.scope # "tree" /\ Retains(slot, Candidate(leg))
  BY <1>1, <1>5 DEF TasksAhead, Wanted
<1> QED BY <1>2, <1>3, <1>4, <1>5

\* Where one retention serves all, whatever slot a leg leads on to a path of.
LEMMA ServedAhead ==
    ASSUME KInv, PInv, Pruning, job.scope = "tree", state = "scan", NEW leg \in todo,
           ~Cycles(leg), leg.to \in Stops, Wanted(leg),
           NEW slot \in DOMAIN kept, slot \in DOMAIN job.slots,
           NEW p \in Sought(slot), Begins(Append(PathTo(expanding), leg), p)
    PROVE  slot \in TasksAhead(leg) \/ Settled(slot, p)
<1> DEFINE r == PathTo(expanding)
           q == Append(r, leg)
<1>1. expanding \in DOMAIN arena /\ job \in Batches
  BY DEF KInv, JInv, IInv, Typing
<1>2. /\ r \in Seq(job.network) /\ leg \in job.network /\ Allowed(job, q)
      /\ Len(q) = Len(r) + 1 /\ Len(r) \in Nat
  <2>1. Allowed(job, r) /\ Allowed(job, q) /\ Len(q) = Len(r) + 1 /\ Len(r) \in Nat
        /\ q[Len(q)] = leg
    BY CandidateLeads
  <2>2. q \in Seq(job.network) /\ Len(q) \in 1 .. Len(q)
    BY <2>1 DEF Allowed
  <2>3. q[Len(q)] \in job.network
    <3> HIDE DEF q
    <3> QED BY <2>2
  <2> QED BY <2>1, <2>3 DEF Allowed
<1>3. Begins(r, p) /\ p[Len(r) + 1] = leg
  <2>1. q[Len(r) + 1] = leg /\ \A k \in 1 .. Len(r) : q[k] = r[k]
    BY <1>2, AppendedFields
  <2>2. Len(q) <= Len(p) /\ \A k \in 1 .. Len(q) : q[k] = p[k]
    BY DEF Begins
  <2>3. Len(p) \in Nat
    BY <1>1, SoughtFields
  <2> HIDE DEF q, r
  <2>4. Len(r) <= Len(p) /\ Len(r) + 1 \in 1 .. Len(q) /\ \A k \in 1 .. Len(r) : k \in 1 .. Len(q)
    BY <1>2, <2>2, <2>3
  <2> QED BY <2>1, <2>2, <2>4 DEF Begins
<1>4. slot \in arena[expanding].tasks \/ Settled(slot, p)
  BY <1>1, <1>3 DEF PInv, AllServed
<1>5. CASE slot \in arena[expanding].tasks
  <2>1. OnTheWay(expanding, slot, p)
    BY <1>3, <1>5 DEF OnTheWay
  <2>2. slot \in Hopeful(leg) \/ Settled(slot, p)
    BY <1>3, <2>1, CutIsOfNoUse
  <2> QED BY <2>2 DEF TasksAhead
<1> QED BY <1>4, <1>5

LEMMA PruningIsPrepared ==
    ASSUME KInv, Pruning
    PROVE  DOMAIN kept = DOMAIN job.slots
BY DEF KInv, JInv, SlotsRight, Prepared, Pruning

\* The branch that a leg leads to, where there are tasks ahead.
LEMMA BranchIsBorn ==
    ASSUME KInv, NEW leg \in todo, ContinueStep(leg), TasksAhead(leg) # {},
           NEW q, q = Append(PathTo(expanding), leg)
    PROVE  \E n \in Nat :
           /\ DOMAIN arena' = DOMAIN arena \cup {n}
           /\ n \in Range(current') \cup Range(next')
           /\ Range(current) \cup Range(next) \subseteq Range(current') \cup Range(next')
           /\ PathTo(n)' = q /\ arena'[n].tasks = TasksAhead(leg)
<1> DEFINE b == OffspringOf(leg, TasksAhead(leg), TargetsLeft(leg))
<1>0. PICK n : n = Len(arena) + 1
  OBVIOUS
<1>1. Len(arena') = n /\ DOMAIN arena' = DOMAIN arena \cup {n}
  BY <1>0, BirthIsTraced
<1>2. arena'[n] = b /\ b.tasks = TasksAhead(leg)
  BY <1>0, BirthIsTraced
<1>3. PathTo(n)' = q
  <2>1. PathIn(arena', n) = q
    BY <1>0, BirthIsTraced
  <2> QED BY <2>1 DEF PathTo, PathIn
<1>4. Queueing(leg, TasksAhead(leg), TargetsLeft(leg))
  BY ContinueIs
<1> HIDE DEF b
<1>5. current \in Seq(Nat) /\ next \in Seq(Nat) /\ n \in Nat
  <2>1. current \in Seq(Nat) /\ next \in Seq(Nat) /\ arena \in Seq(BranchType)
    BY DEF KInv, JInv, IInv, Typing
  <2>2. Len(arena) \in Nat
    BY <2>1
  <2> QED BY <1>0, <2>1, <2>2
<1>6. \/ current' = Append(current, n) /\ next' = next
      \/ current' = current /\ next' = Append(next, n)
  BY <1>1, <1>4 DEF Queueing
<1>7. /\ Range(Append(current, n)) = Range(current) \cup {n}
      /\ Range(Append(next, n)) = Range(next) \cup {n}
  BY <1>5, AppendFacts
<1> QED BY <1>1, <1>2, <1>3, <1>5, <1>6, <1>7

LEMMA BornIsPassed ==
    ASSUME KInv, NEW leg \in todo, ContinueStep(leg), NEW slot \in TasksAhead(leg),
           NEW q, q = Append(PathTo(expanding), leg), NEW p, Begins(q, p)
    PROVE  Passed(slot, p, Len(q))'
<1>1. PICK n \in Nat : /\ n \in DOMAIN arena' /\ PathTo(n)' = q
                       /\ arena'[n].tasks = TasksAhead(leg)
  BY BranchIsBorn
<1>2. OnTheWay(n, slot, p)'
  BY <1>1 DEF OnTheWay, Begins
<1> QED BY <1>1, <1>2 DEF Passed

\* The scopes that retain a branch.
Retaining(leg) == IF job.scope = "tree" /\ Wanted(leg) THEN {"tree"}
                  ELSE IF job.scope = "tree" THEN {} ELSE TasksAhead(leg)

LEMMA ContinueKnows ==
    ASSUME NEW leg \in todo, ContinueStep(leg)
    PROVE  known' = KnownAfter(Retaining(leg), Candidate(leg))
BY DEF ContinueStep, Retaining, Wanted, TasksAhead, Hopeful, TargetsAhead

\* What is known of a branch that is retained is known of a beginning that is
\* entered upon.
LEMMA RetainedIsSource ==
    ASSUME KInv, PInv, Pruning, NEW leg \in todo, ContinueStep(leg),
           Candidate(leg).m.boarded, NEW scope \in Retaining(leg),
           NEW e, e.m = Metrics(Candidate(leg).m),
           NEW k, k = <<scope, StateKey(Candidate(leg))>>
    PROVE  Source(k, e)'
<1>0. PICK q : q = Append(PathTo(expanding), leg)
  OBVIOUS
<1>1. /\ state = "scan" /\ ~Cycles(leg) /\ leg.to \in Stops
      /\ job' = job /\ kept' = kept /\ expanding' = expanding
  BY ContinueIs DEF Visiting
<1>2. /\ q \in Begun(job) /\ KeyOf(job, q) = StateKey(Candidate(leg))
      /\ MetricsOf(q) = Metrics(Candidate(leg).m)
  BY <1>0, <1>1, CandidateBegins
<1>3. k[1] = scope /\ k[2] = StateKey(Candidate(leg))
  OBVIOUS
<1>4. /\ q \in Begun(job)' /\ KeyOf(job, q)' = k[2] /\ MetricsOf(q)' = e.m
  BY <1>1, <1>2, <1>3, ComparedAlike
<1>5. ASSUME NEW slot \in DOMAIN kept, NEW p \in Sought(slot),
             job.scope = "tree" \/ k[1] = slot, Begins(q, p)
      PROVE  Passed(slot, p, Len(q))'
  <2>1. slot \in DOMAIN job.slots
    BY PruningIsPrepared
  <2>2. slot \in TasksAhead(leg) \/ Settled(slot, p)
    <3>1. CASE job.scope = "tree"
      BY <1>0, <1>1, <1>5, <2>1, <3>1, ServedAhead DEF Retaining
    <3>2. CASE job.scope # "tree"
      BY <1>3, <1>5, <3>2 DEF Retaining
    <3> QED BY <3>1, <3>2
  <2>3. CASE slot \in TasksAhead(leg)
    <3> QED BY <1>0, <1>5, <2>3, BornIsPassed
  <2>4. CASE Settled(slot, p)
    <3>1. Settled(slot, p)'
      BY <1>1, <2>4, SettledStays DEF TreeNext, Visit
    <3> QED BY <3>1 DEF Passed
  <2> QED BY <2>2, <2>3, <2>4
<1>6. \A slot : Sought(slot)' = Sought(slot)
  BY <1>1, SoughtStays
<1> QED BY <1>1, <1>4, <1>5, <1>6 DEF Source, Begins

LEMMA SequenceOfItsOwn ==
    ASSUME NEW S, NEW s \in Seq(S)
    PROVE  s \in Seq(Range(s)) /\ Range(s) \subseteq S
<1>1. Len(s) \in Nat /\ DOMAIN s = 1 .. Len(s) /\ s = [i \in 1 .. Len(s) |-> s[i]]
  OBVIOUS
<1>2. \A i \in 1 .. Len(s) : s[i] \in Range(s) /\ s[i] \in S
  BY <1>1 DEF Range
<1> QED BY <1>1, <1>2, IsASeq DEF Range

LEMMA ContinueKnownFrom ==
    ASSUME KInv, PInv, Pruning, NEW leg \in todo, ContinueStep(leg)
    PROVE  KnownFrom'
<1> DEFINE x == Candidate(leg)
           at(scope) == <<scope, StateKey(x)>>
           new == {at(scope) : scope \in Retaining(leg)}
<1>0. PICK e : e = [m |-> Metrics(x.m), label |-> None]
  OBVIOUS
<1>1. known' = KnownAfter(Retaining(leg), x)
  BY ContinueKnows
<1>2. Grown /\ [TreeNext]_tree_vars
  BY ContinueIs, StepsGrow DEF TreeNext, Visit, Visiting, Prepare
<1>3. ASSUME NEW k \in DOMAIN known
      PROVE  known[k] \in Seq(Range(known[k])) /\ \A f \in Range(known[k]) : Source(k, f)'
  BY <1>2, SourceStays DEF PInv, KnownFrom
<1>4. CASE ~x.m.boarded
  <2>1. known' = known
    BY <1>1, <1>4 DEF KnownAfter
  <2> QED BY <1>3, <2>1 DEF KnownFrom
<1>5. CASE x.m.boarded
  <2>1. /\ DOMAIN known' = DOMAIN known \cup new
        /\ \A k \in DOMAIN known \cup new :
             known'[k] = IF k \in new THEN Insert(KnownAt(k[1], x), Metrics(x.m), None)
                         ELSE known[k]
    BY <1>1, <1>5 DEF KnownAfter, Pruning
  <2>2. ASSUME NEW scope \in Retaining(leg), NEW k, k = at(scope)
        PROVE  /\ known'[k] \in Seq(Range(known'[k]))
               /\ \A f \in Range(known'[k]) : Source(k, f)'
    <3>1. PICK old : old = KnownAt(scope, x)
      OBVIOUS
    <3>2. k \in new /\ k[1] = scope
      BY <2>2
    <3>3. known'[k] = Insert(old, Metrics(x.m), None)
      BY <2>1, <3>1, <3>2
    <3>4. old \in Seq(Range(old)) /\ \A f \in Range(old) : Source(k, f)'
      <4>1. CASE k \in DOMAIN known
        <5>1. old = known[k]
          BY <2>2, <3>1, <4>1 DEF KnownAt
        <5> QED BY <1>3, <4>1, <5>1
      <4>2. CASE k \notin DOMAIN known
        <5>1. old = <<>>
          BY <2>2, <3>1, <4>2 DEF KnownAt
        <5> QED BY <5>1 DEF Range
      <4> QED BY <4>1, <4>2
    <3>5. Source(k, e)'
      <4>1. e.m = Metrics(x.m)
        BY <1>0
      <4> QED BY <1>5, <2>2, <4>1, RetainedIsSource
    <3> DEFINE S == Range(old) \cup {e}
    <3>6. Insert(old, Metrics(x.m), None) \in Seq(S)
      <4>1. old \in Seq(S) /\ [m |-> Metrics(x.m), label |-> None] \in S
        <5>1. Range(old) \subseteq S /\ [m |-> Metrics(x.m), label |-> None] \in S
          BY <1>0
        <5>2. old \in Seq(S)
          <6> HIDE DEF S
          <6> QED BY <3>4, <5>1
        <5> QED BY <5>1, <5>2
      <4> HIDE DEF S
      <4> QED BY <4>1, InsertedAre
    <3>7. \A f \in S : Source(k, f)'
      BY <3>4, <3>5
    <3> HIDE DEF S
    <3> QED BY <3>3, <3>6, <3>7, SequenceOfItsOwn
  <2>3. ASSUME NEW k \in DOMAIN known'
        PROVE  /\ known'[k] \in Seq(Range(known'[k]))
               /\ \A f \in Range(known'[k]) : Source(k, f)'
    <3>1. CASE k \in new
      BY <2>2, <3>1
    <3>2. CASE k \notin new
      <4>1. k \in DOMAIN known /\ known'[k] = known[k]
        BY <2>1, <3>2
      <4> QED BY <1>3, <4>1
    <3> QED BY <3>1, <3>2
  <2> QED BY <2>3 DEF KnownFrom
<1> QED BY <1>4, <1>5

LEMMA ContinuePrunes ==
    ASSUME KInv, PInv, NEW leg \in todo, ContinueStep(leg)
    PROVE  PInv'
<1>1. /\ [TreeNext]_tree_vars /\ ~Prepare /\ state = "scan" /\ todo' = todo \ {leg}
      /\ ~Cycles(leg) /\ leg.to \in Stops
      /\ job' = job /\ kept' = kept /\ UNCHANGED <<state, expanding>>
      /\ TasksAhead(leg) = {} => UNCHANGED <<arena, current, next>>
  BY ContinueIs DEF TreeNext, Visit, Visiting, Prepare
<1>2. Grown /\ \A slot : Sought(slot)' = Sought(slot)
  BY <1>1, StepsGrow, SoughtStays
<1>3. NothingKnown'
  BY <1>1 DEF NothingKnown
<1>4. CASE ~Pruning
  <2>1. ~Pruning'
    BY <1>1, <1>4, PruningBefore
  <2> QED BY <1>3, <2>1 DEF PInv, Entered, Followed, AllServed, KnownFrom
<1>5. CASE Pruning
  <2>1. DOMAIN kept = DOMAIN job.slots
    BY <1>5, PruningIsPrepared
  <2>2. \A i \in DOMAIN arena :
          /\ PathTo(i)' = PathTo(i) /\ arena'[i].tasks = arena[i].tasks
          /\ \A slot, p : OnTheWay(i, slot, p)' <=> OnTheWay(i, slot, p)
          /\ \A p : Begins(PathTo(i), p)' <=> Begins(PathTo(i), p)
    BY <1>2 DEF Grown, OnTheWay, Begins
  <2>3. /\ Range(current) \cup Range(next) \subseteq Range(current') \cup Range(next')
        /\ \A i \in DOMAIN arena' :
             \/ i \in DOMAIN arena
             \/ /\ i \in Range(current') \cup Range(next') /\ TasksAhead(leg) # {}
                /\ PathTo(i)' = Append(PathTo(expanding), leg)
                /\ arena'[i].tasks = TasksAhead(leg)
    <3>1. CASE TasksAhead(leg) = {}
      BY <1>1, <3>1
    <3>2. CASE TasksAhead(leg) # {}
      <4>1. PICK q : q = Append(PathTo(expanding), leg)
        OBVIOUS
      <4>2. PICK n \in Nat :
              /\ DOMAIN arena' = DOMAIN arena \cup {n}
              /\ n \in Range(current') \cup Range(next')
              /\ Range(current) \cup Range(next) \subseteq Range(current') \cup Range(next')
              /\ PathTo(n)' = q /\ arena'[n].tasks = TasksAhead(leg)
        BY <3>2, <4>1, BranchIsBorn
      <4> QED BY <3>2, <4>1, <4>2
    <3> QED BY <3>1, <3>2
  <2>4. Entered'
    <3>1. ASSUME NEW slot \in DOMAIN kept, NEW p \in Sought(slot)
          PROVE  Passed(slot, p, 0)'
      BY <1>1, <1>2, <1>5, PassedStays DEF PInv, Entered
    <3> QED BY <1>1, <1>2, <3>1 DEF Entered
  <2>5. ASSUME NEW slot \in DOMAIN kept, NEW p \in Sought(slot),
               NEW i \in DOMAIN arena, OnTheWay(i, slot, p)
        PROVE  GoesOn(i, p)' \/ Overtaken(slot, p, Len(PathTo(i)) + 1)'
    <3>1. PICK n : n = Len(PathTo(i)) + 1
      OBVIOUS
    <3>2. n = (Len(PathTo(i)) + 1)'
      BY <2>2, <3>1
    <3>3. GoesOn(i, p) \/ Overtaken(slot, p, n)
      BY <1>5, <2>5, <3>1 DEF PInv, Followed
    <3>4. CASE Overtaken(slot, p, n)
      <4>1. Overtaken(slot, p, n)'
        BY <1>1, <1>2, <3>4, OvertakenStays
      <4> QED BY <3>2, <4>1 DEF Overtaken
    <3>5. CASE GoesOn(i, p) /\ ~GoesOn(i, p)'
      <4>1. i = expanding /\ slot \in DOMAIN job.slots
            /\ p[Len(PathTo(expanding)) + 1] = leg
        BY <1>1, <2>2, <2>3, <2>5, <3>5, ScanGoesOn
      <4>2. PICK q : q = Append(PathTo(expanding), leg)
        OBVIOUS
      <4>3. Begins(q, p) /\ Len(q) = n /\ Len(q) \in 1 .. Len(p)
        BY <1>1, <2>5, <3>1, <4>1, <4>2, TriedLeg
      <4>4. Overtaken(slot, p, n)'
        <5>1. \/ slot \in TasksAhead(leg) \/ Settled(slot, p)
              \/ Overtaken(slot, p, n)
          BY <1>1, <1>5, <2>5, <3>1, <4>1, TriedIsAccounted
        <5>2. CASE Overtaken(slot, p, n)
          BY <1>1, <1>2, <5>2, OvertakenStays
        <5>3. CASE slot \in TasksAhead(leg) \/ Settled(slot, p)
          <6>1. Passed(slot, p, Len(q))'
            <7>1. CASE slot \in TasksAhead(leg)
              BY <4>2, <4>3, <7>1, BornIsPassed
            <7>2. CASE Settled(slot, p)
              <8>1. Settled(slot, p)'
                BY <1>1, <7>2, SettledStays
              <8> QED BY <8>1 DEF Passed
            <7> QED BY <5>3, <7>1, <7>2
          <6>2. Passed(slot, p, n)'
            BY <4>3, <6>1
          <6> QED BY <1>1, <4>1, <4>3, <6>2, NowOvertaken
        <5> QED BY <5>1, <5>2, <5>3
      <4> QED BY <3>2, <4>4 DEF Overtaken
    <3> QED BY <3>3, <3>4, <3>5
  <2>6. Followed'
    <3>1. ASSUME NEW slot \in DOMAIN kept, NEW p \in Sought(slot),
                 NEW i \in DOMAIN arena', OnTheWay(i, slot, p)'
          PROVE  GoesOn(i, p)' \/ Overtaken(slot, p, Len(PathTo(i)) + 1)'
      <4>1. CASE i \in DOMAIN arena
        BY <2>2, <2>5, <3>1, <4>1
      <4>2. CASE i \notin DOMAIN arena
        BY <2>3, <4>2 DEF GoesOn
      <4> QED BY <4>1, <4>2
    <3> QED BY <1>1, <1>2, <3>1 DEF Followed
  <2>7. AllServed'
    <3>1. ASSUME job.scope = "tree", NEW slot \in DOMAIN kept, NEW p \in Sought(slot),
                 NEW i \in DOMAIN arena', Begins(PathTo(i), p)'
          PROVE  slot \in arena'[i].tasks \/ Settled(slot, p)'
      <4>1. Settled(slot, p) => Settled(slot, p)'
        BY <1>1, SettledStays
      <4>2. CASE i \in DOMAIN arena
        <5>1. slot \in arena[i].tasks \/ Settled(slot, p)
          BY <1>5, <2>2, <3>1, <4>2 DEF PInv, AllServed
        <5> QED BY <2>2, <4>1, <4>2, <5>1
      <4>3. CASE i \notin DOMAIN arena
        <5>1. /\ PathTo(i)' = Append(PathTo(expanding), leg)
              /\ arena'[i].tasks = TasksAhead(leg) /\ Wanted(leg)
          BY <2>3, <4>3 DEF TasksAhead
        <5>2. Begins(Append(PathTo(expanding), leg), p)
          BY <3>1, <5>1 DEF Begins
        <5>3. slot \in TasksAhead(leg) \/ Settled(slot, p)
          BY <1>1, <1>5, <2>1, <3>1, <5>1, <5>2, ServedAhead
        <5> QED BY <4>1, <5>1, <5>3
      <4> QED BY <4>2, <4>3
    <3> QED BY <1>1, <1>2, <3>1 DEF AllServed
  <2>8. KnownFrom'
    BY <1>5, ContinueKnownFrom
  <2> QED BY <1>3, <2>4, <2>6, <2>7, <2>8 DEF PInv
<1> QED BY <1>4, <1>5

LEMMA StepsPrune ==
    ASSUME KInv, PInv, [TreeNext]_tree_vars
    PROVE  PInv'
<1>1. CASE Prepare
  BY <1>1, PreparePrunes
<1>2. CASE Cancel \/ Stop \/ AdvanceLevel \/ Exhaust \/ UNCHANGED tree_vars
  BY <1>2, RestPrunes
<1>3. CASE Pop
  BY <1>3, PopPrunes
<1>4. ASSUME NEW leg \in todo, RejectStep(leg)
      PROVE  PInv'
  BY <1>4, RejectPrunes
<1>5. ASSUME NEW leg \in todo, CompleteStep(leg)
      PROVE  PInv'
  BY <1>5, CompletePrunes
<1>6. ASSUME NEW leg \in todo, ContinueStep(leg)
      PROVE  PInv'
  BY <1>6, ContinuePrunes
<1>7. CASE FinishExpansion
  BY <1>7, FinishPrunes
<1> QED BY <1>1, <1>2, <1>3, <1>4, <1>5, <1>6, <1>7 DEF TreeNext, Visit

\* At the end: of the paths that are no worse than one and that the search has
\* entered upon, take one with the fewest legs to go.  It goes on nowhere, and
\* none with fewer legs to go overtakes it, so that it is settled.
LEMMA NoWorseIsSettled ==
    ASSUME KInv, PInv, Drained, Pruning, state = "exhausted",
           NEW slot \in DOMAIN kept, slot \in DOMAIN job.slots, NEW p \in Sought(slot)
    PROVE  \E d \in Sought(slot) :
               NoWorse(job, Measured(d), Measured(p)) /\ Settled(slot, d)
<1> DEFINE Left(d, m) == Len(d) - m
           Ahead(d, m) == NoWorse(job, Measured(d), Measured(p)) /\ Passed(slot, d, m)
           ToGo == {k \in Nat : \E d \in Sought(slot) : \E m \in 0 .. Len(d) :
                                    Ahead(d, m) /\ Len(d) - m = k}
<1>1. job \in Batches /\ \A d \in Sought(slot) : Len(d) \in Nat /\ Weighed(Measured(d))
  <2>1. job \in Batches
    BY DEF KInv, JInv, IInv, Typing
  <2>2. ASSUME NEW d \in Sought(slot)
        PROVE  Len(d) \in Nat /\ Weighed(Measured(d))
    <3>1. PathOf(job, d) /\ FewRides(d) /\ Ends(d) /\ Len(d) \in Nat
      BY <2>1, SoughtFields
    <3> QED BY <2>1, <3>1, WayOfPath
  <2> QED BY <2>1, <2>2
<1>2. ToGo # {}
  <2>1. Passed(slot, p, 0)
    BY DEF PInv, Entered
  <2>2. Ahead(p, 0)
    BY <1>1, <2>1, NoWorseOrders
  <2>3. 0 \in 0 .. Len(p) /\ Len(p) - 0 \in Nat
    BY <1>1
  <2> HIDE DEF Ahead
  <2>4. Len(p) - 0 \in ToGo
    BY <2>2, <2>3
  <2> QED BY <2>4
<1>3. PICK k \in ToGo : \A l \in ToGo : k <= l
  <2>1. ToGo \in SUBSET Nat
    OBVIOUS
  <2> HIDE DEF ToGo
  <2> QED BY <1>2, <2>1, LeastNumber
<1>4. PICK d \in Sought(slot) : \E m \in 0 .. Len(d) : Ahead(d, m) /\ Len(d) - m = k
  OBVIOUS
<1>5. PICK m \in 0 .. Len(d) : Ahead(d, m) /\ Len(d) - m = k
  BY <1>4
<1>6. CASE Settled(slot, d)
  BY <1>5, <1>6
<1>7. CASE ~Settled(slot, d)
  <2>1. PICK i \in DOMAIN arena : OnTheWay(i, slot, d) /\ Len(PathTo(i)) = m
    BY <1>5, <1>7 DEF Passed
  <2>2. ~GoesOn(i, d)
    BY DEF Drained, GoesOn
  <2>3. Overtaken(slot, d, m + 1)
    BY <2>1, <2>2 DEF PInv, Followed
  <2>4. PICK e \in Sought(slot) : \E n \in 0 .. Len(e) :
            /\ NoWorse(job, Measured(e), Measured(d))
            /\ Len(e) - n <= Len(d) - (m + 1) /\ Passed(slot, e, n)
    BY <2>3 DEF Overtaken
  <2>5. PICK n \in 0 .. Len(e) :
            /\ NoWorse(job, Measured(e), Measured(d))
            /\ Len(e) - n <= Len(d) - (m + 1) /\ Passed(slot, e, n)
    BY <2>4
  <2>6. NoWorse(job, Measured(e), Measured(p))
    BY <1>1, <1>5, <2>5, NoWorseOrders
  <2>7. Ahead(e, n) /\ Len(e) - n \in Nat /\ ~(k <= Len(e) - n)
    <3>1. Len(e) \in Nat /\ Len(d) \in Nat
      BY <1>1
    <3>2. Len(e) - n \in Nat /\ ~(k <= Len(e) - n)
      BY <1>5, <2>5, <3>1
    <3> QED BY <2>5, <2>6, <3>2
  <2> HIDE DEF Ahead
  <2>8. Len(e) - n \in ToGo
    BY <2>7
  <2> QED BY <1>3, <2>7, <2>8
<1> QED BY <1>6, <1>7

LEMMA SettledIsMatched ==
    ASSUME KInv, state = "exhausted", job.rollout = "exact_only",
           NEW slot \in DOMAIN kept, slot \in DOMAIN job.slots, NEW p \in Sought(slot),
           Measured(p) \in Undominated(OfferedTo(slot)), NEW d \in Sought(slot),
           NoWorse(job, Measured(d), Measured(p)), Settled(slot, d)
    PROVE  MatchedOrShadowed(slot, Measured(p))
<1> DEFINE c == Measured(p)
           b == Measured(d)
           O == OfferedTo(slot)
<1>1. job \in Batches /\ KeptFrom(slot, kept[slot])
  BY DEF KInv, JInv, IInv, Typing, AllKeptFrom
<1>2. \A q \in Sought(slot) : Weighed(Measured(q))
  <2>1. ASSUME NEW q \in Sought(slot)
        PROVE  Weighed(Measured(q))
    <3>1. PathOf(job, q) /\ FewRides(q) /\ Ends(q)
      BY <1>1, SoughtFields
    <3> QED BY <1>1, <3>1, WayOfPath
  <2> QED BY <2>1
<1>3. Admissible(slot, c) /\ \A k \in O : ~Complete!Dominates(job.direct_barred, k, c)
  BY <1>1, OfferedToIs DEF Undominated
<1>4. kept[slot] \subseteq O /\ \A k \in kept[slot] : Weighed(k)
  <2>1. \A k \in kept[slot] : Admissible(slot, k) /\ \E q \in Sought(slot) : k = Measured(q)
    BY <1>1 DEF KeptFrom
  <2> QED BY <1>1, <1>2, <2>1, OfferedToIs
<1>5. Weighed(c) /\ Weighed(b)
  BY <1>2
<1>6. \/ b.dep = c.dep /\ b.arr = c.arr /\ b.nt = c.nt /\ b.imp = c.imp
      \/ Complete!Dominates(job.direct_barred, b, c)
  <2> HIDE DEF b, c
  <2> QED BY <1>5, NoWorseIs DEF b, c
<1>7. b \in Offered /\ b.path[Len(b.path)].to = job.slots[slot].to
  <2>1. /\ d \in Seq(job.network) /\ PathOf(job, d) /\ FewRides(d) /\ Ends(d)
        /\ d[Len(d)].to = job.slots[slot].to
    BY DEF Sought
  <2> QED BY <1>1, <2>1, OfferedAre, PathOfMeasured
<1>8. CASE ~Admissible(slot, b)
  <2>1. ~(b.dep = c.dep /\ b.arr = c.arr)
    BY <1>3, <1>8 DEF Admissible
  <2> QED BY <1>6, <1>7, <1>8, <2>1 DEF MatchedOrShadowed
<1>9. CASE b \in kept[slot]
  <2>1. b.dep = c.dep /\ b.arr = c.arr /\ b.nt = c.nt /\ b.imp = c.imp
    BY <1>3, <1>4, <1>6, <1>9
  <2>2. Vectors({c}) \subseteq Vectors(kept[slot])
    <3> HIDE DEF b, c
    <3> QED BY <1>9, <2>1 DEF Vectors
  <2> QED BY <2>2 DEF MatchedOrShadowed
<1>10. CASE NoUse(job, kept[slot], b)
  <2>1. PICK k \in kept[slot] : Complete!Dominates(job.direct_barred, k, b)
    BY <1>10 DEF NoUse
  <2>2. Complete!Dominates(job.direct_barred, k, c)
    <3>1. CASE Complete!Dominates(job.direct_barred, b, c)
      <4> HIDE DEF b, c
      <4> QED BY <1>4, <1>5, <2>1, <3>1, DominanceOrders
    <3>2. CASE b.dep = c.dep /\ b.arr = c.arr /\ b.nt = c.nt /\ b.imp = c.imp
      <4> HIDE DEF b, c
      <4> QED BY <2>1, <3>2 DEF Complete!Dominates
    <3> QED BY <1>6, <3>1, <3>2
  <2> QED BY <1>3, <1>4, <2>2
<1> QED BY <1>8, <1>9, <1>10 DEF Settled

LEMMA PrunedTreesLoseNothing ==
    ASSUME KInv, PInv, Drained
    PROVE  SafePruningLosesNothing
<1> SUFFICES ASSUME state = "exhausted", job \in SafeBatches, job.plan = "exact",
                    job.rollout = "exact_only", job.allow_end_wait,
                    NEW slot \in DOMAIN job.slots,
                    NEW c \in Undominated(OfferedTo(slot))
             PROVE  MatchedOrShadowed(slot, c)
  BY DEF SafePruningLosesNothing, NoneLost
<1>1. Pruning /\ job \in Batches
  BY DEF Pruning, KInv, JInv, IInv, Typing
<1>2. slot \in DOMAIN kept
  BY <1>1, PruningIsPrepared
<1>3. PICK p \in Sought(slot) : c = Measured(p)
  BY <1>1, OfferedToIs DEF Undominated
<1>4. PICK d \in Sought(slot) :
          NoWorse(job, Measured(d), Measured(p)) /\ Settled(slot, d)
  BY <1>1, <1>2, NoWorseIsSettled
<1> QED BY <1>2, <1>3, <1>4, SettledIsMatched

\* In a tree with exact pruning, where search states with one key have the
\* same future: whatever is best on offer to a slot is matched by what it has
\* kept when the tree has run to its end, unless something outside the slot's
\* window dominates it.
THEOREM PruningLosesNothing == TreeSpec => []SafePruningLosesNothing
<1>1. TreeInit => PInv
  BY DEF TreeInit, PInv, Entered, Followed, AllServed, KnownFrom, NothingKnown, Pruning
<1>2. KInv /\ PInv /\ [TreeNext]_tree_vars => PInv'
  BY StepsPrune
<1>3. KInv /\ PInv /\ Drained => SafePruningLosesNothing
  BY PrunedTreesLoseNothing
<1> QED BY <1>1, <1>2, <1>3, TracesInvariant, NothingIsInHand, PTL DEF TreeSpec
==============================================================================
