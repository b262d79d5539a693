------------------------ MODULE ParallelBatches_proof ------------------------
(***************************************************************************)
(* Proofs about ParallelBatches, for every number of batches and workers   *)
(* and every set of faults.                                                *)
(***************************************************************************)
EXTENDS ParallelBatches, FiniteSetTheorems, TLAPS

\* Between its claim and MarkCompleted or its return, a worker has a batch.
Holding ==
    \A w \in Workers :
        pc[w] \in InStep \cup {"complete", "cancelled"} => batch[w] \in Batches

\* Every action preserves the types of the pool's variables.
LEMMA TypeStep ==
    TypeOK /\ Holding /\ [Next]_vars => TypeOK' /\ Holding'
<1> SUFFICES ASSUME TypeOK, Holding, [Next]_vars PROVE TypeOK' /\ Holding'
  OBVIOUS
<1> USE CountAssumption DEF TypeOK, Workers, Batches, NoBatch, NoOne, PCs,
        Returned, Unspawned, Holding, InStep, Delivering
<1>1. CASE Caller
  <2> USE DEF runtime, sink, main
  <2>1. CASE Spawn
    BY <2>1 DEF Spawn
  <2>2. CASE SpawnFails
    BY <2>2 DEF SpawnFails
  <2>5. CASE StartGathering
    BY <2>5 DEF StartGathering
  <2>3. CASE Gather
    <3>1. cancellation' \in BOOLEAN /\ first_worker_error' \in Workers \cup {NoOne}
      BY <2>3 DEF Gather
    <3>2. waiting_on' \in 0 .. WorkerCount
      BY <2>3 DEF Gather
    <3> QED BY <2>3, <3>1, <3>2 DEF Gather
  <2>4. CASE GatherThrows \/ Return \/ Unwind
    BY <2>4 DEF GatherThrows, Return, Unwind
  <2> QED BY <1>1, <2>1, <2>2, <2>3, <2>4, <2>5 DEF Caller
<1>2. ASSUME NEW w \in Workers, Worker(w) PROVE TypeOK' /\ Holding'
  <2> USE DEF Goto, runtime, sink, main
  <2>1. CASE CheckCancelled(w)
    BY <2>1 DEF CheckCancelled
  <2>2. CASE Claim(w)
    <3>1. CASE next_batch < BatchCount
      <4>1. batch' \in [Workers -> Batches \cup {NoBatch}]
        BY <2>2, <3>1 DEF Claim
      <4>2. pc' = [pc EXCEPT ![w] = "search"] /\ batch'[w] \in Batches
        BY <2>2, <3>1 DEF Claim
      <4>3. Holding'
        BY <2>2, <3>1, <4>2 DEF Claim
      <4> QED BY <2>2, <3>1, <4>1, <4>2, <4>3 DEF Claim
    <3>2. CASE ~(next_batch < BatchCount)
      BY <2>2, <3>2 DEF Claim
    <3> QED BY <3>1, <3>2
  <2>3. CASE SearchEnds(w) \/ SearchFails(w)
    BY <2>3 DEF SearchEnds, SearchFails
  <2>4. CASE Recheck(w)
    BY <2>4 DEF Recheck
  <2>12. CASE Count(w)
    BY <2>12 DEF Count
  <2>5. CASE LockSink(w)
    BY <2>5 DEF LockSink
  <2>6. CASE LoadDemand(w) \/ LoadDemandFails(w)
    BY <2>6 DEF LoadDemand, LoadDemandFails
  <2>7. CASE MergeChoice(w)
    BY <2>7 DEF MergeChoice
  <2>8. CASE Accumulate(w)
    BY <2>8 DEF Accumulate
  <2>9. CASE AccumulateFails(w) \/ UnlockSink(w)
    BY <2>9 DEF AccumulateFails, UnlockSink
  <2>10. CASE MarkCompleted(w)
    BY <2>10 DEF MarkCompleted
  <2>13. CASE MarkCancelled(w)
    BY <2>13 DEF MarkCancelled
  <2>14. CASE RequestCancellation(w)
    BY <2>14 DEF RequestCancellation
  <2>11. CASE Throw(w)
    BY <2>11 DEF Throw
  <2> QED BY <1>2, <2>1, <2>2, <2>3, <2>4, <2>5, <2>6, <2>7, <2>8, <2>9,
             <2>10, <2>11, <2>12, <2>13, <2>14 DEF Worker
<1>3. CASE UNCHANGED vars
  BY <1>3 DEF vars, runtime, sink, main
<1> QED BY <1>1, <1>2, <1>3 DEF Next

-----------------------------------------------------------------------------
(* The inductive invariant                                                 *)

\* The caller spawns the workers in order.
SpawnOrder ==
    caller = "spawning" =>
        \A w \in Workers : w >= waiting_on => pc[w] = Unspawned

\* A batch that a worker holds was claimed by that worker only.
Ownership ==
    /\ \A w \in Workers : batch[w] < next_batch
    /\ \A w \in Workers :
            pc[w] \in {Unspawned, "check", "claim"} => batch[w] = NoBatch
    /\ \A v, w \in Workers :
            batch[v] = batch[w] /\ batch[v] # NoBatch => v = w

\* Exactly the worker inside the sink holds its mutex.
MutexHeld == \A w \in Workers : pc[w] \in Delivering <=> sink_mutex = w

\* A part of the accumulation lists claimed batches once each; one still in a
\* worker's hands is listed only when the worker is at one of the given places.
ListedFrom(s, places) ==
    /\ Injective(s)
    /\ \A i \in DOMAIN s : s[i] < next_batch
    /\ \A w \in Workers, i \in DOMAIN s : s[i] = batch[w] => pc[w] \in places

PastSummary == Delivering \cup {"complete"} \cup Broken
PastChoice  == {"accumulate", "unlock", "complete"} \cup Broken
PastLoads   == {"unlock", "complete"}

Listed ==
    /\ ListedFrom(summary, PastSummary)
    /\ ListedFrom(choice, PastChoice)
    /\ ListedFrom(loads, PastLoads)

\* A tree stops early only for the token, and its worker goes no further than
\* the second look at the token.
Stopped ==
    \A w \in Workers :
        tree[w] = "stopped" =>
            cancellation /\ pc[w] \in {"recheck", "cancelled", "ok"}

\* Unless a step broke, the parts of the accumulation differ by at most the
\* batch of the worker inside the sink.
Coherent ==
    (\A w \in Workers : pc[w] \notin Broken) =>
        /\ sink_mutex = NoOne => summary = choice /\ choice = loads
        /\ \A w \in Workers :
            /\ pc[w] \in {"load", "merge"} =>
                    summary = Append(choice, batch[w]) /\ choice = loads
            /\ pc[w] = "accumulate" =>
                    summary = choice /\ choice = Append(loads, batch[w])
            /\ pc[w] = "unlock" => summary = choice /\ choice = loads

\* No claimed batch is forgotten by a worker that goes on to the next one.
Covered ==
    /\ \A b \in Batches :
            b < next_batch =>
                b \in SetOf(loads) \/ \E w \in Workers : batch[w] = b
    /\ \A w \in Workers :
            pc[w] \in {"unlock", "complete"} => batch[w] \in SetOf(loads)

\* Why a worker may return ok, and who sets the token.
Quiet ==
    /\ cancellation => \E w \in Workers : pc[w] = "error"
    /\ \A w \in Workers : pc[w] = "cancelled" => cancellation
    /\ \A w \in Workers : pc[w] = "ok" =>
            cancellation \/ (next_batch >= BatchCount /\ batch[w] = NoBatch)

\* What the caller knows of the workers whose results it has taken.
Gathered ==
    /\ caller = "spawning" => first_worker_error = NoOne
    /\ caller \in {"gathering", "returned"} =>
        \A w \in Workers : w < waiting_on =>
            /\ pc[w] \in {"ok", "error"}
            /\ pc[w] = "error" =>
                    first_worker_error # NoOne /\ first_worker_error <= w
    /\ first_worker_error # NoOne => pc[first_worker_error] = "error"
    /\ caller \in {"gathering", "returned"} => first_worker_error < waiting_on
    /\ caller = "returned" => waiting_on = WorkerCount
    /\ caller = "raised" =>
            \A w \in Workers : pc[w] \in Returned \cup {Unspawned}

IInv ==
    /\ TypeOK   /\ Holding /\ SpawnOrder /\ Ownership /\ MutexHeld
    /\ Listed   /\ Stopped /\ Coherent   /\ Covered
    /\ Quiet    /\ Gathered

-----------------------------------------------------------------------------
(* Each part of the invariant is preserved by every step                   *)

\* No worker runs before it is spawned, and the caller spawns them in order.
LEMMA SpawnOrderStep ==
    IInv /\ [Next]_vars => SpawnOrder'
<1> SUFFICES ASSUME TypeOK, SpawnOrder, [Next]_vars PROVE SpawnOrder'
  BY DEF IInv
<1> USE CountAssumption DEF Goto, runtime, sink, main, TypeOK, Workers, Batches, NoBatch, NoOne, Unspawned, SpawnOrder
<1>1. CASE Caller
  <2>1. CASE Spawn
    BY <2>1 DEF Spawn
  <2>2. CASE SpawnFails
    BY <2>2 DEF SpawnFails
  <2>3. CASE StartGathering
    BY <2>3 DEF StartGathering
  <2>4. CASE Gather
    BY <2>4 DEF Gather
  <2>5. CASE GatherThrows
    BY <2>5 DEF GatherThrows
  <2>6. CASE Return
    BY <2>6 DEF Return
  <2>7. CASE Unwind
    BY <2>7 DEF Unwind
  <2> QED BY <1>1, <2>1, <2>2, <2>3, <2>4, <2>5, <2>6, <2>7 DEF Caller
<1>2. ASSUME NEW w \in Workers, Worker(w) PROVE SpawnOrder'
  <2>1. CASE CheckCancelled(w)
    BY <2>1 DEF CheckCancelled
  <2>2. CASE Claim(w)
    BY <2>2 DEF Claim
  <2>3. CASE SearchEnds(w)
    BY <2>3 DEF SearchEnds
  <2>4. CASE SearchFails(w)
    BY <2>4 DEF SearchFails
  <2>5. CASE Recheck(w)
    BY <2>5 DEF Recheck
  <2>6. CASE Count(w)
    BY <2>6 DEF Count
  <2>7. CASE LockSink(w)
    BY <2>7 DEF LockSink
  <2>8. CASE LoadDemand(w)
    BY <2>8 DEF LoadDemand
  <2>9. CASE LoadDemandFails(w)
    BY <2>9 DEF LoadDemandFails
  <2>10. CASE MergeChoice(w)
    BY <2>10 DEF MergeChoice
  <2>11. CASE Accumulate(w)
    BY <2>11 DEF Accumulate
  <2>12. CASE AccumulateFails(w)
    BY <2>12 DEF AccumulateFails
  <2>13. CASE UnlockSink(w)
    BY <2>13 DEF UnlockSink
  <2>14. CASE MarkCompleted(w)
    BY <2>14 DEF MarkCompleted
  <2>15. CASE MarkCancelled(w)
    BY <2>15 DEF MarkCancelled
  <2>16. CASE RequestCancellation(w)
    BY <2>16 DEF RequestCancellation
  <2>17. CASE Throw(w)
    BY <2>17 DEF Throw
  <2> QED BY <1>2, <2>1, <2>2, <2>3, <2>4, <2>5, <2>6, <2>7, <2>8, <2>9, <2>10, <2>11, <2>12, <2>13, <2>14, <2>15, <2>16, <2>17 DEF Worker
<1>3. CASE UNCHANGED vars
  BY <1>3 DEF vars
<1> QED BY <1>1, <1>2, <1>3 DEF Next

\* fetch_add gives every claim a batch of its own.
LEMMA OwnershipStep ==
    IInv /\ [Next]_vars => Ownership'
<1> SUFFICES ASSUME TypeOK, Holding, SpawnOrder, Ownership, [Next]_vars PROVE Ownership'
  BY DEF IInv
<1> USE CountAssumption DEF Goto, runtime, sink, main, TypeOK, Workers, Batches, NoBatch, NoOne, Unspawned, SpawnOrder, Ownership
<1>1. CASE Caller
  <2>1. CASE Spawn
    BY <2>1 DEF Spawn
  <2>2. CASE SpawnFails
    BY <2>2 DEF SpawnFails
  <2>3. CASE StartGathering
    BY <2>3 DEF StartGathering
  <2>4. CASE Gather
    BY <2>4 DEF Gather
  <2>5. CASE GatherThrows
    BY <2>5 DEF GatherThrows
  <2>6. CASE Return
    BY <2>6 DEF Return
  <2>7. CASE Unwind
    BY <2>7 DEF Unwind
  <2> QED BY <1>1, <2>1, <2>2, <2>3, <2>4, <2>5, <2>6, <2>7 DEF Caller
<1>2. ASSUME NEW w \in Workers, Worker(w) PROVE Ownership'
  <2>1. CASE CheckCancelled(w)
    BY <2>1 DEF CheckCancelled
  <2>2. CASE Claim(w)
    <3>0. next_batch \in Nat /\ \A v \in Workers : batch[v] \in Int
      OBVIOUS
    <3>3. \A v \in Workers : batch[v] < next_batch + 1
      BY <3>0
    <3>1. CASE next_batch < BatchCount
      <4>1. /\ next_batch' = next_batch + 1
            /\ pc' = [pc EXCEPT ![w] = "search"]
            /\ batch' = [batch EXCEPT ![w] = next_batch]
        BY <2>2, <3>1 DEF Claim
      <4>2. \A v \in Workers : batch'[v] < next_batch'
        BY <3>0, <3>3, <4>1
      <4>3. \A v \in Workers : batch'[v] = batch'[w] => v = w
        BY <4>1
      <4> QED BY <2>2, <4>1, <4>2, <4>3 DEF Claim
    <3>2. CASE ~(next_batch < BatchCount)
      BY <2>2, <3>2, <3>3 DEF Claim
    <3> QED BY <3>1, <3>2
  <2>3. CASE SearchEnds(w)
    BY <2>3 DEF SearchEnds
  <2>4. CASE SearchFails(w)
    BY <2>4 DEF SearchFails
  <2>5. CASE Recheck(w)
    BY <2>5 DEF Recheck
  <2>6. CASE Count(w)
    BY <2>6 DEF Count
  <2>7. CASE LockSink(w)
    BY <2>7 DEF LockSink
  <2>8. CASE LoadDemand(w)
    BY <2>8 DEF LoadDemand
  <2>9. CASE LoadDemandFails(w)
    BY <2>9 DEF LoadDemandFails
  <2>10. CASE MergeChoice(w)
    BY <2>10 DEF MergeChoice
  <2>11. CASE Accumulate(w)
    BY <2>11 DEF Accumulate
  <2>12. CASE AccumulateFails(w)
    BY <2>12 DEF AccumulateFails
  <2>13. CASE UnlockSink(w)
    BY <2>13 DEF UnlockSink
  <2>14. CASE MarkCompleted(w)
    BY <2>14 DEF MarkCompleted
  <2>15. CASE MarkCancelled(w)
    BY <2>15 DEF MarkCancelled
  <2>16. CASE RequestCancellation(w)
    BY <2>16 DEF RequestCancellation
  <2>17. CASE Throw(w)
    BY <2>17 DEF Throw
  <2> QED BY <1>2, <2>1, <2>2, <2>3, <2>4, <2>5, <2>6, <2>7, <2>8, <2>9, <2>10, <2>11, <2>12, <2>13, <2>14, <2>15, <2>16, <2>17 DEF Worker
<1>3. CASE UNCHANGED vars
  BY <1>3 DEF vars
<1> QED BY <1>1, <1>2, <1>3 DEF Next

\* The sink is entered through its mutex and left by releasing it.
LEMMA MutexStep ==
    IInv /\ [Next]_vars => MutexHeld'
<1> SUFFICES ASSUME TypeOK, SpawnOrder, MutexHeld, [Next]_vars PROVE MutexHeld'
  BY DEF IInv
<1> USE CountAssumption DEF Goto, runtime, sink, main, TypeOK, Workers, Batches, NoBatch, NoOne, Unspawned, SpawnOrder, MutexHeld, Delivering
<1>1. CASE Caller
  <2>1. CASE Spawn
    BY <2>1 DEF Spawn
  <2>2. CASE SpawnFails
    BY <2>2 DEF SpawnFails
  <2>3. CASE StartGathering
    BY <2>3 DEF StartGathering
  <2>4. CASE Gather
    BY <2>4 DEF Gather
  <2>5. CASE GatherThrows
    BY <2>5 DEF GatherThrows
  <2>6. CASE Return
    BY <2>6 DEF Return
  <2>7. CASE Unwind
    BY <2>7 DEF Unwind
  <2> QED BY <1>1, <2>1, <2>2, <2>3, <2>4, <2>5, <2>6, <2>7 DEF Caller
<1>2. ASSUME NEW w \in Workers, Worker(w) PROVE MutexHeld'
  <2>1. CASE CheckCancelled(w)
    BY <2>1 DEF CheckCancelled
  <2>2. CASE Claim(w)
    BY <2>2 DEF Claim
  <2>3. CASE SearchEnds(w)
    BY <2>3 DEF SearchEnds
  <2>4. CASE SearchFails(w)
    BY <2>4 DEF SearchFails
  <2>5. CASE Recheck(w)
    BY <2>5 DEF Recheck
  <2>6. CASE Count(w)
    BY <2>6 DEF Count
  <2>7. CASE LockSink(w)
    BY <2>7 DEF LockSink
  <2>8. CASE LoadDemand(w)
    BY <2>8 DEF LoadDemand
  <2>9. CASE LoadDemandFails(w)
    BY <2>9 DEF LoadDemandFails
  <2>10. CASE MergeChoice(w)
    BY <2>10 DEF MergeChoice
  <2>11. CASE Accumulate(w)
    BY <2>11 DEF Accumulate
  <2>12. CASE AccumulateFails(w)
    BY <2>12 DEF AccumulateFails
  <2>13. CASE UnlockSink(w)
    BY <2>13 DEF UnlockSink
  <2>14. CASE MarkCompleted(w)
    BY <2>14 DEF MarkCompleted
  <2>15. CASE MarkCancelled(w)
    BY <2>15 DEF MarkCancelled
  <2>16. CASE RequestCancellation(w)
    BY <2>16 DEF RequestCancellation
  <2>17. CASE Throw(w)
    BY <2>17 DEF Throw
  <2> QED BY <1>2, <2>1, <2>2, <2>3, <2>4, <2>5, <2>6, <2>7, <2>8, <2>9, <2>10, <2>11, <2>12, <2>13, <2>14, <2>15, <2>16, <2>17 DEF Worker
<1>3. CASE UNCHANGED vars
  BY <1>3 DEF vars
<1> QED BY <1>1, <1>2, <1>3 DEF Next

\* A stopped tree is noticed by the second look at the token.
LEMMA StoppedStep ==
    IInv /\ [Next]_vars => Stopped'
<1> SUFFICES ASSUME TypeOK, SpawnOrder, Stopped, [Next]_vars PROVE Stopped'
  BY DEF IInv
<1> USE CountAssumption DEF Goto, runtime, sink, main, TypeOK, Workers, Batches, NoBatch, NoOne, Unspawned, SpawnOrder, Stopped
<1>1. CASE Caller
  <2>1. CASE Spawn
    BY <2>1 DEF Spawn
  <2>2. CASE SpawnFails
    BY <2>2 DEF SpawnFails
  <2>3. CASE StartGathering
    BY <2>3 DEF StartGathering
  <2>4. CASE Gather
    BY <2>4 DEF Gather
  <2>5. CASE GatherThrows
    BY <2>5 DEF GatherThrows
  <2>6. CASE Return
    BY <2>6 DEF Return
  <2>7. CASE Unwind
    BY <2>7 DEF Unwind
  <2> QED BY <1>1, <2>1, <2>2, <2>3, <2>4, <2>5, <2>6, <2>7 DEF Caller
<1>2. ASSUME NEW w \in Workers, Worker(w) PROVE Stopped'
  <2>1. CASE CheckCancelled(w)
    BY <2>1 DEF CheckCancelled
  <2>2. CASE Claim(w)
    BY <2>2 DEF Claim
  <2>3. CASE SearchEnds(w)
    BY <2>3 DEF SearchEnds
  <2>4. CASE SearchFails(w)
    BY <2>4 DEF SearchFails
  <2>5. CASE Recheck(w)
    BY <2>5 DEF Recheck
  <2>6. CASE Count(w)
    BY <2>6 DEF Count
  <2>7. CASE LockSink(w)
    BY <2>7 DEF LockSink
  <2>8. CASE LoadDemand(w)
    BY <2>8 DEF LoadDemand
  <2>9. CASE LoadDemandFails(w)
    BY <2>9 DEF LoadDemandFails
  <2>10. CASE MergeChoice(w)
    BY <2>10 DEF MergeChoice
  <2>11. CASE Accumulate(w)
    BY <2>11 DEF Accumulate
  <2>12. CASE AccumulateFails(w)
    BY <2>12 DEF AccumulateFails
  <2>13. CASE UnlockSink(w)
    BY <2>13 DEF UnlockSink
  <2>14. CASE MarkCompleted(w)
    BY <2>14 DEF MarkCompleted
  <2>15. CASE MarkCancelled(w)
    BY <2>15 DEF MarkCancelled
  <2>16. CASE RequestCancellation(w)
    BY <2>16 DEF RequestCancellation
  <2>17. CASE Throw(w)
    BY <2>17 DEF Throw
  <2> QED BY <1>2, <2>1, <2>2, <2>3, <2>4, <2>5, <2>6, <2>7, <2>8, <2>9, <2>10, <2>11, <2>12, <2>13, <2>14, <2>15, <2>16, <2>17 DEF Worker
<1>3. CASE UNCHANGED vars
  BY <1>3 DEF vars
<1> QED BY <1>1, <1>2, <1>3 DEF Next

\* A worker returns ok only when the batches or the search are over.
LEMMA QuietStep ==
    IInv /\ [Next]_vars => Quiet'
<1> SUFFICES ASSUME TypeOK, SpawnOrder, Ownership, Quiet, [Next]_vars PROVE Quiet'
  BY DEF IInv
<1> USE CountAssumption DEF Goto, runtime, sink, main, TypeOK, Workers, Batches, NoBatch, NoOne, Unspawned, SpawnOrder, Ownership, Quiet
<1>1. CASE Caller
  <2>1. CASE Spawn
    BY <2>1 DEF Spawn
  <2>2. CASE SpawnFails
    BY <2>2 DEF SpawnFails
  <2>3. CASE StartGathering
    BY <2>3 DEF StartGathering
  <2>4. CASE Gather
    BY <2>4 DEF Gather
  <2>5. CASE GatherThrows
    BY <2>5 DEF GatherThrows
  <2>6. CASE Return
    BY <2>6 DEF Return
  <2>7. CASE Unwind
    BY <2>7 DEF Unwind
  <2> QED BY <1>1, <2>1, <2>2, <2>3, <2>4, <2>5, <2>6, <2>7 DEF Caller
<1>2. ASSUME NEW w \in Workers, Worker(w) PROVE Quiet'
  <2>1. CASE CheckCancelled(w)
    BY <2>1 DEF CheckCancelled
  <2>2. CASE Claim(w)
    <3>1. CASE next_batch < BatchCount
      BY <2>2, <3>1, SMTT(30) DEF Claim
    <3>2. CASE ~(next_batch < BatchCount)
      BY <2>2, <3>2 DEF Claim
    <3> QED BY <3>1, <3>2
  <2>3. CASE SearchEnds(w)
    BY <2>3 DEF SearchEnds
  <2>4. CASE SearchFails(w)
    BY <2>4 DEF SearchFails
  <2>5. CASE Recheck(w)
    BY <2>5 DEF Recheck
  <2>6. CASE Count(w)
    BY <2>6 DEF Count
  <2>7. CASE LockSink(w)
    BY <2>7 DEF LockSink
  <2>8. CASE LoadDemand(w)
    BY <2>8 DEF LoadDemand
  <2>9. CASE LoadDemandFails(w)
    BY <2>9 DEF LoadDemandFails
  <2>10. CASE MergeChoice(w)
    BY <2>10 DEF MergeChoice
  <2>11. CASE Accumulate(w)
    BY <2>11 DEF Accumulate
  <2>12. CASE AccumulateFails(w)
    BY <2>12 DEF AccumulateFails
  <2>13. CASE UnlockSink(w)
    BY <2>13 DEF UnlockSink
  <2>14. CASE MarkCompleted(w)
    BY <2>14 DEF MarkCompleted
  <2>15. CASE MarkCancelled(w)
    BY <2>15 DEF MarkCancelled
  <2>16. CASE RequestCancellation(w)
    BY <2>16 DEF RequestCancellation
  <2>17. CASE Throw(w)
    BY <2>17 DEF Throw
  <2> QED BY <1>2, <2>1, <2>2, <2>3, <2>4, <2>5, <2>6, <2>7, <2>8, <2>9, <2>10, <2>11, <2>12, <2>13, <2>14, <2>15, <2>16, <2>17 DEF Worker
<1>3. CASE UNCHANGED vars
  BY <1>3 DEF vars
<1> QED BY <1>1, <1>2, <1>3 DEF Next

\* A worker's result does not change after the caller has taken it.
LEMMA GatheredStep ==
    IInv /\ [Next]_vars => Gathered'
<1> SUFFICES ASSUME TypeOK, SpawnOrder, Gathered, [Next]_vars PROVE Gathered'
  BY DEF IInv
<1> USE CountAssumption DEF Goto, runtime, sink, main, TypeOK, Workers, Batches, NoBatch, NoOne, Unspawned, SpawnOrder, Gathered, Returned
<1>1. CASE Caller
  <2>1. CASE Spawn
    BY <2>1 DEF Spawn
  <2>2. CASE SpawnFails
    BY <2>2 DEF SpawnFails
  <2>3. CASE StartGathering
    BY <2>3 DEF StartGathering
  <2>4. CASE Gather
    <3>1. CASE pc[waiting_on] = "error" /\ first_worker_error = NoOne
      BY <2>4, <3>1 DEF Gather
    <3>2. CASE pc[waiting_on] = "error" /\ first_worker_error # NoOne
      <4>1. \A v \in Workers : v < waiting_on' => v < waiting_on \/ v = waiting_on
        BY <2>4 DEF Gather
      <4>2. first_worker_error <= waiting_on
        BY <2>4, <3>2 DEF Gather
      <4> QED BY <2>4, <3>2, <4>1, <4>2 DEF Gather
    <3>3. CASE pc[waiting_on] # "error"
      <4>1. \A v \in Workers : v < waiting_on' => v < waiting_on \/ v = waiting_on
        BY <2>4 DEF Gather
      <4> QED BY <2>4, <3>3, <4>1 DEF Gather
    <3> QED BY <3>1, <3>2, <3>3
  <2>5. CASE GatherThrows
    BY <2>5 DEF GatherThrows
  <2>6. CASE Return
    BY <2>6 DEF Return
  <2>7. CASE Unwind
    BY <2>7 DEF Unwind
  <2> QED BY <1>1, <2>1, <2>2, <2>3, <2>4, <2>5, <2>6, <2>7 DEF Caller
<1>2. ASSUME NEW w \in Workers, Worker(w) PROVE Gathered'
  <2>1. CASE CheckCancelled(w)
    BY <2>1 DEF CheckCancelled
  <2>2. CASE Claim(w)
    BY <2>2 DEF Claim
  <2>3. CASE SearchEnds(w)
    BY <2>3 DEF SearchEnds
  <2>4. CASE SearchFails(w)
    BY <2>4 DEF SearchFails
  <2>5. CASE Recheck(w)
    BY <2>5 DEF Recheck
  <2>6. CASE Count(w)
    BY <2>6 DEF Count
  <2>7. CASE LockSink(w)
    BY <2>7 DEF LockSink
  <2>8. CASE LoadDemand(w)
    BY <2>8 DEF LoadDemand
  <2>9. CASE LoadDemandFails(w)
    BY <2>9 DEF LoadDemandFails
  <2>10. CASE MergeChoice(w)
    BY <2>10 DEF MergeChoice
  <2>11. CASE Accumulate(w)
    BY <2>11 DEF Accumulate
  <2>12. CASE AccumulateFails(w)
    BY <2>12 DEF AccumulateFails
  <2>13. CASE UnlockSink(w)
    BY <2>13 DEF UnlockSink
  <2>14. CASE MarkCompleted(w)
    BY <2>14 DEF MarkCompleted
  <2>15. CASE MarkCancelled(w)
    BY <2>15 DEF MarkCancelled
  <2>16. CASE RequestCancellation(w)
    BY <2>16 DEF RequestCancellation
  <2>17. CASE Throw(w)
    BY <2>17 DEF Throw
  <2> QED BY <1>2, <2>1, <2>2, <2>3, <2>4, <2>5, <2>6, <2>7, <2>8, <2>9, <2>10, <2>11, <2>12, <2>13, <2>14, <2>15, <2>16, <2>17 DEF Worker
<1>3. CASE UNCHANGED vars
  BY <1>3 DEF vars
<1> QED BY <1>1, <1>2, <1>3 DEF Next

\* Appending a new element keeps a sequence without repetitions.
LEMMA AppendInjective ==
    ASSUME NEW S, NEW s \in Seq(S), NEW b \in S, Injective(s), b \notin SetOf(s)
    PROVE  Injective(Append(s, b))
BY DEF Injective, SetOf

\* Appending adds one element to the set of elements.
LEMMA AppendSetOf ==
    ASSUME NEW S, NEW s \in Seq(S), NEW b \in S
    PROVE  SetOf(Append(s, b)) = SetOf(s) \cup {b}
<1>1. \A x \in SetOf(Append(s, b)) : x \in SetOf(s) \cup {b}
  BY DEF SetOf
<1>2. \A x \in SetOf(s) : x \in SetOf(Append(s, b))
  <2> SUFFICES ASSUME NEW i \in DOMAIN s PROVE s[i] \in SetOf(Append(s, b))
    BY DEF SetOf
  <2>1. i \in DOMAIN Append(s, b) /\ Append(s, b)[i] = s[i]
    OBVIOUS
  <2> QED BY <2>1 DEF SetOf
<1>3. b \in SetOf(Append(s, b))
  <2>1. Len(s) + 1 \in DOMAIN Append(s, b) /\ Append(s, b)[Len(s) + 1] = b
    OBVIOUS
  <2> QED BY <2>1 DEF SetOf
<1> QED BY <1>1, <1>2, <1>3

\* Each part of the accumulation lists an origin at most once.
LEMMA ListedStep ==
    IInv /\ [Next]_vars => Listed'
<1> SUFFICES ASSUME TypeOK, Holding, SpawnOrder, Ownership, MutexHeld, Listed, [Next]_vars PROVE Listed'
  BY DEF IInv
<1> USE CountAssumption DEF Goto, runtime, sink, main, TypeOK, Workers, Batches, NoBatch, NoOne, Unspawned, SpawnOrder, Listed, ListedFrom, PastSummary, PastChoice, PastLoads, Delivering, Broken, InStep
<1>1. CASE Caller
  <2>1. CASE Spawn
    BY <2>1, SMTT(30) DEF Spawn
  <2>2. CASE SpawnFails
    BY <2>2 DEF SpawnFails
  <2>3. CASE StartGathering
    BY <2>3 DEF StartGathering
  <2>4. CASE Gather
    BY <2>4 DEF Gather
  <2>5. CASE GatherThrows
    BY <2>5 DEF GatherThrows
  <2>6. CASE Return
    BY <2>6 DEF Return
  <2>7. CASE Unwind
    BY <2>7 DEF Unwind
  <2> QED BY <1>1, <2>1, <2>2, <2>3, <2>4, <2>5, <2>6, <2>7 DEF Caller
<1>2. ASSUME NEW w \in Workers, Worker(w) PROVE Listed'
  <2>1. CASE CheckCancelled(w)
    BY <2>1 DEF CheckCancelled
  <2>2. CASE Claim(w)
    <3>0. /\ next_batch \in Nat /\ next_batch' = next_batch + 1
          /\ batch'[w] = next_batch \/ batch'[w] = NoBatch
          /\ \A v \in Workers : v # w => batch'[v] = batch[v] /\ pc'[v] = pc[v]
          /\ pc[w] = "claim" /\ UNCHANGED <<summary, choice, loads>>
      BY <2>2 DEF Claim, Ownership
    <3>9. /\ \A i \in DOMAIN summary : summary[i] \in Batches
          /\ \A i \in DOMAIN choice  : choice[i]  \in Batches
          /\ \A i \in DOMAIN loads   : loads[i]   \in Batches
      OBVIOUS
    <3>1. /\ \A i \in DOMAIN summary : summary[i] # batch'[w]
          /\ \A i \in DOMAIN choice  : choice[i]  # batch'[w]
          /\ \A i \in DOMAIN loads   : loads[i]   # batch'[w]
      BY <3>0, <3>9
    <3>2. /\ \A i \in DOMAIN summary : summary[i] < next_batch'
          /\ \A i \in DOMAIN choice  : choice[i]  < next_batch'
          /\ \A i \in DOMAIN loads   : loads[i]   < next_batch'
      BY <3>0, SMTT(30)
    <3>6. ListedFrom(summary, PastSummary)'
      BY <3>0, <3>1, <3>2, ZenonT(60)
    <3>7. ListedFrom(choice, PastChoice)'
      BY <3>0, <3>1, <3>2, ZenonT(60)
    <3>8. ListedFrom(loads, PastLoads)'
      BY <3>0, <3>1, <3>2
    <3> QED BY <3>6, <3>7, <3>8
  <2>3. CASE SearchEnds(w)
    BY <2>3 DEF SearchEnds
  <2>4. CASE SearchFails(w)
    BY <2>4 DEF SearchFails
  <2>5. CASE Recheck(w)
    BY <2>5 DEF Recheck
  <2>6. CASE Count(w)
    BY <2>6 DEF Count
  <2>7. CASE LockSink(w)
    <3>1. /\ pc[w] \in InStep /\ batch[w] \in Batches
          /\ summary' = Append(summary, batch[w])
      BY <2>7 DEF LockSink, Holding
    <3>2. batch[w] \notin SetOf(summary)
      BY <2>7 DEF LockSink, SetOf
    <3>3. Injective(summary')
      BY <3>1, <3>2, AppendInjective
    <3>6. batch[w] < next_batch /\ next_batch' = next_batch
      BY <2>7 DEF LockSink, Ownership
    <3>4. \A i \in DOMAIN summary' : summary'[i] < next_batch'
      BY <3>1, <3>6, SMTT(30)
    <3>5. ASSUME NEW v \in Workers, NEW i \in DOMAIN summary', summary'[i] = batch[v]
          PROVE  pc'[v] \in PastSummary
      BY <2>7, <3>1, <3>5, SMTT(30) DEF LockSink, Ownership
    <3> QED BY <2>7, <3>3, <3>4, <3>5 DEF LockSink
  <2>8. CASE LoadDemand(w)
    BY <2>8 DEF LoadDemand
  <2>9. CASE LoadDemandFails(w)
    BY <2>9 DEF LoadDemandFails
  <2>10. CASE MergeChoice(w)
    <3>1. /\ pc[w] \in InStep /\ batch[w] \in Batches
          /\ choice' = Append(choice, batch[w])
      BY <2>10 DEF MergeChoice, Holding
    <3>2. batch[w] \notin SetOf(choice)
      BY <2>10 DEF MergeChoice, SetOf
    <3>3. Injective(choice')
      BY <3>1, <3>2, AppendInjective
    <3>6. batch[w] < next_batch /\ next_batch' = next_batch
      BY <2>10 DEF MergeChoice, Ownership
    <3>4. \A i \in DOMAIN choice' : choice'[i] < next_batch'
      BY <3>1, <3>6
    <3>5. ASSUME NEW v \in Workers, NEW i \in DOMAIN choice', choice'[i] = batch[v]
          PROVE  pc'[v] \in PastChoice
      BY <2>10, <3>1, <3>5 DEF MergeChoice, Ownership
    <3> QED BY <2>10, <3>3, <3>4, <3>5, ZenonT(60) DEF MergeChoice
  <2>11. CASE Accumulate(w)
    <3>1. /\ pc[w] \in InStep /\ batch[w] \in Batches
          /\ loads' = Append(loads, batch[w])
      BY <2>11 DEF Accumulate, Holding
    <3>2. batch[w] \notin SetOf(loads)
      BY <2>11 DEF Accumulate, SetOf
    <3>3. Injective(loads')
      BY <3>1, <3>2, AppendInjective
    <3>6. batch[w] < next_batch /\ next_batch' = next_batch
      BY <2>11 DEF Accumulate, Ownership
    <3>4. \A i \in DOMAIN loads' : loads'[i] < next_batch'
      BY <3>1, <3>6
    <3>5. ASSUME NEW v \in Workers, NEW i \in DOMAIN loads', loads'[i] = batch[v]
          PROVE  pc'[v] \in PastLoads
      BY <2>11, <3>1, <3>5, SMTT(30) DEF Accumulate, Ownership
    <3> QED BY <2>11, <3>3, <3>4, <3>5, ZenonT(60) DEF Accumulate
  <2>12. CASE AccumulateFails(w)
    BY <2>12 DEF AccumulateFails
  <2>13. CASE UnlockSink(w)
    BY <2>13 DEF UnlockSink
  <2>14. CASE MarkCompleted(w)
    <3>0. /\ batch'[w] = NoBatch
          /\ \A v \in Workers : v # w => batch'[v] = batch[v] /\ pc'[v] = pc[v]
          /\ UNCHANGED <<summary, choice, loads, next_batch>>
      BY <2>14 DEF MarkCompleted
    <3>9. /\ \A i \in DOMAIN summary : summary[i] \in Batches
          /\ \A i \in DOMAIN choice  : choice[i]  \in Batches
          /\ \A i \in DOMAIN loads   : loads[i]   \in Batches
      OBVIOUS
    <3>1. /\ \A i \in DOMAIN summary : summary[i] # batch'[w]
          /\ \A i \in DOMAIN choice  : choice[i]  # batch'[w]
          /\ \A i \in DOMAIN loads   : loads[i]   # batch'[w]
      BY <3>0, <3>9
    <3>6. ListedFrom(summary, PastSummary)'
      <4>1. Injective(summary') /\ \A i \in DOMAIN summary' : summary'[i] < next_batch'
        BY <3>0
      <4>2. ASSUME NEW v \in Workers, NEW i \in DOMAIN summary',
                   summary'[i] = batch'[v]
            PROVE  pc'[v] \in PastSummary
        <5>1. v # w
          BY <3>0, <3>1, <4>2
        <5>2. pc'[v] = pc[v] /\ summary[i] = batch[v] /\ i \in DOMAIN summary
          BY <3>0, <4>2, <5>1
        <5> QED BY <5>2
      <4> QED BY <4>1, <4>2
    <3>7. ListedFrom(choice, PastChoice)'
      <4>1. Injective(choice') /\ \A i \in DOMAIN choice' : choice'[i] < next_batch'
        BY <3>0
      <4>2. ASSUME NEW v \in Workers, NEW i \in DOMAIN choice',
                   choice'[i] = batch'[v]
            PROVE  pc'[v] \in PastChoice
        <5>1. v # w
          BY <3>0, <3>1, <4>2
        <5>2. pc'[v] = pc[v] /\ choice[i] = batch[v] /\ i \in DOMAIN choice
          BY <3>0, <4>2, <5>1
        <5> QED BY <5>2
      <4> QED BY <4>1, <4>2
    <3>8. ListedFrom(loads, PastLoads)'
      <4>1. Injective(loads') /\ \A i \in DOMAIN loads' : loads'[i] < next_batch'
        BY <3>0
      <4>2. ASSUME NEW v \in Workers, NEW i \in DOMAIN loads',
                   loads'[i] = batch'[v]
            PROVE  pc'[v] \in PastLoads
        <5>1. v # w
          BY <3>0, <3>1, <4>2
        <5>2. pc'[v] = pc[v] /\ loads[i] = batch[v] /\ i \in DOMAIN loads
          BY <3>0, <4>2, <5>1
        <5> QED BY <5>2
      <4> QED BY <4>1, <4>2
    <3> QED BY <3>6, <3>7, <3>8
  <2>15. CASE MarkCancelled(w)
    BY <2>15 DEF MarkCancelled
  <2>16. CASE RequestCancellation(w)
    BY <2>16 DEF RequestCancellation
  <2>17. CASE Throw(w)
    BY <2>17 DEF Throw
  <2> QED BY <1>2, <2>1, <2>2, <2>3, <2>4, <2>5, <2>6, <2>7, <2>8, <2>9, <2>10, <2>11, <2>12, <2>13, <2>14, <2>15, <2>16, <2>17 DEF Worker
<1>3. CASE UNCHANGED vars
  BY <1>3 DEF vars
<1> QED BY <1>1, <1>2, <1>3 DEF Next

\* The parts of the accumulation grow together.
LEMMA CoherentStep ==
    IInv /\ [Next]_vars => Coherent'
<1> SUFFICES ASSUME TypeOK, Holding, SpawnOrder, MutexHeld, Coherent, [Next]_vars PROVE Coherent'
  BY DEF IInv
<1> USE CountAssumption DEF Goto, runtime, sink, main, TypeOK, Workers, Batches, NoBatch, NoOne, Unspawned, SpawnOrder, MutexHeld, Coherent, Delivering, Broken
<1>1. CASE Caller
  <2>1. CASE Spawn
    <3>1. /\ waiting_on \in Workers /\ pc[waiting_on] = Unspawned
          /\ pc' = [pc EXCEPT ![waiting_on] = "check"]
          /\ UNCHANGED <<sink_mutex, summary, choice, loads, batch>>
      BY <2>1 DEF Spawn
    <3>2. ASSUME \A v \in Workers : pc'[v] \notin Broken
          PROVE  \A v \in Workers : pc[v] \notin Broken
      BY <3>1, <3>2
    <3>3. \A v \in Workers : pc'[v] # "check" => pc'[v] = pc[v]
      BY <3>1
    <3> QED BY <3>1, <3>2, <3>3
  <2>2. CASE SpawnFails
    BY <2>2 DEF SpawnFails
  <2>3. CASE StartGathering
    BY <2>3 DEF StartGathering
  <2>4. CASE Gather
    BY <2>4 DEF Gather
  <2>5. CASE GatherThrows
    BY <2>5 DEF GatherThrows
  <2>6. CASE Return
    BY <2>6 DEF Return
  <2>7. CASE Unwind
    BY <2>7 DEF Unwind
  <2> QED BY <1>1, <2>1, <2>2, <2>3, <2>4, <2>5, <2>6, <2>7 DEF Caller
<1>2. ASSUME NEW w \in Workers, Worker(w) PROVE Coherent'
  <2>1. CASE CheckCancelled(w)
    BY <2>1 DEF CheckCancelled
  <2>2. CASE Claim(w)
    BY <2>2, ZenonT(60) DEF Claim
  <2>3. CASE SearchEnds(w)
    BY <2>3 DEF SearchEnds
  <2>4. CASE SearchFails(w)
    BY <2>4 DEF SearchFails
  <2>5. CASE Recheck(w)
    BY <2>5 DEF Recheck
  <2>6. CASE Count(w)
    BY <2>6 DEF Count
  <2>7. CASE LockSink(w)
    BY <2>7, SMTT(30) DEF LockSink
  <2>8. CASE LoadDemand(w)
    BY <2>8 DEF LoadDemand
  <2>9. CASE LoadDemandFails(w)
    BY <2>9 DEF LoadDemandFails
  <2>10. CASE MergeChoice(w)
    BY <2>10 DEF MergeChoice
  <2>11. CASE Accumulate(w)
    BY <2>11 DEF Accumulate
  <2>12. CASE AccumulateFails(w)
    BY <2>12 DEF AccumulateFails
  <2>13. CASE UnlockSink(w)
    BY <2>13 DEF UnlockSink
  <2>14. CASE MarkCompleted(w)
    BY <2>14 DEF MarkCompleted
  <2>15. CASE MarkCancelled(w)
    BY <2>15 DEF MarkCancelled
  <2>16. CASE RequestCancellation(w)
    BY <2>16 DEF RequestCancellation
  <2>17. CASE Throw(w)
    BY <2>17 DEF Throw
  <2> QED BY <1>2, <2>1, <2>2, <2>3, <2>4, <2>5, <2>6, <2>7, <2>8, <2>9, <2>10, <2>11, <2>12, <2>13, <2>14, <2>15, <2>16, <2>17 DEF Worker
<1>3. CASE UNCHANGED vars
  BY <1>3 DEF vars
<1> QED BY <1>1, <1>2, <1>3 DEF Next

\* A claimed batch stays with its worker until the loads include it.
LEMMA CoveredStep ==
    IInv /\ [Next]_vars => Covered'
<1> SUFFICES ASSUME TypeOK, Holding, SpawnOrder, Ownership, Covered, [Next]_vars PROVE Covered'
  BY DEF IInv
<1> USE CountAssumption DEF Goto, runtime, sink, main, TypeOK, Workers, Batches, NoBatch, NoOne, Unspawned, SpawnOrder, Covered
<1>1. CASE Caller
  <2>1. CASE Spawn
    BY <2>1 DEF Spawn
  <2>2. CASE SpawnFails
    BY <2>2 DEF SpawnFails
  <2>3. CASE StartGathering
    BY <2>3 DEF StartGathering
  <2>4. CASE Gather
    BY <2>4 DEF Gather
  <2>5. CASE GatherThrows
    BY <2>5 DEF GatherThrows
  <2>6. CASE Return
    BY <2>6 DEF Return
  <2>7. CASE Unwind
    BY <2>7 DEF Unwind
  <2> QED BY <1>1, <2>1, <2>2, <2>3, <2>4, <2>5, <2>6, <2>7 DEF Caller
<1>2. ASSUME NEW w \in Workers, Worker(w) PROVE Covered'
  <2>1. CASE CheckCancelled(w)
    BY <2>1 DEF CheckCancelled
  <2>2. CASE Claim(w)
    <3>1. CASE next_batch < BatchCount
      <4>1. /\ next_batch \in Nat /\ next_batch' = next_batch + 1
            /\ batch'[w] = next_batch /\ batch[w] = NoBatch
            /\ pc' = [pc EXCEPT ![w] = "search"]
            /\ \A v \in Workers : v # w => batch'[v] = batch[v]
            /\ loads' = loads
        BY <2>2, <3>1 DEF Claim, Ownership
      <4>2. ASSUME NEW b \in Batches, b < next_batch',
                   b \notin SetOf(loads)
            PROVE  \E v \in Workers : batch'[v] = b
        <5>1. CASE b = next_batch
          BY <4>1, <5>1
        <5>2. CASE b # next_batch
          <6>1. PICK v \in Workers : batch[v] = b
            BY <4>1, <4>2, <5>2
          <6>2. v # w
            BY <4>1, <6>1
          <6> QED BY <4>1, <6>1, <6>2
        <5> QED BY <5>1, <5>2
      <4>3. ASSUME NEW v \in Workers, pc'[v] \in {"unlock", "complete"}
            PROVE  batch'[v] \in SetOf(loads)
        BY <4>1, <4>3
      <4>4. SetOf(loads)' = SetOf(loads)
        BY <4>1 DEF SetOf
      <4> QED BY <4>2, <4>3, <4>4
    <3>2. CASE ~(next_batch < BatchCount)
      <4>1. /\ next_batch \in Nat /\ UNCHANGED <<batch, loads>>
            /\ pc' = [pc EXCEPT ![w] = "ok"]
        BY <2>2, <3>2 DEF Claim
      <4>2. \A b \in Batches : b < next_batch
        BY <3>2, <4>1
      <4>3. SetOf(loads)' = SetOf(loads)
        BY <4>1 DEF SetOf
      <4> QED BY <4>1, <4>2, <4>3
    <3> QED BY <3>1, <3>2
  <2>3. CASE SearchEnds(w)
    BY <2>3 DEF SearchEnds
  <2>4. CASE SearchFails(w)
    BY <2>4 DEF SearchFails
  <2>5. CASE Recheck(w)
    BY <2>5 DEF Recheck
  <2>6. CASE Count(w)
    BY <2>6 DEF Count
  <2>7. CASE LockSink(w)
    BY <2>7 DEF LockSink
  <2>8. CASE LoadDemand(w)
    BY <2>8 DEF LoadDemand
  <2>9. CASE LoadDemandFails(w)
    BY <2>9 DEF LoadDemandFails
  <2>10. CASE MergeChoice(w)
    BY <2>10 DEF MergeChoice
  <2>11. CASE Accumulate(w)
    <3>1. /\ batch[w] \in Batches /\ loads' = Append(loads, batch[w])
          /\ pc' = [pc EXCEPT ![w] = "unlock"]
          /\ UNCHANGED <<batch, next_batch>>
      BY <2>11 DEF Accumulate, Holding, InStep, Delivering
    <3>2. SetOf(loads') = SetOf(loads) \cup {batch[w]}
      <4> HIDE DEF Batches
      <4> QED BY <3>1, AppendSetOf
    <3> QED BY <3>1, <3>2
  <2>12. CASE AccumulateFails(w)
    BY <2>12 DEF AccumulateFails
  <2>13. CASE UnlockSink(w)
    BY <2>13 DEF UnlockSink
  <2>14. CASE MarkCompleted(w)
    BY <2>14 DEF MarkCompleted
  <2>15. CASE MarkCancelled(w)
    BY <2>15 DEF MarkCancelled
  <2>16. CASE RequestCancellation(w)
    BY <2>16 DEF RequestCancellation
  <2>17. CASE Throw(w)
    BY <2>17 DEF Throw
  <2> QED BY <1>2, <2>1, <2>2, <2>3, <2>4, <2>5, <2>6, <2>7, <2>8, <2>9, <2>10, <2>11, <2>12, <2>13, <2>14, <2>15, <2>16, <2>17 DEF Worker
<1>3. CASE UNCHANGED vars
  BY <1>3 DEF vars
<1> QED BY <1>1, <1>2, <1>3 DEF Next

-----------------------------------------------------------------------------
(* Theorems                                                                *)

\* Initially no worker is spawned and nothing is claimed or listed.
LEMMA IInvInit == Init => IInv
<1> SUFFICES ASSUME Init PROVE IInv
  OBVIOUS
<1> USE CountAssumption DEF Init, Workers, Batches, NoBatch, NoOne, Unspawned
<1>1. TypeOK
  <2>1. summary \in Seq(Batches) /\ choice \in Seq(Batches) /\ loads \in Seq(Batches)
    <3> HIDE DEF Batches
    <3> QED OBVIOUS
  <2>2. /\ pc \in [Workers -> PCs]
        /\ batch \in [Workers -> Batches \cup {NoBatch}]
        /\ tree \in [Workers -> {"none", "exhausted", "stopped"}]
    BY DEF PCs
  <2>3. waiting_on \in 0 .. WorkerCount
    OBVIOUS
  <2> QED BY <2>1, <2>2, <2>3 DEF TypeOK
<1>2. Holding /\ SpawnOrder /\ Ownership /\ MutexHeld
  BY DEF Holding, SpawnOrder, Ownership, MutexHeld, InStep, Delivering
<1>3. Listed /\ Stopped /\ Coherent
  BY DEF Listed, ListedFrom, Injective, Stopped, Coherent
<1>4. Covered /\ Quiet /\ Gathered
  BY DEF Covered, Quiet, Gathered, SetOf
<1> QED BY <1>1, <1>2, <1>3, <1>4 DEF IInv

\* Every step of the caller or of a worker preserves the invariant.
LEMMA IInvStep == IInv /\ [Next]_vars => IInv'
<1> SUFFICES ASSUME IInv, [Next]_vars PROVE IInv'
  OBVIOUS
<1>1. TypeOK' /\ Holding'
  BY TypeStep DEF IInv
<1>2. SpawnOrder' /\ Ownership' /\ MutexHeld'
  BY SpawnOrderStep, OwnershipStep, MutexStep
<1>3. Listed' /\ Stopped' /\ Coherent'
  BY ListedStep, StoppedStep, CoherentStep
<1>4. Covered' /\ Quiet' /\ Gathered'
  BY CoveredStep, QuietStep, GatheredStep
<1> QED BY <1>1, <1>2, <1>3, <1>4 DEF IInv

\* The inductive invariant holds in every reachable state of the pool.
THEOREM Invariant == Spec => []IInv
BY IInvInit, IInvStep, PTL DEF Spec

\* The pool's variables keep their types for any number of workers.
THEOREM TypeCorrect == Spec => []TypeOK
<1>1. IInv => TypeOK
  BY DEF IInv
<1> QED BY <1>1, Invariant, PTL

\* No origin is handed to the sink twice, whatever the interleaving.
THEOREM DeliveryIsUnique == Spec => []DeliveredOnce
<1>1. IInv => DeliveredOnce
  BY DEF IInv, Listed, ListedFrom, DeliveredOnce
<1> QED BY <1>1, Invariant, PTL

\* The empty result of a stopped tree never reaches the sink.
THEOREM StoppedTreesAreDropped == Spec => []StoppedTreeNeverDelivered
<1>1. IInv => StoppedTreeNeverDelivered
  <2> SUFFICES ASSUME IInv, NEW w \in Workers, tree[w] = "stopped",
                      NEW i \in DOMAIN summary, summary[i] = batch[w]
               PROVE  FALSE
    BY DEF StoppedTreeNeverDelivered, SetOf
  <2>1. pc[w] \in PastSummary
    BY DEF IInv, Listed, ListedFrom
  <2>2. pc[w] \in {"recheck", "cancelled", "ok"}
    BY DEF IInv, Stopped
  <2> QED BY <2>1, <2>2 DEF PastSummary, Delivering, Broken
<1> QED BY <1>1, Invariant, PTL

\* The parts of the accumulation agree whenever nobody is changing them.
THEOREM AccumulationAgrees == Spec => []AccumulationConsistent
<1>1. IInv => AccumulationConsistent
  BY DEF IInv, Coherent, AccumulationConsistent
<1> QED BY <1>1, Invariant, PTL

\* A worker's error decides the result of the call.
THEOREM ErrorsAreReported == Spec => []ErrorIsReported
<1>1. IInv => ErrorIsReported
  BY CountAssumption
     DEF IInv, TypeOK, Gathered, ErrorIsReported, Workers, NoOne
<1> QED BY <1>1, Invariant, PTL

\* The frame the workers refer to outlives them.
THEOREM FrameOutlivesWorkers == Spec => []NoWorkerOutlivesCall
<1>1. IInv => NoWorkerOutlivesCall
  BY CountAssumption
     DEF IInv, TypeOK, Gathered, NoWorkerOutlivesCall, Ended, Workers, Returned
<1> QED BY <1>1, Invariant, PTL

\* If the caller has every worker's ok, no worker failed and all batches are
\* claimed and merged.
LEMMA AllOk ==
    ASSUME IInv, caller \in {"gathering", "returned"},
           waiting_on = WorkerCount, first_worker_error = NoOne
    PROVE  /\ \A w \in Workers : pc[w] = "ok" /\ batch[w] = NoBatch
           /\ SetOf(loads) = Batches
<1>1. \A w \in Workers : w < WorkerCount
  BY CountAssumption DEF Workers
<1>2. \A w \in Workers : pc[w] = "ok"
  BY <1>1 DEF IInv, Gathered
<1>3. cancellation = FALSE
  BY <1>2 DEF IInv, Quiet, TypeOK
<1>4. \A w \in Workers : batch[w] = NoBatch /\ next_batch >= BatchCount
  BY <1>2, <1>3 DEF IInv, Quiet
<1>5. \A b \in Batches : b \in SetOf(loads)
  <2> SUFFICES ASSUME NEW b \in Batches PROVE b \in SetOf(loads)
    OBVIOUS
  <2>1. 0 \in Workers
    BY CountAssumption DEF Workers, Batches
  <2>2. b < next_batch
    BY <1>4, <2>1, CountAssumption DEF Batches, IInv, TypeOK
  <2>3. \A w \in Workers : batch[w] # b
    BY <1>4 DEF Batches, NoBatch
  <2> QED BY <2>2, <2>3 DEF IInv, Covered
<1>6. \A b \in SetOf(loads) : b \in Batches
  BY DEF SetOf, IInv, TypeOK
<1> QED BY <1>2, <1>4, <1>5, <1>6

\* Ok means that every origin has been merged, everywhere, in one order.
THEOREM SuccessIsTotal == Spec => []SuccessIsComplete
<1>1. IInv => SuccessIsComplete
  <2> SUFFICES ASSUME IInv, caller = "returned", first_worker_error = NoOne
               PROVE  /\ SetOf(loads) = Batches
                      /\ summary = choice /\ choice = loads
    BY DEF SuccessIsComplete
  <2>0. waiting_on = WorkerCount
    BY DEF IInv, Gathered
  <2>1. \A w \in Workers : pc[w] = "ok"
    BY <2>0, AllOk
  <2>2. sink_mutex = NoOne
    BY <2>1 DEF IInv, TypeOK, MutexHeld, Delivering
  <2>3. summary = choice /\ choice = loads
    BY <2>1, <2>2 DEF IInv, Coherent, Broken
  <2> QED BY <2>0, <2>3, AllOk
<1> QED BY <1>1, Invariant, PTL

\* The accumulation is sound in all four respects.
THEOREM AccumulationIsSound == Spec => []AccumulationSound
BY DeliveryIsUnique, StoppedTreesAreDropped, AccumulationAgrees,
   SuccessIsTotal, PTL DEF AccumulationSound

\* Every step of the pool is a step of OriginDelivery or leaves it unchanged:
\* no origin is delivered twice, none after the verdict, and ok needs all.
LEMMA DeliveryStep ==
    IInv /\ IInv' /\ [Next]_vars =>
        [Abstract!Next]_<<SetOf(loads), Verdict>>
<1> SUFFICES ASSUME IInv, IInv', [Next]_vars
             PROVE  [Abstract!Next]_<<SetOf(loads), Verdict>>
  OBVIOUS
<1> USE DEF Verdict
<1>1. CASE Return
  <2>1. /\ caller = "gathering" /\ waiting_on = WorkerCount
        /\ caller' = "returned" /\ SetOf(loads)' = SetOf(loads)
        /\ first_worker_error' = first_worker_error
    BY <1>1 DEF Return, SetOf, sink
  <2>2. CASE first_worker_error = NoOne
    <3>1. SetOf(loads) = Batches
      BY <2>1, <2>2, AllOk
    <3> QED BY <2>1, <2>2, <3>1 DEF Abstract!Next, Abstract!Succeed
  <2>3. CASE first_worker_error # NoOne
    BY <2>1, <2>3 DEF Abstract!Next, Abstract!Fail
  <2> QED BY <2>2, <2>3
<1>2. CASE Unwind
  BY <1>2 DEF Unwind, SetOf, sink, Abstract!Next, Abstract!Fail
<1>3. CASE Spawn \/ SpawnFails \/ StartGathering \/ Gather \/ GatherThrows
  BY <1>3 DEF Spawn, SpawnFails, StartGathering, Gather, GatherThrows, SetOf,
              sink
<1>4. ASSUME NEW w \in Workers, Worker(w)
      PROVE  [Abstract!Next]_<<SetOf(loads), Verdict>>
  <2>1. CASE Accumulate(w)
    <3>1. /\ pc[w] = "accumulate" /\ loads' = Append(loads, batch[w])
          /\ caller' = caller /\ first_worker_error' = first_worker_error
      BY <2>1 DEF Accumulate, Goto, main
    <3>2. batch[w] \in Batches /\ loads \in Seq(Batches)
      BY <3>1 DEF IInv, Holding, InStep, Delivering, TypeOK
    <3>3. SetOf(loads)' = SetOf(loads) \cup {batch[w]}
      BY <3>1, <3>2, AppendSetOf
    <3>4. batch[w] \notin SetOf(loads)
      BY <3>1 DEF IInv, Listed, ListedFrom, PastLoads, SetOf
    <3>5. caller \notin {"returned", "raised"}
      <4>1. w < WorkerCount
        BY CountAssumption DEF Workers
      <4> QED BY <3>1, <4>1 DEF IInv, Gathered, Returned, Unspawned
    <3> QED BY <3>1, <3>2, <3>3, <3>4, <3>5 DEF Abstract!Next, Abstract!Deliver
  <2>2. CASE ~Accumulate(w)
    BY <1>4, <2>2 DEF Worker, CheckCancelled, Claim, SearchEnds, SearchFails,
        Recheck, Count, LockSink, LoadDemand, LoadDemandFails, MergeChoice,
        AccumulateFails, UnlockSink, MarkCompleted, MarkCancelled,
        RequestCancellation, Throw, sink, main, SetOf
  <2> QED BY <2>1, <2>2
<1>5. CASE UNCHANGED vars
  BY <1>5 DEF vars, sink, main, SetOf
<1> QED BY <1>1, <1>2, <1>3, <1>4, <1>5 DEF Next, Caller

\* The pool implements the delivery contract of the by-origin search.
THEOREM Refinement == Spec => ImplementsDelivery
<1>1. Init => Abstract!Init
  BY DEF Init, Abstract!Init, Verdict, SetOf
<1>2. IInv /\ IInv' /\ [Next]_vars =>
        [Abstract!Next]_<<SetOf(loads), Verdict>>
  BY DeliveryStep
<1> QED BY <1>1, <1>2, Invariant, PTL DEF Spec, ImplementsDelivery, Abstract!Spec

(***************************************************************************)
(* The counters: what SearchParallelBatchRuntime counts, against where the *)
(* workers are.                                                            *)
(***************************************************************************)
InHand    == InStep \cup {"complete", "cancelled"}
PastCount == {"lock"} \cup Delivering \cup {"complete"}

\* How the number of workers at some places changes when one goes elsewhere.
Shift(from, to, places) ==
    IF to \in places
    THEN IF from \in places THEN 0 ELSE 1
    ELSE IF from \in places THEN -1 ELSE 0

\* The number of workers at some places is a natural number, and none of them
\* is there when it is zero.
LEMMA AtIsNumber ==
    ASSUME NEW places
    PROVE  /\ At(places) \in Nat
           /\ At(places) <= WorkerCount
           /\ (\A w \in Workers : pc[w] \notin places) => At(places) = 0
<1> DEFINE There == {w \in Workers : pc[w] \in places}
<1>1. IsFiniteSet(Workers) /\ Cardinality(Workers) = WorkerCount
  <2>1. WorkerCount \in Nat /\ 0 \in Int /\ WorkerCount - 1 \in Int
    BY CountAssumption
  <2> QED BY <2>1, FS_Interval DEF Workers
<1>2. There \in SUBSET Workers
  OBVIOUS
<1>3. IsFiniteSet(There) /\ Cardinality(There) <= WorkerCount
  <2> HIDE DEF There
  <2> QED BY <1>1, <1>2, FS_Subset
<1>4. Cardinality(There) \in Nat
  <2> HIDE DEF There
  <2> QED BY <1>3, FS_CardinalityType
<1>5. (\A w \in Workers : pc[w] \notin places) => Cardinality(There) = 0
  <2>1. (\A w \in Workers : pc[w] \notin places) => There = {}
    OBVIOUS
  <2> HIDE DEF There
  <2> QED BY <2>1, FS_EmptySet
<1> QED BY <1>3, <1>4, <1>5 DEF At

\* One worker's move changes the number at some places by its own.
LEMMA AtMoves ==
    ASSUME pc \in [Workers -> PCs], NEW w \in Workers, NEW to, NEW places,
           pc' = [pc EXCEPT ![w] = to]
    PROVE  At(places)' = At(places) + Shift(pc[w], to, places)
<1> DEFINE There == {v \in Workers : pc[v] \in places}
           Then  == {v \in Workers : pc'[v] \in places}
<1>1. IsFiniteSet(There)
  <2>1. WorkerCount \in Nat /\ 0 \in Int /\ WorkerCount - 1 \in Int
    BY CountAssumption
  <2>2. IsFiniteSet(Workers) /\ There \in SUBSET Workers
    BY <2>1, FS_Interval DEF Workers
  <2> HIDE DEF There
  <2> QED BY <2>2, FS_Subset
<1>2. Cardinality(There) \in Nat
  <2> HIDE DEF There
  <2> QED BY <1>1, FS_CardinalityType
<1>3. Then = IF to \in places THEN There \cup {w} ELSE There \ {w}
  OBVIOUS
<1>4. w \in There <=> pc[w] \in places
  OBVIOUS
<1>5. Cardinality(Then) = Cardinality(There) + Shift(pc[w], to, places)
  <2> HIDE DEF There, Then
  <2>1. CASE to \in places
    <3>1. Cardinality(There \cup {w}) =
              IF w \in There THEN Cardinality(There) ELSE Cardinality(There) + 1
      BY <1>1, FS_AddElement
    <3> QED BY <1>2, <1>3, <1>4, <2>1, <3>1 DEF Shift
  <2>2. CASE to \notin places
    <3>1. Cardinality(There \ {w}) =
              IF w \in There THEN Cardinality(There) - 1 ELSE Cardinality(There)
      BY <1>1, FS_RemoveElement
    <3> QED BY <1>2, <1>3, <1>4, <2>2, <3>1 DEF Shift
  <2> QED BY <2>1, <2>2
<1> QED BY <1>5 DEF At

-----------------------------------------------------------------------------
(* The inductive invariant                                                 *)

\* Every claim beyond the last batch is of a worker that has returned; every
\* batch claimed is in a count or with a worker; unless a step broke, the pairs
\* of a tree are counted from just before the sink on; a batch is marked
\* cancelled after the token only.
Counted ==
    /\ next_batch <= BatchCount + At({"ok"})
    /\ completed_batches + cancelled_batches + At(InHand) + At(Broken)
        = IF next_batch < BatchCount THEN next_batch ELSE BatchCount
    /\ (\A w \in Workers : pc[w] \notin Broken) =>
            pair_count = completed_batches + At(PastCount)
    /\ cancelled_batches > 0 => cancellation

\* What a worker's move does to the numbers that Counted speaks of.
LEMMA Moves ==
    ASSUME TypeOK, NEW w \in Workers, NEW from, NEW to, Goto(w, from, to)
    PROVE  /\ At({"ok"})'   = At({"ok"})   + Shift(from, to, {"ok"})
           /\ At(InHand)'    = At(InHand)    + Shift(from, to, InHand)
           /\ At(Broken)'    = At(Broken)    + Shift(from, to, Broken)
           /\ At(PastCount)' = At(PastCount) + Shift(from, to, PastCount)
           /\ At({"ok"}) \in Nat /\ At(InHand) \in Nat
           /\ At(Broken) \in Nat /\ At(PastCount) \in Nat
           /\ pc'[w] = to
           /\ (\A v \in Workers : pc'[v] \notin Broken) /\ from \notin Broken
                => \A v \in Workers : pc[v] \notin Broken
<1>1. pc \in [Workers -> PCs] /\ pc[w] = from /\ pc' = [pc EXCEPT ![w] = to]
  BY DEF TypeOK, Goto
<1>2. \A places : At(places)' = At(places) + Shift(from, to, places)
  BY <1>1, AtMoves
<1>3. \A places : At(places) \in Nat
  BY AtIsNumber
<1>4. At({"ok"})' = At({"ok"}) + Shift(from, to, {"ok"})
  BY <1>2
<1>5. At(InHand)' = At(InHand) + Shift(from, to, InHand)
  BY <1>2
<1>6. At(Broken)' = At(Broken) + Shift(from, to, Broken)
  BY <1>2
<1>7. At(PastCount)' = At(PastCount) + Shift(from, to, PastCount)
  BY <1>2
<1>8. (\A v \in Workers : pc'[v] \notin Broken) /\ from \notin Broken
        => \A v \in Workers : pc[v] \notin Broken
  BY <1>1
<1> QED BY <1>1, <1>3, <1>4, <1>5, <1>6, <1>7, <1>8

\* Where the places of the worker loop are counted.
LEMMA Places ==
    /\ InHand = {"search", "recheck", "count", "lock", "load", "merge",
                 "accumulate", "unlock", "complete", "cancelled"}
    /\ PastCount = {"lock", "load", "merge", "accumulate", "unlock", "complete"}
    /\ Broken = {"fail", "error", "thrown"}
BY DEF InHand, PastCount, InStep, Delivering, Broken

\* Every step keeps the counters and the workers' places in balance.
LEMMA CountedStep ==
    IInv /\ Counted /\ [Next]_vars => Counted'
<1> SUFFICES ASSUME IInv, Counted, [Next]_vars PROVE Counted'
  OBVIOUS
<1>0. TypeOK /\ next_batch \in Nat /\ completed_batches \in Nat
      /\ cancelled_batches \in Nat /\ pair_count \in Nat /\ BatchCount \in Nat
      /\ At({"ok"}) \in Nat /\ At(InHand) \in Nat /\ At(Broken) \in Nat
      /\ At(PastCount) \in Nat
  BY CountAssumption, AtIsNumber DEF IInv, TypeOK
<1>1. ASSUME UNCHANGED <<next_batch, completed_batches, cancelled_batches,
                         pair_count, pc>>,
             cancellation => cancellation'
      PROVE  Counted'
  <2>1. \A places : At(places)' = At(places)
    BY <1>1 DEF At
  <2>2. At({"ok"})' = At({"ok"}) /\ At(InHand)' = At(InHand)
        /\ At(Broken)' = At(Broken) /\ At(PastCount)' = At(PastCount)
    BY <2>1
  <2> QED BY <1>1, <2>2 DEF Counted
<1>2. CASE Spawn
  <2>1. Goto(waiting_on, Unspawned, "check") /\ waiting_on \in Workers
    BY <1>2 DEF IInv, SpawnOrder, Spawn, Goto, Workers
  <2>2. UNCHANGED runtime /\ UNCHANGED pair_count
    BY <1>2 DEF Spawn
  <2> QED BY <1>0, <2>1, <2>2, Moves, Places DEF Counted, Shift, Unspawned, runtime
<1>3. CASE SpawnFails \/ StartGathering \/ Gather \/ GatherThrows \/ Return \/ Unwind
  <2>1. UNCHANGED <<next_batch, completed_batches, cancelled_batches, pair_count, pc>>
        /\ (cancellation => cancellation')
    BY <1>3 DEF SpawnFails, StartGathering, Gather, GatherThrows, Return,
                Unwind, runtime
  <2> QED BY <1>1, <2>1
<1>4. ASSUME NEW w \in Workers, Worker(w) PROVE Counted'
  <2> USE DEF Counted, Shift, runtime
  <2>1. CASE CheckCancelled(w)
    BY <1>0, <2>1, Moves, Places DEF CheckCancelled
  <2>2. CASE Claim(w)
    BY <1>0, <2>2, Moves, Places DEF Claim
  <2>3. CASE SearchEnds(w)
    BY <1>0, <2>3, Moves, Places DEF SearchEnds
  <2>4. CASE SearchFails(w)
    BY <1>0, <2>4, Moves, Places DEF SearchFails
  <2>5. CASE Recheck(w)
    BY <1>0, <2>5, Moves, Places DEF Recheck
  <2>6. CASE Count(w)
    <3>1. /\ Goto(w, "count", "lock") /\ pair_count' = pair_count + 1
          /\ UNCHANGED <<next_batch, completed_batches, cancelled_batches,
                         cancellation>>
      BY <2>6 DEF Count
    <3>2. /\ Shift("count", "lock", {"ok"}) = 0
          /\ Shift("count", "lock", InHand) = 0
          /\ Shift("count", "lock", Broken) = 0
          /\ Shift("count", "lock", PastCount) = 1
          /\ "count" \notin Broken
      BY Places
    <3> HIDE DEF Shift
    <3> QED BY <1>0, <3>1, <3>2, Moves
  <2>7. CASE \/ LockSink(w) \/ LoadDemand(w) \/ MergeChoice(w)
             \/ Accumulate(w) \/ UnlockSink(w)
    <3>1. PICK from \in PastCount, to \in PastCount : Goto(w, from, to)
      <4>1. \/ Goto(w, "lock", "load")   \/ Goto(w, "load", "merge")
            \/ Goto(w, "merge", "accumulate")
            \/ Goto(w, "accumulate", "unlock") \/ Goto(w, "unlock", "complete")
        BY <2>7 DEF LockSink, LoadDemand, MergeChoice, Accumulate, UnlockSink
      <4>2. {"lock", "load", "merge", "accumulate", "unlock", "complete"} \subseteq PastCount
        BY Places
      <4> QED BY <4>1, <4>2, Zenon
    <3>2. UNCHANGED <<next_batch, completed_batches, cancelled_batches,
                      cancellation, pair_count>>
      BY <2>7 DEF LockSink, LoadDemand, MergeChoice, Accumulate, UnlockSink
    <3>3. /\ Shift(from, to, {"ok"}) = 0   /\ Shift(from, to, InHand) = 0
          /\ Shift(from, to, Broken) = 0   /\ Shift(from, to, PastCount) = 0
          /\ from \notin Broken
      BY Places
    <3> HIDE DEF Shift
    <3> QED BY <1>0, <3>1, <3>2, <3>3, Moves
  <2>9. CASE LoadDemandFails(w)
    BY <1>0, <2>9, Moves, Places DEF LoadDemandFails
  <2>12. CASE AccumulateFails(w)
    BY <1>0, <2>12, Moves, Places DEF AccumulateFails
  <2>14. CASE MarkCompleted(w)
    BY <1>0, <2>14, Moves, Places DEF MarkCompleted
  <2>15. CASE MarkCancelled(w)
    <3>1. cancellation /\ cancellation' = cancellation
      BY <2>15 DEF IInv, Quiet, MarkCancelled, Goto
    <3> QED BY <1>0, <2>15, <3>1, Moves, Places DEF MarkCancelled
  <2>16. CASE RequestCancellation(w)
    BY <1>0, <2>16, Moves, Places DEF RequestCancellation
  <2>17. CASE Throw(w)
    <3>1. Goto(w, pc[w], "thrown") /\ pc[w] \in {"search", "load", "merge", "accumulate"}
      BY <2>17 DEF Throw, Goto
    <3>2. UNCHANGED runtime /\ pc'[w] = "thrown"
      BY <2>17, <3>1 DEF Throw, IInv, TypeOK
    <3> QED BY <1>0, <3>1, <3>2, Moves, Places
  <2> QED BY <1>4, <2>1, <2>2, <2>3, <2>4, <2>5, <2>6, <2>7, <2>9, <2>12,
             <2>14, <2>15, <2>16, <2>17 DEF Worker
<1>5. CASE UNCHANGED vars
  BY <1>1, <1>5 DEF vars, runtime
<1> QED BY <1>2, <1>3, <1>4, <1>5 DEF Next, Caller

-----------------------------------------------------------------------------
(* Theorems                                                                *)

\* The counters of the runtime account for every batch claimed, the claim
\* counter runs over by at most one per worker, and after an Ok every origin
\* has been completed and counted once.
THEOREM CountersAccount == Spec => []Accounting
<1>1. Init => IInv /\ Counted
  <2> SUFFICES ASSUME Init PROVE Counted
    BY IInvInit
  <2>1. \A w \in Workers : pc[w] = Unspawned
    BY DEF Init
  <2>2. At(InHand) = 0 /\ At(Broken) = 0 /\ At(PastCount) = 0
    BY <2>1, AtIsNumber, Places DEF Unspawned
  <2>3. At({"ok"}) \in Nat
    BY AtIsNumber
  <2> QED BY <2>2, <2>3, CountAssumption DEF Init, Counted
<1>2. IInv /\ Counted /\ [Next]_vars => (IInv /\ Counted)'
  BY IInvStep, CountedStep
<1>3. IInv /\ Counted => Accounting
  <2> SUFFICES ASSUME IInv, Counted PROVE Accounting
    OBVIOUS
  <2>0. next_batch \in Nat /\ BatchCount \in Nat /\ WorkerCount \in Nat
        /\ completed_batches \in Nat /\ cancelled_batches \in Nat
        /\ cancellation \in BOOLEAN /\ pair_count \in Nat
    BY CountAssumption DEF IInv, TypeOK
  <2>1. next_batch <= BatchCount + WorkerCount
    <3>1. At({"ok"}) \in Nat /\ At({"ok"}) <= WorkerCount
      BY AtIsNumber
    <3> QED BY <2>0, <3>1 DEF Counted
  <2>2. ASSUME caller = "returned", first_worker_error = NoOne
        PROVE  /\ completed_batches = BatchCount
               /\ cancelled_batches = 0
               /\ pair_count = BatchCount
    <3>1. waiting_on = WorkerCount
      BY <2>2 DEF IInv, Gathered
    <3>2. \A w \in Workers : pc[w] = "ok" /\ batch[w] = NoBatch
      BY <2>2, <3>1, AllOk
    <3>3. ~cancellation
      BY <3>2 DEF IInv, Quiet
    <3>4. At(InHand) = 0 /\ At(Broken) = 0 /\ At(PastCount) = 0
      BY <3>2, AtIsNumber, Places
    <3>5. \A w \in Workers : next_batch >= BatchCount
      BY <3>2, <3>3 DEF IInv, Quiet
    <3>6. next_batch >= BatchCount
      <4>1. CASE BatchCount = 0
        BY <2>0, <4>1
      <4>2. CASE BatchCount > 0
        <5>1. 0 \in Workers
          BY <4>2, CountAssumption DEF Workers
        <5> QED BY <3>5, <5>1
      <4> QED BY <2>0, <4>1, <4>2
    <3>7. \A w \in Workers : pc[w] \notin Broken
      BY <3>2, Places
    <3> QED BY <2>0, <3>3, <3>4, <3>6, <3>7 DEF Counted
  <2> QED BY <2>1, <2>2 DEF Accounting, Counted, InHand
<1> QED BY <1>1, <1>2, <1>3, PTL DEF Spec
=============================================================================
