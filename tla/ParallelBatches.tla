--------------------------- MODULE ParallelBatches ---------------------------
(***************************************************************************)
(* The worker pool of the connection search: run_search_parallel_batches   *)
(* (search/runtime/parallel.hpp) running the step of the OD-day search     *)
(* (search/runtime/od_day_runner.cpp), whose results go to the origin sink *)
(* of the assignment pipeline (assignment/detail/pipeline_od_day.cpp).     *)
(*                                                                         *)
(* One batch is one origin tree.  A worker thread repeats: look at the     *)
(* cancellation token, claim the next batch, search it, look at the token  *)
(* again, publish the counters, and hand the origin result to the sink     *)
(* under origin_sink_mutex.  The caller spawns the workers, collects their *)
(* results in worker order and keeps the first error it sees.              *)
(*                                                                         *)
(* Each action is one access to shared memory, so TLC explores every       *)
(* interleaving of the token, the counters and the sink.                   *)
(***************************************************************************)
EXTENDS Integers, Sequences, FiniteSets

CONSTANTS
    BatchCount,     \* batches.size(), one batch per declared origin
    WorkerCount,    \* search_batch_worker_count(...)
    CanFail         \* the ways a step can go wrong, see Faults

\* search: search_batch_connections returns an error;  load, accumulate: the
\* sink returns one before, or while, merging;  throw: the step throws (an
\* allocation fails);  spawn: std::async cannot start a thread.
Faults == {"search", "load", "accumulate", "throw", "spawn"}

\* validate_search_execution_projection_contract refuses
\* max_parallel_batches = 0, so there is a worker whenever there is a batch.
ASSUME CountAssumption ==
    /\ BatchCount \in Nat
    /\ WorkerCount \in Nat
    /\ BatchCount > 0 => WorkerCount > 0
ASSUME FaultAssumption == CanFail \subseteq Faults

Batches == 0 .. BatchCount - 1
Workers == 0 .. WorkerCount - 1
NoBatch == -1
NoOne   == -1

Unspawned == "unspawned"
Returned  == {"ok", "error", "thrown"}      \* the worker's future is ready
PCs == {Unspawned, "check", "claim", "search", "recheck", "count", "lock",
        "load", "merge", "accumulate", "unlock", "complete", "cancelled",
        "fail"} \cup Returned

VARIABLES
    next_batch,         \* SearchParallelBatchRuntime
    completed_batches,
    cancelled_batches,
    cancellation,
    pc,                 \* where each worker is
    batch,              \* the batch each worker holds
    tree,               \* what its search ended as: exhausted or stopped
    pair_count,         \* trees whose pairs the shared counters include
    sink_mutex,         \* the worker that holds origin_sink_mutex
    summary,            \* OdDayPipelineAccumulation: search_summary,
    choice,             \*   choice and split,
    loads,              \*   elementary_segment_loads
    caller,             \* the calling thread
    waiting_on,         \* the worker it spawns or whose result it gets next
    first_worker_error  \* the worker whose error is kept, or NoOne

runtime == <<next_batch, completed_batches, cancelled_batches, cancellation>>
sink    == <<sink_mutex, summary, choice, loads>>
main    == <<caller, waiting_on, first_worker_error>>
vars    == <<runtime, pc, batch, tree, pair_count, sink, main>>

Init ==
    /\ next_batch = 0
    /\ completed_batches = 0
    /\ cancelled_batches = 0
    /\ cancellation = FALSE
    /\ pc = [w \in Workers |-> Unspawned]
    /\ batch = [w \in Workers |-> NoBatch]
    /\ tree = [w \in Workers |-> "none"]
    /\ pair_count = 0
    /\ sink_mutex = NoOne
    /\ summary = <<>>
    /\ choice = <<>>
    /\ loads = <<>>
    /\ caller = "spawning"
    /\ waiting_on = 0
    /\ first_worker_error = NoOne

Goto(w, from, to) ==
    /\ pc[w] = from
    /\ pc' = [pc EXCEPT ![w] = to]

-----------------------------------------------------------------------------
(* Plausible defects of the actions below: PROJECT.json names the property  *)
(* that each of them breaks.  No specification uses them.                   *)

\* index > batch_count instead of index >= batch_count.
Claim_OffByOne(w) ==
    /\ next_batch' = next_batch + 1
    /\ IF next_batch <= BatchCount
       THEN /\ Goto(w, "claim", "search")
            /\ batch' = [batch EXCEPT ![w] = next_batch]
       ELSE /\ Goto(w, "claim", "ok")
            /\ UNCHANGED batch
    /\ UNCHANGED <<completed_batches, cancelled_batches, cancellation, tree,
                   pair_count, sink, main>>

\* fetch_add(1) + 1: the first batch is never claimed.
Claim_SkipsFirst(w) ==
    /\ next_batch' = next_batch + 1
    /\ IF next_batch + 1 < BatchCount
       THEN /\ Goto(w, "claim", "search")
            /\ batch' = [batch EXCEPT ![w] = next_batch + 1]
       ELSE /\ Goto(w, "claim", "ok")
            /\ UNCHANGED batch
    /\ UNCHANGED <<completed_batches, cancelled_batches, cancellation, tree,
                   pair_count, sink, main>>

\* A load now and a store later instead of fetch_add: a claim made meanwhile
\* by a worker still searching is lost.
Claim_LostUpdate(w) ==
    /\ Goto(w, "claim", IF next_batch < BatchCount THEN "search" ELSE "ok")
    /\ next_batch' = IF \E v \in Workers : pc[v] = "search"
                     THEN next_batch ELSE next_batch + 1
    /\ batch' = [batch EXCEPT ![w] = IF next_batch < BatchCount
                                     THEN next_batch ELSE NoBatch]
    /\ UNCHANGED <<completed_batches, cancelled_batches, cancellation, tree,
                   pair_count, sink, main>>

\* The second look at the token is missing.
Recheck_Missing(w) ==
    /\ Goto(w, "recheck", "count")
    /\ UNCHANGED <<runtime, batch, tree, pair_count, sink, main>>

\* The sink is called without its mutex.
LockSink_NoMutex(w) ==
    /\ Goto(w, "lock", "load")
    /\ sink_mutex' = w
    /\ summary' = Append(summary, batch[w])
    /\ UNCHANGED <<runtime, batch, tree, pair_count, choice, loads, main>>

\* A cancelled batch is not counted.
MarkCancelled_Uncounted(w) ==
    /\ Goto(w, "cancelled", "ok")
    /\ UNCHANGED <<runtime, batch, tree, pair_count, sink, main>>

\* The last error replaces the first.
Gather_KeepsLast ==
    /\ caller = "gathering"
    /\ waiting_on \in Workers
    /\ pc[waiting_on] \in {"ok", "error"}
    /\ waiting_on' = waiting_on + 1
    /\ IF pc[waiting_on] = "error"
       THEN /\ cancellation' = TRUE
            /\ first_worker_error' = waiting_on
       ELSE UNCHANGED <<cancellation, first_worker_error>>
    /\ UNCHANGED <<next_batch, completed_batches, cancelled_batches, pc,
                   batch, tree, pair_count, sink, caller>>

\* After an error the caller looks at the same worker again.
Gather_Stays ==
    /\ caller = "gathering"
    /\ waiting_on \in Workers
    /\ pc[waiting_on] \in {"ok", "error"}
    /\ IF pc[waiting_on] = "error"
       THEN /\ cancellation' = TRUE
            /\ first_worker_error' = waiting_on
            /\ UNCHANGED waiting_on
       ELSE /\ waiting_on' = waiting_on + 1
            /\ UNCHANGED <<cancellation, first_worker_error>>
    /\ UNCHANGED <<next_batch, completed_batches, cancelled_batches, pc,
                   batch, tree, pair_count, sink, caller>>

\* Detached threads: the exception leaves the frame at once.
Unwind_NoJoin ==
    /\ caller = "unwinding"
    /\ caller' = "raised"
    /\ UNCHANGED <<runtime, pc, batch, tree, pair_count, sink, waiting_on,
                   first_worker_error>>

-----------------------------------------------------------------------------
(* The worker loop                                                         *)

\* if (search_cancelled(&runtime.cancellation)) return kUnit;
CheckCancelled(w) ==
    /\ Goto(w, "check", IF cancellation THEN "ok" ELSE "claim")
    /\ UNCHANGED <<runtime, batch, tree, pair_count, sink, main>>

\* claim_next_search_batch: fetch_add, also when nothing is left to claim.
Claim(w) ==
    /\ next_batch' = next_batch + 1
    /\ IF next_batch < BatchCount
       THEN /\ Goto(w, "claim", "search")
            /\ batch' = [batch EXCEPT ![w] = next_batch]
       ELSE /\ Goto(w, "claim", "ok")
            /\ UNCHANGED batch
    /\ UNCHANGED <<completed_batches, cancelled_batches, cancellation, tree,
                   pair_count, sink, main>>

\* search_batch_connections: the tree runs to its end, or it sees the token
\* set and returns an empty result that looks like any other.
SearchEnds(w) ==
    /\ Goto(w, "search", "recheck")
    /\ \E t \in {"exhausted"} \cup (IF cancellation THEN {"stopped"} ELSE {}) :
            tree' = [tree EXCEPT ![w] = t]
    /\ UNCHANGED <<runtime, batch, pair_count, sink, main>>

SearchFails(w) ==
    /\ "search" \in CanFail
    /\ Goto(w, "search", "fail")
    /\ UNCHANGED <<runtime, batch, tree, pair_count, sink, main>>

\* if (search_cancelled(...)) return Cancelled;  the result is dropped.
Recheck(w) ==
    /\ Goto(w, "recheck", IF cancellation THEN "cancelled" ELSE "count")
    /\ UNCHANGED <<runtime, batch, tree, pair_count, sink, main>>

\* The fetch_adds of the pair and alternative counters, before the sink.
Count(w) ==
    /\ Goto(w, "count", "lock")
    /\ pair_count' = pair_count + 1
    /\ UNCHANGED <<runtime, batch, tree, sink, main>>

\* std::scoped_lock lock(origin_sink_mutex), and the sink's first statement.
LockSink(w) ==
    /\ sink_mutex = NoOne
    /\ Goto(w, "lock", "load")
    /\ sink_mutex' = w
    /\ summary' = Append(summary, batch[w])
    /\ UNCHANGED <<runtime, batch, tree, pair_count, choice, loads, main>>

\* load_origin_day_path_demand and its validation.
LoadDemand(w) ==
    /\ Goto(w, "load", "merge")
    /\ UNCHANGED <<runtime, batch, tree, pair_count, sink, main>>

LoadDemandFails(w) ==
    /\ "load" \in CanFail
    /\ Goto(w, "load", "fail")
    /\ sink_mutex' = NoOne
    /\ UNCHANGED <<runtime, batch, tree, pair_count, summary, choice, loads,
                   main>>

\* append_origin_day_choice_result and append_origin_day_split_result.
MergeChoice(w) ==
    /\ Goto(w, "merge", "accumulate")
    /\ choice' = Append(choice, batch[w])
    /\ UNCHANGED <<runtime, batch, tree, pair_count, sink_mutex, summary,
                   loads, main>>

Accumulate(w) ==
    /\ Goto(w, "accumulate", "unlock")
    /\ loads' = Append(loads, batch[w])
    /\ UNCHANGED <<runtime, batch, tree, pair_count, sink_mutex, summary,
                   choice, main>>

AccumulateFails(w) ==
    /\ "accumulate" \in CanFail
    /\ Goto(w, "accumulate", "fail")
    /\ sink_mutex' = NoOne
    /\ UNCHANGED <<runtime, batch, tree, pair_count, summary, choice, loads,
                   main>>

UnlockSink(w) ==
    /\ Goto(w, "unlock", "complete")
    /\ sink_mutex' = NoOne
    /\ UNCHANGED <<runtime, batch, tree, pair_count, summary, choice, loads,
                   main>>

\* mark_search_batch_completed, then the loop again.
MarkCompleted(w) ==
    /\ Goto(w, "complete", "check")
    /\ completed_batches' = completed_batches + 1
    /\ batch' = [batch EXCEPT ![w] = NoBatch]
    /\ tree' = [tree EXCEPT ![w] = "none"]
    /\ UNCHANGED <<next_batch, cancelled_batches, cancellation, pair_count,
                   sink, main>>

\* mark_search_batch_cancelled; return kUnit.
MarkCancelled(w) ==
    /\ Goto(w, "cancelled", "ok")
    /\ cancelled_batches' = cancelled_batches + 1
    /\ UNCHANGED <<next_batch, completed_batches, cancellation, batch, tree,
                   pair_count, sink, main>>

\* request_search_cancellation; return unexpected(error).
RequestCancellation(w) ==
    /\ Goto(w, "fail", "error")
    /\ cancellation' = TRUE
    /\ UNCHANGED <<next_batch, completed_batches, cancelled_batches, batch,
                   tree, pair_count, sink, main>>

\* An exception leaves the step: the lock is released on the way, the future
\* keeps the exception, and nobody requests cancellation.
Throw(w) ==
    /\ "throw" \in CanFail
    /\ pc[w] \in {"search", "load", "merge", "accumulate"}
    /\ pc' = [pc EXCEPT ![w] = "thrown"]
    /\ sink_mutex' = IF sink_mutex = w THEN NoOne ELSE sink_mutex
    /\ UNCHANGED <<runtime, batch, tree, pair_count, summary, choice, loads,
                   main>>

Worker(w) ==
    \/ CheckCancelled(w) \/ Claim(w)
    \/ SearchEnds(w)     \/ SearchFails(w)
    \/ Recheck(w)        \/ Count(w)
    \/ LockSink(w)
    \/ LoadDemand(w)     \/ LoadDemandFails(w)
    \/ MergeChoice(w)
    \/ Accumulate(w)     \/ AccumulateFails(w)
    \/ UnlockSink(w)
    \/ MarkCompleted(w)  \/ MarkCancelled(w)
    \/ RequestCancellation(w)
    \/ Throw(w)

-----------------------------------------------------------------------------
(* The calling thread                                                      *)

\* One std::async of the loop that fills `workers`.
Spawn ==
    /\ caller = "spawning"
    /\ waiting_on \in Workers
    /\ pc' = [pc EXCEPT ![waiting_on] = "check"]
    /\ waiting_on' = waiting_on + 1
    /\ UNCHANGED <<runtime, batch, tree, pair_count, sink, caller,
                   first_worker_error>>

\* std::async throws: the futures made so far are destroyed.
SpawnFails ==
    /\ caller = "spawning"
    /\ waiting_on \in Workers
    /\ "spawn" \in CanFail
    /\ caller' = "unwinding"
    /\ UNCHANGED <<runtime, pc, batch, tree, pair_count, sink, waiting_on,
                   first_worker_error>>

StartGathering ==
    /\ caller = "spawning"
    /\ waiting_on = WorkerCount
    /\ caller' = "gathering"
    /\ waiting_on' = 0
    /\ UNCHANGED <<runtime, pc, batch, tree, pair_count, sink,
                   first_worker_error>>

\* worker.get() blocks until the future is ready, and keeps the first error.
Gather ==
    /\ caller = "gathering"
    /\ waiting_on \in Workers
    /\ pc[waiting_on] \in {"ok", "error"}
    /\ waiting_on' = waiting_on + 1
    /\ IF pc[waiting_on] = "error" /\ first_worker_error = NoOne
       THEN /\ cancellation' = TRUE
            /\ first_worker_error' = waiting_on
       ELSE UNCHANGED <<cancellation, first_worker_error>>
    /\ UNCHANGED <<next_batch, completed_batches, cancelled_batches, pc,
                   batch, tree, pair_count, sink, caller>>

\* worker.get() rethrows what the worker threw.
GatherThrows ==
    /\ caller = "gathering"
    /\ waiting_on \in Workers
    /\ pc[waiting_on] = "thrown"
    /\ caller' = "unwinding"
    /\ UNCHANGED <<runtime, pc, batch, tree, pair_count, sink, waiting_on,
                   first_worker_error>>

Return ==
    /\ caller = "gathering"
    /\ waiting_on = WorkerCount
    /\ caller' = "returned"
    /\ UNCHANGED <<runtime, pc, batch, tree, pair_count, sink, waiting_on,
                   first_worker_error>>

\* ~future of a std::async future waits for its thread, so the exception
\* leaves the caller's frame only when every spawned worker has ended.
Unwind ==
    /\ caller = "unwinding"
    /\ \A w \in Workers : pc[w] \in Returned \cup {Unspawned}
    /\ caller' = "raised"
    /\ UNCHANGED <<runtime, pc, batch, tree, pair_count, sink, waiting_on,
                   first_worker_error>>

Caller ==
    \/ Spawn  \/ SpawnFails
    \/ StartGathering
    \/ Gather \/ GatherThrows
    \/ Return \/ Unwind

Ended == caller \in {"returned", "raised"}

Next ==
    \/ Caller
    \/ \E w \in Workers : Worker(w)

\* Threads are scheduled and every search ends; each worker takes the sink's
\* mutex at most once per batch, so no strong fairness is needed for it.
Fairness ==
    /\ WF_vars(Caller)
    /\ \A w \in Workers : WF_vars(Worker(w))

Spec == Init /\ [][Next]_vars

-----------------------------------------------------------------------------
(* Properties                                                              *)

Delivering == {"load", "merge", "accumulate", "unlock"}
InStep     == {"search", "recheck", "count", "lock"} \cup Delivering
Broken     == {"fail", "error", "thrown"}

SetOf(s)   == {s[i] : i \in DOMAIN s}
Injective(s) == \A i, j \in DOMAIN s : s[i] = s[j] => i = j
At(PC)     == Cardinality({w \in Workers : pc[w] \in PC})

\* Every variable keeps its type: the shape of the pool's state.
TypeOK ==
    /\ next_batch \in Nat
    /\ completed_batches \in Nat
    /\ cancelled_batches \in Nat
    /\ cancellation \in BOOLEAN
    /\ pc \in [Workers -> PCs]
    /\ batch \in [Workers -> Batches \cup {NoBatch}]
    /\ tree \in [Workers -> {"none", "exhausted", "stopped"}]
    /\ pair_count \in Nat
    /\ sink_mutex \in Workers \cup {NoOne}
    /\ summary \in Seq(Batches)
    /\ choice \in Seq(Batches)
    /\ loads \in Seq(Batches)
    /\ caller \in {"spawning", "gathering", "unwinding", "returned", "raised"}
    /\ waiting_on \in 0 .. WorkerCount
    /\ first_worker_error \in Workers \cup {NoOne}

\* An origin reaches the sink at most once, whatever the interleaving of the
\* claims: the accumulation of the pipeline has no check for a repeated origin.
DeliveredOnce ==
    /\ Injective(summary)
    /\ Injective(choice)
    /\ Injective(loads)

\* The four parts of OdDayPipelineAccumulation list the same origins in the
\* same order whenever no worker is inside the sink and none has failed.
AccumulationConsistent ==
    (sink_mutex = NoOne /\ \A w \in Workers : pc[w] \notin Broken)
        => summary = choice /\ choice = loads

\* A tree that stopped because of the token returns an empty result that looks
\* like an origin without connections: it must never reach the sink.
StoppedTreeNeverDelivered ==
    \A w \in Workers : tree[w] = "stopped" => batch[w] \notin SetOf(summary)

\* Ok from run_search_parallel_batches means that every origin was searched to
\* its end and merged, into every part of the accumulation in one order.
SuccessIsComplete ==
    (caller = "returned" /\ first_worker_error = NoOne) =>
        /\ SetOf(loads) = Batches
        /\ summary = choice /\ choice = loads

\* What the accumulation may never come to, whatever the interleaving and
\* whichever step fails: an origin twice, parts that disagree, an origin that
\* was cut short, or an Ok that misses one.
AccumulationSound ==
    /\ DeliveredOnce
    /\ AccumulationConsistent
    /\ StoppedTreeNeverDelivered
    /\ SuccessIsComplete

\* A worker's error is never lost: the call returns the error of the first
\* worker, in spawn order, that ended with one.
ErrorIsReported ==
    caller = "returned" =>
        /\ \A w \in Workers : pc[w] \in {"ok", "error"}
        /\ \A w \in Workers : pc[w] = "error" =>
                first_worker_error # NoOne /\ first_worker_error <= w
        /\ first_worker_error # NoOne => pc[first_worker_error] = "error"

\* Every claimed batch is completed, cancelled, in a worker's hands, or lost
\* with the worker that failed on it; the claim counter overshoots by at most
\* one per worker, so fetch_add never wraps; and the counters printed after an
\* Ok count every origin once.
Accounting ==
    /\ next_batch <= BatchCount + WorkerCount
    /\ completed_batches + cancelled_batches
          + At(InStep \cup {"complete", "cancelled"}) + At(Broken)
        = IF next_batch < BatchCount THEN next_batch ELSE BatchCount
    /\ (caller = "returned" /\ first_worker_error = NoOne) =>
        /\ completed_batches = BatchCount
        /\ cancelled_batches = 0
        /\ pair_count = BatchCount

\* The lambda captures `runtime`, `step` and the sink by reference: no worker
\* may still run when the call has returned or its exception has left it.
NoWorkerOutlivesCall ==
    Ended => \A w \in Workers : pc[w] \in Returned \cup {Unspawned}

\* The call ends, by return or by exception, however many workers fail.
CallEnds == <>Ended

\* What the caller has heard of the call.
Verdict ==
    IF caller \notin {"returned", "raised"} THEN "running"
    ELSE IF caller = "returned" /\ first_worker_error = NoOne THEN "ok"
    ELSE "failed"

\* The call keeps the promise its caller relies on, see OriginDelivery.
Abstract == INSTANCE OriginDelivery WITH
    Origins   <- Batches,
    delivered <- SetOf(loads),
    verdict   <- Verdict

\* Every step of the pool delivers one origin, gives the verdict, or is
\* invisible; in particular no origin is merged after the verdict.
ImplementsDelivery == Abstract!Spec
=============================================================================
