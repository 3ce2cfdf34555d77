----------------------------- MODULE VortexJob -----------------------------
(***************************************************************************)
(* The system: one API process and the worker processes over one database. *)
(***************************************************************************)
EXTENDS ApiServer

CONSTANT Kinds  \* the <<status, due>> that created jobs may start with

ASSUME KindsOfJobs == Kinds \subseteq {"queued", "scheduled"} \X BOOLEAN

vars == <<dbVars, workerVars, api, reopened>>

TypeOK == DatabaseTypeOK /\ WorkersTypeOK /\ ApiTypeOK

Init == DatabaseInit /\ WorkersInit /\ ApiInit

(* The clock reaches run_at.                                               *)
RunAtArrives(j) ==
    /\ Exists(j) /\ ~due[j]
    /\ due' = [due EXCEPT ![j] = TRUE]
    /\ UNCHANGED <<status, lockedBy, retryCount, deps, execVars, dlq,
                   batchVars, snapshots, workerVars, api, reopened>>

WorkerStep(w) ==
    /\ \/ Register(w)
       \/ Heartbeat(w)
       \/ HeartbeatExpires(w)
       \/ Shutdown(w)
       \/ Exit(w)
       \/ Crash(w)
       \/ \E j \in Jobs : ClaimSelect(w, j)
       \/ ClaimUpdate(w)
       \/ ClaimBusy(w)
       \/ Start(w)
       \/ \E e \in Execs : \/ Complete(w, e)
                           \/ CompleteLogFails(w, e)
                           \/ FailRead(w, e)
                           \/ FailSwallowed(w, e)
       \/ FailWrite(w)
    /\ UNCHANGED <<api, reopened>>

Command ==
    \/ \E j \in Jobs, kind \in Kinds, parents \in SUBSET Jobs :
          Create(j, kind[1], kind[2], parents)
    \/ \E b \in Batches : CreateBatch(b)
    \/ \E j \in Jobs : RetryJob(j)
    \/ \E j \in Jobs : CancelJob(j)
    \/ \E j, p \in Jobs : AddDependency(j, p)
    \/ \E e \in Execs : DlqMark(e)
    \/ \E e \in Execs : DlqIgnore(e)

ApiStep ==
    \/ Command
    \/ DlqRequeue
    \/ ApiCrash
    \/ Reap
    \/ PromoteScheduled

Next ==
    \/ \E w \in Workers : WorkerStep(w)
    \/ ApiStep
    \/ \E j \in Jobs : RunAtArrives(j)

Spec == Init /\ [][Next]_vars

-----------------------------------------------------------------------------
(* Safety.                                                                 *)

(* A lock held by a living worker is backed by something that worker still *)
(* has to do: no order of crashes, stalls, reaps and commands leaves a     *)
(* live worker with a lock that nothing will release, but for a draining   *)
(* worker whose failJob was refused.  (startExecution, completeJob,        *)
(* failJob each clear or keep locked_by_worker_id.)                        *)
LockBacked ==
    \A j \in Jobs, w \in Workers :
        lockedBy[j] = w /\ Live(w) => InHand(w, j) \/ Dropped(w, j)

(* A job nobody has disturbed belongs to exactly one worker from claim to  *)
(* outcome: it is locked exactly while claimed or running, only the lock   *)
(* holder has it in hand, and it is never run twice at a time.  startExe-  *)
(* cution, completeJob and failJob do not check this; claimJob has to.     *)
OwnershipIntact ==
    \A j \in Jobs \ taken :
        /\ status[j] \in Locking <=> lockedBy[j] # None
        /\ \A w \in Workers :
              /\ pc[w] = "claimed" /\ cand[w] = j =>
                    status[j] = "claimed" /\ lockedBy[j] = w
              /\ \A e \in runs[w] : exJob[e] = j =>
                    status[j] = "running" /\ lockedBy[j] = w
        /\ \A v, w \in Workers : \A d \in runs[v], e \in runs[w] :
              exJob[d] = j /\ exJob[e] = j => d = e

(* The lock columns implement a lease: a claim never takes a lock that is  *)
(* held.  The claim transaction reads under a deferred BEGIN, so this      *)
(* rests on SQLite refusing the UPDATE of an old snapshot.                 *)
L == INSTANCE Lease WITH holder <- lockedBy
LocksAreLeases == L!LeaseSpec

(* Failing is counted at least as often as it is charged: retry_count, and *)
(* the verdict "dead", never run ahead of the executions that have failed, *)
(* although failJob writes a count it has read before another commit.      *)
NoEarlyDeath ==
    \A j \in Jobs :
        /\ retryCount[j] <= Cardinality(FailedRuns(j))
        /\ status[j] = "dead" =>
              /\ FailedRuns(j) # {}
              /\ Cardinality(FailedRuns(j)) >= MaxRetries[j]

(* A dead job can be found in the dead letter queue: one of its entries is *)
(* open or was deliberately ignored, unless dlqService.retry is between    *)
(* its two statements for this job.                                        *)
DeadIsListed ==
    \A j \in Jobs : status[j] = "dead" =>
        \/ \E e \in Execs : exJob[e] = j /\ dlq[e] \in {"open", "ignore"}
        \/ api # None /\ exJob[api] = j

(* The counters of a batch whose jobs were left alone are the numbers of   *)
(* its completed and dead jobs, and its verdict is the one they call for.  *)
BatchExact ==
    \A b \in Batches :
        (bStatus[b] # "absent" /\ JobsOf(b) \cap (taken \cup reopened) = {}) =>
          LET done == {j \in JobsOf(b) : status[j] = "completed"}
              dead == {j \in JobsOf(b) : status[j] = "dead"}
          IN /\ bDone[b] = Cardinality(done)
             /\ bFailed[b] = Cardinality(dead)
             /\ bStatus[b] = "completed" <=> done = JobsOf(b)
             /\ bStatus[b] = "failed" <=>
                   dead # {} /\ done \cup dead = JobsOf(b)

(* A job is in progress or completed only with all its parents completed,  *)
(* unless a parent was disturbed or reopened after it had completed.       *)
ChildAfterParents ==
    \A j \in Jobs \ (taken \cup reopened) :
        (status[j] \in Locking \cup {"completed"}) =>
          \A p \in Jobs : <<j, p>> \in deps =>
              status[p] = "completed" \/ p \in taken \cup reopened

(* A worker never has more undisturbed executions in flight than           *)
(* config.defaultConcurrency, although the map it counts is keyed by job.  *)
CapacityRespected ==
    \A w \in Workers :
        Cardinality({e \in runs[w] : exJob[e] \notin taken}) <= Concurrency

(* A dead worker that holds a lock is still one the reaper looks for,      *)
(* unless it had been drained (Stoppable) or reaped while it lived         *)
(* (Stallable).                                                            *)
DeadLocksReapable ==
    \A j \in Jobs, w \in Workers \ (Stallable \cup Stoppable) :
        lockedBy[j] = w /\ proc[w] \in {"exited", "dead"}
            => wStatus[w] = "active"

(* What a worker remembers fits what it is doing: the part of the state    *)
(* every inductive argument starts from.  A worker that is gone remembers  *)
(* nothing; executions in flight are open, but for the one inside failJob. *)
MemoryConsistent ==
    \A w \in Workers :
        /\ ~Live(w) => pc[w] = "idle" /\ runs[w] = {}
        /\ pc[w] \in {"selected", "claimed"} =>
              cand[w] \in Jobs /\ Exists(cand[w])
        /\ pc[w] \in {"caught", "failing"} => cur[w] \in runs[w]
        /\ pc[w] \in {"idle", "selected", "claimed"} => cur[w] = None
        /\ \A e \in runs[w] :
              /\ exJob[e] \in Jobs
              /\ dlq[e] = "none"
              /\ exStatus[e] = CASE pc[w] = "caught" /\ e = cur[w] -> "completed"
                                 [] pc[w] = "failing" /\ e = cur[w] -> "failed"
                                 [] OTHER -> "running"
        /\ \A v \in Workers \ {w} : runs[v] \cap (runs[w] \cup waiting[w]) = {}
        /\ \A e \in waiting[w] : exStatus[e] # "none" /\ proc[w] = "draining"
        /\ \A j \in Jobs : active[w][j] # None =>
              active[w][j] \in runs[w] /\ exJob[active[w][j]] = j

(* The tables agree: an execution row has a job, only a failed one can     *)
(* have an entry in the dead letter queue, and the jobs of a batch are     *)
(* inserted with it.                                                       *)
TablesConsistent ==
    /\ \A j \in Jobs : BatchOf[j] # None =>
          (status[j] = "absent" <=> bStatus[BatchOf[j]] = "absent")
    /\ \A e \in Execs : exStatus[e] = "none" <=> exJob[e] = None
    /\ \A e \in Execs : exJob[e] # None => Exists(exJob[e])
    /\ \A e \in Execs : dlq[e] # "none" => exStatus[e] = "failed"
    /\ api # None => dlq[api] # "none"

Consistent == TypeOK /\ MemoryConsistent /\ TablesConsistent

(* A lock is held only while its job is claimed or running, and by a       *)
(* worker that has been started.                                           *)
LocksSound ==
    \A j \in Jobs : lockedBy[j] # None =>
        status[j] \in Locking /\ proc[lockedBy[j]] # "new"

(* What a claim has read is still so while its snapshot is the newest.     *)
ClaimGrounds ==
    \A w \in snapshots :
        pc[w] = "selected" /\ Claimable(cand[w])

-----------------------------------------------------------------------------
(* Action properties.                                                      *)

(* Whatever was committed between the SELECT and the UPDATE of a claim,    *)
(* the job it takes is at that moment unlocked, waiting and due, and all   *)
(* its parents are completed: no claim is made on stale grounds.           *)
ClaimsValid ==
    [][\A j \in Jobs :
          lockedBy'[j] \notin {None, lockedBy[j]} =>
              lockedBy[j] = None /\ Claimable(j)]_vars

(* A worker that drains and exits abandons no undisturbed execution:       *)
(* allSettled waits for what was in the map at the signal, and that is     *)
(* everything.  Nor does it leave a lock behind, but for a job whose       *)
(* failJob was refused meanwhile: allSettled does not tell that one from   *)
(* the others.                                                             *)
ExitLosesNothing ==
    [][\A w \in Workers :
          proc[w] = "draining" /\ proc'[w] = "exited" =>
              /\ \A e \in runs[w] : exJob[e] \in taken
              /\ \A j \in Jobs \ taken : lockedBy[j] = w => Dropped(w, j)]_vars

(* The outcome of an undisturbed job is final until a user retries it: no  *)
(* late complete, fail, reap, promotion or claim changes it.               *)
SettledStays ==
    [][\A j \in Jobs \ taken :
          status[j] \in Settled /\ status'[j] # status[j] =>
              RetryJob(j) \/ (DlqRequeue /\ exJob[api] = j)]_vars

-----------------------------------------------------------------------------
(* Liveness.                                                               *)

ByWorker(A) == A /\ UNCHANGED <<api, reopened>>

(* Timers and promises of a living process fire; the operator starts every *)
(* worker; the clock moves on.  A claim may lose its race any number of    *)
(* times but not for ever: the window between its SELECT and its UPDATE is *)
(* microseconds and polls are a second apart (strong fairness).            *)
WorkerFairness(w) ==
    /\ WF_vars(ByWorker(Register(w)))
    /\ WF_vars(ByWorker(~Live(w) /\ HeartbeatExpires(w)))
    /\ WF_vars(ByWorker(\E j \in Jobs : ClaimSelect(w, j)))
    /\ WF_vars(ByWorker(ClaimUpdate(w) \/ ClaimBusy(w)))
    /\ SF_vars(ByWorker(ClaimUpdate(w)))
    /\ WF_vars(ByWorker(Start(w)))
    /\ \A e \in Execs : WF_vars(ByWorker(Complete(w, e) \/ FailRead(w, e)))
    /\ WF_vars(ByWorker(FailWrite(w)))
    /\ WF_vars(ByWorker(Exit(w)))

(* setInterval of index.ts: reaper and scheduler run again and again.      *)
Fairness ==
    /\ \A w \in Workers : WorkerFairness(w)
    /\ WF_vars(Reap)
    /\ WF_vars(PromoteScheduled)
    /\ WF_vars(DlqRequeue)
    /\ \A j \in Jobs : WF_vars(RunAtArrives(j))

FairSpec == Spec /\ Fairness

(* Every job that was accepted reaches an outcome, through any number of   *)
(* worker crashes, unless a parent it waits for ended without completing.  *)
EveryJobSettles ==
    \A j \in Jobs : Exists(j) ~>
        \/ status[j] \in Settled
        \/ \E p \in Jobs : <<j, p>> \in deps /\ status[p] \in {"failed", "dead"}

(* A lock whose worker has died is eventually taken from it.               *)
DeadLocksFreed ==
    \A j \in Jobs, w \in Workers :
        lockedBy[j] = w /\ proc[w] = "dead" ~> lockedBy[j] # w

=============================================================================
