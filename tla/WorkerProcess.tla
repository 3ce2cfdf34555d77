--------------------------- MODULE WorkerProcess ---------------------------
(***************************************************************************)
(* The worker processes: worker/worker-process.ts, the rows that           *)
(* services/worker.service.ts keeps for them, and their way through        *)
(* claimJob, startExecution, completeJob and failJob.                      *)
(*                                                                         *)
(* A worker is one incarnation of the process: a restarted process         *)
(* registers a new row.  JavaScript runs one callback at a time, so while  *)
(* a worker is between two statements of a handler (pc # "idle") its       *)
(* timers and signal handlers wait; only other processes interleave.       *)
(***************************************************************************)
EXTENDS JobService

CONSTANTS
    Concurrency, \* config.defaultConcurrency
    Stallable,   \* workers that may live and yet miss heartbeats for 30s
    Crashable,   \* workers that may be killed, or refused a statement, at any point
    Stoppable,   \* workers that may be sent SIGTERM
    LogFails     \* workers whose log insert after a completion may fail

ASSUME WorkerConstants ==
    /\ Concurrency \in Nat \ {0}
    /\ Stallable \subseteq Workers
    /\ Crashable \subseteq Workers
    /\ Stoppable \subseteq Workers
    /\ LogFails \subseteq Workers

VARIABLES
    wStatus,     \* workers.status; "absent" before register
    expired,     \* workers with last_heartbeat_at older than the timeout
    proc,        \* the operating system's process
    pc,          \* where the synchronous handler of a worker stands
    cand,        \* the job between its claim and its start
    cur,         \* the execution inside failJob
    seen,        \* retry_count as failJob has read it
    runs,        \* executions whose promise is pending
    active,      \* the activeJobs map: the execution stored under a job id
    waiting,     \* the promises shutdown waits for
    taken        \* history: jobs unlocked by somebody else, or by a commit
                 \* whose handler then failed, while a worker had them in hand

rowVars    == <<wStatus, expired>>
localVars  == <<proc, pc, cand, cur, seen, runs, active, waiting>>
workerVars == <<rowVars, localVars, taken>>

Live(w) == proc[w] \in {"up", "draining"}
Idle(w) == Live(w) /\ pc[w] = "idle"

WorkersTypeOK ==
    /\ wStatus \in [Workers -> {"absent", "active", "draining", "inactive"}]
    /\ expired \in SUBSET Workers
    /\ proc \in [Workers -> {"new", "up", "draining", "exited", "dead"}]
    /\ pc \in [Workers -> {"idle", "selected", "claimed", "caught", "failing"}]
    /\ cand \in [Workers -> Jobs \cup {None}]
    /\ cur \in [Workers -> Execs \cup {None}]
    /\ seen \in [Workers -> Nat]
    /\ runs \in [Workers -> SUBSET Execs]
    /\ active \in [Workers -> [Jobs -> Execs \cup {None}]]
    /\ waiting \in [Workers -> SUBSET Execs]
    /\ taken \in SUBSET Jobs

WorkersInit ==
    /\ wStatus = [w \in Workers |-> "absent"]
    /\ expired = {}
    /\ proc = [w \in Workers |-> "new"]
    /\ pc = [w \in Workers |-> "idle"]
    /\ cand = [w \in Workers |-> None]
    /\ cur = [w \in Workers |-> None]
    /\ seen = [w \in Workers |-> 0]
    /\ runs = [w \in Workers |-> {}]
    /\ active = [w \in Workers |-> [j \in Jobs |-> None]]
    /\ waiting = [w \in Workers |-> {}]
    /\ taken = {}

(* Worker w has claimed j and not yet started it, or is running it.        *)
InHand(w, j) ==
    \/ pc[w] = "claimed" /\ cand[w] = j
    \/ \E e \in runs[w] : exJob[e] = j

ActiveCount(w) == Cardinality({j \in Jobs : active[w][j] # None})

(* Mutant of HasRoom: one job too many.                                    *)
HasRoomForOneMore(w) == ActiveCount(w) <= Concurrency

HasRoom(w) == ActiveCount(w) < Concurrency

(* Mutant of AllSettled: Promise.race, the first promise to settle.        *)
FirstSettled(w) == waiting[w] = {} \/ ~(waiting[w] \subseteq runs[w])

(* Promise.allSettled(waiting) has resolved.                               *)
AllSettled(w) == waiting[w] \cap runs[w] = {}

-----------------------------------------------------------------------------
(* Life of the process.                                                    *)

(* start, register: the row appears as active with a fresh heartbeat.      *)
Register(w) ==
    /\ proc[w] = "new"
    /\ proc' = [proc EXCEPT ![w] = "up"]
    /\ wStatus' = [wStatus EXCEPT ![w] = "active"]
    /\ Commit
    /\ UNCHANGED <<jobVars, deps, execVars, dlq, batchVars, expired,
                   pc, cand, cur, seen, runs, active, waiting, taken>>

Heartbeat(w) ==
    /\ Idle(w)
    /\ expired' = expired \ {w}
    /\ Commit
    /\ UNCHANGED <<jobVars, deps, execVars, dlq, batchVars, wStatus,
                   localVars, taken>>

(* 30 seconds pass without a heartbeat: the process is gone, or it lives   *)
(* and was not scheduled (a stalled event loop, a suspended machine).      *)
HeartbeatExpires(w) ==
    /\ wStatus[w] # "absent"
    /\ w \notin expired
    /\ ~Live(w) \/ w \in Stallable
    /\ expired' = expired \cup {w}
    /\ UNCHANGED <<dbVars, wStatus, localVars, taken>>

(* shutdown(SIGTERM): draining; the promises in the map are awaited.       *)
Shutdown(w) ==
    /\ w \in Stoppable
    /\ proc[w] = "up" /\ pc[w] = "idle"
    /\ proc' = [proc EXCEPT ![w] = "draining"]
    /\ wStatus' = [wStatus EXCEPT ![w] = "draining"]
    /\ waiting' = [waiting EXCEPT ![w] = {active[w][j] : j \in Jobs} \ {None}]
    /\ Commit
    /\ UNCHANGED <<jobVars, deps, execVars, dlq, batchVars, expired,
                   pc, cand, cur, seen, runs, active, taken>>

(* Everything in w's memory is gone.                                       *)
LoseMemory(w, fate) ==
    /\ proc' = [proc EXCEPT ![w] = fate]
    /\ pc' = [pc EXCEPT ![w] = "idle"]
    /\ cand' = [cand EXCEPT ![w] = None]
    /\ cur' = [cur EXCEPT ![w] = None]
    /\ seen' = [seen EXCEPT ![w] = 0]
    /\ runs' = [runs EXCEPT ![w] = {}]
    /\ active' = [active EXCEPT ![w] = [j \in Jobs |-> None]]
    /\ waiting' = [waiting EXCEPT ![w] = {}]

(* allSettled has resolved: setInactive, process.exit.                     *)
Exit(w) ==
    /\ proc[w] = "draining" /\ pc[w] = "idle"
    /\ AllSettled(w)
    /\ LoseMemory(w, "exited")
    /\ wStatus' = [wStatus EXCEPT ![w] = "inactive"]
    /\ Commit
    /\ UNCHANGED <<jobVars, deps, execVars, dlq, batchVars, expired, taken>>

(* The process is killed, or dies of an unhandled rejection: a statement   *)
(* of startExecution or failJob throws, and the promise is not one of      *)
(* those a drain waits for.  An open transaction rolls back.               *)
Crash(w) ==
    /\ w \in Crashable
    /\ Live(w)
    /\ LoseMemory(w, "dead")
    /\ snapshots' = snapshots \ {w}
    /\ UNCHANGED <<jobVars, deps, execVars, dlq, batchVars, rowVars, taken>>

-----------------------------------------------------------------------------
(* pollTick and claimJob.                                                  *)

(* The SELECT of the claim transaction.  The tests of claimJob that come   *)
(* before it (queue paused, concurrency and rate limit) may refuse at any  *)
(* time: refusing is not taking this step.                                 *)
ClaimSelect(w, j) ==
    /\ proc[w] = "up" /\ pc[w] = "idle"
    /\ HasRoom(w)
    /\ Candidate(j)
    /\ Cardinality(UnusedExecs)
         > Cardinality({v \in Workers : pc[v] \in {"selected", "claimed"}})
    /\ pc' = [pc EXCEPT ![w] = "selected"]
    /\ cand' = [cand EXCEPT ![w] = j]
    /\ snapshots' = snapshots \cup {w}
    /\ UNCHANGED <<jobVars, deps, execVars, dlq, batchVars, rowVars,
                   proc, cur, seen, runs, active, waiting, taken>>

(* The UPDATE and the commit of the claim transaction.                     *)
ClaimUpdate(w) ==
    /\ pc[w] = "selected"
    /\ ClaimRow(w, cand[w])
    /\ pc' = [pc EXCEPT ![w] = "claimed"]
    /\ UNCHANGED <<rowVars, proc, cand, cur, seen, runs, active, waiting, taken>>

(* SQLITE_BUSY: the transaction rolls back, pollTick logs the error.       *)
ClaimBusy(w) ==
    /\ pc[w] = "selected"
    /\ pc' = [pc EXCEPT ![w] = "idle"]
    /\ cand' = [cand EXCEPT ![w] = None]
    /\ snapshots' = snapshots \ {w}
    /\ UNCHANGED <<jobVars, deps, execVars, dlq, batchVars, rowVars,
                   proc, cur, seen, runs, active, waiting, taken>>

(* executeJob up to its first await: startExecution, then activeJobs.set.  *)
Start(w) ==
    LET e == NextExec IN
    /\ pc[w] = "claimed"
    /\ e \in Execs
    /\ StartRow(cand[w], e)
    /\ pc' = [pc EXCEPT ![w] = "idle"]
    /\ cand' = [cand EXCEPT ![w] = None]
    /\ runs' = [runs EXCEPT ![w] = @ \cup {e}]
    /\ active' = [active EXCEPT ![w][cand[w]] = e]
    /\ UNCHANGED <<rowVars, proc, cur, seen, waiting, taken>>

-----------------------------------------------------------------------------
(* The end of an execution: the rest of executeJob and its finally, which  *)
(* deletes the map entry of the JOB, whatever execution it holds.          *)

Settle(w, e) ==
    /\ runs' = [runs EXCEPT ![w] = @ \ {e}]
    /\ active' = [active EXCEPT ![w][exJob[e]] = None]

Complete(w, e) ==
    /\ Idle(w)
    /\ e \in runs[w]
    /\ CompleteRow(exJob[e], e)
    /\ Settle(w, e)
    /\ UNCHANGED <<rowVars, proc, pc, cand, cur, seen, waiting, taken>>

(* completeJob commits, but the log line it then inserts is refused (the   *)
(* database is busy): executeJob catches that and goes on to failJob.      *)
CompleteLogFails(w, e) ==
    /\ w \in LogFails
    /\ Idle(w)
    /\ e \in runs[w]
    /\ CompleteRow(exJob[e], e)
    /\ pc' = [pc EXCEPT ![w] = "caught"]
    /\ cur' = [cur EXCEPT ![w] = e]
    /\ taken' = taken \cup {exJob[e]}
    /\ UNCHANGED <<rowVars, proc, cand, seen, runs, active, waiting>>

(* failJob reads the job and closes the execution.                         *)
FailRead(w, e) ==
    /\ \/ Idle(w) /\ e \in runs[w]
       \/ pc[w] = "caught" /\ e = cur[w]
    /\ FailExecRow(e)
    /\ pc' = [pc EXCEPT ![w] = "failing"]
    /\ cur' = [cur EXCEPT ![w] = e]
    /\ seen' = [seen EXCEPT ![w] = retryCount[exJob[e]]]
    /\ UNCHANGED <<rowVars, proc, cand, runs, active, waiting, taken>>

(* failJob writes the job, by the retry_count it has read before.          *)
FailWrite(w) ==
    LET e == cur[w] IN
    /\ pc[w] = "failing"
    /\ \/ RequeueRow(exJob[e], seen[w] + 1)
       \/ BuryRow(exJob[e], e, seen[w] + 1)
    /\ Settle(w, e)
    /\ pc' = [pc EXCEPT ![w] = "idle"]
    /\ cur' = [cur EXCEPT ![w] = None]
    /\ seen' = [seen EXCEPT ![w] = 0]
    /\ UNCHANGED <<rowVars, proc, cand, waiting, taken>>

(* A statement of failJob throws while the worker drains: allSettled takes *)
(* the rejection, finally clears the map entry, and the worker lives on.   *)
FailSwallowed(w, e) ==
    /\ w \in Crashable
    /\ e \in waiting[w]
    /\ \/ Idle(w) /\ e \in runs[w]
       \/ pc[w] \in {"caught", "failing"} /\ e = cur[w]
    /\ Settle(w, e)
    /\ pc' = [pc EXCEPT ![w] = "idle"]
    /\ cur' = [cur EXCEPT ![w] = None]
    /\ seen' = [seen EXCEPT ![w] = 0]
    /\ UNCHANGED <<dbVars, rowVars, proc, cand, waiting, taken>>

(* Such an execution was of j: w is done with it and j is still running.   *)
Dropped(w, j) ==
    /\ proc[w] = "draining" /\ status[j] = "running"
    /\ \E e \in waiting[w] \ runs[w] : exJob[e] = j /\ exStatus[e] # "completed"

=============================================================================
