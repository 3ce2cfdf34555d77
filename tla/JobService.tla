----------------------------- MODULE JobService -----------------------------
(***************************************************************************)
(* The SQLite database shared by every process of VortexJob and the        *)
(* statements and transactions that services/job.service.ts and            *)
(* services/dlq.service.ts run against it.  An operator of this module is  *)
(* what ONE autocommitted statement or ONE transaction does to the tables; *)
(* which process runs it, and when, is said by the modules that extend     *)
(* this one.                                                               *)
(*                                                                         *)
(* The tables are kept column by column.  run_at is kept as "has it        *)
(* passed"; timestamps, payloads, logs and attempt numbers are left out.   *)
(***************************************************************************)
EXTENDS Naturals, FiniteSets

CONSTANTS
    Jobs,        \* ids of the rows of table jobs
    Workers,     \* ids of the rows of table workers, one per worker process
    Execs,       \* ids of the rows of table job_executions: a model bound
    Batches,     \* ids of the rows of table batches
    Queues,      \* ids of the rows of table queues
    None,        \* SQL NULL
    QueueOf,     \* jobs.queue_id
    Priority,    \* jobs.priority
    MaxRetries,  \* jobs.max_retries
    BatchOf      \* jobs.batch_id

ASSUME JobColumns ==
    /\ QueueOf \in [Jobs -> Queues]
    /\ Priority \in [Jobs -> Nat]
    /\ MaxRetries \in [Jobs -> Nat]
    /\ BatchOf \in [Jobs -> Batches \cup {None}]

ASSUME NoneIsNoId ==
    None \notin Jobs \cup Workers \cup Execs \cup Batches

ASSUME FiniteTables == IsFiniteSet(Jobs) /\ IsFiniteSet(Execs)

VARIABLES
    status,      \* jobs.status; "absent" before the row is inserted
    lockedBy,    \* jobs.locked_by_worker_id
    retryCount,  \* jobs.retry_count
    due,         \* jobs.run_at <= now
    deps,        \* table job_dependencies: <<job_id, depends_on_job_id>>
    exStatus,    \* job_executions.status; "none" before the row is inserted
    exJob,       \* job_executions.job_id
    dlq,         \* table dead_letter_queue: resolution of the entry written
                 \* for a failed execution; "none" where there is no entry
    bDone,       \* batches.completed_jobs
    bFailed,     \* batches.failed_jobs
    bStatus,     \* batches.status; "absent" before the row is inserted
    snapshots    \* workers inside the claim transaction whose read snapshot
                 \* is still the newest version of the database

jobVars   == <<status, lockedBy, retryCount, due>>
execVars  == <<exStatus, exJob>>
batchVars == <<bDone, bFailed, bStatus>>
dbVars    == <<jobVars, deps, execVars, dlq, batchVars, snapshots>>

JobStatus == {"absent", "queued", "scheduled", "claimed", "running",
              "completed", "failed", "dead"}
Locking   == {"claimed", "running"}
Settled   == {"completed", "failed", "dead"}

DatabaseTypeOK ==
    /\ status \in [Jobs -> JobStatus]
    /\ lockedBy \in [Jobs -> Workers \cup {None}]
    /\ retryCount \in [Jobs -> Nat]
    /\ due \in [Jobs -> BOOLEAN]
    /\ deps \in SUBSET (Jobs \X Jobs)
    /\ exStatus \in [Execs -> {"none", "running", "completed", "failed"}]
    /\ exJob \in [Execs -> Jobs \cup {None}]
    /\ dlq \in [Execs -> {"none", "open", "retry", "ignore"}]
    /\ bDone \in [Batches -> Nat]
    /\ bFailed \in [Batches -> Nat]
    /\ bStatus \in [Batches -> {"absent", "pending", "running",
                                "completed", "failed"}]
    /\ snapshots \in SUBSET Workers

DatabaseInit ==
    /\ status = [j \in Jobs |-> "absent"]
    /\ lockedBy = [j \in Jobs |-> None]
    /\ retryCount = [j \in Jobs |-> 0]
    /\ due = [j \in Jobs |-> FALSE]
    /\ deps = {}
    /\ exStatus = [e \in Execs |-> "none"]
    /\ exJob = [e \in Execs |-> None]
    /\ dlq = [e \in Execs |-> "none"]
    /\ bDone = [b \in Batches |-> 0]
    /\ bFailed = [b \in Batches |-> 0]
    /\ bStatus = [b \in Batches |-> "absent"]
    /\ snapshots = {}

Exists(j)      == status[j] # "absent"
JobsOf(b)      == {j \in Jobs : BatchOf[j] = b}
FailedRuns(j)  == {e \in Execs : exJob[e] = j /\ exStatus[e] = "failed"}
UnusedExecs    == {e \in Execs : exStatus[e] = "none"}
NextExec       == CHOOSE e \in Execs : exStatus[e] = "none"

-----------------------------------------------------------------------------
(* Writing.  SQLite in WAL mode: a commit by anybody makes every read      *)
(* snapshot that was open at that moment an old one.                       *)

Commit == snapshots' = {}

(* create: one transaction inserts the row and its dependencies.  Type     *)
(* "delayed", "scheduled" or "cron" starts as scheduled, the others as     *)
(* queued; run_at may be in the past or in the future in either case.      *)
InsertJob(j, st, isDue, parents) ==
    /\ ~Exists(j)
    /\ BatchOf[j] = None
    /\ \A p \in parents : Exists(p)
    /\ status' = [status EXCEPT ![j] = st]
    /\ due' = [due EXCEPT ![j] = isDue]
    /\ deps' = deps \cup {<<j, p>> : p \in parents}
    /\ Commit
    /\ UNCHANGED <<lockedBy, retryCount, execVars, dlq, batchVars>>

(* createBatch: the batch row and all its jobs, queued and due at once.    *)
InsertBatch(b) ==
    /\ bStatus[b] = "absent"
    /\ JobsOf(b) # {}
    /\ bStatus' = [bStatus EXCEPT ![b] = "pending"]
    /\ status' = [j \in Jobs |-> IF BatchOf[j] = b THEN "queued" ELSE status[j]]
    /\ due' = [j \in Jobs |-> BatchOf[j] = b \/ due[j]]
    /\ Commit
    /\ UNCHANGED <<lockedBy, retryCount, deps, execVars, dlq, bDone, bFailed>>

(* Mutant of BatchVerdict: a batch is over only once every job completed.  *)
BatchVerdictOfCompletedOnly(b, done, failed) ==
    IF done >= Cardinality(JobsOf(b))
    THEN IF failed > 0 THEN "failed" ELSE "completed"
    ELSE IF done + failed > 0 THEN "running" ELSE bStatus[b]

(* updateBatchStatus, for counters that have just become done and failed.  *)
BatchVerdict(b, done, failed) ==
    IF done + failed >= Cardinality(JobsOf(b))
    THEN IF failed > 0 THEN "failed" ELSE "completed"
    ELSE IF done + failed > 0 THEN "running" ELSE bStatus[b]

CountInBatch(j, done, failed) ==
    LET b == BatchOf[j] IN
    IF b = None
    THEN UNCHANGED batchVars
    ELSE /\ bDone' = [bDone EXCEPT ![b] = @ + done]
         /\ bFailed' = [bFailed EXCEPT ![b] = @ + failed]
         /\ bStatus' = [bStatus EXCEPT ![b] =
                           BatchVerdict(b, bDone[b] + done, bFailed[b] + failed)]

-----------------------------------------------------------------------------
(* claimJob: the SELECT of the claim transaction and its UPDATE.           *)

(* Mutant of Claimable: parents that have failed or died count as done.    *)
ClaimableAfterSettledParents(j) ==
    /\ status[j] \in {"queued", "scheduled"}
    /\ due[j]
    /\ \A p \in Jobs : <<j, p>> \in deps => status[p] \in Settled

Claimable(j) ==
    /\ status[j] \in {"queued", "scheduled"}
    /\ due[j]
    /\ \A p \in Jobs : <<j, p>> \in deps => status[p] = "completed"

(* The row the SELECT returns: highest priority of its queue.  Which of    *)
(* several equals comes first (run_at, then id) is left open.              *)
Candidate(j) ==
    /\ Claimable(j)
    /\ \A k \in Jobs : QueueOf[k] = QueueOf[j] /\ Claimable(k)
                         => Priority[k] <= Priority[j]

(* Mutant of ClaimRow: SELECT and UPDATE without a transaction.            *)
ClaimRowWithoutTransaction(w, j) ==
    /\ status' = [status EXCEPT ![j] = "claimed"]
    /\ lockedBy' = [lockedBy EXCEPT ![j] = w]
    /\ Commit
    /\ UNCHANGED <<retryCount, due, deps, execVars, dlq, batchVars>>

(* The transaction is deferred: it upgrades from reading to writing at the *)
(* UPDATE, which SQLite refuses unless the snapshot is the newest version. *)
ClaimRow(w, j) ==
    /\ w \in snapshots
    /\ status' = [status EXCEPT ![j] = "claimed"]
    /\ lockedBy' = [lockedBy EXCEPT ![j] = w]
    /\ Commit
    /\ UNCHANGED <<retryCount, due, deps, execVars, dlq, batchVars>>

(* startExecution: no condition on the job's status or lock.               *)
StartRow(j, e) ==
    /\ exStatus[e] = "none"
    /\ status' = [status EXCEPT ![j] = "running"]
    /\ exStatus' = [exStatus EXCEPT ![e] = "running"]
    /\ exJob' = [exJob EXCEPT ![e] = j]
    /\ Commit
    /\ UNCHANGED <<lockedBy, retryCount, due, deps, dlq, batchVars>>

(* completeJob: likewise unconditional.                                    *)
CompleteRow(j, e) ==
    /\ status' = [status EXCEPT ![j] = "completed"]
    /\ lockedBy' = [lockedBy EXCEPT ![j] = None]
    /\ exStatus' = [exStatus EXCEPT ![e] = "completed"]
    /\ CountInBatch(j, 1, 0)
    /\ Commit
    /\ UNCHANGED <<retryCount, due, deps, exJob, dlq>>

(* failJob, first statement: the execution is closed on its own.           *)
FailExecRow(e) ==
    /\ exStatus' = [exStatus EXCEPT ![e] = "failed"]
    /\ Commit
    /\ UNCHANGED <<jobVars, deps, exJob, dlq, batchVars>>

(* Mutant of RequeueRow: the UPDATE does not clear locked_by_worker_id.    *)
RequeueRowStillLocked(j, attempts) ==
    /\ attempts < MaxRetries[j]
    /\ status' = [status EXCEPT ![j] = "queued"]
    /\ retryCount' = [retryCount EXCEPT ![j] = attempts]
    /\ due' = [due EXCEPT ![j] = FALSE]
    /\ Commit
    /\ UNCHANGED <<lockedBy, deps, execVars, dlq, batchVars>>

(* failJob, retries left: back to the queue with a later run_at.           *)
RequeueRow(j, attempts) ==
    /\ attempts < MaxRetries[j]
    /\ status' = [status EXCEPT ![j] = "queued"]
    /\ retryCount' = [retryCount EXCEPT ![j] = attempts]
    /\ due' = [due EXCEPT ![j] = FALSE]
    /\ lockedBy' = [lockedBy EXCEPT ![j] = None]
    /\ Commit
    /\ UNCHANGED <<deps, execVars, dlq, batchVars>>

(* Mutant of BuryRow: the retry limit is off by one.                       *)
BuryRowOneEarly(j, e, attempts) ==
    /\ attempts + 1 >= MaxRetries[j]
    /\ status' = [status EXCEPT ![j] = "dead"]
    /\ lockedBy' = [lockedBy EXCEPT ![j] = None]
    /\ dlq' = [dlq EXCEPT ![e] = "open"]
    /\ CountInBatch(j, 0, 1)
    /\ Commit
    /\ UNCHANGED <<retryCount, due, deps, execVars>>

(* failJob, no retries left: dead, with an entry in the dead letter queue. *)
BuryRow(j, e, attempts) ==
    /\ attempts >= MaxRetries[j]
    /\ status' = [status EXCEPT ![j] = "dead"]
    /\ lockedBy' = [lockedBy EXCEPT ![j] = None]
    /\ dlq' = [dlq EXCEPT ![e] = "open"]
    /\ CountInBatch(j, 0, 1)
    /\ Commit
    /\ UNCHANGED <<retryCount, due, deps, execVars>>

-----------------------------------------------------------------------------
(* Commands of a user.                                                     *)

(* Mutant of RetryRow: only a failed job is re-queued.                     *)
RetryRowOfFailed(j) ==
    /\ Exists(j)
    /\ status' = IF status[j] = "failed"
                 THEN [status EXCEPT ![j] = "queued"] ELSE status
    /\ Commit
    /\ UNCHANGED <<lockedBy, retryCount, due, deps, execVars, dlq, batchVars>>

(* retryJob: from any status.                                              *)
RetryRow(j) ==
    /\ Exists(j)
    /\ status' = [status EXCEPT ![j] = "queued"]
    /\ retryCount' = [retryCount EXCEPT ![j] = 0]
    /\ due' = [due EXCEPT ![j] = TRUE]
    /\ lockedBy' = [lockedBy EXCEPT ![j] = None]
    /\ Commit
    /\ UNCHANGED <<deps, execVars, dlq, batchVars>>

(* Mutant of CancelRow: a status the table's CHECK does not list.          *)
CancelRowAsCancelled(j) ==
    /\ status[j] \notin {"absent", "completed", "dead"}
    /\ status' = [status EXCEPT ![j] = "cancelled"]
    /\ lockedBy' = [lockedBy EXCEPT ![j] = None]
    /\ Commit
    /\ UNCHANGED <<retryCount, due, deps, execVars, dlq, batchVars>>

(* Mutant of CancelRow: no condition on the status.                        *)
CancelRowOfSettled(j) ==
    /\ Exists(j)
    /\ status' = [status EXCEPT ![j] = "failed"]
    /\ lockedBy' = [lockedBy EXCEPT ![j] = None]
    /\ Commit
    /\ UNCHANGED <<retryCount, due, deps, execVars, dlq, batchVars>>

(* cancelJob: "failed" unless the job is completed or dead.                *)
CancelRow(j) ==
    /\ status[j] \notin {"absent", "completed", "dead"}
    /\ status' = [status EXCEPT ![j] = "failed"]
    /\ lockedBy' = [lockedBy EXCEPT ![j] = None]
    /\ Commit
    /\ UNCHANGED <<retryCount, due, deps, execVars, dlq, batchVars>>

(* addDependency: any two existing jobs, a pair at most once.              *)
LinkRow(j, p) ==
    /\ Exists(j) /\ Exists(p)
    /\ <<j, p>> \notin deps
    /\ deps' = deps \cup {<<j, p>>}
    /\ Commit
    /\ UNCHANGED <<jobVars, execVars, dlq, batchVars>>

(* dlqService: an entry is resolved whether or not it already was.         *)
ResolveRow(e, resolution) ==
    /\ dlq[e] # "none"
    /\ dlq' = [dlq EXCEPT ![e] = resolution]
    /\ Commit
    /\ UNCHANGED <<jobVars, deps, execVars, batchVars>>

=============================================================================
