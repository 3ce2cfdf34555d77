----------------------------- MODULE ApiServer -----------------------------
(***************************************************************************)
(* The API process: the HTTP commands of routes/jobs.routes.ts and         *)
(* routes/dlq.routes.ts that change jobs, and the two background loops of  *)
(* index.ts that do, the reaper and the scheduler.  One process, one       *)
(* callback at a time: while a handler is between two statements           *)
(* (api # None) nothing else runs here.                                    *)
(***************************************************************************)
EXTENDS WorkerProcess

CONSTANTS
    Commands,    \* which commands users send: a subset of CommandNames
    ApiMayCrash  \* whether the process may die between two statements

CommandNames == {"retry", "cancel", "dlq", "link"}

ASSUME ApiConstants ==
    /\ Commands \subseteq CommandNames
    /\ ApiMayCrash \in BOOLEAN

VARIABLES
    api,         \* the dead letter entry dlqService.retry has marked and
                 \* whose job it has not yet re-queued, or None
    reopened     \* history: jobs re-queued by retryJob once completed or dead

ApiTypeOK ==
    /\ api \in Execs \cup {None}
    /\ reopened \in SUBSET Jobs

ApiInit ==
    /\ api = None
    /\ reopened = {}

(* History: a statement of this process unlocks the jobs of S.             *)
TakeFromHands(S) ==
    taken' = taken \cup {j \in S : \E w \in Workers : InHand(w, j)}

-----------------------------------------------------------------------------
(* HTTP commands.                                                          *)

Create(j, st, isDue, parents) ==
    /\ api = None
    /\ InsertJob(j, st, isDue, parents)
    /\ UNCHANGED <<workerVars, api, reopened>>

CreateBatch(b) ==
    /\ api = None
    /\ InsertBatch(b)
    /\ UNCHANGED <<workerVars, api, reopened>>

(* retryJob, called by the route and by dlqService.retry.                  *)
Reopen(j) ==
    /\ RetryRow(j)
    /\ TakeFromHands({j})
    /\ reopened' = IF status[j] \in {"completed", "dead"}
                   THEN reopened \cup {j} ELSE reopened

RetryJob(j) ==
    /\ "retry" \in Commands
    /\ api = None
    /\ Reopen(j)
    /\ UNCHANGED <<rowVars, localVars, api>>

CancelJob(j) ==
    /\ "cancel" \in Commands
    /\ api = None
    /\ CancelRow(j)
    /\ TakeFromHands({j})
    /\ UNCHANGED <<rowVars, localVars, api, reopened>>

AddDependency(j, p) ==
    /\ "link" \in Commands
    /\ api = None
    /\ LinkRow(j, p)
    /\ UNCHANGED <<workerVars, api, reopened>>

(* dlqService.retry is two autocommitted statements.                       *)
DlqMark(e) ==
    /\ "dlq" \in Commands
    /\ api = None
    /\ ResolveRow(e, "retry")
    /\ api' = e
    /\ UNCHANGED <<workerVars, reopened>>

DlqRequeue ==
    /\ api # None
    /\ Reopen(exJob[api])
    /\ api' = None
    /\ UNCHANGED <<rowVars, localVars>>

DlqIgnore(e) ==
    /\ "dlq" \in Commands
    /\ api = None
    /\ ResolveRow(e, "ignore")
    /\ UNCHANGED <<workerVars, api, reopened>>

(* The process dies inside dlqService.retry and is started again.          *)
ApiCrash ==
    /\ ApiMayCrash
    /\ api # None
    /\ api' = None
    /\ UNCHANGED <<dbVars, workerVars, reopened>>

-----------------------------------------------------------------------------
(* Background loops.                                                       *)

(* Mutant of StaleWorkers: the comparison with the cutoff the wrong way.   *)
FreshWorkers == {w \in Workers \ expired : wStatus[w] = "active"}

StaleWorkers == {w \in expired : wStatus[w] = "active"}

(* Mutant of Orphans: only the jobs that were already running.             *)
RunningOrphans == {j \in Jobs : lockedBy[j] \in StaleWorkers
                                /\ status[j] = "running"}

Orphans == {j \in Jobs : lockedBy[j] \in StaleWorkers
                         /\ status[j] \in Locking}

(* reaperService.reap: one transaction over all stale workers.             *)
Reap ==
    /\ api = None
    /\ StaleWorkers # {}
    /\ wStatus' = [w \in Workers |->
                      IF w \in StaleWorkers THEN "inactive" ELSE wStatus[w]]
    /\ status' = [j \in Jobs |-> IF j \in Orphans THEN "queued" ELSE status[j]]
    /\ lockedBy' = [j \in Jobs |-> IF j \in Orphans THEN None ELSE lockedBy[j]]
    /\ TakeFromHands(Orphans)
    /\ Commit
    /\ UNCHANGED <<retryCount, due, deps, execVars, dlq, batchVars,
                   expired, localVars, api, reopened>>

(* schedulerService.promoteScheduledJobs: one statement over all jobs.     *)
PromoteScheduled ==
    LET ripe == {j \in Jobs : status[j] = "scheduled" /\ due[j]} IN
    /\ api = None
    /\ ripe # {}
    /\ status' = [j \in Jobs |-> IF j \in ripe THEN "queued" ELSE status[j]]
    /\ Commit
    /\ UNCHANGED <<lockedBy, retryCount, due, deps, execVars, dlq, batchVars,
                   workerVars, api, reopened>>

=============================================================================
