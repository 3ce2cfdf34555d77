----------------------------- MODULE ClaimGate ------------------------------
(***************************************************************************)
(* The tests a worker makes before it may claim a job of a queue: the      *)
(* cached list of queues (worker-process.ts, pollTick) and the gate at the *)
(* head of claimJob (job.service.ts), which reads the queue's row, counts  *)
(* the active jobs, and counts the executions of the last window, each in  *)
(* a statement of its own and all of them before the claim transaction.    *)
(* Beside it, what may happen to the queue: jobs come and end, the queue   *)
(* is paused, resumed, updated and deleted (queue.service.ts).             *)
(*                                                                         *)
(* One queue.  A worker is a place for a process: one that dies may be     *)
(* started again.  How jobs are selected and locked is VortexJob's matter. *)
(***************************************************************************)
EXTENDS Naturals, FiniteSets

CONSTANTS
    Workers,   \* the worker processes
    Crashable, \* those that may die
    Jobs,      \* the jobs of the queue
    Execs,     \* rows of job_executions; one that has left the window is reused
    Limits,    \* the values of concurrency_limit
    Rates,     \* the values of rate_limit_count, but for NULL
    Windows,   \* those of rate_limit_window_seconds: the ages a window reaches
    Horizon,   \* the age at which no window reaches an execution any more
    None       \* no rate limit, no job, no longer remembered

ASSUME GateConstants ==
    /\ IsFiniteSet(Workers) /\ Workers # {} /\ Crashable \subseteq Workers
    /\ IsFiniteSet(Jobs) /\ IsFiniteSet(Execs)
    /\ Limits \subseteq Nat \ {0} /\ Rates \subseteq Nat \ {0}
    /\ Horizon \in Nat /\ Windows \subseteq 0 .. Horizon
    /\ None \notin Jobs /\ None \notin Nat

\* rate_limit_count and rate_limit_window_seconds; if either is NULL there is no
\* limit, and None stands for that.
RateLimits == [count : Rates, seconds : Windows]

VARIABLES
    queue,     \* the row: open, paused (is_paused) or gone
    limit,     \* concurrency_limit
    rate,      \* its rate limit
    status,    \* the jobs: waiting (claimable), active (claimed or running), or none
    age,       \* how long ago each execution started, None when it is forgotten
    cached,    \* cachedQueues: does it hold the queue, or has it expired?
    at,        \* where the worker is in its poll
    seenLimit, \* the two limits it read, until it has used them
    seenRate,
    job,       \* the job it has claimed and not started
    topLimit,  \* history: the largest limit the queue has had
    fresh,     \* history: executions of the window, since its rate limit was last set
    sincePause \* history: claims since the queue was paused

rowVars    == <<queue, limit, rate>>
jobVars    == <<status, age>>
seenVars   == <<seenLimit, seenRate>>
workerVars == <<at, seenVars, job>>
history    == <<topLimit, fresh, sincePause>>
vars == <<rowVars, jobVars, cached, workerVars, history>>

Larger(m, n) == IF m < n THEN n ELSE m

Init ==
    /\ queue = "open" /\ limit \in Limits /\ rate \in RateLimits \cup {None}
    /\ topLimit = limit /\ fresh = {} /\ sincePause = 0
    /\ status = [j \in Jobs |-> "none"] /\ age = [e \in Execs |-> None]
    /\ cached = [w \in Workers |-> "expired"]
    /\ at = [w \in Workers |-> "idle"] /\ job = [w \in Workers |-> None]
    /\ seenLimit = [w \in Workers |-> 0] /\ seenRate = [w \in Workers |-> None]

Waiting     == {j \in Jobs : status[j] = "waiting"}
Active      == {j \in Jobs : status[j] = "active"}
Forgotten   == {e \in Execs : age[e] = None}
InWindow(n) == {e \in Execs : age[e] # None /\ age[e] <= n}

-----------------------------------------------------------------------------
(* pollTick and claimJob.                                                  *)

Poll(w) ==
    /\ at[w] = "idle"
    /\ cached' = [cached EXCEPT ![w] = IF @ # "expired" THEN @
                                       ELSE IF queue = "open" THEN "listed" ELSE "unlisted"]
    /\ at' = [at EXCEPT ![w] = IF cached'[w] = "listed" THEN "polls" ELSE "idle"]
    /\ UNCHANGED <<rowVars, jobVars, seenVars, job, history>>

\* Mutant: an empty list is not read again.
CacheExpiresIfListed(w) ==
    /\ cached[w] = "listed" /\ at[w] = "idle"
    /\ cached' = [cached EXCEPT ![w] = "expired"]
    /\ UNCHANGED <<rowVars, jobVars, workerVars, history>>

\* 30 seconds later; only a poll that begins looks at the clock.
CacheExpires(w) ==
    /\ cached[w] # "expired" /\ at[w] = "idle"
    /\ cached' = [cached EXCEPT ![w] = "expired"]
    /\ UNCHANGED <<rowVars, jobVars, workerVars, history>>

\* Mutant: a queue of the list is taken to be open.
ReadQueueTrusting(w) ==
    /\ at[w] = "polls"
    /\ at' = [at EXCEPT ![w] = IF queue # "gone" THEN "row" ELSE "idle"]
    /\ IF at'[w] = "row"
       THEN /\ seenLimit' = [seenLimit EXCEPT ![w] = limit]
            /\ seenRate' = [seenRate EXCEPT ![w] = rate]
       ELSE UNCHANGED seenVars
    /\ UNCHANGED <<rowVars, jobVars, cached, job, history>>

ReadQueue(w) ==
    /\ at[w] = "polls"
    /\ at' = [at EXCEPT ![w] = IF queue = "open" THEN "row" ELSE "idle"]
    /\ IF at'[w] = "row"
       THEN /\ seenLimit' = [seenLimit EXCEPT ![w] = limit]
            /\ seenRate' = [seenRate EXCEPT ![w] = rate]
       ELSE UNCHANGED seenVars
    /\ UNCHANGED <<rowVars, jobVars, cached, job, history>>

\* Mutant: one too many.
CountActiveAtMost(w) ==
    /\ at[w] = "row"
    /\ at' = [at EXCEPT ![w] = IF Cardinality(Active) <= seenLimit[w] THEN "counted" ELSE "idle"]
    /\ seenLimit' = [seenLimit EXCEPT ![w] = 0]
    /\ seenRate' = [seenRate EXCEPT ![w] = IF at'[w] = "counted" THEN @ ELSE None]
    /\ UNCHANGED <<rowVars, jobVars, cached, job, history>>

CountActive(w) ==
    /\ at[w] = "row"
    /\ at' = [at EXCEPT ![w] = IF Cardinality(Active) < seenLimit[w] THEN "counted" ELSE "idle"]
    /\ seenLimit' = [seenLimit EXCEPT ![w] = 0]
    /\ seenRate' = [seenRate EXCEPT ![w] = IF at'[w] = "counted" THEN @ ELSE None]
    /\ UNCHANGED <<rowVars, jobVars, cached, job, history>>

\* Mutant: one too many.
CountWindowAtMost(w) ==
    /\ at[w] = "counted"
    /\ at' = [at EXCEPT ![w] =
                 IF \/ seenRate[w] = None
                    \/ Cardinality(InWindow(seenRate[w].seconds)) <= seenRate[w].count
                 THEN "passed" ELSE "idle"]
    /\ seenRate' = [seenRate EXCEPT ![w] = None]
    /\ UNCHANGED <<rowVars, jobVars, cached, seenLimit, job, history>>

\* No test at all when either column is NULL.
CountWindow(w) ==
    /\ at[w] = "counted"
    /\ at' = [at EXCEPT ![w] =
                 IF \/ seenRate[w] = None
                    \/ Cardinality(InWindow(seenRate[w].seconds)) < seenRate[w].count
                 THEN "passed" ELSE "idle"]
    /\ seenRate' = [seenRate EXCEPT ![w] = None]
    /\ UNCHANGED <<rowVars, jobVars, cached, seenLimit, job, history>>

Claim(w) ==
    /\ at[w] = "passed"
    /\ \E j \in Waiting :
          /\ status' = [status EXCEPT ![j] = "active"]
          /\ job' = [job EXCEPT ![w] = j]
    /\ at' = [at EXCEPT ![w] = "claimed"]
    /\ sincePause' = IF queue = "paused" THEN sincePause + 1 ELSE 0
    /\ UNCHANGED <<rowVars, age, cached, seenVars, topLimit, fresh>>

ClaimNothing(w) ==
    /\ at[w] = "passed" /\ Waiting = {}
    /\ at' = [at EXCEPT ![w] = "idle"]
    /\ UNCHANGED <<rowVars, jobVars, cached, seenVars, job, history>>

\* Somebody commits between SELECT and UPDATE: SQLITE_BUSY.
ClaimBusy(w) ==
    /\ at[w] = "passed" /\ Waiting # {}
    /\ at' = [at EXCEPT ![w] = "idle"]
    /\ UNCHANGED <<rowVars, jobVars, cached, seenVars, job, history>>

\* startExecution, by id: the job may have been cancelled or re-queued meanwhile.
Start(w) ==
    /\ at[w] = "claimed" /\ queue # "gone"
    /\ status' = [status EXCEPT ![job[w]] = "active"]
    /\ Forgotten # {}
    /\ LET e == CHOOSE x \in Forgotten : TRUE
       IN /\ age' = [age EXCEPT ![e] = 0]
          /\ fresh' = IF rate = None THEN {} ELSE fresh \cup {e}
    /\ at' = [at EXCEPT ![w] = "idle"] /\ job' = [job EXCEPT ![w] = None]
    /\ UNCHANGED <<rowVars, cached, seenVars, topLimit, sincePause>>

\* "Job not found" is thrown where nobody catches it, and ends the process.
StartFails(w) ==
    /\ at[w] = "claimed" /\ queue = "gone"
    /\ at' = [at EXCEPT ![w] = "dead"] /\ job' = [job EXCEPT ![w] = None]
    /\ cached' = [cached EXCEPT ![w] = "expired"]
    /\ UNCHANGED <<rowVars, jobVars, seenVars, history>>

\* The process forgets what it has read.
Crash(w) ==
    /\ w \in Crashable /\ at[w] # "dead"
    /\ at' = [at EXCEPT ![w] = "dead"] /\ job' = [job EXCEPT ![w] = None]
    /\ seenLimit' = [seenLimit EXCEPT ![w] = 0]
    /\ seenRate' = [seenRate EXCEPT ![w] = None]
    /\ cached' = [cached EXCEPT ![w] = "expired"]
    /\ UNCHANGED <<rowVars, jobVars, history>>

Restart(w) ==
    /\ at[w] = "dead"
    /\ at' = [at EXCEPT ![w] = "idle"]
    /\ UNCHANGED <<rowVars, jobVars, cached, seenVars, job, history>>

-----------------------------------------------------------------------------
(* The queue and its jobs.                                                 *)

\* A job is created, retried by a user, or its time has come.
Create(j) ==
    /\ queue # "gone" /\ status[j] = "none"
    /\ status' = [status EXCEPT ![j] = "waiting"]
    /\ UNCHANGED <<rowVars, age, cached, workerVars, history>>

\* completeJob, failJob, retryJob, cancelJob and the reaper: whatever they find,
\* none of them leaves the job active.
Outcome(j) ==
    /\ status[j] # "none"
    /\ \E s \in {"waiting", "none"} : status' = [status EXCEPT ![j] = s]
    /\ UNCHANGED <<rowVars, age, cached, workerVars, history>>

Pause ==
    /\ queue = "open" /\ queue' = "paused" /\ sincePause' = 0
    /\ UNCHANGED <<limit, rate, jobVars, cached, workerVars, topLimit, fresh>>

Resume ==
    /\ queue = "paused" /\ queue' = "open" /\ sincePause' = 0
    /\ UNCHANGED <<limit, rate, jobVars, cached, workerVars, topLimit, fresh>>

\* Any of the three columns; NULL takes the rate limit away.
Update ==
    /\ queue # "gone"
    /\ limit' \in Limits /\ rate' \in RateLimits \cup {None}
    /\ topLimit' = Larger(topLimit, limit')
    /\ fresh' = IF rate' = rate THEN fresh ELSE {}
    /\ UNCHANGED <<queue, jobVars, cached, workerVars, sincePause>>

\* ON DELETE CASCADE takes the jobs and their executions along.
Delete ==
    /\ queue # "gone" /\ queue' = "gone" /\ sincePause' = 0
    /\ status' = [j \in Jobs |-> "none"] /\ age' = [e \in Execs |-> None] /\ fresh' = {}
    /\ UNCHANGED <<limit, rate, cached, workerVars, topLimit>>

Tick ==
    /\ age' = [e \in Execs |-> IF age[e] # None /\ age[e] < Horizon THEN age[e] + 1 ELSE None]
    /\ fresh' = {e \in fresh : age'[e] # None /\ age'[e] <= rate.seconds}
    /\ UNCHANGED <<rowVars, status, cached, workerVars, topLimit, sincePause>>

-----------------------------------------------------------------------------
Working(w) == ReadQueue(w) \/ CountActive(w) \/ CountWindow(w) \/ Claim(w)
                \/ ClaimNothing(w) \/ Start(w) \/ StartFails(w)

Next ==
    \/ \E w \in Workers : \/ Poll(w) \/ CacheExpires(w) \/ Working(w) \/ ClaimBusy(w)
                          \/ Crash(w) \/ Restart(w)
    \/ \E j \in Jobs : Create(j) \/ Outcome(j)
    \/ Pause \/ Resume \/ Update \/ Delete \/ Tick

\* Living workers poll, time passes, active jobs end (or are taken from a dead
\* worker).  A claim is not outrun by another commit every time for ever.
Fairness ==
    /\ \A w \in Workers : /\ WF_vars(Poll(w)) /\ WF_vars(CacheExpires(w)) /\ WF_vars(Working(w))
                         /\ SF_vars(Claim(w))
    /\ \A j \in Jobs : WF_vars(j \in Active /\ Outcome(j))
    /\ WF_vars(Tick)

Spec     == Init /\ [][Next]_vars
FairSpec == Spec /\ Fairness

-----------------------------------------------------------------------------
\* Type correctness.
TypeOK ==
    /\ queue \in {"open", "paused", "gone"} /\ limit \in Limits
    /\ rate \in RateLimits \cup {None}
    /\ topLimit \in Nat /\ fresh \in SUBSET Execs /\ sincePause \in Nat
    /\ status \in [Jobs -> {"none", "waiting", "active"}]
    /\ age \in [Execs -> 0 .. Horizon \cup {None}]
    /\ cached \in [Workers -> {"expired", "listed", "unlisted"}]
    /\ at \in [Workers -> {"idle", "polls", "row", "counted", "passed", "claimed", "dead"}]
    /\ seenLimit \in [Workers -> Nat]
    /\ seenRate \in [Workers -> RateLimits \cup {None}]
    /\ job \in [Workers -> Jobs \cup {None}]

\* The concurrency limit is overrun by at most all workers but one, each by one
\* job, whatever happens to limits, jobs and workers.
ConcurrencyBounded ==
    Cardinality(Active) <= topLimit + Cardinality(Workers) - 1

\* So is the rate limit, from the moment it is set or changed: of the executions
\* started since, no window holds more, even if workers that tested the limit
\* before the change, or when there was none, go on.
RateBounded ==
    rate # None =>
        Cardinality(fresh) <= rate.count + Cardinality(Workers) - 1

\* After a queue is paused each worker claims one more job of it at most.
PauseBounded ==
    queue = "paused" => sincePause <= Cardinality(Workers)

\* As long as the queue is open and a job waits, claims keep coming: a resumed
\* queue comes back into every list, and both limits open again.
QueueMoves ==
    []<>(queue # "open" \/ Waiting = {} \/ \E w \in Workers : at[w] = "claimed")

\* README.md:10: the rate limit is "transaction-safe".
RateLimitRespected ==
    rate # None => Cardinality(fresh) <= rate.count

=============================================================================
