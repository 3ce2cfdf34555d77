# VortexJob: a verification project

TLA+ models of the VortexJob job scheduler (`src/backend`) and of the concurrent
parts of the code-assistant server kept beside it (`src/serena-mcp`), the TLC runs
that check them and the theorems that TLAPS proves about them. `PROJECT.json` is the
machine-readable side of this page: components, runs, mutants, the map from
definitions to source lines, findings, hazards and theorems.

## 1. Inventory of the system

The repository holds two programs that share nothing.

**The scheduler.** VortexJob is one Express server, any number of worker processes,
and one SQLite file in WAL mode that all of them open (`database/connection.ts`).
The processes share nothing else: every interaction between them is a row that one
writes and another reads. Inside a process JavaScript runs one callback at a time
and better-sqlite3 is synchronous, so a handler is interrupted only by *other
processes*, between two of its statements or transactions.

| Component | State it keeps | Operations that change state | What makes it correct |
|---|---|---|---|
| Job store (`services/job.service.ts`, `database/migrations.ts`) | tables jobs, job_executions, job_dependencies, batches, dead_letter_queue | create, createBatch, claimJob, startExecution, completeJob, failJob, retryJob, cancelJob, addDependency | a job has one owner from claim to outcome; locks are released; outcomes stay; counters and retry counts add up; children wait for parents |
| Worker process (`worker/worker-process.ts`, `services/worker.service.ts`) | its row in workers; in memory the `activeJobs` map, pending promises, the shutdown flag | register, heartbeat, pollTick, executeJob, shutdown | bounded concurrency; a drain loses nothing; its locks are backed by work it really has |
| Reaper (`services/reaper.service.ts`) | none of its own | reap every 15 s | every lock of a dead worker is eventually taken from it, and only such locks |
| Scheduler (`services/scheduler.service.ts`) | none of its own | promoteScheduledJobs, processCronJobs every 10 s | due jobs become claimable; a cron series has one next instance |
| Dead letter queue (`services/dlq.service.ts`) | resolution of an entry | retry, ignore | a dead job can be found |
| HTTP routes (`routes/*.ts`) | none | call the services | |
| Queues and retry policies (`services/queue.service.ts`) | configuration rows | create, update, pause, resume, delete | claims respect the limits |
| Retry back-off (`services/retry.service.ts`) | none, pure | calculateDelay | |
| Statistics (`routes/stats.routes.ts`) | a five second cache | reads | |
| Accounts, organizations, projects | rows | single statements | |
| WebSocket broadcast, AI summaries | none that matters | | |
| Dashboard (`frontend/`) | React state; two hooks with timers | polling, reconnecting | |

What is hard here, and barely reachable by the repository's tests (which run in
one process on an in-memory database):

* claimJob selects and updates in a *deferred* transaction, so others commit in
  between;
* startExecution, completeJob and failJob update a job by its id alone and never
  ask whether it is still theirs;
* failJob is two commits with a value read before the first one written in the
  second; dlqService.retry is two commits;
* workers are killed anywhere, are declared dead while alive, drain, and come
  back under new rows;
* completeJob can throw after it has committed, and then runs into failJob;
* `activeJobs` is keyed by job, and one worker can hold two executions of a job;
* a user may retry, cancel and link jobs in any state;
* the tests at the head of claimJob (paused, concurrency, rate) are three reads
  made before the claim transaction, by each worker for itself, on a queue that
  users change and delete meanwhile;
* a cron series is handed from one instance to the next in two commits.

**serena-mcp.** A Python server that gives a code assistant tools to look symbols
up and edit them, through language servers that run as child processes. Here
everything is threads, pipes, files and processes:

| Component | State it keeps | Operations that change state | What makes it correct |
|---|---|---|---|
| Task executor (`serena/task_executor.py`, used by `tools_base.py` and `dashboard.py`) | a queue, the current task, a future and a thread per task | issue, pop, start, time out, finish, cancel | tasks run in order; every caller gets an answer; the queue moves on |
| Connection to a language server (`solidlsp/ls_process.py`) | pending requests, request ids, a lock on stdin, the process | send_request, the reader thread, replies to the server's own requests, stop | a request ends once; death is reported; nobody blocks for ever |
| File buffers and symbol caches (`solidlsp/ls.py`, `serena/code_editor.py`) | reference-counted buffers, two caches and their files, the document the server knows | open_file, document symbols, replace_body, rename, save_cache | symbols are those of the file; edits land whole and where they were meant |
| Language server manager (`serena/ls_manager.py`, `serena/project.py`) | the servers by language, the configured languages | start all, restart, add, remove, reset, stop all | all or nothing; no process is forgotten; dead servers are replaced |
| Agent, configuration, CLI, tools, symbol retrieval | YAML files, no shared state of their own | | |
| Adapters of fifty language servers, protocol types | | download, configure, launch | |

What is hard here: a task that timed out runs on beside the next one; an address
is used as a task's name; a request is registered after the sweep that fails all
requests; the reader writes to the pipe it must keep from blocking; a buffer's
staleness rests on a comparison of times; an edit is two changes of which the
second may fail, and a save truncates the file before it writes; servers are
started in parallel and fail or die one by one, and one whose reader thread failed
counts as dead while it lives.

The full list, each at its line, is under "hazards" in `PROJECT.json`.

## 2. The modules

```
Lease                 what the lock columns promise (abstract)
JobService            the tables; one operator per statement or transaction
  WorkerProcess       the worker processes: life, claim, execution, drain
    ApiServer         the API process: commands, reaper, scheduler
      VortexJob       the system, its properties, its fairness
        DocumentedClaims   what docs and comments say and the code does not do
          MCVortexJob      instances for TLC
        OwnershipProofs    types, locks, ownership, claims, refinement of Lease,
                           what can be reaped, what a worker has room for
          OutcomeProofs    outcomes, retries and deaths, batches, parents

ClaimGate             the tests before a claim, and the life of a queue
  ClaimGateProofs     how far the limits can be overrun
CronScheduler         a cron series
  CronProofs          it is not lost and does not multiply
TaskExecutor          serena's task executor
  TaskExecutorProofs  tasks start in order
LspClient             serena's connection to a language server
  LspClientProofs     requests end once
FileBuffers           serena's buffers, caches and edits of a file
  FileBuffersProofs   symbols are fresh, edits land whole
LanguageServers       serena's servers, by language
  LanguageServersProofs   nobody forgets a server
```

The modules of the second group stand alone. Where they meet another part of the
code they take it as a choice of the environment: a request of `FileBuffers` just
fails or is answered, a server of `LanguageServers` just dies, a task of
`TaskExecutor` just ends, where `LspClient` or a tool says when; composed, they
would be out of TLC's reach. `ClaimGate` and `CronScheduler` look at a queue and at
a series in an abstraction of the job store: how a job is selected, locked and
settled is `VortexJob`'s matter, and a job here is just waiting, claimed, running or
neither.

**JobService** keeps the tables column by column: `status[j]` is `jobs.status`,
`exJob[e]` is `job_executions.job_id`, and so on; "absent" and "none" stand for a
row that is not inserted yet. An operator such as `CompleteRow(j, e)` is what one
transaction does, including the batch counters it updates. `run_at` is kept as
`due`, whether it has passed. `snapshots` is SQLite's snapshot rule: it holds the
workers whose open read snapshot is still the newest version; every commit
empties it, and an UPDATE from an older snapshot is refused (SQLITE_BUSY, which
`busy_timeout` does not wait out). Left out: payloads, logs, timestamps, attempt
numbers, error messages.

**WorkerProcess** is `worker-process.ts` and its way through the job service.
`pc[w]` says where a synchronous handler stands between two commits: "selected"
(inside the claim transaction), "claimed" (before startExecution), "caught"
(completeJob threw after its commit), "failing" (between the two commits of
failJob). `runs[w]` are the executions whose promise is pending, `active[w]` is
the `activeJobs` map with its overwriting and its deletion by job id. A worker is
one incarnation of the process; a restart registers a new one. `Crash` is
possible at every point, also between two statements, and rolls an open
transaction back; it is also what an exception in startExecution or failJob ends
in (an unhandled rejection), unless the worker drains: then `Promise.allSettled` is
attached to the promises of the map, and a failJob that throws just settles its own
(`FailSwallowed`). The job stays running and locked by a worker that has nothing of
it in hand, `Dropped`, and that exits under an inactive row. `Crashable` are the
workers to which either may happen. The tests at the head of claimJob (paused,
concurrency limit, rate limit) may refuse at any time, which is a claim step that
is not taken.

**ApiServer** has one action per route that changes a job, the two statements of
dlqService.retry as two actions (`api` holds the entry in between), the reaper's
transaction and the scheduler's promotion.

**VortexJob** composes them and states the properties. Two history variables say
which promises a job can still expect: `taken` collects the jobs that somebody
else unlocked (reaper, cancel, retry), or that a commit unlocked whose handler
then failed, *while a worker had them in hand*; `reopened` the jobs a user
re-queued after they had ended. No code guard reads them. They matter because the
code makes no attempt to protect a disturbed job: the properties say that the
undisturbed are safe whatever happens to the others, and `DocumentedClaims` shows
what the disturbed can suffer.

**Lease** is the abstract specification of the lock columns: acquired only while
free, released for any number of jobs at once, never handed over directly.

**ClaimGate** follows one queue. `Poll` asks the cached list, `ReadQueue`,
`CountActive`, `CountWindow` and `Claim` are the statements of claimJob in their
order, each a step of its own, because others commit in between; `seenLimit` and
`seenRate` are the row as it was read. `rate` is a count and a window, or None when
either column is NULL, and then there is no test. `age` is how long ago an execution
started: the window slides with `Tick`. Updating the queue sets, changes or clears
its limits under the workers' hands, and deleting it takes jobs and
executions along (the cascade), so that a worker between claim and start finds no
row and dies (`StartFails`). History: the largest concurrency limit the queue has
had, the executions of the window that started since its rate limit was last set
(`fresh`; a limit makes no promise about what ran before it), and the claims since
the queue was paused.

**CronScheduler** follows the rows that carry one series' expression:
`FindCompleted` is the SELECT of processCronJobs, `CreateNext` and `ClearOld` its
two commits for each row, either of which may fail or be cut off by a crash, while
workers, users, the reaper and the promotion of scheduled jobs move the same
rows. `stray` marks an instance whose job was taken away from a worker that is
still at it: its late answer may change the row again.

**TaskExecutor** has the executor's loop (`pc`, `held`), the thread and the future
of each task, and what its caller was told (`answer`). `Timed` tasks have a timeout,
`Endless` ones a function that never returns, and the functions of `Escaping` ones
may raise what `except Exception` does not catch (SystemExit, say): the thread ends
and the future stays pending (`FunctionEscapes`). A thread that cannot be started at
all, which would end the executor's own, is left out. That a future is completed
once only is the library's doing and no property. The dashboard lists tasks by
`id(task)` and cancels by it; `NewIds` is CPython's freedom to use the address of a
dead object again.

**LspClient** has a caller's way through send_request (register, take the lock,
write, wait), the reader's loop (poll, read, answer the server's own request,
sweep), stop() with its bounded waits, two pipes that hold a bounded number of
messages, and a server that may answer in any order, ask back, stop reading or
die.

**FileBuffers** follows one file. Contents are the set of edits they carry, so a
hash is its contents and the symbols of a text are the text; that is what the
properties have to tell apart. A tool call is a list of steps (`Lookup`,
`Replace`, `Rename`) that the thread works off; exceptions skip to the end of the
context that is open, as `finally` does. Requests may fail, the server may not be
ready and answer with nothing, and serena may be killed and start again from its
cache files (`MaxRestarts` times). Others may write the file at any time, within the
same tick of its mtime too. A save truncates the file (`Truncate`, contents `{Cut}`)
and then writes it (`WriteText`); it may fail before or between (`SaveFails`), and
be killed between. Histories name what cannot be kept then, and nothing else:
`disturbed` are the threads since whose last didOpen others wrote, `mixed` the cache
entries such a thread stored, `lost` an edit and a write of others that overlapped,
and what the file held when a save was cut short.

**LanguageServers** follows the tasks that use the manager, one at a time, each as
the calls it makes: a tool takes a server, replaces it when it is dead, retries
once when it dies in use, and visits all servers to save their caches; a reset
stops all and starts all. Processes die at any time and are known to be dead only
once the reader thread has polled (`Polled`). A process that runs while nobody reads
its answers is `mute`: a start that failed after the launch leaves such a one, and so
does an exception in the reader's loop. When that strikes a request, it is
reported as a termination and the tool's retry enters a new server in its place
(`Terminated`); when nothing is pending, nobody is told (`ReaderFails`), and the next
tool finds a server that seems to run. `MaxStrays` bounds these processes, and
`Mortal` names the states in which a process may die.

### Properties

| Property | Kind | Says |
|---|---|---|
| `TypeOK` | invariant | domains |
| `LockBacked` | invariant | a living worker's lock is always backed by work it has in hand, but for a failJob that threw while it drained |
| `OwnershipIntact` | invariant | an undisturbed job is locked iff claimed or running, held by its lock owner only, run once at a time |
| `NoEarlyDeath` | invariant | retry_count and the verdict "dead" never run ahead of the executions that failed |
| `BatchExact` | invariant | counters and verdict of an undisturbed batch are exact |
| `ChildAfterParents` | invariant | in progress or completed only with all parents completed |
| `CapacityRespected` | invariant | undisturbed executions per worker stay within the limit |
| `DeadLocksReapable` | invariant | a dead worker with a lock is one the reaper looks for, if that worker was never drained and never missed a heartbeat |
| `DeadIsListed` | invariant | a dead job has an open or ignored entry (no API crash) |
| `LocksAreLeases` | refinement | the lock columns implement `Lease` |
| `ClaimsValid` | action | a claim takes a job that is, at that moment, unlocked, waiting, due and has its parents completed |
| `SettledStays` | action | the outcome of an undisturbed job changes only by a user's retry |
| `ExitLosesNothing` | action | a drained worker abandons no undisturbed execution, and no lock but those of a failJob that threw meanwhile |
| `EveryJobSettles`, `DeadLocksFreed` | liveness | jobs reach an outcome; locks of the dead are freed |
| `ConcurrencyBounded`, `RateBounded` | invariants | N workers overrun a queue's limit by N - 1 at most; the rate limit from the moment it is set or changed |
| `PauseBounded` | invariant | a paused queue loses one more job per worker at most |
| `QueueMoves` | liveness | claims keep coming while a queue is open and has jobs |
| `NeverLost`, `OneEach` | invariants | a cron series keeps an instance, and has one too many only per interruption |
| `SeriesGoesOn` | liveness | instances run again and again until they are dead or cancelled |
| `InOrder` | invariant | a task runs only when all before it are over, cancelled or timed out |
| `EveryTaskSettles` | liveness | issued tasks settle, unless one that never ends, or whose exception nobody catches, stands before them |
| `OneOutcome`, `OnlyGivenUpLeak` | invariants | a request ends once; what stays pending was given up by its caller |
| `TheDeadAreReported` | liveness | callers of a dead server are told |
| `StopEnds`, `WritesEnd` | liveness | stop() ends unless a write is stuck; no write is stuck while the server reads and writes |
| `CacheSound` | invariant | what is stored under a hash are the symbols of those contents, in memory, on disk and after a restart, but for entries made while others wrote |
| `FreshSymbols` | invariant | a lookup answers with contents the file had during the call, unless it is served such an entry |
| `EditsLand` | invariant | an edit whose call returned is on disk, none is there by half, and no other's write is lost, but for what overlapped and what a save cut short |
| `ServerInSync` | invariant | the server's document is the buffer's unless others wrote since it was sent, and what was opened is closed |
| `NothingForgotten` | invariant | every running server process is one that the project can stop, unless nobody reads its answers |
| `AllOrNothing` | invariant | a manager has a server for every configured language |
| `DeadAreReplaced` | liveness | a dead server is replaced (a mute one may stay) |

Each module has a `TypeOK`, and each is proved. `Consistent`,
`LocksSound` and `ClaimGrounds` of `VortexJob` are the strengthenings that the
proofs of section 5 need.

## 3. The runs

The runs of the scheduler's job life cycle are instances of `MCVortexJob`. Two jobs,
two workers and one queue are enough for every conflict the code can have over one
job (owner and usurper) and over one worker (two jobs in one map); a third job
appears where a bound of two has to be exceeded.

| Run | Instance | Asks |
|---|---|---|
| `crash` | `FairSpec`; 2 jobs of different priority, queued or scheduled, due at once or later, with any parents; 3 workers of concurrency 1, two of which may be killed; max_retries 1 and 2, 5 executions | `ChildAfterParents`, `DeadLocksReapable`, `EveryJobSettles`, `DeadLocksFreed` |
| `stall` | a batch of 2 jobs (max_retries 1 and 2), 2 workers that may be reaped alive and may be killed, one may be stopped (and its failJob throw while it drains) or fail after a completion, 3 executions | `LockBacked`, `OwnershipIntact`, `NoEarlyDeath`, `BatchExact`, `LocksAreLeases` |
| `commands` | all user commands, one worker that stalls and dies, one that fails after completions, max_retries 0 and 2, 2 executions | `TypeOK`, `DeadIsListed`, `ClaimsValid`, `SettledStays` |
| `capacity` | a batch of 3 jobs on one worker of concurrency 2, re-queued by dead-letter commands of a server that may crash, stopped or killed at any time, 4 executions | `CapacityRespected`, `ExitLosesNothing` |
| `gate` | `ClaimGate`, `FairSpec`: 2 workers, one of which may die and come back; 3 jobs, 3 executions; concurrency limit 1, rate limit 1 per window of one tick or none | `ConcurrencyBounded`, `RateBounded`, `PauseBounded`, `QueueMoves` |
| `cron` | `CronScheduler`, `FairSpec`: 3 rows, one interruption between the two commits | `NeverLost`, `OneEach`, `SeriesGoesOn` |
| `executor` | `TaskExecutor`, `FairSpec`: 3 tasks, the first with a timeout, the second endless, either may end in an exception nobody catches | `InOrder`, `EveryTaskSettles` |
| `files` | `FileBuffers`: one thread, 2 edits, a write by others at any time, one restart, saves that fail or are cut short | `TypeOK`, `CacheSound`, `FreshSymbols`, `EditsLand`, `ServerInSync` |
| `lsp` | `LspClient`, `FairSpec`: one caller beside the shutdown thread and the reader, 3 requests, one request of the server, pipes of one message | `OneOutcome`, `OnlyGivenUpLeak`, `TheDeadAreReported`, `StopEnds`, `WritesEnd` |
| `servers` | `LanguageServers`, `FairSpec`: 2 languages, one configured at first, 4 processes at a time, one of which may be mute; processes die when up | `TypeOK`, `NothingForgotten`, `AllOrNothing`, `DeadAreReplaced` |
| `v_drain`, `v_rate` | small instances, one property each | the findings of section 4 |

**Bounds.** `Execs` bounds the number of executions ever started. A claim is offered
only while an execution is left for it and for every other worker that is about to
start one (the last conjunct of `ClaimSelect`), so no worker is stuck for lack of
one. In `crash` five executions cover every run: with max_retries 1 and 2 the two
jobs fail at most three times together (the second is re-queued once), and each of
the two workers that may be killed abandons at most one execution. Everything else
is finite by itself. Deadlock is checked in `crash` and `commands`, where one worker
can neither be killed nor stopped, and in `files`; in `stall`, `capacity` and the
runs of section 4 (`CHECK_DEADLOCK FALSE`) the system really may stop, when all
workers are gone and no command is left. It really may stop in the others too:
`gate` when the queue is deleted and the workers are dead, `cron` when every
instance is dead and no step of a user is left, `executor` when all tasks are over,
`lsp` when the connection is stopped, `servers` when the agent has shut down.

In `gate` a worker too many is enough to overrun a limit, and three jobs to see that
it is not overrun twice; a rate of 1 with a window of one tick fills and empties
again, and it is set and cleared under the workers' hands. Windows of two lengths
(`Windows = {0, 1}`, 1.2 million states) take four minutes and were checked by hand;
the theorem has any. `cron` needs two rows for two instances and a third for the
interruption's. In `executor` the three tasks are the one that is abandoned, the one
that blocks or whose future stays pending, and the one behind them. In `lsp` a pipe
of one message is the smallest that fills up; three requests are one before, one
during and one after the death of the server, the last of them stop()'s own. In
`files` one thread is what the executor allows unless a task is abandoned; two edits
and a write give every order of an edit, another's write before, during or after it,
and a second edit on their result; one restart loads what a saved cache held. In
`servers` two languages give a start that fails beside one that succeeds, and four
processes let each be replaced while its predecessor is still there. One mute
process at a time is enough to be forgotten, or to be taken for a server that runs;
that mute ones die too (`Mortal = {"up", "mute"}`, 154 000 states) takes half of the
time a run may have and was checked by hand.

**Fairness** (`Fairness` in `VortexJob`). Weak fairness for what timers and promises
of living processes do: register (the operator starts every worker), poll, the end
of an execution, the rest of a synchronous handler, the exit of a drained worker;
for the reaper, the scheduler and the second statement of dlqService.retry; and for
the clock. Not for commands, heartbeats, crashes, signals, stalls or a failJob that
throws. Strong fairness for `ClaimUpdate` only: a claim loses its race when somebody
commits in the microseconds between its SELECT and its UPDATE; polls are a second
apart, so that this happens every time for ever is not a schedule the system has.
Reaper and scheduler run again and again from `setInterval` and catch their errors.
`EveryJobSettles` excuses a job whose parent ended without completing; the code
waits for such a parent for ever.

In `gate`: polls, the queue cache's expiry, the rest of a synchronous handler, the
clock and the end of active jobs are fair, and `Claim` strongly so for the reason
given for `ClaimUpdate`; a dead worker need not come back, a paused queue not be
resumed. In `cron`: runs end and the scheduler's interval goes on; strong fairness
says that a due instance is claimed in spite of users who cancel and retry, and that
the scheduler is not stopped short before the next instance every time. In
`executor`: Python's threads are scheduled, and a function outside `Endless` returns
or raises; nobody has to cancel, and no exception has to escape. In `lsp`: threads
run, and a lock that is free again and again is not withheld for ever (strong
fairness, because every other thread takes it too); nothing is assumed of the server
and no timeout has to be set. `WritesEnd` names its own assumption, that the server
reads and writes: a single-threaded server that blocks on its output while serena's
reader blocks on its input breaks it, and then both block each other until stop(),
which joins with a timeout and kills. In `servers`: the steps of a task itself go on
(`GoesOn`), tools are applied again and again to every language, and a start does
not fail every time. Nothing says that a process dies or that a reader fails.

**Mutants.** For every property of a passing run a mutated operator stands next
to the one it mutates, as a slip of the code would look: a lock column that is
not cleared, SELECT and UPDATE without a transaction, a retry limit that is off
by one, `Promise.race` for `Promise.allSettled`, a reaper that forgets claimed
jobs. With it, TLC finds the property violated.

## 4. What the code does differently from what is written about it

Two disagreements are listed as runs and as findings in `PROJECT.json`:

| Run | Written | Found |
|---|---|---|
| `v_drain` | the reaper keeps jobs from being locked by dead workers for ever (`reaper.service.ts:12`) | the jobs of a worker killed while draining stay locked: only rows that are active are reaped |
| `v_rate` | rate limits are transaction-safe (`README.md:10`) | workers that count at the same time all pass; `RateBounded` says by how many the limit is overrun |

The others have a configuration of their own, kept beside the listed ones and run
by hand, `tlc -config X.cfg M`; each ends in a counterexample:

| Configuration | Module | Property | Written | Found |
|---|---|---|---|---|
| `v_claims` | `MCVortexJob` | `ClaimsSerialized` | claims use BEGIN IMMEDIATE, others block | `db.transaction()` is deferred; two claims overlap and the loser gets SQLITE_BUSY. No double claim follows: `ClaimsValid` |
| `v_reap` | `MCVortexJob` | `ReapCounts` | the reaper increments retry counts and buries exhausted jobs | it does neither |
| `v_cancel` | `MCVortexJob` | `CancelSticks` | active jobs can be cancelled | the running execution overwrites the cancellation |
| `v_retry` | `MCVortexJob` | `SingleRun` | retry is for failed and dead jobs, no duplicate execution | a running job is re-queued and runs twice at once |
| `v_exit` | `MCVortexJob` | `GracefulExit` | a stopped worker finishes its active jobs | an execution whose map entry was overwritten is abandoned |
| `v_cycle` | `MCVortexJob` | `DependenciesAcyclic` | dependencies form a DAG | a cycle is accepted, its jobs never run |
| `v_order` | `TaskExecutor` | `OneAfterAnother` | tasks run one after another (`task_executor.py`, issue_task) | a task that timed out or was cancelled while running runs on beside the next |
| `v_id` | `TaskExecutor` | `CancelsTheListed` | task_id is unique | it is an address, free again with its object: a cancellation can reach another task |
| `v_cache` | `FileBuffers` | `EmptyNotCached` | only non-empty results are cached (`ls.py:2030`) | so in the raw cache; the other one stores the empty list, which is then served although the server is ready |
| `v_stale` | `FileBuffers` | `NothingMixed` | an entry is a content hash and the symbols (`ls.py:713`) | with writes by others during a request, symbols are stored under the hash of contents they do not belong to: the hash is taken after the answer |
| `v_overlap` | `FileBuffers` | `AssertionsHold` | the assertions of the buffers | two overlapping threads make two buffers of one file, and the second to close finds the entry gone |
| `v_restart` | `LanguageServers` | `RestartsOnlyStopped` | a language server that is restarted no longer runs (`ls_manager.py`, restart_language_server) | any exception of the reader thread counts as a termination; the server lives on, is replaced and never stopped |

`v_drain` has a second path: a worker that was reaped while it was only stalled goes
on claiming under its inactive row, and what it holds when it dies is not reaped
either. And there is a third: what a failJob that threw while the worker drained
left behind (`Dropped`), which needs no kill. `DeadLocksReapable` and
`DeadLocksFreed` hold in `crash` because no worker stalls or drains there.

## 5. The proofs

Every invariant that a run checks is also proved, and every action property and
the refinement; what only TLC checks is the liveness. The theorems on the
scheduler hold for every value of the constants that satisfies the named
assumptions `JobColumns`, `NoneIsNoId`, `KindsOfJobs` and `WorkerConstants`: any
numbers of jobs, workers, executions and batches, any mix of crashes, stalls,
stops, failing logs and commands, with or without API crashes. Those that count
(`DeathIsEarned`, `BatchesAreExact`, `WithinCapacity`) rest on `FiniteTables` too,
that there are finitely many of what is counted.

| Theorem | States | Under |
|---|---|---|
| `OwnershipProofs!TypeCorrect` | `Spec => []TypeOK` | |
| `OwnershipProofs!LocksAreBacked` | `Spec => []LockBacked` | |
| `OwnershipProofs!OneOwner` | `Spec => []OwnershipIntact` | |
| `OwnershipProofs!NoStaleClaim` | `Spec => ClaimsValid` | |
| `OwnershipProofs!LeaseImplemented` | `Spec => LocksAreLeases` | |
| `OwnershipProofs!DeadAreReapable` | `Spec => []DeadLocksReapable` | |
| `OwnershipProofs!WithinCapacity` | `Spec => []CapacityRespected` | |
| `OwnershipProofs!DrainedBeforeExit` | `Spec => ExitLosesNothing` | |
| `OutcomeProofs!OutcomesStay` | `Spec => SettledStays` | |
| `OutcomeProofs!DeadStayListed` | `Spec => []DeadIsListed` | `~ApiMayCrash` |
| `OutcomeProofs!DeathIsEarned` | `Spec => []NoEarlyDeath` | |
| `OutcomeProofs!BatchesAreExact` | `Spec => []BatchExact` | |
| `OutcomeProofs!ParentsFirst` | `Spec => []ChildAfterParents` | `"link" \notin Commands` |
| `ClaimGateProofs!ConcurrencyOverrun` | `Spec => []ConcurrencyBounded` | |
| `ClaimGateProofs!RateOverrun` | `Spec => []RateBounded` | |
| `ClaimGateProofs!PauseTakesHold` | `Spec => []PauseBounded` | |
| `CronProofs!SeriesIsNeverLost` | `Spec => []NeverLost` | |
| `CronProofs!SeriesIsOne` | `Spec => []OneEach` | |
| `TaskExecutorProofs!LinearExecution` | `Spec => []InOrder` | |
| `LspClientProofs!RequestsEndOnce` | `Spec => []OneOutcome` | |
| `LspClientProofs!LeaksAreKnown` | `Spec => []OnlyGivenUpLeak` | |
| `LanguageServersProofs!ServersAreKnown` | `Spec => []NothingForgotten` | |
| `LanguageServersProofs!ManagersAreWhole` | `Spec => []AllOrNothing` | |
| `FileBuffersProofs!CachesAreSound` | `Spec => []CacheSound` | one thread |
| `FileBuffersProofs!LookupsAreFresh` | `Spec => []FreshSymbols` | one thread |
| `FileBuffersProofs!EditsAreWhole` | `Spec => []EditsLand` | one thread |
| `FileBuffersProofs!ServerFollows` | `Spec => []ServerInSync` | one thread |
| `GateTypes`, `CronTypes`, `ExecutorTypes`, `LspTypes`, `ServersTypes`, `FilesTypes` | `Spec => []TypeOK` of their modules | as above |

**The hypotheses.** Each is one the property is false without. Between the two
statements of dlqService.retry a crash of the API process leaves a dead job off
every list (`~ApiMayCrash`). A dependency added by the route
`POST /jobs/:id/dependencies` may give an unfinished parent to a job that is already
running or completed (`"link" \notin Commands`: dependencies come with the creation
of a job, the other way the code has). And two threads that overlap make two
buffers of one file, as `v_overlap` shows. The task executor runs tool calls
one after another, unless it has abandoned one that timed out, so that one thread is
what the code gives in the absence of timeouts; the number of edits, writes by
others at any time, restarts, failing requests and failing saves is arbitrary.

**Types.** `TypeOK` is not inductive: completeJob counts in the batch of the job of
the execution it is given, so that an execution in flight has a job, and that its
batch exists, has to be known. `Consistent` adds this: `MemoryConsistent` (what a
worker remembers fits its `pc`; nobody shares an execution; a worker that is gone
remembers nothing) and `TablesConsistent` (a job is inserted with its batch, an
execution has a job, a dead letter entry a failed execution). The lemmas
`DatabaseTypes`, `WorkersTypes`, `ApiTypes`, `MemoryStep` and `TablesStep` each
show one part preserved, one step per action.

**Ownership.** The second invariant is `OwnInv`: `Consistent`, `LocksSound`,
`ClaimGrounds`, `LockBacked` and `OwnershipIntact`. The heart is the claim. Its
UPDATE asks nothing about the job, so ownership rests on what its SELECT saw, and
this on the snapshot rule: `ClaimGrounds` says that as long as nobody has committed
the candidate is still claimable; a claimable job is not locked (`LocksSound`), and
if undisturbed it is in nobody's hands (`OwnershipIntact` itself). So a claim that
commits makes the worker the only owner. `LockBacked` needs the other half: whoever
clears or replaces a lock either is its owner or takes the job away from it, in
which case the late answer of the old owner clears the lock of the new one but never
leaves a lock nobody works for. The exception it names, `Dropped`, stays true until
the lock is taken away: a draining worker starts nothing, so that the execution in
its promises is out of its hands for good. The refinement of `Lease` follows from
the case of the claim and the observation that every other step only clears locks.

**What can be reaped.** The reaper finds a lock by its holder's row, and
`DeadLocksReapable` says nothing of the row of a worker that lives. `Reapable` follows
one worker that is neither drained nor stalled from its registration on: its row is
active from then until it is reaped after its death, and a reap frees all its locks
in the same transaction. It says so of each such worker by itself, so that others
may drain and stall as they like.

**Room.** `CapacityRespected` counts executions, the code counts the entries of a
map that is keyed by job. `MapHolds` connects the two: an undisturbed execution has
the entry of its job, so there are no more of them than entries (two of one job in
one worker means that the job was disturbed). `RoomHeld` carries the test
of the poll loop over the commits that follow it: no entry is added between
the test and the start but the worker's own (`RoomMoves`, with `RoomStep` for each
action). The same `MapHolds` says that what a draining worker waits for is all that
is left to end, which with `LockBacked` is `ExitLosesNothing`.

**Outcomes.** `OutcomesStay` uses `OwnInv` once more: completeJob, failJob and
startExecution write by job id alone, so an outcome is safe because an undisturbed
job that somebody still has in hand is locked, and a locked job has no outcome yet.
`DeadIsListed` is inductive together with `Consistent`.

`NoEarlyDeath` is not inductive. failJob marks the execution in its first commit
and charges the count it had read before in its second, and between the two the
row may have changed. `ChargesBacked` adds what the pending charge rests on: the
count in hand, plus one, is at most the number of failed executions of the job.
`FailureStep` shows that no step takes a failed execution away, `FailureAdds`
that the first commit adds one, and so the charge is covered whenever it comes.

**Batches.** The counters are incremented and never computed, so that they are
right only if every completion and every death is counted once. `BatchStep` says
what a step can do to a batch left alone: insert it, move one job into `Done` or
into `Dead` together with its counter, or nothing. That a job is in neither set
before is `OwnInv` again (a job in hand has no outcome yet). `VerdictExact` is the
arithmetic of updateBatchStatus: its tests on two numbers are those on two disjoint
sets of jobs. `BatchesCounted` is the invariant they keep.

**Parents.** `ChildAfterParents` speaks of children and parents at once; the lemma
`AdvanceStep` separates what moves: a job comes under way only by a claim, which
has all parents completed (`ClaimGrounds`), a job that exists gets no further
parents, and by `OutcomesKept` a completed parent stays completed until somebody
reopens it.

The theorems of the other modules rest on `GateConstants` (finite sets of workers,
jobs and executions), `CronConstants`, `ExecutorConstants`, `LspConstants`,
`LanguageConstants` and `FileConstants`, which only give the constants their types
and keep None and Empty apart from values.

**The gate.** `ConcurrencyBounded` is not inductive: a worker that has passed the
test is not yet among the active jobs. `GateInv` counts it from then on. In
`ActiveWithComing` the active jobs that are in nobody's hand, and the workers
between the test and the start (`Entering`), together stay within the limit plus
N - 1: the worker that passes the test has counted fewer active jobs than the
limit, and the workers that enter beside it are at most N. `WindowWithComing` and
`ClaimsWithComing` do the same for the rate limit and the pause. A rate limit that is
set or changed starts with no execution of its own (`fresh` is empty) and at most N
workers that tested an older one or none, and every limit is at least one. The lemmas
`Shrink` and `Shift` say what the steps do to such a pair of finite sets: both
lose elements, or one gains what the other loses.

**Cron.** `CronInv` adds to `NeverLost` and `OneEach` that between the two commits
the loop stands at a row that still is an instance (`OldIsInstance`): users and
workers change the status of a row and never its expression.

**The executor.** `InOrder` speaks of all tasks, the code only of the queue and the
task in hand. `OrderInv` connects them: the queue holds the latest numbers in
order (`QueueInOrder`), the task in hand is the last that was taken
(`HeldIsLast`), all before it are over or abandoned (`TakenAreOver`), and what was
not started has no thread (`LaterAreIdle`).

**Requests.** `RequestInv` adds to `OneOutcome` and `OnlyGivenUpLeak` that only ids
which were given out are pending or have a result (`IdsGivenOut`), so that a new
request starts clean, and that a thread inside send_request has an id.

**Servers.** `NothingForgotten` is endangered wherever an entry of the dictionary is
overwritten or dropped. `ServersInv` says what a task may rely on when it gets
there: it holds the server that is entered for its language (`ServerInHand`), the
one it is about to replace is gone, or nobody reads its answers (`StartingOne`), a
language that from_languages starts has no server yet and every configured language
is accounted for (`StartingAll`, which gives `AllOrNothing`), and behind a loop that
stops servers all of them are stopped (`StoppedBehind`), so that the dictionary may
be dropped at its end.

**Files.** `FilesInv` is an assertion for each place of a call. A thread is looking
symbols up (`AtLookup`), editing (`AtEdit`) or on its way out (`AtEnd`), and at each
step that is left to it the invariant says what it holds: no buffer, or the only
one, with as many references as contexts are open, whose contents are those on
disk and of the halves of the edit made so far, and whose text the server has if
it was told (`Sole`, `Held`, `Carries`), unless the thread is disturbed. `Viewed` says
that a buffer read during a call is what the file was then and, unless others wrote
since didOpen, still is: therefore the hash taken after the answer is that of the
contents the answer is about, and an entry stored under it is `CacheSound`. `Kept`
is carried from the disk into the buffer, the text to be saved (`Composed`) and back
to the disk; while the file is truncated (`Cleared`) it is the text that holds it. An
exception skips to the closes that are open, and
their number is the number of references (`Leaving`). The lemmas on sequences say
that a list of steps is taken from the front; one lemma `...Keeps` for each action
carries the assertion to the next place.

Only model-checked: liveness (`EveryJobSettles`, `DeadLocksFreed`, `QueueMoves`,
`SeriesGoesOn`, `EveryTaskSettles`, `TheDeadAreReported`, `StopEnds`, `WritesEnd`,
`DeadAreReplaced`), which needs fairness and ENABLED and is out of the prover's
reach, and the findings, which are counterexamples.

## 6. Not modelled

*The scheduler.* Job logs and heartbeat history (written, never read by a
decision), list and detail reads, payloads; idempotency keys, where a UNIQUE
constraint decides; the delays of retries and of the poll loop, which are
arithmetic that no other component sees (`due` and `Poll` stand for their end);
retry policies beyond the delay; accounts and projects, single statements;
statistics, reads behind a cache of five seconds; WebSocket and AI calls; the
dashboard, which is rendering and two hooks with timers.

*serena-mcp.* The adapters of some fifty language servers (download, configure,
launch), the generated types of the protocol, the command line, the YAML
configuration, the tools and the symbol tree, which compute on texts and trees and
keep no state: their files are most of the program, and there is nothing in them
for a state machine. Of what is modelled, three things are left out: requests
other than document symbols (they keep nothing), the TCP variant of the
connection, and a shutdown of the agent in the middle of a task (`agent.py:1416`
takes no lock and the executor is not stopped first: servers started after the
shutdown survive it, and a dictionary that changes while it is iterated aborts it).

*Coverage.* The map names about 900 lines of TypeScript and 1200 of Python.
serena-mcp has some 60 000 lines of Python in 167 files, of which the files of
the four concurrent components above are about 5 500; the rest is of the kind
just described. Lines of TypeScript do not enter a share that counts Python.

## 7. Plan

1. Theorems: the refinement of an abstract queue by `ClaimGate`, as a step
   simulation; the steps
   that the liveness properties rest on (what a fair action disables it does not
   enable again), as action properties.
2. Idempotency keys of `create`, against a second API process.
3. A shutdown of the agent at every step of a task, in an instance small enough.
4. The retry delay and the poll back-off as pure functions against reference
   definitions; the dashboard's reconnecting socket.
