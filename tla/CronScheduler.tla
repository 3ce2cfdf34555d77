--------------------------- MODULE CronScheduler ----------------------------
(***************************************************************************)
(* One recurring job.  Its instances are rows of table jobs; the one that  *)
(* is to bring forth the next carries the cron expression.  The scheduler  *)
(* (scheduler.service.ts, processCronJobs) creates the next instance of    *)
(* each completed one and then takes the expression from the old one: two  *)
(* commits, between which the API server may die or the second may fail.   *)
(*                                                                         *)
(* Only rows that carry the expression are kept: one that has lost it has  *)
(* no part in the series any more, and its place is free.                  *)
(***************************************************************************)
EXTENDS Naturals, FiniteSets

CONSTANTS
    Rows,          \* places for instances
    MaxInterrupts, \* a model bound: how often the second commit is missing
    Parses,        \* does cron-parser accept the expression?
    None

ASSUME CronConstants ==
    /\ IsFiniteSet(Rows) /\ Rows # {} /\ None \notin Rows
    /\ MaxInterrupts \in Nat /\ Parses \in BOOLEAN

VARIABLES
    status,     \* jobs.status of the instances; free: no instance
    stray,      \* is an execution of the row out of hand?
    pc,         \* the scheduler: idle, loop, or clear, between the two commits
    todo,       \* completedCronJobs: what the loop has still before it
    old,        \* the instance it is at
    interrupts  \* how often the second commit was missing

vars == <<status, stray, pc, todo, old, interrupts>>

Instances == {r \in Rows : status[r] # "free"}
Over      == {"completed", "failed", "dead"}

Init ==
    /\ \E r \in Rows : status = [s \in Rows |-> IF s = r THEN "scheduled" ELSE "free"]
    /\ stray = [r \in Rows |-> FALSE]
    /\ pc = "idle" /\ todo = {} /\ old = None /\ interrupts = 0

-----------------------------------------------------------------------------
(* What happens to an instance.                                            *)

Write(r, s) == status' = [status EXCEPT ![r] = s] /\ UNCHANGED <<pc, todo, old, interrupts>>

Promote(r) ==
    /\ pc = "idle" /\ status[r] = "scheduled"
    /\ Write(r, "queued") /\ UNCHANGED stray

\* A worker claims it and starts it.
Run(r) ==
    /\ status[r] \in {"scheduled", "queued"}
    /\ Write(r, "running") /\ UNCHANGED stray

\* completeJob, or failJob: again, or never again.
End(r) ==
    /\ status[r] = "running"
    /\ \E s \in {"completed", "queued", "dead"} : Write(r, s)
    /\ UNCHANGED stray

\* Who cancels, retries or reaps a running job leaves its execution out of hand;
\* one of them at a time, a bound of the model.
Displace(r) ==
    IF status[r] = "running" THEN ~stray[r] /\ stray' = [stray EXCEPT ![r] = TRUE]
                             ELSE UNCHANGED stray

\* It ends all the same and writes to the row by its id.  If the job runs again
\* by then, it is the execution under way that is out of hand.
LateEnd(r) ==
    /\ stray[r] /\ stray' = [stray EXCEPT ![r] = status[r] = "running"]
    /\ \E s \in {"completed", "queued", "dead"} : Write(r, s)

\* The API server's handlers run between two runs of the scheduler.
CancelJob(r) ==
    /\ pc = "idle" /\ status[r] \notin {"free", "completed", "dead"}
    /\ Displace(r) /\ Write(r, "failed")

RetryJob(r) ==
    /\ pc = "idle" /\ status[r] # "free"
    /\ Displace(r) /\ Write(r, "queued")

Reap(r) ==
    /\ pc = "idle" /\ status[r] = "running"
    /\ Displace(r) /\ Write(r, "queued")

-----------------------------------------------------------------------------
(* processCronJobs.                                                        *)

\* Mutant: the series is taken up where it died, not where it completed.
FindDead ==
    /\ pc = "idle"
    /\ todo' = {r \in Rows : status[r] = "dead"}
    /\ pc' = IF todo' = {} THEN "idle" ELSE "loop"
    /\ UNCHANGED <<status, stray, old, interrupts>>

FindCompleted ==
    /\ pc = "idle"
    /\ todo' = {r \in Rows : status[r] = "completed"}
    /\ pc' = IF todo' = {} THEN "idle" ELSE "loop"
    /\ UNCHANGED <<status, stray, old, interrupts>>

Rest(r) == todo' = todo \ {r} /\ pc' = IF todo' = {} THEN "idle" ELSE "loop"

\* Mutant: the expression is taken from the old instance first.
ClearThenCreate(r) ==
    /\ pc = "loop" /\ r \in todo /\ Parses
    /\ status' = [status EXCEPT ![r] = "free"]
    /\ pc' = "clear" /\ old' = r
    /\ UNCHANGED <<stray, todo, interrupts>>

\* The next instance is created from the row that was read.
CreateNext(r) ==
    /\ pc = "loop" /\ r \in todo /\ Parses
    /\ \E n \in Rows \ Instances : status' = [status EXCEPT ![n] = "scheduled"]
    /\ pc' = "clear" /\ old' = r
    /\ UNCHANGED <<stray, todo, interrupts>>

\* The expression cannot be parsed, or the insert throws: on to the next row.
CreateFails(r) ==
    /\ pc = "loop" /\ r \in todo
    /\ Rest(r)
    /\ UNCHANGED <<status, stray, old, interrupts>>

\* Mutant: the old row keeps its expression.
ClearNothing ==
    /\ pc = "clear"
    /\ Rest(old) /\ old' = None
    /\ UNCHANGED <<status, stray, interrupts>>

ClearOld ==
    /\ pc = "clear"
    /\ status' = [status EXCEPT ![old] = "free"] /\ stray' = [stray EXCEPT ![old] = FALSE]
    /\ Rest(old) /\ old' = None
    /\ UNCHANGED interrupts

\* The update throws; the loop goes on.
ClearFails ==
    /\ pc = "clear" /\ interrupts < MaxInterrupts
    /\ interrupts' = interrupts + 1
    /\ Rest(old) /\ old' = None
    /\ UNCHANGED <<status, stray>>

\* The server dies and starts again.
Crash ==
    /\ pc # "idle"
    /\ IF pc = "clear"
       THEN interrupts < MaxInterrupts /\ interrupts' = interrupts + 1
       ELSE UNCHANGED interrupts
    /\ pc' = "idle" /\ todo' = {} /\ old' = None
    /\ UNCHANGED <<status, stray>>

-----------------------------------------------------------------------------
Next ==
    \/ \E r \in Rows : \/ Promote(r) \/ Run(r) \/ End(r) \/ LateEnd(r)
                       \/ CancelJob(r) \/ RetryJob(r) \/ Reap(r)
                       \/ CreateNext(r) \/ CreateFails(r)
    \/ FindCompleted \/ ClearOld \/ ClearFails \/ Crash

\* Workers run what is due, in spite of users who cancel and retry, and runs end;
\* the scheduler runs again and again, and is not stopped short every time.
Fairness ==
    /\ \A r \in Rows : SF_vars(Run(r)) /\ WF_vars(End(r)) /\ SF_vars(CreateNext(r))
    /\ WF_vars(FindCompleted) /\ WF_vars(ClearOld)

Spec     == Init /\ [][Next]_vars
FairSpec == Spec /\ Fairness

-----------------------------------------------------------------------------
\* Type correctness.
TypeOK ==
    /\ status \in [Rows -> {"free", "scheduled", "queued", "running"} \cup Over]
    /\ stray \in [Rows -> BOOLEAN]
    /\ pc \in {"idle", "loop", "clear"} /\ todo \subseteq Rows
    /\ old \in Rows \cup {None} /\ interrupts \in 0 .. MaxInterrupts

\* The series never loses its last instance: the next one is there before the
\* old one goes, and nobody else takes the expression from a row.
NeverLost == Instances \ {old} # {}

\* Nor does it multiply, but for one instance for each time that the second
\* commit was missing.
OneEach ==
    Cardinality(Instances) <= 1 + interrupts + (IF pc = "clear" THEN 1 ELSE 0)

\* The series goes on until all its instances are dead or cancelled: a completed
\* one is followed by a next one that runs.
SeriesGoesOn ==
    []<>(\E r \in Rows : status[r] = "running")
        \/ <>[](\A r \in Rows : status[r] \in {"free", "failed", "dead"})

=============================================================================
