---------------------------- MODULE TaskExecutor ----------------------------
(***************************************************************************)
(* serena's task executor (serena/task_executor.py) with its users: the    *)
(* tool calls that wait for a task with a timeout (tools_base.py) and the  *)
(* dashboard that lists tasks and cancels one by its id (dashboard.py).    *)
(*                                                                         *)
(* Three kinds of thread run concurrently: the executor's own thread, one  *)
(* thread per task that was started, and the callers.  A step is what a    *)
(* thread does under the executor's lock, or one atomic call on a Future.  *)
(* What a task's function does is left out: it runs, and then returns or   *)
(* raises, or (members of Endless) may never come back, or (members of     *)
(* Escaping) raises what is no Exception, such as SystemExit.              *)
(***************************************************************************)
EXTENDS Naturals, Sequences

CONSTANTS
    NumTasks,    \* a model bound: how many tasks are issued
    Timed,       \* tasks issued with a timeout of their own
    Endless,     \* tasks whose function may not come back
    Escaping,    \* tasks whose function may raise a BaseException
    None         \* Python's None

\* Tasks are numbered in the order they are issued (_task_executor_task_index).
Tasks == 1 .. NumTasks

ASSUME ExecutorConstants ==
    /\ NumTasks \in Nat
    /\ Timed \subseteq Tasks /\ Endless \subseteq Tasks /\ Escaping \subseteq Tasks
    /\ None \notin Tasks

VARIABLES
    queue,       \* _task_executor_queue
    held,        \* the local variable task of _process_task_queue
    pc,          \* where _process_task_queue is
    current,     \* _task_executor_current_task
    last,        \* _task_executor_last_executed_task_info
    future,      \* the state of each task's future
    thread,      \* the thread of each task
    answer,      \* what the caller of each task has been told
    id,          \* id(task), an address: free again with its object
    listed,      \* the row of the dashboard's list the user has an eye on:
                 \* a task and its id
    gaveUp,      \* history: tasks whose own timeout the executor hit
    issued,      \* the number of tasks issued so far
    mistaken     \* history: tasks cancelled for another one of the same id

exVars    == <<queue, held, pc, current, last, gaveUp>>
userVars  == <<answer, listed, mistaken>>
birthVars == <<id, issued>>
vars      == <<exVars, future, thread, userVars, birthVars>>

Done(t) == future[t] \in {"result", "exception", "cancelled"}

\* Is the Task object still referenced by anyone?
Alive(t) ==
    \/ t \in {queue[i] : i \in 1 .. Len(queue)} \cup {held, current}
    \/ thread[t] \in {"started", "running", "returned"}
    \/ answer[t] = "waiting"

Init ==
    /\ queue = <<>> /\ held = None /\ pc = "poll" /\ current = None /\ last = None
    /\ future = [t \in Tasks |-> "none"]
    /\ thread = [t \in Tasks |-> "none"]
    /\ answer = [t \in Tasks |-> "none"]
    /\ id = [t \in Tasks |-> None]
    /\ listed = None /\ gaveUp = {} /\ issued = 0 /\ mistaken = {}

-----------------------------------------------------------------------------
(* Callers.                                                                *)

\* The address of a new object: one never used (number it t), or that of an
\* object that is gone.
NewIds(t) == ({t} \cup {id[u] : u \in 1 .. issued})
                 \ {id[u] : u \in {v \in 1 .. issued : Alive(v)}}

\* issue_task, by a caller that goes on to wait or by one that does not.
IssueTask(t) ==
    /\ t = issued + 1
    /\ issued' = t
    /\ queue' = Append(queue, t)
    /\ future' = [future EXCEPT ![t] = "pending"]
    /\ \E a \in NewIds(t) : id' = [id EXCEPT ![t] = a]
    /\ \E w \in {"waiting", "none"} : answer' = [answer EXCEPT ![t] = w]
    /\ UNCHANGED <<held, pc, current, last, gaveUp, thread, listed, mistaken>>

\* result(): the future is done, and the caller gets what it holds.
Result(t) ==
    /\ answer[t] = "waiting" /\ Done(t)
    /\ answer' = [answer EXCEPT ![t] = future[t]]
    /\ UNCHANGED <<exVars, future, thread, listed, mistaken, birthVars>>

\* result(timeout=tool_timeout) raises TimeoutError; the task stays.
ResultTimeout(t) ==
    /\ answer[t] = "waiting" /\ ~Done(t)
    /\ answer' = [answer EXCEPT ![t] = "timeout"]
    /\ UNCHANGED <<exVars, future, thread, listed, mistaken, birthVars>>

\* get_current_tasks: the running task, then the queued ones not yet done.
CurrentTasks ==
    {t \in {queue[i] : i \in 1 .. Len(queue)} : ~Done(t)}
        \cup ({current} \ {None})

ListTasks ==
    /\ \E t \in CurrentTasks : listed' = <<t, id[t]>>
    /\ UNCHANGED <<exVars, future, thread, answer, mistaken, birthVars>>

\* POST /cancel_task_execution for the row of the list.
CancelTask ==
    /\ listed # None
    /\ \E t \in CurrentTasks :
           /\ id[t] = listed[2]
           /\ future' = [future EXCEPT ![t] = IF Done(t) THEN @ ELSE "cancelled"]
           /\ mistaken' = IF t = listed[1] THEN mistaken ELSE mistaken \cup {t}
    /\ UNCHANGED <<exVars, thread, answer, listed, birthVars>>

-----------------------------------------------------------------------------
(* The executor's thread: _process_task_queue.                             *)

PopTask ==
    /\ pc = "poll" /\ queue # <<>>
    /\ held' = Head(queue) /\ queue' = Tail(queue) /\ pc' = "start"
    /\ UNCHANGED <<current, last, gaveUp, future, thread, userVars, birthVars>>

StartTask ==
    /\ pc = "start"
    /\ current' = held /\ pc' = "wait"
    /\ thread' = [thread EXCEPT ![held] = "started"]
    /\ UNCHANGED <<queue, held, last, gaveUp, future, userVars, birthVars>>

\* Mutant: the executor waits for the thread to start, not for the future.
WaitUntilStarted ==
    /\ pc = "wait" /\ thread[held] # "started"
    /\ current' = None /\ last' = held /\ pc' = "callback"
    /\ UNCHANGED <<queue, held, gaveUp, future, thread, userVars, birthVars>>

\* wait_until_done returns: the future is done, or the task's timeout is over.
WaitUntilDone ==
    /\ pc = "wait"
    /\ Done(held) \/ held \in Timed
    /\ gaveUp' = IF Done(held) THEN gaveUp ELSE gaveUp \cup {held}
    /\ current' = None /\ last' = held /\ pc' = "callback"
    /\ UNCHANGED <<queue, held, future, thread, userVars, birthVars>>

\* The completion callback, whose exceptions are caught; the next round.
TaskCompletionCallback ==
    /\ pc = "callback"
    /\ held' = None /\ pc' = "poll"
    /\ UNCHANGED <<queue, current, last, gaveUp, future, thread, userVars, birthVars>>

-----------------------------------------------------------------------------
(* The thread of one task: run_task.                                       *)

\* A task that was cancelled before its thread looked is skipped.
RunTask(t) ==
    /\ thread[t] = "started"
    /\ thread' = [thread EXCEPT ![t] = IF Done(t) THEN "ended" ELSE "running"]
    /\ UNCHANGED <<exVars, future, userVars, birthVars>>

FunctionEnds(t) ==
    /\ thread[t] = "running"
    /\ thread' = [thread EXCEPT ![t] = "returned"]
    /\ UNCHANGED <<exVars, future, userVars, birthVars>>

\* "except Exception" does not catch it: the thread dies, and nobody sets the future.
FunctionEscapes(t) ==
    /\ thread[t] = "running" /\ t \in Escaping
    /\ thread' = [thread EXCEPT ![t] = "escaped"]
    /\ UNCHANGED <<exVars, future, userVars, birthVars>>

\* Mutant: an exception is logged and not set on the future.
SetResultOnly(t) ==
    /\ thread[t] = "returned"
    /\ thread' = [thread EXCEPT ![t] = "ended"]
    /\ \E outcome \in {"result", "pending"} :
           future' = [future EXCEPT ![t] = IF Done(t) THEN @ ELSE outcome]
    /\ UNCHANGED <<exVars, userVars, birthVars>>

\* set_result or set_exception.  On a future that is done by now, cancelled, the
\* call is left out, or raises and changes nothing: a Future is written once.
SetFuture(t) ==
    /\ thread[t] = "returned"
    /\ thread' = [thread EXCEPT ![t] = "ended"]
    /\ \E outcome \in {"result", "exception"} :
           future' = [future EXCEPT ![t] = IF Done(t) THEN @ ELSE outcome]
    /\ UNCHANGED <<exVars, userVars, birthVars>>

-----------------------------------------------------------------------------
Executor  == PopTask \/ StartTask \/ WaitUntilDone \/ TaskCompletionCallback
Thread(t) == RunTask(t) \/ FunctionEnds(t) \/ FunctionEscapes(t) \/ SetFuture(t)

Next ==
    \/ Executor
    \/ ListTasks \/ CancelTask
    \/ \E t \in Tasks : IssueTask(t) \/ Result(t) \/ ResultTimeout(t) \/ Thread(t)

\* Python's threads are scheduled fairly; a function outside Endless comes back
\* unless it escapes.
Fairness ==
    /\ WF_vars(Executor)
    /\ \A t \in Tasks : WF_vars(RunTask(t) \/ SetFuture(t) \/ Result(t))
    /\ \A t \in Tasks \ Endless : WF_vars(FunctionEnds(t))

Spec     == Init /\ [][Next]_vars
FairSpec == Spec /\ Fairness

-----------------------------------------------------------------------------
Names == {"none", "pending", "result", "exception", "cancelled"}

\* Type correctness.
TypeOK ==
    /\ queue \in Seq(Tasks) /\ issued \in 0 .. NumTasks
    /\ {held, current, last} \subseteq Tasks \cup {None}
    /\ pc \in {"poll", "start", "wait", "callback"}
    /\ pc # "poll" => held \in Tasks
    /\ future \in [Tasks -> Names]
    /\ thread \in [Tasks -> {"none", "started", "running", "returned", "escaped", "ended"}]
    /\ answer \in [Tasks -> Names \cup {"waiting", "timeout"}]
    /\ id \in [Tasks -> Tasks \cup {None}]
    /\ listed \in (Tasks \X (Tasks \cup {None})) \cup {None}
    /\ gaveUp \subseteq Tasks /\ mistaken \subseteq Tasks

Running(t) == thread[t] \in {"running", "returned"}

\* Linear execution as far as it goes: when a task's function is running or
\* has run, every task issued before it is over, or was cancelled or timed out
\* (and may then still be running beside it).
InOrder ==
    \A t, u \in Tasks :
        /\ t < u
        /\ Running(u) \/ future[u] \in {"result", "exception"}
        => Done(t) \/ t \in gaveUp

\* A task whose own function does not come back or has escaped; and such a task
\* in the executor's hand, without a timeout and not cancelled.
NeverSettles(t) == thread[t] = "escaped" \/ (thread[t] = "running" /\ t \in Endless)
Blocked == \E t \in Tasks \ Timed : current = t /\ ~Done(t) /\ NeverSettles(t)

\* Everything issued is executed, fails or is skipped, but for the tasks that
\* never settle and those behind one that blocks the executor: there a
\* cancellation is enough to go on, so that no state is stuck for good.
EveryTaskSettles ==
    \A t \in Tasks :
        []<>(future[t] = "none" \/ Done(t) \/ Blocked \/ NeverSettles(t))

\* task_executor.py, issue_task: "tasks are executed in the order they are
\* issued, one after another".
OneAfterAnother ==
    \A t, u \in Tasks : Running(t) /\ Running(u) => t = u

\* task_executor.py, TaskInfo: task_id is a "unique identifier of the task":
\* a cancellation reaches no task but the one that was listed.
CancelsTheListed == mistaken = {}

=============================================================================
