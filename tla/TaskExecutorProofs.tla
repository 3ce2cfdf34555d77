------------------------- MODULE TaskExecutorProofs -------------------------
(***************************************************************************)
(* For any number of tasks, timeouts and cancellations: tasks start in the *)
(* order they are issued, none beside another that is neither over nor     *)
(* abandoned.                                                              *)
(***************************************************************************)
EXTENDS TaskExecutor, TLAPS

\* The number of tasks taken from the queue so far.
Popped == issued - Len(queue)

\* The queue holds the latest tasks, in the order of their numbers.
QueueInOrder ==
    /\ Len(queue) <= issued
    /\ \A i \in 1 .. Len(queue) : queue[i] = Popped + i

\* The task in the executor's hand is the last one taken.
HeldIsLast == /\ pc = "poll" => held = None
              /\ pc # "poll" => held = Popped

\* What was taken before it is over or abandoned, and so is it once the
\* executor has stopped waiting.
TakenAreOver ==
    \A t \in Tasks : (t < Popped \/ (t = Popped /\ pc \in {"poll", "callback"}))
                        => Done(t) \/ t \in gaveUp

\* What was not taken, or not started, has no thread and no outcome of its own.
LaterAreIdle ==
    \A t \in Tasks : (t > Popped \/ (t = Popped /\ pc = "start"))
                        => thread[t] = "none" /\ future[t] \notin {"result", "exception"}

NotYetIssued == \A t \in Tasks : t > issued => answer[t] = "none"

OrderInv == /\ TypeOK
            /\ QueueInOrder
            /\ HeldIsLast
            /\ TakenAreOver
            /\ LaterAreIdle
            /\ NotYetIssued

\* OrderInv holds initially.
LEMMA InitOrder == Init => OrderInv
BY ExecutorConstants DEF Init, OrderInv, TypeOK, QueueInOrder, Popped, HeldIsLast,
   TakenAreOver, LaterAreIdle, NotYetIssued, Tasks, Names

\* Every step keeps the invariant.
LEMMA StepOrder == OrderInv /\ [Next]_vars => OrderInv'
<1> USE ExecutorConstants DEF OrderInv, Tasks, Popped
<1> SUFFICES ASSUME OrderInv, [Next]_vars PROVE OrderInv'
  OBVIOUS
<1>1. ASSUME NEW t \in Tasks, IssueTask(t) PROVE OrderInv'
  <2>1. Len(queue') = Len(queue) + 1 /\ issued' = issued + 1 /\ queue' \in Seq(Tasks)
    BY <1>1 DEF IssueTask, TypeOK
  <2>2. TypeOK'
    <3>1. \A u \in 1 .. issued : id[u] \in Tasks \cup {None}
      BY DEF TypeOK
    <3>2. \A a \in NewIds(t) : a \in Tasks \cup {None}
      <4>1. NewIds(t) \subseteq {t} \cup {id[u] : u \in 1 .. issued}
        BY DEF NewIds
      <4> QED BY <3>1, <4>1
    <3> QED BY <1>1, <2>1, <3>2 DEF IssueTask, TypeOK, Names
  <2>3. QueueInOrder'
    <3>1. \A i \in 1 .. Len(queue') : queue'[i] = IF i = Len(queue) + 1 THEN t ELSE queue[i]
      BY <1>1, <2>1 DEF IssueTask, TypeOK
    <3>2. Len(queue) \in Nat /\ issued \in Nat /\ t = issued + 1
      BY <1>1 DEF IssueTask, TypeOK
    <3> QED BY <2>1, <3>1, <3>2 DEF QueueInOrder
  <2>4. HeldIsLast' /\ TakenAreOver' /\ LaterAreIdle' /\ NotYetIssued'
    BY <1>1, <2>1 DEF IssueTask, TypeOK, HeldIsLast, TakenAreOver, LaterAreIdle,
       NotYetIssued, Done, QueueInOrder
  <2> QED BY <2>2, <2>3, <2>4
<1>2. ASSUME NEW t \in Tasks, Result(t) \/ ResultTimeout(t) PROVE OrderInv'
  <2>1. UNCHANGED <<exVars, future, thread, listed, mistaken, birthVars>>
    BY <1>2 DEF Result, ResultTimeout
  <2>2. QueueInOrder' /\ HeldIsLast' /\ TakenAreOver' /\ LaterAreIdle'
    BY <2>1 DEF exVars, birthVars, QueueInOrder, HeldIsLast, TakenAreOver, LaterAreIdle, Done
  <2>3. /\ answer[t] = "waiting"
        /\ answer' \in {[answer EXCEPT ![t] = future[t]], [answer EXCEPT ![t] = "timeout"]}
    BY <1>2 DEF Result, ResultTimeout
  <2>4. TypeOK'
    BY <2>1, <2>3 DEF exVars, birthVars, TypeOK, Names
  <2>5. NotYetIssued'
    BY <2>1, <2>3 DEF birthVars, TypeOK, NotYetIssued
  <2> QED BY <2>2, <2>4, <2>5
<1>3. CASE ListTasks
  <2>1. UNCHANGED <<exVars, future, thread, answer, mistaken, birthVars>>
    BY <1>3 DEF ListTasks
  <2>2. TypeOK'
    <3>1. CurrentTasks \subseteq Tasks
      BY DEF CurrentTasks, TypeOK
    <3>2. PICK t \in CurrentTasks : listed' = <<t, id[t]>>
      BY <1>3 DEF ListTasks
    <3>3. t \in Tasks /\ id[t] \in Tasks \cup {None}
      BY <3>1 DEF TypeOK
    <3>4. listed' \in (Tasks \X (Tasks \cup {None})) \cup {None}
      BY <3>2, <3>3
    <3> HIDE DEF Tasks
    <3> QED BY <2>1, <3>4 DEF exVars, birthVars, TypeOK, Names
  <2>3. QueueInOrder' /\ HeldIsLast' /\ TakenAreOver' /\ LaterAreIdle' /\ NotYetIssued'
    BY <2>1 DEF exVars, birthVars, QueueInOrder, HeldIsLast, TakenAreOver, LaterAreIdle,
       NotYetIssued, Done
  <2> QED BY <2>2, <2>3
<1>4. CASE CancelTask
  <2>1. CurrentTasks \subseteq Tasks
    BY DEF CurrentTasks, TypeOK
  <2> QED BY <1>4, <2>1 DEF CancelTask, exVars, birthVars, TypeOK, QueueInOrder, HeldIsLast,
     TakenAreOver, LaterAreIdle, NotYetIssued, Done, Names
<1>5. CASE PopTask
  <2>1. /\ Len(queue') = Len(queue) - 1 /\ queue' \in Seq(Tasks) /\ Head(queue) \in Tasks
        /\ Len(queue) > 0
        /\ \A i \in 1 .. Len(queue') : queue'[i] = queue[i + 1]
    BY <1>5 DEF PopTask, TypeOK
  <2>2. Head(queue) = Popped + 1
    BY <1>5, <2>1 DEF PopTask, QueueInOrder, TypeOK
  <2>3. TypeOK' /\ QueueInOrder'
    BY <1>5, <2>1 DEF PopTask, userVars, birthVars, TypeOK, QueueInOrder
  <2>4. HeldIsLast' /\ TakenAreOver' /\ LaterAreIdle' /\ NotYetIssued'
    <3>1. Len(queue) \in Nat /\ issued \in Nat
      BY DEF TypeOK
    <3>2. /\ held' = Popped + 1 /\ Popped' = Popped + 1
          /\ pc = "poll" /\ pc' = "start"
          /\ UNCHANGED <<future, thread, answer, issued, gaveUp>>
      BY <1>5, <2>1, <2>2, <3>1 DEF PopTask, userVars, birthVars
    <3>3. HeldIsLast' /\ NotYetIssued'
      BY <3>2 DEF HeldIsLast, NotYetIssued
    <3>4. TakenAreOver' /\ LaterAreIdle'
      BY <3>1, <3>2 DEF TakenAreOver, LaterAreIdle, Done
    <3> QED BY <3>3, <3>4
  <2> QED BY <2>3, <2>4
<1>6. CASE StartTask
  BY <1>6 DEF StartTask, userVars, birthVars, TypeOK, QueueInOrder, HeldIsLast,
     TakenAreOver, LaterAreIdle, NotYetIssued, Done
<1>7. CASE WaitUntilDone
  BY <1>7 DEF WaitUntilDone, userVars, birthVars, TypeOK, QueueInOrder, HeldIsLast,
     TakenAreOver, LaterAreIdle, NotYetIssued, Done
<1>8. CASE TaskCompletionCallback
  BY <1>8 DEF TaskCompletionCallback, userVars, birthVars, TypeOK, QueueInOrder, HeldIsLast,
     TakenAreOver, LaterAreIdle, NotYetIssued, Done
<1>9. ASSUME NEW t \in Tasks, Thread(t) PROVE OrderInv'
  <2>1. /\ UNCHANGED <<exVars, userVars, birthVars>>
        /\ thread[t] \in {"started", "running", "returned"}
        /\ \E s \in {"running", "returned", "escaped", "ended"} : thread' = [thread EXCEPT ![t] = s]
        /\ \/ future' = future
           \/ ~Done(t) /\ \E o \in {"result", "exception"} : future' = [future EXCEPT ![t] = o]
    <3>1. CASE RunTask(t)
      BY <3>1 DEF RunTask
    <3>2. CASE FunctionEnds(t)
      BY <3>2 DEF FunctionEnds
    <3>3. CASE FunctionEscapes(t)
      BY <3>3 DEF FunctionEscapes
    <3>4. CASE SetFuture(t)
      <4>1. CASE Done(t)
        BY <3>4, <4>1 DEF SetFuture, TypeOK
      <4>2. CASE ~Done(t)
        BY <3>4, <4>2 DEF SetFuture
      <4> QED BY <4>1, <4>2
    <3> QED BY <1>9, <3>1, <3>2, <3>3, <3>4 DEF Thread
  <2>2. TypeOK'
    BY <2>1 DEF exVars, userVars, birthVars, TypeOK, Names
  <2>3. QueueInOrder' /\ HeldIsLast' /\ NotYetIssued'
    BY <2>1 DEF exVars, userVars, birthVars, QueueInOrder, HeldIsLast, NotYetIssued
  <2>4. TakenAreOver' /\ LaterAreIdle'
    BY <2>1 DEF exVars, birthVars, TypeOK, TakenAreOver, LaterAreIdle, Done, Names
  <2> QED BY <2>2, <2>3, <2>4
<1>10. CASE UNCHANGED vars
  BY <1>10 DEF vars, exVars, userVars, birthVars, TypeOK, QueueInOrder, HeldIsLast,
     TakenAreOver, LaterAreIdle, NotYetIssued, Done
<1> QED BY <1>1, <1>2, <1>3, <1>4, <1>5, <1>6, <1>7, <1>8, <1>9, <1>10 DEF Next, Executor

\* OrderInv is an invariant.
LEMMA AlwaysOrder == Spec => []OrderInv
BY InitOrder, StepOrder, PTL DEF Spec

\* Type correctness.
THEOREM ExecutorTypes == Spec => []TypeOK
BY AlwaysOrder, PTL DEF OrderInv

\* A task's function begins only when every task issued before it is over, or
\* has been cancelled or timed out (TaskExecutor's queue, its single thread and
\* wait_until_done).
THEOREM LinearExecution == Spec => []InOrder
<1>1. OrderInv => InOrder
  BY DEF OrderInv, InOrder, TypeOK, QueueInOrder, HeldIsLast, TakenAreOver, LaterAreIdle,
     Popped, Running, Tasks
<1> QED BY <1>1, AlwaysOrder, PTL

=============================================================================
