----------------------------- MODULE CronProofs -----------------------------
(***************************************************************************)
(* However often the scheduler is stopped short and whatever workers and   *)
(* users do to the instances: the series is never lost, and multiplies     *)
(* only where the second commit was missing.                               *)
(***************************************************************************)
EXTENDS CronScheduler, FiniteSetTheorems, TLAPS

\* Between the two commits the loop is at an instance.
OldIsInstance == /\ pc = "clear" => old \in Instances
                 /\ pc # "clear" => old = None
                 /\ todo \subseteq Instances
                 /\ \A r \in Rows : stray[r] => r \in Instances

CronInv == TypeOK /\ OldIsInstance /\ NeverLost /\ OneEach

\* The instances of a series are finitely many.
LEMMA InstancesFinite ==
    IsFiniteSet(Instances) /\ Cardinality(Instances) \in Nat
<1>1. Instances \subseteq Rows
  BY DEF Instances
<1> QED BY <1>1, CronConstants, FS_Subset, FS_CardinalityType

\* CronInv holds initially.
LEMMA InitCron == Init => CronInv
<1> SUFFICES ASSUME Init PROVE CronInv
  OBVIOUS
<1>1. PICK r \in Rows : status = [s \in Rows |-> IF s = r THEN "scheduled" ELSE "free"]
  BY DEF Init
<1>2. Instances = {r}
  BY <1>1 DEF Instances
<1>3. Cardinality(Instances) = 1
  BY <1>2, FS_Singleton
<1>4. TypeOK
  BY <1>1, CronConstants DEF Init, TypeOK
<1> QED BY <1>2, <1>3, <1>4, CronConstants DEF Init, CronInv, OldIsInstance, NeverLost, OneEach

\* Every step keeps it.
LEMMA StepCron == CronInv /\ [Next]_vars => CronInv'
<1> SUFFICES ASSUME CronInv, [Next]_vars PROVE CronInv'
  OBVIOUS
<1> USE CronConstants DEF CronInv
<1>1. ASSUME UNCHANGED <<pc, todo, old, interrupts>>, stray' \in [Rows -> BOOLEAN],
             NEW r \in Rows, status[r] # "free",
             \A q \in Rows : stray'[q] => stray[q] \/ q = r,
             NEW s \in {"scheduled", "queued", "running"} \cup Over,
             status' = [status EXCEPT ![r] = s]
      PROVE  CronInv'
  <2>1. TypeOK'
    BY <1>1 DEF TypeOK, Over
  <2>2. Instances' = Instances
    BY <1>1 DEF Instances, TypeOK, Over
  <2>3. \A q \in Rows : stray'[q] => q \in Instances
    BY <1>1 DEF OldIsInstance, Instances
  <2> QED BY <1>1, <2>1, <2>2, <2>3 DEF OldIsInstance, NeverLost, OneEach
<1>2. ASSUME NEW r \in Rows, \/ Promote(r) \/ Run(r) \/ End(r) \/ LateEnd(r) \/ CancelJob(r)
                             \/ RetryJob(r) \/ Reap(r)
      PROVE  CronInv'
  <2>1. stray' \in [Rows -> BOOLEAN] /\ \A q \in Rows : stray'[q] => stray[q] \/ q = r
    BY <1>2 DEF Promote, Run, End, LateEnd, CancelJob, RetryJob, Reap, Displace, TypeOK
  <2>2. CASE ~LateEnd(r)
    BY <1>1, <1>2, <2>1, <2>2 DEF Promote, Run, End, CancelJob, RetryJob, Reap, Write, Over
  <2>3. CASE LateEnd(r)
    <3>1. status[r] # "free"
      BY <2>3 DEF LateEnd, OldIsInstance, Instances
    <3> QED BY <1>1, <2>1, <2>3, <3>1 DEF LateEnd, Write, Over
  <2> QED BY <2>2, <2>3
<1>3. ASSUME NEW r \in Rows, CreateNext(r) PROVE CronInv'
  <2>1. PICK n \in Rows \ Instances : status' = [status EXCEPT ![n] = "scheduled"]
    BY <1>3 DEF CreateNext
  <2>2. /\ pc = "loop" /\ r \in todo /\ pc' = "clear" /\ old' = r
        /\ UNCHANGED <<stray, todo, interrupts>>
    BY <1>3 DEF CreateNext
  <2>3. TypeOK'
    BY <2>1, <2>2 DEF TypeOK, Over
  <2>4. Instances' = Instances \cup {n} /\ n # r
    BY <2>1, <2>2 DEF Instances, OldIsInstance, TypeOK
  <2>5. Cardinality(Instances') = Cardinality(Instances) + 1
    BY <2>1, <2>4, InstancesFinite, FS_AddElement
  <2>6. OldIsInstance' /\ NeverLost'
    BY <2>1, <2>2, <2>4 DEF OldIsInstance, NeverLost
  <2>7. OneEach'
    BY <2>2, <2>5, InstancesFinite DEF OneEach, TypeOK
  <2> QED BY <2>3, <2>6, <2>7
<1>4. CASE ClearOld
  <2>1. /\ pc = "clear" /\ status' = [status EXCEPT ![old] = "free"] /\ pc' \in {"idle", "loop"}
        /\ stray' = [stray EXCEPT ![old] = FALSE] /\ todo' = todo \ {old} /\ old' = None
        /\ UNCHANGED interrupts
    BY <1>4 DEF ClearOld, Rest
  <2>2. TypeOK'
    BY <2>1 DEF TypeOK
  <2>3. Instances' = Instances \ {old} /\ old \in Instances
    BY <2>1 DEF Instances, OldIsInstance, TypeOK
  <2>4. Cardinality(Instances') = Cardinality(Instances) - 1
    BY <2>3, InstancesFinite, FS_RemoveElement
  <2>5. OldIsInstance' /\ NeverLost'
    BY <2>1, <2>3 DEF OldIsInstance, NeverLost, Instances, TypeOK
  <2>6. OneEach'
    BY <2>1, <2>4, InstancesFinite DEF OneEach, TypeOK
  <2> QED BY <2>2, <2>5, <2>6
<1>5. CASE ClearFails \/ Crash
  <2>1. /\ UNCHANGED <<status, stray>> /\ pc' \in {"idle", "loop"} /\ todo' \subseteq todo
        /\ old' = None
        /\ IF pc = "clear" THEN interrupts' = interrupts + 1 /\ interrupts < MaxInterrupts
                           ELSE interrupts' = interrupts
    BY <1>5 DEF ClearFails, Crash, Rest
  <2>2. TypeOK'
    BY <2>1 DEF TypeOK
  <2>3. Instances' = Instances
    BY <2>1 DEF Instances
  <2>4. OldIsInstance' /\ NeverLost'
    BY <2>1, <2>3 DEF OldIsInstance, NeverLost, Instances
  <2>5. OneEach'
    BY <2>1, <2>3, InstancesFinite DEF OneEach, TypeOK
  <2> QED BY <2>2, <2>4, <2>5
<1>6. CASE FindCompleted \/ \E r \in Rows : CreateFails(r)
  <2>1. /\ UNCHANGED <<status, stray, old, interrupts>> /\ pc # "clear" /\ pc' \in {"idle", "loop"}
        /\ todo' \subseteq Instances
    BY <1>6 DEF FindCompleted, CreateFails, Rest, Instances, OldIsInstance
  <2>2. TypeOK'
    BY <2>1 DEF TypeOK, Instances
  <2>3. Instances' = Instances
    BY <2>1 DEF Instances
  <2> QED BY <2>1, <2>2, <2>3 DEF OldIsInstance, NeverLost, OneEach
<1>7. CASE UNCHANGED vars
  BY <1>7 DEF vars, TypeOK, OldIsInstance, NeverLost, OneEach, Instances
<1> QED BY <1>2, <1>3, <1>4, <1>5, <1>6, <1>7 DEF Next

\* CronInv is an invariant.
LEMMA AlwaysCron == Spec => []CronInv
BY InitCron, StepCron, PTL DEF Spec

\* Type correctness.
THEOREM CronTypes == Spec => []TypeOK
BY AlwaysCron, PTL DEF CronInv

\* processCronJobs creates the next instance before it takes the expression from
\* the old one, so that no crash and no failing statement ends a series.
THEOREM SeriesIsNeverLost == Spec => []NeverLost
BY AlwaysCron, PTL DEF CronInv

\* It multiplies only where the second of the two commits did not happen.
THEOREM SeriesIsOne == Spec => []OneEach
BY AlwaysCron, PTL DEF CronInv

=============================================================================
