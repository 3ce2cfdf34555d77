--------------------------- MODULE OutcomeProofs ----------------------------
(***************************************************************************)
(* What becomes of a job: outcomes and the dead letter list, the retries   *)
(* that earn a death, the counts of a batch, and the order of parents and  *)
(* children.                                                               *)
(***************************************************************************)
EXTENDS OwnershipProofs

USE JobColumns, NoneIsNoId, KindsOfJobs, WorkerConstants
    DEF dbVars, jobVars, execVars, batchVars, workerVars, rowVars, localVars,
        vars, Commit

-----------------------------------------------------------------------------
(***************************************************************************)
(* SettledStays, and DeadIsListed where the API process does not die       *)
(* inside dlqService.retry.                                                *)
(***************************************************************************)

(* A step changes the outcome of an undisturbed job by a user's retry only. *)
OutcomesKept ==
    \A j \in Jobs \ taken :
        status[j] \in Settled /\ status'[j] # status[j] =>
            RetryJob(j) \/ (DlqRequeue /\ exJob[api] = j)

(* No other step touches the status of a settled job.                      *)
LEMMA OutcomeStep ==
  Consistent /\ OwnInv /\ Next => OutcomesKept
<1>1. ASSUME Consistent, OwnInv, Next
      PROVE  OutcomesKept
  <2> USE DEF Consistent, TypeOK, DatabaseTypeOK, JobStatus, WorkersTypeOK,
              ApiTypeOK, MemoryConsistent, TablesConsistent, Exists, Live,
              Idle, OwnInv, OutcomesKept, Settled, Locking
  <2>1. ASSUME NEW w \in Workers, Register(w) PROVE OutcomesKept
    BY <1>1, <2>1 DEF Register
  <2>2. ASSUME NEW w \in Workers, Heartbeat(w) PROVE OutcomesKept
    BY <1>1, <2>2 DEF Heartbeat
  <2>3. ASSUME NEW w \in Workers, HeartbeatExpires(w) PROVE OutcomesKept
    BY <1>1, <2>3 DEF HeartbeatExpires
  <2>4. ASSUME NEW w \in Workers, Shutdown(w) PROVE OutcomesKept
    BY <1>1, <2>4 DEF Shutdown
  <2>5. ASSUME NEW w \in Workers, Exit(w) PROVE OutcomesKept
    BY <1>1, <2>5 DEF Exit
  <2>6. ASSUME NEW w \in Workers, Crash(w) PROVE OutcomesKept
    BY <1>1, <2>6 DEF Crash
  <2>6a. ASSUME NEW w \in Workers, NEW e \in Execs, FailSwallowed(w, e)
        PROVE  OutcomesKept
    BY <1>1, <2>6a DEF FailSwallowed, Settle
  <2>7. ASSUME NEW w \in Workers, NEW j \in Jobs, ClaimSelect(w, j)
       PROVE  OutcomesKept
    BY <1>1, <2>7 DEF ClaimSelect
  <2>8. ASSUME NEW w \in Workers, ClaimUpdate(w) PROVE OutcomesKept
    <3>1. cand[w] \in Jobs /\ ClaimRow(w, cand[w]) /\ Claimable(cand[w])
      BY <1>1, <2>8 DEF ClaimUpdate, ClaimRow, ClaimGrounds
    <3>2. QED
      BY <1>1, <3>1 DEF ClaimRow, Claimable
  <2>9. ASSUME NEW w \in Workers, ClaimBusy(w) PROVE OutcomesKept
    BY <1>1, <2>9 DEF ClaimBusy
  <2>10. ASSUME NEW w \in Workers, Start(w) PROVE OutcomesKept
    <3>1. /\ cand[w] \in Jobs /\ StartRow(cand[w], NextExec)
          /\ cand[w] \notin taken => status[cand[w]] = "claimed"
      BY <1>1, <2>10 DEF Start, OwnershipIntact
    <3>2. QED
      BY <1>1, <3>1 DEF StartRow
  <2>11. ASSUME NEW w \in Workers, NEW e \in Execs, Complete(w, e)
       PROVE  OutcomesKept
    <3>1. /\ exJob[e] \in Jobs /\ CompleteRow(exJob[e], e)
          /\ exJob[e] \notin taken => status[exJob[e]] = "running"
      BY <1>1, <2>11 DEF Complete, OwnershipIntact
    <3>2. QED
      BY <1>1, <3>1 DEF CompleteRow
  <2>12. ASSUME NEW w \in Workers, NEW e \in Execs, CompleteLogFails(w, e)
       PROVE  OutcomesKept
    <3>1. /\ exJob[e] \in Jobs /\ CompleteRow(exJob[e], e)
          /\ exJob[e] \notin taken => status[exJob[e]] = "running"
      BY <1>1, <2>12 DEF CompleteLogFails, OwnershipIntact
    <3>2. QED
      BY <1>1, <3>1 DEF CompleteRow
  <2>13. ASSUME NEW w \in Workers, NEW e \in Execs, FailRead(w, e)
       PROVE  OutcomesKept
    BY <1>1, <2>13 DEF FailRead, FailExecRow
  <2>14. ASSUME NEW w \in Workers, FailWrite(w) PROVE OutcomesKept
    <3> DEFINE k == exJob[cur[w]]
    <3>1. k \in Jobs /\ (k \notin taken => status[k] = "running")
      BY <1>1, <2>14 DEF FailWrite, OwnershipIntact
    <3>2. \A j \in Jobs \ {k} : status'[j] = status[j]
      BY <1>1, <2>14, <3>1 DEF FailWrite, RequeueRow, BuryRow
    <3>3. QED
      BY <1>1, <3>1, <3>2
  <2>15. ASSUME NEW j \in Jobs, NEW kind \in Kinds, NEW parents \in SUBSET Jobs,
                Create(j, kind[1], kind[2], parents)
       PROVE  OutcomesKept
    BY <1>1, <2>15 DEF Create, InsertJob, Exists
  <2>16. ASSUME NEW b \in Batches, CreateBatch(b) PROVE OutcomesKept
    BY <1>1, <2>16 DEF CreateBatch, InsertBatch, JobsOf
  <2>17. ASSUME NEW j \in Jobs, RetryJob(j) PROVE OutcomesKept
    <3>1. \A k \in Jobs \ {j} : status'[k] = status[k]
      BY <1>1, <2>17 DEF RetryJob, Reopen, RetryRow
    <3>2. QED
      BY <2>17, <3>1
  <2>18. ASSUME NEW j \in Jobs, CancelJob(j) PROVE OutcomesKept
    BY <1>1, <2>18 DEF CancelJob, CancelRow
  <2>19. ASSUME NEW j \in Jobs, NEW p \in Jobs, AddDependency(j, p)
       PROVE  OutcomesKept
    BY <1>1, <2>19 DEF AddDependency, LinkRow
  <2>20. ASSUME NEW e \in Execs, DlqMark(e) PROVE OutcomesKept
    BY <1>1, <2>20 DEF DlqMark, ResolveRow
  <2>21. ASSUME DlqRequeue PROVE OutcomesKept
    BY <1>1, <2>21 DEF DlqRequeue, Reopen, RetryRow, Exists
  <2>22. ASSUME NEW e \in Execs, DlqIgnore(e) PROVE OutcomesKept
    BY <1>1, <2>22 DEF DlqIgnore, ResolveRow
  <2>23. ASSUME ApiCrash PROVE OutcomesKept
    BY <1>1, <2>23 DEF ApiCrash
  <2>24. ASSUME Reap PROVE OutcomesKept
    BY <1>1, <2>24 DEF Reap, Orphans
  <2>25. ASSUME PromoteScheduled PROVE OutcomesKept
    BY <1>1, <2>25 DEF PromoteScheduled
  <2>26. ASSUME NEW j \in Jobs, RunAtArrives(j) PROVE OutcomesKept
    BY <1>1, <2>26 DEF RunAtArrives
  <2> HIDE DEF OutcomesKept
  <2>27. QED
    BY <1>1, <2>1, <2>2, <2>3, <2>4, <2>5, <2>6, <2>6a, <2>7, <2>8, <2>9, <2>10, <2>11,
       <2>12, <2>13, <2>14, <2>15, <2>16, <2>17, <2>18, <2>19, <2>20, <2>21,
       <2>22, <2>23, <2>24, <2>25, <2>26
       DEF Next, WorkerStep, ApiStep, Command
<1>2. QED
  BY <1>1

(* SettledStays: the outcome of an undisturbed job is final until a user   *)
(* retries it.                                                             *)
THEOREM OutcomesStay == Spec => SettledStays
<1>1. ASSUME OwnInv, [Next]_vars PROVE [OutcomesKept]_vars
  BY <1>1, OutcomeStep DEF OwnInv
<1>2. QED
  BY <1>1, Ownership, PTL DEF Spec, SettledStays, OutcomesKept

(* Without crashes of the API process every step keeps dead jobs listed.   *)
LEMMA ListedStep ==
  Consistent /\ ~ApiMayCrash /\ DeadIsListed /\ Next => DeadIsListed'
<1>1. ASSUME Consistent, ~ApiMayCrash, DeadIsListed, Next
      PROVE  DeadIsListed'
  <2> USE DEF Consistent, TypeOK, DatabaseTypeOK, JobStatus, WorkersTypeOK,
              ApiTypeOK, MemoryConsistent, TablesConsistent, Exists, Live,
              Idle, DeadIsListed
  <2>1. ASSUME NEW w \in Workers, Register(w), UNCHANGED <<api, reopened>>
       PROVE  DeadIsListed'
    BY <1>1, <2>1 DEF Register
  <2>2. ASSUME NEW w \in Workers, Heartbeat(w), UNCHANGED <<api, reopened>>
       PROVE  DeadIsListed'
    BY <1>1, <2>2 DEF Heartbeat
  <2>3. ASSUME NEW w \in Workers, HeartbeatExpires(w),
                UNCHANGED <<api, reopened>>
       PROVE  DeadIsListed'
    BY <1>1, <2>3 DEF HeartbeatExpires
  <2>4. ASSUME NEW w \in Workers, Shutdown(w), UNCHANGED <<api, reopened>>
       PROVE  DeadIsListed'
    BY <1>1, <2>4 DEF Shutdown
  <2>5. ASSUME NEW w \in Workers, Exit(w), UNCHANGED <<api, reopened>>
       PROVE  DeadIsListed'
    BY <1>1, <2>5 DEF Exit
  <2>6. ASSUME NEW w \in Workers, Crash(w), UNCHANGED <<api, reopened>>
       PROVE  DeadIsListed'
    BY <1>1, <2>6 DEF Crash
  <2>6a. ASSUME NEW w \in Workers, NEW e \in Execs, FailSwallowed(w, e),
                UNCHANGED <<api, reopened>>
        PROVE  DeadIsListed'
    BY <1>1, <2>6a DEF FailSwallowed, Settle
  <2>7. ASSUME NEW w \in Workers, NEW j \in Jobs, ClaimSelect(w, j),
                UNCHANGED <<api, reopened>>
       PROVE  DeadIsListed'
    BY <1>1, <2>7 DEF ClaimSelect
  <2>8. ASSUME NEW w \in Workers, ClaimUpdate(w),
                UNCHANGED <<api, reopened>>
       PROVE  DeadIsListed'
    BY <1>1, <2>8 DEF ClaimUpdate, ClaimRow
  <2>9. ASSUME NEW w \in Workers, ClaimBusy(w), UNCHANGED <<api, reopened>>
       PROVE  DeadIsListed'
    BY <1>1, <2>9 DEF ClaimBusy
  <2>10. ASSUME NEW w \in Workers, Start(w), UNCHANGED <<api, reopened>>
       PROVE  DeadIsListed'
    <3>1. /\ StartRow(cand[w], NextExec) /\ cand[w] \in Jobs
          /\ NextExec \in Execs /\ UNCHANGED api
      BY <1>1, <2>10 DEF Start
    <3>2. exJob[NextExec] = None
      BY <1>1, <3>1 DEF StartRow
    <3>3. QED
      BY <1>1, <3>1, <3>2 DEF StartRow
  <2>11. ASSUME NEW w \in Workers, NEW e \in Execs, Complete(w, e),
                UNCHANGED <<api, reopened>>
       PROVE  DeadIsListed'
    BY <1>1, <2>11 DEF Complete, CompleteRow
  <2>12. ASSUME NEW w \in Workers, NEW e \in Execs, CompleteLogFails(w, e),
                UNCHANGED <<api, reopened>>
       PROVE  DeadIsListed'
    BY <1>1, <2>12 DEF CompleteLogFails, CompleteRow
  <2>13. ASSUME NEW w \in Workers, NEW e \in Execs, FailRead(w, e),
                UNCHANGED <<api, reopened>>
       PROVE  DeadIsListed'
    BY <1>1, <2>13 DEF FailRead, FailExecRow
  <2>14. ASSUME NEW w \in Workers, FailWrite(w), UNCHANGED <<api, reopened>>
       PROVE  DeadIsListed'
    <3>1. /\ exJob[cur[w]] \in Jobs /\ cur[w] \in Execs
          /\ pc[w] = "failing" /\ dlq[cur[w]] = "none"
      BY <1>1, <2>14 DEF FailWrite
    <3>2. CASE RequeueRow(exJob[cur[w]], seen[w] + 1)
      BY <1>1, <2>14, <3>1, <3>2 DEF FailWrite, RequeueRow
    <3>3. CASE BuryRow(exJob[cur[w]], cur[w], seen[w] + 1)
      BY <1>1, <2>14, <3>1, <3>3 DEF FailWrite, BuryRow
    <3>4. QED
      BY <2>14, <3>2, <3>3 DEF FailWrite
  <2>15. ASSUME NEW j \in Jobs, NEW kind \in Kinds, NEW parents \in SUBSET Jobs,
                Create(j, kind[1], kind[2], parents)
       PROVE  DeadIsListed'
    <3>1. kind[1] # "dead" /\ status' = [status EXCEPT ![j] = kind[1]]
          /\ UNCHANGED <<exJob, dlq, api>>
      BY <2>15 DEF Create, InsertJob
    <3>2. QED
      BY <1>1, <3>1
  <2>16. ASSUME NEW b \in Batches, CreateBatch(b) PROVE DeadIsListed'
    BY <1>1, <2>16 DEF CreateBatch, InsertBatch, JobsOf
  <2>17. ASSUME NEW j \in Jobs, RetryJob(j) PROVE DeadIsListed'
    BY <1>1, <2>17 DEF RetryJob, Reopen, RetryRow, Exists
  <2>18. ASSUME NEW j \in Jobs, CancelJob(j) PROVE DeadIsListed'
    BY <1>1, <2>18 DEF CancelJob, CancelRow
  <2>19. ASSUME NEW j \in Jobs, NEW p \in Jobs, AddDependency(j, p)
       PROVE  DeadIsListed'
    BY <1>1, <2>19 DEF AddDependency, LinkRow
  <2>20. ASSUME NEW e \in Execs, DlqMark(e) PROVE DeadIsListed'
    BY <1>1, <2>20 DEF DlqMark, ResolveRow
  <2>21. ASSUME DlqRequeue PROVE DeadIsListed'
    BY <1>1, <2>21 DEF DlqRequeue, Reopen, RetryRow, Exists
  <2>22. ASSUME NEW e \in Execs, DlqIgnore(e) PROVE DeadIsListed'
    BY <1>1, <2>22 DEF DlqIgnore, ResolveRow
  <2>23. ASSUME ApiCrash PROVE DeadIsListed'
    BY <1>1, <2>23 DEF ApiCrash
  <2>24. ASSUME Reap PROVE DeadIsListed'
    BY <1>1, <2>24 DEF Reap, Orphans
  <2>25. ASSUME PromoteScheduled PROVE DeadIsListed'
    BY <1>1, <2>25 DEF PromoteScheduled
  <2>26. ASSUME NEW j \in Jobs, RunAtArrives(j) PROVE DeadIsListed'
    BY <1>1, <2>26 DEF RunAtArrives
  <2> HIDE DEF DeadIsListed
  <2>27. QED
    BY <1>1, <2>1, <2>2, <2>3, <2>4, <2>5, <2>6, <2>6a, <2>7, <2>8, <2>9, <2>10, <2>11,
       <2>12, <2>13, <2>14, <2>15, <2>16, <2>17, <2>18, <2>19, <2>20, <2>21,
       <2>22, <2>23, <2>24, <2>25, <2>26
       DEF Next, WorkerStep, ApiStep, Command
<1>2. QED
  BY <1>1

(* DeadIsListed: unless the API process dies between the two statements of *)
(* dlqService.retry, a dead job always has an entry that is open or was    *)
(* ignored.                                                                *)
THEOREM DeadStayListed ==
  ASSUME ~ApiMayCrash PROVE Spec => []DeadIsListed
<1>1. Init => DeadIsListed
  BY DEF Init, DatabaseInit, DeadIsListed
<1>2. ASSUME Consistent, DeadIsListed, [Next]_vars
      PROVE  DeadIsListed'
  <2>1. CASE UNCHANGED vars
    BY <1>2, <2>1 DEF DeadIsListed
  <2>2. CASE Next
    BY <1>2, <2>2, ListedStep
  <2>3. QED
    BY <1>2, <2>1, <2>2
<1>3. QED
  BY <1>1, <1>2, Consistency, PTL DEF Spec

-----------------------------------------------------------------------------
(***************************************************************************)
(* NoEarlyDeath: nobody is charged with more failures than there were.     *)
(* failJob charges the count it has read before its first commit; that the *)
(* failure it then recorded is still there when it charges is the missing  *)
(* part of the inductive invariant, ChargesBacked.                         *)
(***************************************************************************)

Failures == [j \in Jobs |-> Cardinality(FailedRuns(j))]

ChargesBacked ==
    /\ \A j \in Jobs :
          /\ retryCount[j] <= Failures[j]
          /\ status[j] = "dead" => 1 <= Failures[j] /\ MaxRetries[j] <= Failures[j]
    /\ \A w \in Workers :
          pc[w] = "failing" => seen[w] + 1 <= Failures[exJob[cur[w]]]

FailuresStay == \A j \in Jobs : FailedRuns(j) \subseteq FailedRuns(j)'

(* An execution that has failed stays failed.                              *)
LEMMA FailureStep ==
  Consistent /\ Next => FailuresStay
<1>1. ASSUME Consistent, Next
      PROVE  FailuresStay
  <2> USE DEF Consistent, TypeOK, DatabaseTypeOK, JobStatus, WorkersTypeOK,
              ApiTypeOK, MemoryConsistent, TablesConsistent, Exists, Live,
              Idle, FailuresStay, FailedRuns
  <2>1. ASSUME NEW w \in Workers, Register(w) PROVE FailuresStay
    BY <1>1, <2>1 DEF Register
  <2>2. ASSUME NEW w \in Workers, Heartbeat(w) PROVE FailuresStay
    BY <1>1, <2>2 DEF Heartbeat
  <2>3. ASSUME NEW w \in Workers, HeartbeatExpires(w) PROVE FailuresStay
    BY <1>1, <2>3 DEF HeartbeatExpires
  <2>4. ASSUME NEW w \in Workers, Shutdown(w) PROVE FailuresStay
    BY <1>1, <2>4 DEF Shutdown
  <2>5. ASSUME NEW w \in Workers, Exit(w) PROVE FailuresStay
    BY <1>1, <2>5 DEF Exit
  <2>6. ASSUME NEW w \in Workers, Crash(w) PROVE FailuresStay
    BY <1>1, <2>6 DEF Crash, LoseMemory
  <2>6a. ASSUME NEW w \in Workers, NEW e \in Execs, FailSwallowed(w, e)
        PROVE  FailuresStay
    BY <1>1, <2>6a DEF FailSwallowed, Settle
  <2>7. ASSUME NEW w \in Workers, NEW j \in Jobs, ClaimSelect(w, j)
       PROVE  FailuresStay
    BY <1>1, <2>7 DEF ClaimSelect
  <2>8. ASSUME NEW w \in Workers, ClaimUpdate(w) PROVE FailuresStay
    BY <1>1, <2>8 DEF ClaimUpdate, ClaimRow
  <2>9. ASSUME NEW w \in Workers, ClaimBusy(w) PROVE FailuresStay
    BY <1>1, <2>9 DEF ClaimBusy
  <2>10. ASSUME NEW w \in Workers, Start(w) PROVE FailuresStay
    <3>1. exStatus[NextExec] = "none" /\ StartRow(cand[w], NextExec)
      BY <1>1, <2>10 DEF Start, StartRow
    <3>2. QED
      BY <1>1, <3>1 DEF StartRow
  <2>11. ASSUME NEW w \in Workers, NEW e \in Execs, Complete(w, e)
       PROVE  FailuresStay
    BY <1>1, <2>11 DEF Complete, CompleteRow
  <2>12. ASSUME NEW w \in Workers, NEW e \in Execs, CompleteLogFails(w, e)
       PROVE  FailuresStay
    BY <1>1, <2>12 DEF CompleteLogFails, CompleteRow
  <2>13. ASSUME NEW w \in Workers, NEW e \in Execs, FailRead(w, e)
       PROVE  FailuresStay
    BY <1>1, <2>13 DEF FailRead, FailExecRow
  <2>14. ASSUME NEW w \in Workers, FailWrite(w) PROVE FailuresStay
    BY <1>1, <2>14 DEF FailWrite, RequeueRow, BuryRow
  <2>15. ASSUME NEW j \in Jobs, NEW kind \in Kinds, NEW parents \in SUBSET Jobs,
                Create(j, kind[1], kind[2], parents)
       PROVE  FailuresStay
    BY <1>1, <2>15 DEF Create, InsertJob, Exists
  <2>16. ASSUME NEW b \in Batches, CreateBatch(b) PROVE FailuresStay
    BY <1>1, <2>16 DEF CreateBatch, InsertBatch, JobsOf
  <2>17. ASSUME NEW j \in Jobs, RetryJob(j) PROVE FailuresStay
    BY <1>1, <2>17 DEF RetryJob, Reopen, RetryRow, Exists
  <2>18. ASSUME NEW j \in Jobs, CancelJob(j) PROVE FailuresStay
    BY <1>1, <2>18 DEF CancelJob, CancelRow
  <2>19. ASSUME NEW j \in Jobs, NEW p \in Jobs, AddDependency(j, p)
       PROVE  FailuresStay
    BY <1>1, <2>19 DEF AddDependency, LinkRow
  <2>20. ASSUME NEW e \in Execs, DlqMark(e) PROVE FailuresStay
    BY <1>1, <2>20 DEF DlqMark, ResolveRow
  <2>21. ASSUME DlqRequeue PROVE FailuresStay
    BY <1>1, <2>21 DEF DlqRequeue, Reopen, RetryRow, Exists
  <2>22. ASSUME NEW e \in Execs, DlqIgnore(e) PROVE FailuresStay
    BY <1>1, <2>22 DEF DlqIgnore, ResolveRow
  <2>23. ASSUME ApiCrash PROVE FailuresStay
    BY <1>1, <2>23 DEF ApiCrash
  <2>24. ASSUME Reap PROVE FailuresStay
    BY <1>1, <2>24 DEF Reap
  <2>25. ASSUME PromoteScheduled PROVE FailuresStay
    BY <1>1, <2>25 DEF PromoteScheduled
  <2>26. ASSUME NEW j \in Jobs, RunAtArrives(j) PROVE FailuresStay
    BY <1>1, <2>26 DEF RunAtArrives
  <2> HIDE DEF FailuresStay
  <2>27. QED
    BY <1>1, <2>1, <2>2, <2>3, <2>4, <2>5, <2>6, <2>6a, <2>7, <2>8, <2>9, <2>10, <2>11,
       <2>12, <2>13, <2>14, <2>15, <2>16, <2>17, <2>18, <2>19, <2>20, <2>21,
       <2>22, <2>23, <2>24, <2>25, <2>26
       DEF Next, WorkerStep, ApiStep, Command
<1>2. QED
  BY <1>1

(* Failures are counted, and counted upwards.                              *)
LEMMA FailuresCount ==
  ASSUME Consistent, Next
  PROVE  \A j \in Jobs : /\ Failures[j] \in Nat /\ Failures'[j] \in Nat
                         /\ Failures[j] <= Failures'[j]
<1> TAKE j \in Jobs
<1>1. FailedRuns(j) \subseteq FailedRuns(j)'
  BY FailureStep DEF FailuresStay
<1>2. IsFiniteSet(FailedRuns(j)) /\ IsFiniteSet(FailedRuns(j)')
  BY FiniteTables, FS_Subset DEF FailedRuns
<1>3. /\ Cardinality(FailedRuns(j)) \in Nat
      /\ Cardinality(FailedRuns(j)') \in Nat
      /\ Cardinality(FailedRuns(j)) <= Cardinality(FailedRuns(j)')
  BY <1>1, <1>2, FS_Subset, FS_CardinalityType
<1>4. Failures[j] = Cardinality(FailedRuns(j))
  BY DEF Failures
<1>5. Failures'[j] = Cardinality(FailedRuns(j)')
  BY DEF Failures
<1>6. QED
  BY <1>3, <1>4, <1>5

(* The first commit of failJob adds one to the failures of its job.        *)
LEMMA FailureAdds ==
  ASSUME Consistent, NEW w \in Workers, NEW e \in Execs, FailRead(w, e)
  PROVE  /\ exJob[e] \in Jobs
         /\ Failures'[exJob[e]] = Failures[exJob[e]] + 1
<1> DEFINE k == exJob[e]
<1>1. k \in Jobs /\ exStatus[e] # "failed" /\ exStatus' = [exStatus EXCEPT ![e] = "failed"]
      /\ exJob' = exJob
  BY DEF FailRead, FailExecRow, Consistent, TypeOK, DatabaseTypeOK,
     WorkersTypeOK, MemoryConsistent, Idle
<1>2. e \notin FailedRuns(k)
  BY <1>1 DEF FailedRuns
<1>3. FailedRuns(k)' = FailedRuns(k) \cup {e}
  BY <1>1 DEF FailedRuns, Consistent, TypeOK, DatabaseTypeOK
<1>4. IsFiniteSet(FailedRuns(k))
  BY FiniteTables, FS_Subset DEF FailedRuns
<1>5. Cardinality(FailedRuns(k) \cup {e}) = Cardinality(FailedRuns(k)) + 1
  BY <1>2, <1>4, FS_AddElement
<1>6. Failures[k] = Cardinality(FailedRuns(k))
  BY <1>1 DEF Failures
<1>7. Failures'[k] = Cardinality(FailedRuns(k)')
  BY <1>1 DEF Failures
<1>8. QED
  BY <1>1, <1>3, <1>5, <1>6, <1>7

(* Every step charges at most what was counted.                             *)
LEMMA ChargeStep ==
  Consistent /\ ChargesBacked /\ Next => ChargesBacked'
<1>1. ASSUME Consistent, ChargesBacked, Next
      PROVE  ChargesBacked'
  <2>0. \A j \in Jobs : /\ Failures[j] \in Nat /\ Failures'[j] \in Nat
                        /\ Failures[j] <= Failures'[j]
    BY <1>1, FailuresCount
  <2>00. /\ status \in [Jobs -> JobStatus] /\ retryCount \in [Jobs -> Nat]
         /\ pc \in [Workers -> {"idle", "selected", "claimed", "caught", "failing"}]
         /\ cur \in [Workers -> Execs \cup {None}]
         /\ seen \in [Workers -> Nat] /\ exJob \in [Execs -> Jobs \cup {None}]
         /\ \A w \in Workers : pc[w] = "failing" =>
               cur[w] \in Execs /\ exJob[cur[w]] \in Jobs
    BY <1>1 DEF Consistent, TypeOK, DatabaseTypeOK, WorkersTypeOK,
       MemoryConsistent
  <2> USE DEF ChargesBacked
  <2>1. ASSUME NEW w \in Workers, Register(w) PROVE ChargesBacked'
    BY <1>1, <2>1, <2>0, <2>00 DEF Register
  <2>2. ASSUME NEW w \in Workers, Heartbeat(w) PROVE ChargesBacked'
    BY <1>1, <2>2, <2>0, <2>00 DEF Heartbeat
  <2>3. ASSUME NEW w \in Workers, HeartbeatExpires(w) PROVE ChargesBacked'
    BY <1>1, <2>3, <2>0, <2>00 DEF HeartbeatExpires
  <2>4. ASSUME NEW w \in Workers, Shutdown(w) PROVE ChargesBacked'
    BY <1>1, <2>4, <2>0, <2>00 DEF Shutdown
  <2>5. ASSUME NEW w \in Workers, Exit(w) PROVE ChargesBacked'
    BY <1>1, <2>5, <2>0, <2>00 DEF Exit, LoseMemory
  <2>6. ASSUME NEW w \in Workers, Crash(w) PROVE ChargesBacked'
    BY <1>1, <2>6, <2>0, <2>00 DEF Crash, LoseMemory
  <2>6a. ASSUME NEW w \in Workers, NEW e \in Execs, FailSwallowed(w, e)
        PROVE  ChargesBacked'
    BY <1>1, <2>6a, <2>0, <2>00 DEF FailSwallowed, Settle
  <2>7. ASSUME NEW w \in Workers, NEW j \in Jobs, ClaimSelect(w, j)
       PROVE  ChargesBacked'
    BY <1>1, <2>7, <2>0, <2>00 DEF ClaimSelect
  <2>8. ASSUME NEW w \in Workers, ClaimUpdate(w) PROVE ChargesBacked'
    BY <1>1, <2>8, <2>0, <2>00 DEF ClaimUpdate, ClaimRow
  <2>9. ASSUME NEW w \in Workers, ClaimBusy(w) PROVE ChargesBacked'
    BY <1>1, <2>9, <2>0, <2>00 DEF ClaimBusy
  <2>10. ASSUME NEW w \in Workers, Start(w) PROVE ChargesBacked'
    <3>1. /\ StartRow(cand[w], NextExec) /\ cand[w] \in Jobs
          /\ NextExec \in Execs
          /\ pc' = [pc EXCEPT ![w] = "idle"] /\ UNCHANGED <<cur, seen>>
      BY <1>1, <2>10 DEF Start, Consistent, MemoryConsistent
    <3>2. exJob[NextExec] = None
      BY <1>1, <3>1 DEF StartRow, Consistent, TablesConsistent
    <3>3. QED
      BY <1>1, <2>0, <2>00, <3>1, <3>2 DEF StartRow
  <2>11. ASSUME NEW w \in Workers, NEW e \in Execs, Complete(w, e)
       PROVE  ChargesBacked'
    BY <1>1, <2>11, <2>0, <2>00 DEF Complete, CompleteRow
  <2>12. ASSUME NEW w \in Workers, NEW e \in Execs, CompleteLogFails(w, e)
       PROVE  ChargesBacked'
    BY <1>1, <2>12, <2>0, <2>00 DEF CompleteLogFails, CompleteRow
  <2>13. ASSUME NEW w \in Workers, NEW e \in Execs, FailRead(w, e)
       PROVE  ChargesBacked'
    <3>1. /\ exJob[e] \in Jobs
          /\ Failures'[exJob[e]] = Failures[exJob[e]] + 1
      BY <1>1, <2>13, FailureAdds
    <3>2. /\ pc' = [pc EXCEPT ![w] = "failing"]
          /\ cur' = [cur EXCEPT ![w] = e]
          /\ seen' = [seen EXCEPT ![w] = retryCount[exJob[e]]]
          /\ UNCHANGED <<exJob, status, retryCount>>
      BY <2>13 DEF FailRead, FailExecRow
    <3>3. QED
      BY <1>1, <2>0, <2>00, <3>1, <3>2
  <2>14. ASSUME NEW w \in Workers, FailWrite(w) PROVE ChargesBacked'
    <3>1. /\ exJob[cur[w]] \in Jobs /\ pc[w] = "failing"
          /\ seen[w] + 1 \in Nat /\ seen[w] + 1 <= Failures[exJob[cur[w]]]
          /\ pc' = [pc EXCEPT ![w] = "idle"]
          /\ cur' = [cur EXCEPT ![w] = None]
          /\ seen' = [seen EXCEPT ![w] = 0]
      BY <1>1, <2>14, <2>00 DEF FailWrite
    <3>2. CASE RequeueRow(exJob[cur[w]], seen[w] + 1)
      BY <1>1, <2>0, <2>00, <3>1, <3>2 DEF RequeueRow
    <3>3. CASE BuryRow(exJob[cur[w]], cur[w], seen[w] + 1)
      BY <1>1, <2>0, <2>00, <3>1, <3>3 DEF BuryRow
    <3>4. QED
      BY <2>14, <3>2, <3>3 DEF FailWrite
  <2>15. ASSUME NEW j \in Jobs, NEW kind \in Kinds, NEW parents \in SUBSET Jobs,
                Create(j, kind[1], kind[2], parents)
       PROVE  ChargesBacked'
    <3>1. kind[1] # "dead" /\ status' = [status EXCEPT ![j] = kind[1]]
          /\ UNCHANGED <<retryCount, exJob, pc, cur, seen>>
      BY <2>15 DEF Create, InsertJob
    <3>2. QED
      BY <1>1, <2>0, <2>00, <3>1
  <2>16. ASSUME NEW b \in Batches, CreateBatch(b) PROVE ChargesBacked'
    BY <1>1, <2>16, <2>0, <2>00 DEF CreateBatch, InsertBatch, JobsOf
  <2>17. ASSUME NEW j \in Jobs, RetryJob(j) PROVE ChargesBacked'
    BY <1>1, <2>17, <2>0, <2>00 DEF RetryJob, Reopen, RetryRow, Exists
  <2>18. ASSUME NEW j \in Jobs, CancelJob(j) PROVE ChargesBacked'
    BY <1>1, <2>18, <2>0, <2>00 DEF CancelJob, CancelRow
  <2>19. ASSUME NEW j \in Jobs, NEW p \in Jobs, AddDependency(j, p)
       PROVE  ChargesBacked'
    BY <1>1, <2>19, <2>0, <2>00 DEF AddDependency, LinkRow
  <2>20. ASSUME NEW e \in Execs, DlqMark(e) PROVE ChargesBacked'
    BY <1>1, <2>20, <2>0, <2>00 DEF DlqMark, ResolveRow
  <2>21. ASSUME DlqRequeue PROVE ChargesBacked'
    BY <1>1, <2>21, <2>0, <2>00 DEF DlqRequeue, Reopen, RetryRow, Exists
  <2>22. ASSUME NEW e \in Execs, DlqIgnore(e) PROVE ChargesBacked'
    BY <1>1, <2>22, <2>0, <2>00 DEF DlqIgnore, ResolveRow
  <2>23. ASSUME ApiCrash PROVE ChargesBacked'
    BY <1>1, <2>23, <2>0, <2>00 DEF ApiCrash
  <2>24. ASSUME Reap PROVE ChargesBacked'
    BY <1>1, <2>24, <2>0, <2>00 DEF Reap, Orphans
  <2>25. ASSUME PromoteScheduled PROVE ChargesBacked'
    BY <1>1, <2>25, <2>0, <2>00 DEF PromoteScheduled
  <2>26. ASSUME NEW j \in Jobs, RunAtArrives(j) PROVE ChargesBacked'
    BY <1>1, <2>26, <2>0, <2>00 DEF RunAtArrives
  <2> HIDE DEF ChargesBacked
  <2>27. QED
    BY <1>1, <2>1, <2>2, <2>3, <2>4, <2>5, <2>6, <2>6a, <2>7, <2>8, <2>9, <2>10, <2>11,
       <2>12, <2>13, <2>14, <2>15, <2>16, <2>17, <2>18, <2>19, <2>20, <2>21,
       <2>22, <2>23, <2>24, <2>25, <2>26
       DEF Next, WorkerStep, ApiStep, Command
<1>2. QED
  BY <1>1

(* ChargesBacked is an invariant.                                          *)
LEMMA Charges == Spec => []ChargesBacked
<1>1. Init => ChargesBacked
  <2>1. ASSUME Init PROVE \A j \in Jobs : Failures[j] = 0
    <3>1. \A j \in Jobs : FailedRuns(j) = {}
      BY <2>1 DEF Init, DatabaseInit, FailedRuns
    <3>2. QED
      BY <3>1, FS_EmptySet DEF Failures
  <2>2. QED
    BY <2>1 DEF Init, DatabaseInit, WorkersInit, ChargesBacked
<1>2. ASSUME Consistent, ChargesBacked, [Next]_vars
      PROVE  ChargesBacked'
  <2>1. CASE Next
    BY <1>2, <2>1, ChargeStep
  <2>2. CASE UNCHANGED vars
    BY <1>2, <2>2 DEF ChargesBacked, Failures, FailedRuns
  <2>3. QED
    BY <1>2, <2>1, <2>2
<1>3. QED
  BY <1>1, <1>2, Consistency, PTL DEF Spec

(* NoEarlyDeath: the retry count and the verdict "dead" never run ahead of *)
(* the executions that have failed.                                        *)
THEOREM DeathIsEarned == Spec => []NoEarlyDeath
<1>1. ASSUME Consistent, ChargesBacked PROVE NoEarlyDeath
  <2> SUFFICES ASSUME NEW j \in Jobs
               PROVE  /\ retryCount[j] <= Cardinality(FailedRuns(j))
                      /\ status[j] = "dead" =>
                            /\ FailedRuns(j) # {}
                            /\ Cardinality(FailedRuns(j)) >= MaxRetries[j]
    BY DEF NoEarlyDeath
  <2>1. Failures[j] = Cardinality(FailedRuns(j))
    BY DEF Failures
  <2>2. IsFiniteSet(FailedRuns(j))
    BY FiniteTables, FS_Subset DEF FailedRuns
  <2>3. Cardinality(FailedRuns(j)) \in Nat
    BY <2>2, FS_CardinalityType
  <2>4. FailedRuns(j) = {} => Cardinality(FailedRuns(j)) = 0
    BY FS_EmptySet
  <2>5. QED
    BY <1>1, <2>1, <2>3, <2>4 DEF ChargesBacked
<1>2. QED
  BY <1>1, Consistency, Charges, PTL

-----------------------------------------------------------------------------
(***************************************************************************)
(* BatchExact: the counters of a batch nobody has interfered with are the  *)
(* numbers of its completed and dead jobs. The invariant BatchesCounted    *)
(* says so of every batch; each step inserts the batch, moves one job and  *)
(* one counter together, or does nothing to either.                        *)
(***************************************************************************)

(* What was disturbed or reopened stays so.                                *)
LEMMA HistoryGrows ==
  ASSUME Next PROVE taken \subseteq taken' /\ reopened \subseteq reopened'
<1>1. ASSUME NEW w \in Workers, WorkerStep(w)
      PROVE  taken \subseteq taken' /\ reopened \subseteq reopened'
  BY <1>1 DEF WorkerStep, Register, Heartbeat, HeartbeatExpires, Shutdown, Exit,
     Crash, ClaimSelect, ClaimUpdate, ClaimBusy, Start, Complete,
     CompleteLogFails, FailRead, FailWrite, FailSwallowed
<1>2. ASSUME ApiStep \/ \E j \in Jobs : RunAtArrives(j)
      PROVE  taken \subseteq taken' /\ reopened \subseteq reopened'
  BY <1>2 DEF ApiStep, Command, Create, CreateBatch, RetryJob, CancelJob,
     AddDependency, DlqMark, DlqRequeue, DlqIgnore, Reopen, ApiCrash, Reap,
     PromoteScheduled, RunAtArrives, TakeFromHands
<1>3. QED
  BY <1>1, <1>2 DEF Next

Done(b) == {j \in JobsOf(b) : status[j] = "completed"}
Dead(b) == {j \in JobsOf(b) : status[j] = "dead"}
LeftAlone(b) == JobsOf(b) \cap (taken \cup reopened) = {}

(* What a step may do to a batch left alone: insert it, count one more of  *)
(* its jobs, or nothing.                                                   *)
BatchInserted(b) ==
    /\ bStatus[b] = "absent" /\ bStatus'[b] = "pending"
    /\ bDone'[b] = bDone[b] /\ bFailed'[b] = bFailed[b]
    /\ JobsOf(b) # {} /\ Done(b)' = {} /\ Dead(b)' = {}
JobCompleted(b, j) ==
    /\ j \in JobsOf(b) \ (Done(b) \cup Dead(b))
    /\ bStatus[b] # "absent"
    /\ Done(b)' = Done(b) \cup {j} /\ Dead(b)' = Dead(b)
    /\ bDone'[b] = bDone[b] + 1 /\ bFailed'[b] = bFailed[b]
    /\ bStatus'[b] = BatchVerdict(b, bDone[b] + 1, bFailed[b])
JobBuried(b, j) ==
    /\ j \in JobsOf(b) \ (Done(b) \cup Dead(b))
    /\ bStatus[b] # "absent"
    /\ Done(b)' = Done(b) /\ Dead(b)' = Dead(b) \cup {j}
    /\ bDone'[b] = bDone[b] /\ bFailed'[b] = bFailed[b] + 1
    /\ bStatus'[b] = BatchVerdict(b, bDone[b], bFailed[b] + 1)
BatchKeeps(b) ==
    /\ bDone'[b] = bDone[b] /\ bFailed'[b] = bFailed[b]
    /\ bStatus'[b] = bStatus[b]
    /\ Done(b)' = Done(b) /\ Dead(b)' = Dead(b)
BatchMoves ==
    \A b \in Batches : LeftAlone(b)' =>
        \/ BatchInserted(b)
        \/ \E j \in Jobs : JobCompleted(b, j) \/ JobBuried(b, j)
        \/ BatchKeeps(b)

(* Every step treats the batches left alone in one of these ways.          *)
LEMMA BatchStep ==
  Consistent /\ OwnInv /\ Next => BatchMoves
<1>1. ASSUME Consistent, OwnInv, Next
      PROVE  BatchMoves
  <2> USE DEF Consistent, TypeOK, DatabaseTypeOK, JobStatus, WorkersTypeOK,
              ApiTypeOK, MemoryConsistent, TablesConsistent, Exists, Live,
              Idle, OwnInv, BatchMoves, LeftAlone, BatchKeeps, Done, Dead,
              JobsOf, Locking
  <2>1. ASSUME NEW w \in Workers, Register(w) PROVE BatchMoves
    BY <1>1, <2>1 DEF Register
  <2>2. ASSUME NEW w \in Workers, Heartbeat(w) PROVE BatchMoves
    BY <1>1, <2>2 DEF Heartbeat
  <2>3. ASSUME NEW w \in Workers, HeartbeatExpires(w) PROVE BatchMoves
    BY <1>1, <2>3 DEF HeartbeatExpires
  <2>4. ASSUME NEW w \in Workers, Shutdown(w) PROVE BatchMoves
    BY <1>1, <2>4 DEF Shutdown
  <2>5. ASSUME NEW w \in Workers, Exit(w) PROVE BatchMoves
    BY <1>1, <2>5 DEF Exit
  <2>6. ASSUME NEW w \in Workers, Crash(w) PROVE BatchMoves
    BY <1>1, <2>6 DEF Crash
  <2>6a. ASSUME NEW w \in Workers, NEW e \in Execs, FailSwallowed(w, e)
        PROVE  BatchMoves
    BY <1>1, <2>6a DEF FailSwallowed, Settle
  <2>7. ASSUME NEW w \in Workers, NEW j \in Jobs, ClaimSelect(w, j)
        PROVE  BatchMoves
    BY <1>1, <2>7 DEF ClaimSelect
  <2>8. ASSUME NEW w \in Workers, ClaimUpdate(w) PROVE BatchMoves
    <3>1. /\ cand[w] \in Jobs /\ ClaimRow(w, cand[w]) /\ Claimable(cand[w])
          /\ taken' = taken
      BY <1>1, <2>8 DEF ClaimUpdate, ClaimRow, ClaimGrounds
    <3>2. QED
      BY <1>1, <3>1 DEF ClaimRow, Claimable
  <2>9. ASSUME NEW w \in Workers, ClaimBusy(w) PROVE BatchMoves
    BY <1>1, <2>9 DEF ClaimBusy
  <2>10. ASSUME NEW w \in Workers, Start(w) PROVE BatchMoves
    <3>1. /\ cand[w] \in Jobs /\ StartRow(cand[w], NextExec)
          /\ cand[w] \notin taken => status[cand[w]] = "claimed"
      BY <1>1, <2>10 DEF Start, OwnershipIntact
    <3>2. taken' = taken
      BY <2>10 DEF Start
    <3>3. QED
      BY <1>1, <3>1, <3>2 DEF StartRow
  <2>11. ASSUME NEW w \in Workers, NEW e \in Execs, Complete(w, e)
        PROVE  BatchMoves
    <3> DEFINE k == exJob[e]
    <3>1. /\ k \in Jobs /\ CompleteRow(k, e) /\ taken' = taken
          /\ k \notin taken => status[k] = "running"
      BY <1>1, <2>11 DEF Complete, OwnershipIntact
    <3> HIDE DEF k
    <3>2. \A b \in Batches : BatchOf[k] # b =>
             bDone'[b] = bDone[b] /\ bFailed'[b] = bFailed[b] /\ bStatus'[b] = bStatus[b]
      BY <1>1, <3>1 DEF CompleteRow, CountInBatch
    <3>3. BatchOf[k] \in Batches =>
             /\ bDone'[BatchOf[k]] = bDone[BatchOf[k]] + 1
             /\ bFailed'[BatchOf[k]] = bFailed[BatchOf[k]]
             /\ bStatus'[BatchOf[k]] = BatchVerdict(BatchOf[k],
                    bDone[BatchOf[k]] + 1, bFailed[BatchOf[k]])
      BY <1>1, <3>1 DEF CompleteRow, CountInBatch
    <3>4. status' = [status EXCEPT ![k] = "completed"]
      BY <3>1 DEF CompleteRow
    <3>5. ASSUME NEW b \in Batches, LeftAlone(b)', BatchOf[k] = b
          PROVE  JobCompleted(b, k)
      <4> HIDE DEF MemoryConsistent, OwnInv, BatchMoves
      <4>1. QED
        BY <1>1, <3>1, <3>3, <3>4, <3>5 DEF JobCompleted
    <3>6. ASSUME NEW b \in Batches, BatchOf[k] # b
          PROVE  BatchKeeps(b)
      BY <1>1, <3>1, <3>2, <3>4, <3>6
    <3> HIDE DEF Done, Dead, JobsOf, LeftAlone, BatchKeeps
    <3>7. QED
      BY <3>1, <3>5, <3>6
  <2>12. ASSUME NEW w \in Workers, NEW e \in Execs, CompleteLogFails(w, e)
        PROVE  BatchMoves
    <3> DEFINE k == exJob[e]
    <3>1. k \in Jobs /\ CompleteRow(k, e) /\ taken' = taken \cup {k}
      BY <1>1, <2>12 DEF CompleteLogFails
    <3> HIDE DEF k
    <3>2. \A b \in Batches : BatchOf[k] # b =>
             bDone'[b] = bDone[b] /\ bFailed'[b] = bFailed[b] /\ bStatus'[b] = bStatus[b]
      BY <1>1, <3>1 DEF CompleteRow, CountInBatch
    <3>3. status' = [status EXCEPT ![k] = "completed"]
      BY <3>1 DEF CompleteRow
    <3>4. QED
      BY <1>1, <3>1, <3>2, <3>3
  <2>13. ASSUME NEW w \in Workers, NEW e \in Execs, FailRead(w, e)
        PROVE  BatchMoves
    BY <1>1, <2>13 DEF FailRead, FailExecRow
  <2>14. ASSUME NEW w \in Workers, FailWrite(w) PROVE BatchMoves
    <3> DEFINE k == exJob[cur[w]]
    <3>1. /\ k \in Jobs /\ taken' = taken
          /\ k \notin taken => status[k] = "running"
      BY <1>1, <2>14 DEF FailWrite, OwnershipIntact, RequeueRow, BuryRow
    <3> HIDE DEF k
    <3>2. CASE RequeueRow(k, seen[w] + 1)
      BY <1>1, <3>1, <3>2 DEF RequeueRow
    <3>3. CASE BuryRow(k, cur[w], seen[w] + 1)
      <4>1. \A b \in Batches : BatchOf[k] # b =>
               bDone'[b] = bDone[b] /\ bFailed'[b] = bFailed[b] /\ bStatus'[b] = bStatus[b]
        BY <1>1, <3>1, <3>3 DEF BuryRow, CountInBatch
      <4>2. BatchOf[k] \in Batches =>
               /\ bDone'[BatchOf[k]] = bDone[BatchOf[k]]
               /\ bFailed'[BatchOf[k]] = bFailed[BatchOf[k]] + 1
               /\ bStatus'[BatchOf[k]] = BatchVerdict(BatchOf[k],
                      bDone[BatchOf[k]], bFailed[BatchOf[k]] + 1)
        BY <1>1, <3>1, <3>3 DEF BuryRow, CountInBatch
      <4>3. status' = [status EXCEPT ![k] = "dead"]
        BY <3>3 DEF BuryRow
      <4>4. ASSUME NEW b \in Batches, LeftAlone(b)', BatchOf[k] = b
            PROVE  JobBuried(b, k)
        <5> HIDE DEF MemoryConsistent, OwnInv, BatchMoves
        <5>1. QED
          BY <1>1, <3>1, <4>2, <4>3, <4>4 DEF JobBuried
      <4>5. ASSUME NEW b \in Batches, BatchOf[k] # b
            PROVE  BatchKeeps(b)
        BY <1>1, <3>1, <4>1, <4>3, <4>5
      <4> HIDE DEF Done, Dead, JobsOf, LeftAlone, BatchKeeps
      <4>6. QED
        BY <3>1, <4>4, <4>5
    <3>4. QED
      BY <2>14, <3>2, <3>3 DEF FailWrite, k
  <2>15. ASSUME NEW j \in Jobs, NEW kind \in Kinds,
                NEW parents \in SUBSET Jobs,
                Create(j, kind[1], kind[2], parents)
        PROVE  BatchMoves
    <3>1. /\ kind[1] \in {"queued", "scheduled"} /\ status[j] = "absent"
          /\ status' = [status EXCEPT ![j] = kind[1]]
          /\ UNCHANGED batchVars
      BY <2>15 DEF Create, InsertJob, Exists
    <3>2. QED
      BY <1>1, <3>1
  <2>16. ASSUME NEW b \in Batches, CreateBatch(b) PROVE BatchMoves
    <3>1. \A k \in Jobs : BatchOf[k] = b => status[k] = "absent"
      BY <1>1, <2>16 DEF CreateBatch, InsertBatch
    <3>2. BatchInserted(b)
      BY <1>1, <2>16 DEF CreateBatch, InsertBatch, BatchInserted
    <3>3. ASSUME NEW c \in Batches, c # b PROVE BatchKeeps(c)
      BY <1>1, <2>16, <3>3 DEF CreateBatch, InsertBatch
    <3>4. QED
      BY <3>2, <3>3
  <2>17. ASSUME NEW j \in Jobs, RetryJob(j) PROVE BatchMoves
    BY <1>1, <2>17 DEF RetryJob, Reopen, RetryRow, TakeFromHands
  <2>18. ASSUME NEW j \in Jobs, CancelJob(j) PROVE BatchMoves
    BY <1>1, <2>18 DEF CancelJob, CancelRow, TakeFromHands
  <2>19. ASSUME NEW j \in Jobs, NEW p \in Jobs, AddDependency(j, p)
        PROVE  BatchMoves
    BY <1>1, <2>19 DEF AddDependency, LinkRow
  <2>20. ASSUME NEW e \in Execs, DlqMark(e) PROVE BatchMoves
    BY <1>1, <2>20 DEF DlqMark, ResolveRow
  <2>21. ASSUME DlqRequeue PROVE BatchMoves
    BY <1>1, <2>21 DEF DlqRequeue, Reopen, RetryRow, TakeFromHands
  <2>22. ASSUME NEW e \in Execs, DlqIgnore(e) PROVE BatchMoves
    BY <1>1, <2>22 DEF DlqIgnore, ResolveRow
  <2>23. ASSUME ApiCrash PROVE BatchMoves
    BY <1>1, <2>23 DEF ApiCrash
  <2>24. ASSUME Reap PROVE BatchMoves
    BY <1>1, <2>24 DEF Reap, TakeFromHands, Orphans
  <2>25. ASSUME PromoteScheduled PROVE BatchMoves
    BY <1>1, <2>25 DEF PromoteScheduled
  <2>26. ASSUME NEW j \in Jobs, RunAtArrives(j) PROVE BatchMoves
    BY <1>1, <2>26 DEF RunAtArrives
  <2> HIDE DEF BatchMoves
  <2>27. QED
    BY <1>1, <2>1, <2>2, <2>3, <2>4, <2>5, <2>6, <2>6a, <2>7, <2>8, <2>9, <2>10, <2>11,
       <2>12, <2>13, <2>14, <2>15, <2>16, <2>17, <2>18, <2>19, <2>20, <2>21,
       <2>22, <2>23, <2>24, <2>25, <2>26
       DEF Next, WorkerStep, ApiStep, Command
<1>2. QED
  BY <1>1

(* The inductive form of BatchExact: it adds that nothing was counted in a *)
(* batch before its insertion.                                             *)
Counted(b) ==
    /\ bStatus[b] = "absent" => bDone[b] = 0 /\ bFailed[b] = 0
    /\ bStatus[b] # "absent" =>
         /\ bDone[b] = Cardinality(Done(b))
         /\ bFailed[b] = Cardinality(Dead(b))
         /\ bStatus[b] = "completed" <=> Done(b) = JobsOf(b)
         /\ bStatus[b] = "failed" <=>
               Dead(b) # {} /\ Done(b) \cup Dead(b) = JobsOf(b)
BatchesCounted == \A b \in Batches : LeftAlone(b) => Counted(b)

(* updateBatchStatus says of d completed and f dead jobs, at least one in  *)
(* all and none counted twice, what there is to say.                       *)
LEMMA VerdictExact ==
  ASSUME NEW b, NEW D \in SUBSET JobsOf(b), NEW F \in SUBSET JobsOf(b),
         D \cap F = {}, D \cup F # {}
  PROVE  LET v == BatchVerdict(b, Cardinality(D), Cardinality(F))
         IN /\ v # "absent"
            /\ v = "completed" <=> D = JobsOf(b)
            /\ v = "failed" <=> F # {} /\ D \cup F = JobsOf(b)
<1> DEFINE J == JobsOf(b)
           v == BatchVerdict(b, Cardinality(D), Cardinality(F))
<1>1. IsFiniteSet(J) /\ IsFiniteSet(D) /\ IsFiniteSet(F) /\ IsFiniteSet(D \cup F)
  BY FiniteTables, FS_Subset, FS_Union DEF JobsOf
<1>2. /\ Cardinality(J) \in Nat /\ Cardinality(D) \in Nat
      /\ Cardinality(F) \in Nat /\ Cardinality(D \cup F) \in Nat
  BY <1>1, FS_CardinalityType
<1>3. Cardinality(D \cup F) = Cardinality(D) + Cardinality(F)
  <2>1. Cardinality(D \cap F) = 0
    BY FS_EmptySet
  <2>2. Cardinality(D \cup F)
          = Cardinality(D) + Cardinality(F) - Cardinality(D \cap F)
    BY <1>1, FS_Union
  <2>3. QED
    BY <1>2, <2>1, <2>2
<1>4. /\ Cardinality(D \cup F) <= Cardinality(J)
      /\ Cardinality(D \cup F) = Cardinality(J) => D \cup F = J
  BY <1>1, FS_Subset
<1>5. Cardinality(F) = 0 <=> F = {}
  BY <1>1, FS_EmptySet
<1>6. Cardinality(D \cup F) > 0
  <2>1. Cardinality(D \cup F) # 0
    BY <1>1, FS_EmptySet
  <2>2. QED
    BY <1>2, <2>1
<1>7. CASE D \cup F = J
  <2>1. Cardinality(D) + Cardinality(F) >= Cardinality(J)
    BY <1>2, <1>3, <1>7
  <2>2. v = IF Cardinality(F) > 0 THEN "failed" ELSE "completed"
    BY <2>1 DEF BatchVerdict
  <2>3. D = J <=> F = {}
    BY <1>7
  <2>4. QED
    BY <1>2, <1>5, <1>7, <2>2, <2>3
<1>8. CASE D \cup F # J
  <2>1. ~(Cardinality(D) + Cardinality(F) >= Cardinality(J))
    BY <1>2, <1>3, <1>4, <1>8
  <2>2. v = "running"
    BY <1>3, <1>6, <2>1 DEF BatchVerdict
  <2>3. D # J
    BY <1>8
  <2>4. QED
    BY <1>8, <2>2, <2>3
<1>9. QED
  BY <1>7, <1>8

(* Counting one more of finitely many jobs.                                *)
LEMMA OneMore ==
  ASSUME NEW b, NEW S \in SUBSET JobsOf(b), NEW j \in JobsOf(b) \ S
  PROVE  Cardinality(S \cup {j}) = Cardinality(S) + 1
<1>1. IsFiniteSet(S)
  BY FiniteTables, FS_Subset DEF JobsOf
<1>2. QED
  BY <1>1, FS_AddElement

(* Every step counts exactly.                                              *)
LEMMA CountStep ==
  ASSUME OwnInv, BatchesCounted, Next
  PROVE  BatchesCounted'
<1> SUFFICES ASSUME NEW b \in Batches, LeftAlone(b)'
             PROVE  Counted(b)'
  BY DEF BatchesCounted
<1>1. BatchMoves /\ taken \subseteq taken' /\ reopened \subseteq reopened'
  BY BatchStep, HistoryGrows DEF OwnInv
<1>2. Counted(b)
  BY <1>1 DEF BatchesCounted, LeftAlone, JobsOf
<1>3. JobsOf(b)' = JobsOf(b)
  BY DEF JobsOf
<1>4. Done(b) \in SUBSET JobsOf(b) /\ Dead(b) \in SUBSET JobsOf(b)
      /\ Done(b) \cap Dead(b) = {}
  BY DEF Done, Dead
<1>5. CASE BatchInserted(b)
  <2>1. Cardinality(Done(b)') = 0 /\ Cardinality(Dead(b)') = 0
    BY <1>5, FS_EmptySet DEF BatchInserted
  <2>2. QED
    BY <1>2, <1>3, <1>5, <2>1 DEF BatchInserted, Counted
<1>6. ASSUME NEW j \in Jobs, JobCompleted(b, j) PROVE Counted(b)'
  <2>1. /\ bDone'[b] = Cardinality(Done(b)') /\ bFailed'[b] = Cardinality(Dead(b)')
        /\ bDone'[b] = bDone[b] + 1 /\ bFailed'[b] = bFailed[b]
    BY <1>2, <1>4, <1>6, OneMore DEF JobCompleted, Counted
  <2>2. /\ Done(b)' \in SUBSET JobsOf(b) /\ Dead(b)' \in SUBSET JobsOf(b)
        /\ Done(b)' \cap Dead(b)' = {} /\ Done(b)' \cup Dead(b)' # {}
    BY <1>4, <1>6 DEF JobCompleted
  <2>3. bStatus'[b] = BatchVerdict(b, Cardinality(Done(b)'), Cardinality(Dead(b)'))
    BY <1>6, <2>1 DEF JobCompleted
  <2>4. QED
    BY <1>3, <2>1, <2>2, <2>3, VerdictExact DEF Counted
<1>7. ASSUME NEW j \in Jobs, JobBuried(b, j) PROVE Counted(b)'
  <2>1. /\ bDone'[b] = Cardinality(Done(b)') /\ bFailed'[b] = Cardinality(Dead(b)')
        /\ bDone'[b] = bDone[b] /\ bFailed'[b] = bFailed[b] + 1
    BY <1>2, <1>4, <1>7, OneMore DEF JobBuried, Counted
  <2>2. /\ Done(b)' \in SUBSET JobsOf(b) /\ Dead(b)' \in SUBSET JobsOf(b)
        /\ Done(b)' \cap Dead(b)' = {} /\ Done(b)' \cup Dead(b)' # {}
    BY <1>4, <1>7 DEF JobBuried
  <2>3. bStatus'[b] = BatchVerdict(b, Cardinality(Done(b)'), Cardinality(Dead(b)'))
    BY <1>7, <2>1 DEF JobBuried
  <2>4. QED
    BY <1>3, <2>1, <2>2, <2>3, VerdictExact DEF Counted
<1>8. CASE BatchKeeps(b)
  BY <1>2, <1>3, <1>8 DEF BatchKeeps, Counted
<1>9. QED
  BY <1>1, <1>5, <1>6, <1>7, <1>8 DEF BatchMoves

(* BatchExact: the counters and the verdict of a batch whose jobs were     *)
(* left alone are exact.                                                   *)
THEOREM BatchesAreExact == Spec => []BatchExact
<1>1. Init => BatchesCounted
  BY DEF Init, DatabaseInit, BatchesCounted, Counted
<1>2. ASSUME OwnInv, BatchesCounted, [Next]_vars PROVE BatchesCounted'
  <2>1. CASE Next
    BY <1>2, <2>1, CountStep
  <2>2. CASE UNCHANGED vars
    <3>1. \A b \in Batches : /\ Done(b)' = Done(b) /\ Dead(b)' = Dead(b)
                             /\ JobsOf(b)' = JobsOf(b)
                             /\ LeftAlone(b)' <=> LeftAlone(b)
      BY <2>2 DEF LeftAlone, Done, Dead, JobsOf
    <3>2. QED
      BY <1>2, <2>2, <3>1 DEF BatchesCounted, Counted
  <2>3. QED
    BY <1>2, <2>1, <2>2
<1>3. BatchesCounted => BatchExact
  BY DEF BatchesCounted, BatchExact, LeftAlone, Counted, Done, Dead
<1>4. QED
  BY <1>1, <1>2, <1>3, Ownership, PTL DEF Spec

-----------------------------------------------------------------------------
(***************************************************************************)
(* ChildAfterParents, where dependencies are given at creation only: a job *)
(* gets under way by a claim, a claim needs every parent completed, and a  *)
(* completed parent stays so unless somebody disturbs or reopens it.       *)
(***************************************************************************)

(* What a step does to jobs that depend on others: what was disturbed     *)
(* stays so, an inserted job gets no further parents, and a job gets under *)
(* way by a claim.                                                         *)
Advances ==
    /\ taken \subseteq taken'
    /\ \A j, p \in Jobs : Exists(j) /\ <<j, p>> \in deps' => <<j, p>> \in deps
    /\ \A j \in Jobs \ taken' : status'[j] \in Locking \cup {"completed"} =>
          status[j] \in Locking \cup {"completed"} \/ Claimable(j)

(* Every step does no more, where dependencies are given at creation.      *)
LEMMA AdvanceStep ==
  Consistent /\ OwnInv /\ "link" \notin Commands /\ Next => Advances
<1>1. ASSUME Consistent, OwnInv, "link" \notin Commands, Next
      PROVE  Advances
  <2> USE DEF Consistent, TypeOK, DatabaseTypeOK, JobStatus, WorkersTypeOK,
              ApiTypeOK, MemoryConsistent, TablesConsistent, Exists, Live,
              Idle, OwnInv, Advances, Locking
  <2>1. ASSUME NEW w \in Workers, Register(w) PROVE Advances
    BY <1>1, <2>1 DEF Register
  <2>2. ASSUME NEW w \in Workers, Heartbeat(w) PROVE Advances
    BY <1>1, <2>2 DEF Heartbeat
  <2>3. ASSUME NEW w \in Workers, HeartbeatExpires(w) PROVE Advances
    BY <1>1, <2>3 DEF HeartbeatExpires
  <2>4. ASSUME NEW w \in Workers, Shutdown(w) PROVE Advances
    BY <1>1, <2>4 DEF Shutdown
  <2>5. ASSUME NEW w \in Workers, Exit(w) PROVE Advances
    BY <1>1, <2>5 DEF Exit
  <2>6. ASSUME NEW w \in Workers, Crash(w) PROVE Advances
    BY <1>1, <2>6 DEF Crash
  <2>6a. ASSUME NEW w \in Workers, NEW e \in Execs, FailSwallowed(w, e)
        PROVE  Advances
    BY <1>1, <2>6a DEF FailSwallowed, Settle
  <2>7. ASSUME NEW w \in Workers, NEW j \in Jobs, ClaimSelect(w, j)
        PROVE  Advances
    BY <1>1, <2>7 DEF ClaimSelect
  <2>8. ASSUME NEW w \in Workers, ClaimUpdate(w) PROVE Advances
    <3>1. cand[w] \in Jobs /\ ClaimRow(w, cand[w]) /\ Claimable(cand[w])
      BY <1>1, <2>8 DEF ClaimUpdate, ClaimRow, ClaimGrounds
    <3>2. QED
      BY <1>1, <2>8, <3>1 DEF ClaimUpdate, ClaimRow
  <2>9. ASSUME NEW w \in Workers, ClaimBusy(w) PROVE Advances
    BY <1>1, <2>9 DEF ClaimBusy
  <2>10. ASSUME NEW w \in Workers, Start(w) PROVE Advances
    <3>1. /\ cand[w] \in Jobs /\ StartRow(cand[w], NextExec)
          /\ cand[w] \notin taken => status[cand[w]] = "claimed"
      BY <1>1, <2>10 DEF Start, OwnershipIntact
    <3>2. QED
      BY <1>1, <2>10, <3>1 DEF Start, StartRow
  <2>11. ASSUME NEW w \in Workers, NEW e \in Execs, Complete(w, e)
        PROVE  Advances
    <3>1. /\ exJob[e] \in Jobs /\ CompleteRow(exJob[e], e)
          /\ exJob[e] \notin taken => status[exJob[e]] = "running"
      BY <1>1, <2>11 DEF Complete, OwnershipIntact
    <3>2. QED
      BY <1>1, <2>11, <3>1 DEF Complete, CompleteRow
  <2>12. ASSUME NEW w \in Workers, NEW e \in Execs, CompleteLogFails(w, e)
        PROVE  Advances
    BY <1>1, <2>12 DEF CompleteLogFails, CompleteRow
  <2>13. ASSUME NEW w \in Workers, NEW e \in Execs, FailRead(w, e)
        PROVE  Advances
    BY <1>1, <2>13 DEF FailRead, FailExecRow
  <2>14. ASSUME NEW w \in Workers, FailWrite(w) PROVE Advances
    BY <1>1, <2>14 DEF FailWrite, RequeueRow, BuryRow
  <2>15. ASSUME NEW j \in Jobs, NEW kind \in Kinds,
                NEW parents \in SUBSET Jobs,
                Create(j, kind[1], kind[2], parents)
        PROVE  Advances
    <3>1. kind[1] \in {"queued", "scheduled"} /\ status[j] = "absent"
      BY <2>15 DEF Create, InsertJob, Exists
    <3>2. status' = [status EXCEPT ![j] = kind[1]]
      BY <2>15 DEF Create, InsertJob
    <3>3. UNCHANGED <<taken, reopened>> /\ deps' = deps \cup {<<j, p>> : p \in parents}
      BY <2>15 DEF Create, InsertJob
    <3>4. QED
      BY <1>1, <3>1, <3>2, <3>3
  <2>16. ASSUME NEW b \in Batches, CreateBatch(b) PROVE Advances
    BY <1>1, <2>16 DEF CreateBatch, InsertBatch
  <2>17. ASSUME NEW j \in Jobs, RetryJob(j) PROVE Advances
    BY <1>1, <2>17 DEF RetryJob, Reopen, RetryRow, TakeFromHands
  <2>18. ASSUME NEW j \in Jobs, CancelJob(j) PROVE Advances
    BY <1>1, <2>18 DEF CancelJob, CancelRow, TakeFromHands
  <2>19. ASSUME NEW j \in Jobs, NEW p \in Jobs, AddDependency(j, p)
        PROVE  Advances
    BY <1>1, <2>19 DEF AddDependency, LinkRow
  <2>20. ASSUME NEW e \in Execs, DlqMark(e) PROVE Advances
    BY <1>1, <2>20 DEF DlqMark, ResolveRow
  <2>21. ASSUME DlqRequeue PROVE Advances
    BY <1>1, <2>21 DEF DlqRequeue, Reopen, RetryRow, TakeFromHands
  <2>22. ASSUME NEW e \in Execs, DlqIgnore(e) PROVE Advances
    BY <1>1, <2>22 DEF DlqIgnore, ResolveRow
  <2>23. ASSUME ApiCrash PROVE Advances
    BY <1>1, <2>23 DEF ApiCrash
  <2>24. ASSUME Reap PROVE Advances
    BY <1>1, <2>24 DEF Reap, TakeFromHands, Orphans
  <2>25. ASSUME PromoteScheduled PROVE Advances
    BY <1>1, <2>25 DEF PromoteScheduled
  <2>26. ASSUME NEW j \in Jobs, RunAtArrives(j) PROVE Advances
    BY <1>1, <2>26 DEF RunAtArrives
  <2> HIDE DEF Advances
  <2>27. QED
    BY <1>1, <2>1, <2>2, <2>3, <2>4, <2>5, <2>6, <2>6a, <2>7, <2>8, <2>9, <2>10, <2>11,
       <2>12, <2>13, <2>14, <2>15, <2>16, <2>17, <2>18, <2>19, <2>20, <2>21,
       <2>22, <2>23, <2>24, <2>25, <2>26
       DEF Next, WorkerStep, ApiStep, Command
<1>2. QED
  BY <1>1

(* Every step keeps the parents of a job under way completed.              *)
LEMMA ParentStep ==
  ASSUME OwnInv, "link" \notin Commands, ChildAfterParents, Next
  PROVE  ChildAfterParents'
<1>1. Consistent
  BY DEF OwnInv
<1>2. Advances /\ OutcomesKept /\ reopened \subseteq reopened'
  BY <1>1, AdvanceStep, OutcomeStep, HistoryGrows
<1>3. ASSUME NEW p \in Jobs \ (taken' \cup reopened'), status[p] = "completed"
      PROVE  status'[p] = "completed"
  <2>1. p \notin taken /\ p \notin reopened
    BY <1>2, <1>3 DEF Advances
  <2>2. CASE RetryJob(p)
    BY <1>3, <2>2 DEF RetryJob, Reopen
  <2>3. CASE DlqRequeue /\ exJob[api] = p
    BY <1>3, <2>3 DEF DlqRequeue, Reopen
  <2>4. QED
    BY <1>2, <1>3, <2>1, <2>2, <2>3 DEF OutcomesKept, Settled
<1>4. SUFFICES ASSUME NEW j \in Jobs \ (taken' \cup reopened'),
                      status'[j] \in Locking \cup {"completed"},
                      NEW p \in Jobs, <<j, p>> \in deps',
                      p \notin taken' \cup reopened'
               PROVE  status'[p] = "completed"
  BY DEF ChildAfterParents
<1>5. status[j] \in Locking \cup {"completed"} \/ Claimable(j)
  BY <1>2, <1>4 DEF Advances
<1>6. Exists(j)
  BY <1>5 DEF Locking, Claimable, Exists
<1>7. <<j, p>> \in deps
  BY <1>2, <1>4, <1>6 DEF Advances
<1>8. j \notin taken \cup reopened /\ p \notin taken \cup reopened
  BY <1>2, <1>4 DEF Advances
<1>9. status[p] = "completed"
  BY <1>5, <1>7, <1>8 DEF ChildAfterParents, Claimable
<1>10. QED
  BY <1>3, <1>4, <1>9

(* ChildAfterParents: where dependencies are given when a job is created,  *)
(* no undisturbed job is under way or completed before its parents.        *)
THEOREM ParentsFirst ==
  ASSUME "link" \notin Commands PROVE Spec => []ChildAfterParents
<1>1. Init => ChildAfterParents
  BY DEF Init, DatabaseInit, ChildAfterParents, Locking
<1>2. ASSUME OwnInv, ChildAfterParents, [Next]_vars PROVE ChildAfterParents'
  <2>1. CASE Next
    BY <1>2, <2>1, ParentStep
  <2>2. CASE UNCHANGED vars
    BY <1>2, <2>2 DEF ChildAfterParents
  <2>3. QED
    BY <1>2, <2>1, <2>2
<1>3. QED
  BY <1>1, <1>2, Ownership, PTL DEF Spec

=============================================================================
