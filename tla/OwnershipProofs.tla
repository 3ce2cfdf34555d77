-------------------------- MODULE OwnershipProofs ---------------------------
(***************************************************************************)
(* Who holds a job: type correctness, the locks and the refinement of      *)
(* Lease, what the reaper can free, and the map of running jobs of a       *)
(* worker. Every part is an invariant of its own, proved with the parts    *)
(* before it.                                                              *)
(***************************************************************************)
EXTENDS VortexJob, FiniteSetTheorems, TLAPS

USE JobColumns, NoneIsNoId, KindsOfJobs, WorkerConstants
    DEF dbVars, jobVars, execVars, batchVars, workerVars, rowVars, localVars,
        vars, Commit

-----------------------------------------------------------------------------
(***************************************************************************)
(* Spec => []TypeOK, by the inductive invariant Consistent. TypeOK alone   *)
(* is not inductive: that completeJob counts in a batch that exists needs  *)
(* MemoryConsistent (an execution in flight has a job) and                 *)
(* TablesConsistent (that job has been inserted, with its batch).          *)
(***************************************************************************)

(* updateBatchStatus keeps the columns of batches in their domains.        *)
LEMMA BatchTypes ==
  ASSUME DatabaseTypeOK, NEW j \in Jobs, NEW done \in Nat, NEW failed \in Nat,
         CountInBatch(j, done, failed)
  PROVE  /\ bDone' \in [Batches -> Nat]
         /\ bFailed' \in [Batches -> Nat]
         /\ bStatus' \in [Batches -> {"absent", "pending", "running",
                                      "completed", "failed"}]
<1>1. CASE BatchOf[j] = None
  BY <1>1 DEF CountInBatch, DatabaseTypeOK
<1>2. CASE BatchOf[j] # None
  <2>1. BatchOf[j] \in Batches
    BY <1>2
  <2> DEFINE b == BatchOf[j]
  <2>2. BatchVerdict(b, bDone[b] + done, bFailed[b] + failed)
          \in {"absent", "pending", "running", "completed", "failed"}
    BY <2>1 DEF BatchVerdict, DatabaseTypeOK
  <2>3. QED
    BY <1>2, <2>1, <2>2 DEF CountInBatch, DatabaseTypeOK
<1>3. QED
  BY <1>1, <1>2

(* Counting does not make a batch that exists disappear, nor the reverse.  *)
LEMMA BatchKept ==
  ASSUME DatabaseTypeOK, NEW j \in Jobs,
         NEW done \in {0, 1}, NEW failed \in {0, 1}, done # failed,
         CountInBatch(j, done, failed),
         BatchOf[j] # None => bStatus[BatchOf[j]] # "absent",
         NEW b \in Batches
  PROVE  bStatus'[b] = "absent" <=> bStatus[b] = "absent"
<1>1. CASE b # BatchOf[j]
  BY <1>1 DEF CountInBatch, DatabaseTypeOK
<1>2. CASE b = BatchOf[j]
  <2>1. BatchVerdict(b, bDone[b] + done, bFailed[b] + failed) # "absent"
    BY <1>2 DEF BatchVerdict, DatabaseTypeOK
  <2>2. QED
    BY <1>2, <2>1 DEF CountInBatch, DatabaseTypeOK
<1>3. QED
  BY <1>1, <1>2

(* Every step keeps the tables in their domains.                           *)
LEMMA DatabaseTypes ==
  Consistent /\ Next => DatabaseTypeOK'
<1>1. ASSUME Consistent, Next
      PROVE  DatabaseTypeOK'
  <2> USE DEF Consistent, TypeOK, DatabaseTypeOK, JobStatus, WorkersTypeOK,
              ApiTypeOK, MemoryConsistent, TablesConsistent, Exists
  <2>1. ASSUME NEW w \in Workers, Register(w) PROVE DatabaseTypeOK'
    BY <1>1, <2>1 DEF Register
  <2>2. ASSUME NEW w \in Workers, Heartbeat(w) PROVE DatabaseTypeOK'
    BY <1>1, <2>2 DEF Heartbeat
  <2>3. ASSUME NEW w \in Workers, HeartbeatExpires(w) PROVE DatabaseTypeOK'
    BY <1>1, <2>3 DEF HeartbeatExpires
  <2>4. ASSUME NEW w \in Workers, Shutdown(w) PROVE DatabaseTypeOK'
    BY <1>1, <2>4 DEF Shutdown
  <2>5. ASSUME NEW w \in Workers, Exit(w) PROVE DatabaseTypeOK'
    BY <1>1, <2>5 DEF Exit
  <2>6. ASSUME NEW w \in Workers, Crash(w) PROVE DatabaseTypeOK'
    BY <1>1, <2>6 DEF Crash
  <2>6a. ASSUME NEW w \in Workers, NEW e \in Execs, FailSwallowed(w, e)
        PROVE  DatabaseTypeOK'
    BY <1>1, <2>6a DEF FailSwallowed, Settle
  <2>7. ASSUME NEW w \in Workers, NEW j \in Jobs, ClaimSelect(w, j)
       PROVE  DatabaseTypeOK'
    BY <1>1, <2>7 DEF ClaimSelect
  <2>8. ASSUME NEW w \in Workers, ClaimUpdate(w) PROVE DatabaseTypeOK'
    BY <1>1, <2>8 DEF ClaimUpdate, ClaimRow
  <2>9. ASSUME NEW w \in Workers, ClaimBusy(w) PROVE DatabaseTypeOK'
    BY <1>1, <2>9 DEF ClaimBusy
  <2>10. ASSUME NEW w \in Workers, Start(w) PROVE DatabaseTypeOK'
    BY <1>1, <2>10 DEF Start, StartRow
  <2>11. ASSUME NEW w \in Workers, NEW e \in Execs, Complete(w, e)
       PROVE  DatabaseTypeOK'
    <3>1. /\ exJob[e] \in Jobs /\ e \in Execs /\ CountInBatch(exJob[e], 1, 0)
      BY <1>1, <2>11 DEF Complete, CompleteRow
    <3>2. /\ bDone' \in [Batches -> Nat]
          /\ bFailed' \in [Batches -> Nat]
          /\ bStatus' \in [Batches -> {"absent", "pending", "running",
                                       "completed", "failed"}]
      BY <1>1, <3>1, BatchTypes
    <3>3. QED
      BY <1>1, <2>11, <3>1, <3>2 DEF Complete, CompleteRow
  <2>12. ASSUME NEW w \in Workers, NEW e \in Execs, CompleteLogFails(w, e)
       PROVE  DatabaseTypeOK'
    <3>1. /\ exJob[e] \in Jobs /\ e \in Execs /\ CountInBatch(exJob[e], 1, 0)
      BY <1>1, <2>12 DEF CompleteLogFails, CompleteRow
    <3>2. /\ bDone' \in [Batches -> Nat]
          /\ bFailed' \in [Batches -> Nat]
          /\ bStatus' \in [Batches -> {"absent", "pending", "running",
                                       "completed", "failed"}]
      BY <1>1, <3>1, BatchTypes
    <3>3. QED
      BY <1>1, <2>12, <3>1, <3>2 DEF CompleteLogFails, CompleteRow
  <2>13. ASSUME NEW w \in Workers, NEW e \in Execs, FailRead(w, e)
       PROVE  DatabaseTypeOK'
    BY <1>1, <2>13 DEF FailRead, FailExecRow
  <2>14. ASSUME NEW w \in Workers, FailWrite(w) PROVE DatabaseTypeOK'
    <3>1. exJob[cur[w]] \in Jobs /\ cur[w] \in Execs /\ seen[w] + 1 \in Nat
      BY <1>1, <2>14 DEF FailWrite
    <3>2. CASE RequeueRow(exJob[cur[w]], seen[w] + 1)
      BY <1>1, <3>1, <3>2 DEF RequeueRow
    <3>3. CASE BuryRow(exJob[cur[w]], cur[w], seen[w] + 1)
      BY <1>1, <3>1, <3>3, BatchTypes DEF BuryRow
    <3>4. QED
      BY <2>14, <3>2, <3>3 DEF FailWrite
  <2>15. ASSUME NEW j \in Jobs, NEW kind \in Kinds, NEW parents \in SUBSET Jobs,
                Create(j, kind[1], kind[2], parents)
       PROVE  DatabaseTypeOK'
    BY <1>1, <2>15 DEF Create, InsertJob, Exists
  <2>16. ASSUME NEW b \in Batches, CreateBatch(b) PROVE DatabaseTypeOK'
    BY <1>1, <2>16 DEF CreateBatch, InsertBatch, JobsOf
  <2>17. ASSUME NEW j \in Jobs, RetryJob(j) PROVE DatabaseTypeOK'
    BY <1>1, <2>17 DEF RetryJob, Reopen, RetryRow, Exists
  <2>18. ASSUME NEW j \in Jobs, CancelJob(j) PROVE DatabaseTypeOK'
    BY <1>1, <2>18 DEF CancelJob, CancelRow
  <2>19. ASSUME NEW j \in Jobs, NEW p \in Jobs, AddDependency(j, p)
       PROVE  DatabaseTypeOK'
    BY <1>1, <2>19 DEF AddDependency, LinkRow
  <2>20. ASSUME NEW e \in Execs, DlqMark(e) PROVE DatabaseTypeOK'
    BY <1>1, <2>20 DEF DlqMark, ResolveRow
  <2>21. ASSUME DlqRequeue PROVE DatabaseTypeOK'
    BY <1>1, <2>21 DEF DlqRequeue, Reopen, RetryRow, Exists
  <2>22. ASSUME NEW e \in Execs, DlqIgnore(e) PROVE DatabaseTypeOK'
    BY <1>1, <2>22 DEF DlqIgnore, ResolveRow
  <2>23. ASSUME ApiCrash PROVE DatabaseTypeOK'
    BY <1>1, <2>23 DEF ApiCrash
  <2>24. ASSUME Reap PROVE DatabaseTypeOK'
    BY <1>1, <2>24 DEF Reap
  <2>25. ASSUME PromoteScheduled PROVE DatabaseTypeOK'
    BY <1>1, <2>25 DEF PromoteScheduled
  <2>26. ASSUME NEW j \in Jobs, RunAtArrives(j) PROVE DatabaseTypeOK'
    BY <1>1, <2>26 DEF RunAtArrives
  <2>27. QED
    BY <1>1, <2>1, <2>2, <2>3, <2>4, <2>5, <2>6, <2>6a, <2>7, <2>8, <2>9, <2>10, <2>11,
       <2>12, <2>13, <2>14, <2>15, <2>16, <2>17, <2>18, <2>19, <2>20, <2>21,
       <2>22, <2>23, <2>24, <2>25, <2>26
       DEF Next, WorkerStep, ApiStep, Command
<1>2. QED
  BY <1>1

(* Every step keeps the processes in their domains.                        *)
LEMMA WorkersTypes ==
  Consistent /\ Next => WorkersTypeOK'
<1>1. ASSUME Consistent, Next
      PROVE  WorkersTypeOK'
  <2> USE DEF Consistent, TypeOK, DatabaseTypeOK, JobStatus, WorkersTypeOK,
              ApiTypeOK, MemoryConsistent, TablesConsistent, Exists
  <2>1. ASSUME NEW w \in Workers, Register(w) PROVE WorkersTypeOK'
    BY <1>1, <2>1 DEF Register
  <2>2. ASSUME NEW w \in Workers, Heartbeat(w) PROVE WorkersTypeOK'
    BY <1>1, <2>2 DEF Heartbeat
  <2>3. ASSUME NEW w \in Workers, HeartbeatExpires(w) PROVE WorkersTypeOK'
    BY <1>1, <2>3 DEF HeartbeatExpires
  <2>4. ASSUME NEW w \in Workers, Shutdown(w) PROVE WorkersTypeOK'
    BY <1>1, <2>4 DEF Shutdown
  <2>5. ASSUME NEW w \in Workers, Exit(w) PROVE WorkersTypeOK'
    BY <1>1, <2>5 DEF Exit, LoseMemory
  <2>6. ASSUME NEW w \in Workers, Crash(w) PROVE WorkersTypeOK'
    BY <1>1, <2>6 DEF Crash, LoseMemory
  <2>6a. ASSUME NEW w \in Workers, NEW e \in Execs, FailSwallowed(w, e)
        PROVE  WorkersTypeOK'
    BY <1>1, <2>6a DEF FailSwallowed, Settle
  <2>7. ASSUME NEW w \in Workers, NEW j \in Jobs, ClaimSelect(w, j)
       PROVE  WorkersTypeOK'
    BY <1>1, <2>7 DEF ClaimSelect
  <2>8. ASSUME NEW w \in Workers, ClaimUpdate(w) PROVE WorkersTypeOK'
    BY <1>1, <2>8 DEF ClaimUpdate, ClaimRow
  <2>9. ASSUME NEW w \in Workers, ClaimBusy(w) PROVE WorkersTypeOK'
    BY <1>1, <2>9 DEF ClaimBusy
  <2>10. ASSUME NEW w \in Workers, Start(w) PROVE WorkersTypeOK'
    BY <1>1, <2>10 DEF Start, StartRow
  <2>11. ASSUME NEW w \in Workers, NEW e \in Execs, Complete(w, e)
       PROVE  WorkersTypeOK'
    BY <1>1, <2>11 DEF Complete, CompleteRow, Settle
  <2>12. ASSUME NEW w \in Workers, NEW e \in Execs, CompleteLogFails(w, e)
       PROVE  WorkersTypeOK'
    BY <1>1, <2>12 DEF CompleteLogFails, CompleteRow
  <2>13. ASSUME NEW w \in Workers, NEW e \in Execs, FailRead(w, e)
       PROVE  WorkersTypeOK'
    BY <1>1, <2>13 DEF FailRead, FailExecRow
  <2>14. ASSUME NEW w \in Workers, FailWrite(w) PROVE WorkersTypeOK'
    BY <1>1, <2>14 DEF FailWrite, RequeueRow, BuryRow, Settle
  <2>15. ASSUME NEW j \in Jobs, NEW kind \in Kinds, NEW parents \in SUBSET Jobs,
                Create(j, kind[1], kind[2], parents)
       PROVE  WorkersTypeOK'
    BY <1>1, <2>15 DEF Create, InsertJob, Exists
  <2>16. ASSUME NEW b \in Batches, CreateBatch(b) PROVE WorkersTypeOK'
    BY <1>1, <2>16 DEF CreateBatch, InsertBatch, JobsOf
  <2>17. ASSUME NEW j \in Jobs, RetryJob(j) PROVE WorkersTypeOK'
    BY <1>1, <2>17 DEF RetryJob, Reopen, RetryRow, Exists, TakeFromHands
  <2>18. ASSUME NEW j \in Jobs, CancelJob(j) PROVE WorkersTypeOK'
    BY <1>1, <2>18 DEF CancelJob, CancelRow, TakeFromHands
  <2>19. ASSUME NEW j \in Jobs, NEW p \in Jobs, AddDependency(j, p)
       PROVE  WorkersTypeOK'
    BY <1>1, <2>19 DEF AddDependency, LinkRow
  <2>20. ASSUME NEW e \in Execs, DlqMark(e) PROVE WorkersTypeOK'
    BY <1>1, <2>20 DEF DlqMark, ResolveRow
  <2>21. ASSUME DlqRequeue PROVE WorkersTypeOK'
    BY <1>1, <2>21 DEF DlqRequeue, Reopen, RetryRow, Exists, TakeFromHands
  <2>22. ASSUME NEW e \in Execs, DlqIgnore(e) PROVE WorkersTypeOK'
    BY <1>1, <2>22 DEF DlqIgnore, ResolveRow
  <2>23. ASSUME ApiCrash PROVE WorkersTypeOK'
    BY <1>1, <2>23 DEF ApiCrash
  <2>24. ASSUME Reap PROVE WorkersTypeOK'
    BY <1>1, <2>24 DEF Reap, TakeFromHands, Orphans
  <2>25. ASSUME PromoteScheduled PROVE WorkersTypeOK'
    BY <1>1, <2>25 DEF PromoteScheduled
  <2>26. ASSUME NEW j \in Jobs, RunAtArrives(j) PROVE WorkersTypeOK'
    BY <1>1, <2>26 DEF RunAtArrives
  <2>27. QED
    BY <1>1, <2>1, <2>2, <2>3, <2>4, <2>5, <2>6, <2>6a, <2>7, <2>8, <2>9, <2>10, <2>11,
       <2>12, <2>13, <2>14, <2>15, <2>16, <2>17, <2>18, <2>19, <2>20, <2>21,
       <2>22, <2>23, <2>24, <2>25, <2>26
       DEF Next, WorkerStep, ApiStep, Command
<1>2. QED
  BY <1>1

(* Every step keeps what the workers remember consistent.                  *)
LEMMA MemoryStep ==
  Consistent /\ Next => MemoryConsistent'
<1>1. ASSUME Consistent, Next
      PROVE  MemoryConsistent'
  <2> USE DEF Consistent, TypeOK, DatabaseTypeOK, JobStatus, WorkersTypeOK,
              ApiTypeOK, MemoryConsistent, TablesConsistent, Exists, Live,
              Idle
  <2>1. ASSUME NEW w \in Workers, Register(w) PROVE MemoryConsistent'
    BY <1>1, <2>1 DEF Register
  <2>2. ASSUME NEW w \in Workers, Heartbeat(w) PROVE MemoryConsistent'
    BY <1>1, <2>2 DEF Heartbeat
  <2>3. ASSUME NEW w \in Workers, HeartbeatExpires(w) PROVE MemoryConsistent'
    BY <1>1, <2>3 DEF HeartbeatExpires
  <2>4. ASSUME NEW w \in Workers, Shutdown(w) PROVE MemoryConsistent'
    BY <1>1, <2>4 DEF Shutdown
  <2>5. ASSUME NEW w \in Workers, Exit(w) PROVE MemoryConsistent'
    BY <1>1, <2>5 DEF Exit, LoseMemory
  <2>6. ASSUME NEW w \in Workers, Crash(w) PROVE MemoryConsistent'
    BY <1>1, <2>6 DEF Crash, LoseMemory
  <2>6a. ASSUME NEW w \in Workers, NEW e \in Execs, FailSwallowed(w, e)
        PROVE  MemoryConsistent'
    BY <1>1, <2>6a DEF FailSwallowed, Settle
  <2>7. ASSUME NEW w \in Workers, NEW j \in Jobs, ClaimSelect(w, j)
       PROVE  MemoryConsistent'
    BY <1>1, <2>7 DEF ClaimSelect, Candidate, Claimable
  <2>8. ASSUME NEW w \in Workers, ClaimUpdate(w) PROVE MemoryConsistent'
    BY <1>1, <2>8 DEF ClaimUpdate, ClaimRow
  <2>9. ASSUME NEW w \in Workers, ClaimBusy(w) PROVE MemoryConsistent'
    BY <1>1, <2>9 DEF ClaimBusy
  <2>10. ASSUME NEW w \in Workers, Start(w) PROVE MemoryConsistent'
    BY <1>1, <2>10 DEF Start, StartRow
  <2>11. ASSUME NEW w \in Workers, NEW e \in Execs, Complete(w, e)
       PROVE  MemoryConsistent'
    BY <1>1, <2>11 DEF Complete, CompleteRow, Settle
  <2>12. ASSUME NEW w \in Workers, NEW e \in Execs, CompleteLogFails(w, e)
       PROVE  MemoryConsistent'
    BY <1>1, <2>12 DEF CompleteLogFails, CompleteRow
  <2>13. ASSUME NEW w \in Workers, NEW e \in Execs, FailRead(w, e)
       PROVE  MemoryConsistent'
    BY <1>1, <2>13 DEF FailRead, FailExecRow
  <2>14. ASSUME NEW w \in Workers, FailWrite(w) PROVE MemoryConsistent'
    BY <1>1, <2>14 DEF FailWrite, RequeueRow, BuryRow, Settle
  <2>15. ASSUME NEW j \in Jobs, NEW kind \in Kinds, NEW parents \in SUBSET Jobs,
                Create(j, kind[1], kind[2], parents)
       PROVE  MemoryConsistent'
    BY <1>1, <2>15 DEF Create, InsertJob, Exists
  <2>16. ASSUME NEW b \in Batches, CreateBatch(b) PROVE MemoryConsistent'
    BY <1>1, <2>16 DEF CreateBatch, InsertBatch, JobsOf
  <2>17. ASSUME NEW j \in Jobs, RetryJob(j) PROVE MemoryConsistent'
    BY <1>1, <2>17 DEF RetryJob, Reopen, RetryRow, Exists
  <2>18. ASSUME NEW j \in Jobs, CancelJob(j) PROVE MemoryConsistent'
    BY <1>1, <2>18 DEF CancelJob, CancelRow
  <2>19. ASSUME NEW j \in Jobs, NEW p \in Jobs, AddDependency(j, p)
       PROVE  MemoryConsistent'
    BY <1>1, <2>19 DEF AddDependency, LinkRow
  <2>20. ASSUME NEW e \in Execs, DlqMark(e) PROVE MemoryConsistent'
    BY <1>1, <2>20 DEF DlqMark, ResolveRow
  <2>21. ASSUME DlqRequeue PROVE MemoryConsistent'
    BY <1>1, <2>21 DEF DlqRequeue, Reopen, RetryRow, Exists
  <2>22. ASSUME NEW e \in Execs, DlqIgnore(e) PROVE MemoryConsistent'
    BY <1>1, <2>22 DEF DlqIgnore, ResolveRow
  <2>23. ASSUME ApiCrash PROVE MemoryConsistent'
    BY <1>1, <2>23 DEF ApiCrash
  <2>24. ASSUME Reap PROVE MemoryConsistent'
    BY <1>1, <2>24 DEF Reap
  <2>25. ASSUME PromoteScheduled PROVE MemoryConsistent'
    BY <1>1, <2>25 DEF PromoteScheduled
  <2>26. ASSUME NEW j \in Jobs, RunAtArrives(j) PROVE MemoryConsistent'
    BY <1>1, <2>26 DEF RunAtArrives
  <2>27. QED
    BY <1>1, <2>1, <2>2, <2>3, <2>4, <2>5, <2>6, <2>6a, <2>7, <2>8, <2>9, <2>10, <2>11,
       <2>12, <2>13, <2>14, <2>15, <2>16, <2>17, <2>18, <2>19, <2>20, <2>21,
       <2>22, <2>23, <2>24, <2>25, <2>26
       DEF Next, WorkerStep, ApiStep, Command
<1>2. QED
  BY <1>1

(* Every step keeps the tables in agreement.                               *)
LEMMA TablesStep ==
  Consistent /\ Next => TablesConsistent'
<1>1. ASSUME Consistent, Next
      PROVE  TablesConsistent'
  <2> USE DEF Consistent, TypeOK, DatabaseTypeOK, JobStatus, WorkersTypeOK,
              ApiTypeOK, MemoryConsistent, TablesConsistent, Exists, Live,
              Idle
  <2>1. ASSUME NEW w \in Workers, Register(w), UNCHANGED <<api, reopened>>
       PROVE  TablesConsistent'
    BY <1>1, <2>1 DEF Register
  <2>2. ASSUME NEW w \in Workers, Heartbeat(w), UNCHANGED <<api, reopened>>
       PROVE  TablesConsistent'
    BY <1>1, <2>2 DEF Heartbeat
  <2>3. ASSUME NEW w \in Workers, HeartbeatExpires(w),
                UNCHANGED <<api, reopened>>
       PROVE  TablesConsistent'
    BY <1>1, <2>3 DEF HeartbeatExpires
  <2>4. ASSUME NEW w \in Workers, Shutdown(w), UNCHANGED <<api, reopened>>
       PROVE  TablesConsistent'
    BY <1>1, <2>4 DEF Shutdown
  <2>5. ASSUME NEW w \in Workers, Exit(w), UNCHANGED <<api, reopened>>
       PROVE  TablesConsistent'
    BY <1>1, <2>5 DEF Exit
  <2>6. ASSUME NEW w \in Workers, Crash(w), UNCHANGED <<api, reopened>>
       PROVE  TablesConsistent'
    BY <1>1, <2>6 DEF Crash
  <2>6a. ASSUME NEW w \in Workers, NEW e \in Execs, FailSwallowed(w, e),
                UNCHANGED <<api, reopened>>
        PROVE  TablesConsistent'
    BY <1>1, <2>6a DEF FailSwallowed, Settle
  <2>7. ASSUME NEW w \in Workers, NEW j \in Jobs, ClaimSelect(w, j),
                UNCHANGED <<api, reopened>>
       PROVE  TablesConsistent'
    BY <1>1, <2>7 DEF ClaimSelect
  <2>8. ASSUME NEW w \in Workers, ClaimUpdate(w),
                UNCHANGED <<api, reopened>>
       PROVE  TablesConsistent'
    BY <1>1, <2>8 DEF ClaimUpdate, ClaimRow
  <2>9. ASSUME NEW w \in Workers, ClaimBusy(w), UNCHANGED <<api, reopened>>
       PROVE  TablesConsistent'
    BY <1>1, <2>9 DEF ClaimBusy
  <2>10. ASSUME NEW w \in Workers, Start(w), UNCHANGED <<api, reopened>>
       PROVE  TablesConsistent'
    BY <1>1, <2>10 DEF Start, StartRow
  <2>11. ASSUME NEW w \in Workers, NEW e \in Execs, Complete(w, e),
                UNCHANGED <<api, reopened>>
       PROVE  TablesConsistent'
    <3>1. /\ exJob[e] \in Jobs /\ e \in runs[w] /\ CountInBatch(exJob[e], 1, 0)
          /\ dlq[e] = "none" /\ Exists(exJob[e])
      BY <1>1, <2>11 DEF Complete, CompleteRow
    <3>2. BatchOf[exJob[e]] # None => bStatus[BatchOf[exJob[e]]] # "absent"
      BY <1>1, <3>1
    <3>3. \A b \in Batches : bStatus'[b] = "absent" <=> bStatus[b] = "absent"
      <4> HIDE DEF Consistent, TypeOK, DatabaseTypeOK
      <4>1. DatabaseTypeOK
        BY <1>1 DEF Consistent, TypeOK
      <4>2. QED
        BY <3>1, <3>2, <4>1, BatchKept
    <3>4. QED
      BY <1>1, <2>11, <3>1, <3>3 DEF Complete, CompleteRow
  <2>12. ASSUME NEW w \in Workers, NEW e \in Execs, CompleteLogFails(w, e),
                UNCHANGED <<api, reopened>>
       PROVE  TablesConsistent'
    <3>1. /\ exJob[e] \in Jobs /\ e \in runs[w] /\ CountInBatch(exJob[e], 1, 0)
          /\ dlq[e] = "none" /\ Exists(exJob[e])
      BY <1>1, <2>12 DEF CompleteLogFails, CompleteRow
    <3>2. BatchOf[exJob[e]] # None => bStatus[BatchOf[exJob[e]]] # "absent"
      BY <1>1, <3>1
    <3>3. \A b \in Batches : bStatus'[b] = "absent" <=> bStatus[b] = "absent"
      <4> HIDE DEF Consistent, TypeOK, DatabaseTypeOK
      <4>1. DatabaseTypeOK
        BY <1>1 DEF Consistent, TypeOK
      <4>2. QED
        BY <3>1, <3>2, <4>1, BatchKept
    <3>4. QED
      BY <1>1, <2>12, <3>1, <3>3 DEF CompleteLogFails, CompleteRow
  <2>13. ASSUME NEW w \in Workers, NEW e \in Execs, FailRead(w, e),
                UNCHANGED <<api, reopened>>
       PROVE  TablesConsistent'
    BY <1>1, <2>13 DEF FailRead, FailExecRow
  <2>14. ASSUME NEW w \in Workers, FailWrite(w), UNCHANGED <<api, reopened>>
       PROVE  TablesConsistent'
    <3> DEFINE e == cur[w]
               j == exJob[e]
    <3>1. /\ j \in Jobs /\ e \in Execs /\ e \in runs[w] /\ Exists(j)
          /\ seen[w] + 1 \in Nat /\ exStatus[e] = "failed" /\ pc[w] = "failing"
      BY <1>1, <2>14 DEF FailWrite
    <3>2. CASE RequeueRow(j, seen[w] + 1)
      BY <1>1, <2>14, <3>1, <3>2 DEF RequeueRow
    <3>3. CASE BuryRow(j, e, seen[w] + 1)
      <4>1. CountInBatch(j, 0, 1)
        BY <3>3 DEF BuryRow
      <4>2. BatchOf[j] # None => bStatus[BatchOf[j]] # "absent"
        BY <1>1, <3>1
      <4>3. \A b \in Batches : bStatus'[b] = "absent" <=> bStatus[b] = "absent"
        <5> HIDE DEF Consistent, TypeOK, DatabaseTypeOK
        <5>1. DatabaseTypeOK
          BY <1>1 DEF Consistent, TypeOK
        <5>2. QED
          BY <3>1, <4>1, <4>2, <5>1, BatchKept
      <4>4. QED
        BY <1>1, <2>14, <3>1, <3>3, <4>3 DEF BuryRow
    <3>4. QED
      BY <2>14, <3>2, <3>3 DEF FailWrite
  <2>15. ASSUME NEW j \in Jobs, NEW kind \in Kinds, NEW parents \in SUBSET Jobs,
                Create(j, kind[1], kind[2], parents)
       PROVE  TablesConsistent'
    BY <1>1, <2>15 DEF Create, InsertJob, Exists
  <2>16. ASSUME NEW b \in Batches, CreateBatch(b) PROVE TablesConsistent'
    BY <1>1, <2>16 DEF CreateBatch, InsertBatch, JobsOf
  <2>17. ASSUME NEW j \in Jobs, RetryJob(j) PROVE TablesConsistent'
    BY <1>1, <2>17 DEF RetryJob, Reopen, RetryRow, Exists
  <2>18. ASSUME NEW j \in Jobs, CancelJob(j) PROVE TablesConsistent'
    BY <1>1, <2>18 DEF CancelJob, CancelRow
  <2>19. ASSUME NEW j \in Jobs, NEW p \in Jobs, AddDependency(j, p)
       PROVE  TablesConsistent'
    BY <1>1, <2>19 DEF AddDependency, LinkRow
  <2>20. ASSUME NEW e \in Execs, DlqMark(e) PROVE TablesConsistent'
    BY <1>1, <2>20 DEF DlqMark, ResolveRow
  <2>21. ASSUME DlqRequeue PROVE TablesConsistent'
    BY <1>1, <2>21 DEF DlqRequeue, Reopen, RetryRow, Exists
  <2>22. ASSUME NEW e \in Execs, DlqIgnore(e) PROVE TablesConsistent'
    BY <1>1, <2>22 DEF DlqIgnore, ResolveRow
  <2>23. ASSUME ApiCrash PROVE TablesConsistent'
    BY <1>1, <2>23 DEF ApiCrash
  <2>24. ASSUME Reap PROVE TablesConsistent'
    BY <1>1, <2>24 DEF Reap, Orphans, Locking
  <2>25. ASSUME PromoteScheduled PROVE TablesConsistent'
    BY <1>1, <2>25 DEF PromoteScheduled
  <2>26. ASSUME NEW j \in Jobs, RunAtArrives(j) PROVE TablesConsistent'
    BY <1>1, <2>26 DEF RunAtArrives
  <2>27. QED
    BY <1>1, <2>1, <2>2, <2>3, <2>4, <2>5, <2>6, <2>6a, <2>7, <2>8, <2>9, <2>10, <2>11,
       <2>12, <2>13, <2>14, <2>15, <2>16, <2>17, <2>18, <2>19, <2>20, <2>21,
       <2>22, <2>23, <2>24, <2>25, <2>26
       DEF Next, WorkerStep, ApiStep, Command
<1>2. QED
  BY <1>1

(* Every step keeps the API process in its domain.                         *)
LEMMA ApiTypes ==
  Consistent /\ Next => ApiTypeOK'
<1>1. ASSUME Consistent, Next
      PROVE  ApiTypeOK'
  <2> USE DEF Consistent, TypeOK, DatabaseTypeOK, JobStatus, WorkersTypeOK,
              ApiTypeOK, MemoryConsistent, TablesConsistent, Exists, Live,
              Idle
  <2>1. ASSUME NEW w \in Workers, Register(w), UNCHANGED <<api, reopened>>
       PROVE  ApiTypeOK'
    BY <1>1, <2>1 DEF Register
  <2>2. ASSUME NEW w \in Workers, Heartbeat(w), UNCHANGED <<api, reopened>>
       PROVE  ApiTypeOK'
    BY <1>1, <2>2 DEF Heartbeat
  <2>3. ASSUME NEW w \in Workers, HeartbeatExpires(w),
                UNCHANGED <<api, reopened>>
       PROVE  ApiTypeOK'
    BY <1>1, <2>3 DEF HeartbeatExpires
  <2>4. ASSUME NEW w \in Workers, Shutdown(w), UNCHANGED <<api, reopened>>
       PROVE  ApiTypeOK'
    BY <1>1, <2>4 DEF Shutdown
  <2>5. ASSUME NEW w \in Workers, Exit(w), UNCHANGED <<api, reopened>>
       PROVE  ApiTypeOK'
    BY <1>1, <2>5 DEF Exit
  <2>6. ASSUME NEW w \in Workers, Crash(w), UNCHANGED <<api, reopened>>
       PROVE  ApiTypeOK'
    BY <1>1, <2>6 DEF Crash
  <2>6a. ASSUME NEW w \in Workers, NEW e \in Execs, FailSwallowed(w, e),
                UNCHANGED <<api, reopened>>
        PROVE  ApiTypeOK'
    BY <1>1, <2>6a DEF FailSwallowed, Settle
  <2>7. ASSUME NEW w \in Workers, NEW j \in Jobs, ClaimSelect(w, j),
                UNCHANGED <<api, reopened>>
       PROVE  ApiTypeOK'
    BY <1>1, <2>7 DEF ClaimSelect
  <2>8. ASSUME NEW w \in Workers, ClaimUpdate(w),
                UNCHANGED <<api, reopened>>
       PROVE  ApiTypeOK'
    BY <1>1, <2>8 DEF ClaimUpdate, ClaimRow
  <2>9. ASSUME NEW w \in Workers, ClaimBusy(w), UNCHANGED <<api, reopened>>
       PROVE  ApiTypeOK'
    BY <1>1, <2>9 DEF ClaimBusy
  <2>10. ASSUME NEW w \in Workers, Start(w), UNCHANGED <<api, reopened>>
       PROVE  ApiTypeOK'
    BY <1>1, <2>10 DEF Start, StartRow
  <2>11. ASSUME NEW w \in Workers, NEW e \in Execs, Complete(w, e),
                UNCHANGED <<api, reopened>>
       PROVE  ApiTypeOK'
    BY <1>1, <2>11 DEF Complete, CompleteRow
  <2>12. ASSUME NEW w \in Workers, NEW e \in Execs, CompleteLogFails(w, e),
                UNCHANGED <<api, reopened>>
       PROVE  ApiTypeOK'
    BY <1>1, <2>12 DEF CompleteLogFails, CompleteRow
  <2>13. ASSUME NEW w \in Workers, NEW e \in Execs, FailRead(w, e),
                UNCHANGED <<api, reopened>>
       PROVE  ApiTypeOK'
    BY <1>1, <2>13 DEF FailRead, FailExecRow
  <2>14. ASSUME NEW w \in Workers, FailWrite(w), UNCHANGED <<api, reopened>>
       PROVE  ApiTypeOK'
    BY <1>1, <2>14 DEF FailWrite, RequeueRow, BuryRow
  <2>15. ASSUME NEW j \in Jobs, NEW kind \in Kinds, NEW parents \in SUBSET Jobs,
                Create(j, kind[1], kind[2], parents)
       PROVE  ApiTypeOK'
    BY <1>1, <2>15 DEF Create, InsertJob, Exists
  <2>16. ASSUME NEW b \in Batches, CreateBatch(b) PROVE ApiTypeOK'
    BY <1>1, <2>16 DEF CreateBatch, InsertBatch, JobsOf
  <2>17. ASSUME NEW j \in Jobs, RetryJob(j) PROVE ApiTypeOK'
    BY <1>1, <2>17 DEF RetryJob, Reopen, RetryRow, Exists
  <2>18. ASSUME NEW j \in Jobs, CancelJob(j) PROVE ApiTypeOK'
    BY <1>1, <2>18 DEF CancelJob, CancelRow
  <2>19. ASSUME NEW j \in Jobs, NEW p \in Jobs, AddDependency(j, p)
       PROVE  ApiTypeOK'
    BY <1>1, <2>19 DEF AddDependency, LinkRow
  <2>20. ASSUME NEW e \in Execs, DlqMark(e) PROVE ApiTypeOK'
    BY <1>1, <2>20 DEF DlqMark, ResolveRow
  <2>21. ASSUME DlqRequeue PROVE ApiTypeOK'
    BY <1>1, <2>21 DEF DlqRequeue, Reopen, RetryRow, Exists
  <2>22. ASSUME NEW e \in Execs, DlqIgnore(e) PROVE ApiTypeOK'
    BY <1>1, <2>22 DEF DlqIgnore, ResolveRow
  <2>23. ASSUME ApiCrash PROVE ApiTypeOK'
    BY <1>1, <2>23 DEF ApiCrash
  <2>24. ASSUME Reap PROVE ApiTypeOK'
    BY <1>1, <2>24 DEF Reap
  <2>25. ASSUME PromoteScheduled PROVE ApiTypeOK'
    BY <1>1, <2>25 DEF PromoteScheduled
  <2>26. ASSUME NEW j \in Jobs, RunAtArrives(j) PROVE ApiTypeOK'
    BY <1>1, <2>26 DEF RunAtArrives
  <2>27. QED
    BY <1>1, <2>1, <2>2, <2>3, <2>4, <2>5, <2>6, <2>6a, <2>7, <2>8, <2>9, <2>10, <2>11,
       <2>12, <2>13, <2>14, <2>15, <2>16, <2>17, <2>18, <2>19, <2>20, <2>21,
       <2>22, <2>23, <2>24, <2>25, <2>26
       DEF Next, WorkerStep, ApiStep, Command
<1>2. QED
  BY <1>1

(* Consistent holds initially.                                             *)
LEMMA ConsistentInit == Init => Consistent
<1>1. Init => DatabaseTypeOK
  BY DEF Init, DatabaseInit, DatabaseTypeOK, JobStatus
<1>2. Init => WorkersTypeOK /\ ApiTypeOK
  BY DEF Init, WorkersInit, WorkersTypeOK, ApiInit, ApiTypeOK
<1>3. Init => MemoryConsistent /\ TablesConsistent
  BY DEF Init, DatabaseInit, WorkersInit, ApiInit, MemoryConsistent,
         TablesConsistent
<1>4. QED
  BY <1>1, <1>2, <1>3 DEF Consistent, TypeOK

(* Every step keeps it.                                                    *)
LEMMA ConsistentStep == Consistent /\ [Next]_vars => Consistent'
<1>1. ASSUME Consistent, [Next]_vars
      PROVE  Consistent'
  <2>1. CASE Next
    BY <1>1, <2>1, DatabaseTypes, WorkersTypes, ApiTypes, MemoryStep, TablesStep
       DEF Consistent, TypeOK
  <2>2. CASE UNCHANGED vars
    BY <1>1, <2>2 DEF Consistent, TypeOK, DatabaseTypeOK, WorkersTypeOK,
       ApiTypeOK, MemoryConsistent, TablesConsistent, Live, Exists
  <2>3. QED
    BY <1>1, <2>1, <2>2
<1>2. QED
  BY <1>1

(* Consistent is an invariant.                                             *)
LEMMA Consistency == Spec => []Consistent
  BY ConsistentInit, ConsistentStep, PTL DEF Spec

(* TypeOK: every column and variable stays in its domain, for any number   *)
(* of jobs, workers and executions and any set of commands and failures.   *)
THEOREM TypeCorrect == Spec => []TypeOK
<1>1. Consistent => TypeOK
  BY DEF Consistent
<1>2. QED
  BY <1>1, Consistency, PTL

-----------------------------------------------------------------------------
(***************************************************************************)
(* The locks: LockBacked, OwnershipIntact, ClaimsValid, and the refinement *)
(* of Lease. The argument turns on ClaimGrounds: a claim commits only on a *)
(* snapshot nobody has written behind, so what its SELECT read still       *)
(* holds; a job that is queued or scheduled has no lock (LocksSound) and,  *)
(* undisturbed, is in nobody's hands (OwnershipIntact itself).             *)
(***************************************************************************)

(* Every step keeps locks where they belong.                               *)
LEMMA LockStep ==
  Consistent /\ LocksSound /\ Next => LocksSound'
<1>1. ASSUME Consistent, LocksSound, Next
      PROVE  LocksSound'
  <2> USE DEF Consistent, TypeOK, DatabaseTypeOK, WorkersTypeOK, LocksSound,
              Locking
  <2>1. ASSUME NEW w \in Workers, Register(w) PROVE LocksSound'
    BY <1>1, <2>1 DEF Register
  <2>2. ASSUME NEW w \in Workers, Heartbeat(w) PROVE LocksSound'
    BY <1>1, <2>2 DEF Heartbeat
  <2>3. ASSUME NEW w \in Workers, HeartbeatExpires(w) PROVE LocksSound'
    BY <1>1, <2>3 DEF HeartbeatExpires
  <2>4. ASSUME NEW w \in Workers, Shutdown(w) PROVE LocksSound'
    BY <1>1, <2>4 DEF Shutdown
  <2>5. ASSUME NEW w \in Workers, Exit(w) PROVE LocksSound'
    BY <1>1, <2>5 DEF Exit, LoseMemory, Live
  <2>6. ASSUME NEW w \in Workers, Crash(w) PROVE LocksSound'
    BY <1>1, <2>6 DEF Crash, LoseMemory
  <2>6a. ASSUME NEW w \in Workers, NEW e \in Execs, FailSwallowed(w, e)
        PROVE  LocksSound'
    BY <1>1, <2>6a DEF FailSwallowed, Settle
  <2>7. ASSUME NEW w \in Workers, NEW j \in Jobs, ClaimSelect(w, j)
       PROVE  LocksSound'
    BY <1>1, <2>7 DEF ClaimSelect
  <2>8. ASSUME NEW w \in Workers, ClaimUpdate(w) PROVE LocksSound'
    <3>1. cand[w] \in Jobs /\ proc[w] # "new"
      BY <1>1, <2>8 DEF ClaimUpdate, MemoryConsistent, Live
    <3>2. QED
      BY <1>1, <2>8, <3>1 DEF ClaimUpdate, ClaimRow
  <2>9. ASSUME NEW w \in Workers, ClaimBusy(w) PROVE LocksSound'
    BY <1>1, <2>9 DEF ClaimBusy
  <2>10. ASSUME NEW w \in Workers, Start(w) PROVE LocksSound'
    BY <1>1, <2>10 DEF Start, StartRow, Consistent, TablesConsistent, MemoryConsistent, Live, Idle
  <2>11. ASSUME NEW w \in Workers, NEW e \in Execs, Complete(w, e)
       PROVE  LocksSound'
    BY <1>1, <2>11 DEF Complete, CompleteRow
  <2>12. ASSUME NEW w \in Workers, NEW e \in Execs, CompleteLogFails(w, e)
       PROVE  LocksSound'
    BY <1>1, <2>12 DEF CompleteLogFails, CompleteRow
  <2>13. ASSUME NEW w \in Workers, NEW e \in Execs, FailRead(w, e)
       PROVE  LocksSound'
    BY <1>1, <2>13 DEF FailRead, FailExecRow
  <2>14. ASSUME NEW w \in Workers, FailWrite(w) PROVE LocksSound'
    <3>1. /\ exJob[cur[w]] \in Jobs /\ cur[w] \in Execs /\ cur[w] \in runs[w]
          /\ Live(w) /\ pc[w] = "failing" /\ seen[w] + 1 \in Nat
      BY <1>1, <2>14 DEF FailWrite, MemoryConsistent, Live
    <3>2. CASE RequeueRow(exJob[cur[w]], seen[w] + 1)
      BY <1>1, <2>14, <3>1, <3>2 DEF FailWrite, RequeueRow, MemoryConsistent, Live
    <3>3. CASE BuryRow(exJob[cur[w]], cur[w], seen[w] + 1)
      BY <1>1, <2>14, <3>1, <3>3 DEF FailWrite, BuryRow, MemoryConsistent, Live
    <3>4. QED
      BY <2>14, <3>2, <3>3 DEF FailWrite
  <2>15. ASSUME NEW j \in Jobs, NEW kind \in Kinds, NEW parents \in SUBSET Jobs,
                Create(j, kind[1], kind[2], parents)
       PROVE  LocksSound'
    <3>1. /\ status[j] = "absent" /\ UNCHANGED <<lockedBy, proc>>
          /\ \A k \in Jobs : k # j => status'[k] = status[k]
      BY <1>1, <2>15 DEF Create, InsertJob, Exists
    <3>2. QED
      BY <1>1, <3>1
  <2>16. ASSUME NEW b \in Batches, CreateBatch(b) PROVE LocksSound'
    <3>1. \A k \in Jobs : BatchOf[k] = b => status[k] = "absent"
      BY <1>1, <2>16 DEF CreateBatch, InsertBatch, TablesConsistent
    <3>2. QED
      BY <1>1, <2>16, <3>1 DEF CreateBatch, InsertBatch
  <2>17. ASSUME NEW j \in Jobs, RetryJob(j) PROVE LocksSound'
    BY <1>1, <2>17 DEF RetryJob, Reopen, RetryRow, Exists
  <2>18. ASSUME NEW j \in Jobs, CancelJob(j) PROVE LocksSound'
    BY <1>1, <2>18 DEF CancelJob, CancelRow
  <2>19. ASSUME NEW j \in Jobs, NEW p \in Jobs, AddDependency(j, p)
       PROVE  LocksSound'
    BY <1>1, <2>19 DEF AddDependency, LinkRow
  <2>20. ASSUME NEW e \in Execs, DlqMark(e) PROVE LocksSound'
    BY <1>1, <2>20 DEF DlqMark, ResolveRow
  <2>21. ASSUME DlqRequeue PROVE LocksSound'
    BY <1>1, <2>21 DEF DlqRequeue, Reopen, RetryRow, Exists
  <2>22. ASSUME NEW e \in Execs, DlqIgnore(e) PROVE LocksSound'
    BY <1>1, <2>22 DEF DlqIgnore, ResolveRow
  <2>23. ASSUME ApiCrash PROVE LocksSound'
    BY <1>1, <2>23 DEF ApiCrash
  <2>24. ASSUME Reap PROVE LocksSound'
    BY <1>1, <2>24 DEF Reap, Orphans
  <2>25. ASSUME PromoteScheduled PROVE LocksSound'
    BY <1>1, <2>25 DEF PromoteScheduled
  <2>26. ASSUME NEW j \in Jobs, RunAtArrives(j) PROVE LocksSound'
    BY <1>1, <2>26 DEF RunAtArrives
  <2>27. QED
    BY <1>1, <2>1, <2>2, <2>3, <2>4, <2>5, <2>6, <2>6a, <2>7, <2>8, <2>9, <2>10, <2>11,
       <2>12, <2>13, <2>14, <2>15, <2>16, <2>17, <2>18, <2>19, <2>20, <2>21,
       <2>22, <2>23, <2>24, <2>25, <2>26
       DEF Next, WorkerStep, ApiStep, Command
<1>2. QED
  BY <1>1

(* Every step keeps the grounds of the claims in progress, or ends them.   *)
LEMMA GroundsStep ==
  Consistent /\ ClaimGrounds /\ Next => ClaimGrounds'
<1>1. ASSUME Consistent, ClaimGrounds, Next
      PROVE  ClaimGrounds'
  <2> USE DEF Consistent, TypeOK, DatabaseTypeOK, JobStatus, WorkersTypeOK,
              ApiTypeOK, ClaimGrounds, Claimable, Exists
  <2>1. ASSUME NEW w \in Workers, Register(w) PROVE ClaimGrounds'
    BY <1>1, <2>1 DEF Register
  <2>2. ASSUME NEW w \in Workers, Heartbeat(w) PROVE ClaimGrounds'
    BY <1>1, <2>2 DEF Heartbeat
  <2>3. ASSUME NEW w \in Workers, HeartbeatExpires(w) PROVE ClaimGrounds'
    BY <1>1, <2>3 DEF HeartbeatExpires
  <2>4. ASSUME NEW w \in Workers, Shutdown(w) PROVE ClaimGrounds'
    BY <1>1, <2>4 DEF Shutdown
  <2>5. ASSUME NEW w \in Workers, Exit(w) PROVE ClaimGrounds'
    BY <1>1, <2>5 DEF Exit
  <2>6. ASSUME NEW w \in Workers, Crash(w) PROVE ClaimGrounds'
    BY <1>1, <2>6 DEF Crash, LoseMemory
  <2>6a. ASSUME NEW w \in Workers, NEW e \in Execs, FailSwallowed(w, e)
        PROVE  ClaimGrounds'
    BY <1>1, <2>6a DEF FailSwallowed, Settle, Idle, Live
  <2>7. ASSUME NEW w \in Workers, NEW j \in Jobs, ClaimSelect(w, j)
       PROVE  ClaimGrounds'
    BY <1>1, <2>7 DEF ClaimSelect, Candidate
  <2>8. ASSUME NEW w \in Workers, ClaimUpdate(w) PROVE ClaimGrounds'
    BY <1>1, <2>8 DEF ClaimUpdate, ClaimRow
  <2>9. ASSUME NEW w \in Workers, ClaimBusy(w) PROVE ClaimGrounds'
    BY <1>1, <2>9 DEF ClaimBusy
  <2>10. ASSUME NEW w \in Workers, Start(w) PROVE ClaimGrounds'
    BY <1>1, <2>10 DEF Start, StartRow
  <2>11. ASSUME NEW w \in Workers, NEW e \in Execs, Complete(w, e)
       PROVE  ClaimGrounds'
    BY <1>1, <2>11 DEF Complete, CompleteRow
  <2>12. ASSUME NEW w \in Workers, NEW e \in Execs, CompleteLogFails(w, e)
       PROVE  ClaimGrounds'
    BY <1>1, <2>12 DEF CompleteLogFails, CompleteRow
  <2>13. ASSUME NEW w \in Workers, NEW e \in Execs, FailRead(w, e)
       PROVE  ClaimGrounds'
    BY <1>1, <2>13 DEF FailRead, FailExecRow
  <2>14. ASSUME NEW w \in Workers, FailWrite(w) PROVE ClaimGrounds'
    BY <1>1, <2>14 DEF FailWrite, RequeueRow, BuryRow
  <2>15. ASSUME NEW j \in Jobs, NEW kind \in Kinds, NEW parents \in SUBSET Jobs,
                Create(j, kind[1], kind[2], parents)
       PROVE  ClaimGrounds'
    BY <1>1, <2>15 DEF Create, InsertJob, Exists
  <2>16. ASSUME NEW b \in Batches, CreateBatch(b) PROVE ClaimGrounds'
    BY <1>1, <2>16 DEF CreateBatch, InsertBatch, JobsOf
  <2>17. ASSUME NEW j \in Jobs, RetryJob(j) PROVE ClaimGrounds'
    BY <1>1, <2>17 DEF RetryJob, Reopen, RetryRow, Exists
  <2>18. ASSUME NEW j \in Jobs, CancelJob(j) PROVE ClaimGrounds'
    BY <1>1, <2>18 DEF CancelJob, CancelRow
  <2>19. ASSUME NEW j \in Jobs, NEW p \in Jobs, AddDependency(j, p)
       PROVE  ClaimGrounds'
    BY <1>1, <2>19 DEF AddDependency, LinkRow
  <2>20. ASSUME NEW e \in Execs, DlqMark(e) PROVE ClaimGrounds'
    BY <1>1, <2>20 DEF DlqMark, ResolveRow
  <2>21. ASSUME DlqRequeue PROVE ClaimGrounds'
    BY <1>1, <2>21 DEF DlqRequeue, Reopen, RetryRow, Exists
  <2>22. ASSUME NEW e \in Execs, DlqIgnore(e) PROVE ClaimGrounds'
    BY <1>1, <2>22 DEF DlqIgnore, ResolveRow
  <2>23. ASSUME ApiCrash PROVE ClaimGrounds'
    BY <1>1, <2>23 DEF ApiCrash
  <2>24. ASSUME Reap PROVE ClaimGrounds'
    BY <1>1, <2>24 DEF Reap
  <2>25. ASSUME PromoteScheduled PROVE ClaimGrounds'
    BY <1>1, <2>25 DEF PromoteScheduled
  <2>26. ASSUME NEW j \in Jobs, RunAtArrives(j) PROVE ClaimGrounds'
    BY <1>1, <2>26 DEF RunAtArrives
  <2>27. QED
    BY <1>1, <2>1, <2>2, <2>3, <2>4, <2>5, <2>6, <2>6a, <2>7, <2>8, <2>9, <2>10, <2>11,
       <2>12, <2>13, <2>14, <2>15, <2>16, <2>17, <2>18, <2>19, <2>20, <2>21,
       <2>22, <2>23, <2>24, <2>25, <2>26
       DEF Next, WorkerStep, ApiStep, Command
<1>2. QED
  BY <1>1

(* A lock on a claimed job is held by a worker that is about to start it,  *)
(* and one whose completeJob has committed holds the job no more.          *)
ClaimsHeld ==
    \A w \in Workers :
        /\ \A j \in Jobs : lockedBy[j] = w /\ Live(w) /\ status[j] = "claimed" =>
              pc[w] = "claimed" /\ cand[w] = j
        /\ pc[w] = "caught" => lockedBy[exJob[cur[w]]] # w

(* Every step keeps it so.                                                 *)
LEMMA HeldStep ==
  Consistent /\ LocksSound /\ ClaimGrounds /\ ClaimsHeld /\ Next => ClaimsHeld'
<1>1. ASSUME Consistent, LocksSound, ClaimGrounds, ClaimsHeld, Next
      PROVE  ClaimsHeld'
  <2> USE DEF Consistent, TypeOK, DatabaseTypeOK, JobStatus, WorkersTypeOK,
              ApiTypeOK, MemoryConsistent, TablesConsistent, Exists, Live,
              Idle, LocksSound, ClaimsHeld, ClaimGrounds, Claimable
  <2>1. ASSUME NEW w \in Workers, Register(w) PROVE ClaimsHeld'
    BY <1>1, <2>1 DEF Register
  <2>2. ASSUME NEW w \in Workers, Heartbeat(w) PROVE ClaimsHeld'
    BY <1>1, <2>2 DEF Heartbeat
  <2>3. ASSUME NEW w \in Workers, HeartbeatExpires(w) PROVE ClaimsHeld'
    BY <1>1, <2>3 DEF HeartbeatExpires
  <2>4. ASSUME NEW w \in Workers, Shutdown(w) PROVE ClaimsHeld'
    BY <1>1, <2>4 DEF Shutdown
  <2>5. ASSUME NEW w \in Workers, Exit(w) PROVE ClaimsHeld'
    BY <1>1, <2>5 DEF Exit, LoseMemory
  <2>6. ASSUME NEW w \in Workers, Crash(w) PROVE ClaimsHeld'
    BY <1>1, <2>6 DEF Crash, LoseMemory
  <2>6a. ASSUME NEW w \in Workers, NEW e \in Execs, FailSwallowed(w, e)
        PROVE  ClaimsHeld'
    BY <1>1, <2>6a DEF FailSwallowed, Settle
  <2>7. ASSUME NEW w \in Workers, NEW j \in Jobs, ClaimSelect(w, j)
       PROVE  ClaimsHeld'
    BY <1>1, <2>7 DEF ClaimSelect
  <2>8. ASSUME NEW w \in Workers, ClaimUpdate(w) PROVE ClaimsHeld'
    BY <1>1, <2>8 DEF ClaimUpdate, ClaimRow
  <2>9. ASSUME NEW w \in Workers, ClaimBusy(w) PROVE ClaimsHeld'
    BY <1>1, <2>9 DEF ClaimBusy
  <2>10. ASSUME NEW w \in Workers, Start(w) PROVE ClaimsHeld'
    BY <1>1, <2>10 DEF Start, StartRow
  <2>11. ASSUME NEW w \in Workers, NEW e \in Execs, Complete(w, e)
       PROVE  ClaimsHeld'
    BY <1>1, <2>11 DEF Complete, CompleteRow, Settle
  <2>12. ASSUME NEW w \in Workers, NEW e \in Execs, CompleteLogFails(w, e)
       PROVE  ClaimsHeld'
    BY <1>1, <2>12 DEF CompleteLogFails, CompleteRow
  <2>13. ASSUME NEW w \in Workers, NEW e \in Execs, FailRead(w, e)
       PROVE  ClaimsHeld'
    BY <1>1, <2>13 DEF FailRead, FailExecRow
  <2>14. ASSUME NEW w \in Workers, FailWrite(w) PROVE ClaimsHeld'
    <3>1. /\ exJob[cur[w]] \in Jobs /\ cur[w] \in Execs /\ cur[w] \in runs[w]
          /\ Live(w) /\ pc[w] = "failing" /\ seen[w] + 1 \in Nat
      BY <1>1, <2>14 DEF FailWrite, MemoryConsistent, Live
    <3>2. CASE RequeueRow(exJob[cur[w]], seen[w] + 1)
      BY <1>1, <2>14, <3>1, <3>2 DEF FailWrite, RequeueRow, Settle
    <3>3. CASE BuryRow(exJob[cur[w]], cur[w], seen[w] + 1)
      BY <1>1, <2>14, <3>1, <3>3 DEF FailWrite, BuryRow, Settle
    <3>4. QED
      BY <2>14, <3>2, <3>3 DEF FailWrite
  <2>15. ASSUME NEW j \in Jobs, NEW kind \in Kinds, NEW parents \in SUBSET Jobs,
                Create(j, kind[1], kind[2], parents)
       PROVE  ClaimsHeld'
    <3>1. kind[1] # "claimed"
      BY <2>15
    <3>2. QED
      BY <1>1, <2>15, <3>1 DEF Create, InsertJob, Exists
  <2>16. ASSUME NEW b \in Batches, CreateBatch(b) PROVE ClaimsHeld'
    BY <1>1, <2>16 DEF CreateBatch, InsertBatch, JobsOf
  <2>17. ASSUME NEW j \in Jobs, RetryJob(j) PROVE ClaimsHeld'
    BY <1>1, <2>17 DEF RetryJob, Reopen, RetryRow, Exists
  <2>18. ASSUME NEW j \in Jobs, CancelJob(j) PROVE ClaimsHeld'
    BY <1>1, <2>18 DEF CancelJob, CancelRow
  <2>19. ASSUME NEW j \in Jobs, NEW p \in Jobs, AddDependency(j, p)
       PROVE  ClaimsHeld'
    BY <1>1, <2>19 DEF AddDependency, LinkRow
  <2>20. ASSUME NEW e \in Execs, DlqMark(e) PROVE ClaimsHeld'
    BY <1>1, <2>20 DEF DlqMark, ResolveRow
  <2>21. ASSUME DlqRequeue PROVE ClaimsHeld'
    BY <1>1, <2>21 DEF DlqRequeue, Reopen, RetryRow, Exists
  <2>22. ASSUME NEW e \in Execs, DlqIgnore(e) PROVE ClaimsHeld'
    BY <1>1, <2>22 DEF DlqIgnore, ResolveRow
  <2>23. ASSUME ApiCrash PROVE ClaimsHeld'
    BY <1>1, <2>23 DEF ApiCrash
  <2>24. ASSUME Reap PROVE ClaimsHeld'
    BY <1>1, <2>24 DEF Reap, Orphans, Locking
  <2>25. ASSUME PromoteScheduled PROVE ClaimsHeld'
    BY <1>1, <2>25 DEF PromoteScheduled
  <2>26. ASSUME NEW j \in Jobs, RunAtArrives(j) PROVE ClaimsHeld'
    BY <1>1, <2>26 DEF RunAtArrives
  <2> HIDE DEF ClaimsHeld, Live
  <2>27. QED
    BY <1>1, <2>1, <2>2, <2>3, <2>4, <2>5, <2>6, <2>6a, <2>7, <2>8, <2>9, <2>10, <2>11,
       <2>12, <2>13, <2>14, <2>15, <2>16, <2>17, <2>18, <2>19, <2>20, <2>21,
       <2>22, <2>23, <2>24, <2>25, <2>26
       DEF Next, WorkerStep, ApiStep, Command
<1>2. QED
  BY <1>1

(* Every step keeps the locks of living workers backed.                    *)
LEMMA BackedStep ==
  Consistent /\ LocksSound /\ ClaimGrounds /\ ClaimsHeld /\ LockBacked /\ Next => LockBacked'
<1>1. ASSUME Consistent, LocksSound, ClaimGrounds, ClaimsHeld,
             LockBacked, Next
      PROVE  LockBacked'
  <2> USE DEF Consistent, TypeOK, DatabaseTypeOK, JobStatus, WorkersTypeOK,
              ApiTypeOK, MemoryConsistent, TablesConsistent, Exists, Live,
              Idle, LocksSound, LockBacked, InHand, Dropped
  <2>1. ASSUME NEW w \in Workers, Register(w) PROVE LockBacked'
    BY <1>1, <2>1 DEF Register
  <2>2. ASSUME NEW w \in Workers, Heartbeat(w) PROVE LockBacked'
    BY <1>1, <2>2 DEF Heartbeat
  <2>3. ASSUME NEW w \in Workers, HeartbeatExpires(w) PROVE LockBacked'
    BY <1>1, <2>3 DEF HeartbeatExpires
  <2>4. ASSUME NEW w \in Workers, Shutdown(w) PROVE LockBacked'
    BY <1>1, <2>4 DEF Shutdown
  <2>5. ASSUME NEW w \in Workers, Exit(w) PROVE LockBacked'
    BY <1>1, <2>5 DEF Exit, LoseMemory
  <2>6. ASSUME NEW w \in Workers, Crash(w) PROVE LockBacked'
    BY <1>1, <2>6 DEF Crash, LoseMemory
  <2>6a. ASSUME NEW w \in Workers, NEW e \in Execs, FailSwallowed(w, e)
        PROVE  LockBacked'
    <3>1. /\ e \in runs[w] /\ e \in waiting[w] /\ pc[w] # "claimed" /\ pc'[w] = "idle"
          /\ UNCHANGED <<dbVars, proc, cand, waiting>>
          /\ \A v \in Workers \ {w} : pc'[v] = pc[v]
          /\ runs' = [runs EXCEPT ![w] = @ \ {e}]
      BY <1>1, <2>6a DEF FailSwallowed, Settle
    <3>2. (pc[w] = "caught" /\ e = cur[w]) \/ exStatus[e] \in {"running", "failed"}
      BY <1>1, <2>6a, <3>1 DEF FailSwallowed
    <3>3. ASSUME NEW j \in Jobs, lockedBy[j] = w, exJob[e] = j, Live(w)
          PROVE  status[j] = "running" /\ exStatus[e] # "completed"
      BY <1>1, <3>1, <3>2, <3>3 DEF Locking, ClaimsHeld
    <3>4. ASSUME NEW j \in Jobs, lockedBy[j] = w, Live(w)
          PROVE  InHand(w, j)' \/ Dropped(w, j)'
      <4>1. CASE exJob[e] = j
        <5>1. proc[w] = "draining"
          BY <1>1, <3>1, <3>4
        <5>2. QED
          BY <1>1, <3>1, <3>3, <3>4, <4>1, <5>1
      <4>2. CASE exJob[e] # j
        BY <1>1, <3>1, <3>4, <4>2
      <4>3. QED
        BY <4>1, <4>2
    <3>5. ASSUME NEW j \in Jobs, NEW v \in Workers, v # w, lockedBy[j] = v, Live(v)
          PROVE  InHand(v, j)' \/ Dropped(v, j)'
      BY <1>1, <3>1, <3>5
    <3>6. QED
      BY <3>1, <3>4, <3>5
  <2>7. ASSUME NEW w \in Workers, NEW j \in Jobs, ClaimSelect(w, j)
       PROVE  LockBacked'
    BY <1>1, <2>7 DEF ClaimSelect
  <2>8. ASSUME NEW w \in Workers, ClaimUpdate(w) PROVE LockBacked'
    BY <1>1, <2>8 DEF ClaimUpdate, ClaimRow
  <2>9. ASSUME NEW w \in Workers, ClaimBusy(w) PROVE LockBacked'
    BY <1>1, <2>9 DEF ClaimBusy
  <2>10. ASSUME NEW w \in Workers, Start(w) PROVE LockBacked'
    <3>1. /\ cand[w] \in Jobs /\ NextExec \in Execs /\ exStatus[NextExec] = "none"
          /\ \A d \in Execs : exStatus[d] # "none" =>
                exJob'[d] = exJob[d] /\ exStatus'[d] = exStatus[d]
          /\ status' = [status EXCEPT ![cand[w]] = "running"]
          /\ UNCHANGED <<lockedBy, proc, waiting>>
      BY <1>1, <2>10 DEF Start, StartRow
    <3>2. \A v \in Workers, d \in Execs : d \in runs[v] \cup waiting[v] => exStatus[d] # "none"
      BY <1>1
    <3>3. ASSUME NEW j \in Jobs, NEW v \in Workers, lockedBy[j] = v, Live(v), Dropped(v, j)
          PROVE  Dropped(v, j)'
      <4>1. PICK d \in waiting[v] \ runs[v] : exJob[d] = j /\ exStatus[d] # "completed"
        BY <3>3
      <4>2. d \in Execs /\ exStatus[d] # "none" /\ d # NextExec
        BY <1>1, <3>1, <3>2, <4>1
      <4>3. runs' = [runs EXCEPT ![w] = @ \cup {NextExec}]
        BY <2>10 DEF Start
      <4>4. d \in waiting'[v] \ runs'[v] /\ exJob'[d] = j /\ exStatus'[d] # "completed"
        <5> HIDE DEF MemoryConsistent, LockBacked, Dropped, InHand
        <5>1. QED
          BY <1>1, <3>1, <4>1, <4>2, <4>3
      <4>5. proc'[v] = "draining" /\ status'[j] = "running"
        <5> HIDE DEF MemoryConsistent, LockBacked, InHand
        <5>1. QED
          BY <1>1, <3>1, <3>3
      <4>6. QED
        BY <4>4, <4>5
    <3>4. ASSUME NEW j \in Jobs, NEW v \in Workers, lockedBy[j] = v, Live(v), InHand(v, j)
          PROVE  InHand(v, j)'
      <4>1. CASE pc[v] = "claimed" /\ cand[v] = j /\ v = w
        <5>1. exJob'[NextExec] = j /\ NextExec \in runs'[w]
          BY <1>1, <2>10, <3>1, <4>1 DEF Start, StartRow
        <5>2. QED
          BY <4>1, <5>1
      <4>2. CASE pc[v] = "claimed" /\ cand[v] = j /\ v # w
        BY <1>1, <2>10, <4>2 DEF Start
      <4>3. CASE \E d \in runs[v] : exJob[d] = j
        <5>1. PICK d \in runs[v] : exJob[d] = j
          BY <4>3
        <5>2. d \in runs'[v] /\ exJob'[d] = j
          <6>1. d \in Execs /\ exJob'[d] = exJob[d]
            BY <1>1, <3>1, <3>2, <5>1
          <6>2. QED
            BY <1>1, <2>10, <5>1, <6>1 DEF Start
        <5>3. QED
          BY <5>2
      <4>4. QED
        BY <3>4, <4>1, <4>2, <4>3
    <3>5. ASSUME NEW j \in Jobs, NEW v \in Workers, lockedBy'[j] = v, Live(v)'
          PROVE  InHand(v, j)' \/ Dropped(v, j)'
      <4>1. lockedBy[j] = v /\ Live(v)
        BY <3>1, <3>5
      <4>2. CASE InHand(v, j)
        BY <3>4, <4>1, <4>2
      <4>3. CASE Dropped(v, j)
        BY <3>3, <4>1, <4>3
      <4>4. InHand(v, j) \/ Dropped(v, j)
        BY <1>1, <4>1
      <4>5. QED
        BY <4>2, <4>3, <4>4
    <3>6. QED
      BY <3>5
  <2>11. ASSUME NEW w \in Workers, NEW e \in Execs, Complete(w, e)
       PROVE  LockBacked'
    BY <1>1, <2>11 DEF Complete, CompleteRow, Settle
  <2>12. ASSUME NEW w \in Workers, NEW e \in Execs, CompleteLogFails(w, e)
       PROVE  LockBacked'
    BY <1>1, <2>12 DEF CompleteLogFails, CompleteRow
  <2>13. ASSUME NEW w \in Workers, NEW e \in Execs, FailRead(w, e)
       PROVE  LockBacked'
    BY <1>1, <2>13 DEF FailRead, FailExecRow
  <2>14. ASSUME NEW w \in Workers, FailWrite(w) PROVE LockBacked'
    <3>1. /\ exJob[cur[w]] \in Jobs /\ cur[w] \in Execs /\ cur[w] \in runs[w]
          /\ Live(w) /\ pc[w] = "failing" /\ seen[w] + 1 \in Nat
      BY <1>1, <2>14 DEF FailWrite, MemoryConsistent, Live
    <3>2. CASE RequeueRow(exJob[cur[w]], seen[w] + 1)
      BY <1>1, <2>14, <3>1, <3>2 DEF FailWrite, RequeueRow, Settle
    <3>3. CASE BuryRow(exJob[cur[w]], cur[w], seen[w] + 1)
      BY <1>1, <2>14, <3>1, <3>3 DEF FailWrite, BuryRow, Settle
    <3>4. QED
      BY <2>14, <3>2, <3>3 DEF FailWrite
  <2>15. ASSUME NEW j \in Jobs, NEW kind \in Kinds, NEW parents \in SUBSET Jobs,
                Create(j, kind[1], kind[2], parents)
       PROVE  LockBacked'
    BY <1>1, <2>15 DEF Create, InsertJob, Exists
  <2>16. ASSUME NEW b \in Batches, CreateBatch(b) PROVE LockBacked'
    BY <1>1, <2>16 DEF CreateBatch, InsertBatch, JobsOf
  <2>17. ASSUME NEW j \in Jobs, RetryJob(j) PROVE LockBacked'
    BY <1>1, <2>17 DEF RetryJob, Reopen, RetryRow, Exists
  <2>18. ASSUME NEW j \in Jobs, CancelJob(j) PROVE LockBacked'
    BY <1>1, <2>18 DEF CancelJob, CancelRow
  <2>19. ASSUME NEW j \in Jobs, NEW p \in Jobs, AddDependency(j, p)
       PROVE  LockBacked'
    BY <1>1, <2>19 DEF AddDependency, LinkRow
  <2>20. ASSUME NEW e \in Execs, DlqMark(e) PROVE LockBacked'
    BY <1>1, <2>20 DEF DlqMark, ResolveRow
  <2>21. ASSUME DlqRequeue PROVE LockBacked'
    BY <1>1, <2>21 DEF DlqRequeue, Reopen, RetryRow, Exists
  <2>22. ASSUME NEW e \in Execs, DlqIgnore(e) PROVE LockBacked'
    BY <1>1, <2>22 DEF DlqIgnore, ResolveRow
  <2>23. ASSUME ApiCrash PROVE LockBacked'
    BY <1>1, <2>23 DEF ApiCrash
  <2>24. ASSUME Reap PROVE LockBacked'
    <3>1. /\ \A j \in Jobs : lockedBy'[j] # None =>
                lockedBy'[j] = lockedBy[j] /\ status'[j] = status[j]
          /\ UNCHANGED <<execVars, localVars>>
      BY <1>1, <2>24 DEF Reap, Orphans, Locking
    <3>2. ASSUME NEW j \in Jobs, NEW v \in Workers, lockedBy'[j] = v, Live(v)'
          PROVE  InHand(v, j)' \/ Dropped(v, j)'
      <4>1. lockedBy[j] = v /\ status'[j] = status[j] /\ Live(v)
        BY <3>1, <3>2
      <4>2. InHand(v, j) \/ Dropped(v, j)
        BY <1>1, <4>1
      <4>3. QED
        BY <3>1, <4>1, <4>2
    <3>3. QED
      BY <3>2
  <2>25. ASSUME PromoteScheduled PROVE LockBacked'
    BY <1>1, <2>25 DEF PromoteScheduled
  <2>26. ASSUME NEW j \in Jobs, RunAtArrives(j) PROVE LockBacked'
    BY <1>1, <2>26 DEF RunAtArrives
  <2> HIDE DEF LockBacked, InHand, Dropped, Live
  <2>27. QED
    BY <1>1, <2>1, <2>2, <2>3, <2>4, <2>5, <2>6, <2>6a, <2>7, <2>8, <2>9, <2>10, <2>11,
       <2>12, <2>13, <2>14, <2>15, <2>16, <2>17, <2>18, <2>19, <2>20, <2>21,
       <2>22, <2>23, <2>24, <2>25, <2>26
       DEF Next, WorkerStep, ApiStep, Command
<1>2. QED
  BY <1>1

(* Every step keeps the owner of an undisturbed job its only owner.        *)
LEMMA OwnStep ==
  Consistent /\ ClaimGrounds /\ LocksSound /\ OwnershipIntact /\ Next => OwnershipIntact'
<1>1. ASSUME Consistent, ClaimGrounds, LocksSound, OwnershipIntact, Next
      PROVE  OwnershipIntact'
  <2> USE DEF Consistent, TypeOK, DatabaseTypeOK, JobStatus, WorkersTypeOK,
              ApiTypeOK, MemoryConsistent, TablesConsistent, Exists, Live,
              Idle, ClaimGrounds, Claimable, LocksSound, OwnershipIntact,
              InHand, Locking
  <2>1. ASSUME NEW w \in Workers, Register(w) PROVE OwnershipIntact'
    BY <1>1, <2>1 DEF Register
  <2>2. ASSUME NEW w \in Workers, Heartbeat(w) PROVE OwnershipIntact'
    BY <1>1, <2>2 DEF Heartbeat
  <2>3. ASSUME NEW w \in Workers, HeartbeatExpires(w) PROVE OwnershipIntact'
    BY <1>1, <2>3 DEF HeartbeatExpires
  <2>4. ASSUME NEW w \in Workers, Shutdown(w) PROVE OwnershipIntact'
    BY <1>1, <2>4 DEF Shutdown
  <2>5. ASSUME NEW w \in Workers, Exit(w) PROVE OwnershipIntact'
    BY <1>1, <2>5 DEF Exit, LoseMemory
  <2>6. ASSUME NEW w \in Workers, Crash(w) PROVE OwnershipIntact'
    BY <1>1, <2>6 DEF Crash, LoseMemory
  <2>6a. ASSUME NEW w \in Workers, NEW e \in Execs, FailSwallowed(w, e)
        PROVE  OwnershipIntact'
    BY <1>1, <2>6a DEF FailSwallowed, Settle
  <2>7. ASSUME NEW w \in Workers, NEW j \in Jobs, ClaimSelect(w, j)
       PROVE  OwnershipIntact'
    BY <1>1, <2>7 DEF ClaimSelect
  <2>8. ASSUME NEW w \in Workers, ClaimUpdate(w) PROVE OwnershipIntact'
    <3> DEFINE j == cand[w]
    <3>1. /\ j \in Jobs /\ Claimable(j) /\ pc[w] = "selected"
          /\ status[j] \notin Locking
      BY <1>1, <2>8 DEF ClaimUpdate, ClaimRow
    <3>2. j \notin taken => lockedBy[j] = None /\ \A v \in Workers : ~InHand(v, j)
      BY <1>1, <3>1
    <3>3. QED
      BY <1>1, <2>8, <3>1, <3>2 DEF ClaimUpdate, ClaimRow
  <2>9. ASSUME NEW w \in Workers, ClaimBusy(w) PROVE OwnershipIntact'
    BY <1>1, <2>9 DEF ClaimBusy
  <2>10. ASSUME NEW w \in Workers, Start(w) PROVE OwnershipIntact'
    <3> DEFINE j == cand[w]
               e == NextExec
    <3>1. /\ j \in Jobs /\ e \in Execs /\ pc[w] = "claimed"
          /\ StartRow(j, e) /\ exStatus[e] = "none" /\ exJob[e] = None
          /\ pc' = [pc EXCEPT ![w] = "idle"]
          /\ cand' = [cand EXCEPT ![w] = None]
          /\ runs' = [runs EXCEPT ![w] = runs[w] \cup {e}]
          /\ taken' = taken
      BY <1>1, <2>10 DEF Start, StartRow
    <3> HIDE DEF e
    <3>2. \A v \in Workers : e \notin runs[v]
      BY <1>1, <3>1
    <3>3. j \notin taken => /\ status[j] = "claimed" /\ lockedBy[j] = w
                            /\ \A v \in Workers : \A d \in runs[v] : exJob[d] # j
      BY <1>1, <3>1
    <3>4. QED
      BY <1>1, <3>1, <3>2, <3>3 DEF StartRow
  <2>11. ASSUME NEW w \in Workers, NEW e \in Execs, Complete(w, e)
       PROVE  OwnershipIntact'
    BY <1>1, <2>11 DEF Complete, CompleteRow, Settle
  <2>12. ASSUME NEW w \in Workers, NEW e \in Execs, CompleteLogFails(w, e)
       PROVE  OwnershipIntact'
    BY <1>1, <2>12 DEF CompleteLogFails, CompleteRow
  <2>13. ASSUME NEW w \in Workers, NEW e \in Execs, FailRead(w, e)
       PROVE  OwnershipIntact'
    BY <1>1, <2>13 DEF FailRead, FailExecRow
  <2>14. ASSUME NEW w \in Workers, FailWrite(w) PROVE OwnershipIntact'
    <3>1. /\ exJob[cur[w]] \in Jobs /\ cur[w] \in Execs /\ cur[w] \in runs[w]
          /\ Live(w) /\ pc[w] = "failing" /\ seen[w] + 1 \in Nat
      BY <1>1, <2>14 DEF FailWrite, MemoryConsistent, Live
    <3>2. CASE RequeueRow(exJob[cur[w]], seen[w] + 1)
      BY <1>1, <2>14, <3>1, <3>2 DEF FailWrite, RequeueRow, Settle
    <3>3. CASE BuryRow(exJob[cur[w]], cur[w], seen[w] + 1)
      BY <1>1, <2>14, <3>1, <3>3 DEF FailWrite, BuryRow, Settle
    <3>4. QED
      BY <2>14, <3>2, <3>3 DEF FailWrite
  <2>15. ASSUME NEW j \in Jobs, NEW kind \in Kinds, NEW parents \in SUBSET Jobs,
                Create(j, kind[1], kind[2], parents)
       PROVE  OwnershipIntact'
    <3>1. kind[1] \notin Locking /\ status[j] = "absent"
      BY <2>15 DEF Create, InsertJob, Exists
    <3>2. \A k \in Jobs : status'[k] \in Locking <=> status[k] \in Locking
      BY <1>1, <2>15, <3>1 DEF Create, InsertJob
    <3>3. \A k \in Jobs : status[k] # "absent" => status'[k] = status[k]
      BY <1>1, <2>15, <3>1 DEF Create, InsertJob
    <3>4. QED
      BY <1>1, <2>15, <3>1, <3>2, <3>3 DEF Create, InsertJob
  <2>16. ASSUME NEW b \in Batches, CreateBatch(b) PROVE OwnershipIntact'
    BY <1>1, <2>16 DEF CreateBatch, InsertBatch, JobsOf
  <2>17. ASSUME NEW j \in Jobs, RetryJob(j) PROVE OwnershipIntact'
    BY <1>1, <2>17 DEF RetryJob, Reopen, RetryRow, Exists, TakeFromHands
  <2>18. ASSUME NEW j \in Jobs, CancelJob(j) PROVE OwnershipIntact'
    BY <1>1, <2>18 DEF CancelJob, CancelRow, TakeFromHands
  <2>19. ASSUME NEW j \in Jobs, NEW p \in Jobs, AddDependency(j, p)
       PROVE  OwnershipIntact'
    BY <1>1, <2>19 DEF AddDependency, LinkRow
  <2>20. ASSUME NEW e \in Execs, DlqMark(e) PROVE OwnershipIntact'
    BY <1>1, <2>20 DEF DlqMark, ResolveRow
  <2>21. ASSUME DlqRequeue PROVE OwnershipIntact'
    BY <1>1, <2>21 DEF DlqRequeue, Reopen, RetryRow, Exists, TakeFromHands
  <2>22. ASSUME NEW e \in Execs, DlqIgnore(e) PROVE OwnershipIntact'
    BY <1>1, <2>22 DEF DlqIgnore, ResolveRow
  <2>23. ASSUME ApiCrash PROVE OwnershipIntact'
    BY <1>1, <2>23 DEF ApiCrash
  <2>24. ASSUME Reap PROVE OwnershipIntact'
    BY <1>1, <2>24 DEF Reap, TakeFromHands, Orphans, Locking
  <2>25. ASSUME PromoteScheduled PROVE OwnershipIntact'
    BY <1>1, <2>25 DEF PromoteScheduled
  <2>26. ASSUME NEW j \in Jobs, RunAtArrives(j) PROVE OwnershipIntact'
    BY <1>1, <2>26 DEF RunAtArrives
  <2> HIDE DEF OwnershipIntact
  <2>27. QED
    BY <1>1, <2>1, <2>2, <2>3, <2>4, <2>5, <2>6, <2>6a, <2>7, <2>8, <2>9, <2>10, <2>11,
       <2>12, <2>13, <2>14, <2>15, <2>16, <2>17, <2>18, <2>19, <2>20, <2>21,
       <2>22, <2>23, <2>24, <2>25, <2>26
       DEF Next, WorkerStep, ApiStep, Command
<1>2. QED
  BY <1>1


(* All that a step can do to the locks: free those of a set of jobs, or    *)
(* take one that is free, for a job that may be claimed.                   *)
LocksFreed(S) == lockedBy' = [j \in Jobs |-> IF j \in S THEN None ELSE lockedBy[j]]
LockTaken ==
    \E j \in Jobs, w \in Workers :
        /\ lockedBy[j] = None /\ Claimable(j)
        /\ lockedBy' = [lockedBy EXCEPT ![j] = w]
LockMoves == LockTaken \/ \E S \in SUBSET Jobs : LocksFreed(S)

(* Every step moves the locks in one of these ways.                        *)
LEMMA LocksMove ==
  Consistent /\ ClaimGrounds /\ LocksSound /\ Next => LockMoves
<1>1. ASSUME Consistent, ClaimGrounds, LocksSound, Next
      PROVE  LockMoves
  <2> USE DEF Consistent, TypeOK, DatabaseTypeOK, WorkersTypeOK, ApiTypeOK
  <2>1. ASSUME NEW w \in Workers, Register(w) PROVE LockMoves
    <3>1. LocksFreed({})
      BY <1>1, <2>1 DEF LocksFreed, Register
    <3>2. QED
      BY <3>1 DEF LockMoves
  <2>2. ASSUME NEW w \in Workers, Heartbeat(w) PROVE LockMoves
    <3>1. LocksFreed({})
      BY <1>1, <2>2 DEF LocksFreed, Heartbeat
    <3>2. QED
      BY <3>1 DEF LockMoves
  <2>3. ASSUME NEW w \in Workers, HeartbeatExpires(w) PROVE LockMoves
    <3>1. LocksFreed({})
      BY <1>1, <2>3 DEF LocksFreed, HeartbeatExpires
    <3>2. QED
      BY <3>1 DEF LockMoves
  <2>4. ASSUME NEW w \in Workers, Shutdown(w) PROVE LockMoves
    <3>1. LocksFreed({})
      BY <1>1, <2>4 DEF LocksFreed, Shutdown
    <3>2. QED
      BY <3>1 DEF LockMoves
  <2>5. ASSUME NEW w \in Workers, Exit(w) PROVE LockMoves
    <3>1. LocksFreed({})
      BY <1>1, <2>5 DEF LocksFreed, Exit
    <3>2. QED
      BY <3>1 DEF LockMoves
  <2>6. ASSUME NEW w \in Workers, Crash(w) PROVE LockMoves
    <3>1. LocksFreed({})
      BY <1>1, <2>6 DEF LocksFreed, Crash
    <3>2. QED
      BY <3>1 DEF LockMoves
  <2>6a. ASSUME NEW w \in Workers, NEW e \in Execs, FailSwallowed(w, e)
        PROVE  LockMoves
    <3>1. LocksFreed({})
      BY <1>1, <2>6a DEF LocksFreed, FailSwallowed
    <3>2. QED
      BY <3>1 DEF LockMoves
  <2>7. ASSUME NEW w \in Workers, NEW j \in Jobs, ClaimSelect(w, j)
       PROVE  LockMoves
    <3>1. LocksFreed({})
      BY <1>1, <2>7 DEF LocksFreed, ClaimSelect
    <3>2. QED
      BY <3>1 DEF LockMoves
  <2>8. ASSUME NEW w \in Workers, ClaimUpdate(w) PROVE LockMoves
    <3>1. cand[w] \in Jobs /\ ClaimRow(w, cand[w]) /\ Claimable(cand[w])
          /\ lockedBy[cand[w]] = None
      BY <1>1, <2>8 DEF ClaimUpdate, ClaimRow, ClaimGrounds, LocksSound,
         Claimable, Locking, MemoryConsistent
    <3>2. LockTaken
      BY <3>1 DEF LockTaken, ClaimRow
    <3>3. QED
      BY <3>2 DEF LockMoves
  <2>9. ASSUME NEW w \in Workers, ClaimBusy(w) PROVE LockMoves
    <3>1. LocksFreed({})
      BY <1>1, <2>9 DEF LocksFreed, ClaimBusy
    <3>2. QED
      BY <3>1 DEF LockMoves
  <2>10. ASSUME NEW w \in Workers, Start(w) PROVE LockMoves
    <3>1. LocksFreed({})
      BY <1>1, <2>10 DEF LocksFreed, Start, StartRow
    <3>2. QED
      BY <3>1 DEF LockMoves
  <2>11. ASSUME NEW w \in Workers, NEW e \in Execs, Complete(w, e)
       PROVE  LockMoves
    <3>1. LocksFreed({exJob[e]})
      BY <1>1, <2>11 DEF LocksFreed, Complete, CompleteRow
    <3>2. {exJob[e]} \in SUBSET Jobs
      BY <1>1, <2>11 DEF Orphans, MemoryConsistent, TablesConsistent, Complete, CompleteRow
    <3>3. QED
      BY <3>1, <3>2 DEF LockMoves
  <2>12. ASSUME NEW w \in Workers, NEW e \in Execs, CompleteLogFails(w, e)
       PROVE  LockMoves
    <3>1. LocksFreed({exJob[e]})
      BY <1>1, <2>12 DEF LocksFreed, CompleteLogFails, CompleteRow
    <3>2. {exJob[e]} \in SUBSET Jobs
      BY <1>1, <2>12 DEF Orphans, MemoryConsistent, TablesConsistent, CompleteLogFails, CompleteRow
    <3>3. QED
      BY <3>1, <3>2 DEF LockMoves
  <2>13. ASSUME NEW w \in Workers, NEW e \in Execs, FailRead(w, e)
       PROVE  LockMoves
    <3>1. LocksFreed({})
      BY <1>1, <2>13 DEF LocksFreed, FailRead, FailExecRow
    <3>2. QED
      BY <3>1 DEF LockMoves
  <2>14. ASSUME NEW w \in Workers, FailWrite(w) PROVE LockMoves
    <3>1. LocksFreed({exJob[cur[w]]})
      BY <1>1, <2>14 DEF LocksFreed, FailWrite, RequeueRow, BuryRow
    <3>2. {exJob[cur[w]]} \in SUBSET Jobs
      BY <1>1, <2>14 DEF Orphans, MemoryConsistent, TablesConsistent, FailWrite, RequeueRow, BuryRow
    <3>3. QED
      BY <3>1, <3>2 DEF LockMoves
  <2>15. ASSUME NEW j \in Jobs, NEW kind \in Kinds, NEW parents \in SUBSET Jobs,
                Create(j, kind[1], kind[2], parents)
       PROVE  LockMoves
    <3>1. LocksFreed({})
      BY <1>1, <2>15 DEF LocksFreed, Create, InsertJob, Exists
    <3>2. QED
      BY <3>1 DEF LockMoves
  <2>16. ASSUME NEW b \in Batches, CreateBatch(b) PROVE LockMoves
    <3>1. LocksFreed({})
      BY <1>1, <2>16 DEF LocksFreed, CreateBatch, InsertBatch, JobsOf
    <3>2. QED
      BY <3>1 DEF LockMoves
  <2>17. ASSUME NEW j \in Jobs, RetryJob(j) PROVE LockMoves
    <3>1. LocksFreed({j})
      BY <1>1, <2>17 DEF LocksFreed, RetryJob, Reopen, RetryRow
    <3>2. {j} \in SUBSET Jobs
      BY <1>1, <2>17 DEF Orphans, MemoryConsistent, TablesConsistent, RetryJob, Reopen, RetryRow
    <3>3. QED
      BY <3>1, <3>2 DEF LockMoves
  <2>18. ASSUME NEW j \in Jobs, CancelJob(j) PROVE LockMoves
    <3>1. LocksFreed({j})
      BY <1>1, <2>18 DEF LocksFreed, CancelJob, CancelRow
    <3>2. {j} \in SUBSET Jobs
      BY <1>1, <2>18 DEF Orphans, MemoryConsistent, TablesConsistent, CancelJob, CancelRow
    <3>3. QED
      BY <3>1, <3>2 DEF LockMoves
  <2>19. ASSUME NEW j \in Jobs, NEW p \in Jobs, AddDependency(j, p)
       PROVE  LockMoves
    <3>1. LocksFreed({})
      BY <1>1, <2>19 DEF LocksFreed, AddDependency, LinkRow
    <3>2. QED
      BY <3>1 DEF LockMoves
  <2>20. ASSUME NEW e \in Execs, DlqMark(e) PROVE LockMoves
    <3>1. LocksFreed({})
      BY <1>1, <2>20 DEF LocksFreed, DlqMark, ResolveRow
    <3>2. QED
      BY <3>1 DEF LockMoves
  <2>21. ASSUME DlqRequeue PROVE LockMoves
    <3>1. LocksFreed({exJob[api]})
      BY <1>1, <2>21 DEF LocksFreed, DlqRequeue, Reopen, RetryRow
    <3>2. {exJob[api]} \in SUBSET Jobs
      BY <1>1, <2>21 DEF Orphans, MemoryConsistent, TablesConsistent, DlqRequeue, Reopen, RetryRow
    <3>3. QED
      BY <3>1, <3>2 DEF LockMoves
  <2>22. ASSUME NEW e \in Execs, DlqIgnore(e) PROVE LockMoves
    <3>1. LocksFreed({})
      BY <1>1, <2>22 DEF LocksFreed, DlqIgnore, ResolveRow
    <3>2. QED
      BY <3>1 DEF LockMoves
  <2>23. ASSUME ApiCrash PROVE LockMoves
    <3>1. LocksFreed({})
      BY <1>1, <2>23 DEF LocksFreed, ApiCrash
    <3>2. QED
      BY <3>1 DEF LockMoves
  <2>24. ASSUME Reap PROVE LockMoves
    <3>1. LocksFreed(Orphans)
      BY <1>1, <2>24 DEF LocksFreed, Reap
    <3>2. Orphans \in SUBSET Jobs
      BY <1>1, <2>24 DEF Orphans, MemoryConsistent, TablesConsistent, Reap
    <3>3. QED
      BY <3>1, <3>2 DEF LockMoves
  <2>25. ASSUME PromoteScheduled PROVE LockMoves
    <3>1. LocksFreed({})
      BY <1>1, <2>25 DEF LocksFreed, PromoteScheduled
    <3>2. QED
      BY <3>1 DEF LockMoves
  <2>26. ASSUME NEW j \in Jobs, RunAtArrives(j) PROVE LockMoves
    <3>1. LocksFreed({})
      BY <1>1, <2>26 DEF LocksFreed, RunAtArrives
    <3>2. QED
      BY <3>1 DEF LockMoves
  <2>27. QED
    BY <1>1, <2>1, <2>2, <2>3, <2>4, <2>5, <2>6, <2>6a, <2>7, <2>8, <2>9, <2>10, <2>11,
       <2>12, <2>13, <2>14, <2>15, <2>16, <2>17, <2>18, <2>19, <2>20, <2>21,
       <2>22, <2>23, <2>24, <2>25, <2>26
       DEF Next, WorkerStep, ApiStep, Command
<1>2. QED
  BY <1>1

OwnInv == Consistent /\ LocksSound /\ ClaimGrounds /\ ClaimsHeld /\ LockBacked
            /\ OwnershipIntact

(* OwnInv is an invariant.                                                 *)
LEMMA Ownership == Spec => []OwnInv
<1>1. Init => OwnInv
  <2>1. Init => Consistent
    BY ConsistentInit
  <2>2. Init => LocksSound /\ ClaimGrounds /\ ClaimsHeld /\ LockBacked
    BY DEF Init, DatabaseInit, WorkersInit, LocksSound, ClaimGrounds, ClaimsHeld, LockBacked
  <2>3. Init => OwnershipIntact
    BY DEF Init, DatabaseInit, WorkersInit, OwnershipIntact, Locking
  <2>4. QED
    BY <2>1, <2>2, <2>3 DEF OwnInv
<1>2. ASSUME OwnInv, [Next]_vars
      PROVE  OwnInv'
  <2>1. CASE Next
    BY <1>2, <2>1, ConsistentStep, LockStep, GroundsStep, HeldStep, BackedStep, OwnStep
       DEF OwnInv
  <2>2. CASE UNCHANGED vars
    <3>1. Consistent'
      BY <1>2, ConsistentStep DEF OwnInv
    <3>2. LocksSound' /\ ClaimGrounds'
      BY <1>2, <2>2 DEF OwnInv, LocksSound, ClaimGrounds, Claimable
    <3>3. ClaimsHeld' /\ LockBacked' /\ OwnershipIntact'
      BY <1>2, <2>2 DEF OwnInv, ClaimsHeld, LockBacked, OwnershipIntact, Live, InHand, Dropped
    <3>4. QED
      BY <3>1, <3>2, <3>3 DEF OwnInv
  <2>3. QED
    BY <1>2, <2>1, <2>2
<1>3. QED
  BY <1>1, <1>2, PTL DEF Spec

(* LockBacked: no living worker sits on a lock it will not release, but    *)
(* for one that drains and whose failJob was refused.                      *)
THEOREM LocksAreBacked == Spec => []LockBacked
<1>1. OwnInv => LockBacked
  BY DEF OwnInv
<1>2. QED
  BY <1>1, Ownership, PTL

(* OwnershipIntact: from claim to outcome an undisturbed job has exactly   *)
(* one worker and one execution.                                           *)
THEOREM OneOwner == Spec => []OwnershipIntact
<1>1. OwnInv => OwnershipIntact
  BY DEF OwnInv
<1>2. QED
  BY <1>1, Ownership, PTL

(* ClaimsValid: a claim is never made on stale grounds.                    *)
THEOREM NoStaleClaim == Spec => ClaimsValid
<1> DEFINE Valid == \A j \in Jobs :
                       lockedBy'[j] \notin {None, lockedBy[j]} =>
                           lockedBy[j] = None /\ Claimable(j)
<1>1. ASSUME OwnInv, Next PROVE Valid
  <2>1. LockMoves
    BY <1>1, LocksMove DEF OwnInv
  <2>2. CASE LockTaken
    BY <1>1, <2>2 DEF LockTaken, OwnInv, Consistent, TypeOK, DatabaseTypeOK
  <2>3. ASSUME NEW S \in SUBSET Jobs, LocksFreed(S) PROVE Valid
    BY <2>3 DEF LocksFreed
  <2>4. QED
    BY <2>1, <2>2, <2>3 DEF LockMoves
<1>2. ASSUME OwnInv, [Next]_vars PROVE [Valid]_vars
  BY <1>1, <1>2
<1>3. QED
  BY <1>2, Ownership, PTL DEF Spec, ClaimsValid

(* LocksAreLeases: the lock columns implement the abstract lease.          *)
THEOREM LeaseImplemented == Spec => LocksAreLeases
<1>1. Init => L!LeaseInit
  BY DEF Init, DatabaseInit, L!LeaseInit
<1>2. ASSUME OwnInv, [Next]_vars PROVE [L!LeaseNext]_lockedBy
  <2>1. CASE Next
    <3>1. LockMoves
      BY <1>2, <2>1, LocksMove DEF OwnInv
    <3>2. CASE LockTaken
      BY <3>2 DEF LockTaken, L!LeaseNext, L!Acquire
    <3>3. ASSUME NEW S \in SUBSET Jobs, LocksFreed(S) PROVE L!LeaseNext
      BY <3>3 DEF LocksFreed, L!LeaseNext, L!Release
    <3>4. QED
      BY <3>1, <3>2, <3>3 DEF LockMoves
  <2>2. CASE UNCHANGED vars
    BY <2>2
  <2>3. QED
    BY <1>2, <2>1, <2>2
<1>3. QED
  BY <1>1, <1>2, Ownership, PTL DEF Spec, LocksAreLeases, L!LeaseSpec

-----------------------------------------------------------------------------
(***************************************************************************)
(* DeadLocksReapable: what a worker leaves behind when it dies is within   *)
(* the reach of the reaper. A lock says nothing about its holder's row;    *)
(* Reapable adds that the row says active for as long as the lock can be   *)
(* there.                                                                  *)
(***************************************************************************)

(* Workers that are never drained and never miss a heartbeat while alive.  *)
Steady == Workers \ (Stallable \cup Stoppable)

(* The row of a steady worker says active as long as it may hold a lock.   *)
Reapable ==
    \A w \in Steady :
        /\ proc[w] \in {"new", "up", "dead"}
        /\ proc[w] = "new" => wStatus[w] = "absent"
        /\ proc[w] = "up" => wStatus[w] = "active"
        /\ w \in expired => proc[w] = "dead"
        /\ \A j \in Jobs : lockedBy[j] = w => wStatus[w] = "active"

(* Every step keeps it: what makes a steady worker's row inactive is a     *)
(* reap after its death, and that frees all its locks.                     *)
LEMMA ReapableStep ==
  Consistent /\ OwnInv /\ Reapable /\ Next => Reapable'
<1>1. ASSUME Consistent, OwnInv, Reapable, Next
      PROVE  Reapable'
  <2> USE DEF Consistent, TypeOK, DatabaseTypeOK, JobStatus, WorkersTypeOK,
              ApiTypeOK, MemoryConsistent, TablesConsistent, Exists, Live,
              Idle, OwnInv, Reapable, Steady
  <2>1. ASSUME NEW w \in Workers, Register(w) PROVE Reapable'
    BY <1>1, <2>1 DEF Register
  <2>2. ASSUME NEW w \in Workers, Heartbeat(w) PROVE Reapable'
    BY <1>1, <2>2 DEF Heartbeat
  <2>3. ASSUME NEW w \in Workers, HeartbeatExpires(w) PROVE Reapable'
    BY <1>1, <2>3 DEF HeartbeatExpires
  <2>4. ASSUME NEW w \in Workers, Shutdown(w) PROVE Reapable'
    BY <1>1, <2>4 DEF Shutdown
  <2>5. ASSUME NEW w \in Workers, Exit(w) PROVE Reapable'
    BY <1>1, <2>5 DEF Exit, LoseMemory
  <2>6. ASSUME NEW w \in Workers, Crash(w) PROVE Reapable'
    BY <1>1, <2>6 DEF Crash, LoseMemory
  <2>6a. ASSUME NEW w \in Workers, NEW e \in Execs, FailSwallowed(w, e)
        PROVE  Reapable'
    BY <1>1, <2>6a DEF FailSwallowed, Settle
  <2>7. ASSUME NEW w \in Workers, NEW j \in Jobs, ClaimSelect(w, j)
        PROVE  Reapable'
    BY <1>1, <2>7 DEF ClaimSelect
  <2>8. ASSUME NEW w \in Workers, ClaimUpdate(w) PROVE Reapable'
    <3>1. cand[w] \in Jobs /\ ClaimRow(w, cand[w]) /\ proc[w] \in {"up", "draining"}
      BY <1>1, <2>8 DEF ClaimUpdate
    <3>2. QED
      BY <1>1, <2>8, <3>1 DEF ClaimUpdate, ClaimRow
  <2>9. ASSUME NEW w \in Workers, ClaimBusy(w) PROVE Reapable'
    BY <1>1, <2>9 DEF ClaimBusy
  <2>10. ASSUME NEW w \in Workers, Start(w) PROVE Reapable'
    BY <1>1, <2>10 DEF Start, StartRow
  <2>11. ASSUME NEW w \in Workers, NEW e \in Execs, Complete(w, e)
        PROVE  Reapable'
    BY <1>1, <2>11 DEF Complete, CompleteRow
  <2>12. ASSUME NEW w \in Workers, NEW e \in Execs, CompleteLogFails(w, e)
        PROVE  Reapable'
    BY <1>1, <2>12 DEF CompleteLogFails, CompleteRow
  <2>13. ASSUME NEW w \in Workers, NEW e \in Execs, FailRead(w, e)
        PROVE  Reapable'
    BY <1>1, <2>13 DEF FailRead, FailExecRow
  <2>14. ASSUME NEW w \in Workers, FailWrite(w) PROVE Reapable'
    BY <1>1, <2>14 DEF FailWrite, RequeueRow, BuryRow
  <2>15. ASSUME NEW j \in Jobs, NEW kind \in Kinds,
                NEW parents \in SUBSET Jobs,
                Create(j, kind[1], kind[2], parents)
        PROVE  Reapable'
    BY <1>1, <2>15 DEF Create, InsertJob
  <2>16. ASSUME NEW b \in Batches, CreateBatch(b) PROVE Reapable'
    BY <1>1, <2>16 DEF CreateBatch, InsertBatch
  <2>17. ASSUME NEW j \in Jobs, RetryJob(j) PROVE Reapable'
    BY <1>1, <2>17 DEF RetryJob, Reopen, RetryRow
  <2>18. ASSUME NEW j \in Jobs, CancelJob(j) PROVE Reapable'
    BY <1>1, <2>18 DEF CancelJob, CancelRow
  <2>19. ASSUME NEW j \in Jobs, NEW p \in Jobs, AddDependency(j, p)
        PROVE  Reapable'
    BY <1>1, <2>19 DEF AddDependency, LinkRow
  <2>20. ASSUME NEW e \in Execs, DlqMark(e) PROVE Reapable'
    BY <1>1, <2>20 DEF DlqMark, ResolveRow
  <2>21. ASSUME DlqRequeue PROVE Reapable'
    BY <1>1, <2>21 DEF DlqRequeue, Reopen, RetryRow
  <2>22. ASSUME NEW e \in Execs, DlqIgnore(e) PROVE Reapable'
    BY <1>1, <2>22 DEF DlqIgnore, ResolveRow
  <2>23. ASSUME ApiCrash PROVE Reapable'
    BY <1>1, <2>23 DEF ApiCrash
  <2>24. ASSUME Reap PROVE Reapable'
    <3>1. \A v \in Steady : v \in StaleWorkers => proc[v] = "dead"
      BY <1>1 DEF StaleWorkers
    <3>2. \A j \in Jobs : lockedBy[j] \in StaleWorkers => j \in Orphans
      BY <1>1 DEF Orphans, LocksSound, StaleWorkers
    <3>3. /\ \A j \in Jobs : lockedBy'[j] # None => lockedBy'[j] = lockedBy[j]
          /\ \A j \in Jobs : j \in Orphans => lockedBy'[j] = None
          /\ \A v \in Workers \ StaleWorkers : wStatus'[v] = wStatus[v]
          /\ UNCHANGED <<proc, expired>>
      BY <1>1, <2>24 DEF Reap
    <3>4. None \notin Steady /\ \A v \in Steady : proc[v] = "new" => v \notin StaleWorkers
      BY <1>1 DEF StaleWorkers
    <3>5. QED
      BY <1>1, <3>1, <3>2, <3>3, <3>4
  <2>25. ASSUME PromoteScheduled PROVE Reapable'
    BY <1>1, <2>25 DEF PromoteScheduled
  <2>26. ASSUME NEW j \in Jobs, RunAtArrives(j) PROVE Reapable'
    BY <1>1, <2>26 DEF RunAtArrives
  <2> HIDE DEF Reapable
  <2>27. QED
    BY <1>1, <2>1, <2>2, <2>3, <2>4, <2>5, <2>6, <2>6a, <2>7, <2>8, <2>9, <2>10, <2>11,
       <2>12, <2>13, <2>14, <2>15, <2>16, <2>17, <2>18, <2>19, <2>20, <2>21,
       <2>22, <2>23, <2>24, <2>25, <2>26
       DEF Next, WorkerStep, ApiStep, Command
<1>2. QED
  BY <1>1

(* DeadLocksReapable: a dead worker that holds a lock is still one the     *)
(* reaper looks for.                                                       *)
THEOREM DeadAreReapable == Spec => []DeadLocksReapable
<1>1. Init => Reapable
  BY DEF Init, DatabaseInit, WorkersInit, Reapable, Steady
<1>2. ASSUME OwnInv, Reapable, [Next]_vars PROVE Reapable'
  <2>1. CASE Next
    BY <1>2, <2>1, ReapableStep DEF OwnInv
  <2>2. CASE UNCHANGED vars
    BY <1>2, <2>2 DEF Reapable
  <2>3. QED
    BY <1>2, <2>1, <2>2
<1>3. Reapable => DeadLocksReapable
  BY DEF Reapable, DeadLocksReapable, Steady
<1>4. QED
  BY <1>1, <1>2, <1>3, Ownership, PTL DEF Spec

-----------------------------------------------------------------------------
(***************************************************************************)
(* CapacityRespected and ExitLosesNothing: the map of running jobs. A      *)
(* worker tests the room in its map, then awaits two statements, then      *)
(* inserts the job: RoomHeld carries the result of the test across both,   *)
(* and MapHolds that an undisturbed execution is in the map, so that a     *)
(* shutdown waits for it.                                                  *)
(***************************************************************************)

(* The map of a worker has its undisturbed executions under their jobs,    *)
(* and what a draining worker waits for is all it still has to end.        *)
MapHolds ==
    \A w \in Workers :
        /\ \A e \in runs[w] : exJob[e] \notin taken => active[w][exJob[e]] = e
        /\ proc[w] = "draining" =>
              /\ pc[w] \notin {"selected", "claimed"}
              /\ \A e \in runs[w] : exJob[e] \notin taken => e \in waiting[w]

(* There is room in the map for the job a worker is about to start.        *)
RoomHeld ==
    \A w \in Workers :
        /\ ActiveCount(w) <= Concurrency
        /\ pc[w] \in {"selected", "claimed"} => HasRoom(w)

Busy(w) == {j \in Jobs : active[w][j] # None}

(* What a step may do to the map and to the claim that needs room in it.   *)
RoomMoves ==
    \A w \in Workers :
        \/ /\ Busy(w)' \subseteq Busy(w)
           /\ pc'[w] \in {"selected", "claimed"} =>
                 pc[w] \in {"selected", "claimed"} \/ HasRoom(w)
        \/ /\ pc[w] = "claimed" /\ pc'[w] = "idle"
           /\ Busy(w)' \subseteq Busy(w) \cup {cand[w]}

(* Every step keeps the map.                                               *)
LEMMA MapStep ==
  Consistent /\ OwnInv /\ MapHolds /\ Next => MapHolds'
<1>1. ASSUME Consistent, OwnInv, MapHolds, Next
      PROVE  MapHolds'
  <2> USE DEF Consistent, TypeOK, DatabaseTypeOK, JobStatus, WorkersTypeOK,
              ApiTypeOK, MemoryConsistent, TablesConsistent, Exists, Live,
              Idle, MapHolds, OwnInv
  <2>1. ASSUME NEW w \in Workers, Register(w) PROVE MapHolds'
    BY <1>1, <2>1 DEF Register
  <2>2. ASSUME NEW w \in Workers, Heartbeat(w) PROVE MapHolds'
    BY <1>1, <2>2 DEF Heartbeat
  <2>3. ASSUME NEW w \in Workers, HeartbeatExpires(w) PROVE MapHolds'
    BY <1>1, <2>3 DEF HeartbeatExpires
  <2>4. ASSUME NEW w \in Workers, Shutdown(w) PROVE MapHolds'
    BY <1>1, <2>4 DEF Shutdown
  <2>5. ASSUME NEW w \in Workers, Exit(w) PROVE MapHolds'
    BY <1>1, <2>5 DEF Exit, LoseMemory
  <2>6. ASSUME NEW w \in Workers, Crash(w) PROVE MapHolds'
    BY <1>1, <2>6 DEF Crash, LoseMemory
  <2>6a. ASSUME NEW w \in Workers, NEW e \in Execs, FailSwallowed(w, e)
        PROVE  MapHolds'
    <3>1. /\ exJob[e] \in Jobs
          /\ exJob[e] \notin taken =>
                \A d \in runs[w] : exJob[d] = exJob[e] => d = e
      BY <1>1, <2>6a DEF FailSwallowed, OwnershipIntact
    <3>2. QED
      BY <1>1, <2>6a, <3>1 DEF FailSwallowed, Settle
  <2>7. ASSUME NEW w \in Workers, NEW j \in Jobs, ClaimSelect(w, j)
        PROVE  MapHolds'
    BY <1>1, <2>7 DEF ClaimSelect
  <2>8. ASSUME NEW w \in Workers, ClaimUpdate(w) PROVE MapHolds'
    BY <1>1, <2>8 DEF ClaimUpdate, ClaimRow
  <2>9. ASSUME NEW w \in Workers, ClaimBusy(w) PROVE MapHolds'
    BY <1>1, <2>9 DEF ClaimBusy
  <2>10. ASSUME NEW w \in Workers, Start(w) PROVE MapHolds'
    <3>1. /\ cand[w] \in Jobs /\ StartRow(cand[w], NextExec)
          /\ NextExec \in Execs /\ exStatus[NextExec] = "none"
          /\ proc[w] # "draining"
          /\ cand[w] \notin taken =>
                \A v \in Workers : \A d \in runs[v] : exJob[d] # cand[w]
      BY <1>1, <2>10 DEF Start, StartRow, OwnershipIntact
    <3>2. \A v \in Workers : NextExec \notin runs[v]
      BY <1>1, <3>1
    <3>3. QED
      BY <1>1, <2>10, <3>1, <3>2 DEF Start, StartRow
  <2>11. ASSUME NEW w \in Workers, NEW e \in Execs, Complete(w, e)
        PROVE  MapHolds'
    <3>1. /\ exJob[e] \in Jobs
          /\ exJob[e] \notin taken =>
                \A d \in runs[w] : exJob[d] = exJob[e] => d = e
      BY <1>1, <2>11 DEF Complete, OwnershipIntact
    <3>2. QED
      BY <1>1, <2>11, <3>1 DEF Complete, CompleteRow, Settle
  <2>12. ASSUME NEW w \in Workers, NEW e \in Execs, CompleteLogFails(w, e)
        PROVE  MapHolds'
    BY <1>1, <2>12 DEF CompleteLogFails, CompleteRow
  <2>13. ASSUME NEW w \in Workers, NEW e \in Execs, FailRead(w, e)
        PROVE  MapHolds'
    BY <1>1, <2>13 DEF FailRead, FailExecRow
  <2>14. ASSUME NEW w \in Workers, FailWrite(w) PROVE MapHolds'
    <3>1. /\ cur[w] \in runs[w] /\ exJob[cur[w]] \in Jobs
          /\ exJob[cur[w]] \notin taken =>
                \A d \in runs[w] : exJob[d] = exJob[cur[w]] => d = cur[w]
      BY <1>1, <2>14 DEF FailWrite, OwnershipIntact
    <3>2. exJob' = exJob /\ taken' = taken
      BY <2>14 DEF FailWrite, RequeueRow, BuryRow
    <3>3. QED
      BY <1>1, <2>14, <3>1, <3>2 DEF FailWrite, Settle
  <2>15. ASSUME NEW j \in Jobs, NEW kind \in Kinds,
                NEW parents \in SUBSET Jobs,
                Create(j, kind[1], kind[2], parents)
        PROVE  MapHolds'
    BY <1>1, <2>15 DEF Create, InsertJob
  <2>16. ASSUME NEW b \in Batches, CreateBatch(b) PROVE MapHolds'
    BY <1>1, <2>16 DEF CreateBatch, InsertBatch
  <2>17. ASSUME NEW j \in Jobs, RetryJob(j) PROVE MapHolds'
    BY <1>1, <2>17 DEF RetryJob, Reopen, RetryRow, TakeFromHands
  <2>18. ASSUME NEW j \in Jobs, CancelJob(j) PROVE MapHolds'
    BY <1>1, <2>18 DEF CancelJob, CancelRow, TakeFromHands
  <2>19. ASSUME NEW j \in Jobs, NEW p \in Jobs, AddDependency(j, p)
        PROVE  MapHolds'
    BY <1>1, <2>19 DEF AddDependency, LinkRow
  <2>20. ASSUME NEW e \in Execs, DlqMark(e) PROVE MapHolds'
    BY <1>1, <2>20 DEF DlqMark, ResolveRow
  <2>21. ASSUME DlqRequeue PROVE MapHolds'
    BY <1>1, <2>21 DEF DlqRequeue, Reopen, RetryRow, TakeFromHands
  <2>22. ASSUME NEW e \in Execs, DlqIgnore(e) PROVE MapHolds'
    BY <1>1, <2>22 DEF DlqIgnore, ResolveRow
  <2>23. ASSUME ApiCrash PROVE MapHolds'
    BY <1>1, <2>23 DEF ApiCrash
  <2>24. ASSUME Reap PROVE MapHolds'
    BY <1>1, <2>24 DEF Reap, TakeFromHands, Orphans
  <2>25. ASSUME PromoteScheduled PROVE MapHolds'
    BY <1>1, <2>25 DEF PromoteScheduled
  <2>26. ASSUME NEW j \in Jobs, RunAtArrives(j) PROVE MapHolds'
    BY <1>1, <2>26 DEF RunAtArrives
  <2> HIDE DEF MapHolds
  <2>27. QED
    BY <1>1, <2>1, <2>2, <2>3, <2>4, <2>5, <2>6, <2>6a, <2>7, <2>8, <2>9, <2>10, <2>11,
       <2>12, <2>13, <2>14, <2>15, <2>16, <2>17, <2>18, <2>19, <2>20, <2>21,
       <2>22, <2>23, <2>24, <2>25, <2>26
       DEF Next, WorkerStep, ApiStep, Command
<1>2. QED
  BY <1>1

(* Every step fills the map only from a claim that had room.               *)
LEMMA RoomStep ==
  Consistent /\ Next => RoomMoves
<1>1. ASSUME Consistent, Next
      PROVE  RoomMoves
  <2> USE DEF Consistent, TypeOK, DatabaseTypeOK, JobStatus, WorkersTypeOK,
              ApiTypeOK, MemoryConsistent, TablesConsistent, Exists, Live,
              Idle, RoomMoves, Busy
  <2>1. ASSUME NEW w \in Workers, Register(w) PROVE RoomMoves
    BY <1>1, <2>1 DEF Register
  <2>2. ASSUME NEW w \in Workers, Heartbeat(w) PROVE RoomMoves
    BY <1>1, <2>2 DEF Heartbeat
  <2>3. ASSUME NEW w \in Workers, HeartbeatExpires(w) PROVE RoomMoves
    BY <1>1, <2>3 DEF HeartbeatExpires
  <2>4. ASSUME NEW w \in Workers, Shutdown(w) PROVE RoomMoves
    BY <1>1, <2>4 DEF Shutdown
  <2>5. ASSUME NEW w \in Workers, Exit(w) PROVE RoomMoves
    BY <1>1, <2>5 DEF Exit, LoseMemory
  <2>6. ASSUME NEW w \in Workers, Crash(w) PROVE RoomMoves
    BY <1>1, <2>6 DEF Crash, LoseMemory
  <2>6a. ASSUME NEW w \in Workers, NEW e \in Execs, FailSwallowed(w, e)
        PROVE  RoomMoves
    BY <1>1, <2>6a DEF FailSwallowed, Settle
  <2>7. ASSUME NEW w \in Workers, NEW j \in Jobs, ClaimSelect(w, j)
        PROVE  RoomMoves
    BY <1>1, <2>7 DEF ClaimSelect
  <2>8. ASSUME NEW w \in Workers, ClaimUpdate(w) PROVE RoomMoves
    BY <1>1, <2>8 DEF ClaimUpdate, ClaimRow
  <2>9. ASSUME NEW w \in Workers, ClaimBusy(w) PROVE RoomMoves
    BY <1>1, <2>9 DEF ClaimBusy
  <2>10. ASSUME NEW w \in Workers, Start(w) PROVE RoomMoves
    BY <1>1, <2>10 DEF Start, StartRow
  <2>11. ASSUME NEW w \in Workers, NEW e \in Execs, Complete(w, e)
        PROVE  RoomMoves
    BY <1>1, <2>11 DEF Complete, CompleteRow, Settle
  <2>12. ASSUME NEW w \in Workers, NEW e \in Execs, CompleteLogFails(w, e)
        PROVE  RoomMoves
    BY <1>1, <2>12 DEF CompleteLogFails, CompleteRow
  <2>13. ASSUME NEW w \in Workers, NEW e \in Execs, FailRead(w, e)
        PROVE  RoomMoves
    BY <1>1, <2>13 DEF FailRead, FailExecRow
  <2>14. ASSUME NEW w \in Workers, FailWrite(w) PROVE RoomMoves
    <3>1. cur[w] \in runs[w] /\ exJob[cur[w]] \in Jobs
      BY <1>1, <2>14 DEF FailWrite
    <3>2. QED
      BY <1>1, <2>14, <3>1 DEF FailWrite, Settle
  <2>15. ASSUME NEW j \in Jobs, NEW kind \in Kinds,
                NEW parents \in SUBSET Jobs,
                Create(j, kind[1], kind[2], parents)
        PROVE  RoomMoves
    BY <1>1, <2>15 DEF Create, InsertJob
  <2>16. ASSUME NEW b \in Batches, CreateBatch(b) PROVE RoomMoves
    BY <1>1, <2>16 DEF CreateBatch, InsertBatch
  <2>17. ASSUME NEW j \in Jobs, RetryJob(j) PROVE RoomMoves
    BY <1>1, <2>17 DEF RetryJob, Reopen, RetryRow
  <2>18. ASSUME NEW j \in Jobs, CancelJob(j) PROVE RoomMoves
    BY <1>1, <2>18 DEF CancelJob, CancelRow
  <2>19. ASSUME NEW j \in Jobs, NEW p \in Jobs, AddDependency(j, p)
        PROVE  RoomMoves
    BY <1>1, <2>19 DEF AddDependency, LinkRow
  <2>20. ASSUME NEW e \in Execs, DlqMark(e) PROVE RoomMoves
    BY <1>1, <2>20 DEF DlqMark, ResolveRow
  <2>21. ASSUME DlqRequeue PROVE RoomMoves
    BY <1>1, <2>21 DEF DlqRequeue, Reopen, RetryRow
  <2>22. ASSUME NEW e \in Execs, DlqIgnore(e) PROVE RoomMoves
    BY <1>1, <2>22 DEF DlqIgnore, ResolveRow
  <2>23. ASSUME ApiCrash PROVE RoomMoves
    BY <1>1, <2>23 DEF ApiCrash
  <2>24. ASSUME Reap PROVE RoomMoves
    BY <1>1, <2>24 DEF Reap
  <2>25. ASSUME PromoteScheduled PROVE RoomMoves
    BY <1>1, <2>25 DEF PromoteScheduled
  <2>26. ASSUME NEW j \in Jobs, RunAtArrives(j) PROVE RoomMoves
    BY <1>1, <2>26 DEF RunAtArrives
  <2> HIDE DEF RoomMoves
  <2>27. QED
    BY <1>1, <2>1, <2>2, <2>3, <2>4, <2>5, <2>6, <2>6a, <2>7, <2>8, <2>9, <2>10, <2>11,
       <2>12, <2>13, <2>14, <2>15, <2>16, <2>17, <2>18, <2>19, <2>20, <2>21,
       <2>22, <2>23, <2>24, <2>25, <2>26
       DEF Next, WorkerStep, ApiStep, Command
<1>2. QED
  BY <1>1

(* Filling one entry adds at most one to the size of the map.              *)
LEMMA RoomKept ==
  ASSUME Consistent, RoomHeld, Next
  PROVE  RoomHeld'
<1> SUFFICES ASSUME NEW w \in Workers
             PROVE  /\ ActiveCount(w)' <= Concurrency
                    /\ pc'[w] \in {"selected", "claimed"} =>
                          ActiveCount(w)' < Concurrency
  BY DEF RoomHeld, HasRoom
<1>1. RoomMoves
  BY RoomStep
<1>2. /\ ActiveCount(w) = Cardinality(Busy(w))
      /\ ActiveCount(w)' = Cardinality(Busy(w)')
  BY DEF ActiveCount, Busy
<1>3. IsFiniteSet(Busy(w)) /\ IsFiniteSet(Busy(w) \cup {cand[w]})
  BY FiniteTables, FS_Subset, FS_AddElement DEF Busy
<1>4. /\ Cardinality(Busy(w)) \in Nat
      /\ Cardinality(Busy(w) \cup {cand[w]}) <= Cardinality(Busy(w)) + 1
      /\ Cardinality(Busy(w) \cup {cand[w]}) \in Nat
  <2>1. Cardinality(Busy(w)) \in Nat
    BY <1>3, FS_CardinalityType
  <2>2. \/ Cardinality(Busy(w) \cup {cand[w]}) = Cardinality(Busy(w))
        \/ Cardinality(Busy(w) \cup {cand[w]}) = Cardinality(Busy(w)) + 1
    BY <1>3, FS_AddElement
  <2>3. QED
    BY <2>1, <2>2
<1>5. CASE /\ Busy(w)' \subseteq Busy(w)
           /\ pc'[w] \in {"selected", "claimed"} =>
                 pc[w] \in {"selected", "claimed"} \/ HasRoom(w)
  <2>1. Cardinality(Busy(w)') \in Nat
        /\ Cardinality(Busy(w)') <= Cardinality(Busy(w))
    BY <1>3, <1>5, FS_Subset, FS_CardinalityType
  <2>2. QED
    BY <1>2, <1>4, <1>5, <2>1 DEF RoomHeld, HasRoom
<1>6. CASE /\ pc[w] = "claimed" /\ pc'[w] = "idle"
           /\ Busy(w)' \subseteq Busy(w) \cup {cand[w]}
  <2>1. Cardinality(Busy(w)') \in Nat
        /\ Cardinality(Busy(w)') <= Cardinality(Busy(w) \cup {cand[w]})
    BY <1>3, <1>6, FS_Subset, FS_CardinalityType
  <2>2. QED
    BY <1>2, <1>4, <1>6, <2>1 DEF RoomHeld, HasRoom
<1>7. QED
  BY <1>1, <1>5, <1>6 DEF RoomMoves

(* MapHolds and RoomHeld are invariants together.                          *)
LEMMA Rooms == Spec => [](MapHolds /\ RoomHeld)
<1>1. Init => MapHolds /\ RoomHeld
  <2>1. ASSUME Init PROVE MapHolds
    BY <2>1 DEF Init, WorkersInit, MapHolds
  <2>2. ASSUME Init, NEW w \in Workers PROVE ActiveCount(w) = 0
    <3>1. {j \in Jobs : active[w][j] # None} = {}
      BY <2>2 DEF Init, WorkersInit
    <3>2. QED
      BY <3>1, FS_EmptySet DEF ActiveCount
  <2>3. QED
    BY <2>1, <2>2 DEF Init, WorkersInit, RoomHeld
<1>2. ASSUME OwnInv, MapHolds /\ RoomHeld, [Next]_vars
      PROVE  (MapHolds /\ RoomHeld)'
  <2>1. CASE Next
    BY <1>2, <2>1, MapStep, RoomKept DEF OwnInv
  <2>2. CASE UNCHANGED vars
    BY <1>2, <2>2 DEF MapHolds, RoomHeld, HasRoom, ActiveCount
  <2>3. QED
    BY <1>2, <2>1, <2>2
<1>3. QED
  BY <1>1, <1>2, Ownership, PTL DEF Spec

(* CapacityRespected: a worker runs at most config.defaultConcurrency      *)
(* undisturbed executions, each counted by its own entry of the map.       *)
THEOREM WithinCapacity == Spec => []CapacityRespected
<1>1. ASSUME OwnInv, MapHolds, RoomHeld PROVE CapacityRespected
  <2> SUFFICES ASSUME NEW w \in Workers
               PROVE  Cardinality({e \in runs[w] : exJob[e] \notin taken})
                          <= Concurrency
    BY DEF CapacityRespected
  <2> DEFINE E == {e \in runs[w] : exJob[e] \notin taken}
             f == [e \in E |-> exJob[e]]
  <2>1. f \in Injection(E, Busy(w))
    <3>1. \A e \in E : e \in Execs /\ exJob[e] \in Jobs
                       /\ active[w][exJob[e]] = e
      BY <1>1 DEF OwnInv, Consistent, TypeOK, WorkersTypeOK, MemoryConsistent,
                  MapHolds
    <3>2. \A e \in E : f[e] \in Busy(w)
      BY <3>1 DEF Busy
    <3>3. \A d, e \in E : f[d] = f[e] => d = e
      BY <3>1
    <3>4. QED
      BY <3>2, <3>3 DEF Injection, IsInjective
  <2>2. IsFiniteSet(Busy(w))
    BY FiniteTables, FS_Subset DEF Busy
  <2>3. /\ Cardinality(E) <= Cardinality(Busy(w))
        /\ Cardinality(E) \in Nat /\ Cardinality(Busy(w)) \in Nat
    BY <2>1, <2>2, FS_Injection, FS_CardinalityType
  <2>4. Cardinality(Busy(w)) <= Concurrency
    BY <1>1 DEF RoomHeld, ActiveCount, Busy
  <2>5. QED
    BY <2>3, <2>4
<1>2. QED
  BY <1>1, Ownership, Rooms, PTL

(* ExitLosesNothing: a worker that drains exits with no undisturbed        *)
(* execution in flight and, but for refused failures, no lock.             *)
THEOREM DrainedBeforeExit == Spec => ExitLosesNothing
<1> DEFINE Drained == \A w \in Workers :
                         proc[w] = "draining" /\ proc'[w] = "exited" =>
                             /\ \A e \in runs[w] : exJob[e] \in taken
                             /\ \A j \in Jobs \ taken :
                                   lockedBy[j] = w => Dropped(w, j)
<1>1. ASSUME OwnInv, MapHolds, Next PROVE Drained
  <2> SUFFICES ASSUME NEW w \in Workers,
                      proc[w] = "draining", proc'[w] = "exited"
               PROVE  /\ \A e \in runs[w] : exJob[e] \in taken
                      /\ \A j \in Jobs \ taken : lockedBy[j] = w => Dropped(w, j)
    OBVIOUS
  <2>1. Exit(w)
    <3>1. ASSUME NEW v \in Workers, WorkerStep(v) PROVE Exit(w)
      <4>1. CASE Exit(v)
        BY <1>1, <4>1 DEF OwnInv, Consistent, TypeOK, WorkersTypeOK, Exit,
                          LoseMemory
      <4>2. CASE Register(v) \/ Shutdown(v) \/ Crash(v)
        BY <1>1, <4>2 DEF OwnInv, Consistent, TypeOK, WorkersTypeOK, Register,
                          Shutdown, Crash, LoseMemory
      <4>3. CASE proc' = proc
        BY <4>3
      <4>4. QED
        BY <3>1, <4>1, <4>2, <4>3
           DEF WorkerStep, Heartbeat, HeartbeatExpires, ClaimSelect,
               ClaimUpdate, ClaimBusy, Start, Complete, CompleteLogFails,
               FailRead, FailWrite, FailSwallowed
    <3>2. CASE ApiStep \/ \E j \in Jobs : RunAtArrives(j)
      BY <3>2 DEF ApiStep, Command, Create, CreateBatch, RetryJob, CancelJob,
         AddDependency, DlqMark, DlqRequeue, DlqIgnore, ApiCrash, Reap,
         PromoteScheduled, RunAtArrives
    <3>3. QED
      BY <1>1, <3>1, <3>2 DEF Next
  <2>2. \A e \in runs[w] : exJob[e] \in taken
    BY <1>1, <2>1 DEF Exit, AllSettled, MapHolds
  <2>3. \A j \in Jobs \ taken : lockedBy[j] = w => Dropped(w, j)
    BY <1>1, <2>1, <2>2 DEF Exit, OwnInv, LockBacked, InHand, Live
  <2>4. QED
    BY <2>2, <2>3
<1>2. ASSUME OwnInv, MapHolds, [Next]_vars PROVE [Drained]_vars
  BY <1>1, <1>2
<1>3. QED
  BY <1>2, Ownership, Rooms, PTL DEF Spec, ExitLosesNothing

=============================================================================
