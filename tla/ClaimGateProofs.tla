-------------------------- MODULE ClaimGateProofs --------------------------
(***************************************************************************)
(* How far a queue's limits can be overrun, for any number of workers,     *)
(* jobs and executions and any limits: the tests of claimJob are made      *)
(* before its transaction, by each worker for itself.                      *)
(***************************************************************************)
EXTENDS ClaimGate, FiniteSetTheorems, TLAPS

N == Cardinality(Workers)

\* The workers that have passed the test of the concurrency limit, and the jobs
\* that are in the hand of one of them.
Entering == {w \in Workers : at[w] \in {"counted", "passed", "claimed"}}
InHand   == {j \in Jobs : \E w \in Workers : at[w] = "claimed" /\ job[w] = j}

\* Those that may bring an execution which the present rate limit has not let
\* pass or has let pass already: they are past the test, or will make it with a
\* rate limit they read before it was changed.
Coming == {w \in Workers : \/ at[w] \in {"passed", "claimed"}
                           \/ at[w] \in {"row", "counted"} /\ seenRate[w] # rate}

\* Those that have passed the test of is_paused.
PastPause == {w \in Workers : at[w] \in {"row", "counted", "passed"}}

SeenIsPast == limit <= topLimit /\ \A w \in Workers : seenLimit[w] <= topLimit

\* The executions counted are some of those that the test would count.
FreshInWindow == IF rate = None THEN fresh = {} ELSE fresh \subseteq InWindow(rate.seconds)

ClaimsHaveJobs == \A w \in Workers : at[w] = "claimed" => job[w] \in Jobs

\* A worker that has passed a test counts as the job it may yet bring.
ActiveWithComing  == Cardinality(Active \ InHand) + Cardinality(Entering) <= topLimit + N - 1
WindowWithComing  == rate # None => Cardinality(fresh) + Cardinality(Coming) <= rate.count + N - 1
ClaimsWithComing  == queue = "paused" => sincePause + Cardinality(PastPause) <= N

Known   == TypeOK /\ SeenIsPast /\ ClaimsHaveJobs /\ FreshInWindow
GateInv == Known /\ ActiveWithComing /\ WindowWithComing /\ ClaimsWithComing

\* Two finite sets that lose elements do not grow together.
LEMMA Shrink ==
    ASSUME NEW A, NEW B, NEW C, NEW D, IsFiniteSet(A), IsFiniteSet(B), C \subseteq A, D \subseteq B
    PROVE  Cardinality(C) + Cardinality(D) <= Cardinality(A) + Cardinality(B)
<1>1. Cardinality(C) <= Cardinality(A) /\ Cardinality(D) <= Cardinality(B)
      /\ IsFiniteSet(C) /\ IsFiniteSet(D)
  BY FS_Subset
<1> QED BY <1>1, FS_CardinalityType

\* Nor do two of which one gains one element and the other loses one.
LEMMA Shift ==
    ASSUME NEW A, NEW B, NEW C, NEW D, NEW x, NEW y, IsFiniteSet(A), IsFiniteSet(B),
           C \subseteq A \cup {x}, y \in B, D \subseteq B \ {y}
    PROVE  Cardinality(C) + Cardinality(D) <= Cardinality(A) + Cardinality(B)
<1>1. IsFiniteSet(A \cup {x}) /\ Cardinality(A \cup {x}) \in {Cardinality(A), Cardinality(A) + 1}
  BY FS_AddElement
<1>2. IsFiniteSet(B \ {y}) /\ Cardinality(B \ {y}) = Cardinality(B) - 1
  BY FS_RemoveElement
<1>3. Cardinality(C) <= Cardinality(A \cup {x}) /\ Cardinality(D) <= Cardinality(B \ {y})
      /\ IsFiniteSet(C) /\ IsFiniteSet(D)
  BY <1>1, <1>2, FS_Subset
<1> QED BY <1>1, <1>2, <1>3, FS_CardinalityType

\* Every set counted is finite, and so is every part of it.
LEMMA Finite ==
    /\ \A S \in SUBSET Workers : IsFiniteSet(S) /\ Cardinality(S) \in Nat /\ Cardinality(S) <= N
    /\ \A S \in SUBSET Jobs : IsFiniteSet(S) /\ Cardinality(S) \in Nat
    /\ \A S \in SUBSET Execs : IsFiniteSet(S) /\ Cardinality(S) \in Nat
    /\ N \in Nat /\ N >= 1
<1>1. N \in Nat /\ N # 0
  BY GateConstants, FS_CardinalityType, FS_EmptySet DEF N
<1>2. \A S \in SUBSET Workers : IsFiniteSet(S) /\ Cardinality(S) \in Nat /\ Cardinality(S) <= N
  BY GateConstants, FS_Subset, FS_CardinalityType DEF N
<1>3. \A S \in SUBSET Jobs : IsFiniteSet(S) /\ Cardinality(S) \in Nat
  BY GateConstants, FS_Subset, FS_CardinalityType
<1>4. \A S \in SUBSET Execs : IsFiniteSet(S) /\ Cardinality(S) \in Nat
  BY GateConstants, FS_Subset, FS_CardinalityType
<1> QED BY <1>1, <1>2, <1>3, <1>4

\* GateInv holds initially.
LEMMA InitGate == Init => GateInv
<1> SUFFICES ASSUME Init PROVE GateInv
  OBVIOUS
<1>1. TypeOK
  BY GateConstants DEF Init, TypeOK
<1>2. SeenIsPast /\ ClaimsHaveJobs /\ FreshInWindow
  BY <1>1, GateConstants DEF Init, SeenIsPast, ClaimsHaveJobs, FreshInWindow, TypeOK
<1>3. Active = {} /\ Entering = {} /\ fresh = {} /\ Coming = {}
  BY DEF Init, Active, Entering, Coming
<1>4. Active \ InHand = {}
  BY <1>3
<1>5. rate # None => rate.count \in Nat
  BY <1>1, GateConstants DEF TypeOK, RateLimits
<1>7. ActiveWithComing /\ WindowWithComing
  BY <1>1, <1>3, <1>4, <1>5, Finite, FS_EmptySet DEF ActiveWithComing, WindowWithComing, TypeOK
<1>6. ClaimsWithComing
  BY DEF Init, ClaimsWithComing
<1> QED BY <1>1, <1>2, <1>6, <1>7 DEF Known, GateInv

\* Types, what a worker has read, and which executions are counted.
LEMMA StepKnown == Known /\ [Next]_vars => Known'
<1> SUFFICES ASSUME Known, [Next]_vars PROVE Known'
  OBVIOUS
<1> USE GateConstants DEF Known
<1> DEFINE Read == SeenIsPast /\ ClaimsHaveJobs
<1>1. ASSUME NEW w \in Workers,
             Poll(w) \/ CacheExpires(w) \/ ClaimNothing(w) \/ ClaimBusy(w) \/ Restart(w)
      PROVE  Known'
  <2>1. TypeOK' /\ Read'
    BY <1>1 DEF Poll, CacheExpires, ClaimNothing, ClaimBusy, Restart, rowVars, jobVars, seenVars,
       workerVars, history, TypeOK, SeenIsPast, ClaimsHaveJobs
  <2>2. UNCHANGED <<rate, age, fresh>>
    BY <1>1 DEF Poll, CacheExpires, ClaimNothing, ClaimBusy, Restart, rowVars, jobVars, history
  <2> QED BY <2>1, <2>2 DEF FreshInWindow, InWindow
<1>2. ASSUME NEW w \in Workers, ReadQueue(w) \/ CountActive(w) \/ CountWindow(w) PROVE Known'
  <2>1. UNCHANGED <<queue, limit, rate, status, age, cached, job, topLimit, fresh, sincePause>>
    BY <1>2 DEF ReadQueue, CountActive, CountWindow, rowVars, jobVars, history
  <2>2. \E a \in {"idle", "row", "counted", "passed"} : at' = [at EXCEPT ![w] = a]
    BY <1>2 DEF ReadQueue, CountActive, CountWindow
  <2>3. /\ seenLimit' \in {seenLimit, [seenLimit EXCEPT ![w] = limit], [seenLimit EXCEPT ![w] = 0]}
        /\ seenRate' \in {seenRate, [seenRate EXCEPT ![w] = rate], [seenRate EXCEPT ![w] = None]}
    BY <1>2 DEF ReadQueue, CountActive, CountWindow, seenVars, TypeOK
  <2>4. TypeOK'
    BY <2>1, <2>2, <2>3 DEF TypeOK
  <2>5. Read'
    BY <2>1, <2>2, <2>3 DEF TypeOK, SeenIsPast, ClaimsHaveJobs
  <2> QED BY <2>1, <2>4, <2>5 DEF FreshInWindow, InWindow
<1>3. ASSUME NEW w \in Workers, Claim(w) PROVE Known'
  <2>1. TypeOK' /\ Read'
    BY <1>3 DEF Claim, Waiting, rowVars, seenVars, TypeOK, SeenIsPast, ClaimsHaveJobs
  <2>2. UNCHANGED <<rate, age, fresh>>
    BY <1>3 DEF Claim, rowVars
  <2> QED BY <2>1, <2>2 DEF FreshInWindow, InWindow
<1>4. ASSUME NEW w \in Workers, Start(w) PROVE Known'
  <2>1. PICK e \in Execs : /\ age' = [age EXCEPT ![e] = 0]
                           /\ fresh' = IF rate = None THEN {} ELSE fresh \cup {e}
    BY <1>4 DEF Start, Forgotten
  <2>2. job[w] \in Jobs /\ 0 \in 0 .. Horizon /\ UNCHANGED rate
    BY <1>4 DEF Start, ClaimsHaveJobs, rowVars
  <2>3. TypeOK'
    BY <1>4, <2>1, <2>2 DEF Start, rowVars, seenVars, TypeOK
  <2>4. Read'
    BY <1>4 DEF Start, rowVars, seenVars, TypeOK, SeenIsPast, ClaimsHaveJobs
  <2>5. FreshInWindow'
    <3>1. CASE rate = None
      BY <2>1, <2>2, <3>1 DEF FreshInWindow
    <3>2. CASE rate # None
      <4>1. rate.seconds \in Nat
        <5>1. rate \in RateLimits
          BY <3>2 DEF TypeOK
        <5>2. rate.seconds \in Windows /\ Windows \subseteq Nat
          BY <5>1 DEF RateLimits
        <5> QED BY <5>2
      <4>2. age'[e] = 0 /\ \A x \in Execs : age'[x] = age[x] \/ age'[x] = 0
        BY <2>1 DEF TypeOK
      <4> QED BY <2>1, <2>2, <3>2, <4>1, <4>2 DEF FreshInWindow, InWindow, TypeOK
    <3> QED BY <3>1, <3>2
  <2> QED BY <2>3, <2>4, <2>5
<1>5. ASSUME NEW w \in Workers, StartFails(w) \/ Crash(w) PROVE Known'
  <2>1. /\ at' = [at EXCEPT ![w] = "dead"] /\ job' = [job EXCEPT ![w] = None]
        /\ cached' = [cached EXCEPT ![w] = "expired"]
        /\ UNCHANGED <<queue, limit, rate, status, age, topLimit, fresh, sincePause>>
        /\ seenLimit' \in {seenLimit, [seenLimit EXCEPT ![w] = 0]}
        /\ seenRate' \in {seenRate, [seenRate EXCEPT ![w] = None]}
    BY <1>5 DEF StartFails, Crash, rowVars, jobVars, seenVars, history
  <2>2. TypeOK'
    BY <2>1 DEF TypeOK
  <2>3. Read'
    BY <2>1 DEF TypeOK, SeenIsPast, ClaimsHaveJobs
  <2> QED BY <2>1, <2>2, <2>3 DEF FreshInWindow, InWindow
<1>6. ASSUME NEW j \in Jobs, Create(j) \/ Outcome(j) PROVE Known'
  <2>1. TypeOK' /\ Read'
    BY <1>6 DEF Create, Outcome, rowVars, workerVars, seenVars, history, TypeOK, SeenIsPast,
       ClaimsHaveJobs
  <2>2. UNCHANGED <<rate, age, fresh>>
    BY <1>6 DEF Create, Outcome, rowVars, history
  <2> QED BY <2>1, <2>2 DEF FreshInWindow, InWindow
<1>7. CASE Pause \/ Resume
  <2>1. TypeOK' /\ Read'
    BY <1>7 DEF Pause, Resume, jobVars, workerVars, seenVars, TypeOK, SeenIsPast, ClaimsHaveJobs
  <2>2. UNCHANGED <<rate, age, fresh>>
    BY <1>7 DEF Pause, Resume, jobVars
  <2> QED BY <2>1, <2>2 DEF FreshInWindow, InWindow
<1>8. CASE Delete
  <2>1. TypeOK' /\ Read'
    BY <1>8 DEF Delete, workerVars, seenVars, TypeOK, SeenIsPast, ClaimsHaveJobs
  <2> QED BY <1>8, <2>1 DEF Delete, FreshInWindow
<1>9. CASE Update
  <2>1. limit' \in Nat /\ topLimit \in Nat
    BY <1>9 DEF Update, TypeOK
  <2>2. topLimit' \in Nat /\ topLimit <= topLimit' /\ limit' <= topLimit'
    BY <1>9, <2>1 DEF Update, Larger
  <2>3. fresh' \in SUBSET Execs
    BY <1>9 DEF Update, TypeOK
  <2>4. TypeOK'
    BY <1>9, <2>2, <2>3 DEF Update, jobVars, workerVars, seenVars, TypeOK
  <2>5. Read'
    BY <1>9, <2>1, <2>2 DEF Update, workerVars, seenVars, TypeOK, SeenIsPast, ClaimsHaveJobs
  <2>6. FreshInWindow'
    BY <1>9 DEF Update, jobVars, FreshInWindow, InWindow
  <2> QED BY <2>4, <2>5, <2>6
<1>10. CASE Tick
  <2>1. TypeOK'
    BY <1>10 DEF Tick, rowVars, workerVars, seenVars, TypeOK
  <2>2. Read'
    BY <1>10 DEF Tick, rowVars, workerVars, seenVars, SeenIsPast, ClaimsHaveJobs
  <2>3. FreshInWindow'
    BY <1>10 DEF Tick, rowVars, FreshInWindow, InWindow, TypeOK
  <2> QED BY <2>1, <2>2, <2>3
<1>11. CASE UNCHANGED vars
  <2>1. TypeOK' /\ Read'
    BY <1>11 DEF vars, rowVars, jobVars, workerVars, seenVars, history, TypeOK, SeenIsPast,
       ClaimsHaveJobs
  <2>2. UNCHANGED <<rate, age, fresh>>
    BY <1>11 DEF vars, rowVars, jobVars, history
  <2> QED BY <2>1, <2>2 DEF FreshInWindow, InWindow
<1> QED BY <1>1, <1>2, <1>3, <1>4, <1>5, <1>6, <1>7, <1>8, <1>9, <1>10, <1>11 DEF Next, Working

\* The largest limit only grows.
LEMMA TopGrows == Known /\ [Next]_vars => topLimit <= topLimit'
<1> SUFFICES ASSUME Known, [Next]_vars PROVE topLimit <= topLimit'
  OBVIOUS
<1>1. topLimit \in Nat
  BY DEF Known, TypeOK
<1>2. CASE Update
  <2>1. limit' \in Nat
    BY <1>2, GateConstants DEF Update
  <2> QED BY <1>1, <1>2, <2>1 DEF Update, Larger
<1>3. CASE UNCHANGED topLimit
  BY <1>1, <1>3
<1> QED BY <1>1, <1>2, <1>3 DEF Next, Working, Poll, CacheExpires, ReadQueue, CountActive,
     CountWindow, Claim, ClaimNothing, ClaimBusy, Start, StartFails, Crash, Restart, Create,
     Outcome, Pause, Resume, Delete, Tick, vars, history

\* What the workers past a test may yet bring never exceeds the limit by more
\* than all of them but one.
LEMMA StepActive == Known /\ ActiveWithComing /\ [Next]_vars => ActiveWithComing'
<1> SUFFICES ASSUME Known, ActiveWithComing, [Next]_vars PROVE ActiveWithComing'
  OBVIOUS
<1> DEFINE Sum == Cardinality(Active \ InHand) + Cardinality(Entering)
<1> USE DEF Known
<1>1. IsFiniteSet(Active \ InHand) /\ IsFiniteSet(Entering)
  BY Finite DEF Active, Entering
<1>2. /\ Sum \in Nat /\ Sum' \in Nat
      /\ topLimit \in Nat /\ topLimit' \in Nat /\ topLimit <= topLimit' /\ N \in Nat
  BY Finite, TopGrows, StepKnown DEF Active, Entering, TypeOK
<1>3. SUFFICES \/ Sum' <= Sum
               \/ Sum' <= topLimit + N - 1
  BY <1>2 DEF ActiveWithComing
<1>4. CASE \E w \in Workers : CountActive(w)
  <2>1. PICK w \in Workers : CountActive(w)
    BY <1>4
  <2>2. UNCHANGED <<status, job, topLimit>>
    BY <2>1 DEF CountActive, jobVars, history
  <2>3. CASE Cardinality(Active) < seenLimit[w]
    <3>1. (Active \ InHand)' \subseteq Active /\ Entering' \subseteq Workers
      BY <2>2 DEF Active, Entering
    <3>2. Cardinality((Active \ InHand)') <= Cardinality(Active) /\ Cardinality(Entering') <= N
      BY <3>1, Finite, FS_Subset DEF Active
    <3>3. seenLimit[w] <= topLimit /\ seenLimit[w] \in Nat /\ Cardinality(Active) \in Nat
          /\ Cardinality((Active \ InHand)') \in Nat /\ Cardinality(Entering') \in Nat
      BY Finite DEF SeenIsPast, TypeOK, Active, Entering
    <3>4. Sum' <= topLimit + N - 1
      BY <1>2, <2>3, <3>2, <3>3
    <3> QED BY <3>4
  <2>4. CASE ~(Cardinality(Active) < seenLimit[w])
    <3>1. at[w] = "row" /\ at' = [at EXCEPT ![w] = "idle"]
      BY <2>1, <2>4 DEF CountActive
    <3>2. (Active \ InHand)' \subseteq Active \ InHand /\ Entering' \subseteq Entering
      BY <2>2, <3>1 DEF Active, InHand, Entering, TypeOK
    <3> QED BY <1>1, <3>2, Shrink
  <2> QED BY <2>3, <2>4
<1>5. CASE \E w \in Workers : Claim(w)
  <2>1. PICK w \in Workers, j \in Waiting :
            /\ at[w] = "passed" /\ at' = [at EXCEPT ![w] = "claimed"]
            /\ status' = [status EXCEPT ![j] = "active"] /\ job' = [job EXCEPT ![w] = j]
    BY <1>5 DEF Claim
  <2>2. Active' \subseteq Active \cup {j} /\ InHand \subseteq InHand' /\ j \in InHand'
    BY <2>1 DEF Active, InHand, Waiting, TypeOK
  <2>3. Entering' \subseteq Entering
    BY <2>1 DEF Entering, TypeOK
  <2>4. (Active \ InHand)' \subseteq Active \ InHand
    BY <2>2
  <2> QED BY <1>1, <2>3, <2>4, Shrink
<1>6. CASE \E w \in Workers : Start(w) \/ StartFails(w) \/ Crash(w)
  <2>1. PICK w \in Workers : Start(w) \/ StartFails(w) \/ Crash(w)
    BY <1>6
  <2>2. \E a \in {"idle", "dead"} : at' = [at EXCEPT ![w] = a]
    BY <2>1 DEF Start, StartFails, Crash
  <2>3. job' = [job EXCEPT ![w] = None]
    BY <2>1 DEF Start, StartFails, Crash
  <2>4. CASE at[w] = "claimed"
    <3>1. Entering' \subseteq Entering \ {w} /\ w \in Entering
      BY <2>2, <2>4 DEF Entering, TypeOK
    <3>2. InHand \ {job[w]} \subseteq InHand'
      BY <2>2, <2>3 DEF InHand, TypeOK
    <3>3. Active' \subseteq Active \cup {job[w]}
      BY <2>1, <2>4 DEF Start, StartFails, Crash, jobVars, Active, TypeOK
    <3>4. (Active \ InHand)' \subseteq (Active \ InHand) \cup {job[w]}
      BY <3>2, <3>3
    <3> QED BY <1>1, <3>1, <3>4, Shift
  <2>5. CASE at[w] # "claimed"
    <3>1. UNCHANGED status
      BY <2>1, <2>5 DEF Start, StartFails, Crash, jobVars
    <3>2. Entering' \subseteq Entering /\ InHand' = InHand /\ Active' = Active
      BY <2>2, <2>3, <2>5, <3>1 DEF Entering, InHand, Active, TypeOK
    <3> QED BY <1>1, <3>2, Shrink
  <2> QED BY <2>4, <2>5
<1>7. ASSUME /\ \A w \in Workers : \/ at'[w] = at[w]
                                   \/ /\ at[w] \notin {"claimed"}
                                      /\ at'[w] \notin {"claimed"}
                                      /\ at'[w] \in {"counted", "passed"}
                                            => at[w] \in {"counted", "passed"}
             /\ UNCHANGED job
             /\ \A j \in Jobs : status'[j] = "active" => status[j] = "active"
      PROVE  Sum' <= Sum
  <2>1. Entering' \subseteq Entering /\ InHand' = InHand /\ Active' \subseteq Active
    BY <1>7 DEF Entering, InHand, Active, TypeOK
  <2> QED BY <1>1, <2>1, Shrink
<1>8. CASE \E w \in Workers : Poll(w) \/ CacheExpires(w) \/ ReadQueue(w) \/ CountWindow(w)
                               \/ ClaimNothing(w) \/ ClaimBusy(w) \/ Restart(w)
  BY <1>7, <1>8 DEF Poll, CacheExpires, ReadQueue, CountWindow, ClaimNothing, ClaimBusy, Restart,
     jobVars, workerVars, TypeOK
<1>9. CASE \E j \in Jobs : Create(j) \/ Outcome(j)
  BY <1>7, <1>9 DEF Create, Outcome, workerVars, TypeOK
<1>10. CASE Pause \/ Resume \/ Update \/ Delete \/ Tick \/ UNCHANGED vars
  BY <1>7, <1>10 DEF Pause, Resume, Update, Delete, Tick, vars, jobVars, workerVars, TypeOK
<1> QED BY <1>4, <1>5, <1>6, <1>8, <1>9, <1>10 DEF Next, Working

\* Every step keeps the window of executions within those that may come.
LEMMA StepWindow == Known /\ WindowWithComing /\ [Next]_vars => WindowWithComing'
<1> SUFFICES ASSUME Known, WindowWithComing, [Next]_vars, rate' # None
             PROVE  Cardinality(fresh') + Cardinality(Coming') <= rate'.count + N - 1
  BY DEF WindowWithComing
<1> USE DEF Known
<1>1. /\ IsFiniteSet(fresh) /\ Cardinality(fresh) \in Nat
      /\ IsFiniteSet(fresh') /\ Cardinality(fresh') \in Nat
      /\ IsFiniteSet(Coming) /\ Cardinality(Coming) \in Nat
      /\ Cardinality(Coming') \in Nat /\ Cardinality(Coming') <= N /\ N \in Nat
  BY Finite, StepKnown DEF Coming, TypeOK
<1>2. rate'.count \in Nat \ {0}
  BY StepKnown, GateConstants DEF TypeOK, RateLimits
<1>3. CASE rate' # rate
  <2>1. Update
    BY <1>3 DEF Next, Working, Poll, CacheExpires, ReadQueue, CountActive, CountWindow, Claim,
       ClaimNothing, ClaimBusy, Start, StartFails, Crash, Restart, Create, Outcome, Pause, Resume,
       Delete, Tick, vars, rowVars
  <2>2. fresh' = {} /\ Cardinality(fresh') = 0
    BY <1>3, <2>1, FS_EmptySet DEF Update
  <2> QED BY <1>1, <1>2, <2>2
<1>4. SUFFICES ASSUME rate' = rate
               PROVE  Cardinality(fresh') + Cardinality(Coming') <= rate.count + N - 1
  BY <1>3
<1>5. Cardinality(fresh) + Cardinality(Coming) <= rate.count + N - 1
  BY <1>4 DEF WindowWithComing
<1>6. rate # None /\ rate.count \in Nat \ {0}
  BY <1>2, <1>4
<1>7. SUFFICES \/ Cardinality(fresh') + Cardinality(Coming')
                   <= Cardinality(fresh) + Cardinality(Coming)
               \/ Cardinality(fresh') < rate.count
  BY <1>1, <1>5, <1>6
<1>8. ASSUME fresh' \subseteq fresh, Coming' \subseteq Coming
      PROVE  Cardinality(fresh') + Cardinality(Coming') <= Cardinality(fresh) + Cardinality(Coming)
  BY <1>1, <1>8, Shrink
<1>9. CASE \E w \in Workers : ReadQueue(w)
  <2>1. PICK w \in Workers : ReadQueue(w)
    BY <1>9
  <2>2. /\ fresh' = fresh
        /\ \/ /\ at' = [at EXCEPT ![w] = "row"] /\ seenRate' = [seenRate EXCEPT ![w] = rate]
           \/ /\ at' = [at EXCEPT ![w] = "idle"] /\ UNCHANGED seenRate
    BY <2>1 DEF ReadQueue, seenVars, history, TypeOK
  <2>3. Coming' \subseteq Coming
    BY <1>4, <2>2 DEF Coming, TypeOK
  <2> QED BY <1>8, <2>2, <2>3
<1>10. CASE \E w \in Workers : CountActive(w)
  <2>1. PICK w \in Workers : CountActive(w)
    BY <1>10
  <2>2. fresh' = fresh /\ at[w] = "row"
    BY <2>1 DEF CountActive, history
  <2>3. \/ at' = [at EXCEPT ![w] = "counted"] /\ seenRate' = [seenRate EXCEPT ![w] = @]
        \/ at' = [at EXCEPT ![w] = "idle"] /\ seenRate' = [seenRate EXCEPT ![w] = None]
    BY <2>1 DEF CountActive, TypeOK
  <2>4. Coming' \subseteq Coming
    BY <1>4, <2>2, <2>3 DEF Coming, TypeOK
  <2> QED BY <1>8, <2>2, <2>4
<1>11. CASE \E w \in Workers : CountWindow(w)
  <2>1. PICK w \in Workers : CountWindow(w)
    BY <1>11
  <2>2. fresh' = fresh /\ at[w] = "counted" /\ seenRate' = [seenRate EXCEPT ![w] = None]
    BY <2>1 DEF CountWindow, history
  <2>3. CASE seenRate[w] = rate /\ Cardinality(InWindow(rate.seconds)) < rate.count
    <3>1. fresh \subseteq InWindow(rate.seconds) /\ IsFiniteSet(InWindow(rate.seconds))
      BY <1>6, Finite DEF FreshInWindow, InWindow
    <3>2. Cardinality(fresh) <= Cardinality(InWindow(rate.seconds))
          /\ Cardinality(InWindow(rate.seconds)) \in Nat
      BY <3>1, FS_Subset, FS_CardinalityType
    <3> QED BY <1>1, <1>6, <2>2, <2>3, <3>2
  <2>4. CASE seenRate[w] # rate
    <3>1. \E a \in {"passed", "idle"} : at' = [at EXCEPT ![w] = a]
      BY <2>1 DEF CountWindow
    <3>2. Coming' \subseteq Coming
      BY <1>4, <2>2, <2>4, <3>1 DEF Coming, TypeOK
    <3> QED BY <1>8, <2>2, <3>2
  <2>5. CASE seenRate[w] = rate /\ ~(Cardinality(InWindow(rate.seconds)) < rate.count)
    <3>1. at' = [at EXCEPT ![w] = "idle"]
      BY <1>6, <2>1, <2>5 DEF CountWindow
    <3>2. Coming' \subseteq Coming
      BY <1>4, <2>2, <3>1 DEF Coming, TypeOK
    <3> QED BY <1>8, <2>2, <3>2
  <2> QED BY <2>3, <2>4, <2>5
<1>12. CASE \E w \in Workers : Start(w)
  <2>1. PICK w \in Workers, e \in Execs : /\ at[w] = "claimed" /\ at' = [at EXCEPT ![w] = "idle"]
                                          /\ fresh' \subseteq fresh \cup {e} /\ UNCHANGED seenRate
    BY <1>12 DEF Start, Forgotten, seenVars
  <2>2. Coming' \subseteq Coming \ {w} /\ w \in Coming
    BY <1>4, <2>1 DEF Coming, TypeOK
  <2>3. Cardinality(fresh') + Cardinality(Coming') <= Cardinality(fresh) + Cardinality(Coming)
    BY <1>1, <2>1, <2>2, Shift
  <2> QED BY <2>3
<1>13. ASSUME fresh' \subseteq fresh,
              \A w \in Workers :
                 \/ at'[w] \notin {"row", "counted", "passed", "claimed"}
                 \/ at'[w] = at[w] /\ seenRate'[w] = seenRate[w]
                 \/ at[w] = "passed" /\ at'[w] = "claimed"
       PROVE  Cardinality(fresh') + Cardinality(Coming') <= Cardinality(fresh) + Cardinality(Coming)
  <2>1. Coming' \subseteq Coming
    BY <1>4, <1>13 DEF Coming
  <2> QED BY <1>8, <1>13, <2>1
<1>14. CASE \E w \in Workers : Poll(w) \/ CacheExpires(w) \/ Claim(w) \/ ClaimNothing(w)
                                \/ ClaimBusy(w) \/ StartFails(w) \/ Crash(w) \/ Restart(w)
  BY <1>13, <1>14 DEF Poll, CacheExpires, Claim, ClaimNothing, ClaimBusy, StartFails, Crash,
     Restart, seenVars, workerVars, history, TypeOK
<1>15. CASE \E j \in Jobs : Create(j) \/ Outcome(j)
  BY <1>13, <1>15 DEF Create, Outcome, workerVars, seenVars, history
<1>16. CASE Pause \/ Resume \/ Update \/ Delete \/ Tick \/ UNCHANGED vars
  BY <1>4, <1>13, <1>16 DEF Pause, Resume, Update, Delete, Tick, vars, workerVars, seenVars, history
<1> QED BY <1>9, <1>10, <1>11, <1>12, <1>14, <1>15, <1>16 DEF Next, Working

\* Every step keeps the claims after a pause within those that may come.
LEMMA StepPause == Known /\ ClaimsWithComing /\ [Next]_vars => ClaimsWithComing'
<1> SUFFICES ASSUME Known, ClaimsWithComing, [Next]_vars, queue' = "paused"
             PROVE  sincePause' + Cardinality(PastPause') <= N
  BY DEF ClaimsWithComing
<1> USE DEF Known
<1>1. /\ IsFiniteSet(PastPause) /\ Cardinality(PastPause) \in Nat /\ sincePause \in Nat
      /\ Cardinality(PastPause') \in Nat /\ Cardinality(PastPause') <= N
      /\ N \in Nat /\ sincePause' \in Nat
  BY Finite, StepKnown DEF PastPause, TypeOK
<1>2. CASE Pause
  BY <1>1, <1>2 DEF Pause
<1>3. SUFFICES ASSUME queue = "paused" PROVE sincePause' + Cardinality(PastPause') <= N
  <2>1. queue \notin {"open", "gone"} \/ Pause
    BY DEF Next, Working, Poll, CacheExpires, ReadQueue, CountActive, CountWindow, Claim,
       ClaimNothing, ClaimBusy, Start, StartFails, Crash, Restart, Create, Outcome, Pause, Resume,
       Update, Delete, Tick, vars, rowVars
  <2> QED BY <1>2, <1>3, <2>1 DEF TypeOK
<1>4. sincePause + Cardinality(PastPause) <= N
  BY <1>3 DEF ClaimsWithComing
<1>5. ASSUME PastPause' \subseteq PastPause, sincePause' = sincePause
      PROVE  sincePause' + Cardinality(PastPause') <= N
  <2>1. Cardinality(PastPause') <= Cardinality(PastPause)
    BY <1>1, <1>5, FS_Subset
  <2> QED BY <1>1, <1>4, <1>5, <2>1
<1>6. CASE \E w \in Workers : Claim(w)
  <2>1. PICK w \in Workers : Claim(w)
    BY <1>6
  <2>2. w \in PastPause /\ PastPause' \subseteq PastPause \ {w} /\ sincePause' = sincePause + 1
    BY <1>3, <2>1 DEF Claim, PastPause, TypeOK
  <2>3. Cardinality(PastPause') <= Cardinality(PastPause) - 1
    BY <1>1, <2>2, FS_Subset, FS_RemoveElement
  <2> QED BY <1>1, <1>4, <2>2, <2>3
<1>7. CASE \E w \in Workers : Poll(w) \/ CacheExpires(w) \/ ReadQueue(w) \/ CountActive(w)
                               \/ CountWindow(w) \/ ClaimNothing(w) \/ ClaimBusy(w)
                               \/ Start(w) \/ StartFails(w) \/ Crash(w) \/ Restart(w)
  <2>1. PastPause' \subseteq PastPause /\ sincePause' = sincePause
    BY <1>3, <1>7 DEF Poll, CacheExpires, ReadQueue, CountActive, CountWindow, ClaimNothing,
       ClaimBusy, Start, StartFails, Crash, Restart, workerVars, history, PastPause, TypeOK
  <2> QED BY <1>5, <2>1
<1>8. CASE \/ \E j \in Jobs : Create(j) \/ Outcome(j)
           \/ Resume \/ Update \/ Delete \/ Tick \/ UNCHANGED vars
  <2>1. PastPause' \subseteq PastPause /\ (queue' = "paused" => sincePause' = sincePause)
    BY <1>8 DEF Create, Outcome, Resume, Update, Delete, Tick, vars, workerVars, history, PastPause
  <2> QED BY <1>5, <2>1
<1> QED BY <1>2, <1>6, <1>7, <1>8 DEF Next, Working

\* GateInv is an invariant.
LEMMA AlwaysGate == Spec => []GateInv
<1>1. GateInv /\ [Next]_vars => GateInv'
  BY StepKnown, StepActive, StepWindow, StepPause DEF GateInv
<1> QED BY <1>1, InitGate, PTL DEF Spec

\* Type correctness.
THEOREM GateTypes == Spec => []TypeOK
<1>1. GateInv => TypeOK
  BY DEF GateInv, Known
<1> QED BY <1>1, AlwaysGate, PTL

\* claimJob's test of the concurrency limit: N workers overrun the largest limit
\* the queue has had by N - 1 jobs at most, whatever cancels, retries, reaps and
\* crashes happen between test, claim and start.
THEOREM ConcurrencyOverrun == Spec => []ConcurrencyBounded
<1>1. GateInv => ConcurrencyBounded
  <2> SUFFICES ASSUME GateInv PROVE ConcurrencyBounded
    OBVIOUS
  <2> DEFINE Claimers == {w \in Workers : at[w] = "claimed"}
             f == [w \in Claimers |-> job[w]]
  <2>1. IsFiniteSet(Claimers) /\ Cardinality(Claimers) <= Cardinality(Entering)
    <3>1. Claimers \subseteq Entering /\ IsFiniteSet(Entering)
      BY Finite DEF Entering
    <3> QED BY <3>1, FS_Subset
  <2>2. f \in Surjection(Claimers, InHand)
    BY DEF Surjection, InHand, GateInv, Known, ClaimsHaveJobs
  <2>3. IsFiniteSet(InHand) /\ Cardinality(InHand) <= Cardinality(Claimers)
    BY <2>1, <2>2, FS_Surjection
  <2>4. Cardinality(Active) <= Cardinality(Active \ InHand) + Cardinality(InHand)
    <3>1. IsFiniteSet(Active \ InHand) /\ IsFiniteSet((Active \ InHand) \cap InHand)
      BY Finite DEF Active, InHand
    <3>2. Active \subseteq (Active \ InHand) \cup InHand
      OBVIOUS
    <3>3. /\ IsFiniteSet((Active \ InHand) \cup InHand)
          /\ Cardinality((Active \ InHand) \cup InHand)
                <= Cardinality(Active \ InHand) + Cardinality(InHand)
      <4>1. (Active \ InHand) \cap InHand = {}
        OBVIOUS
      <4>2. Cardinality((Active \ InHand) \cap InHand) = 0
        BY <4>1, FS_EmptySet
      <4>3. Cardinality(Active \ InHand) \in Nat /\ Cardinality(InHand) \in Nat
        BY <2>3, <3>1, FS_CardinalityType
      <4>4. /\ IsFiniteSet((Active \ InHand) \cup InHand)
            /\ Cardinality((Active \ InHand) \cup InHand)
                 = Cardinality(Active \ InHand) + Cardinality(InHand)
                     - Cardinality((Active \ InHand) \cap InHand)
        <5> HIDE DEF InHand, Active
        <5> QED BY <2>3, <3>1, FS_Union
      <4> QED BY <4>2, <4>3, <4>4
    <3>4. Cardinality(Active) <= Cardinality((Active \ InHand) \cup InHand)
      BY <3>2, <3>3, FS_Subset
    <3>5. /\ Cardinality(Active) \in Nat /\ Cardinality((Active \ InHand) \cup InHand) \in Nat
          /\ Cardinality(Active \ InHand) \in Nat /\ Cardinality(InHand) \in Nat
      BY <2>3, <3>1, <3>3, Finite, FS_CardinalityType DEF Active
    <3> QED BY <3>3, <3>4, <3>5
  <2>5. /\ Cardinality(Active) \in Nat /\ Cardinality(Active \ InHand) \in Nat
        /\ Cardinality(InHand) \in Nat /\ Cardinality(Claimers) \in Nat
        /\ Cardinality(Entering) \in Nat /\ N \in Nat /\ topLimit \in Nat
    BY <2>1, <2>3, Finite, FS_CardinalityType DEF Active, Entering, GateInv, Known, TypeOK
  <2>6. Cardinality(Active \ InHand) + Cardinality(Entering) <= topLimit + N - 1
    BY DEF GateInv, ActiveWithComing
  <2>7. Cardinality(Active) <= topLimit + N - 1
    BY <2>1, <2>3, <2>4, <2>5, <2>6
  <2> QED BY <2>7 DEF ConcurrencyBounded, N
<1> QED BY <1>1, AlwaysGate, PTL

\* claimJob's count of the executions in the window: of those started since the
\* rate limit was last set, changed or brought back, no window holds more than
\* the limit and N - 1, although a worker may still test with what it read before.
THEOREM RateOverrun == Spec => []RateBounded
<1>1. GateInv => RateBounded
  <2> SUFFICES ASSUME GateInv, rate # None
               PROVE  Cardinality(fresh) <= rate.count + N - 1
    BY DEF RateBounded, N
  <2>1. Cardinality(fresh) + Cardinality(Coming) <= rate.count + N - 1
    BY DEF GateInv, WindowWithComing
  <2>2. rate.count \in Nat
    BY GateConstants DEF GateInv, Known, TypeOK, RateLimits
  <2> QED BY <2>1, <2>2, Finite DEF GateInv, Known, TypeOK, Coming
<1> QED BY <1>1, AlwaysGate, PTL

\* pause: each worker claims one job more at most.
THEOREM PauseTakesHold == Spec => []PauseBounded
<1>1. GateInv => PauseBounded
  BY Finite DEF GateInv, Known, TypeOK, ClaimsWithComing, PauseBounded, N, PastPause
<1> QED BY <1>1, AlwaysGate, PTL

=============================================================================
