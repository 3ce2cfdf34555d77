-------------------------- MODULE LspClientProofs --------------------------
(***************************************************************************)
(* For any number of callers, requests and pipe sizes: a request has one   *)
(* outcome, and none is forgotten among the pending ones but those that    *)
(* timed out or could not be written.                                      *)
(***************************************************************************)
EXTENDS LspClient, SequenceTheorems, TLAPS

\* There is an id left for the shutdown request until it is sent.
RoomLeft == stopper \in {"idle", "ask"} => nextId <= MaxId

\* Only ids that were given out are pending or have a result.
IdsGivenOut == \A i \in Ids : i \in pending \/ results[i] # <<>> => i < nextId

\* A thread inside send_request has an id.
AskersHaveIds == \A t \in Threads : call[t] \in {"send", "write", "wait"} => req[t] \in Ids

RequestInv == TypeOK /\ RoomLeft /\ IdsGivenOut /\ AskersHaveIds /\ OneOutcome /\ OnlyGivenUpLeak

\* A pipe holds messages before and after a write.
LEMMA WriteKeepsPipe ==
    ASSUME NEW m \in Ids \cup {None}, stdin \in Seq(Ids \cup {None}), Written(m)
    PROVE  stdin' \in Seq(Ids \cup {None})
BY AppendProperties DEF Written

\* A result queue that holds something, and one thing at most, holds one.
LEMMA OneResult ==
    ASSUME NEW s \in Seq({"answer", "terminated"}), s # <<>>, Len(s) <= 1
    PROVE  Tail(s) = <<>>
<1>1. Len(s) \in Nat /\ Len(s) # 0 /\ Tail(s) \in Seq({"answer", "terminated"})
      /\ Len(Tail(s)) = Len(s) - 1
  BY EmptySeq, HeadTailProperties
<1>2. Len(Tail(s)) = 0
  BY <1>1
<1> QED BY <1>1, <1>2, EmptySeq

\* RequestInv holds initially.
LEMMA InitRequests == Init => RequestInv
<1> SUFFICES ASSUME Init PROVE RequestInv
  OBVIOUS
<1>1. /\ <<>> \in Seq({"answer", "terminated"}) /\ <<>> \in Seq(Ids \cup {None})
      /\ Len(<<>>) = 0
  OBVIOUS
<1>2. TypeOK
  <2>1. 1 \in 1 .. MaxId + 1 /\ 0 \in Nat
    BY LspConstants
  <2>2. [i \in Ids |-> <<>>] \in [Ids -> Seq({"answer", "terminated"})]
    BY <1>1
  <2> QED BY <1>1, <2>1, <2>2 DEF Init, TypeOK
<1>3. RoomLeft /\ IdsGivenOut /\ AskersHaveIds /\ OneOutcome /\ OnlyGivenUpLeak
  BY LspConstants DEF Init, RoomLeft, IdsGivenOut, AskersHaveIds, OneOutcome, OnlyGivenUpLeak
<1> QED BY <1>2, <1>3 DEF RequestInv

\* Every step keeps it.
LEMMA StepRequests == RequestInv /\ [Next]_vars => RequestInv'
<1> USE LspConstants DEF RequestInv
<1> SUFFICES ASSUME RequestInv, [Next]_vars PROVE RequestInv'
  OBVIOUS
<1> DEFINE Parts == RoomLeft /\ IdsGivenOut /\ AskersHaveIds /\ OneOutcome /\ OnlyGivenUpLeak
<1>1. ASSUME NEW t \in Threads, Register(t) PROVE RequestInv'
  <2>1. nextId \in Ids /\ nextId' = nextId + 1 /\ results[nextId] = <<>>
    BY <1>1 DEF Register, TypeOK, RoomLeft, IdsGivenOut, Ids
  <2>2. TypeOK'
    BY <1>1, <2>1 DEF Register, procVars, serverVars, TypeOK, Ids
  <2>3. RoomLeft' /\ IdsGivenOut' /\ AskersHaveIds'
    BY <1>1, <2>1 DEF Register, TypeOK, RoomLeft, IdsGivenOut, AskersHaveIds, Ids
  <2>4. OneOutcome'
    BY <1>1, <2>1 DEF Register, TypeOK, OneOutcome
  <2>5. OnlyGivenUpLeak'
    BY <1>1, <2>1 DEF Register, TypeOK, OnlyGivenUpLeak, Open
  <2> QED BY <2>2, <2>3, <2>4, <2>5
<1>2. ASSUME NEW t \in Threads, SendNothing(t) \/ AcquireStdin(t) \/ Send(t) PROVE RequestInv'
  <2>1. /\ call[t] \in {"send", "write"}
        /\ \E c \in {"write", "wait"} : call' = [call EXCEPT ![t] = c]
        /\ UNCHANGED <<nextId, pending, results, req, late, givenUp, procVars, stopVars,
                       serverVars, reader, stdout>>
        /\ lock' \in {lock, t, None}
    BY <1>2 DEF SendNothing, AcquireStdin, Send
  <2>2. stdin' \in Seq(Ids \cup {None})
    <3>1. CASE Send(t)
      BY <3>1, WriteKeepsPipe DEF Send, AskersHaveIds, TypeOK
    <3>2. CASE SendNothing(t) \/ AcquireStdin(t)
      BY <3>2 DEF SendNothing, AcquireStdin, TypeOK
    <3> QED BY <1>2, <3>1, <3>2
  <2>3. TypeOK'
    BY <2>1, <2>2 DEF TypeOK, procVars, stopVars, serverVars
  <2>4. Parts'
    BY <2>1 DEF TypeOK, stopVars, RoomLeft, IdsGivenOut, AskersHaveIds, OneOutcome,
       OnlyGivenUpLeak, Open
  <2> QED BY <2>3, <2>4
<1>3. ASSUME NEW t \in Threads, SendRaises(t) \/ GetResultTimeout(t) PROVE RequestInv'
  <2>1. /\ call[t] \in {"write", "wait"} /\ req[t] \in Ids
        /\ \E c \in {"over", "idle"} : call' = [call EXCEPT ![t] = c]
        /\ givenUp' = givenUp \cup {req[t]}
        /\ lock' \in {lock, None}
        /\ UNCHANGED <<nextId, pending, results, req, late, procVars, stopVars,
                       serverVars, reader, stdin, stdout>>
    BY <1>3 DEF SendRaises, GetResultTimeout, AskersHaveIds
  <2>2. TypeOK'
    BY <2>1 DEF TypeOK, procVars, stopVars, serverVars
  <2>3. RoomLeft' /\ IdsGivenOut' /\ AskersHaveIds' /\ OneOutcome'
    BY <2>1 DEF TypeOK, stopVars, RoomLeft, IdsGivenOut, AskersHaveIds, OneOutcome
  <2>4. OnlyGivenUpLeak'
    BY <2>1 DEF TypeOK, OnlyGivenUpLeak, Open
  <2> QED BY <2>2, <2>3, <2>4
<1>4. ASSUME NEW t \in Threads, GetResult(t) PROVE RequestInv'
  <2>1. /\ call[t] = "wait" /\ req[t] \in Ids /\ results[req[t]] # <<>>
        /\ \E c \in {"over", "idle"} : call' = [call EXCEPT ![t] = c]
        /\ results' = [results EXCEPT ![req[t]] = Tail(@)]
        /\ UNCHANGED <<nextId, pending, req, late, givenUp, procVars, stopVars,
                       serverVars, reader, lock, stdin, stdout>>
    BY <1>4 DEF GetResult, AskersHaveIds
  <2>2. req[t] \notin pending /\ Tail(results[req[t]]) = <<>>
    BY <2>1, OneResult DEF OneOutcome, TypeOK
  <2>3. results'[req[t]] = <<>> /\ \A i \in Ids \ {req[t]} : results'[i] = results[i]
    BY <2>1, <2>2 DEF TypeOK
  <2>4. TypeOK'
    BY <2>1 DEF TypeOK, procVars, stopVars, serverVars
  <2>5. RoomLeft' /\ IdsGivenOut' /\ AskersHaveIds' /\ OneOutcome'
    BY <2>1, <2>3 DEF TypeOK, stopVars, RoomLeft, IdsGivenOut, AskersHaveIds, OneOutcome
  <2>6. OnlyGivenUpLeak'
    BY <2>1, <2>2 DEF TypeOK, OnlyGivenUpLeak, Open
  <2> QED BY <2>4, <2>5, <2>6
<1>5. CASE ReaderReads
  <2>1. /\ UNCHANGED <<nextId, call, req, late, givenUp, procVars, stopVars, serverVars, lock,
                       stdin>>
        /\ reader' \in {"top", "reply"} /\ stdout' \in Seq(Ids \cup {None})
    <3>1. CASE stdout # <<>> /\ stdout' = Tail(stdout)
      BY <1>5, <3>1, HeadTailProperties DEF ReaderReads, TypeOK
    <3>2. CASE UNCHANGED stdout
      BY <1>5, <3>2 DEF ReaderReads, TypeOK
    <3> QED BY <1>5, <3>1, <3>2 DEF ReaderReads
  <2>2. \/ UNCHANGED <<pending, results>>
        \/ \E i \in Ids : /\ pending' = pending \ {i}
                          /\ results' = IF i \in pending
                                        THEN [results EXCEPT ![i] = Append(@, "answer")]
                                        ELSE results
    <3>1. CASE stdout # <<>> /\ Head(stdout) # None
      <4>1. Head(stdout) \in Ids
        BY <3>1 DEF TypeOK
      <4> QED BY <1>5, <3>1, <4>1 DEF ReaderReads
    <3> QED BY <1>5, <3>1 DEF ReaderReads
  <2>3. CASE UNCHANGED <<pending, results>>
    BY <2>1, <2>3 DEF procVars, stopVars, serverVars, TypeOK, RoomLeft, IdsGivenOut,
       AskersHaveIds, OneOutcome, OnlyGivenUpLeak, Open
  <2>4. ASSUME NEW i \in Ids, i \in pending, pending' = pending \ {i},
               results' = [results EXCEPT ![i] = Append(@, "answer")]
        PROVE  RequestInv'
    <3>1. results[i] = <<>>
      BY <2>4 DEF OneOutcome
    <3>2. results'[i] = <<"answer">> /\ \A k \in Ids \ {i} : results'[k] = results[k]
      BY <2>4, <3>1 DEF TypeOK
    <3>3. TypeOK'
      BY <2>1, <2>4 DEF procVars, stopVars, serverVars, TypeOK
    <3>4. RoomLeft' /\ IdsGivenOut' /\ AskersHaveIds' /\ OneOutcome'
      BY <2>1, <2>4, <3>2 DEF stopVars, TypeOK, RoomLeft, IdsGivenOut, AskersHaveIds, OneOutcome
    <3>5. OnlyGivenUpLeak'
      BY <2>1, <2>4 DEF OnlyGivenUpLeak, Open
    <3> QED BY <3>3, <3>4, <3>5
  <2>5. ASSUME NEW i \in Ids, i \notin pending, pending' = pending \ {i}, results' = results
        PROVE  RequestInv'
    <3>1. pending' = pending
      BY <2>5
    <3> QED BY <2>3, <2>5, <3>1
  <2> QED BY <2>2, <2>3, <2>4, <2>5
<1>6. CASE CancelPendingRequests
  <2>1. CASE stopping
    BY <1>6, <2>1 DEF CancelPendingRequests, procVars, stopVars, serverVars, TypeOK, RoomLeft,
       IdsGivenOut, AskersHaveIds, OneOutcome, OnlyGivenUpLeak, Open
  <2>2. CASE ~stopping
    <3>1. /\ pending' = {}
          /\ results' = [i \in Ids |-> IF i \in pending THEN Append(results[i], "terminated")
                                                        ELSE results[i]]
          /\ UNCHANGED <<nextId, call, req, late, givenUp, procVars, stopVars, serverVars,
                         lock, stdin, stdout>>
          /\ reader' = "ended"
      BY <1>6, <2>2 DEF CancelPendingRequests
    <3>2. \A i \in Ids : results'[i] = IF i \in pending THEN <<"terminated">> ELSE results[i]
      <4>1. \A i \in pending : i \in Ids /\ results[i] = <<>>
        BY DEF OneOutcome, TypeOK
      <4>2. Append(<<>>, "terminated") = <<"terminated">>
        OBVIOUS
      <4> QED BY <3>1, <4>1, <4>2
    <3>3. TypeOK'
      BY <3>1 DEF procVars, stopVars, serverVars, TypeOK
    <3>4. RoomLeft' /\ IdsGivenOut' /\ AskersHaveIds' /\ OneOutcome' /\ OnlyGivenUpLeak'
      BY <3>1, <3>2 DEF stopVars, TypeOK, RoomLeft, IdsGivenOut, AskersHaveIds, OneOutcome,
         OnlyGivenUpLeak
    <3> QED BY <3>3, <3>4
  <2> QED BY <2>1, <2>2
<1>7. CASE ReaderPolls \/ ReaderAcquiresStdin \/ ReaderReplies
  <2>1. /\ UNCHANGED <<clientVars, stopVars, serverVars, process, stdout>>
        /\ reader' \in {"read", "sweep", "top", "write"}
        /\ polled' \in {polled, TRUE} /\ lock' \in {lock, Reader, None}
    BY <1>7 DEF ReaderPolls, ReaderAcquiresStdin, ReaderReplies, procVars
  <2>2. stdin' \in Seq(Ids \cup {None})
    <3>1. CASE ReaderReplies
      BY <3>1, WriteKeepsPipe DEF ReaderReplies, TypeOK
    <3> QED BY <1>7, <3>1 DEF ReaderPolls, ReaderAcquiresStdin, TypeOK
  <2> QED BY <2>1, <2>2 DEF clientVars, stopVars, serverVars, TypeOK, RoomLeft, IdsGivenOut,
     AskersHaveIds, OneOutcome, OnlyGivenUpLeak, Open
<1>8. CASE Stop \/ CloseStdin \/ Terminate
  BY <1>8 DEF Stop, CloseStdin, Terminate, clientVars, procVars, serverVars, TypeOK, RoomLeft,
     IdsGivenOut, AskersHaveIds, OneOutcome, OnlyGivenUpLeak, Open
<1>9. CASE Server
  <2>1. UNCHANGED <<clientVars, stopVars, polled, reader, lock>>
    BY <1>9 DEF Server, ServerReads, ServerAnswers, ServerAsks, ServerWrites, ServerDies, procVars
  <2>2. TypeOK'
    <3>1. CASE ServerReads
      <4>1. Head(stdin) \in Ids \cup {None} /\ Tail(stdin) \in Seq(Ids \cup {None})
        BY <3>1 DEF ServerReads, TypeOK
      <4> QED BY <3>1, <4>1 DEF ServerReads, clientVars, procVars, stopVars, TypeOK
    <3>2. CASE ServerAnswers
      BY <3>2 DEF ServerAnswers, clientVars, procVars, stopVars, TypeOK
    <3>3. CASE ServerAsks
      BY <3>3 DEF ServerAsks, clientVars, procVars, stopVars, TypeOK
    <3>4. CASE ServerWrites
      BY <3>4 DEF ServerWrites, clientVars, procVars, stopVars, TypeOK
    <3>5. CASE ServerDies
      BY <3>5 DEF ServerDies, clientVars, serverVars, stopVars, TypeOK
    <3> QED BY <1>9, <3>1, <3>2, <3>3, <3>4, <3>5 DEF Server
  <2>3. Parts'
    BY <2>1 DEF clientVars, stopVars, RoomLeft, IdsGivenOut, AskersHaveIds, OneOutcome,
       OnlyGivenUpLeak, Open
  <2> QED BY <2>2, <2>3
<1>10. CASE UNCHANGED vars
  BY <1>10 DEF vars, clientVars, procVars, stopVars, serverVars, TypeOK, RoomLeft, IdsGivenOut,
     AskersHaveIds, OneOutcome, OnlyGivenUpLeak, Open
<1> QED BY <1>1, <1>2, <1>3, <1>4, <1>5, <1>6, <1>7, <1>8, <1>9, <1>10
     DEF Next, Going, ReaderStep

\* RequestInv is an invariant.
LEMMA AlwaysRequests == Spec => []RequestInv
BY InitRequests, StepRequests, PTL DEF Spec

\* Type correctness.
THEOREM LspTypes == Spec => []TypeOK
BY AlwaysRequests, PTL DEF RequestInv

\* A request is answered, failed by the reader's sweep, or given up, and an
\* answer that comes late is delivered to nobody (_pending_requests.pop).
THEOREM RequestsEndOnce == Spec => []OneOutcome
BY AlwaysRequests, PTL DEF RequestInv

\* _pending_requests holds nothing but requests somebody waits for, and those
\* that timed out or could not be written.
THEOREM LeaksAreKnown == Spec => []OnlyGivenUpLeak
BY AlwaysRequests, PTL DEF RequestInv

=============================================================================
