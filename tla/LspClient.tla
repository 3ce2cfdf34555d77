----------------------------- MODULE LspClient ------------------------------
(***************************************************************************)
(* serena's connection to one language server process                      *)
(* (solidlsp/ls_process.py, StdioLanguageServer): callers that register a  *)
(* request, write it to the server's stdin under a lock and wait for its   *)
(* result; the reader thread that hands out the answers, replies to the    *)
(* server's own requests and, when the process is gone, fails what is      *)
(* pending; stop(), which asks the server to shut down and then kills it.  *)
(*                                                                         *)
(* The two pipes hold a bounded number of messages.  The server process is *)
(* external: it reads, answers in any order or never, asks back, and dies. *)
(***************************************************************************)
EXTENDS Naturals, Sequences, FiniteSets

CONSTANTS
    Callers,     \* threads that send requests
    Shutdown,    \* the thread that sends the shutdown request
    Reader,      \* the stdout reader thread
    MaxId,       \* a model bound: how many requests are sent
    PipeSize,    \* messages a pipe holds
    MaxAsks,     \* a model bound: how many requests the server makes
    None         \* Python's None

ASSUME LspConstants ==
    /\ MaxId \in Nat \ {0} /\ PipeSize \in Nat /\ MaxAsks \in Nat
    /\ Shutdown \notin Callers /\ Reader \notin Callers \cup {Shutdown}
    /\ None \notin Callers \cup {Shutdown, Reader}

Threads == Callers \cup {Shutdown}
Ids     == 1 .. MaxId

VARIABLES
    process,     \* the process: running, dead, or None once stop() is through
    polled,      \* has poll() noticed that it is dead? (returncode)
    stopping,    \* _is_stopping
    stopper,     \* where stop() is
    reader,      \* where _read_ls_process_stdout is
    nextId,      \* request_id
    pending,     \* the keys of _pending_requests
    results,     \* the result queue of each request
    call,        \* where each thread is in send_request
    req,         \* its request's id
    lock,        \* _stdin_lock: its holder
    stdin,       \* messages written and not read: request ids, or None, a reply
    stdout,      \* likewise: request ids answered, or None, a server's request
    owed,        \* requests the server has read and not answered
    out,         \* messages the server is writing: at most one
    asks,        \* requests the server has made
    late,        \* history: requests registered after the reader's sweep
    givenUp     \* history: requests whose send_request raised by itself

clientVars == <<nextId, pending, results, call, req, late, givenUp>>
procVars   == <<process, polled>>
stopVars   == <<stopping, stopper>>
serverVars == <<owed, out, asks>>
vars == <<clientVars, procVars, stopVars, serverVars, reader, lock, stdin, stdout>>

Init ==
    /\ process = "running" /\ polled = FALSE /\ stopping = FALSE /\ stopper = "idle"
    /\ reader = "top" /\ nextId = 1 /\ pending = {} /\ results = [i \in Ids |-> <<>>]
    /\ call = [t \in Threads |-> "idle"] /\ req = [t \in Threads |-> None]
    /\ lock = None /\ stdin = <<>> /\ stdout = <<>> /\ owed = {} /\ out = <<>> /\ asks = 0
    /\ late = {} /\ givenUp = {}

IsRunning == process # None /\ ~polled

-----------------------------------------------------------------------------
(* send_request.                                                           *)

\* Mutant: the request is entered under the id after its own.
RegisterNext(t) ==
    /\ call[t] = "idle"
    /\ IF t = Shutdown THEN stopper = "ask" ELSE nextId < MaxId
    /\ nextId' = nextId + 1
    /\ pending' = pending \cup {nextId'}
    /\ req' = [req EXCEPT ![t] = nextId]
    /\ call' = [call EXCEPT ![t] = "send"]
    /\ late' = IF reader = "ended" THEN late \cup {nextId} ELSE late
    /\ stopper' = IF t = Shutdown THEN "join" ELSE stopper
    /\ UNCHANGED <<results, givenUp, procVars, stopping, serverVars, reader, lock, stdin, stdout>>

Register(t) ==
    /\ call[t] = "idle"
    /\ IF t = Shutdown THEN stopper = "ask" ELSE nextId < MaxId
    /\ nextId' = nextId + 1
    /\ pending' = pending \cup {nextId}
    /\ req' = [req EXCEPT ![t] = nextId]
    /\ call' = [call EXCEPT ![t] = "send"]
    /\ late' = IF reader = "ended" THEN late \cup {nextId} ELSE late
    /\ stopper' = IF t = Shutdown THEN "join" ELSE stopper
    /\ UNCHANGED <<results, givenUp, procVars, stopping, serverVars, reader, lock, stdin, stdout>>

\* _send_payload finds no process and returns.
SendNothing(t) ==
    /\ call[t] = "send" /\ process = None
    /\ call' = [call EXCEPT ![t] = "wait"]
    /\ UNCHANGED <<nextId, pending, results, req, late, givenUp, procVars, stopVars,
                   serverVars, reader, lock, stdin, stdout>>

AcquireStdin(t) ==
    /\ call[t] = "send" /\ process # None /\ lock = None
    /\ lock' = t
    /\ call' = [call EXCEPT ![t] = "write"]
    /\ UNCHANGED <<nextId, pending, results, req, late, givenUp, procVars, stopVars,
                   serverVars, reader, stdin, stdout>>

\* stop() has closed the pipe, or forgotten the process.
Closed == stopper \in {"kill", "stopped"}

\* The write waits for room in the pipe; a broken pipe is logged, not raised.
Written(message) ==
    \/ process = "running" /\ Len(stdin) < PipeSize /\ stdin' = Append(stdin, message)
    \/ process # "running" /\ UNCHANGED stdin

Send(t) ==
    /\ call[t] = "write" /\ ~Closed
    /\ Written(req[t])
    /\ lock' = None
    /\ call' = [call EXCEPT ![t] = "wait"]
    /\ UNCHANGED <<nextId, pending, results, req, late, givenUp, procVars, stopVars,
                   serverVars, reader, stdout>>

\* Writing to a closed file is not an OSError: it is raised, and the request
\* stays in _pending_requests.
SendRaises(t) ==
    /\ call[t] = "write" /\ Closed
    /\ lock' = None
    /\ givenUp' = givenUp \cup {req[t]}
    /\ call' = [call EXCEPT ![t] = IF t = Shutdown THEN "over" ELSE "idle"]
    /\ UNCHANGED <<nextId, pending, results, req, late, procVars, stopVars, serverVars,
                   reader, stdin, stdout>>

\* get_result.
GetResult(t) ==
    /\ call[t] = "wait" /\ results[req[t]] # <<>>
    /\ results' = [results EXCEPT ![req[t]] = Tail(@)]
    /\ call' = [call EXCEPT ![t] = IF t = Shutdown THEN "over" ELSE "idle"]
    /\ UNCHANGED <<nextId, pending, req, late, givenUp, procVars, stopVars, serverVars,
                   reader, lock, stdin, stdout>>

\* TimeoutError, if a timeout is set; the request stays in _pending_requests.
GetResultTimeout(t) ==
    /\ call[t] = "wait" /\ results[req[t]] = <<>>
    /\ givenUp' = givenUp \cup {req[t]}
    /\ call' = [call EXCEPT ![t] = IF t = Shutdown THEN "over" ELSE "idle"]
    /\ UNCHANGED <<nextId, pending, results, req, late, procVars, stopVars, serverVars,
                   reader, lock, stdin, stdout>>

-----------------------------------------------------------------------------
(* The reader thread.                                                      *)

ReaderPolls ==
    /\ reader = "top"
    /\ IF process = "running"
       THEN reader' = "read" /\ UNCHANGED polled
       ELSE reader' = "sweep" /\ polled' = TRUE
    /\ UNCHANGED <<clientVars, process, stopVars, serverVars, lock, stdin, stdout>>

\* readline: a message, or the end of the stream.
ReaderReads ==
    /\ reader = "read"
    /\ \/ /\ stdout # <<>>
          /\ stdout' = Tail(stdout)
          /\ IF Head(stdout) = None
             THEN reader' = "reply" /\ UNCHANGED <<pending, results>>
             ELSE /\ reader' = "top"
                  /\ pending' = pending \ {Head(stdout)}
                  /\ results' = IF Head(stdout) \in pending
                                THEN [results EXCEPT ![Head(stdout)] = Append(@, "answer")]
                                ELSE results
       \/ /\ stdout = <<>> /\ process # "running"
          /\ reader' = "top"
          /\ UNCHANGED <<pending, results, stdout>>
    /\ UNCHANGED <<nextId, call, req, late, givenUp, procVars, stopVars, serverVars, lock, stdin>>

\* _request_handler replies from the reader thread, over the same stdin.
ReaderAcquiresStdin ==
    /\ reader = "reply" /\ lock = None
    /\ IF process = None
       THEN reader' = "top" /\ UNCHANGED lock
       ELSE reader' = "write" /\ lock' = Reader
    /\ UNCHANGED <<clientVars, procVars, stopVars, serverVars, stdin, stdout>>

\* Mutant: a lock that is not given back.
ReaderKeepsStdin ==
    /\ reader = "write"
    /\ IF Closed THEN UNCHANGED stdin ELSE Written(None)
    /\ reader' = "top"
    /\ UNCHANGED <<clientVars, procVars, stopVars, serverVars, lock, stdout>>

ReaderReplies ==
    /\ reader = "write"
    /\ IF Closed THEN UNCHANGED stdin ELSE Written(None)
    /\ lock' = None /\ reader' = "top"
    /\ UNCHANGED <<clientVars, procVars, stopVars, serverVars, stdout>>

\* Mutant: what is failed is not removed from what is pending.
CancelWithoutClearing ==
    /\ reader = "sweep"
    /\ reader' = "ended"
    /\ results' = IF stopping THEN results
                  ELSE [i \in Ids |-> IF i \in pending THEN Append(results[i], "terminated")
                                                       ELSE results[i]]
    /\ UNCHANGED <<nextId, pending, call, req, late, givenUp, procVars, stopVars, serverVars,
                   lock, stdin, stdout>>

\* Mutant: the reader just ends.
CancelNothing ==
    /\ reader = "sweep"
    /\ reader' = "ended"
    /\ UNCHANGED <<clientVars, procVars, stopVars, serverVars, lock, stdin, stdout>>

\* After the loop: what is pending is failed, unless the interface is stopping.
CancelPendingRequests ==
    /\ reader = "sweep"
    /\ reader' = "ended"
    /\ IF stopping
       THEN UNCHANGED <<pending, results>>
       ELSE /\ results' = [i \in Ids |-> IF i \in pending THEN Append(results[i], "terminated")
                                                         ELSE results[i]]
            /\ pending' = {}
    /\ UNCHANGED <<nextId, call, req, late, givenUp, procVars, stopVars, serverVars,
                   lock, stdin, stdout>>

-----------------------------------------------------------------------------
(* stop().                                                                 *)

Stop ==
    /\ stopper = "idle" /\ IsRunning
    /\ stopping' = TRUE /\ stopper' = "ask"
    /\ UNCHANGED <<clientVars, procVars, serverVars, reader, lock, stdin, stdout>>

\* Mutant: a join without a timeout.
CloseAfterAnswer ==
    /\ stopper = "join" /\ call[Shutdown] = "over" /\ lock = None
    /\ stopper' = "kill"
    /\ UNCHANGED <<clientVars, procVars, stopping, serverVars, reader, lock, stdin, stdout>>

\* The shutdown thread has got its answer, or the join has lasted 2 seconds.
\* Closing the pipe waits for a write to it that is under way (the file object
\* has a lock of its own).
CloseStdin ==
    /\ stopper = "join" /\ lock = None
    /\ stopper' = "kill"
    /\ UNCHANGED <<clientVars, procVars, stopping, serverVars, reader, lock, stdin, stdout>>

\* The process tree is terminated or killed, and forgotten.
Terminate ==
    /\ stopper = "kill"
    /\ process' = None /\ polled' = TRUE
    /\ stopper' = "stopped"
    /\ UNCHANGED <<clientVars, stopping, serverVars, reader, lock, stdin, stdout>>

-----------------------------------------------------------------------------
(* The language server process.                                            *)

ServerReads ==
    /\ process = "running" /\ stdin # <<>>
    /\ stdin' = Tail(stdin)
    /\ owed' = IF Head(stdin) = None THEN owed ELSE owed \cup {Head(stdin)}
    /\ UNCHANGED <<clientVars, procVars, stopVars, out, asks, reader, lock, stdout>>

\* It starts to write an answer, or a request of its own.
ServerAnswers ==
    /\ process = "running" /\ out = <<>>
    /\ \E i \in owed : out' = <<i>> /\ owed' = owed \ {i}
    /\ UNCHANGED <<clientVars, procVars, stopVars, asks, reader, lock, stdin, stdout>>

ServerAsks ==
    /\ process = "running" /\ out = <<>> /\ asks < MaxAsks
    /\ out' = <<None>> /\ asks' = asks + 1
    /\ UNCHANGED <<clientVars, procVars, stopVars, owed, reader, lock, stdin, stdout>>

ServerWrites ==
    /\ process = "running" /\ out # <<>> /\ Len(stdout) < PipeSize
    /\ stdout' = stdout \o out /\ out' = <<>>
    /\ UNCHANGED <<clientVars, procVars, stopVars, owed, asks, reader, lock, stdin>>

ServerDies ==
    /\ process = "running" /\ process' = "dead"
    /\ UNCHANGED <<clientVars, polled, stopVars, serverVars, reader, lock, stdin, stdout>>

-----------------------------------------------------------------------------
Going(t)   == SendNothing(t) \/ AcquireStdin(t) \/ Send(t) \/ SendRaises(t) \/ GetResult(t)
ReaderStep == ReaderPolls \/ ReaderReads \/ ReaderAcquiresStdin \/ ReaderReplies
                \/ CancelPendingRequests
Server     == ServerReads \/ ServerAnswers \/ ServerAsks \/ ServerWrites \/ ServerDies

Next ==
    \/ \E t \in Threads : Register(t) \/ Going(t) \/ GetResultTimeout(t)
    \/ ReaderStep
    \/ Stop \/ CloseStdin \/ Terminate
    \/ Server

\* Threads run, and a lock is not withheld for ever from a thread that waits for
\* it.  Nothing is assumed of the server, nor that a timeout is set.
Fairness ==
    /\ \A t \in Threads : SF_vars(Going(t))
    /\ SF_vars(ReaderStep)
    /\ SF_vars(Register(Shutdown) \/ CloseStdin \/ Terminate)

Spec     == Init /\ [][Next]_vars
FairSpec == Spec /\ Fairness

-----------------------------------------------------------------------------
\* Type correctness.
TypeOK ==
    /\ process \in {"running", "dead", None}
    /\ {polled, stopping} \subseteq BOOLEAN
    /\ stopper \in {"idle", "ask", "join", "kill", "stopped"}
    /\ reader \in {"top", "read", "reply", "write", "sweep", "ended"}
    /\ nextId \in 1 .. MaxId + 1 /\ pending \subseteq Ids
    /\ results \in [Ids -> Seq({"answer", "terminated"})]
    /\ call \in [Threads -> {"idle", "send", "write", "wait", "over"}]
    /\ req \in [Threads -> Ids \cup {None}]
    /\ lock \in Threads \cup {Reader, None}
    /\ stdin \in Seq(Ids \cup {None}) /\ stdout \in Seq(Ids \cup {None})
    /\ out \in Seq(Ids \cup {None})
    /\ owed \subseteq Ids /\ asks \in Nat /\ late \subseteq Ids /\ givenUp \subseteq Ids

Open(i) == \E t \in Threads : req[t] = i /\ call[t] \in {"send", "write", "wait"}

\* A request has one outcome: an answer, or the sweep, or a timeout, and an
\* answer that comes after one of the others reaches nobody.
OneOutcome ==
    \A i \in Ids : /\ Len(results[i]) <= 1
                   /\ results[i] # <<>> => i \notin pending

\* A request stays in _pending_requests while somebody waits for it, and for good
\* only when it timed out or could not be written.
OnlyGivenUpLeak == \A i \in pending : Open(i) \/ i \in givenUp

\* When the process dies by itself, every caller is told, unless its request
\* came after the reader had swept what was pending.
TheDeadAreReported ==
    \A t \in Threads :
        []<>(call[t] # "wait" \/ process = "running" \/ stopping \/ req[t] \in late)

\* stop() comes to its end whatever the server does and whoever waits, with one
\* exception: somebody is writing to a server that does not read.
WriteStuck == lock # None /\ process = "running" /\ Len(stdin) = PipeSize
StopEnds   == []<>(stopper \in {"idle", "stopped"} \/ WriteStuck)

\* As long as the server reads its input and writes its output, no write to its
\* stdin lasts for ever: the reader, which needs stdin to reply, does not leave
\* stdout to fill up behind it for good.
ServerKeepsGoing == WF_vars(ServerReads) /\ WF_vars(ServerWrites)
WritesEnd ==
    ServerKeepsGoing => \A t \in Threads : []<>(call[t] \notin {"send", "write"})

=============================================================================
