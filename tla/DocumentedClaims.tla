-------------------------- MODULE DocumentedClaims --------------------------
(***************************************************************************)
(* What the repository's documents and comments say of the system and the  *)
(* code does not do.  Each is refuted by a configuration of its own.       *)
(***************************************************************************)
EXTENDS VortexJob

(* docs/design_decisions.md:64: while one worker is inside its claim       *)
(* transaction, no other worker can begin one.                             *)
ClaimsSerialized ==
    \A v, w \in Workers : pc[v] = "selected" /\ pc[w] = "selected" => v = w

(* docs/design_decisions.md:111: the reaper re-queues the jobs of a dead   *)
(* worker "incrementing their retry counts".                               *)
ReapCounts ==
    [][\A j \in Jobs : Reap /\ status'[j] # status[j]
          => retryCount'[j] = retryCount[j] + 1]_vars

(* docs/api_documentation.md:136: an active job can be cancelled; it stays *)
(* cancelled until it is retried.                                          *)
CancelSticks ==
    [][\A j \in Jobs : status[j] = "failed" /\ status'[j] # "failed"
          => RetryJob(j)]_vars

(* docs/api_documentation.md:135 and README.md:12: retrying is for failed  *)
(* and dead jobs, and a job is not executed by two runs at once.           *)
SingleRun ==
    \A v, w \in Workers : \A d \in runs[v], e \in runs[w] :
        exJob[d] = exJob[e] => d = e

(* docs/design_decisions.md:112: a worker told to stop finishes its active *)
(* jobs before it exits.                                                   *)
GracefulExit ==
    [][\A w \in Workers :
          proc[w] = "draining" /\ proc'[w] = "exited" => runs[w] = {}]_vars

(* docs/design_decisions.md:84: the dependencies form a directed acyclic   *)
(* graph: every set of jobs has one that waits for no other of the set.    *)
DependenciesAcyclic ==
    \A S \in SUBSET Jobs \ {{}} :
        \E j \in S : \A p \in S : <<j, p>> \notin deps

=============================================================================
