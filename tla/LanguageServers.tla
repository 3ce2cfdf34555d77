--------------------------- MODULE LanguageServers --------------------------
(***************************************************************************)
(* The language servers of a project (serena/ls_manager.py and project.py):*)
(* one server process for each configured language, started in parallel,   *)
(* started anew when a tool finds one dead, stopped when the manager is     *)
(* replaced or the agent shuts down, added and removed by the user.        *)
(*                                                                         *)
(* The operations are tasks of the task executor, one after another; the   *)
(* processes die when they like.  The agent shuts down between two tasks:  *)
(* nothing in the code keeps it from doing so in the middle of one, and    *)
(* what happens then is not modelled.                                      *)
(***************************************************************************)
EXTENDS Naturals, FiniteSets

CONSTANTS
    Langs,       \* languages a project may use
    Default,     \* those it is configured with
    NumServers,  \* a model bound: server processes there may be at a time
    MaxStrays,   \* a model bound: processes that are left behind
    Mortal,      \* the states in which a process may die: a model bound
    None         \* Python's None

Servers == 1 .. NumServers
Ops     == {"add", "remove", "reset", "shutdown", "tool"}
Places  == {"idle", "visit", "get", "use"}

ASSUME LanguageConstants ==
    /\ Default \subseteq Langs
    /\ None \notin Langs /\ None \notin Servers /\ None \notin Ops \cup Places
    /\ NumServers \in Nat \ {0} /\ MaxStrays \in Nat /\ Mortal \subseteq {"up", "mute"}

VARIABLES
    config,  \* project_config.languages
    manager, \* is there a language_server_manager?
    dict,    \* its _language_servers; or those that from_languages collects
    proc,    \* a server's process: starting, up, dead (but not polled), gone; mute: it
             \* runs, but its answers are not read
    slot,    \* servers that are being started, by language
    task     \* where the task is

vars == <<config, manager, dict, proc, slot, task>>

NoServers == [l \in Langs |-> None]
Present   == {l \in Langs : dict[l] # None}

\* op: what it is about, of Ops; left: what its loop has still before it; lang, ls: the
\* language and the server it is at; from: where it started a server, of Places; bad: has a
\* start failed; again: is this the second attempt of a tool?
Idle == [pc |-> "idle", op |-> None, left |-> {}, lang |-> None, ls |-> None,
         from |-> None, bad |-> FALSE, again |-> FALSE]

Init ==
    /\ config = Default /\ manager = FALSE /\ dict = NoServers
    /\ proc = [s \in Servers |-> "gone"] /\ slot = NoServers /\ task = Idle

\* An exception, or the end.
Ends == task' = Idle

\* returncode is only set by poll(), which the reader threads call: a process that
\* has just died is still taken for running.
IsRunning(s) == s # None /\ proc[s] \in {"up", "mute", "dead"}

Free == {s \in Servers : /\ proc[s] = "gone" /\ s # task.ls
                         /\ \A l \in Langs : s # slot[l] /\ s # dict[l]}

\* There may be so many processes that are left behind, or about to be: a model bound.
MoreStrays ==
    Cardinality({s \in Servers : \/ proc[s] = "mute"
                                 \/ proc[s] = "dead" /\ \A l \in Langs : s # dict[l]}) < MaxStrays

\* stop() never raises; it does nothing when the process is known to be gone.
Stopped(ls) == [s \in Servers |-> IF s \in ls /\ IsRunning(s) THEN "gone" ELSE proc[s]]

-----------------------------------------------------------------------------
(* Starting servers: create one, launch its process, shake hands.          *)

\* restart_language_server and add_language_server.
StartOne(l, ls) == [task EXCEPT !.pc = "start", !.from = task.pc, !.lang = l, !.ls = ls]

Wanted == IF task.pc = "startAll" THEN task.left
          ELSE {l \in Langs : task.pc = "start" /\ l = task.lang /\ slot[l] = None}

\* The server it creates is any that there is not yet.
Launch(l) ==
    LET s == CHOOSE x \in Free : TRUE IN
    /\ l \in Wanted /\ Free # {}
    /\ slot' = [slot EXCEPT ![l] = s]
    /\ proc' = [proc EXCEPT ![s] = "starting"]
    /\ task' = [task EXCEPT !.left = IF task.pc = "startAll" THEN @ \ {l} ELSE @]
    /\ UNCHANGED <<config, manager, dict>>

\* A single start raises; in from_languages its thread keeps the exception.
NotStarted(l) ==
    IF task.pc = "startAll" THEN task' = [task EXCEPT !.bad = TRUE, !.left = @ \ {l}]
                            ELSE Ends

\* The server cannot be created, or its process cannot be launched.
LaunchFails(l) ==
    /\ l \in Wanted
    /\ NotStarted(l)
    /\ UNCHANGED <<config, manager, dict, proc, slot>>

\* Whoever wanted the server goes on: the addition ends, a loop and a first attempt
\* have their server, after a termination the tool is applied again from the start.
Resumes(l, s) ==
    /\ task' = CASE task.op = "add"       -> Idle
                 [] task.pc = "startAll"  -> task
                 [] task.from = "visit"   -> [task EXCEPT !.pc = "yielded", !.ls = s]
                 [] task.from = "get"     -> [task EXCEPT !.pc = "use", !.ls = s]
                 [] task.from = "use"     -> [task EXCEPT !.pc = "get", !.ls = None]
    /\ config' = IF task.op = "add" THEN config \cup {l} ELSE config

\* Mutant: the server that was started does not take the place of the dead one.
StartsUnlisted(l) ==
    /\ slot[l] # None
    /\ proc' = [proc EXCEPT ![slot[l]] = "up"]
    /\ slot' = [slot EXCEPT ![l] = None]
    /\ dict' = [dict EXCEPT ![l] = IF @ = None THEN slot[l] ELSE @]
    /\ Resumes(l, slot[l])
    /\ UNCHANGED manager

\* It is entered, in the place of a dead one if there is one.
Starts(l) ==
    /\ slot[l] # None
    /\ proc' = [proc EXCEPT ![slot[l]] = "up"]
    /\ slot' = [slot EXCEPT ![l] = None]
    /\ dict' = [dict EXCEPT ![l] = slot[l]]
    /\ Resumes(l, slot[l])
    /\ UNCHANGED manager

\* The process dies, or answers amiss or not at all: then it is left behind.
StartFails(l) ==
    /\ slot[l] # None
    /\ \/ proc' = [proc EXCEPT ![slot[l]] = "gone"]
       \/ MoreStrays /\ proc' = [proc EXCEPT ![slot[l]] = "mute"]
    /\ slot' = [slot EXCEPT ![l] = None]
    /\ NotStarted(l)
    /\ UNCHANGED <<config, manager, dict>>

-----------------------------------------------------------------------------
(* The loop over iter_language_servers: stop_all and save_all_caches.      *)

Looping(op) == [Idle EXCEPT !.pc = "visit", !.op = op, !.left = Present]

\* _ensure_functional_ls: a server that is not running is restarted, even if only
\* to be stopped.
Visit(l) ==
    /\ task.pc = "visit" /\ l \in task.left
    /\ task' = IF IsRunning(dict[l])
               THEN [task EXCEPT !.pc = "yielded", !.lang = l, !.ls = dict[l]]
               ELSE StartOne(l, dict[l])
    /\ UNCHANGED <<config, manager, dict, proc, slot>>

\* The body: save_cache, which changes nothing here, or stop.
Yielded ==
    /\ task.pc = "yielded" /\ task.op # "remove"
    /\ proc' = IF task.op = "tool" THEN proc ELSE Stopped({task.ls})
    /\ task' = [task EXCEPT !.pc = "visit", !.left = @ \ {task.lang}, !.lang = None,
                            !.ls = None, !.from = None]
    /\ UNCHANGED <<config, manager, dict, slot>>

\* The end of the loop: the manager is given up, before a new one is made or for good.
LoopEnds ==
    /\ task.pc = "visit" /\ task.left = {}
    /\ IF task.op = "tool" THEN UNCHANGED <<manager, dict>>
                           ELSE manager' = FALSE /\ dict' = NoServers
    /\ task' = CASE task.op = "reset"    -> [Idle EXCEPT !.pc = "startAll", !.left = config]
                 [] task.op = "shutdown" -> [Idle EXCEPT !.pc = "over"]
                 [] task.op = "tool"     -> Idle
    /\ UNCHANGED <<config, proc, slot>>

-----------------------------------------------------------------------------
(* create_language_server_manager.                                         *)

\* Mutant: a new manager replaces the old one, whose servers nobody stops.
ResetAtOnce ==
    /\ task.pc = "idle"
    /\ manager' = FALSE /\ dict' = NoServers
    /\ task' = [Idle EXCEPT !.pc = "startAll", !.left = config]
    /\ UNCHANGED <<config, proc, slot>>

\* The servers of the existing manager are stopped first.
Reset ==
    /\ task.pc = "idle"
    /\ task' = IF manager THEN Looping("reset")
                          ELSE [Idle EXCEPT !.pc = "startAll", !.left = config]
    /\ UNCHANGED <<config, manager, dict, proc, slot>>

\* Mutant: it does not wait for the threads that are still starting a server.
Launched == task.pc = "startAll" /\ task.left = {}

Joined == task.pc = "startAll" /\ task.left = {} /\ slot = NoServers

\* Mutant: those that could be started will do.
JoinAnyway ==
    /\ Joined
    /\ manager' = TRUE
    /\ Ends
    /\ UNCHANGED <<config, dict, proc, slot>>

\* from_languages has joined its threads.  All have started; or those that have are
\* stopped, and it raises.
Join ==
    /\ Joined
    /\ IF task.bad
       THEN /\ proc' = Stopped({dict[l] : l \in Langs})
            /\ dict' = NoServers /\ UNCHANGED manager
       ELSE manager' = TRUE /\ UNCHANGED <<proc, dict>>
    /\ Ends
    /\ UNCHANGED <<config, slot>>

-----------------------------------------------------------------------------
(* A tool, applied to a file of language l.                                *)

Tool(l) ==
    /\ task.pc = "idle" /\ manager /\ l \in Present
    /\ task' = [Idle EXCEPT !.pc = "get", !.op = "tool", !.lang = l]
    /\ UNCHANGED <<config, manager, dict, proc, slot>>

\* get_language_server.
Get ==
    /\ task.pc = "get"
    /\ task' = IF IsRunning(dict[task.lang])
               THEN [task EXCEPT !.pc = "use", !.ls = dict[task.lang]]
               ELSE StartOne(task.lang, dict[task.lang])
    /\ UNCHANGED <<config, manager, dict, proc, slot>>

\* It succeeds, and all caches are saved.
Used ==
    /\ task.pc = "use" /\ proc[task.ls] = "up"
    /\ task' = Looping("tool")
    /\ UNCHANGED <<config, manager, dict, proc, slot>>

\* It fails for a reason of its own, or its request, written to a dead process,
\* times out.
UseFails ==
    /\ task.pc = "use"
    /\ Ends
    /\ UNCHANGED <<config, manager, dict, proc, slot>>

\* The server dies on it, or its reader thread fails, and that fails the request as
\* terminated either way: a server is started in its place, which is not stopped, and
\* the tool applied a second time, but not a third.
Terminated ==
    /\ task.pc = "use"
    /\ \/ /\ proc[task.ls] \in {"up", "dead"}
          /\ proc' = [proc EXCEPT ![task.ls] = "gone"]
       \/ /\ proc[task.ls] = "up" /\ MoreStrays
          /\ proc' = [proc EXCEPT ![task.ls] = "mute"]
    /\ IF task.again THEN Ends
       ELSE task' = [StartOne(task.lang, task.ls) EXCEPT !.again = TRUE]
    /\ UNCHANGED <<config, manager, dict, slot>>

-----------------------------------------------------------------------------
(* The user adds and removes languages; the agent shuts down.              *)

\* The server first, then the configuration.
AddLanguage(l) ==
    /\ task.pc = "idle" /\ l \notin config /\ l \notin Present
    /\ IF manager
       THEN /\ task' = [StartOne(l, None) EXCEPT !.op = "add"]
            /\ UNCHANGED config
       ELSE config' = config \cup {l} /\ UNCHANGED task
    /\ UNCHANGED <<manager, dict, proc, slot>>

\* The configuration first, then the server, unless saving the configuration fails.
RemoveLanguage(l) ==
    /\ task.pc = "idle" /\ l \in config
    /\ config' = config \ {l}
    /\ \/ UNCHANGED <<dict, task>>
       \/ /\ manager /\ l \in Present
          /\ dict' = [dict EXCEPT ![l] = None]
          /\ task' = [Idle EXCEPT !.pc = "yielded", !.op = "remove", !.ls = dict[l]]
    /\ UNCHANGED <<manager, proc, slot>>

RemoveStops ==
    /\ task.pc = "yielded" /\ task.op = "remove"
    /\ proc' = Stopped({task.ls})
    /\ Ends
    /\ UNCHANGED <<config, manager, dict, slot>>

Shutdown ==
    /\ task.pc = "idle"
    /\ task' = IF manager THEN Looping("shutdown") ELSE [Idle EXCEPT !.pc = "over"]
    /\ UNCHANGED <<config, manager, dict, proc, slot>>

-----------------------------------------------------------------------------
(* What the processes do.                                                  *)

Dies(s) ==
    /\ proc[s] \in Mortal
    /\ proc' = [proc EXCEPT ![s] = "dead"]
    /\ UNCHANGED <<config, manager, dict, slot, task>>

\* The thread that reads its answers fails while no request is pending: nobody is told.
ReaderFails(s) ==
    /\ proc[s] = "up" /\ MoreStrays
    /\ proc' = [proc EXCEPT ![s] = "mute"]
    /\ UNCHANGED <<config, manager, dict, slot, task>>

\* A thread that reads its stdout or stderr polls the process.
Polled(s) ==
    /\ proc[s] = "dead"
    /\ proc' = [proc EXCEPT ![s] = "gone"]
    /\ UNCHANGED <<config, manager, dict, slot, task>>

-----------------------------------------------------------------------------
Next ==
    \/ \E l \in Langs : \/ Launch(l) \/ LaunchFails(l) \/ Starts(l) \/ StartFails(l)
                        \/ Visit(l) \/ Tool(l) \/ AddLanguage(l) \/ RemoveLanguage(l)
    \/ Yielded \/ LoopEnds \/ Reset \/ Join
    \/ Get \/ Used \/ UseFails \/ Terminated \/ RemoveStops \/ Shutdown
    \/ \E s \in Servers : Dies(s) \/ ReaderFails(s) \/ Polled(s)

\* A task's next step of its own.
GoesOn == (\E l \in Langs : Visit(l)) \/ Yielded \/ LoopEnds \/ Join
             \/ Get \/ Used \/ UseFails \/ RemoveStops

\* Tasks go on; tools are applied again and again, to every language; starting a
\* server does not fail every time.
Fairness ==
    /\ \A l \in Langs : SF_vars(Launch(l)) /\ SF_vars(Starts(l)) /\ SF_vars(Tool(l))
    /\ WF_vars(GoesOn)
    /\ \A s \in Servers : WF_vars(Polled(s))

Spec     == Init /\ [][Next]_vars
FairSpec == Spec /\ Fairness

-----------------------------------------------------------------------------
\* Type correctness; and a task does not go on while it is starting a server.
TypeOK ==
    /\ config \subseteq Langs /\ manager \in BOOLEAN
    /\ dict \in [Langs -> Servers \cup {None}]
    /\ proc \in [Servers -> {"starting", "up", "mute", "dead", "gone"}]
    /\ slot \in [Langs -> Servers \cup {None}]
    /\ task.left \subseteq Langs /\ task.ls \in Servers \cup {None}
    /\ \A l \in Langs : slot[l] # None =>
          proc[slot[l]] = "starting" /\ task.pc \in {"start", "startAll"}

\* A server process that runs is known to the project, which can stop it: in spite
\* of restarts, resets, removals and failures nobody forgets one whose answers are
\* read.  What may be forgotten are processes whose start failed after they had been
\* launched and those whose reader thread failed, which a restart does not stop.
NothingForgotten ==
    \A s \in Servers : proc[s] \in {"starting", "up"} =>
        s = task.ls \/ \E l \in Langs : s \in {dict[l], slot[l]}

\* A manager never serves a part only of the configured languages.
AllOrNothing == manager => config \subseteq Present

\* A server whose process has died does not stay the server of its language for
\* ever; one that nobody reads may.
DeadAreReplaced ==
    \A l \in Langs : []<>(~manager \/ dict[l] = None \/ proc[dict[l]] \in {"up", "mute"})

\* restart_language_server: "It is assumed that the language server for the given
\* language is no longer running."
RestartsOnlyStopped ==
    task.pc = "start" /\ task.ls # None => proc[task.ls] \in {"dead", "gone"}

=============================================================================
