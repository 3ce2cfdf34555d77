----------------------- MODULE LanguageServersProofs -----------------------
(***************************************************************************)
(* No server that is read is forgotten and a manager is whole: TypeOK,     *)
(* NothingForgotten and AllOrNothing.  What makes them inductive is what a *)
(* task relies on when it goes on: the server it holds is the one entered  *)
(* for its language, the one it is about to replace does not answer any    *)
(* more, a language whose server is being started has none yet, and behind *)
(* a loop that stops servers all of them are stopped.                      *)
(***************************************************************************)
EXTENDS LanguageServers, TLAPS

USE LanguageConstants DEF vars

Tasks ==
    [pc : {"idle", "start", "startAll", "visit", "yielded", "get", "use", "over"},
     op : Ops \cup {None}, left : SUBSET Langs, lang : Langs \cup {None},
     ls : Servers \cup {None}, from : Places \cup {None},
     bad : BOOLEAN, again : BOOLEAN]

Typed ==
    /\ config \in SUBSET Langs /\ manager \in BOOLEAN
    /\ dict \in [Langs -> Servers \cup {None}]
    /\ slot \in [Langs -> Servers \cup {None}]
    /\ proc \in [Servers -> {"starting", "up", "mute", "dead", "gone"}]
    /\ task \in Tasks

(* The processes in the dictionary have been started, those in the slots   *)
(* are being started, each for one language.                               *)
PlacesSound ==
    /\ \A l \in Langs : dict[l] # None => proc[dict[l]] \in {"up", "mute", "dead", "gone"}
    /\ \A l \in Langs : slot[l] # None =>
          proc[slot[l]] = "starting" /\ task.pc \in {"start", "startAll"}
    /\ \A l, m \in Langs : slot[l] # None /\ slot[l] = slot[m] => l = m
    /\ ~manager /\ task.pc # "startAll" => dict = NoServers

(* from_languages starts a server where there is none, and has accounted   *)
(* for every language of the configuration.                                *)
StartingAll ==
    task.pc = "startAll" =>
        /\ task.op = None /\ task.from = None /\ task.ls = None /\ ~manager
        /\ \A l \in task.left : slot[l] = None
        /\ \A l \in Langs : l \in task.left \/ slot[l] # None => dict[l] = None
        /\ ~task.bad => \A l \in config :
              l \in task.left \/ slot[l] # None \/ dict[l] # None

(* A single start replaces the server the task holds, which is gone, or    *)
(* nobody reads its answers.                                               *)
StartingOne ==
    task.pc = "start" =>
        /\ manager /\ task.lang \in Langs
        /\ dict[task.lang] = task.ls
        /\ task.ls # None => proc[task.ls] \in {"mute", "dead", "gone"}
        /\ \A l \in Langs : slot[l] # None => l = task.lang
        /\ \/ task.op = "add" /\ task.from = "idle"
           \/ task.op = "tool" /\ task.from \in {"get", "use"}
           \/ /\ task.op \in {"tool", "reset", "shutdown"} /\ task.from = "visit"
              /\ task.lang \in task.left

(* The server in a task's hand is its language's.                          *)
ServerInHand ==
    /\ task.ls # None => proc[task.ls] \in {"up", "mute", "dead", "gone"}
    /\ task.pc \in {"idle", "over", "visit", "get"} => task.ls = None
    /\ task.pc \in {"visit", "yielded", "get", "use"} => manager
    /\ task.pc = "visit" => task.op \in {"tool", "reset", "shutdown"}
    /\ task.pc = "yielded" =>
          \/ task.op = "remove"
          \/ /\ task.op \in {"tool", "reset", "shutdown"}
             /\ task.lang \in task.left /\ task.ls = dict[task.lang]
    /\ task.pc \in {"get", "use"} => task.op = "tool" /\ task.lang \in Langs
    /\ task.pc = "use" => task.ls = dict[task.lang] /\ task.ls # None

(* Behind a loop that stops the servers they are stopped.                  *)
StoppedBehind ==
    task.pc \in {"visit", "yielded", "start"} /\ task.op \in {"reset", "shutdown"} =>
        \A l \in Langs \ task.left : dict[l] # None => proc[dict[l]] = "gone"

ServersInv ==
    /\ Typed /\ PlacesSound /\ StartingAll /\ StartingOne
    /\ ServerInHand /\ StoppedBehind
    /\ NothingForgotten /\ AllOrNothing

(* The project begins without a manager.                                  *)
LEMMA InitServers == Init => ServersInv
<1> SUFFICES ASSUME Init PROVE ServersInv
  OBVIOUS
<1>1. QED
  BY DEF Init, Idle, NoServers, Present, ServersInv, Typed, Tasks, PlacesSound, StartingAll,
     StartingOne,
     ServerInHand, StoppedBehind, NothingForgotten, AllOrNothing

(* Each action, by the place the task was at: what the task goes on with,  *)
(* and what of the servers it left behind.                                 *)
LEMMA StepServers == ServersInv /\ [Next]_vars => ServersInv'
<1> SUFFICES ASSUME ServersInv, [Next]_vars PROVE ServersInv'
  OBVIOUS
<1> USE DEF ServersInv, Typed, Tasks, Ops, Places, PlacesSound, StartingAll, StartingOne,
            ServerInHand, StoppedBehind, NothingForgotten, AllOrNothing, Present, NoServers

<1>1. ASSUME NEW l \in Langs, Launch(l) PROVE ServersInv'
  BY <1>1 DEF Launch, Wanted, Free
<1>2. ASSUME NEW l \in Langs, LaunchFails(l) PROVE ServersInv'
  <2>1. CASE task.pc = "startAll"
    <3>1. task' = [task EXCEPT !.bad = TRUE, !.left = @ \ {l}]
          /\ UNCHANGED <<config, manager, dict, proc, slot>> /\ l \in task.left
      BY <1>2, <2>1 DEF LaunchFails, Wanted, NotStarted, Ends
    <3>2. QED
      BY <2>1, <3>1 DEF Idle
  <2>2. CASE task.pc = "start"
    <3>1. task' = Idle /\ UNCHANGED <<config, manager, dict, proc, slot>>
          /\ slot[task.lang] = None
      BY <1>2, <2>2 DEF LaunchFails, Wanted, NotStarted, Ends
    <3>2. QED
      BY <2>2, <3>1 DEF Idle
  <2>3. QED
    BY <1>2, <2>1, <2>2 DEF LaunchFails, Wanted, NotStarted, Ends, Idle
<1>3. ASSUME NEW l \in Langs, Starts(l) PROVE ServersInv'
  <2>1. CASE task.pc = "startAll"
    <3>1. UNCHANGED manager /\ slot[l] # None
          /\ proc' = [proc EXCEPT ![slot[l]] = "up"]
          /\ slot' = [slot EXCEPT ![l] = None]
          /\ dict' = [dict EXCEPT ![l] = slot[l]]
          /\ UNCHANGED <<config, task>>
      <4>1. task.op \notin Ops /\ task.from \notin Places
        BY <2>1
      <4>2. QED
        BY <1>3, <2>1, <4>1 DEF Starts, Resumes
    <3>2. QED
      BY <2>1, <3>1 DEF Idle
  <2>2. CASE task.pc = "start" /\ task.op = "add"
    <3>1. UNCHANGED manager /\ slot[l] # None
          /\ proc' = [proc EXCEPT ![slot[l]] = "up"]
          /\ slot' = [slot EXCEPT ![l] = None]
          /\ dict' = [dict EXCEPT ![l] = slot[l]]
          /\ task' = Idle /\ config' = config \cup {l}
      BY <1>3, <2>2 DEF Starts, Resumes
    <3>2. QED
      BY <2>2, <3>1 DEF Idle
  <2>3. CASE task.pc = "start" /\ task.from = "visit"
    <3>1. UNCHANGED manager /\ slot[l] # None
          /\ proc' = [proc EXCEPT ![slot[l]] = "up"]
          /\ slot' = [slot EXCEPT ![l] = None]
          /\ dict' = [dict EXCEPT ![l] = slot[l]]
          /\ task' = [task EXCEPT !.pc = "yielded", !.ls = slot[l]] /\ UNCHANGED config
      BY <1>3, <2>3 DEF Starts, Resumes
    <3>2. Typed'
      BY <2>3, <3>1 DEF Idle
    <3>3. PlacesSound'
      BY <2>3, <3>1 DEF Idle
    <3>4. StartingAll'
      BY <2>3, <3>1 DEF Idle
    <3>5. StartingOne'
      BY <2>3, <3>1 DEF Idle
    <3>6. ServerInHand'
      BY <2>3, <3>1 DEF Idle
    <3>7. StoppedBehind'
      BY <2>3, <3>1 DEF Idle
    <3>8. NothingForgotten'
      BY <2>3, <3>1 DEF Idle
    <3>9. AllOrNothing'
      BY <2>3, <3>1 DEF Idle
    <3>10. QED
      BY <3>2, <3>3, <3>4, <3>5, <3>6, <3>7, <3>8, <3>9
  <2>4. CASE task.pc = "start" /\ task.from = "get"
    <3>1. UNCHANGED manager /\ slot[l] # None
          /\ proc' = [proc EXCEPT ![slot[l]] = "up"]
          /\ slot' = [slot EXCEPT ![l] = None]
          /\ dict' = [dict EXCEPT ![l] = slot[l]]
          /\ task' = [task EXCEPT !.pc = "use", !.ls = slot[l]] /\ UNCHANGED config
      BY <1>3, <2>4 DEF Starts, Resumes
    <3>2. Typed'
      BY <2>4, <3>1 DEF Idle
    <3>3. PlacesSound'
      BY <2>4, <3>1 DEF Idle
    <3>4. StartingAll'
      BY <2>4, <3>1 DEF Idle
    <3>5. StartingOne'
      BY <2>4, <3>1 DEF Idle
    <3>6. ServerInHand'
      BY <2>4, <3>1 DEF Idle
    <3>7. StoppedBehind'
      BY <2>4, <3>1 DEF Idle
    <3>8. NothingForgotten'
      BY <2>4, <3>1 DEF Idle
    <3>9. AllOrNothing'
      BY <2>4, <3>1 DEF Idle
    <3>10. QED
      BY <3>2, <3>3, <3>4, <3>5, <3>6, <3>7, <3>8, <3>9
  <2>5. CASE task.pc = "start" /\ task.from = "use"
    <3>1. UNCHANGED manager /\ slot[l] # None
          /\ proc' = [proc EXCEPT ![slot[l]] = "up"]
          /\ slot' = [slot EXCEPT ![l] = None]
          /\ dict' = [dict EXCEPT ![l] = slot[l]]
          /\ task' = [task EXCEPT !.pc = "get", !.ls = None] /\ UNCHANGED config
      BY <1>3, <2>5 DEF Starts, Resumes
    <3>2. Typed'
      BY <2>5, <3>1 DEF Idle
    <3>3. PlacesSound'
      BY <2>5, <3>1 DEF Idle
    <3>4. StartingAll'
      BY <2>5, <3>1 DEF Idle
    <3>5. StartingOne'
      BY <2>5, <3>1 DEF Idle
    <3>6. ServerInHand'
      BY <2>5, <3>1 DEF Idle
    <3>7. StoppedBehind'
      BY <2>5, <3>1 DEF Idle
    <3>8. NothingForgotten'
      BY <2>5, <3>1 DEF Idle
    <3>9. AllOrNothing'
      BY <2>5, <3>1 DEF Idle
    <3>10. QED
      BY <3>2, <3>3, <3>4, <3>5, <3>6, <3>7, <3>8, <3>9
  <2>6. QED
    BY <1>3, <2>1, <2>2, <2>3, <2>4, <2>5 DEF Starts, Resumes, Idle
<1>4. ASSUME NEW l \in Langs, StartFails(l) PROVE ServersInv'
  <2>1. CASE task.pc = "startAll"
    <3>1. UNCHANGED <<config, manager, dict>> /\ slot[l] # None
          /\ slot' = [slot EXCEPT ![l] = None]
          /\ \/ proc' = [proc EXCEPT ![slot[l]] = "gone"]
             \/ proc' = [proc EXCEPT ![slot[l]] = "mute"]
          /\ task' = [task EXCEPT !.bad = TRUE, !.left = @ \ {l}]
      BY <1>4, <2>1 DEF StartFails, NotStarted, Ends
    <3>2. Typed'
      BY <2>1, <3>1 DEF Idle
    <3>3. PlacesSound'
      BY <2>1, <3>1 DEF Idle
    <3>4. StartingAll'
      BY <2>1, <3>1 DEF Idle
    <3>5. StartingOne'
      BY <2>1, <3>1 DEF Idle
    <3>6. ServerInHand'
      BY <2>1, <3>1 DEF Idle
    <3>7. StoppedBehind'
      BY <2>1, <3>1 DEF Idle
    <3>8. NothingForgotten'
      BY <2>1, <3>1 DEF Idle
    <3>9. AllOrNothing'
      BY <2>1, <3>1 DEF Idle
    <3>10. QED
      BY <3>2, <3>3, <3>4, <3>5, <3>6, <3>7, <3>8, <3>9
  <2>2. CASE task.pc = "start"
    <3>1. UNCHANGED <<config, manager, dict>> /\ slot[l] # None
          /\ slot' = [slot EXCEPT ![l] = None]
          /\ \/ proc' = [proc EXCEPT ![slot[l]] = "gone"]
             \/ proc' = [proc EXCEPT ![slot[l]] = "mute"]
          /\ task' = Idle
      BY <1>4, <2>2 DEF StartFails, NotStarted, Ends
    <3>2. QED
      BY <2>2, <3>1 DEF Idle
  <2>3. QED
    BY <1>4, <2>1, <2>2 DEF StartFails, NotStarted, Ends, Idle
<1>5. ASSUME NEW l \in Langs, Visit(l) PROVE ServersInv'
  <2>1. Typed'
    BY <1>5 DEF Visit, IsRunning, StartOne
  <2>2. PlacesSound'
    BY <1>5 DEF Visit, IsRunning, StartOne
  <2>3. StartingAll'
    BY <1>5 DEF Visit, IsRunning, StartOne
  <2>4. StartingOne'
    BY <1>5 DEF Visit, IsRunning, StartOne
  <2>5. ServerInHand'
    BY <1>5 DEF Visit, IsRunning, StartOne
  <2>6. StoppedBehind'
    BY <1>5 DEF Visit, IsRunning, StartOne
  <2>7. NothingForgotten'
    BY <1>5 DEF Visit, IsRunning, StartOne
  <2>8. AllOrNothing'
    BY <1>5 DEF Visit, IsRunning, StartOne
  <2>9. QED
    BY <2>1, <2>2, <2>3, <2>4, <2>5, <2>6, <2>7, <2>8
<1>6. ASSUME NEW l \in Langs, Tool(l) PROVE ServersInv'
  BY <1>6 DEF Tool, Idle
<1>7. ASSUME NEW l \in Langs, AddLanguage(l) PROVE ServersInv'
  <2>1. CASE manager
    <3>1. task' \in Tasks /\ task'.pc = "start" /\ task'.op = "add"
          /\ task'.from = "idle" /\ task'.lang = l /\ task'.ls = None
          /\ UNCHANGED <<config, manager, dict, proc, slot>>
          /\ task.pc = "idle" /\ dict[l] = None
      <4>1. /\ task' = [StartOne(l, None) EXCEPT !.op = "add"]
            /\ UNCHANGED <<config, manager, dict, proc, slot>>
            /\ task.pc = "idle" /\ dict[l] = None
        BY <1>7, <2>1 DEF AddLanguage
      <4>2. QED
        BY <4>1 DEF StartOne
    <3>2. QED
      BY <2>1, <3>1 DEF Idle
  <2>2. CASE ~manager
    <3>1. config' = config \cup {l} /\ UNCHANGED <<manager, dict, proc, slot, task>>
          /\ task.pc = "idle" 
      BY <1>7, <2>2 DEF AddLanguage, StartOne
    <3>2. QED
      BY <2>2, <3>1 DEF Idle
  <2>3. QED
    BY <1>7, <2>1, <2>2 DEF AddLanguage, StartOne
<1>8. ASSUME NEW l \in Langs, RemoveLanguage(l) PROVE ServersInv'
  <2>1. CASE UNCHANGED <<dict, task>>
    <3>1. config' = config \ {l} /\ UNCHANGED <<manager, dict, proc, slot, task>>
          /\ task.pc = "idle" 
      BY <1>8, <2>1 DEF RemoveLanguage
    <3>2. QED
      BY <2>1, <3>1 DEF Idle
  <2>2. CASE manager /\ l \in Present /\ ~UNCHANGED <<dict, task>>
    <3>1. config' = config \ {l} /\ UNCHANGED <<manager, proc, slot>>
          /\ dict' = [dict EXCEPT ![l] = None] /\ dict[l] # None
          /\ task' = [Idle EXCEPT !.pc = "yielded", !.op = "remove", !.ls = dict[l]]
          /\ task.pc = "idle" 
      BY <1>8, <2>2 DEF RemoveLanguage
    <3>2. Typed'
      BY <2>2, <3>1 DEF Idle
    <3>3. PlacesSound'
      BY <2>2, <3>1 DEF Idle
    <3>4. StartingAll'
      BY <2>2, <3>1 DEF Idle
    <3>5. StartingOne'
      BY <2>2, <3>1 DEF Idle
    <3>6. ServerInHand'
      BY <2>2, <3>1 DEF Idle
    <3>7. StoppedBehind'
      BY <2>2, <3>1 DEF Idle
    <3>8. NothingForgotten'
      BY <2>2, <3>1 DEF Idle
    <3>9. AllOrNothing'
      BY <2>2, <3>1 DEF Idle
    <3>10. QED
      BY <3>2, <3>3, <3>4, <3>5, <3>6, <3>7, <3>8, <3>9
  <2>3. QED
    BY <1>8, <2>1, <2>2 DEF RemoveLanguage, Idle
<1>9. ASSUME Yielded PROVE ServersInv'
  <2>1. Typed'
    BY <1>9 DEF Yielded, Stopped, IsRunning
  <2>2. PlacesSound'
    BY <1>9 DEF Yielded, Stopped, IsRunning
  <2>3. StartingAll'
    BY <1>9 DEF Yielded, Stopped, IsRunning
  <2>4. StartingOne'
    BY <1>9 DEF Yielded, Stopped, IsRunning
  <2>5. ServerInHand'
    BY <1>9 DEF Yielded, Stopped, IsRunning
  <2>6. StoppedBehind'
    BY <1>9 DEF Yielded, Stopped, IsRunning
  <2>7. NothingForgotten'
    BY <1>9 DEF Yielded, Stopped, IsRunning
  <2>8. AllOrNothing'
    BY <1>9 DEF Yielded, Stopped, IsRunning
  <2>9. QED
    BY <2>1, <2>2, <2>3, <2>4, <2>5, <2>6, <2>7, <2>8
<1>10. ASSUME LoopEnds PROVE ServersInv'
  <2>1. CASE task.op = "tool"
    <3>1. task' = Idle /\ UNCHANGED <<config, manager, dict, proc, slot>>
          /\ task.pc = "visit" 
      BY <1>10, <2>1 DEF LoopEnds
    <3>2. QED
      BY <2>1, <3>1 DEF Idle
  <2>2. CASE task.op = "reset"
    <3>1. task' = [Idle EXCEPT !.pc = "startAll", !.left = config]
          /\ manager' = FALSE /\ dict' = NoServers /\ UNCHANGED <<config, proc, slot>>
          /\ task.pc = "visit" /\ task.left = {}
      BY <1>10, <2>2 DEF LoopEnds
    <3>2. QED
      BY <2>2, <3>1 DEF Idle
  <2>3. CASE task.op = "shutdown"
    <3>1. task' = [Idle EXCEPT !.pc = "over"]
          /\ manager' = FALSE /\ dict' = NoServers /\ UNCHANGED <<config, proc, slot>>
          /\ task.pc = "visit" /\ task.left = {}
      BY <1>10, <2>3 DEF LoopEnds
    <3>2. QED
      BY <2>3, <3>1 DEF Idle
  <2>4. QED
    BY <1>10, <2>1, <2>2, <2>3 DEF LoopEnds, Idle
<1>11. ASSUME Reset PROVE ServersInv'
  <2>1. Typed'
    BY <1>11 DEF Reset, Looping, Idle
  <2>2. PlacesSound'
    BY <1>11 DEF Reset, Looping, Idle
  <2>3. StartingAll'
    BY <1>11 DEF Reset, Looping, Idle
  <2>4. StartingOne'
    BY <1>11 DEF Reset, Looping, Idle
  <2>5. ServerInHand'
    BY <1>11 DEF Reset, Looping, Idle
  <2>6. StoppedBehind'
    BY <1>11 DEF Reset, Looping, Idle
  <2>7. NothingForgotten'
    BY <1>11 DEF Reset, Looping, Idle
  <2>8. AllOrNothing'
    BY <1>11 DEF Reset, Looping, Idle
  <2>9. QED
    BY <2>1, <2>2, <2>3, <2>4, <2>5, <2>6, <2>7, <2>8
<1>12. ASSUME Join PROVE ServersInv'
  <2>1. CASE task.bad
    <3>1. proc' = Stopped({dict[l] : l \in Langs}) /\ dict' = NoServers
          /\ task' = Idle /\ UNCHANGED <<config, manager, slot>>
          /\ task.pc = "startAll" /\ task.left = {} /\ slot = NoServers
      BY <1>12, <2>1 DEF Join, Joined, Stopped, IsRunning, Ends
    <3>2. QED
      BY <2>1, <3>1 DEF Idle, Stopped, IsRunning
  <2>2. CASE ~task.bad
    <3>1. manager' = TRUE /\ task' = Idle /\ UNCHANGED <<config, proc, dict, slot>>
          /\ task.pc = "startAll" /\ task.left = {} /\ slot = NoServers
      BY <1>12, <2>2 DEF Join, Joined, Stopped, IsRunning, Ends
    <3>2. QED
      BY <2>2, <3>1 DEF Idle, Stopped, IsRunning
  <2>3. QED
    BY <1>12, <2>1, <2>2 DEF Join, Joined, Stopped, IsRunning, Ends, Idle
<1>13. ASSUME Get PROVE ServersInv'
  <2>1. Typed'
    BY <1>13 DEF Get, IsRunning, StartOne
  <2>2. PlacesSound'
    BY <1>13 DEF Get, IsRunning, StartOne
  <2>3. StartingAll'
    BY <1>13 DEF Get, IsRunning, StartOne
  <2>4. StartingOne'
    BY <1>13 DEF Get, IsRunning, StartOne
  <2>5. ServerInHand'
    BY <1>13 DEF Get, IsRunning, StartOne
  <2>6. StoppedBehind'
    BY <1>13 DEF Get, IsRunning, StartOne
  <2>7. NothingForgotten'
    BY <1>13 DEF Get, IsRunning, StartOne
  <2>8. AllOrNothing'
    BY <1>13 DEF Get, IsRunning, StartOne
  <2>9. QED
    BY <2>1, <2>2, <2>3, <2>4, <2>5, <2>6, <2>7, <2>8
<1>14. ASSUME Used PROVE ServersInv'
  BY <1>14 DEF Used, Looping, Idle
<1>15. ASSUME UseFails PROVE ServersInv'
  BY <1>15 DEF UseFails, Ends, Idle
<1>16. ASSUME Terminated PROVE ServersInv'
  <2>1. CASE task.again
    <3>1. task' = Idle
          /\ proc' \in {[proc EXCEPT ![task.ls] = "gone"], [proc EXCEPT ![task.ls] = "mute"]}
          /\ UNCHANGED <<config, manager, dict, slot>> /\ task.pc = "use" 
      BY <1>16, <2>1 DEF Terminated, Ends, StartOne
    <3>2. QED
      BY <2>1, <3>1 DEF Idle
  <2>2. CASE ~task.again
    <3>1. proc' \in {[proc EXCEPT ![task.ls] = "gone"], [proc EXCEPT ![task.ls] = "mute"]}
          /\ task' \in Tasks /\ task'.pc = "start" /\ task'.from = "use"
          /\ task'.op = task.op /\ task'.lang = task.lang /\ task'.ls = task.ls
          /\ UNCHANGED <<config, manager, dict, slot>> /\ task.pc = "use" 
      <4>1. /\ task' = [StartOne(task.lang, task.ls) EXCEPT !.again = TRUE]
            /\ proc' \in {[proc EXCEPT ![task.ls] = "gone"], [proc EXCEPT ![task.ls] = "mute"]}
            /\ UNCHANGED <<config, manager, dict, slot>> /\ task.pc = "use"
        BY <1>16, <2>2 DEF Terminated
      <4>2. QED
        BY <4>1 DEF StartOne
    <3>2. QED
      BY <2>2, <3>1 DEF Idle
  <2>3. QED
    BY <1>16, <2>1, <2>2 DEF Terminated, Ends, Idle, StartOne
<1>17. ASSUME RemoveStops PROVE ServersInv'
  BY <1>17 DEF RemoveStops, Stopped, IsRunning, Ends, Idle
<1>18. ASSUME Shutdown PROVE ServersInv'
  BY <1>18 DEF Shutdown, Looping, Idle
<1>19. ASSUME NEW s \in Servers, Dies(s) PROVE ServersInv'
  BY <1>19 DEF Dies
<1>20. ASSUME NEW s \in Servers, Polled(s) PROVE ServersInv'
  BY <1>20 DEF Polled
<1>21. ASSUME NEW s \in Servers, ReaderFails(s) PROVE ServersInv'
  BY <1>21 DEF ReaderFails
<1>22. CASE UNCHANGED vars
  BY <1>22
<1> HIDE DEF ServersInv
<1>23. QED
  BY <1>1, <1>2, <1>3, <1>4, <1>5, <1>6, <1>7, <1>8, <1>9, <1>10, <1>11, <1>12, <1>13, <1>14,
     <1>15, <1>16, <1>17, <1>18, <1>19, <1>20, <1>21, <1>22 DEF Next

(* ServersInv is an invariant.                                             *)
LEMMA AlwaysServers == Spec => []ServersInv
BY InitServers, StepServers, PTL DEF Spec

(* Servers, slots and tasks stay well-formed, and a server is being        *)
(* started only while its task waits for it: no thread of from_languages   *)
(* outlives it.                                                            *)
THEOREM ServersTypes == Spec => []TypeOK
<1>1. ServersInv => TypeOK
  BY DEF ServersInv, Typed, Tasks, PlacesSound, StartingAll, StartingOne, TypeOK
<1>2. QED
  BY <1>1, AlwaysServers, PTL

(* Through restarts, resets, removals and failed starts the project knows  *)
(* every server process that runs and is read, for any number of languages *)
(* and wherever a server dies, fails to start or loses its reader thread.  *)
THEOREM ServersAreKnown == Spec => []NothingForgotten
<1>1. ServersInv => NothingForgotten
  BY DEF ServersInv
<1>2. QED
  BY <1>1, AlwaysServers, PTL

(* from_languages and the operations on languages leave a manager with a   *)
(* server for each configured language or no manager at all.               *)
THEOREM ManagersAreWhole == Spec => []AllOrNothing
<1>1. ServersInv => AllOrNothing
  BY DEF ServersInv
<1>2. QED
  BY <1>1, AlwaysServers, PTL

=============================================================================
