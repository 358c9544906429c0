--------------------------- MODULE ShutdownProofs ---------------------------
(***************************************************************************)
(* Theorems about Shutdown, for every set of servers with that of the      *)
(* process manager and every set of processes.                             *)
(*                                                                         *)
(* NoneForgotten speaks of the end; Accounted says, for each stage of      *)
(* cleanup, why a process that is still registered will not be forgotten.  *)
(* Stages ties the stage of the process manager's server to that of start. *)
(* EndInv does the same for the signal goroutine: the end of one server is *)
(* neither lost nor does it get stuck before it is the end of all.         *)
(***************************************************************************)
EXTENDS Shutdown, TLAPS

-----------------------------------------------------------------------------
(* The invariant.                                                          *)

InCleanup == {"list", "delete", "poll", "notify", "ended"}

(* Before the group runs there are no goroutines and no processes; while   *)
(* it runs the server of the process manager is one of them; when start    *)
(* has returned none is left.                                              *)
Stages ==
    /\ main \in SetupSteps \cup {"group"} =>
         /\ \A s \in Servers : server[s] \in {"none", "up"}
         /\ \A p \in Procs : procs[p] = "absent"
    /\ main \in {"spdk", "group"} => server["pm"] = "up" /\ monitor
    /\ main = "wait" => server["pm"] \in {"serve"} \cup InCleanup /\ monitor
    /\ main = "returned" => \/ server["pm"] = "ended"
                            \/ /\ server["pm"] \in {"none", "up"}
                               /\ \A p \in Procs : procs[p] = "absent"

(* What cleanup knows of a process that is registered.                     *)
Accounted ==
    \A p \in Procs : Registered(p) =>
        /\ server["pm"] = "delete" => p \in toDelete \cup late \/ procs[p] = "deleting"
        /\ server["pm"] = "poll" => p \in late \/ procs[p] = "deleting"
        /\ server["pm"] \in {"notify", "ended"} => p \in stubborn \cup late

(* cleanup never waits for a monitor that is gone: the update a deletion   *)
(* sends into the channel of the manager has a receiver.                   *)
CleanupHasMonitor == server["pm"] = "delete" => monitor

Inv == TypeOK /\ Stages /\ Accounted

-----------------------------------------------------------------------------
LEMMA ServerNames ==
    /\ "pm" \in Servers
    /\ \A s \in Servers : s \in {"disk", "instance", "proxy", "pm", "spdk"}
    /\ "none" \notin Servers
  BY ServersAssumption

(* The order of the setup: the process manager's server is next to last.   *)
LEMMA SetupFacts ==
    /\ SetupSteps = {"logger", "unfreeze", "addresses", "disk", "instance", "proxy", "pm", "spdk"}
    /\ Len(SetupOrder) = 8
    /\ \A i \in 1 .. 8 : /\ SetupOrder[i] \in SetupSteps
                         /\ i < 8 => SetupOrder[i + 1] \in SetupSteps
                         /\ i < 8 => SetupOrder[i + 1] = "spdk" <=> SetupOrder[i] = "pm"
                         /\ SetupOrder[i] = "spdk" <=> i = 8
<1>1. Len(SetupOrder) = 8
  BY DEF SetupOrder
<1>2. /\ SetupOrder[1] = "logger" /\ SetupOrder[2] = "unfreeze" /\ SetupOrder[3] = "addresses"
      /\ SetupOrder[4] = "disk" /\ SetupOrder[5] = "instance" /\ SetupOrder[6] = "proxy"
      /\ SetupOrder[7] = "pm" /\ SetupOrder[8] = "spdk"
  BY DEF SetupOrder
<1>3. \A i \in 1 .. 8 : i = 1 \/ i = 2 \/ i = 3 \/ i = 4 \/ i = 5 \/ i = 6 \/ i = 7 \/ i = 8
  OBVIOUS
<1> HIDE DEF SetupOrder
<1>4. SetupSteps = {"logger", "unfreeze", "addresses", "disk", "instance", "proxy", "pm", "spdk"}
  BY <1>1, <1>2, <1>3 DEF SetupSteps
<1>5. \A i \in 1 .. 8 : i < 8 => i + 1 \in 1 .. 8
  OBVIOUS
<1>6. ASSUME NEW i \in 1 .. 8
      PROVE  /\ SetupOrder[i] \in SetupSteps
             /\ i < 8 => SetupOrder[i + 1] \in SetupSteps
             /\ i < 8 => SetupOrder[i + 1] = "spdk" <=> SetupOrder[i] = "pm"
             /\ SetupOrder[i] = "spdk" <=> i = 8
  BY <1>2, <1>3, <1>4, <1>5
<1> QED
  BY <1>1, <1>4, <1>6

LEMMA InitInv == Init => Inv
<1> SUFFICES ASSUME Init PROVE Inv
  OBVIOUS
<1>1. TypeOK
  <2>1. spdkTgt \in BOOLEAN /\ monitor \in BOOLEAN /\ spdk \in BOOLEAN
    BY DEF Init
  <2>2. /\ server \in [Servers -> ServerPC]
        /\ procs \in [Procs -> {"absent", "creating", "registered", "deleting"}]
    BY DEF Init, ServerPC
  <2>3. /\ stopped \in SUBSET Servers /\ toDelete \in SUBSET Procs
        /\ stubborn \in SUBSET Procs /\ late \in SUBSET Procs
    BY DEF Init
  <2>4. main = "logger" /\ sigs = 0 /\ handler = "none" /\ watch = "none"
    BY DEF Init
  <2> QED
    BY <2>1, <2>2, <2>3, <2>4, SetupFacts DEF TypeOK
<1>2. Stages
  BY SetupFacts, ServerNames DEF Init, Stages
<1>3. Accounted
  BY DEF Init, Accounted, Registered
<1> QED
  BY <1>1, <1>2, <1>3 DEF Inv

(* What start does before and after its group.                             *)
LEMMA SetUpInv ==
    ASSUME Inv, NEW i \in 1 .. Len(SetupOrder), SetUp(i)
    PROVE  Inv'
<1> USE ServerNames DEF Inv, SetUp, procVars
<1>0. i \in 1 .. 8 /\ main \in SetupSteps
  BY SetupFacts
<1>1. main' \in SetupSteps \cup {"group"} /\ main # "group" /\ main # "wait" /\ main # "returned"
  BY SetupFacts, <1>0
<1>2. main' \in {"spdk", "group"} => main = "spdk" \/ main = "pm"
  BY SetupFacts, <1>0
<1>3. \A s \in Servers : server'[s] \in {"none", "up"}
  BY <1>0 DEF TypeOK, Stages
<1>4. TypeOK'
  <2>1. server' \in [Servers -> ServerPC]
    BY <1>3 DEF TypeOK, ServerPC
  <2> QED
    BY <1>0, <1>1, <2>1 DEF TypeOK
<1>5. main = "pm" => server'["pm"] = "up" /\ monitor'
  BY DEF TypeOK, Skipped
<1>6. main = "spdk" => server'["pm"] = "up" /\ monitor'
  BY DEF TypeOK, Stages
<1>7. main' # "wait" /\ main' # "returned"
  BY <1>1, SetupFacts
<1>8. Stages'
  BY <1>0, <1>2, <1>3, <1>5, <1>6, <1>7 DEF Stages
<1>9. Accounted'
  BY <1>0 DEF Stages, Accounted, Registered
<1> QED
  BY <1>4, <1>8, <1>9

LEMMA StartInv ==
    ASSUME Inv, SetUpFails \/ StartGroup \/ GroupWait
    PROVE  Inv'
<1> USE ServerNames, SetupFacts DEF Inv, procVars
<1>1. CASE SetUpFails
  BY <1>1 DEF SetUpFails, ReturnFromStart, TypeOK, Stages, Accounted, Registered
<1>2. CASE StartGroup
  <2>1. server' \in [Servers -> ServerPC] /\ server'["pm"] = "serve"
    BY <1>2 DEF StartGroup, TypeOK, Stages, ServerPC
  <2> QED
    BY <1>2, <2>1 DEF StartGroup, TypeOK, Stages, Accounted, Registered
<1>3. CASE GroupWait
  BY <1>3 DEF GroupWait, ReturnFromStart, TypeOK, Stages, Accounted, Registered, InCleanup
<1> QED
  BY <1>1, <1>2, <1>3

LEMMA SignalInv ==
    ASSUME Inv, Signal \/ SignalHandler
    PROVE  Inv'
<1> USE ServerNames DEF Inv, procVars
<1>1. CASE Signal
  BY <1>1 DEF Signal, TypeOK, Stages, Accounted, Registered
<1>2. CASE TakeSignal
  BY <1>2 DEF TakeSignal, TypeOK, Stages, Accounted, Registered
<1>3. ASSUME NEW s \in Servers, StopServer(s) PROVE Inv'
  BY <1>3 DEF StopServer, TypeOK, Stages, Accounted, Registered, Running
<1> QED
  BY <1>1, <1>2, <1>3 DEF SignalHandler

(* A server's goroutine moves only while the group runs.                   *)
LEMMA ServerInv ==
    ASSUME Inv, NEW s \in Servers, ServeReturns(s) \/ NotifyOthers(s)
    PROVE  Inv'
<1> USE ServerNames DEF Inv, procVars, Others, Becomes
<1>1. CASE ServeReturns(s)
  BY <1>1 DEF ServeReturns, TypeOK, ServerPC, Stages, Accounted, Registered, InCleanup
<1>2. CASE NotifyOthers(s)
  BY <1>2, SetupFacts DEF NotifyOthers, TypeOK, ServerPC, Stages, Accounted, Registered, InCleanup
<1> QED
  BY <1>1, <1>2

LEMMA CleanupInv ==
    ASSUME Inv, Cleanup
    PROVE  Inv'
<1> USE ServerNames DEF Inv, procVars, Others, Becomes
<1>0. server["pm"] \in {"list", "delete", "poll"} /\ main = "wait"
  BY SetupFacts DEF Cleanup, CleanupList, CleanupDelete, CleanupDeleted, CleanupPolled, TypeOK, Stages
<1>1. CASE CleanupList
  BY <1>0, <1>1 DEF CleanupList, TypeOK, ServerPC, Stages, Accounted, Registered, InCleanup
<1>2. ASSUME NEW p \in Procs, CleanupDelete(p) PROVE Inv'
  BY <1>0, <1>2 DEF CleanupDelete, TypeOK, Stages, Accounted, Registered, InCleanup
<1>3. CASE CleanupDeleted
  BY <1>0, <1>3 DEF CleanupDeleted, TypeOK, ServerPC, Stages, Accounted, Registered, InCleanup
<1>4. CASE CleanupPolled
  BY <1>0, <1>4 DEF CleanupPolled, TypeOK, ServerPC, Stages, Accounted, Registered, InCleanup
<1> QED
  BY <1>1, <1>2, <1>3, <1>4 DEF Cleanup

LEMMA ClientInv ==
    ASSUME Inv, NEW p \in Procs, Clients(p) \/ Unregister(p)
    PROVE  Inv'
<1> USE ServerNames, SetupFacts DEF Inv, Others, Accepting
<1>1. CASE CallCreate(p)
  BY <1>1 DEF CallCreate, TypeOK, Stages, Accounted, Registered
<1>2. CASE RegisterProcess(p)
  BY <1>2 DEF RegisterProcess, TypeOK, Stages, Accounted, Registered, InCleanup
<1>3. CASE CallDelete(p)
  BY <1>3 DEF CallDelete, TypeOK, Stages, Accounted, Registered
<1>4. CASE Unregister(p)
  BY <1>4 DEF Unregister, TypeOK, Stages, Accounted, Registered
<1> QED
  BY <1>1, <1>2, <1>3, <1>4 DEF Clients

LEMMA NextInv == Inv /\ [Next]_vars => Inv'
<1> SUFFICES ASSUME Inv, [Next]_vars PROVE Inv'
  OBVIOUS
<1>1. ASSUME NEW i \in 1 .. Len(SetupOrder), SetUp(i) PROVE Inv'
  BY <1>1, SetUpInv
<1>2. ASSUME NEW s \in Servers, ServeReturns(s) \/ NotifyOthers(s) PROVE Inv'
  BY <1>2, ServerInv
<1>3. ASSUME NEW s \in Watchable, HealthWatch(s) PROVE Inv'
  BY <1>3, ServersAssumption DEF HealthWatch, Others, Inv, TypeOK, Stages, Accounted, Registered
<1>4. ASSUME NEW p \in Procs, Clients(p) \/ Unregister(p) PROVE Inv'
  BY <1>4, ClientInv
<1>5. CASE UNCHANGED vars
  BY <1>5 DEF vars, Inv, TypeOK, Stages, Accounted, Registered
<1> QED
  BY <1>1, <1>2, <1>3, <1>4, <1>5, StartInv, SignalInv, CleanupInv DEF Next, Setup

LEMMA SpecInv == Spec => []Inv
  BY InitInv, NextInv, PTL DEF Spec

-----------------------------------------------------------------------------
(* The theorems.                                                           *)

(* The variables of start and its goroutines keep their types: at most one *)
(* signal is in the channel.                                               *)
THEOREM TypeCorrect == Spec => []TypeOK
<1>1. Inv => TypeOK
  BY DEF Inv
<1> QED
  BY <1>1, SpecInv, PTL

(* When start has returned, a process that is still registered did not     *)
(* obey or came after cleanup's list, however clients, signals and failing *)
(* servers interleave with cleanup.                                        *)
THEOREM CleanupForgetsNobody == Spec => []NoneForgotten
<1>1. Inv => NoneForgotten
  BY DEF Inv, Stages, Accounted, NoneForgotten, Registered
<1> QED
  BY <1>1, SpecInv, PTL

(* The monitor outlives cleanup, whose deletions need it.                  *)
THEOREM MonitorOutlivesCleanup == Spec => []CleanupHasMonitor
<1>1. Inv => CleanupHasMonitor
  BY SetupFacts, ServerNames DEF Inv, TypeOK, Stages, CleanupHasMonitor
<1> QED
  BY <1>1, SpecInv, PTL

-----------------------------------------------------------------------------
(* The end of one is the end of all.                                       *)

(* Where the signal goroutine and the servers are.  Only the server of the *)
(* process manager cleans up.  The signal goroutine waits until it takes a *)
(* signal, and is done when it has stopped every server there is.          *)
GroupStages ==
    /\ main \in SetupSteps \cup {"group"} => handler = "none" /\ stopped = {}
    /\ main = "wait" =>
         /\ handler \in {"wait", "stop", "ended"}
         /\ \A s \in Servers : server[s] # "up" /\ (server[s] \in {"list", "delete", "poll"} => s = "pm")
         /\ handler = "wait" => stopped = {}
         /\ handler = "stop" => stopped \subseteq Running /\ stopped # Running
         /\ handler = "ended" => stopped = Running

(* The end has begun: a signal waits in the channel, or has been taken, or *)
(* a server is about to send one.                                          *)
Ending == \/ sigs = 1
          \/ handler \in {"stop", "ended"}
          \/ \E s \in Servers : server[s] = "notify"

(* A server has ended only after its SIGTERM was put into sigs, or found   *)
(* another one there.                                                      *)
Told == main = "wait" /\ (\E s \in Servers : server[s] = "ended") =>
            sigs = 1 \/ handler \in {"stop", "ended"}

EndInv == GroupStages /\ Told

(* The guards of the signal goroutine, of a server that has been stopped,  *)
(* of cleanup and the goroutines it waits for, and of g.Wait.              *)
SignalReady == \/ handler = "wait" /\ sigs = 1
               \/ handler = "stop" /\ Running \ stopped # {}
ServerReady(s) == \/ server[s] = "serve" /\ s \in stopped
                  \/ server[s] = "notify"
CleanupReady ==
    \/ server["pm"] = "list"
    \/ server["pm"] = "delete" /\ (toDelete = {} \/ monitor)
    \/ /\ server["pm"] = "poll"
       /\ \/ \E p \in Procs : procs[p] = "deleting" /\ p \notin stubborn
          \/ \A p \in Procs : procs[p] = "deleting" => p \in stubborn \cup late
WaitReady == handler = "ended" /\ \A s \in Servers : server[s] \in {"none", "ended"}

EndGoesOn ==
    main = "wait" /\ Ending =>
        SignalReady \/ CleanupReady \/ WaitReady \/ \E s \in Servers : ServerReady(s)

EndIsNotLost == [][main = "wait" /\ Ending => main' = "returned" \/ Ending']_vars

(* A step that leaves the group as it is.                                  *)
LEMMA SameGroup ==
    ASSUME EndInv, UNCHANGED <<main, handler, stopped, server>>, sigs' = sigs \/ sigs' = 1
    PROVE  EndInv'
  BY DEF EndInv, GroupStages, Told, Running

(* A goroutine of a server moves on: the servers that run stay the same.   *)
LEMMA ServerMoves ==
    ASSUME Inv, EndInv, NEW s \in Servers, NEW at \in ServerPC \ {"none", "up"}, main = "wait",
           server[s] # "none", Becomes(s, at), UNCHANGED <<main, handler, stopped>>,
           sigs' = sigs \/ sigs' = 1,
           at = "ended" => sigs' = 1,
           at \in {"list", "delete", "poll"} => s = "pm"
    PROVE  EndInv'
<1>1. /\ server'[s] = at
      /\ \A r \in Servers : r # s => server'[r] = server[r]
  BY DEF Becomes, Inv, TypeOK
<1>2. Running' = Running
  BY <1>1 DEF Running
<1> QED
  BY <1>1, <1>2 DEF EndInv, GroupStages, Told

LEMMA InitEnd == Init => EndInv
  BY DEF Init, EndInv, GroupStages, Told

LEMMA NextEnd == Inv /\ EndInv /\ [Next]_vars => EndInv'
<1> SUFFICES ASSUME Inv, EndInv, [Next]_vars PROVE EndInv'
  OBVIOUS
<1>1. ASSUME NEW i \in 1 .. Len(SetupOrder), SetUp(i) PROVE EndInv'
  <2>1. /\ main \in SetupSteps /\ main' \in SetupSteps \cup {"group"} /\ main' # "wait"
        /\ UNCHANGED <<handler, stopped>>
    BY <1>1, SetupFacts DEF SetUp
  <2> QED
    BY <2>1 DEF EndInv, GroupStages, Told
<1>2. CASE SetUpFails \/ GroupWait
  BY <1>2, SetupFacts DEF SetUpFails, GroupWait, ReturnFromStart, EndInv, GroupStages, Told
<1>3. CASE StartGroup
  <2>1. \A s \in Servers : server'[s] \in {"none", "serve"}
    BY <1>3 DEF StartGroup, Inv, Stages, TypeOK
  <2> QED
    BY <1>3, <2>1, SetupFacts DEF StartGroup, EndInv, GroupStages, Told
<1>4. CASE Signal
  BY <1>4, SameGroup DEF Signal
<1>5. CASE TakeSignal
  <2>1. main = "wait" \/ main = "returned"
    BY <1>5 DEF TakeSignal, Inv, TypeOK, EndInv, GroupStages
  <2>2. main = "wait" => "pm" \in Running
    BY ServerNames DEF Running, Inv, Stages, InCleanup
  <2> QED
    BY <1>5, <2>1, <2>2, SetupFacts DEF TakeSignal, EndInv, GroupStages, Told, Running
<1>6. ASSUME NEW s \in Servers, StopServer(s) PROVE EndInv'
  <2>1. Running' = Running /\ UNCHANGED <<main, server, sigs>>
    BY <1>6 DEF StopServer, Running
  <2>2. /\ stopped' = stopped \cup {s} /\ s \in Running
        /\ handler' = IF stopped' = Running THEN "ended" ELSE "stop"
        /\ handler = "stop"
    BY <1>6 DEF StopServer
  <2> QED
    BY <2>1, <2>2, SetupFacts DEF EndInv, GroupStages, Told
<1>7. ASSUME NEW s \in Servers, ServeReturns(s) PROVE EndInv'
  BY <1>7, ServerMoves DEF ServeReturns, Others, ServerPC
<1>8. ASSUME NEW s \in Servers, server[s] \in {"list", "delete", "poll", "notify"}, main # "wait"
      PROVE  main = "returned"
  BY <1>8, SetupFacts DEF Inv, TypeOK, Stages
<1>9. ASSUME NEW s \in Servers, NotifyOthers(s) PROVE EndInv'
  <2>1. CASE main = "wait"
    BY <1>9, <2>1, ServerMoves DEF NotifyOthers, Others, ServerPC
  <2>2. CASE main # "wait"
    BY <1>8, <1>9, <2>2, SetupFacts DEF NotifyOthers, Others, EndInv, GroupStages, Told
  <2> QED
    BY <2>1, <2>2
<1>10. CASE Cleanup
  <2>1. main = "wait" /\ "pm" \in Servers
    BY <1>10, SetupFacts, ServerNames
       DEF Cleanup, CleanupList, CleanupDelete, CleanupDeleted, CleanupPolled, Inv, TypeOK, Stages
  <2>2. ASSUME NEW p \in Procs, CleanupDelete(p) PROVE EndInv'
    BY <2>2, SameGroup DEF CleanupDelete, Others
  <2>3. CASE CleanupList \/ CleanupDeleted \/ CleanupPolled
    BY <2>1, <2>3, ServerMoves DEF CleanupList, CleanupDeleted, CleanupPolled, Others, ServerPC
  <2> QED
    BY <1>10, <2>2, <2>3 DEF Cleanup
<1>11. ASSUME NEW s \in Watchable, HealthWatch(s) PROVE EndInv'
  BY <1>11, SameGroup DEF HealthWatch, Others
<1>12. ASSUME NEW p \in Procs, Clients(p) \/ Unregister(p) PROVE EndInv'
  BY <1>12, SameGroup DEF Clients, CallCreate, RegisterProcess, CallDelete, Unregister, Others
<1>13. CASE UNCHANGED vars
  BY <1>13, SameGroup DEF vars
<1> QED
  BY <1>1, <1>2, <1>3, <1>4, <1>5, <1>6, <1>7, <1>9, <1>10, <1>11, <1>12, <1>13
     DEF Next, Setup, SignalHandler

LEMMA SpecEnd == Spec => []EndInv
  BY InitEnd, NextEnd, SpecInv, PTL DEF Spec

(* Once the end has begun, until start returns, somebody can go on: the    *)
(* signal goroutine finds a server to stop, a stopped server returns,      *)
(* cleanup finds its monitor and its poll ends, or g.Wait returns; no      *)
(* goroutine of the group waits for ever (start.go:262-312).               *)
THEOREM EndNeverStuck == Spec => []EndGoesOn
<1>1. Inv /\ EndInv => EndGoesOn
  <2> SUFFICES ASSUME Inv, EndInv, main = "wait", Ending, ~SignalReady, ~CleanupReady,
                      \A s \in Servers : ~ServerReady(s)
               PROVE  WaitReady
    BY DEF EndGoesOn
  <2>1. handler = "ended" /\ stopped = Running
    BY DEF Ending, EndInv, GroupStages, SignalReady, ServerReady
  <2>2. monitor
    BY DEF Inv, Stages
  <2>3. server["pm"] \notin {"list", "delete", "poll"}
    BY <2>2 DEF CleanupReady
  <2>4. ASSUME NEW s \in Servers PROVE server[s] \in {"none", "ended"}
    <3>1. server[s] \in ServerPC /\ server[s] # "up" /\ server[s] # "notify"
      BY DEF Inv, TypeOK, EndInv, GroupStages, ServerReady
    <3>2. server[s] # "serve"
      BY <2>1 DEF ServerReady, Running
    <3>3. server[s] \notin {"list", "delete", "poll"}
      BY <2>3 DEF EndInv, GroupStages
    <3> QED
      BY <3>1, <3>2, <3>3 DEF ServerPC
  <2> QED
    BY <2>1, <2>4 DEF WaitReady
<1> QED
  BY <1>1, SpecInv, SpecEnd, PTL

(* The end is never lost, though a signal that finds the channel full is   *)
(* dropped: from the first signal, or the first server that returns from   *)
(* Serve, to the return of start, one is in the channel, or has been       *)
(* taken, or is about to be sent.                                          *)
THEOREM EndNeverLost == Spec => EndIsNotLost
<1>1. Inv /\ EndInv /\ EndInv' /\ [Next]_vars =>
        [main = "wait" /\ Ending => main' = "returned" \/ Ending']_vars
  <2> SUFFICES ASSUME Inv, EndInv, EndInv', Next, main = "wait", Ending, main' # "returned"
               PROVE  Ending'
    OBVIOUS
  <2>1. ASSUME UNCHANGED <<sigs, handler>>, \A s \in Servers : server[s] = "notify" => server'[s] = "notify"
        PROVE  Ending'
    BY <2>1 DEF Ending
  <2>2. ASSUME NEW s \in Servers, ServeReturns(s) PROVE Ending'
    BY <2>1, <2>2 DEF ServeReturns, Becomes, Others, Inv, TypeOK
  <2>3. CASE Cleanup
    BY <2>1, <2>3, ServerNames DEF Cleanup, CleanupList, CleanupDelete, CleanupDeleted, CleanupPolled,
                      Becomes, Others, Inv, TypeOK
  <2>4. ASSUME NEW s \in Servers, NotifyOthers(s) PROVE Ending'
    BY <2>4 DEF NotifyOthers, Ending
  <2>5. CASE Signal \/ TakeSignal
    BY <2>5 DEF Signal, TakeSignal, Ending
  <2>6. ASSUME NEW s \in Servers, StopServer(s) PROVE Ending'
    BY <2>6 DEF StopServer, Ending
  <2>7. ASSUME NEW p \in Procs, Clients(p) \/ Unregister(p) PROVE Ending'
    BY <2>1, <2>7 DEF Clients, CallCreate, RegisterProcess, CallDelete, Unregister, Others
  <2>8. ASSUME NEW s \in Watchable, HealthWatch(s) PROVE Ending'
    BY <2>1, <2>8 DEF HealthWatch, Others
  <2>9. ~Setup /\ ~GroupWait
    BY SetupFacts DEF Setup, SetUp, SetUpFails, StartGroup, GroupWait, ReturnFromStart
  <2> QED
    BY <2>2, <2>3, <2>4, <2>5, <2>6, <2>7, <2>8, <2>9 DEF Next, SignalHandler
<1> QED
  BY <1>1, SpecInv, SpecEnd, PTL DEF Spec, EndIsNotLost


=============================================================================
