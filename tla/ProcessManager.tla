---------------------------- MODULE ProcessManager ----------------------------
(***************************************************************************)
(* The process manager (process_manager.go): the map of registered         *)
(* processes, the port allocator, the gRPC handlers ProcessCreate,         *)
(* ProcessDelete and ProcessReplace step by step, the goroutines that      *)
(* unregister deleted processes, the monitor that turns updates into       *)
(* broadcast events, and the mount point check.                            *)
(*                                                                         *)
(* Handlers run in caller threads: pc[t], obj[t] (the process the handler  *)
(* works on), old[t] (processToReplace) and mode[t] (what StopWithSignal   *)
(* decided) are a handler's program counter and local variables.           *)
(*                                                                         *)
(* A section under Manager.lock is one action, enabled when the lock is    *)
(* free; only ProcessReplace's last section is split into taking the lock  *)
(* and the rest, so that another thread can be caught waiting for it.      *)
(***************************************************************************)
EXTENDS Process

CONSTANTS
    Names,          \* process names, the keys of Manager.processes
    NameOf,         \* NameOf[p]: the name object p is constructed with
    EngineNames,    \* names for which IsEngineProcess holds
    Callers,        \* threads that run gRPC handlers
    NoCaller,       \* nobody holds Manager.lock
    PortMin,        \* Manager.portRangeMin
    PortMax,        \* Manager.portRangeMax
    Counts,         \* the PortCounts requests ask for
    MaxUnreg,       \* bound on the unregister goroutines of one process
    Watched,        \* processes whose broadcast events are remembered
    DeleteWhen,     \* states of a process in which clients ask for its deletion
    ReplaceWhen     \* ... and for its replacement

ASSUME NamesAssumption ==
    /\ NameOf \in [Procs -> Names]
    /\ EngineNames \subseteq Names
ASSUME CallersAssumption == NoCaller \notin Callers /\ IsFiniteSet(Callers)
ASSUME PortRangeAssumption ==
    /\ PortMin \in Nat \ {0}
    /\ PortMax \in Nat
    /\ PortMin <= PortMax
ASSUME BoundsAssumption ==
    /\ Counts \subseteq Nat
    /\ MaxUnreg \in Nat \ {0}
    /\ Watched \subseteq Procs
    /\ DeleteWhen \subseteq States
    /\ ReplaceWhen \subseteq States

VARIABLES
    processes,  \* Manager.processes, NoProc where the map has no entry
    free,       \* Manager.availablePorts
    lock,       \* the caller that holds Manager.lock across steps
    pc, obj, old, mode,
    unreg,      \* unreg[p][s]: how many unregister goroutines of p are at s
    resp,       \* the state in the monitor's response, "none" before it is read
    lastEvent,  \* lastEvent[p]: the last event broadcast about p \in Watched
    condCheck   \* processes the mount point check has still to report

pmVars == <<processes, free, lock, pc, obj, old, mode, unreg, resp,
            lastEvent, condCheck>>
vars == <<procVars, pmVars>>

PortSet == PortMin .. PortMax
BlocksOf(n) == IF n = 0 THEN {{}}
               ELSE {s .. (s + n - 1) : s \in PortMin .. (PortMax - n + 1)}
Blocks == UNION {BlocksOf(n) : n \in Counts}

(* Goroutines of unregisterProcess; one that is "lost" has given up at its *)
(* second look and stays counted (see WatchersUpToDate, DeleteDeletes).    *)
UnregPC == {"wait", "seen", "remove", "send", "lost"}
NoUnreg == [s \in UnregPC |-> 0]

(* Handlers between two steps of ...                                       *)
CreatePC == {"create_send", "create_start", "create_send_error"}
DeletePC == {"delete_stop", "delete_send", "delete_unregister"}
(* ... and of ProcessReplace while the replacement is not registered.      *)
ReplacePC == {"replace_same", "replace_start", "replace_poll", "replace_stop_old",
              "replace_send_old", "replace_lock", "replace_commit",
              "cleanup_stop", "cleanup_send", "cleanup_release"}
PCs == {"idle", "replace_send"} \cup CreatePC \cup DeletePC \cup ReplacePC

Events == [state : States, deleted : BOOLEAN]
NoEvent == [state |-> "none", deleted |-> FALSE]

TypeOK ==
    /\ ProcTypeOK
    /\ ports \in [Procs -> SUBSET PortSet]
    /\ processes \in [Names -> Procs \cup {NoProc}]
    /\ free \in SUBSET PortSet
    /\ lock \in Callers \cup {NoCaller}
    /\ pc \in [Callers -> PCs]
    /\ obj \in [Callers -> Procs \cup {NoProc}]
    /\ old \in [Callers -> Procs \cup {NoProc}]
    /\ mode \in [Callers -> {"none", "stop", "kill"}]
    /\ unreg \in [Procs -> [UnregPC -> 0 .. MaxUnreg]]
    /\ resp \in States
    /\ lastEvent \in [Procs -> Events]
    /\ condCheck \in SUBSET Procs

Init ==
    /\ ProcInit
    /\ processes = [n \in Names |-> NoProc]
    /\ free = PortSet
    /\ lock = NoCaller
    /\ pc = [t \in Callers |-> "idle"]
    /\ obj = [t \in Callers |-> NoProc]
    /\ old = [t \in Callers |-> NoProc]
    /\ mode = [t \in Callers |-> "none"]
    /\ unreg = [p \in Procs |-> NoUnreg]
    /\ resp = "none"
    /\ lastEvent = [p \in Procs |-> NoEvent]
    /\ condCheck = {}

-----------------------------------------------------------------------------
(* Helpers.                                                                *)

Unlocked == lock = NoCaller

(* Process objects of one name are interchangeable until constructed.      *)
Fresh(p) ==
    /\ state[p] = "none"
    /\ p = CHOOSE q \in Procs : state[q] = "none" /\ NameOf[q] = NameOf[p]
Registered(p) == processes[NameOf[p]] = p

(* releaseProcessPorts: 0..0 and a process without ports are no-ops.       *)
ReleasePorts(p) == free' = free \cup ports[p]

Goto(t, s) == pc' = [pc EXCEPT ![t] = s]

(* The handler returns.                                                    *)
Finish(t) ==
    /\ Goto(t, "idle")
    /\ obj' = [obj EXCEPT ![t] = NoProc]
    /\ old' = [old EXCEPT ![t] = NoProc]
    /\ mode' = [mode EXCEPT ![t] = "none"]

Bystanders == <<lock, unreg, resp, lastEvent, condCheck>>

(* The handler of t hands p to the monitor and goes on at s.               *)
SendAndGoto(t, p, s) ==
    /\ Send(p)
    /\ Goto(t, s)
    /\ UNCHANGED <<state, delTS, ports, logger, cmd, killed, runner, prober,
                   stoppers, processes, free, obj, old, mode, Bystanders>>

(* StopWithSignal(p) called by t: go on at s1 if there is an update to     *)
(* send, at s2 if the call has returned.                                   *)
CallStop(t, p, s1, s2) ==
    /\ StopLocked(p)
    /\ Goto(t, IF StopMode(p) = "none" THEN s2 ELSE s1)
    /\ mode' = [mode EXCEPT ![t] = StopMode(p)]
    /\ UNCHANGED <<prober, recv, processes, free, obj, old, Bystanders>>

(* The rest of StopWithSignal(p) called by t.                              *)
CallSpawn(t, p, s) ==
    /\ SpawnStopper(p, mode[t])
    /\ Goto(t, s)
    /\ mode' = [mode EXCEPT ![t] = "none"]
    /\ UNCHANGED <<prober, processes, free, obj, old, Bystanders>>

-----------------------------------------------------------------------------
(* ProcessCreate.                                                          *)

(* The log file is opened and registerProcess enters p into the map with a *)
(* block of b ports.                                                       *)
CreateRegister(t, p, b) ==
    /\ pc[t] = "idle" /\ Unlocked
    /\ processes[NameOf[p]] = NoProc
    /\ b \subseteq free
    /\ Fresh(p) /\ Construct(p, b)
    /\ free' = free \ b
    /\ processes' = [processes EXCEPT ![NameOf[p]] = p]
    /\ obj' = [obj EXCEPT ![t] = p]
    /\ Goto(t, "create_send")
    /\ UNCHANGED <<old, mode, Bystanders>>

CreateSend(t) ==
    /\ pc[t] = "create_send"
    /\ SendAndGoto(t, obj[t], "create_start")

CreateStart(t) ==
    /\ pc[t] = "create_start"
    /\ \/ /\ StartOK(obj[t])
          /\ Finish(t)
       \/ /\ StartError(obj[t])
          /\ Goto(t, "create_send_error")
          /\ UNCHANGED <<obj, old, mode>>
    /\ UNCHANGED <<processes, free, Bystanders>>

(* Mutant of CreateSendError: UpdateCh was never assigned, the send blocks *)
(* forever (process_test.go:222-224).                                      *)
CreateSendError_NilChannel(t) ==
    /\ pc[t] = "create_send_error"
    /\ UNCHANGED vars

CreateSendError(t) ==
    /\ pc[t] = "create_send_error"
    /\ Send(obj[t])
    /\ Finish(t)
    /\ UNCHANGED <<state, delTS, ports, logger, cmd, killed, runner, prober,
                   stoppers, processes, free, Bystanders>>

-----------------------------------------------------------------------------
(* ProcessDelete.                                                          *)

(* The unregister goroutines of p, running or about to be spawned.         *)
UnregCount(p) == unreg[p]["wait"] + unreg[p]["seen"] + unreg[p]["remove"]
                 + unreg[p]["send"] + unreg[p]["lost"]
                 + Cardinality({t \in Callers : obj[t] = p /\ pc[t] \in DeletePC})

(* findProcess; the UUID of the request, if any, is that of p.             *)
DeleteFind(t, p) ==
    /\ pc[t] = "idle" /\ Unlocked
    /\ Registered(p)
    /\ state[p] \in DeleteWhen
    /\ UnregCount(p) < MaxUnreg
    /\ obj' = [obj EXCEPT ![t] = p]
    /\ Goto(t, "delete_stop")
    /\ UNCHANGED <<procVars, processes, free, old, mode, Bystanders>>

DeleteStop(t) ==
    /\ pc[t] = "delete_stop"
    /\ CallStop(t, obj[t], "delete_send", "delete_unregister")

DeleteSend(t) ==
    /\ pc[t] = "delete_send"
    /\ CallSpawn(t, obj[t], "delete_unregister")

(* unregisterProcess spawns its goroutine if p is still the registered one.*)
DeleteUnregister(t) ==
    /\ pc[t] = "delete_unregister" /\ Unlocked
    /\ LET p == obj[t]
       IN  \/ /\ Registered(p)
              /\ unreg' = [unreg EXCEPT ![p]["wait"] = @ + 1]
           \/ /\ ~Registered(p)
              /\ UNCHANGED unreg
    /\ Finish(t)
    /\ UNCHANGED <<procVars, processes, free, lock, resp, lastEvent, condCheck>>

MoveUnreg(p, s, t) ==
    /\ unreg[p][s] > 0
    /\ unreg' = [unreg EXCEPT ![p][s] = @ - 1, ![p][t] = @ + 1]
    /\ UNCHANGED <<procVars, processes, free, lock, pc, obj, old, mode, resp,
                   lastEvent, condCheck>>

(* The goroutine sees IsStopped, leaves its loop, and looks once more.  By *)
(* then the prober may have called the process running: the goroutine      *)
(* gives up.                                                               *)
UnregStopped(p) == IsStopped(p) /\ MoveUnreg(p, "wait", "seen")
UnregCheck(p) == MoveUnreg(p, "seen", IF IsStopped(p) THEN "remove" ELSE "lost")

(* Or it gives up after a minute; the process stays registered either way. *)
UnregGiveUp(p) ==
    /\ unreg[p]["wait"] > 0
    /\ ~IsStopped(p)
    /\ MinutePassed(p, "nostop")
    /\ unreg' = [unreg EXCEPT ![p]["wait"] = @ - 1]
    /\ UNCHANGED <<procVars, processes, free, lock, pc, obj, old, mode, resp,
                   lastEvent, condCheck>>

(* Mutant of UnregRemove: the entry is not compared with p, as if the name *)
(* were enough.                                                            *)
UnregRemove_ByName(p) ==
    /\ unreg[p]["remove"] > 0 /\ Unlocked
    /\ unreg' = [unreg EXCEPT ![p]["remove"] = @ - 1, ![p]["send"] = @ + 1]
    /\ processes' = [processes EXCEPT ![NameOf[p]] = NoProc]
    /\ ReleasePorts(p)
    /\ UNCHANGED <<procVars, lock, pc, obj, old, mode, resp, lastEvent, condCheck>>

(* The locked section removes the map entry and releases the ports, unless *)
(* ProcessReplace changed the entry; the update is sent in any case.       *)
UnregRemove(p) ==
    /\ unreg[p]["remove"] > 0 /\ Unlocked
    /\ unreg' = [unreg EXCEPT ![p]["remove"] = @ - 1, ![p]["send"] = @ + 1]
    /\ \/ /\ Registered(p)
          /\ processes' = [processes EXCEPT ![NameOf[p]] = NoProc]
          /\ ReleasePorts(p)
       \/ /\ ~Registered(p)
          /\ UNCHANGED <<processes, free>>
    /\ UNCHANGED <<procVars, lock, pc, obj, old, mode, resp, lastEvent, condCheck>>

UnregSend(p) ==
    /\ unreg[p]["send"] > 0
    /\ Send(p)
    /\ unreg' = [unreg EXCEPT ![p]["send"] = @ - 1]
    /\ UNCHANGED <<state, delTS, ports, logger, cmd, killed, runner, prober, stoppers,
                   processes, free, lock, pc, obj, old, mode, resp,
                   lastEvent, condCheck>>

-----------------------------------------------------------------------------
(* ProcessReplace.                                                         *)

(* initProcessReplace: the process to replace exists and the replacement p *)
(* gets its ports.  Whether both have the same Binary is up to the request.*)
ReplaceInit(t, p, b) ==
    /\ pc[t] = "idle" /\ Unlocked
    /\ processes[NameOf[p]] # NoProc
    /\ state[processes[NameOf[p]]] \in ReplaceWhen
    /\ b \subseteq free
    /\ Fresh(p) /\ Construct(p, b)
    /\ free' = free \ b
    /\ obj' = [obj EXCEPT ![t] = p]
    /\ old' = [old EXCEPT ![t] = processes[NameOf[p]]]
    /\ \E s \in {"replace_same", "replace_start"} : Goto(t, s)
    /\ UNCHANGED <<processes, mode, Bystanders>>

(* Same Binary: the replacement is dropped.                                *)
ReplaceSame(t) ==
    /\ pc[t] = "replace_same"
    /\ logger' = [logger EXCEPT ![obj[t]] = "closed"]
    /\ ReleasePorts(obj[t])
    /\ Finish(t)
    /\ UNCHANGED <<state, delTS, ports, cmd, killed, runner, prober, stoppers, recv,
                   processes, Bystanders>>

ReplaceStart(t) ==
    /\ pc[t] = "replace_start"
    /\ \/ StartOK(obj[t]) /\ Goto(t, "replace_poll")
       \/ StartError(obj[t]) /\ Goto(t, "cleanup_stop")
    /\ UNCHANGED <<processes, free, obj, old, mode, Bystanders>>

(* One of the 30 polls: running, or failed, or the last one with the       *)
(* replacement still starting, which is taken for success.  Its half a     *)
(* minute is treated like the minutes of the other waits: which of them    *)
(* ends first is left open.                                                *)
ReplacePoll(t) ==
    /\ pc[t] = "replace_poll"
    /\ \/ /\ \/ state[obj[t]] = "running"
             \/ state[obj[t]] = "starting" /\ MinutePassed(obj[t], "noanswer")
          /\ Goto(t, "replace_stop_old")
       \/ /\ state[obj[t]] \notin {"running", "starting"}
          /\ Goto(t, "cleanup_stop")
    /\ UNCHANGED <<procVars, processes, free, obj, old, mode, Bystanders>>

(* Mutant of ReplaceStopOld: the old process is not told to stop.          *)
ReplaceStopOld_Untold(t) ==
    /\ pc[t] = "replace_stop_old"
    /\ Goto(t, "replace_lock")
    /\ UNCHANGED <<procVars, processes, free, obj, old, mode, Bystanders>>

(* processToReplace.StopWithSignal(SIGHUP), outside of the lock.           *)
ReplaceStopOld(t) ==
    /\ pc[t] = "replace_stop_old"
    /\ CallStop(t, old[t], "replace_send_old", "replace_lock")

(* Mutant of ReplaceSendOld: the old process is stopped under the lock.    *)
ReplaceSendOld_Locked(t) ==
    /\ pc[t] = "replace_send_old"
    /\ \/ /\ Unlocked
          /\ lock' = t
          /\ UNCHANGED <<procVars, processes, free, pc, obj, old, mode, unreg, resp,
                         lastEvent, condCheck>>
       \/ /\ lock = t
          /\ CallSpawn(t, old[t], "replace_commit")

ReplaceSendOld(t) ==
    /\ pc[t] = "replace_send_old"
    /\ CallSpawn(t, old[t], "replace_lock")

ReplaceLock(t) ==
    /\ pc[t] = "replace_lock" /\ Unlocked
    /\ lock' = t
    /\ Goto(t, "replace_commit")
    /\ UNCHANGED <<procVars, processes, free, obj, old, mode, unreg, resp,
                   lastEvent, condCheck>>

(* Mutant of ReplaceCommit: the entry is replaced without asking whether   *)
(* it is still the old process.                                            *)
ReplaceCommit_Unchecked(t) ==
    /\ pc[t] = "replace_commit" /\ lock = t
    /\ lock' = NoCaller
    /\ processes' = [processes EXCEPT ![NameOf[obj[t]]] = obj[t]]
    /\ ReleasePorts(old[t])
    /\ Goto(t, "replace_send")
    /\ UNCHANGED <<procVars, obj, old, mode, unreg, resp, lastEvent, condCheck>>

(* The entry is gone (the replacement is registered all the same), or it   *)
(* is still the old process (whose ports are released), or another one     *)
(* (the replacement is cleaned up).                                        *)
ReplaceCommit(t) ==
    /\ pc[t] = "replace_commit" /\ lock = t
    /\ lock' = NoCaller
    /\ LET p == obj[t]
           existing == processes[NameOf[p]]
       IN  \/ /\ existing = NoProc
              /\ processes' = [processes EXCEPT ![NameOf[p]] = p]
              /\ Goto(t, "replace_send")
              /\ UNCHANGED free
           \/ /\ existing = old[t]
              /\ processes' = [processes EXCEPT ![NameOf[p]] = p]
              /\ ReleasePorts(old[t])
              /\ Goto(t, "replace_send")
           \/ /\ existing \notin {NoProc, old[t]}
              /\ Goto(t, "cleanup_stop")
              /\ UNCHANGED <<processes, free>>
    /\ UNCHANGED <<procVars, obj, old, mode, unreg, resp, lastEvent, condCheck>>

ReplaceSend(t) ==
    /\ pc[t] = "replace_send"
    /\ Send(obj[t])
    /\ Finish(t)
    /\ UNCHANGED <<state, delTS, ports, logger, cmd, killed, runner, prober,
                   stoppers, processes, free, Bystanders>>

(* cleanupReplacementProcess: p.Stop(), then the ports at once.            *)
CleanupStop(t) ==
    /\ pc[t] = "cleanup_stop"
    /\ CallStop(t, obj[t], "cleanup_send", "cleanup_release")

CleanupSend(t) ==
    /\ pc[t] = "cleanup_send"
    /\ CallSpawn(t, obj[t], "cleanup_release")

CleanupRelease(t) ==
    /\ pc[t] = "cleanup_release"
    /\ ReleasePorts(obj[t])
    /\ Finish(t)
    /\ UNCHANGED <<procVars, processes, Bystanders>>

-----------------------------------------------------------------------------
(* A request that is refused leaves everything as it is: the name exists   *)
(* (create) or does not (delete, replace), the UUID is another one, an     *)
(* argument is missing, or no block of ports is found; the log file opened *)
(* for it is closed again.                                                 *)
Refuse(t) ==
    /\ pc[t] = "idle" /\ Unlocked
    /\ UNCHANGED vars

-----------------------------------------------------------------------------
(* startMonitoring and the mount point check.                              *)

(* resp := p.RPCResponse()                                                 *)
MonitorRespond ==
    /\ recv # NoProc /\ resp = "none"
    /\ resp' = state[recv]
    /\ UNCHANGED <<procVars, processes, free, lock, pc, obj, old, mode, unreg,
                   lastEvent, condCheck>>

(* Under the read lock: deleted if the name is not in the map; broadcast.  *)
MonitorBroadcast ==
    /\ resp # "none" /\ Unlocked
    /\ lastEvent' = [lastEvent EXCEPT ![recv] = IF recv \notin Watched THEN @ ELSE
           [state |-> resp, deleted |-> processes[NameOf[recv]] = NoProc]]
    /\ resp' = "none"
    /\ recv' = NoProc
    /\ UNCHANGED <<state, delTS, ports, logger, cmd, killed, runner, prober, stoppers,
                   processes, free, lock, pc, obj, old, mode, unreg, condCheck>>

(* getProcessesToUpdateConditions: the running engines whose volume is     *)
(* mounted get their condition updated and are collected.                  *)
CheckMountPoints ==
    /\ condCheck = {} /\ Unlocked
    /\ LET engines == {p \in Procs : /\ Registered(p)
                                     /\ NameOf[p] \in EngineNames
                                     /\ state[p] = "running"}
       IN  \E mounted \in SUBSET engines \ {{}} : condCheck' = mounted
    /\ UNCHANGED <<procVars, processes, free, lock, pc, obj, old, mode, unreg, resp,
                   lastEvent>>

CheckSend(p) ==
    /\ p \in condCheck
    /\ Send(p)
    /\ condCheck' = condCheck \ {p}
    /\ UNCHANGED <<state, delTS, ports, logger, cmd, killed, runner, prober, stoppers,
                   processes, free, lock, pc, obj, old, mode, unreg, resp,
                   lastEvent>>

-----------------------------------------------------------------------------
(* The specification.                                                      *)

CallRPC(t) ==
    \/ \E p \in Procs, b \in Blocks : CreateRegister(t, p, b) \/ ReplaceInit(t, p, b)
    \/ \E p \in Procs : DeleteFind(t, p)
    \/ Refuse(t)

CreateStep(t) == CreateSend(t) \/ CreateStart(t) \/ CreateSendError(t)
DeleteStep(t) == DeleteStop(t) \/ DeleteSend(t) \/ DeleteUnregister(t)
ReplaceStep(t) ==
    \/ ReplaceSame(t) \/ ReplaceStart(t) \/ ReplacePoll(t)
    \/ ReplaceStopOld(t) \/ ReplaceSendOld(t)
    \/ ReplaceLock(t) \/ ReplaceCommit(t) \/ ReplaceSend(t)
    \/ CleanupStop(t) \/ CleanupSend(t) \/ CleanupRelease(t)
HandlerStep(t) == CreateStep(t) \/ DeleteStep(t) \/ ReplaceStep(t)

UnregStep(p) == \/ UnregStopped(p) \/ UnregCheck(p) \/ UnregGiveUp(p)
                \/ UnregRemove(p) \/ UnregSend(p)
MonitorStep == MonitorRespond \/ MonitorBroadcast

Next ==
    \/ \E t \in Callers : CallRPC(t) \/ HandlerStep(t)
    \/ \E p \in Procs : \/ GoroutineStep(p) /\ UNCHANGED pmVars
                        \/ EnvironmentStep(p) /\ UNCHANGED pmVars
                        \/ UnregStep(p)
                        \/ CheckSend(p)
    \/ MonitorStep
    \/ CheckMountPoints

(* Goroutines are scheduled fairly.  A sender blocked on UpdateCh and a    *)
(* thread blocked on Manager.lock queue in order, hence strong fairness    *)
(* for whoever may have to wait for them; nothing is assumed of requests,  *)
(* of the mount point ticker, or of an operating-system process that was   *)
(* not killed.                                                             *)
Fairness ==
    /\ \A t \in Callers : SF_vars(HandlerStep(t))
    /\ \A p \in Procs :
        /\ WF_vars(RunnerStep(p) /\ UNCHANGED pmVars)
        /\ SF_vars(RunnerSend(p) /\ UNCHANGED pmVars)
        /\ WF_vars(ProberStep(p) /\ UNCHANGED pmVars)
        /\ SF_vars((ProbeSend(p) \/ ProbeSpawn(p)) /\ UNCHANGED pmVars)
        /\ WF_vars(StopperStep(p) /\ UNCHANGED pmVars)
        /\ WF_vars(killed[p] /\ CmdExit(p) /\ UNCHANGED pmVars)
        /\ SF_vars(UnregStep(p))
        /\ SF_vars(CheckSend(p))
    /\ WF_vars(MonitorStep)

Spec == Init /\ [][Next]_vars
FairSpec == Spec /\ Fairness

-----------------------------------------------------------------------------
(* Properties.                                                             *)

(* p's ports are its own: p is registered, or its replace call has not yet *)
(* decided what becomes of it.                                             *)
Replacing(p) == \E t \in Callers : obj[t] = p /\ pc[t] \in ReplacePC
Owns(p) == Registered(p) \/ Replacing(p)

Alloc == INSTANCE PortAllocator
            WITH Clients <- Procs,
                 held <- [p \in Procs |-> IF Owns(p) THEN ports[p] ELSE {}]

(* The handlers use the allocator as it wants to be used: a block is taken *)
(* by one process and comes back once, when the process leaves the map or  *)
(* its replacement is dropped - never a second time, when its ports may    *)
(* belong to somebody else (the TODO at process_manager.go:502-504).       *)
UsesAllocator == Alloc!AllocSpec

(* No port is lost, and no two processes that own ports share one.         *)
PortsConserved == Alloc!PortsConserved

(* Nobody has asked for p to be stopped.                                   *)
Unasked(p) == delTS[p] = "nil"

(* A process nobody has told to stop is recorded as ended only when its    *)
(* operating-system process has ended.  (One that is told to stop before   *)
(* it is forked is recorded as stopped and may be forked afterwards.)      *)
StoppedIsDead == \A p \in Procs : IsStopped(p) /\ Unasked(p) => ~IsRunning(p)

(* Two live operating-system processes have a port in common only if one   *)
(* of them has been told to stop: ProcessReplace gives ports back without  *)
(* waiting for the end of the process, but never before it has asked.      *)
NoPortClash ==
    \A p, q \in Procs :
        /\ p # q
        /\ IsRunning(p) /\ Unasked(p)
        /\ IsRunning(q) /\ Unasked(q)
        => ports[p] \cap ports[q] = {}

(* Every live operating-system process belongs to a process the manager    *)
(* can still be asked about: "ProcessDelete will delete the process named  *)
(* by the request" (process_manager.go:235).                               *)
LiveIsOwned == \A p \in Procs : IsRunning(p) => Owns(p)

(* Nothing happens by itself any more, except that time passes or that an  *)
(* operating-system process starts to answer or ends.                      *)
Quiet ==
    /\ \A t \in Callers : pc[t] = "idle"
    /\ recv = NoProc
    /\ condCheck = {}
    /\ \A p \in Procs :
        /\ runner[p] \in {"none", "wait", "done"}
        /\ \/ prober[p] \in {"none", "done"}
           \/ prober[p] = "probe" /\ ports[p] # {} /\ ~ProbeStopClosed(p)
        /\ \A s \in StopperPC : stoppers[p][s] > 0 => s = "wait" /\ ~IsStopped(p)
        /\ \A s \in UnregPC \ {"lost"} : unreg[p][s] > 0 => s = "wait" /\ ~IsStopped(p)

(* Watchers are not left with a wrong picture: once nothing is on its way, *)
(* the last event about a registered process says what its State says      *)
(* (stopped and error both mean ended) and does not call it deleted.  The  *)
(* exception is a process whose deletion was lost: a stopper may still     *)
(* mark it stopped without a word.                                         *)
WatchersUpToDate ==
    Quiet => \A p \in Watched : Registered(p) /\ unreg[p]["lost"] = 0 =>
        /\ \/ lastEvent[p].state = state[p]
           \/ lastEvent[p].state \in Terminal /\ IsStopped(p)
        /\ ~lastEvent[p].deleted

(* "ProcessDelete will delete the process named by the request"            *)
(* (process_manager.go:235): one that has ended does not stay in the map   *)
(* when the goroutine that saw it stopped has given up.                    *)
DeleteDeletes ==
    Quiet => \A p \in Procs :
        unreg[p]["lost"] > 0 /\ ~IsRunning(p) => ~Registered(p)

(* The log file of a process nobody can reach any more gets closed.        *)
NoLoggerLeak ==
    Quiet => \A p \in Procs :
        logger[p] = "open" =>
            Registered(p) \/ stoppers[p]["wait"] > 0

(* Where handlers wait: for the monitor to take an update, or for          *)
(* Manager.lock.  Stops(t, p): t is about to spawn a stopper of p.         *)
SendsUpdate(t) == pc[t] \in {"create_send", "create_send_error", "delete_send",
                             "replace_send_old", "replace_send", "cleanup_send"}
TakesLock(t) == pc[t] \in {"delete_unregister", "replace_lock"}
Stops(t, p) == \/ pc[t] \in {"delete_send", "cleanup_send"} /\ obj[t] = p
               \/ pc[t] = "replace_send_old" /\ old[t] = p

(* The guards of HandlerStep(t) and of MonitorStep.                        *)
HandlerReady(t) ==
    /\ pc[t] # "idle"
    /\ SendsUpdate(t) => recv = NoProc
    /\ \A p \in Procs : Stops(t, p) => StopperCount(p) < MaxStoppers
    /\ TakesLock(t) => Unlocked
    /\ pc[t] = "replace_commit" => lock = t
    /\ pc[t] = "replace_poll" => \/ state[obj[t]] # "starting"
                                 \/ MinutePassed(obj[t], "noanswer")
MonitorReady == recv # NoProc /\ (resp = "none" \/ Unlocked)
LockHolderReady == \E t \in Callers : lock = t /\ HandlerReady(t)

(* A handler that cannot go on waits for somebody who can: one that sends  *)
(* an update for the monitor, which may itself wait for the handler that   *)
(* holds Manager.lock; one that takes the lock for its holder; a poll for  *)
(* the prober of the replacement; or it is held up by the bound of the     *)
(* model on stoppers.  So nobody waits in a circle (issue 2697 in          *)
(* process_test.go:184-193).                                               *)
NoCircularWait ==
    \A t \in Callers : pc[t] # "idle" =>
        \/ HandlerReady(t)
        \/ SendsUpdate(t) /\ (MonitorReady \/ LockHolderReady)
        \/ TakesLock(t) /\ LockHolderReady
        \/ pc[t] = "replace_poll" /\ prober[obj[t]] \in {"probe", "ready", "failed", "stop"}
        \/ recv = NoProc /\ \E p \in Procs : Stops(t, p) /\ StopperCount(p) = MaxStoppers

(* Every handler returns: no thread waits for the monitor while the        *)
(* monitor waits for it (issue 2697 in process_test.go:184-193).           *)
HandlersReturn == \A t \in Callers : pc[t] # "idle" ~> pc[t] = "idle"

(* A stop completes: by itself, or by the kill after a minute.             *)
StopCompletes == \A p \in Procs : state[p] = "stopping" ~> IsStopped(p)

=============================================================================
