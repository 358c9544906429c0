------------------------- MODULE ProcessStopProofs -------------------------
(***************************************************************************)
(* What the manager believes about the end of a process, and the ports of  *)
(* live processes, for every set of processes, names, callers and ports.   *)
(*                                                                         *)
(* A process is harmless when somebody has asked it to stop or when it     *)
(* does not run and never will: neither its goroutine nor a handler is     *)
(* going to fork it.  Once harmless, always harmless (Monotone), except    *)
(* that a new object becomes an owner.                                     *)
(* A process is recorded as ended, unregistered or given up by             *)
(* ProcessReplace only when it is harmless: StopsOK lists every place on   *)
(* the way.                                                                *)
(*                                                                         *)
(* A log file is open only as long as its process can be named, or as long *)
(* as somebody is on the way to stop the process and to close the file:    *)
(* LogsOK.                                                                 *)
(*                                                                         *)
(* No handler waits for somebody who waits for it (WaitsOK), and a stop    *)
(* that has begun has somebody who finishes it (StopsInHand).              *)
(***************************************************************************)
EXTENDS ProcessManagerProofs

-----------------------------------------------------------------------------
(* Who may fork a process.                                                 *)

(* The handlers that have still to call Start.                             *)
StartPC == {"create_send", "create_start", "replace_start"}

Starting(p) == \E t \in Callers : obj[t] = p /\ pc[t] \in StartPC

CanRun(p) == cmd[p] \in {"new", "live"} \/ Starting(p)

Harmless(p) == ~Unasked(p) \/ ~CanRun(p)

(* The command of p and the goroutine that runs it.                        *)
CommandsOK ==
    \A p \in Procs :
        /\ cmd[p] = "nil" <=> runner[p] = "none"
        /\ cmd[p] = "new" <=> runner[p] = "run"
        /\ cmd[p] = "live" <=> runner[p] = "wait"
        /\ state[p] = "none" => cmd[p] = "nil"

(* Start is called once, by one handler.                                   *)
StartsOK ==
    \A t \in Callers : pc[t] \in StartPC =>
        /\ cmd[obj[t]] = "nil"
        /\ \A u \in Callers : u # t /\ pc[u] \in StartPC => obj[u] # obj[t]

StartInv == CommandsOK /\ StartsOK

Monotone ==
    \A p \in Procs :
        /\ Constructed(p) => Constructed(p)'
        /\ ~Unasked(p) => ~Unasked(p)'
        /\ Harmless(p) /\ (Constructed(p) \/ ~Owns(p)') => Harmless(p)'

(* No DeletionTimestamp is taken back.                                     *)
StaysAsked == \A p \in Procs : delTS[p] # "nil" => delTS'[p] # "nil"

NoNewStarter ==
    \A t \in Callers : pc'[t] \in StartPC => pc[t] \in StartPC /\ obj'[t] = obj[t]

(* A step that starts nothing and ends nothing.                            *)
KeepsStarts ==
    /\ Persist /\ StaysAsked
    /\ cmd' = cmd
    /\ \A p \in Procs : runner'[p] \in {"none", "run", "wait"} \/ runner[p] \in {"none", "run", "wait"}
                        => runner'[p] = runner[p]
    /\ NoNewStarter

LEMMA KeepsStartsOK ==
    ASSUME StartInv, KeepsStarts
    PROVE  StartInv' /\ Monotone
<1>1. CommandsOK'
  BY DEF StartInv, CommandsOK, KeepsStarts, Persist
<1>2. StartsOK'
  BY DEF StartInv, StartsOK, KeepsStarts, NoNewStarter
<1>3. \A p : CanRun(p)' => CanRun(p)
  BY DEF KeepsStarts, NoNewStarter, CanRun, Starting
<1>4. Monotone
  BY <1>3 DEF Monotone, KeepsStarts, Persist, StaysAsked, Constructed, Harmless, Unasked
<1> QED
  BY <1>1, <1>2, <1>4 DEF StartInv

(* A process is constructed; its handler may be going to start it.         *)
LEMMA ConstructStarts ==
    ASSUME Inv, StartInv, NEW t \in Callers, NEW p \in Procs, NEW b, NEW s,
           pc[t] = "idle", Construct(p, b), Goto(t, s), obj' = [obj EXCEPT ![t] = p], Owns(p)'
    PROVE  StartInv' /\ Monotone
<1>1. /\ state[p] = "none" /\ state' = [state EXCEPT ![p] = "starting"]
      /\ UNCHANGED <<cmd, runner, delTS>> /\ ~Constructed(p) /\ Persist
  BY DEF Construct, Constructed, Persist, Inv, TypeOK, ProcTypeOK
<1>2. /\ pc'[t] = s /\ obj'[t] = p /\ cmd[p] = "nil"
      /\ \A u \in Callers : u # t => pc'[u] = pc[u] /\ obj'[u] = obj[u]
  BY <1>1 DEF Goto, Inv, TypeOK, StartInv, CommandsOK
<1>3. \A u \in Callers : pc[u] # "idle" => obj[u] # p
  BY <1>1, FreshOwnsNothing
<1>4. \A r \in StartPC : r # "idle"
  BY DEF StartPC
<1>5. CommandsOK'
  BY <1>1 DEF StartInv, CommandsOK, Persist
<1>6. StartsOK'
  BY <1>1, <1>2, <1>3, <1>4 DEF StartInv, StartsOK
<1>7. \A q \in Procs : q # p => (CanRun(q)' => CanRun(q))
  BY <1>1, <1>2 DEF CanRun, Starting
<1>8. Monotone
  BY <1>1, <1>7 DEF Monotone, Persist, Constructed, Harmless, Unasked
<1> QED
  BY <1>5, <1>6, <1>8 DEF StartInv

(* Start: the command is now the goroutine's.                              *)
LEMMA StartOKStarts ==
    ASSUME Inv, StartInv, NEW t \in Callers, NEW p \in Procs, obj[t] = p, pc[t] \in StartPC,
           StartOK(p), pc'[t] \notin StartPC,
           \A u \in Callers : u # t => pc'[u] = pc[u] /\ obj'[u] = obj[u]
    PROVE  StartInv' /\ Monotone
<1>1. /\ cmd'[p] = "new" /\ runner'[p] = "run" /\ state[p] # "none" /\ UNCHANGED <<state, delTS>>
      /\ \A q \in Procs : q # p => cmd'[q] = cmd[q] /\ runner'[q] = runner[q]
  BY HandlerObj DEF StartOK, Inv, TypeOK, ProcTypeOK, StartPC
<1>2. CommandsOK'
  BY <1>1 DEF StartInv, CommandsOK
<1>3. \A u \in Callers : pc'[u] \in StartPC => u # t /\ pc[u] \in StartPC /\ obj[u] # p /\ obj[u] \in Procs
  BY HandlerObj DEF StartInv, StartsOK, StartPC
<1>4. StartsOK'
  BY <1>1, <1>3 DEF StartInv, StartsOK
<1>5. \A q \in Procs : CanRun(q)' => CanRun(q)
  BY <1>1, <1>3 DEF CanRun, Starting
<1>6. Monotone
  BY <1>1, <1>5 DEF Monotone, Constructed, Harmless, Unasked
<1> QED
  BY <1>2, <1>4, <1>6 DEF StartInv

(* The runner forks the process or fails to; the process ends.             *)
LEMMA RunsStarts ==
    ASSUME Inv, StartInv, NEW p \in Procs,
           RunnerFork(p) \/ RunnerForkFails(p) \/ CmdExit(p), UNCHANGED pmVars
    PROVE  StartInv' /\ Monotone
<1>1. /\ UNCHANGED <<state, delTS, pc, obj>>
      /\ \A q \in Procs : q # p => cmd'[q] = cmd[q] /\ runner'[q] = runner[q]
      /\ cmd[p] \in {"new", "live"}
      /\ \/ cmd'[p] = "live" /\ runner'[p] = "wait"
         \/ cmd'[p] = "exited" /\ runner'[p] \in {"ok", "err"}
  BY DEF RunnerFork, RunnerForkFails, CmdExit, pmVars, Inv, TypeOK, ProcTypeOK, StartInv, CommandsOK
<1>2. CommandsOK'
  BY <1>1 DEF StartInv, CommandsOK
<1>3. \A u \in Callers : pc[u] \in StartPC => obj[u] # p /\ obj[u] \in Procs
  BY <1>1, HandlerObj DEF StartInv, StartsOK, StartPC
<1>4. StartsOK'
  BY <1>1, <1>3 DEF StartInv, StartsOK
<1>5. \A q \in Procs : CanRun(q)' => CanRun(q)
  BY <1>1 DEF CanRun, Starting
<1>6. Monotone
  BY <1>1, <1>5 DEF Monotone, Constructed, Harmless, Unasked
<1> QED
  BY <1>2, <1>4, <1>6 DEF StartInv

LEMMA StopLockedKeeps ==
    ASSUME Inv, NEW p \in Procs, StopLocked(p)
    PROVE  Persist /\ StaysAsked /\ UNCHANGED <<cmd, runner>>
  BY DEF StopLocked, Persist, StaysAsked, Inv, TypeOK, ProcTypeOK

LEMMA ProcessKeepsStarts ==
    ASSUME Inv, NEW p \in Procs, GoroutineStep(p) \/ EnvironmentStep(p), UNCHANGED pmVars,
           ~(RunnerFork(p) \/ RunnerForkFails(p) \/ CmdExit(p))
    PROVE  KeepsStarts
<1>1. Persist
  BY InvSplit, ProcessStepOK
<1>2. NoNewStarter
  BY DEF NoNewStarter, pmVars
<1>3. StaysAsked /\ cmd' = cmd
  <2>1. CASE RunnerRecord(p) \/ RunnerSend(p) \/ DeletionExpires(p)
    BY <2>1 DEF RunnerRecord, RunnerSend, DeletionExpires, StaysAsked, Inv, TypeOK, ProcTypeOK
  <2>2. CASE ProbeReady(p) \/ ProbeFails(p) \/ ProbeRunning(p) \/ ProbeCheck(p) \/ ProbeSend(p)
    BY <2>2 DEF ProbeReady, ProbeFails, ProbeRunning, ProbeCheck, ProbeSend, StaysAsked
  <2>3. CASE ProbeStop(p)
    BY <2>3, StopLockedKeeps DEF ProbeStop
  <2>4. CASE ProbeSpawn(p)
    BY <2>4 DEF ProbeSpawn, SpawnStopper, StaysAsked
  <2>5. CASE StopperStep(p)
    BY <2>5 DEF StopperStep, StopperNotRunning, StopperMark, StopperSignal, StopperWaitDone,
                StopperKill, EndStopper, MoveStopper, StaysAsked
  <2> QED
    BY <2>1, <2>2, <2>3, <2>4, <2>5
       DEF GoroutineStep, EnvironmentStep, RunnerStep, ProberStep
<1>4. \A q \in Procs : runner'[q] \in {"none", "run", "wait"} \/ runner[q] \in {"none", "run", "wait"}
                       => runner'[q] = runner[q]
  <2>1. CASE RunnerRecord(p) \/ RunnerSend(p)
    BY <2>1 DEF RunnerRecord, RunnerSend, Inv, TypeOK, ProcTypeOK
  <2>2. CASE DeletionExpires(p) \/ ProbeReady(p) \/ ProbeFails(p) \/ ProbeRunning(p) \/ ProbeCheck(p)
             \/ ProbeSend(p)
    BY <2>2 DEF DeletionExpires, ProbeReady, ProbeFails, ProbeRunning, ProbeCheck, ProbeSend
  <2>3. CASE ProbeStop(p) \/ ProbeSpawn(p)
    BY <2>3 DEF ProbeStop, StopLocked, ProbeSpawn, SpawnStopper
  <2>4. CASE StopperStep(p)
    BY <2>4 DEF StopperStep, StopperNotRunning, StopperMark, StopperSignal, StopperWaitDone,
                StopperKill, EndStopper, MoveStopper
  <2> QED
    BY <2>1, <2>2, <2>3, <2>4
       DEF GoroutineStep, EnvironmentStep, RunnerStep, ProberStep
<1> QED
  BY <1>1, <1>2, <1>3, <1>4 DEF KeepsStarts

(* A handler that goes on to s, which is not before a Start.               *)
LEMMA GotoNoStart ==
    ASSUME Inv, NEW t \in Callers, NEW s, s \notin StartPC, Goto(t, s),
           \A u \in Callers : u # t => obj'[u] = obj[u]
    PROVE  NoNewStarter
  BY DEF NoNewStarter, Goto, Inv, TypeOK

LEMMA FinishNoStart ==
    ASSUME Inv, NEW t \in Callers, Finish(t)
    PROVE  NoNewStarter
<1>1. Goto(t, "idle") /\ "idle" \notin StartPC
  BY DEF Finish, StartPC
<1>2. \A u \in Callers : u # t => obj'[u] = obj[u]
  BY DEF Finish, Inv, TypeOK
<1> QED
  BY <1>1, <1>2, GotoNoStart

LEMMA SameKeepsStarts ==
    ASSUME NoNewStarter, UNCHANGED <<state, delTS, cmd, runner>>
    PROVE  KeepsStarts
  BY DEF KeepsStarts, Persist, StaysAsked

LEMMA CallStopKeepsStarts ==
    ASSUME Inv, NEW t \in Callers, NEW p \in Procs, NEW s1, NEW s2,
           CallStop(t, p, s1, s2), s1 \notin StartPC, s2 \notin StartPC
    PROVE  KeepsStarts
<1>1. PICK s : Goto(t, s) /\ s \notin StartPC
  BY DEF CallStop
<1>2. NoNewStarter
  BY <1>1, GotoNoStart DEF CallStop
<1> QED
  BY <1>2, StopLockedKeeps DEF CallStop, KeepsStarts

LEMMA CallSpawnKeepsStarts ==
    ASSUME Inv, NEW t \in Callers, NEW p \in Procs, NEW s, CallSpawn(t, p, s), s \notin StartPC
    PROVE  KeepsStarts
<1>1. NoNewStarter
  BY GotoNoStart DEF CallSpawn
<1> QED
  BY <1>1, SameKeepsStarts DEF CallSpawn, SpawnStopper

(* Start fails: the handler goes on or returns.                            *)
LEMMA StartErrorKeeps ==
    ASSUME Inv, NEW p \in Procs, StartError(p), NoNewStarter
    PROVE  KeepsStarts
  BY DEF KeepsStarts, StartError, Persist, StaysAsked, Inv, TypeOK, ProcTypeOK

LEMMA HandlerStarts ==
    ASSUME Inv, StartInv, NEW t \in Callers, HandlerStep(t)
    PROVE  StartInv' /\ Monotone
<1> USE DEF StartPC
<1>p. PICK p \in Procs : obj[t] = p
  BY HandlerObj
     DEF HandlerStep, CreateStep, CreateSend, CreateStart, CreateSendError, DeleteStep, DeleteStop,
         DeleteSend, DeleteUnregister, ReplaceStep, ReplaceSame, ReplaceStart, ReplacePoll,
         ReplaceStopOld, ReplaceSendOld, ReplaceLock, ReplaceCommit, ReplaceSend, CleanupStop,
         CleanupSend, CleanupRelease
<1>1. CASE CreateSend(t)
  <2>1. NoNewStarter
    BY <1>1 DEF CreateSend, SendAndGoto, NoNewStarter, Goto, Inv, TypeOK
  <2> QED
    BY <1>1, <2>1, SameKeepsStarts, KeepsStartsOK DEF CreateSend, SendAndGoto
<1>2. CASE CreateStart(t) \/ ReplaceStart(t)
  <2>1. PICK s \in {"idle", "create_send_error", "replace_poll", "cleanup_stop"} : Goto(t, s)
    BY <1>2 DEF CreateStart, ReplaceStart, Finish
  <2>2. \A u \in Callers : u # t => pc'[u] = pc[u] /\ obj'[u] = obj[u]
    BY <1>2, <2>1 DEF CreateStart, ReplaceStart, Finish, Goto, Inv, TypeOK
  <2>3. pc'[t] \notin StartPC /\ pc[t] \in StartPC
    BY <1>2, <2>1 DEF Goto, Inv, TypeOK, CreateStart, ReplaceStart
  <2>4. NoNewStarter
    BY <2>1, <2>2, GotoNoStart
  <2>5. CASE StartOK(p)
    BY <1>p, <2>2, <2>3, <2>5, StartOKStarts
  <2>6. CASE StartError(p)
    BY <2>4, <2>6, StartErrorKeeps, KeepsStartsOK
  <2> QED
    BY <1>p, <1>2, <2>5, <2>6 DEF CreateStart, ReplaceStart
<1>3. CASE CreateSendError(t) \/ ReplaceSend(t) \/ DeleteUnregister(t) \/ ReplaceSame(t)
           \/ CleanupRelease(t)
  <2>1. Finish(t) /\ UNCHANGED <<state, delTS, cmd, runner>>
    BY <1>3 DEF CreateSendError, ReplaceSend, DeleteUnregister, ReplaceSame, CleanupRelease, procVars
  <2> QED
    BY <2>1, FinishNoStart, SameKeepsStarts, KeepsStartsOK
<1>4. CASE DeleteStop(t) \/ CleanupStop(t)
  BY <1>p, <1>4, CallStopKeepsStarts, KeepsStartsOK DEF DeleteStop, CleanupStop
<1>5. CASE DeleteSend(t) \/ CleanupSend(t)
  BY <1>p, <1>5, CallSpawnKeepsStarts, KeepsStartsOK DEF DeleteSend, CleanupSend
<1>6. CASE ReplaceStopOld(t) \/ ReplaceSendOld(t)
  <2>1. old[t] \in Procs
    BY <1>6, ReplaceOld DEF ReplaceStopOld, ReplaceSendOld, ReplacePC
  <2> QED
    BY <1>6, <2>1, CallStopKeepsStarts, CallSpawnKeepsStarts, KeepsStartsOK
       DEF ReplaceStopOld, ReplaceSendOld
<1>7. CASE ReplacePoll(t) \/ ReplaceLock(t) \/ ReplaceCommit(t)
  <2>1. PICK s \in {"replace_stop_old", "cleanup_stop", "replace_commit", "replace_send"} : Goto(t, s)
    BY <1>7 DEF ReplacePoll, ReplaceLock, ReplaceCommit
  <2>2. UNCHANGED <<state, delTS, cmd, runner, obj>>
    BY <1>7 DEF ReplacePoll, ReplaceLock, ReplaceCommit, procVars
  <2> QED
    BY <2>1, <2>2, GotoNoStart, SameKeepsStarts, KeepsStartsOK
<1> QED
  BY <1>1, <1>2, <1>3, <1>4, <1>5, <1>6, <1>7
     DEF HandlerStep, CreateStep, DeleteStep, ReplaceStep

LEMMA CallRPCStarts ==
    ASSUME Inv, StartInv, NEW t \in Callers, CallRPC(t)
    PROVE  StartInv' /\ Monotone
<1>1. ASSUME NEW p \in Procs, NEW b \in Blocks, CreateRegister(t, p, b) \/ ReplaceInit(t, p, b)
      PROVE  StartInv' /\ Monotone
  <2>1. PICK s : Goto(t, s)
    BY <1>1 DEF CreateRegister, ReplaceInit
  <2> QED
    BY <1>1, <2>1, ConstructStarts, CreateTakes, ReplaceTakes DEF CreateRegister, ReplaceInit, Takes
<1>2. ASSUME NEW p \in Procs, DeleteFind(t, p)
      PROVE  StartInv' /\ Monotone
  <2>1. "delete_stop" \notin StartPC /\ \A u \in Callers : u # t => obj'[u] = obj[u]
    BY <1>2 DEF StartPC, DeleteFind, Inv, TypeOK
  <2>2. NoNewStarter
    BY <1>2, <2>1, GotoNoStart DEF DeleteFind
  <2> QED
    BY <1>2, <2>2, SameKeepsStarts, KeepsStartsOK DEF DeleteFind, procVars
<1>3. ASSUME Refuse(t)
      PROVE  StartInv' /\ Monotone
  <2>1. NoNewStarter
    BY <1>3 DEF Refuse, vars, pmVars, NoNewStarter
  <2> QED
    BY <1>3, <2>1, SameKeepsStarts, KeepsStartsOK DEF Refuse, vars, procVars
<1> QED
  BY <1>1, <1>2, <1>3 DEF CallRPC

LEMMA NextStarts == Inv /\ StartInv /\ [Next]_vars => StartInv' /\ Monotone
<1> SUFFICES ASSUME Inv, StartInv, [Next]_vars PROVE StartInv' /\ Monotone
  OBVIOUS
<1>1. ASSUME UNCHANGED <<state, delTS, cmd, runner, pc, obj>>
      PROVE  StartInv' /\ Monotone
  <2>1. NoNewStarter
    BY <1>1 DEF NoNewStarter
  <2> QED
    BY <1>1, <2>1, SameKeepsStarts, KeepsStartsOK
<1>2. CASE UNCHANGED vars
  BY <1>1, <1>2 DEF vars, pmVars, procVars
<1>3. ASSUME NEW t \in Callers, CallRPC(t) \/ HandlerStep(t)
      PROVE  StartInv' /\ Monotone
  BY <1>3, CallRPCStarts, HandlerStarts
<1>4. ASSUME NEW p \in Procs, GoroutineStep(p) \/ EnvironmentStep(p), UNCHANGED pmVars
      PROVE  StartInv' /\ Monotone
  BY <1>4, RunsStarts, ProcessKeepsStarts, KeepsStartsOK
<1>5. ASSUME NEW p \in Procs, UnregStep(p) \/ CheckSend(p)
      PROVE  StartInv' /\ Monotone
  BY <1>1, <1>5 DEF UnregStep, UnregStopped, UnregCheck, MoveUnreg, UnregGiveUp, UnregRemove, UnregSend, CheckSend, procVars
<1>6. CASE MonitorStep \/ CheckMountPoints
  BY <1>1, <1>6 DEF MonitorStep, MonitorRespond, MonitorBroadcast, CheckMountPoints, procVars
<1> QED
  BY <1>2, <1>3, <1>4, <1>5, <1>6 DEF Next

LEMMA InitStarts == Init => StartInv
  BY DEF Init, ProcInit, StartInv, CommandsOK, StartsOK, StartPC

-----------------------------------------------------------------------------
(* Only harmless processes are taken for ended or given up.                *)

(* Handlers inside StopWithSignal(obj), after it was decided to stop obj;  *)
AskedObjPC == {"delete_send", "cleanup_send"}
(* handlers that will give obj up,                                         *)
HarmlessObjPC == AskedObjPC \cup {"delete_unregister", "cleanup_release", "replace_same"}
(* or old.                                                                 *)
HarmlessOldPC == {"replace_send_old", "replace_lock", "replace_commit"}

ProcStop(p) ==
    /\ state[p] = "stopping" => ~Unasked(p)
    /\ state[p] \in Terminal => Harmless(p)
    /\ prober[p] \in {"send_stop", "send_kill"} => ~Unasked(p)
    /\ \A s \in StopperPC : stoppers[p][s] > 0 => ~Unasked(p)
    /\ unreg[p]["wait"] > 0 \/ unreg[p]["seen"] > 0 \/ unreg[p]["remove"] > 0 => Constructed(p) /\ Harmless(p)

HandlerStop(t) ==
    /\ pc[t] \in AskedObjPC => ~Unasked(obj[t])
    /\ pc[t] = "replace_send_old" => ~Unasked(old[t])
    /\ pc[t] \in HarmlessObjPC => Harmless(obj[t])
    /\ pc[t] \in HarmlessOldPC => Harmless(old[t])

UnownedHarmless == \A p \in Procs : ~Owns(p) => Harmless(p)

StopsOK ==
    /\ \A p \in Procs : ProcStop(p)
    /\ \A t \in Callers : HandlerStop(t)
    /\ UnownedHarmless

(* What the step does not touch.                                           *)
SameProc(p) == /\ state'[p] = state[p] /\ prober'[p] = prober[p]
               /\ stoppers'[p] = stoppers[p] /\ unreg'[p] = unreg[p]
SameHandler(t) == pc'[t] = pc[t] /\ obj'[t] = obj[t] /\ old'[t] = old[t]

LEMMA ProcStopKept ==
    ASSUME NEW p \in Procs, ProcStop(p), Monotone, SameProc(p)
    PROVE  ProcStop(p)'
<1>1. state[p] \in Terminal => Constructed(p)
  BY DEF Terminal, Constructed
<1> QED
  BY <1>1 DEF ProcStop, Monotone, SameProc

LEMMA HandlerStopKept ==
    ASSUME Inv, NEW t \in Callers, HandlerStop(t), Monotone, SameHandler(t)
    PROVE  HandlerStop(t)'
<1>1. pc[t] \in HarmlessObjPC => Constructed(obj[t]) /\ obj[t] \in Procs
  BY HandlerObj DEF Constructed, HarmlessObjPC, AskedObjPC
<1>2. pc[t] \in HarmlessOldPC => Constructed(old[t]) /\ old[t] \in Procs
  BY ReplaceOld DEF Constructed, HarmlessOldPC, ReplacePC
<1>3. /\ pc[t] \in AskedObjPC => pc[t] \in HarmlessObjPC
      /\ pc[t] = "replace_send_old" => pc[t] \in HarmlessOldPC
  BY DEF HarmlessObjPC, HarmlessOldPC
<1> QED
  BY <1>1, <1>2, <1>3 DEF HandlerStop, Monotone, SameHandler

(* Who ceases to own its ports was about to be given up.                   *)
Leaving(p) ==
    \/ unreg[p]["remove"] > 0
    \/ \E t \in Callers : pc[t] \in {"replace_same", "cleanup_release"} /\ obj[t] = p
    \/ \E t \in Callers : pc[t] = "replace_commit" /\ old[t] = p

OwnersLeave == \A p \in Procs : Owns(p) /\ ~Owns(p)' => Leaving(p)

LEMMA NextLeaves == Inv /\ [Next]_vars => OwnersLeave
<1> SUFFICES ASSUME Inv, [Next]_vars PROVE OwnersLeave
  OBVIOUS
<1>0. ASSUME Keeps \/ \E p \in Procs, b \in Blocks : Takes(p, b)
      PROVE  OwnersLeave
  BY <1>0 DEF OwnersLeave, Keeps, SameOwners, Takes
<1>1. ASSUME NEW p \in Procs, Gives(p), Leaving(p)
      PROVE  OwnersLeave
  BY <1>1 DEF OwnersLeave, Gives
<1>2. ASSUME UNCHANGED <<pc, obj, processes, ports, free>>
      PROVE  OwnersLeave
  BY <1>0, <1>2 DEF Keeps, SameOwners, Owns, Registered, Replacing
<1>3. ASSUME NEW t \in Callers, ReplaceSame(t) \/ CleanupRelease(t)
      PROVE  OwnersLeave
  <2>1. PICK p \in Procs : obj[t] = p
    BY <1>3, HandlerObj DEF ReplaceSame, CleanupRelease
  <2>2. Gives(p)
    BY <1>3, <2>1, DropGives DEF ReplaceSame, CleanupRelease, procVars, ReplacePC
  <2> QED
    BY <1>1, <1>3, <2>1, <2>2 DEF ReplaceSame, CleanupRelease, Leaving
<1>4. ASSUME NEW t \in Callers, ReplaceCommit(t)
      PROVE  OwnersLeave
  BY <1>0, <1>1, <1>4, CommitOwns DEF ReplaceCommit, Leaving
<1>5. ASSUME NEW p \in Procs, UnregStep(p)
      PROVE  OwnersLeave
  BY <1>0, <1>1, <1>5, UnregOwns DEF Leaving
<1>6. ASSUME NEW t \in Callers, ReplaceStep(t), ~ReplaceSame(t), ~CleanupRelease(t), ~ReplaceCommit(t)
      PROVE  OwnersLeave
  <2>1. Keeps
    BY <1>6, ReplaceKeeps
  <2> QED
    BY <1>0, <2>1
<1>7. ASSUME NEW t \in Callers, CallRPC(t)
      PROVE  OwnersLeave
  BY <1>0, <1>7, CallRPCTakes
<1>8. ASSUME NEW t \in Callers, CreateStep(t) \/ DeleteStep(t)
      PROVE  OwnersLeave
  BY <1>0, <1>8, CreateOwns, DeleteOwns
<1>9. CASE UNCHANGED vars
  BY <1>2, <1>9 DEF vars, pmVars, procVars
<1>10. ASSUME NEW p \in Procs, GoroutineStep(p) \/ EnvironmentStep(p), UNCHANGED pmVars
       PROVE  OwnersLeave
  BY <1>2, <1>10, InvSplit, ProcessStepOK DEF pmVars
<1>11. ASSUME NEW p \in Procs, CheckSend(p) PROVE OwnersLeave
  BY <1>2, <1>11 DEF CheckSend
<1>12. CASE MonitorStep \/ CheckMountPoints
  BY <1>2, <1>12 DEF MonitorStep, MonitorRespond, MonitorBroadcast, CheckMountPoints, procVars
<1> QED
  BY <1>3, <1>4, <1>5, <1>6, <1>7, <1>8, <1>9, <1>10, <1>11, <1>12 DEF Next, HandlerStep

LEMMA UnownedStep ==
    ASSUME Inv, StopsOK, Monotone, OwnersLeave
    PROVE  UnownedHarmless'
<1> SUFFICES ASSUME NEW p \in Procs, ~Owns(p)' PROVE Harmless(p)'
  BY DEF UnownedHarmless
<1>1. Leaving(p) => Harmless(p)
  <2>1. unreg[p]["remove"] > 0 => Harmless(p)
    BY DEF StopsOK, ProcStop
  <2>2. \A t \in Callers : pc[t] \in {"replace_same", "cleanup_release"} => Harmless(obj[t])
    BY DEF StopsOK, HandlerStop, HarmlessObjPC
  <2>3. \A t \in Callers : pc[t] = "replace_commit" => Harmless(old[t])
    BY DEF StopsOK, HandlerStop, HarmlessOldPC
  <2> QED
    BY <2>1, <2>2, <2>3 DEF Leaving
<1>2. Harmless(p)
  BY <1>1 DEF OwnersLeave, StopsOK, UnownedHarmless
<1> QED
  BY <1>2 DEF Monotone

(* The steps of p's goroutines.                                            *)

LEMMA AskedStop ==
    ASSUME NEW p \in Procs, ProcStop(p), Monotone, ~Unasked(p)', unreg'[p] = unreg[p]
    PROVE  ProcStop(p)'
  BY DEF ProcStop, Monotone, Harmless

LEMMA QuietStop ==
    ASSUME NEW p \in Procs, ProcStop(p), Monotone,
           stoppers'[p] = stoppers[p], unreg'[p] = unreg[p],
           \/ prober'[p] = prober[p]
           \/ prober'[p] \notin {"send_stop", "send_kill"},
           \/ state'[p] = state[p]
           \/ state'[p] \notin {"stopping"} \cup Terminal
           \/ state'[p] \in Terminal /\ Harmless(p)'
    PROVE  ProcStop(p)'
<1>1. state[p] \in Terminal => Constructed(p)
  BY DEF Terminal, Constructed
<1>2. "stopping" \notin Terminal
  BY DEF Terminal
<1> QED
  BY <1>1, <1>2 DEF ProcStop, Monotone

(* The locked section of StopWithSignal: p is harmless after it, and asked *)
(* to stop if there is more to do.                                         *)
LEMMA StopLockedStops ==
    ASSUME Inv, NEW p \in Procs, ProcStop(p), Monotone, StopLocked(p)
    PROVE  /\ StopMode(p) # "none" => ~Unasked(p)'
           /\ StopMode(p) = "none" => state'[p] = state[p]
           /\ Harmless(p)'
<1>1. CASE NeedStop(p)
  <2>1. delTS'[p] = "set"
    BY <1>1 DEF StopLocked, Inv, TypeOK, ProcTypeOK
  <2> QED
    BY <1>1, <2>1 DEF StopMode, Unasked, Harmless
<1>2. CASE ~NeedStop(p)
  <2>1. state'[p] = state[p]
    BY <1>2 DEF StopLocked, Inv, TypeOK, ProcTypeOK
  <2>2. NeedTimeoutKill(p) => ~Unasked(p)
    BY DEF NeedTimeoutKill, Unasked
  <2>3. Constructed(p) /\ Harmless(p)
    BY <1>2 DEF NeedStop, ProcStop, Harmless, Terminal, Constructed
  <2> QED
    BY <1>2, <2>1, <2>2, <2>3 DEF StopMode, Monotone
<1> QED
  BY <1>1, <1>2

LEMMA RunnerStops ==
    ASSUME Inv, StartInv, StopsOK, Monotone, NEW p \in Procs,
           RunnerStep(p) \/ RunnerSend(p) \/ EnvironmentStep(p), UNCHANGED pmVars
    PROVE  ProcStop(p)' /\ \A q \in Procs : q # p => SameProc(q)
<1> USE DEF Inv, TypeOK, ProcTypeOK
<1>0. ProcStop(p) /\ UNCHANGED <<unreg, pc, obj, stoppers, prober>>
  BY DEF StopsOK, pmVars, RunnerStep, RunnerFork, RunnerForkFails, RunnerRecord, RunnerSend,
         EnvironmentStep, CmdExit, DeletionExpires
<1>1. CASE RunnerRecord(p)
  <2>1. /\ state'[p] \in Terminal /\ UNCHANGED cmd /\ runner[p] \in {"ok", "err"}
        /\ \A q \in Procs : q # p => state'[q] = state[q]
    BY <1>1 DEF RunnerRecord, Terminal
  <2>2. cmd[p] \notin {"nil", "new", "live"}
    BY <2>1 DEF StartInv, CommandsOK
  <2>3. ~Starting(p)
    BY <2>2 DEF StartInv, StartsOK, Starting
  <2>4. ~CanRun(p)'
    BY <1>0, <2>1, <2>2, <2>3 DEF CanRun, Starting
  <2> QED
    BY <1>0, <2>1, <2>4, QuietStop DEF Harmless, SameProc
<1>2. CASE ~RunnerRecord(p)
  <2>1. UNCHANGED state
    BY <1>2 DEF RunnerStep, RunnerFork, RunnerForkFails, RunnerSend, EnvironmentStep, CmdExit,
                DeletionExpires
  <2> QED
    BY <1>0, <2>1, QuietStop DEF SameProc
<1> QED
  BY <1>1, <1>2

LEMMA ProberStops ==
    ASSUME Inv, StopsOK, Monotone, NEW p \in Procs,
           ProberStep(p) \/ ProbeSend(p) \/ ProbeSpawn(p), UNCHANGED pmVars
    PROVE  ProcStop(p)' /\ \A q \in Procs : q # p => SameProc(q)
<1> USE DEF Inv, TypeOK, ProcTypeOK
<1>0. ProcStop(p) /\ UNCHANGED unreg
  BY DEF StopsOK, pmVars
<1>1. CASE ProbeReady(p) \/ ProbeFails(p) \/ ProbeSend(p) \/ ProbeCheck(p)
  <2>1. /\ prober'[p] \notin {"send_stop", "send_kill"} /\ UNCHANGED <<state, stoppers>>
        /\ \A q \in Procs : q # p => prober'[q] = prober[q]
    BY <1>1 DEF ProbeReady, ProbeFails, ProbeSend, ProbeCheck
  <2> QED
    BY <1>0, <2>1, QuietStop DEF SameProc
<1>2. CASE ProbeRunning(p)
  <2>1. /\ prober'[p] = "send" /\ state'[p] = "running" /\ UNCHANGED stoppers
        /\ \A q \in Procs : q # p => prober'[q] = prober[q] /\ state'[q] = state[q]
    BY <1>2 DEF ProbeRunning
  <2> QED
    BY <1>0, <2>1, QuietStop DEF SameProc, Terminal
<1>3. CASE ProbeStop(p)
  <2>1. /\ StopMode(p) # "none" => ~Unasked(p)'
        /\ StopMode(p) = "none" => state'[p] = state[p]
    BY <1>0, <1>3, StopLockedStops DEF ProbeStop
  <2>2. /\ StopMode(p) = "none" => prober'[p] = "done"
        /\ UNCHANGED stoppers
        /\ \A q \in Procs : q # p => prober'[q] = prober[q] /\ state'[q] = state[q]
    BY <1>3 DEF ProbeStop, StopLocked
  <2>3. ProcStop(p)'
    BY <1>0, <2>1, <2>2, AskedStop, QuietStop
  <2> QED
    BY <1>0, <2>2, <2>3 DEF SameProc
<1>4. CASE ProbeSpawn(p)
  <2>1. ~Unasked(p)'
    BY <1>0, <1>4 DEF ProbeSpawn, ProcStop, Monotone
  <2>2. /\ UNCHANGED state
        /\ \A q \in Procs : q # p => prober'[q] = prober[q] /\ stoppers'[q] = stoppers[q]
    BY <1>4 DEF ProbeSpawn, SpawnStopper
  <2> QED
    BY <1>0, <2>1, <2>2, AskedStop DEF SameProc
<1> QED
  BY <1>1, <1>2, <1>3, <1>4 DEF ProberStep

LEMMA StopperStops ==
    ASSUME Inv, StopsOK, Monotone, NEW p \in Procs, StopperStep(p), UNCHANGED pmVars
    PROVE  ProcStop(p)' /\ \A q \in Procs : q # p => SameProc(q)
<1>0. ProcStop(p) /\ UNCHANGED unreg
  BY DEF StopsOK, pmVars
<1>1. PICK s \in StopperPC : stoppers[p][s] > 0
  BY DEF StopperStep, StopperNotRunning, StopperMark, StopperSignal, StopperWaitDone,
         StopperKill, EndStopper, MoveStopper, StopperPC
<1>2. ~Unasked(p)'
  BY <1>0, <1>1 DEF ProcStop, Monotone
<1>3. \A q \in Procs : q # p => state'[q] = state[q] /\ prober'[q] = prober[q]
  BY DEF StopperStep, StopperNotRunning, StopperMark, StopperSignal, StopperWaitDone,
         StopperKill, EndStopper, MoveStopper, Inv, TypeOK, ProcTypeOK
<1>4. \A q \in Procs : q # p => stoppers'[q] = stoppers[q]
  BY DEF StopperStep, StopperNotRunning, StopperMark, StopperSignal, StopperWaitDone,
         StopperKill, EndStopper, MoveStopper, Inv, TypeOK, ProcTypeOK
<1> QED
  BY <1>0, <1>2, <1>3, <1>4, AskedStop DEF SameProc

(* The steps of the handler t on p.                                        *)

LEMMA CallStopStops ==
    ASSUME Inv, StopsOK, Monotone, NEW t \in Callers, NEW p \in Procs, NEW s1, NEW s2,
           CallStop(t, p, s1, s2)
    PROVE  /\ \A q \in Procs : ProcStop(q)'
           /\ Harmless(p)'
           /\ (pc'[t] = s1 /\ ~Unasked(p)') \/ pc'[t] = s2
           /\ obj' = obj /\ old' = old
           /\ \A u \in Callers : u # t => SameHandler(u)
<1>0. ProcStop(p) /\ UNCHANGED <<unreg, prober, stoppers, obj, old>> /\ StopLocked(p)
  BY DEF StopsOK, CallStop, StopLocked, Bystanders
<1>1. /\ StopMode(p) # "none" => ~Unasked(p)'
      /\ StopMode(p) = "none" => state'[p] = state[p]
      /\ Harmless(p)'
  BY <1>0, StopLockedStops
<1>2. ProcStop(p)'
  BY <1>0, <1>1, AskedStop, QuietStop
<1>3. \A q \in Procs : q # p => state'[q] = state[q]
  BY <1>0 DEF StopLocked, Inv, TypeOK, ProcTypeOK
<1>4. \A q \in Procs : q # p => ProcStop(q)'
  BY <1>0, <1>3, ProcStopKept DEF StopsOK, SameProc
<1>5. /\ pc'[t] = IF StopMode(p) = "none" THEN s2 ELSE s1
      /\ \A u \in Callers : u # t => pc'[u] = pc[u]
  BY DEF CallStop, Goto, Inv, TypeOK
<1> QED
  BY <1>0, <1>1, <1>2, <1>4, <1>5 DEF SameHandler

LEMMA CallSpawnStops ==
    ASSUME Inv, StopsOK, Monotone, NEW t \in Callers, NEW p \in Procs, NEW s,
           CallSpawn(t, p, s), ~Unasked(p)
    PROVE  /\ \A q \in Procs : ProcStop(q)'
           /\ Harmless(p)'
           /\ pc'[t] = s /\ obj' = obj /\ old' = old
           /\ \A u \in Callers : u # t => SameHandler(u)
<1>0. ProcStop(p) /\ UNCHANGED <<unreg, prober, state, obj, old>>
  BY DEF StopsOK, CallSpawn, SpawnStopper, Bystanders
<1>1. ~Unasked(p)' /\ Harmless(p)'
  BY DEF Monotone, Harmless
<1>2. ProcStop(p)'
  BY <1>0, <1>1, AskedStop
<1>3. \A q \in Procs : q # p => stoppers'[q] = stoppers[q]
  BY DEF CallSpawn, SpawnStopper, Inv, TypeOK, ProcTypeOK
<1>4. \A q \in Procs : q # p => ProcStop(q)'
  BY <1>0, <1>3, ProcStopKept DEF StopsOK, SameProc
<1>5. pc'[t] = s /\ \A u \in Callers : u # t => pc'[u] = pc[u]
  BY DEF CallSpawn, Goto, Inv, TypeOK
<1> QED
  BY <1>0, <1>1, <1>2, <1>4, <1>5 DEF SameHandler

(* What StopsOK says without the owners.                                   *)
StopsMost ==
    /\ \A p \in Procs : ProcStop(p)
    /\ \A t \in Callers : HandlerStop(t)

LEMMA StopsMostStep ==
    ASSUME Inv, StopsOK, Monotone, NEW t \in Callers, HandlerStop(t)',
           \A u \in Callers : u # t => SameHandler(u),
           \A q \in Procs : ProcStop(q)'
    PROVE  StopsMost'
  BY HandlerStopKept DEF StopsMost, StopsOK

(* A handler that goes where nothing is required.                          *)
LEMMA FreeHandler ==
    ASSUME NEW t \in Callers, pc'[t] \notin HarmlessObjPC, pc'[t] \notin HarmlessOldPC
    PROVE  HandlerStop(t)'
  BY DEF HandlerStop, HarmlessObjPC, HarmlessOldPC

LEMMA ProcStopsKept ==
    ASSUME StopsOK, Monotone, UNCHANGED <<state, prober, stoppers, unreg>>
    PROVE  \A q \in Procs : ProcStop(q)'
  BY ProcStopKept DEF StopsOK, SameProc

LEMMA CreateStops ==
    ASSUME Inv, StartInv, StopsOK, Monotone, NEW t \in Callers, CreateStep(t) \/ ReplaceStart(t)
    PROVE  StopsMost'
<1>p. PICK p \in Procs : obj[t] = p
  BY HandlerObj DEF CreateStep, CreateSend, CreateStart, CreateSendError, ReplaceStart
<1>1. PICK s \in {"idle", "create_start", "create_send_error", "replace_poll", "cleanup_stop"} :
         Goto(t, s)
  BY DEF CreateStep, CreateSend, CreateStart, CreateSendError, ReplaceStart, SendAndGoto, Finish
<1>2. pc'[t] = s /\ \A u \in Callers : u # t => pc'[u] = pc[u]
  BY <1>1 DEF Goto, Inv, TypeOK
<1>3. HandlerStop(t)'
  BY <1>2, FreeHandler DEF HarmlessObjPC, HarmlessOldPC, AskedObjPC
<1>4. \A u \in Callers : u # t => SameHandler(u)
  BY <1>2 DEF SameHandler, CreateStep, CreateSend, CreateStart, CreateSendError, ReplaceStart,
              SendAndGoto, Finish, Inv, TypeOK
<1>5. CASE StartError(p) /\ (CreateStart(t) \/ ReplaceStart(t))
  <2>1. /\ state'[p] \in Terminal /\ UNCHANGED <<cmd, prober, stoppers, unreg>>
        /\ \A q \in Procs : q # p => state'[q] = state[q]
    BY <1>5 DEF StartError, Terminal, CreateStart, ReplaceStart, Bystanders, Inv, TypeOK, ProcTypeOK
  <2>2. pc[t] \in StartPC
    BY <1>5 DEF CreateStart, ReplaceStart, StartPC
  <2>3. s \notin StartPC
    BY <1>2, <1>5 DEF CreateStart, ReplaceStart, Finish, Goto, Inv, TypeOK, StartPC
  <2>4. cmd[p] = "nil" /\ \A u \in Callers : u # t /\ pc[u] \in StartPC => obj[u] # p
    BY <1>p, <2>2 DEF StartInv, StartsOK
  <2>5. ~CanRun(p)'
    BY <1>2, <1>4, <2>1, <2>3, <2>4 DEF CanRun, Starting, SameHandler
  <2>6. ProcStop(p)'
    BY <2>1, <2>5, QuietStop DEF Harmless, StopsOK
  <2>7. \A q \in Procs : q # p => ProcStop(q)'
    BY <2>1, ProcStopKept DEF StopsOK, SameProc
  <2> QED
    BY <1>3, <1>4, <2>6, <2>7, StopsMostStep
<1>6. CASE StartOK(p) /\ (CreateStart(t) \/ ReplaceStart(t))
  <2>1. /\ prober'[p] = "probe" /\ UNCHANGED <<state, stoppers, unreg>>
        /\ \A q \in Procs : q # p => prober'[q] = prober[q]
    BY <1>6 DEF StartOK, CreateStart, ReplaceStart, Bystanders, Inv, TypeOK, ProcTypeOK
  <2>2. ProcStop(p)'
    BY <2>1, QuietStop DEF StopsOK
  <2>3. \A q \in Procs : q # p => ProcStop(q)'
    BY <2>1, ProcStopKept DEF StopsOK, SameProc
  <2> QED
    BY <1>3, <1>4, <2>2, <2>3, StopsMostStep
<1>7. CASE CreateSend(t) \/ CreateSendError(t)
  <2>1. UNCHANGED <<state, prober, stoppers, unreg>>
    BY <1>7 DEF CreateSend, SendAndGoto, CreateSendError, Bystanders
  <2> QED
    BY <1>3, <1>4, <2>1, ProcStopsKept, StopsMostStep
<1> QED
  BY <1>p, <1>5, <1>6, <1>7 DEF CreateStep, CreateStart, ReplaceStart

LEMMA DeleteStops ==
    ASSUME Inv, StopsOK, Monotone, NEW t \in Callers, DeleteStep(t)
    PROVE  StopsMost'
<1> USE DEF HarmlessObjPC, HarmlessOldPC, AskedObjPC
<1>p. PICK p \in Procs : obj[t] = p
  BY HandlerObj DEF DeleteStep, DeleteStop, DeleteSend, DeleteUnregister
<1>0. HandlerStop(t)
  BY DEF StopsOK
<1>1. CASE DeleteStop(t)
  <2>1. CallStop(t, p, "delete_send", "delete_unregister")
    BY <1>p, <1>1 DEF DeleteStop
  <2>2. /\ \A q \in Procs : ProcStop(q)'
        /\ Harmless(p)'
        /\ (pc'[t] = "delete_send" /\ ~Unasked(p)') \/ pc'[t] = "delete_unregister"
        /\ obj' = obj /\ old' = old
        /\ \A u \in Callers : u # t => SameHandler(u)
    BY <2>1, CallStopStops
  <2>3. HandlerStop(t)'
    BY <1>p, <2>2 DEF HandlerStop
  <2> QED
    BY <2>2, <2>3, StopsMostStep
<1>2. CASE DeleteSend(t)
  <2>1. CallSpawn(t, p, "delete_unregister") /\ ~Unasked(p)
    BY <1>p, <1>0, <1>2 DEF DeleteSend, HandlerStop
  <2>2. /\ \A q \in Procs : ProcStop(q)'
        /\ Harmless(p)'
        /\ pc'[t] = "delete_unregister" /\ obj' = obj /\ old' = old
        /\ \A u \in Callers : u # t => SameHandler(u)
    BY <2>1, CallSpawnStops
  <2>3. HandlerStop(t)'
    BY <1>p, <2>2 DEF HandlerStop
  <2> QED
    BY <2>2, <2>3, StopsMostStep
<1>3. CASE DeleteUnregister(t)
  <2>1. /\ pc'[t] = "idle"
        /\ \A u \in Callers : u # t => SameHandler(u)
    BY <1>3 DEF DeleteUnregister, Finish, Goto, SameHandler, Inv, TypeOK
  <2>2. HandlerStop(t)'
    BY <2>1, FreeHandler
  <2>3. Constructed(p) /\ Harmless(p)
    BY <1>p, <1>0, <1>3, HandlerObj DEF DeleteUnregister, HandlerStop, Constructed
  <2>4. Constructed(p)' /\ Harmless(p)'
    BY <2>3 DEF Monotone
  <2>5. /\ UNCHANGED <<state, prober, stoppers>>
        /\ \A q \in Procs : q # p => unreg'[q] = unreg[q]
    BY <1>p, <1>3 DEF DeleteUnregister, procVars, Inv, TypeOK
  <2>6. ProcStop(p)'
    BY <2>3, <2>4, <2>5 DEF StopsOK, ProcStop, Monotone
  <2>7. \A q \in Procs : q # p => ProcStop(q)'
    BY <2>5, ProcStopKept DEF StopsOK, SameProc
  <2> QED
    BY <2>1, <2>2, <2>6, <2>7, StopsMostStep
<1> QED
  BY <1>1, <1>2, <1>3 DEF DeleteStep

LEMMA ReplaceStops ==
    ASSUME Inv, StopsOK, Monotone, NEW t \in Callers, ReplaceStep(t), ~ReplaceStart(t)
    PROVE  StopsMost'
<1> USE DEF HarmlessObjPC, HarmlessOldPC, AskedObjPC
<1>p. PICK p \in Procs : obj[t] = p
  BY HandlerObj
     DEF ReplaceStep, ReplaceSame, ReplacePoll, ReplaceStopOld, ReplaceSendOld,
         ReplaceLock, ReplaceCommit, ReplaceSend, CleanupStop, CleanupSend, CleanupRelease
<1>0. HandlerStop(t)
  BY DEF StopsOK
<1>1. CASE ReplaceSame(t) \/ ReplacePoll(t) \/ ReplaceCommit(t) \/ ReplaceSend(t) \/ CleanupRelease(t)
  <2>1. UNCHANGED <<state, prober, stoppers, unreg>>
    BY <1>1 DEF ReplaceSame, ReplacePoll, ReplaceCommit, ReplaceSend, CleanupRelease, procVars,
                Bystanders
  <2>2. PICK s \in {"idle", "replace_stop_old", "cleanup_stop", "replace_send"} : Goto(t, s)
    BY <1>1 DEF ReplaceSame, ReplacePoll, ReplaceCommit, ReplaceSend, CleanupRelease, Finish
  <2>3. pc'[t] = s /\ \A u \in Callers : u # t => SameHandler(u)
    BY <1>1, <2>2 DEF ReplaceSame, ReplacePoll, ReplaceCommit, ReplaceSend, CleanupRelease, Finish,
                      Goto, SameHandler, Inv, TypeOK
  <2>4. HandlerStop(t)'
    BY <2>3, FreeHandler
  <2> QED
    BY <2>1, <2>3, <2>4, ProcStopsKept, StopsMostStep
<1>2. CASE ReplaceStopOld(t) \/ ReplaceSendOld(t) \/ ReplaceLock(t)
  <2>o. PICK o \in Procs : old[t] = o /\ Constructed(o)
    BY <1>2, ReplaceOld DEF ReplaceStopOld, ReplaceSendOld, ReplaceLock, ReplacePC, Constructed
  <2>1. CASE ReplaceStopOld(t)
    <3>1. CallStop(t, o, "replace_send_old", "replace_lock")
      BY <2>o, <2>1 DEF ReplaceStopOld
    <3>2. /\ \A q \in Procs : ProcStop(q)'
          /\ Harmless(o)'
          /\ (pc'[t] = "replace_send_old" /\ ~Unasked(o)') \/ pc'[t] = "replace_lock"
          /\ obj' = obj /\ old' = old
          /\ \A u \in Callers : u # t => SameHandler(u)
      BY <3>1, CallStopStops
    <3>3. HandlerStop(t)'
      BY <2>o, <3>2 DEF HandlerStop
    <3> QED
      BY <3>2, <3>3, StopsMostStep
  <2>2. CASE ReplaceSendOld(t)
    <3>1. CallSpawn(t, o, "replace_lock") /\ ~Unasked(o)
      BY <1>0, <2>o, <2>2 DEF ReplaceSendOld, HandlerStop
    <3>2. /\ \A q \in Procs : ProcStop(q)'
          /\ Harmless(o)'
          /\ pc'[t] = "replace_lock" /\ obj' = obj /\ old' = old
          /\ \A u \in Callers : u # t => SameHandler(u)
      BY <3>1, CallSpawnStops
    <3>3. HandlerStop(t)'
      BY <2>o, <3>2 DEF HandlerStop
    <3> QED
      BY <3>2, <3>3, StopsMostStep
  <2>3. CASE ReplaceLock(t)
    <3>1. UNCHANGED <<state, prober, stoppers, unreg, obj, old>>
      BY <2>3 DEF ReplaceLock, procVars
    <3>2. pc'[t] = "replace_commit" /\ \A u \in Callers : u # t => SameHandler(u)
      BY <2>3 DEF ReplaceLock, Goto, SameHandler, Inv, TypeOK
    <3>3. Harmless(o)'
      BY <1>0, <2>o, <2>3 DEF ReplaceLock, HandlerStop, Monotone
    <3>4. HandlerStop(t)'
      BY <2>o, <3>1, <3>2, <3>3 DEF HandlerStop
    <3> QED
      BY <3>1, <3>2, <3>4, ProcStopsKept, StopsMostStep
  <2> QED
    BY <1>2, <2>1, <2>2, <2>3
<1>3. CASE CleanupStop(t)
  <2>1. CallStop(t, p, "cleanup_send", "cleanup_release")
    BY <1>p, <1>3 DEF CleanupStop
  <2>2. /\ \A q \in Procs : ProcStop(q)'
        /\ Harmless(p)'
        /\ (pc'[t] = "cleanup_send" /\ ~Unasked(p)') \/ pc'[t] = "cleanup_release"
        /\ obj' = obj /\ old' = old
        /\ \A u \in Callers : u # t => SameHandler(u)
    BY <2>1, CallStopStops
  <2>3. HandlerStop(t)'
    BY <1>p, <2>2 DEF HandlerStop
  <2> QED
    BY <2>2, <2>3, StopsMostStep
<1>4. CASE CleanupSend(t)
  <2>1. CallSpawn(t, p, "cleanup_release") /\ ~Unasked(p)
    BY <1>p, <1>0, <1>4 DEF CleanupSend, HandlerStop
  <2>2. /\ \A q \in Procs : ProcStop(q)'
        /\ Harmless(p)'
        /\ pc'[t] = "cleanup_release" /\ obj' = obj /\ old' = old
        /\ \A u \in Callers : u # t => SameHandler(u)
    BY <2>1, CallSpawnStops
  <2>3. HandlerStop(t)'
    BY <1>p, <2>2 DEF HandlerStop
  <2> QED
    BY <2>2, <2>3, StopsMostStep
<1> QED
  BY <1>1, <1>2, <1>3, <1>4 DEF ReplaceStep

LEMMA CallRPCStops ==
    ASSUME Inv, StartInv, StopsOK, Monotone, NEW t \in Callers, CallRPC(t)
    PROVE  StopsMost'
<1>1. ASSUME NEW p \in Procs, NEW b \in Blocks, CreateRegister(t, p, b) \/ ReplaceInit(t, p, b)
      PROVE  StopsMost'
  <2>1. PICK s \in {"create_send", "replace_same", "replace_start"} : Goto(t, s)
    BY <1>1 DEF CreateRegister, ReplaceInit
  <2>2. /\ Construct(p, b) /\ state[p] = "none" /\ obj' = [obj EXCEPT ![t] = p]
        /\ UNCHANGED <<cmd, delTS, prober, stoppers, unreg>>
        /\ state'[p] = "starting" /\ \A q \in Procs : q # p => state'[q] = state[q]
    BY <1>1 DEF CreateRegister, ReplaceInit, Construct, Bystanders, Inv, TypeOK, ProcTypeOK
  <2>3. /\ pc'[t] = s /\ obj'[t] = p
        /\ \A u \in Callers : u # t => SameHandler(u)
    BY <1>1, <2>1, <2>2 DEF CreateRegister, ReplaceInit, Goto, SameHandler, Inv, TypeOK
  <2>4. cmd[p] = "nil" /\ \A u \in Callers : pc[u] # "idle" => obj[u] # p
    BY <2>2, FreshOwnsNothing DEF StartInv, CommandsOK
  <2>5. ASSUME s = "replace_same"
        PROVE  ~CanRun(p)'
    BY <2>2, <2>3, <2>4, <2>5 DEF CanRun, Starting, StartPC, SameHandler
  <2>6. HandlerStop(t)'
    BY <2>3, <2>5 DEF HandlerStop, Harmless, HarmlessObjPC, HarmlessOldPC, AskedObjPC
  <2>7. ProcStop(p)'
    BY <2>2, QuietStop DEF StopsOK, Terminal
  <2>8. \A q \in Procs : q # p => ProcStop(q)'
    BY <2>2, ProcStopKept DEF StopsOK, SameProc
  <2> QED
    BY <2>3, <2>6, <2>7, <2>8, StopsMostStep
<1>2. ASSUME NEW p \in Procs, DeleteFind(t, p)
      PROVE  StopsMost'
  <2>1. UNCHANGED <<state, prober, stoppers, unreg>>
    BY <1>2 DEF DeleteFind, procVars, Bystanders
  <2>2. pc'[t] = "delete_stop" /\ \A u \in Callers : u # t => SameHandler(u)
    BY <1>2 DEF DeleteFind, Goto, SameHandler, Inv, TypeOK
  <2>3. HandlerStop(t)'
    BY <2>2, FreeHandler DEF HarmlessObjPC, HarmlessOldPC, AskedObjPC
  <2> QED
    BY <2>1, <2>2, <2>3, ProcStopsKept, StopsMostStep
<1>3. ASSUME Refuse(t) PROVE StopsMost'
  BY <1>3, ProcStopKept, HandlerStopKept
     DEF Refuse, vars, pmVars, procVars, StopsOK, StopsMost, SameProc, SameHandler
<1> QED
  BY <1>1, <1>2, <1>3 DEF CallRPC

(* The unregister goroutine of p.                                          *)
LEMMA UnregStops ==
    ASSUME Inv, StopsOK, Monotone, NEW p \in Procs, UnregStep(p)
    PROVE  StopsMost'
<1>0. UNCHANGED <<state, delTS, prober, stoppers, pc, obj, old>>
  BY DEF UnregStep, UnregStopped, UnregCheck, MoveUnreg, UnregGiveUp, UnregRemove, UnregSend, procVars
<1>1. \A q \in Procs : q # p => unreg'[q] = unreg[q]
  BY DEF UnregStep, UnregStopped, UnregCheck, MoveUnreg, UnregGiveUp, UnregRemove, UnregSend, Inv, TypeOK
<1>2. \A q \in Procs : q # p => ProcStop(q)'
  BY <1>0, <1>1, ProcStopKept DEF StopsOK, SameProc
<1>3. unreg'[p]["wait"] > 0 \/ unreg'[p]["seen"] > 0 \/ unreg'[p]["remove"] > 0 =>
         unreg[p]["wait"] > 0 \/ unreg[p]["seen"] > 0 \/ unreg[p]["remove"] > 0
  <2>1. \A s \in UnregPC : unreg[p][s] \in 0 .. MaxUnreg
    BY DEF Inv, TypeOK
  <2>2. CASE UnregStopped(p) \/ UnregCheck(p) \/ UnregGiveUp(p) \/ UnregRemove(p)
    BY <2>2 DEF UnregStopped, UnregCheck, MoveUnreg, UnregGiveUp, UnregRemove
  <2>3. CASE UnregSend(p)
    BY <2>3 DEF UnregSend, Inv, TypeOK, UnregPC
  <2> QED
    BY <2>2, <2>3 DEF UnregStep
<1>4. state[p] \in Terminal => Constructed(p)
  BY DEF Terminal, Constructed
<1>5. ProcStop(p)'
  BY <1>0, <1>3, <1>4 DEF StopsOK, ProcStop, Monotone
<1>6. \A t \in Callers : HandlerStop(t)'
  BY <1>0, HandlerStopKept DEF StopsOK, SameHandler
<1> QED
  BY <1>2, <1>5, <1>6 DEF StopsMost

LEMMA NextStops == Inv /\ StartInv /\ StopsOK /\ [Next]_vars => StopsOK'
<1> SUFFICES ASSUME Inv, StartInv, StopsOK, [Next]_vars PROVE StopsOK'
  OBVIOUS
<1>0. Monotone /\ UnownedHarmless'
  BY NextStarts, NextLeaves, UnownedStep
<1>1. ASSUME UNCHANGED <<state, prober, stoppers, unreg, pc, obj, old>>
      PROVE  StopsMost'
  BY <1>0, <1>1, ProcStopKept, HandlerStopKept DEF StopsOK, StopsMost, SameProc, SameHandler
<1>2. CASE UNCHANGED vars
  BY <1>0, <1>1, <1>2 DEF vars, pmVars, procVars, StopsOK, StopsMost
<1>3. ASSUME NEW t \in Callers, CallRPC(t) \/ HandlerStep(t)
      PROVE  StopsMost'
  BY <1>0, <1>3, CallRPCStops, CreateStops, DeleteStops, ReplaceStops DEF HandlerStep
<1>4. ASSUME NEW p \in Procs, GoroutineStep(p) \/ EnvironmentStep(p), UNCHANGED pmVars
      PROVE  StopsMost'
  <2>1. ProcStop(p)' /\ \A q \in Procs : q # p => SameProc(q)
    BY <1>0, <1>4, RunnerStops, ProberStops, StopperStops DEF GoroutineStep
  <2>2. \A q \in Procs : ProcStop(q)'
    BY <1>0, <2>1, ProcStopKept DEF StopsOK
  <2>3. \A t \in Callers : HandlerStop(t)'
    BY <1>0, <1>4, HandlerStopKept DEF StopsOK, SameHandler, pmVars
  <2> QED
    BY <2>2, <2>3 DEF StopsMost
<1>5. ASSUME NEW p \in Procs, CheckSend(p)
      PROVE  StopsMost'
  BY <1>1, <1>5 DEF CheckSend
<1>6. CASE MonitorStep \/ CheckMountPoints
  <2>1. UNCHANGED <<state, prober, stoppers, unreg, pc, obj, old>>
    BY <1>6 DEF MonitorStep, MonitorRespond, MonitorBroadcast, CheckMountPoints, procVars
  <2> QED
    BY <1>0, <1>1, <2>1 DEF StopsOK, StopsMost
<1>7. ASSUME NEW p \in Procs, UnregStep(p)
      PROVE  StopsMost'
  BY <1>0, <1>7, UnregStops
<1>8. ASSUME StopsMost' PROVE StopsOK'
  BY <1>0, <1>8 DEF StopsOK, StopsMost
<1> QED
  BY <1>2, <1>3, <1>4, <1>5, <1>6, <1>7, <1>8 DEF Next

LEMMA InitStops == Init => StopsOK
<1> SUFFICES ASSUME Init PROVE StopsOK
  OBVIOUS
<1>1. \A t \in Callers : pc[t] = "idle"
  BY DEF Init
<1>2. \A p \in Procs : state[p] = "none" /\ cmd[p] = "nil" /\ prober[p] = "none"
  BY DEF Init, ProcInit
<1>3. \A p \in Procs : ~CanRun(p)
  BY <1>1, <1>2 DEF CanRun, Starting, StartPC
<1>4. /\ \A p \in Procs, s \in StopperPC : stoppers[p][s] = 0
      /\ \A p \in Procs, s \in UnregPC : unreg[p][s] = 0
  BY DEF Init, ProcInit, NoStoppers, NoUnreg
<1>5. \A p \in Procs : unreg[p]["wait"] = 0 /\ unreg[p]["seen"] = 0 /\ unreg[p]["remove"] = 0
  BY <1>4 DEF UnregPC
<1>6. \A p \in Procs : ProcStop(p)
  BY <1>2, <1>4, <1>5 DEF ProcStop, Terminal
<1>7. \A t \in Callers : HandlerStop(t)
  BY <1>1 DEF HandlerStop, HarmlessObjPC, HarmlessOldPC, AskedObjPC
<1> QED
  BY <1>3, <1>6, <1>7 DEF StopsOK, UnownedHarmless, Harmless

LEMMA SpecStops == Spec => [](StartInv /\ StopsOK)
<1>1. Init => StartInv /\ StopsOK
  BY InitStarts, InitStops
<1>2. Inv /\ (StartInv /\ StopsOK) /\ [Next]_vars => (StartInv /\ StopsOK)'
  BY NextStarts, NextStops
<1> QED
  BY <1>1, <1>2, SpecInv, PTL DEF Spec

-----------------------------------------------------------------------------
(* What follows.                                                           *)

(* A process nobody has asked to stop is recorded as stopped or failed     *)
(* only when its operating-system process has ended or was never started.  *)
(* (process.go Start, StopWithSignal, 65-84, 187-218)                      *)
THEOREM EndedMeansDead == Spec => []StoppedIsDead
<1>1. StopsOK => StoppedIsDead
  BY DEF StopsOK, ProcStop, StoppedIsDead, IsStopped, IsRunning, Harmless, CanRun
<1> QED
  BY <1>1, SpecStops, PTL

(* Two live operating-system processes share a port only if one of them    *)
(* has been asked to stop: ports are given back early, but never behind    *)
(* the back of a process that is meant to go on.  (process_manager.go      *)
(* unregisterProcess, ProcessReplace, cleanupReplacementProcess)           *)
THEOREM LivePortsDisjoint == Spec => []NoPortClash
<1>1. StopsOK /\ Ownership => NoPortClash
  <2> SUFFICES ASSUME StopsOK, Ownership PROVE NoPortClash
    OBVIOUS
  <2>1. \A p \in Procs : IsRunning(p) /\ Unasked(p) => Owns(p)
    BY DEF StopsOK, UnownedHarmless, Harmless, CanRun, IsRunning
  <2> QED
    BY <2>1 DEF NoPortClash, Ownership
<1> QED
  BY <1>1, SpecStops, SpecOwnership, PTL

(* A live process that has left the map, or never got there, and has no    *)
(* ports any more has been asked to stop.                                  *)
OrphansWereAsked == \A p \in Procs : IsRunning(p) => Owns(p) \/ ~Unasked(p)

(* How far the orphans go that ProcessReplace and ProcessDelete leave      *)
(* behind (LiveIsOwned does not hold): nobody forgets a process that is    *)
(* meant to go on.  (process_manager.go:501-508, 533-552)                  *)
THEOREM NobodyIsForgotten == Spec => []OrphansWereAsked
<1>1. StopsOK => OrphansWereAsked
  BY DEF StopsOK, UnownedHarmless, Harmless, CanRun, IsRunning, OrphansWereAsked
<1> QED
  BY <1>1, SpecStops, PTL

-----------------------------------------------------------------------------
(* Log files get closed.                                                   *)

Open(p) == logger[p] = "open"

(* The file of p is closed, or will be by whoever stops p.                 *)
Told(p) == Open(p) => ~Unasked(p)

(* A stopper goroutine, which closes the file when it ends, runs or is     *)
(* about to be spawned.                                                    *)
CloserComes(p) ==
    \/ \E s \in StopperPC : stoppers[p][s] > 0
    \/ prober[p] \in {"send_stop", "send_kill"}
    \/ \E t \in Callers : \/ pc[t] \in AskedObjPC /\ obj[t] = p
                          \/ pc[t] = "replace_send_old" /\ old[t] = p

CloserOK(p) ==
    /\ Open(p) /\ ~Unasked(p) => CloserComes(p)
    /\ state[p] = "none" => Unasked(p)

(* Handlers inside StopWithSignal(obj), after its decision, or behind it.  *)
ToldObjPC == {"delete_send", "delete_unregister", "cleanup_send", "cleanup_release"}

UnregTold(p) == unreg[p]["wait"] > 0 \/ unreg[p]["seen"] > 0 \/ unreg[p]["remove"] > 0 => Told(p)

HandlerTold(t) ==
    /\ pc[t] \in ToldObjPC => Told(obj[t])
    /\ pc[t] \in HarmlessOldPC => Told(old[t])

UnownedTold == \A p \in Procs : ~Owns(p) => Told(p)

ClosersOK == \A p \in Procs : CloserOK(p)

(* A log file is opened by the construction of its process only.           *)
OpensNone == \A p \in Procs : Open(p)' => Open(p) \/ (~Constructed(p) /\ Owns(p)')

ToldStays == \A p \in Procs : Told(p) /\ (Constructed(p) \/ ~Owns(p)') => Told(p)'

LEMMA ToldStable ==
    ASSUME Monotone, OpensNone
    PROVE  ToldStays
  BY DEF Monotone, OpensNone, ToldStays, Told

LEMMA ProcessOpensNone ==
    ASSUME Inv, NEW p \in Procs, GoroutineStep(p) \/ EnvironmentStep(p)
    PROVE  OpensNone
<1> USE DEF Inv, TypeOK, ProcTypeOK, OpensNone, Open
<1>1. CASE RunnerStep(p) \/ RunnerSend(p) \/ EnvironmentStep(p)
  BY <1>1 DEF RunnerStep, RunnerFork, RunnerForkFails, RunnerRecord, RunnerSend, EnvironmentStep,
              CmdExit, DeletionExpires
<1>2. CASE ProberStep(p) \/ ProbeSend(p) \/ ProbeSpawn(p)
  BY <1>2 DEF ProberStep, ProbeReady, ProbeFails, ProbeRunning, ProbeCheck, ProbeStop, StopLocked,
              ProbeSend, ProbeSpawn, SpawnStopper
<1>3. CASE StopperStep(p)
  BY <1>3 DEF StopperStep, StopperNotRunning, StopperMark, StopperSignal, StopperWaitDone,
              StopperKill, EndStopper, MoveStopper
<1> QED
  BY <1>1, <1>2, <1>3 DEF GoroutineStep

LEMMA NextOpensNone == Inv /\ [Next]_vars => OpensNone
<1> SUFFICES ASSUME Inv, [Next]_vars PROVE OpensNone
  OBVIOUS
<1>1. ASSUME UNCHANGED logger PROVE OpensNone
  BY <1>1 DEF OpensNone, Open
<1>2. CASE UNCHANGED vars
  BY <1>1, <1>2 DEF vars, procVars
<1>3. ASSUME NEW t \in Callers, CallRPC(t)
      PROVE  OpensNone
  <2>1. ASSUME NEW p \in Procs, NEW b \in Blocks, CreateRegister(t, p, b) \/ ReplaceInit(t, p, b)
        PROVE  OpensNone
    <3>1. Owns(p)' /\ ~Constructed(p)
      BY <2>1, CreateTakes, ReplaceTakes DEF CreateRegister, ReplaceInit, Construct, Constructed, Takes
    <3>2. \A q \in Procs : q # p => logger'[q] = logger[q]
      BY <2>1 DEF CreateRegister, ReplaceInit, Construct, Inv, TypeOK, ProcTypeOK
    <3> QED
      BY <3>1, <3>2 DEF OpensNone, Open
  <2> QED
    BY <1>1, <1>3, <2>1 DEF CallRPC, DeleteFind, Refuse, vars, procVars
<1>4. ASSUME NEW t \in Callers, HandlerStep(t)
      PROVE  OpensNone
  <2>1. CASE DeleteStop(t) \/ ReplaceStopOld(t) \/ CleanupStop(t)
    BY <2>1 DEF DeleteStop, ReplaceStopOld, CleanupStop, CallStop, StopLocked, OpensNone, Open,
                Inv, TypeOK, ProcTypeOK
  <2>2. CASE ReplaceSame(t)
    BY <2>2 DEF ReplaceSame, OpensNone, Open, Inv, TypeOK, ProcTypeOK
  <2>3. CASE CreateStep(t) \/ DeleteSend(t) \/ DeleteUnregister(t)
    BY <1>1, <2>3 DEF CreateStep, CreateSend, SendAndGoto, CreateStart, StartOK, StartError,
                      CreateSendError, DeleteSend, CallSpawn, SpawnStopper, DeleteUnregister, procVars
  <2>4. CASE \/ ReplaceStart(t) \/ ReplacePoll(t) \/ ReplaceSendOld(t) \/ ReplaceLock(t)
             \/ ReplaceCommit(t) \/ ReplaceSend(t) \/ CleanupSend(t) \/ CleanupRelease(t)
    BY <1>1, <2>4 DEF ReplaceStart, StartOK, StartError, ReplacePoll, ReplaceSendOld, CallSpawn,
                      SpawnStopper, ReplaceLock, ReplaceCommit, ReplaceSend, CleanupSend,
                      CleanupRelease, procVars
  <2> QED
    BY <1>4, <2>1, <2>2, <2>3, <2>4 DEF HandlerStep, DeleteStep, ReplaceStep
<1>5. ASSUME NEW p \in Procs, GoroutineStep(p) \/ EnvironmentStep(p)
      PROVE  OpensNone
  BY <1>5, ProcessOpensNone
<1>6. ASSUME NEW p \in Procs, UnregStep(p) \/ CheckSend(p)
      PROVE  OpensNone
  BY <1>1, <1>6 DEF UnregStep, UnregStopped, UnregCheck, MoveUnreg, UnregGiveUp, UnregRemove, UnregSend, CheckSend, procVars
<1>7. CASE MonitorStep \/ CheckMountPoints
  BY <1>1, <1>7 DEF MonitorStep, MonitorRespond, MonitorBroadcast, CheckMountPoints, procVars
<1> QED
  BY <1>2, <1>3, <1>4, <1>5, <1>6, <1>7 DEF Next

(* StopWithSignal sees to the log file: it has somebody stop the process,  *)
(* or closes the file itself.                                              *)
LEMMA StopLockedTells ==
    ASSUME Inv, NEW p \in Procs, ProcStop(p), StopLocked(p)
    PROVE  Told(p)'
<1> USE DEF Inv, TypeOK, ProcTypeOK, Told, Open, Unasked
<1>1. CASE NeedStop(p)
  BY <1>1 DEF StopLocked
<1>2. CASE ~NeedStop(p) /\ delTS[p] # "nil"
  BY <1>2 DEF StopLocked
<1>3. CASE ~NeedStop(p) /\ delTS[p] = "nil"
  <2>1. IsStopped(p)
    BY <1>3 DEF NeedStop, ProcStop, IsStopped
  <2>2. NeedCloseLogger(p)
    BY <1>3, <2>1 DEF NeedCloseLogger, NeedTimeoutKill
  <2> QED
    BY <2>2 DEF StopLocked
<1> QED
  BY <1>1, <1>2, <1>3

(* No prober before the command.                                           *)
ProbersOK == \A p \in Procs : cmd[p] = "nil" => prober[p] = "none"

LEMMA NextProbers == Inv /\ StartInv /\ ProbersOK /\ [Next]_vars => ProbersOK'
<1> SUFFICES ASSUME Inv, StartInv, ProbersOK, [Next]_vars PROVE ProbersOK'
  OBVIOUS
<1> USE DEF Inv, TypeOK, ProcTypeOK
<1>1. ASSUME UNCHANGED <<cmd, prober>> PROVE ProbersOK'
  BY <1>1 DEF ProbersOK
<1>2. CASE UNCHANGED vars
  BY <1>1, <1>2 DEF vars, procVars
<1>3. ASSUME NEW t \in Callers, CallRPC(t)
      PROVE  ProbersOK'
  BY <1>1, <1>3 DEF CallRPC, CreateRegister, ReplaceInit, Construct, DeleteFind, Refuse, vars, procVars
<1>4. ASSUME NEW t \in Callers, HandlerStep(t)
      PROVE  ProbersOK'
  <2>1. CASE CreateStart(t) \/ ReplaceStart(t)
    BY <1>1, <2>1 DEF CreateStart, ReplaceStart, StartOK, StartError, ProbersOK
  <2>2. CASE CreateSend(t) \/ CreateSendError(t) \/ DeleteStep(t)
    BY <1>1, <2>2 DEF CreateSend, SendAndGoto, CreateSendError, DeleteStep, DeleteStop, CallStop,
                      StopLocked, DeleteSend, CallSpawn, SpawnStopper, DeleteUnregister, procVars
  <2>3. CASE ReplaceStep(t) /\ ~ReplaceStart(t)
    BY <1>1, <2>3 DEF ReplaceStep, ReplaceSame, ReplacePoll, ReplaceStopOld, ReplaceSendOld, CallStop,
                      StopLocked, CallSpawn, SpawnStopper, ReplaceLock, ReplaceCommit, ReplaceSend,
                      CleanupStop, CleanupSend, CleanupRelease, procVars
  <2> QED
    BY <1>4, <2>1, <2>2, <2>3 DEF HandlerStep, CreateStep
<1>5. ASSUME NEW p \in Procs, GoroutineStep(p) \/ EnvironmentStep(p)
      PROVE  ProbersOK'
  <2>1. CASE RunnerStep(p) \/ RunnerSend(p) \/ EnvironmentStep(p)
    BY <2>1 DEF RunnerStep, RunnerFork, RunnerForkFails, RunnerRecord, RunnerSend, EnvironmentStep,
                CmdExit, DeletionExpires, ProbersOK
  <2>2. CASE ProberStep(p) \/ ProbeSend(p) \/ ProbeSpawn(p)
    BY <2>2 DEF ProberStep, ProbeReady, ProbeFails, ProbeRunning, ProbeCheck, ProbeStop, StopLocked,
                ProbeSend, ProbeSpawn, SpawnStopper, ProbersOK
  <2>3. CASE StopperStep(p)
    BY <1>1, <2>3 DEF StopperStep, StopperNotRunning, StopperMark, StopperSignal, StopperWaitDone,
                      StopperKill, EndStopper, MoveStopper
  <2> QED
    BY <1>5, <2>1, <2>2, <2>3 DEF GoroutineStep
<1>6. ASSUME NEW p \in Procs, UnregStep(p) \/ CheckSend(p)
      PROVE  ProbersOK'
  BY <1>1, <1>6 DEF UnregStep, UnregStopped, UnregCheck, MoveUnreg, UnregGiveUp, UnregRemove, UnregSend, CheckSend, procVars
<1>7. CASE MonitorStep \/ CheckMountPoints
  BY <1>1, <1>7 DEF MonitorStep, MonitorRespond, MonitorBroadcast, CheckMountPoints, procVars
<1> QED
  BY <1>2, <1>3, <1>4, <1>5, <1>6, <1>7 DEF Next

(* The steps that do not ask p to stop, and leave a closer where there is  *)
(* one.                                                                    *)
LEMMA CloserKept ==
    ASSUME Monotone, OpensNone, NEW p \in Procs, CloserOK(p),
           ~Unasked(p)' => ~Unasked(p), CloserComes(p) => CloserComes(p)'
    PROVE  CloserOK(p)'
<1>1. ~Unasked(p)' => Constructed(p) /\ Constructed(p)'
  BY DEF CloserOK, Constructed, Monotone
<1> QED
  BY <1>1 DEF CloserOK, OpensNone, Constructed

SenderPC == AskedObjPC \cup {"replace_send_old"}

(* Whoever is about to spawn a stopper stays.                              *)
SendersStay == \A u \in Callers : pc[u] \in SenderPC => SameHandler(u)

LEMMA CloserStays ==
    ASSUME SendersStay, NEW p \in Procs, stoppers'[p] = stoppers[p],
           prober[p] \in {"send_stop", "send_kill"} => prober'[p] = prober[p]
    PROVE  CloserComes(p) => CloserComes(p)'
  BY DEF SendersStay, CloserComes, SenderPC, SameHandler

LEMMA QuietClosers ==
    ASSUME Monotone, OpensNone, ClosersOK, SendersStay, UNCHANGED <<delTS, stoppers>>,
           \A p \in Procs : prober[p] \in {"send_stop", "send_kill"} => prober'[p] = prober[p]
    PROVE  ClosersOK'
<1> SUFFICES ASSUME NEW p \in Procs PROVE CloserOK(p)'
  BY DEF ClosersOK
<1> QED
  BY CloserKept, CloserStays DEF ClosersOK, Unasked

(* StopWithSignal: who is asked to stop now is about to get a stopper.     *)
LEMMA StopLockedCloser ==
    ASSUME Inv, Monotone, OpensNone, NEW p \in Procs, Constructed(p), CloserOK(p), StopLocked(p),
           CloserComes(p) => CloserComes(p)', StopMode(p) # "none" => CloserComes(p)'
    PROVE  CloserOK(p)'
<1>1. CASE NeedStop(p)
  <2>1. Constructed(p)' /\ CloserComes(p)'
    BY <1>1 DEF Monotone, StopMode
  <2> QED
    BY <2>1 DEF CloserOK, Constructed
<1>2. CASE ~NeedStop(p)
  <2>1. delTS'[p] = delTS[p]
    BY <1>2 DEF StopLocked, Inv, TypeOK, ProcTypeOK
  <2> QED
    BY <2>1, CloserKept DEF Unasked
<1> QED
  BY <1>1, <1>2

LEMMA CallStopClosers ==
    ASSUME Inv, Monotone, OpensNone, ClosersOK, NEW t \in Callers, NEW p \in Procs, Constructed(p),
           NEW s1, NEW s2, CallStop(t, p, s1, s2), pc[t] \notin SenderPC,
           \/ s1 \in AskedObjPC /\ obj[t] = p
           \/ s1 = "replace_send_old" /\ old[t] = p
    PROVE  ClosersOK'
<1>1. /\ UNCHANGED <<stoppers, prober, obj, old>> /\ StopLocked(p)
      /\ \A q \in Procs : q # p => delTS'[q] = delTS[q]
  BY DEF CallStop, StopLocked, Inv, TypeOK, ProcTypeOK
<1>2. /\ pc'[t] = IF StopMode(p) = "none" THEN s2 ELSE s1
      /\ \A u \in Callers : u # t => pc'[u] = pc[u]
  BY DEF CallStop, Goto, Inv, TypeOK
<1>3. SendersStay
  BY <1>1, <1>2 DEF SendersStay, SameHandler
<1>4. \A q \in Procs : CloserComes(q) => CloserComes(q)'
  BY <1>1, <1>3, CloserStays
<1>5. \A q \in Procs : q # p => CloserOK(q)'
  BY <1>1, <1>4, CloserKept DEF ClosersOK, Unasked
<1>6. StopMode(p) # "none" => CloserComes(p)'
  BY <1>1, <1>2 DEF CloserComes
<1>7. CloserOK(p)'
  BY <1>1, <1>4, <1>6, StopLockedCloser DEF ClosersOK
<1> QED
  BY <1>5, <1>7 DEF ClosersOK

(* A spawned stopper is a closer.                                          *)
LEMMA SpawnedCloser ==
    ASSUME Inv, NEW p \in Procs, NEW m \in {"stop", "kill"}, SpawnStopper(p, m)
    PROVE  /\ UNCHANGED <<delTS, state>> /\ CloserComes(p)'
           /\ \A q \in Procs : q # p => stoppers'[q] = stoppers[q]
<1>1. PICK s \in StopperPC : stoppers' = [stoppers EXCEPT ![p][s] = @ + 1]
  BY DEF SpawnStopper, StopperPC
<1>2. stoppers[p][s] \in 0 .. MaxStoppers /\ stoppers \in [Procs -> [StopperPC -> 0 .. MaxStoppers]]
  BY DEF Inv, TypeOK, ProcTypeOK
<1>3. stoppers'[p][s] = stoppers[p][s] + 1 /\ MaxStoppers \in Nat
  BY <1>1, <1>2, MaxStoppersAssumption
<1>4. stoppers'[p][s] > 0
  BY <1>2, <1>3
<1> QED
  BY <1>1, <1>2, <1>4 DEF SpawnStopper, CloserComes

LEMMA CallSpawnClosers ==
    ASSUME Inv, Monotone, OpensNone, ClosersOK, NEW t \in Callers, NEW p \in Procs, Constructed(p),
           NEW s, CallSpawn(t, p, s), mode[t] # "none",
           \/ pc[t] \in AskedObjPC /\ obj[t] = p
           \/ pc[t] = "replace_send_old" /\ old[t] = p
    PROVE  ClosersOK'
<1>1. mode[t] \in {"stop", "kill"}
  BY DEF Inv, TypeOK
<1>2. /\ UNCHANGED <<delTS, state, prober, obj, old>> /\ CloserComes(p)'
      /\ \A q \in Procs : q # p => stoppers'[q] = stoppers[q]
  BY <1>1, SpawnedCloser DEF CallSpawn
<1>3. \A u \in Callers : u # t => pc'[u] = pc[u]
  BY DEF CallSpawn, Goto, Inv, TypeOK
<1>4. "replace_send_old" \notin AskedObjPC
  BY DEF AskedObjPC
<1>5. \A q \in Procs : CloserComes(q) => CloserComes(q)'
  BY <1>2, <1>3, <1>4 DEF CloserComes
<1> QED
  BY <1>2, <1>5, CloserKept DEF ClosersOK, Unasked

ModesOK == \A t \in Callers : pc[t] \in SenderPC => mode[t] # "none"

(* The handler t alone moves.                                              *)
OnlyMoves(t) == \A u \in Callers : u # t => SameHandler(u) /\ mode'[u] = mode[u]

LEMMA HandlerMoves ==
    ASSUME Inv, NEW t \in Callers, CallRPC(t) \/ HandlerStep(t)
    PROVE  OnlyMoves(t)
<1> USE DEF OnlyMoves, SameHandler, Goto, Inv, TypeOK
<1>1. ASSUME Finish(t) PROVE OnlyMoves(t)
  BY <1>1 DEF Finish
<1>2. ASSUME NEW s, Goto(t, s), UNCHANGED <<obj, old, mode>> PROVE OnlyMoves(t)
  BY <1>2
<1>3. ASSUME NEW p, NEW s1, NEW s2, CallStop(t, p, s1, s2) PROVE OnlyMoves(t)
  BY <1>3 DEF CallStop
<1>4. ASSUME NEW p, NEW s, CallSpawn(t, p, s) PROVE OnlyMoves(t)
  BY <1>4 DEF CallSpawn
<1>5. CASE CallRPC(t)
  BY <1>5 DEF CallRPC, CreateRegister, ReplaceInit, DeleteFind, Refuse, vars, pmVars
<1> HIDE DEF OnlyMoves, SameHandler, Goto, Inv, TypeOK
<1>6. CASE CreateStep(t) \/ DeleteStep(t)
  BY <1>1, <1>2, <1>3, <1>4, <1>6
     DEF CreateStep, CreateSend, SendAndGoto, CreateStart, CreateSendError,
         DeleteStep, DeleteStop, DeleteSend, DeleteUnregister
<1>7. CASE ReplaceStep(t)
  <2>1. CASE ReplaceSame(t) \/ ReplaceSend(t) \/ CleanupRelease(t)
    BY <1>1, <2>1 DEF ReplaceSame, ReplaceSend, CleanupRelease
  <2>2. CASE ReplaceStart(t) \/ ReplacePoll(t) \/ ReplaceLock(t) \/ ReplaceCommit(t)
    BY <1>2, <2>2 DEF ReplaceStart, ReplacePoll, ReplaceLock, ReplaceCommit
  <2>3. CASE ReplaceStopOld(t) \/ ReplaceSendOld(t) \/ CleanupStop(t) \/ CleanupSend(t)
    BY <1>3, <1>4, <2>3 DEF ReplaceStopOld, ReplaceSendOld, CleanupStop, CleanupSend
  <2> QED
    BY <1>7, <2>1, <2>2, <2>3 DEF ReplaceStep
<1> QED
  BY <1>5, <1>6, <1>7 DEF HandlerStep

(* What the handlers know about log files.                                 *)
TellersOK == ModesOK /\ \A t \in Callers : HandlerTold(t)

LEMMA TellersKept ==
    ASSUME Inv, ToldStays, NEW t \in Callers, HandlerTold(t), obj'[t] = obj[t], old'[t] = old[t],
           pc'[t] \in ToldObjPC => pc[t] \in ToldObjPC,
           pc'[t] \in HarmlessOldPC => pc[t] \in HarmlessOldPC
    PROVE  HandlerTold(t)'
<1>1. pc[t] \in ToldObjPC => Constructed(obj[t]) /\ obj[t] \in Procs
  BY HandlerObj DEF Constructed, ToldObjPC
<1>2. pc[t] \in HarmlessOldPC => Constructed(old[t]) /\ old[t] \in Procs
  BY ReplaceOld DEF Constructed, HarmlessOldPC, ReplacePC
<1> QED
  BY <1>1, <1>2 DEF HandlerTold, ToldStays

LEMMA TellersStep ==
    ASSUME Inv, ToldStays, TellersOK, NEW t \in Callers, OnlyMoves(t), HandlerTold(t)',
           pc'[t] \in SenderPC => mode'[t] # "none"
    PROVE  TellersOK'
<1>1. \A u \in Callers : u # t => HandlerTold(u)'
  BY TellersKept DEF OnlyMoves, SameHandler, TellersOK
<1>2. ModesOK'
  BY DEF ModesOK, OnlyMoves, SameHandler, TellersOK
<1> QED
  BY <1>1, <1>2 DEF TellersOK

(* A handler that goes where nothing is required.                          *)
LEMMA FreeTeller ==
    ASSUME Inv, ToldStays, TellersOK, NEW t \in Callers, OnlyMoves(t), NEW s, Goto(t, s),
           s \notin ToldObjPC \cup HarmlessOldPC
    PROVE  TellersOK'
<1>1. pc'[t] = s
  BY DEF Goto, Inv, TypeOK
<1>2. HandlerTold(t)' /\ pc'[t] \notin SenderPC
  BY <1>1 DEF HandlerTold, SenderPC, AskedObjPC, ToldObjPC, HarmlessOldPC
<1> QED
  BY <1>2, TellersStep

LEMMA CallStopTells ==
    ASSUME Inv, StopsOK, ToldStays, TellersOK, NEW t \in Callers, OnlyMoves(t),
           NEW p \in Procs, NEW s1, NEW s2, CallStop(t, p, s1, s2),
           \/ s1 \in ToldObjPC /\ s2 \in ToldObjPC /\ s2 \notin SenderPC /\ obj[t] = p
           \/ s1 = "replace_send_old" /\ s2 = "replace_lock" /\ old[t] = p
    PROVE  TellersOK'
<1>1. Told(p)'
  BY StopLockedTells DEF CallStop, StopsOK
<1>2. /\ UNCHANGED <<obj, old>>
      /\ pc'[t] = IF StopMode(p) = "none" THEN s2 ELSE s1
      /\ mode'[t] = StopMode(p)
  BY DEF CallStop, Goto, Inv, TypeOK
<1>3. HandlerTold(t)'
  BY <1>1, <1>2 DEF HandlerTold, ToldObjPC, HarmlessOldPC
<1>4. pc'[t] \in SenderPC => mode'[t] # "none"
  BY <1>2 DEF SenderPC, AskedObjPC
<1> QED
  BY <1>3, <1>4, TellersStep

LEMMA HandlerTells ==
    ASSUME Inv, StopsOK, ToldStays, TellersOK, NEW t \in Callers, CallRPC(t) \/ HandlerStep(t)
    PROVE  TellersOK'
<1> USE DEF ToldObjPC, HarmlessOldPC
<1>0. OnlyMoves(t) /\ HandlerTold(t)
  BY HandlerMoves DEF TellersOK
<1>1. ASSUME NEW s, Goto(t, s), s \notin ToldObjPC \cup HarmlessOldPC PROVE TellersOK'
  BY <1>0, <1>1, FreeTeller
<1>2. ASSUME UNCHANGED <<obj, old>>, NEW s, Goto(t, s), s \notin SenderPC,
             s \in ToldObjPC => pc[t] \in ToldObjPC, s \in HarmlessOldPC => pc[t] \in HarmlessOldPC
      PROVE  TellersOK'
  <2>1. pc'[t] = s
    BY <1>2 DEF Goto, Inv, TypeOK
  <2>2. HandlerTold(t)'
    BY <1>0, <1>2, <2>1, TellersKept
  <2> QED
    BY <1>0, <1>2, <2>1, <2>2, TellersStep
<1>3. CASE CallRPC(t)
  <2>1. CASE Refuse(t)
    <3>1. UNCHANGED <<pc, obj, old, mode>>
      BY <2>1 DEF Refuse, vars, pmVars
    <3> QED
      BY <3>1, TellersKept DEF TellersOK, ModesOK
  <2>2. CASE ~Refuse(t)
    <3>1. PICK s \in {"create_send", "delete_stop", "replace_same", "replace_start"} : Goto(t, s)
      BY <1>3, <2>2 DEF CallRPC, CreateRegister, ReplaceInit, DeleteFind
    <3> QED
      BY <1>1, <3>1
  <2> QED
    BY <2>1, <2>2
<1>4. CASE CreateStep(t)
  <2>1. PICK s \in {"create_start", "create_send_error", "idle"} : Goto(t, s)
    BY <1>4 DEF CreateStep, CreateSend, SendAndGoto, CreateStart, CreateSendError, Finish
  <2> QED
    BY <1>1, <2>1
<1>5. CASE DeleteStop(t) \/ CleanupStop(t)
  <2>1. PICK p \in Procs : obj[t] = p
    BY <1>5, HandlerObj DEF DeleteStop, CleanupStop
  <2> QED
    BY <1>0, <1>5, <2>1, CallStopTells DEF DeleteStop, CleanupStop, SenderPC, AskedObjPC
<1>6. CASE ReplaceStopOld(t)
  <2>1. PICK p \in Procs : old[t] = p
    BY <1>6, ReplaceOld DEF ReplaceStopOld, ReplacePC
  <2> QED
    BY <1>0, <1>6, <2>1, CallStopTells DEF ReplaceStopOld
<1>7. CASE DeleteSend(t) \/ CleanupSend(t) \/ ReplaceSendOld(t) \/ ReplaceLock(t)
  <2>1. UNCHANGED <<obj, old>>
    BY <1>7 DEF DeleteSend, CleanupSend, ReplaceSendOld, ReplaceLock, CallSpawn
  <2>2. \/ Goto(t, "delete_unregister") /\ pc[t] = "delete_send"
        \/ Goto(t, "cleanup_release") /\ pc[t] = "cleanup_send"
        \/ Goto(t, "replace_lock") /\ pc[t] = "replace_send_old"
        \/ Goto(t, "replace_commit") /\ pc[t] = "replace_lock"
    BY <1>7 DEF DeleteSend, CleanupSend, ReplaceSendOld, ReplaceLock, CallSpawn
  <2> QED
    BY <1>2, <2>1, <2>2 DEF SenderPC, AskedObjPC
<1>8. CASE DeleteUnregister(t)
  BY <1>1, <1>8 DEF DeleteUnregister, Finish
<1>9. CASE \/ ReplaceSame(t) \/ ReplaceStart(t) \/ ReplacePoll(t) \/ ReplaceCommit(t)
           \/ ReplaceSend(t) \/ CleanupRelease(t)
  <2>1. PICK s \in {"idle", "replace_poll", "cleanup_stop", "replace_stop_old", "replace_send"} :
           Goto(t, s)
    BY <1>9 DEF ReplaceSame, ReplaceStart, ReplacePoll, ReplaceCommit, ReplaceSend, CleanupRelease,
                Finish
  <2> QED
    BY <1>1, <2>1
<1> QED
  BY <1>3, <1>4, <1>5, <1>6, <1>7, <1>8, <1>9 DEF HandlerStep, DeleteStep, ReplaceStep

LEMMA HandlerClosers ==
    ASSUME Inv, StartInv, Monotone, OpensNone, ClosersOK, ProbersOK, ModesOK,
           NEW t \in Callers, CallRPC(t) \/ HandlerStep(t)
    PROVE  ClosersOK'
<1> USE DEF SenderPC, AskedObjPC
<1>0. OnlyMoves(t)
  BY HandlerMoves
<1>1. ASSUME pc[t] \notin SenderPC, UNCHANGED <<delTS, stoppers, prober>>
      PROVE  ClosersOK'
  BY <1>0, <1>1, QuietClosers DEF OnlyMoves, SendersStay
<1>2. CASE CallRPC(t)
  <2>1. CASE Refuse(t)
    BY <1>1, <2>1 DEF Refuse, vars, procVars
  <2>2. CASE ~Refuse(t)
    BY <1>1, <1>2, <2>2 DEF CallRPC, CreateRegister, ReplaceInit, Construct, DeleteFind, procVars
  <2> QED
    BY <2>1, <2>2
<1>3. CASE CreateStart(t) \/ ReplaceStart(t)
  <2>1. pc[t] \in StartPC
    BY <1>3 DEF CreateStart, ReplaceStart, StartPC
  <2>2. PICK p \in Procs : obj[t] = p
    BY <2>1, HandlerObj DEF StartPC
  <2>3. prober[p] = "none" /\ pc[t] \notin SenderPC
    BY <2>1, <2>2 DEF StartInv, StartsOK, ProbersOK, StartPC
  <2>4. /\ UNCHANGED <<delTS, stoppers>>
        /\ \A q \in Procs : q # p => prober'[q] = prober[q]
    BY <1>3, <2>2 DEF CreateStart, ReplaceStart, StartOK, StartError, Inv, TypeOK, ProcTypeOK
  <2> QED
    BY <1>0, <2>3, <2>4, QuietClosers DEF OnlyMoves, SendersStay
<1>4. CASE CreateSend(t) \/ CreateSendError(t) \/ DeleteUnregister(t)
  BY <1>1, <1>4 DEF CreateSend, SendAndGoto, CreateSendError, DeleteUnregister, procVars
<1>5. CASE DeleteStop(t) \/ CleanupStop(t)
  <2>1. PICK p \in Procs : obj[t] = p /\ Constructed(p)
    BY <1>5, HandlerObj DEF DeleteStop, CleanupStop, Constructed
  <2> QED
    BY <1>5, <2>1, CallStopClosers DEF DeleteStop, CleanupStop
<1>6. CASE DeleteSend(t) \/ CleanupSend(t)
  <2>1. PICK p \in Procs : obj[t] = p /\ Constructed(p)
    BY <1>6, HandlerObj DEF DeleteSend, CleanupSend, Constructed
  <2>2. mode[t] # "none"
    BY <1>6 DEF ModesOK, DeleteSend, CleanupSend
  <2> QED
    BY <1>6, <2>1, <2>2, CallSpawnClosers DEF DeleteSend, CleanupSend
<1>7. CASE ReplaceStopOld(t) \/ ReplaceSendOld(t)
  <2>1. PICK p \in Procs : old[t] = p /\ Constructed(p)
    BY <1>7, ReplaceOld DEF ReplaceStopOld, ReplaceSendOld, ReplacePC, Constructed
  <2>2. CASE ReplaceStopOld(t)
    BY <2>1, <2>2, CallStopClosers DEF ReplaceStopOld
  <2>3. CASE ReplaceSendOld(t)
    BY <2>1, <2>3, CallSpawnClosers DEF ReplaceSendOld, ModesOK
  <2> QED
    BY <1>7, <2>2, <2>3
<1>8. CASE \/ ReplaceSame(t) \/ ReplacePoll(t) \/ ReplaceLock(t) \/ ReplaceCommit(t)
           \/ ReplaceSend(t) \/ CleanupRelease(t)
  BY <1>1, <1>8 DEF ReplaceSame, ReplacePoll, ReplaceLock, ReplaceCommit, ReplaceSend,
                    CleanupRelease, procVars
<1> QED
  BY <1>2, <1>3, <1>4, <1>5, <1>6, <1>7, <1>8 DEF HandlerStep, CreateStep, DeleteStep, ReplaceStep

LEMMA StopperCloser ==
    ASSUME Inv, Monotone, OpensNone, NEW p \in Procs, CloserOK(p), StopperStep(p)
    PROVE  CloserOK(p)' /\ \A q \in Procs : q # p => stoppers'[q] = stoppers[q]
<1> USE DEF Inv, TypeOK, ProcTypeOK
<1>0. UNCHANGED <<delTS, prober>> /\ \A q \in Procs : q # p => stoppers'[q] = stoppers[q]
  BY DEF StopperStep, StopperNotRunning, StopperMark, StopperSignal, StopperWaitDone,
         StopperKill, EndStopper, MoveStopper
<1>1. \/ \E s \in StopperPC : EndStopper(p, s)
      \/ \E s, r \in StopperPC : s # r /\ MoveStopper(p, s, r)
  BY DEF StopperStep, StopperNotRunning, StopperMark, StopperSignal, StopperWaitDone,
         StopperKill, StopperPC
<1>2. ~Unasked(p)' => ~Unasked(p)
  BY <1>0 DEF Unasked
<1>3. ASSUME NEW s \in StopperPC, EndStopper(p, s)
      PROVE  CloserOK(p)'
  <2>1. ~Open(p)'
    BY <1>3 DEF EndStopper, Open
  <2>2. ~Unasked(p)' => Constructed(p)'
    BY <1>2 DEF CloserOK, Constructed, Monotone
  <2> QED
    BY <2>1, <2>2 DEF CloserOK, Constructed
<1>4. ASSUME NEW s \in StopperPC, NEW r \in StopperPC, s # r, MoveStopper(p, s, r)
      PROVE  CloserOK(p)'
  <2>1. stoppers[p][r] \in 0 .. MaxStoppers /\ MaxStoppers \in Nat
    BY MaxStoppersAssumption
  <2>2. stoppers'[p][r] = stoppers[p][r] + 1
    BY <1>4 DEF MoveStopper
  <2>3. stoppers'[p][r] > 0
    BY <2>1, <2>2
  <2> QED
    BY <1>2, <2>3, CloserKept DEF CloserComes
<1> QED
  BY <1>0, <1>1, <1>3, <1>4

LEMMA ProcessClosers ==
    ASSUME Inv, StartInv, Monotone, OpensNone, ClosersOK, ProbersOK, NEW p \in Procs,
           GoroutineStep(p) \/ EnvironmentStep(p), UNCHANGED pmVars
    PROVE  ClosersOK'
<1> USE DEF Inv, TypeOK, ProcTypeOK
<1>0. SendersStay
  BY DEF SendersStay, SameHandler, pmVars
<1>1. ASSUME NEW q \in Procs, stoppers'[q] = stoppers[q], prober'[q] = prober[q],
             ~Unasked(q)' => ~Unasked(q)
      PROVE  CloserOK(q)'
  BY <1>0, <1>1, CloserStays, CloserKept DEF ClosersOK
<1>2. CASE RunnerStep(p) \/ RunnerSend(p) \/ EnvironmentStep(p)
  <2>1. UNCHANGED <<stoppers, prober>> /\ \A q \in Procs : ~Unasked(q)' => ~Unasked(q)
    BY <1>2 DEF RunnerStep, RunnerFork, RunnerForkFails, RunnerRecord, RunnerSend, EnvironmentStep,
                CmdExit, DeletionExpires, Unasked
  <2> QED
    BY <1>1, <2>1 DEF ClosersOK
<1>3. CASE ProbeReady(p) \/ ProbeFails(p) \/ ProbeRunning(p) \/ ProbeCheck(p) \/ ProbeSend(p)
  <2>1. /\ UNCHANGED <<delTS, stoppers>>
        /\ \A q \in Procs : prober[q] \in {"send_stop", "send_kill"} => prober'[q] = prober[q]
    BY <1>3 DEF ProbeReady, ProbeFails, ProbeRunning, ProbeCheck, ProbeSend
  <2> QED
    BY <1>0, <2>1, QuietClosers
<1>4. CASE ProbeStop(p)
  <2>1. /\ UNCHANGED stoppers /\ StopLocked(p) /\ prober[p] = "stop"
        /\ \A q \in Procs : q # p => prober'[q] = prober[q] /\ delTS'[q] = delTS[q]
    BY <1>4 DEF ProbeStop, StopLocked
  <2>2. StopMode(p) # "none" => prober'[p] \in {"send_stop", "send_kill"}
    BY <1>4 DEF ProbeStop, StopMode
  <2>3. CloserComes(p) => CloserComes(p)'
    BY <1>0, <2>1, CloserStays
  <2>4. Constructed(p)
    BY <2>1 DEF ProbersOK, StartInv, CommandsOK, Constructed
  <2>5. CloserOK(p)'
    BY <2>1, <2>2, <2>3, <2>4, StopLockedCloser DEF CloserComes, ClosersOK
  <2> QED
    BY <1>1, <2>1, <2>5 DEF ClosersOK, Unasked
<1>5. CASE ProbeSpawn(p)
  <2>1. PICK m \in {"stop", "kill"} : SpawnStopper(p, m)
    BY <1>5 DEF ProbeSpawn
  <2>2. /\ UNCHANGED <<delTS, state>> /\ CloserComes(p)'
        /\ \A q \in Procs : q # p => stoppers'[q] = stoppers[q]
    BY <2>1, SpawnedCloser
  <2>3. \A q \in Procs : q # p => prober'[q] = prober[q]
    BY <1>5 DEF ProbeSpawn
  <2>4. CloserOK(p)'
    BY <2>2, CloserKept DEF ClosersOK, Unasked
  <2> QED
    BY <1>1, <2>2, <2>3, <2>4 DEF ClosersOK, Unasked
<1>6. CASE StopperStep(p)
  <2>1. UNCHANGED <<delTS, prober>>
    BY <1>6 DEF StopperStep, StopperNotRunning, StopperMark, StopperSignal, StopperWaitDone,
                StopperKill, EndStopper, MoveStopper
  <2> QED
    BY <1>1, <1>6, <2>1, StopperCloser DEF ClosersOK, Unasked
<1> QED
  BY <1>2, <1>3, <1>4, <1>5, <1>6 DEF GoroutineStep, ProberStep

(* An open log file will be closed, and one of a process that is given up  *)
(* or about to be belongs to a process that has been asked to stop.        *)
LogsOK ==
    /\ ProbersOK /\ ClosersOK
    /\ TellersOK
    /\ \A p \in Procs : UnregTold(p)
    /\ UnownedTold

LEMMA NextClosers ==
    ASSUME Inv, StartInv, LogsOK, Monotone, OpensNone, ToldStays, StopsOK, [Next]_vars
    PROVE  ClosersOK' /\ TellersOK'
<1> USE DEF LogsOK
<1>1. ASSUME UNCHANGED <<pc, obj, old, mode>> PROVE TellersOK' /\ SendersStay
  BY <1>1, TellersKept DEF TellersOK, ModesOK, SendersStay, SameHandler
<1>2. ASSUME UNCHANGED <<delTS, stoppers, prober, pc, obj, old, mode>>
      PROVE  ClosersOK' /\ TellersOK'
  BY <1>1, <1>2, QuietClosers
<1>3. CASE UNCHANGED vars
  BY <1>2, <1>3 DEF vars, procVars, pmVars
<1>4. ASSUME NEW t \in Callers, CallRPC(t) \/ HandlerStep(t)
      PROVE  ClosersOK' /\ TellersOK'
  BY <1>4, HandlerClosers, HandlerTells DEF TellersOK
<1>5. ASSUME NEW p \in Procs, GoroutineStep(p) \/ EnvironmentStep(p), UNCHANGED pmVars
      PROVE  ClosersOK' /\ TellersOK'
  BY <1>1, <1>5, ProcessClosers DEF pmVars
<1>6. ASSUME NEW p \in Procs, UnregStep(p) \/ CheckSend(p)
      PROVE  ClosersOK' /\ TellersOK'
  BY <1>2, <1>6 DEF UnregStep, UnregStopped, UnregCheck, MoveUnreg, UnregGiveUp, UnregRemove, UnregSend, CheckSend, procVars
<1>7. CASE MonitorStep \/ CheckMountPoints
  BY <1>2, <1>7 DEF MonitorStep, MonitorRespond, MonitorBroadcast, CheckMountPoints, procVars
<1> QED
  BY <1>3, <1>4, <1>5, <1>6, <1>7 DEF Next

(* An unregister goroutine comes from a handler that has stopped p.        *)
LEMMA NextUnregTold ==
    ASSUME Inv, StopsOK, LogsOK, Monotone, ToldStays, [Next]_vars, NEW p \in Procs
    PROVE  UnregTold(p)'
<1> DEFINE Waits == unreg[p]["wait"] > 0 \/ unreg[p]["seen"] > 0 \/ unreg[p]["remove"] > 0
<1>0. Waits => Told(p) /\ Constructed(p)
  BY DEF LogsOK, UnregTold, StopsOK, ProcStop
<1>1. ASSUME Waits' => Waits PROVE UnregTold(p)'
  BY <1>0, <1>1 DEF UnregTold, ToldStays
<1>2. ASSUME UNCHANGED unreg PROVE UnregTold(p)'
  BY <1>1, <1>2
<1>3. CASE UNCHANGED vars
  BY <1>2, <1>3 DEF vars, pmVars
<1>4. ASSUME NEW t \in Callers, CallRPC(t) \/ HandlerStep(t)
      PROVE  UnregTold(p)'
  <2>1. CASE DeleteUnregister(t)
    <3>1. CASE obj[t] = p
      <4>1. Told(p) /\ Constructed(p)
        BY <2>1, <3>1, HandlerObj
           DEF DeleteUnregister, LogsOK, TellersOK, HandlerTold, ToldObjPC, Constructed
      <4> QED
        BY <4>1 DEF UnregTold, ToldStays
    <3>2. CASE obj[t] # p
      <4>1. unreg'[p] = unreg[p]
        BY <2>1, <3>2 DEF DeleteUnregister, Inv, TypeOK
      <4> QED
        BY <1>1, <4>1
    <3> QED
      BY <3>1, <3>2
  <2>2. CASE CallRPC(t)
    BY <1>2, <2>2 DEF CallRPC, CreateRegister, ReplaceInit, DeleteFind, Refuse, Bystanders, vars, pmVars
  <2>3. CASE HandlerStep(t) /\ ~DeleteUnregister(t)
    <3>1. CASE CreateStep(t) \/ DeleteStop(t) \/ DeleteSend(t)
      BY <1>2, <3>1 DEF CreateStep, CreateSend, SendAndGoto, CreateStart, CreateSendError,
                        DeleteStop, DeleteSend, CallStop, CallSpawn, Bystanders
    <3>2. CASE ReplaceStep(t)
      BY <1>2, <3>2 DEF ReplaceStep, ReplaceSame, ReplaceStart, ReplacePoll, ReplaceStopOld,
                        ReplaceSendOld, CallStop, CallSpawn, ReplaceLock, ReplaceCommit, ReplaceSend,
                        CleanupStop, CleanupSend, CleanupRelease, Bystanders
    <3> QED
      BY <2>3, <3>1, <3>2 DEF HandlerStep, DeleteStep
  <2> QED
    BY <1>4, <2>1, <2>2, <2>3
<1>5. ASSUME NEW q \in Procs, GoroutineStep(q) \/ EnvironmentStep(q), UNCHANGED pmVars
      PROVE  UnregTold(p)'
  BY <1>2, <1>5 DEF pmVars
<1>6. ASSUME NEW q \in Procs, UnregStep(q)
      PROVE  UnregTold(p)'
  <2>1. CASE q # p
    <3>1. unreg'[p] = unreg[p]
      BY <1>6, <2>1 DEF UnregStep, UnregStopped, UnregCheck, MoveUnreg, UnregGiveUp, UnregRemove, UnregSend, Inv, TypeOK
    <3> QED
      BY <1>1, <3>1
  <2>2. CASE q = p
    <3>1. \A s \in UnregPC : unreg[p][s] \in 0 .. MaxUnreg
      BY DEF Inv, TypeOK
    <3>2. CASE UnregStopped(p) \/ UnregCheck(p) \/ UnregGiveUp(p) \/ UnregRemove(p)
      BY <1>1, <3>2 DEF UnregStopped, UnregCheck, MoveUnreg, UnregGiveUp, UnregRemove
    <3>3. CASE UnregSend(p)
      BY <1>1, <3>1, <3>3 DEF UnregSend, Inv, TypeOK, UnregPC
    <3> QED
      BY <1>6, <2>2, <3>2, <3>3 DEF UnregStep
  <2> QED
    BY <2>1, <2>2
<1>7. ASSUME NEW q \in Procs, CheckSend(q) PROVE UnregTold(p)'
  BY <1>2, <1>7 DEF CheckSend
<1>8. CASE MonitorStep \/ CheckMountPoints
  BY <1>2, <1>8 DEF MonitorStep, MonitorRespond, MonitorBroadcast, CheckMountPoints
<1> QED
  BY <1>3, <1>4, <1>5, <1>6, <1>7, <1>8 DEF Next

(* A replacement that is dropped at once has its file closed.              *)
LEMMA SameCloses ==
    ASSUME Inv, [Next]_vars, NEW t \in Callers, pc[t] = "replace_same"
    PROVE  (pc'[t] = pc[t] /\ obj'[t] = obj[t]) \/ logger'[obj[t]] = "closed"
<1>1. ASSUME NEW u \in Callers, CallRPC(u) \/ HandlerStep(u), u # t
      PROVE  pc'[t] = pc[t] /\ obj'[t] = obj[t]
  BY <1>1, HandlerMoves DEF OnlyMoves, SameHandler
<1>2. ASSUME CallRPC(t) \/ HandlerStep(t)
      PROVE  logger'[obj[t]] = "closed" \/ UNCHANGED <<pc, obj>>
  <2>1. ReplaceSame(t) \/ Refuse(t)
    BY <1>2 DEF CallRPC, CreateRegister, ReplaceInit, DeleteFind, HandlerStep, CreateStep, CreateSend,
                CreateStart, CreateSendError, DeleteStep, DeleteStop, DeleteSend, DeleteUnregister,
                ReplaceStep, ReplaceStart, ReplacePoll, ReplaceStopOld, ReplaceSendOld, ReplaceLock,
                ReplaceCommit, ReplaceSend, CleanupStop, CleanupSend, CleanupRelease
  <2>2. obj[t] \in Procs
    BY HandlerObj
  <2> QED
    BY <2>1, <2>2 DEF ReplaceSame, Refuse, vars, pmVars, Inv, TypeOK, ProcTypeOK
<1>3. CASE UNCHANGED <<pc, obj>>
  BY <1>3
<1>4. CASE UNCHANGED pmVars
  BY <1>3, <1>4 DEF pmVars
<1>5. ASSUME NEW p \in Procs, UnregStep(p) \/ CheckSend(p) PROVE UNCHANGED <<pc, obj>>
  BY <1>5 DEF UnregStep, UnregStopped, UnregCheck, MoveUnreg, UnregGiveUp, UnregRemove, UnregSend, CheckSend
<1>6. MonitorStep \/ CheckMountPoints => UNCHANGED <<pc, obj>>
  BY DEF MonitorStep, MonitorRespond, MonitorBroadcast, CheckMountPoints
<1>7. UNCHANGED vars => UNCHANGED pmVars
  BY DEF vars
<1> QED
  BY <1>1, <1>2, <1>3, <1>4, <1>5, <1>6, <1>7 DEF Next

LEMMA NextUnownedTold ==
    ASSUME Inv, LogsOK, ToldStays, OwnersLeave, [Next]_vars
    PROVE  UnownedTold'
<1> SUFFICES ASSUME NEW p \in Procs, ~Owns(p)' PROVE Told(p)'
  BY DEF UnownedTold
<1>1. CASE Told(p)
  BY <1>1 DEF ToldStays
<1>2. CASE ~Told(p)
  <2>1. Leaving(p)
    BY <1>2 DEF LogsOK, UnownedTold, OwnersLeave
  <2>2. ~(unreg[p]["remove"] > 0)
    BY <1>2 DEF LogsOK, UnregTold
  <2>3. \A t \in Callers : /\ pc[t] = "cleanup_release" => obj[t] # p
                           /\ pc[t] = "replace_commit" => old[t] # p
    BY <1>2 DEF LogsOK, TellersOK, HandlerTold, ToldObjPC, HarmlessOldPC
  <2>4. PICK t \in Callers : pc[t] = "replace_same" /\ obj[t] = p
    BY <2>1, <2>2, <2>3 DEF Leaving
  <2>5. ~(pc'[t] = pc[t] /\ obj'[t] = obj[t])
    BY <2>4 DEF Owns, Replacing, ReplacePC
  <2> QED
    BY <2>4, <2>5, SameCloses DEF Told, Open
<1> QED
  BY <1>1, <1>2

LEMMA InitLogs == Init => LogsOK
<1> SUFFICES ASSUME Init PROVE LogsOK
  OBVIOUS
<1>1. /\ \A p \in Procs : prober[p] = "none" /\ logger[p] = "none" /\ delTS[p] = "nil"
      /\ \A t \in Callers : pc[t] = "idle"
  BY DEF Init, ProcInit
<1> QED
  BY <1>1 DEF LogsOK, ProbersOK, ClosersOK, CloserOK, TellersOK, ModesOK, HandlerTold, ToldObjPC,
              HarmlessOldPC, SenderPC, AskedObjPC, UnregTold, UnownedTold, Told, Open, Unasked

LEMMA SpecLogs == Spec => []LogsOK
<1>1. Inv /\ StartInv /\ StopsOK /\ LogsOK /\ [Next]_vars => LogsOK'
  <2> SUFFICES ASSUME Inv, StartInv, StopsOK, LogsOK, [Next]_vars PROVE LogsOK'
    OBVIOUS
  <2>1. Monotone /\ OwnersLeave /\ OpensNone
    BY NextStarts, NextLeaves, NextOpensNone
  <2>2. ToldStays
    BY <2>1, ToldStable
  <2>3. ProbersOK'
    BY NextProbers DEF LogsOK
  <2>4. ClosersOK' /\ TellersOK'
    BY <2>1, <2>2, NextClosers
  <2>5. \A p \in Procs : UnregTold(p)'
    BY <2>1, <2>2, NextUnregTold
  <2>6. UnownedTold'
    BY <2>1, <2>2, NextUnownedTold
  <2> QED
    BY <2>3, <2>4, <2>5, <2>6 DEF LogsOK
<1> QED
  BY <1>1, InitLogs, SpecInv, SpecStops, PTL DEF Spec

(* The log file of a process that nobody can name any more is closed, or   *)
(* a goroutine waits for the process to end and will close it, whoever of  *)
(* StopWithSignal, its stoppers and ProcessReplace was the last to touch   *)
(* it.  (process.go:180-185, process_manager.go ProcessReplace)            *)
THEOREM LogFilesGetClosed == Spec => []NoLoggerLeak
<1>1. LogsOK => NoLoggerLeak
  <2> SUFFICES ASSUME LogsOK, Quiet, NEW p \in Procs, Open(p)
               PROVE  Registered(p) \/ stoppers[p]["wait"] > 0
    BY DEF NoLoggerLeak, Open
  <2>1. CASE Owns(p)
    BY <2>1 DEF Owns, Replacing, ReplacePC, Quiet
  <2>2. CASE ~Owns(p)
    <3>1. CloserComes(p)
      BY <2>2 DEF LogsOK, UnownedTold, Told, ClosersOK, CloserOK
    <3>2. prober[p] \notin {"send_stop", "send_kill"} /\ \A t \in Callers : pc[t] = "idle"
      BY DEF Quiet
    <3>3. PICK s \in StopperPC : stoppers[p][s] > 0
      BY <3>1, <3>2 DEF CloserComes, AskedObjPC
    <3> QED
      BY <3>3 DEF Quiet
  <2> QED
    BY <2>1, <2>2
<1> QED
  BY <1>1, SpecLogs, PTL

-----------------------------------------------------------------------------
(* Nobody waits in a circle.                                               *)

(* Manager.lock is held across steps by the last section of ProcessReplace *)
(* only, which sends nothing.                                              *)
LockOK == \A t \in Callers : lock = t <=> pc[t] = "replace_commit"

(* As long as a process is starting its prober has something to do.        *)
AtWork(p) == prober[p] \in {"probe", "ready", "failed", "stop"}

PollsOK == \A t \in Callers : pc[t] = "replace_poll" /\ state[obj[t]] = "starting" => AtWork(obj[t])

WaitsOK == LockOK /\ PollsOK

(* Nobody but a constructor makes a process starting, and the prober of a  *)
(* starting process stays at work.                                         *)
StartingStays ==
    \A p \in Procs : state'[p] = "starting" =>
        /\ state[p] \in {"none", "starting"}
        /\ AtWork(p) => AtWork(p)'

LEMMA LocksKept ==
    ASSUME LockOK, UNCHANGED <<lock, pc>>
    PROVE  LockOK'
  BY DEF LockOK

LEMMA HandlerLocks ==
    ASSUME Inv, LockOK, NEW t \in Callers, CallRPC(t) \/ HandlerStep(t)
    PROVE  LockOK'
<1> USE DEF Inv, TypeOK
<1>0. \A u \in Callers : u # t => pc'[u] = pc[u]
  BY HandlerMoves DEF OnlyMoves, SameHandler
<1>1. ASSUME lock' = lock, pc[t] # "replace_commit", pc'[t] # "replace_commit"
      PROVE  LockOK'
  BY <1>0, <1>1 DEF LockOK
<1>2. ASSUME NEW s, Goto(t, s), s # "replace_commit", lock' = lock, pc[t] # "replace_commit"
      PROVE  LockOK'
  BY <1>1, <1>2 DEF Goto
<1>3. ASSUME Finish(t), lock' = lock, pc[t] # "replace_commit"
      PROVE  LockOK'
  BY <1>2, <1>3 DEF Finish
<1>4. ASSUME NEW p, NEW s1, NEW s2, CallStop(t, p, s1, s2), s1 # "replace_commit",
             s2 # "replace_commit", pc[t] # "replace_commit"
      PROVE  LockOK'
  BY <1>2, <1>4 DEF CallStop, Bystanders
<1>5. ASSUME NEW p, NEW s, CallSpawn(t, p, s), s # "replace_commit", pc[t] # "replace_commit"
      PROVE  LockOK'
  BY <1>2, <1>5 DEF CallSpawn, Bystanders
<1>6. CASE CallRPC(t)
  <2>1. CASE Refuse(t)
    BY <2>1, LocksKept DEF Refuse, vars, pmVars
  <2>2. CASE ~Refuse(t)
    BY <1>2, <1>6, <2>2 DEF CallRPC, CreateRegister, ReplaceInit, DeleteFind, Bystanders
  <2> QED
    BY <2>1, <2>2
<1> HIDE DEF Inv, TypeOK
<1>7. CASE CreateStep(t) \/ DeleteStep(t)
  BY <1>2, <1>3, <1>4, <1>5, <1>7
     DEF CreateStep, CreateSend, SendAndGoto, CreateStart, CreateSendError,
         DeleteStep, DeleteStop, DeleteSend, DeleteUnregister, Bystanders
<1>8. CASE ReplaceStep(t)
  <2>1. CASE ReplaceSame(t) \/ ReplaceSend(t) \/ CleanupRelease(t)
    BY <1>3, <2>1 DEF ReplaceSame, ReplaceSend, CleanupRelease, Bystanders
  <2>2. CASE ReplaceStart(t) \/ ReplacePoll(t)
    BY <1>2, <2>2 DEF ReplaceStart, ReplacePoll, Bystanders
  <2>3. CASE ReplaceStopOld(t) \/ ReplaceSendOld(t) \/ CleanupStop(t) \/ CleanupSend(t)
    BY <1>4, <1>5, <2>3 DEF ReplaceStopOld, ReplaceSendOld, CleanupStop, CleanupSend
  <2>4. CASE ReplaceLock(t)
    <3>1. lock = NoCaller /\ lock' = t /\ pc'[t] = "replace_commit"
      BY <2>4 DEF ReplaceLock, Unlocked, Goto, Inv, TypeOK
    <3> QED
      BY <1>0, <3>1, CallersAssumption DEF LockOK
  <2>5. CASE ReplaceCommit(t)
    <3>1. lock = t /\ lock' = NoCaller /\ pc'[t] # "replace_commit"
      BY <2>5 DEF ReplaceCommit, Goto, Inv, TypeOK
    <3> QED
      BY <1>0, <3>1, CallersAssumption DEF LockOK
  <2> QED
    BY <1>8, <2>1, <2>2, <2>3, <2>4, <2>5 DEF ReplaceStep
<1> QED
  BY <1>6, <1>7, <1>8 DEF HandlerStep

LEMMA NextStarting == Inv /\ StartInv /\ [Next]_vars => StartingStays
<1> SUFFICES ASSUME Inv, StartInv, [Next]_vars PROVE StartingStays
  OBVIOUS
<1> USE DEF Inv, TypeOK, ProcTypeOK
<1>1. ASSUME UNCHANGED <<state, prober>> PROVE StartingStays
  BY <1>1 DEF StartingStays, AtWork
<1>2. CASE UNCHANGED vars
  BY <1>1, <1>2 DEF vars, procVars
<1>3. ASSUME NEW t \in Callers, CallRPC(t)
      PROVE  StartingStays
  <2>1. CASE Refuse(t) \/ \E p \in Procs : DeleteFind(t, p)
    BY <1>1, <2>1 DEF Refuse, DeleteFind, vars, procVars
  <2>2. ASSUME NEW p \in Procs, NEW b, Construct(p, b)
        PROVE  StartingStays
    BY <2>2 DEF Construct, StartingStays, AtWork
  <2> QED
    BY <1>3, <2>1, <2>2 DEF CallRPC, CreateRegister, ReplaceInit
<1>4. ASSUME NEW t \in Callers, HandlerStep(t)
      PROVE  StartingStays
  <2>1. CASE CreateStart(t) \/ ReplaceStart(t)
    BY <2>1 DEF CreateStart, ReplaceStart, StartOK, StartError, StartingStays, AtWork
  <2>2. CASE CreateSend(t) \/ CreateSendError(t) \/ DeleteStep(t)
    BY <2>2 DEF CreateSend, SendAndGoto, CreateSendError, DeleteStep, DeleteStop, CallStop,
                StopLocked, DeleteSend, CallSpawn, SpawnStopper, DeleteUnregister, procVars,
                StartingStays, AtWork
  <2>3. CASE ReplaceStep(t) /\ ~ReplaceStart(t)
    BY <2>3 DEF ReplaceStep, ReplaceSame, ReplacePoll, ReplaceStopOld, ReplaceSendOld, CallStop,
                      StopLocked, CallSpawn, SpawnStopper, ReplaceLock, ReplaceCommit, ReplaceSend,
                      CleanupStop, CleanupSend, CleanupRelease, procVars, StartingStays, AtWork
  <2> QED
    BY <1>4, <2>1, <2>2, <2>3 DEF HandlerStep, CreateStep
<1>5. ASSUME NEW p \in Procs, GoroutineStep(p) \/ EnvironmentStep(p)
      PROVE  StartingStays
  <2>1. CASE RunnerStep(p) \/ RunnerSend(p) \/ EnvironmentStep(p)
    BY <2>1 DEF RunnerStep, RunnerFork, RunnerForkFails, RunnerRecord, RunnerSend, EnvironmentStep,
                CmdExit, DeletionExpires, StartingStays, AtWork
  <2>2. CASE ProberStep(p) \/ ProbeSend(p) \/ ProbeSpawn(p)
    BY <2>2 DEF ProberStep, ProbeReady, ProbeFails, ProbeRunning, ProbeCheck, ProbeStop, StopLocked,
                ProbeSend, ProbeSpawn, SpawnStopper, StartingStays, AtWork, NeedStop, IsStopped, Terminal
  <2>3. CASE StopperStep(p)
    BY <2>3 DEF StopperStep, StopperNotRunning, StopperMark, StopperSignal, StopperWaitDone,
                      StopperKill, EndStopper, MoveStopper, StartingStays, AtWork
  <2> QED
    BY <1>5, <2>1, <2>2, <2>3 DEF GoroutineStep
<1>6. ASSUME NEW p \in Procs, UnregStep(p) \/ CheckSend(p)
      PROVE  StartingStays
  BY <1>1, <1>6 DEF UnregStep, UnregStopped, UnregCheck, MoveUnreg, UnregGiveUp, UnregRemove, UnregSend, CheckSend, procVars
<1>7. CASE MonitorStep \/ CheckMountPoints
  BY <1>1, <1>7 DEF MonitorStep, MonitorRespond, MonitorBroadcast, CheckMountPoints, procVars
<1> QED
  BY <1>2, <1>3, <1>4, <1>5, <1>6, <1>7 DEF Next

(* Who polls has polled before, or has just started the process.           *)
LEMMA HandlerPolls ==
    ASSUME Inv, NEW t \in Callers, CallRPC(t) \/ HandlerStep(t), pc'[t] = "replace_poll"
    PROVE  \/ pc[t] = "replace_poll" /\ obj'[t] = obj[t]
           \/ AtWork(obj[t])' /\ obj'[t] = obj[t] /\ obj[t] \in Procs
<1> USE DEF Inv, TypeOK
<1>1. ASSUME NEW s, Goto(t, s)
      PROVE  s = "replace_poll"
  BY <1>1 DEF Goto
<1>2. ~Finish(t)
  BY <1>1 DEF Finish
<1>3. ASSUME NEW p, NEW s1, NEW s2, CallStop(t, p, s1, s2)
      PROVE  s1 = "replace_poll" \/ s2 = "replace_poll"
  BY <1>1, <1>3 DEF CallStop
<1>4. ASSUME NEW p, NEW s, CallSpawn(t, p, s)
      PROVE  s = "replace_poll"
  BY <1>1, <1>4 DEF CallSpawn
<1>5. CASE CallRPC(t)
  BY <1>1, <1>5 DEF CallRPC, CreateRegister, ReplaceInit, DeleteFind, Refuse, vars, pmVars
<1> HIDE DEF Inv, TypeOK
<1>6. ~CreateStep(t) /\ ~DeleteStep(t)
  BY <1>1, <1>2, <1>3, <1>4
     DEF CreateStep, CreateSend, SendAndGoto, CreateStart, CreateSendError,
         DeleteStep, DeleteStop, DeleteSend, DeleteUnregister
<1>7. CASE ReplaceStep(t)
  <2>1. ReplaceStart(t)
    <3>1. ~(ReplaceSame(t) \/ ReplaceSend(t) \/ CleanupRelease(t))
      BY <1>2 DEF ReplaceSame, ReplaceSend, CleanupRelease
    <3>2. ~(ReplacePoll(t) \/ ReplaceLock(t) \/ ReplaceCommit(t))
      BY <1>1 DEF ReplacePoll, ReplaceLock, ReplaceCommit
    <3>3. ~(ReplaceStopOld(t) \/ ReplaceSendOld(t) \/ CleanupStop(t) \/ CleanupSend(t))
      BY <1>3, <1>4 DEF ReplaceStopOld, ReplaceSendOld, CleanupStop, CleanupSend
    <3> QED
      BY <1>7, <3>1, <3>2, <3>3 DEF ReplaceStep
  <2>2. PICK p \in Procs : p = obj[t]
    BY <2>1, HandlerObj DEF ReplaceStart
  <2>3. StartOK(p) /\ UNCHANGED obj
    BY <1>1, <2>1, <2>2 DEF ReplaceStart
  <2>4. prober'[p] = "probe"
    BY <2>3 DEF StartOK, Inv, TypeOK, ProcTypeOK
  <2> QED
    BY <2>2, <2>3, <2>4 DEF AtWork
<1> QED
  BY <1>5, <1>6, <1>7 DEF HandlerStep

LEMMA NextWaits == Inv /\ StartInv /\ WaitsOK /\ [Next]_vars => WaitsOK'
<1> SUFFICES ASSUME Inv, StartInv, WaitsOK, [Next]_vars PROVE WaitsOK'
  OBVIOUS
<1>1. StartingStays
  BY NextStarting
<1>2. ASSUME NEW u \in Callers, pc'[u] = "replace_poll", state'[obj'[u]] = "starting",
             pc[u] = "replace_poll", obj'[u] = obj[u]
      PROVE  AtWork(obj[u])'
  <2>1. PICK p \in Procs : p = obj[u] /\ state[p] # "none"
    BY <1>2, HandlerObj
  <2>2. state[p] = "starting" /\ AtWork(p)
    BY <1>1, <1>2, <2>1 DEF WaitsOK, PollsOK, StartingStays
  <2>3. AtWork(p)'
    BY <1>1, <1>2, <2>1, <2>2 DEF StartingStays
  <2> QED
    BY <1>2, <2>1, <2>3 DEF AtWork
<1>3. ASSUME UNCHANGED <<lock, pc, obj>>
      PROVE  WaitsOK'
  BY <1>2, <1>3, LocksKept DEF WaitsOK, PollsOK
<1>4. ASSUME NEW t \in Callers, CallRPC(t) \/ HandlerStep(t)
      PROVE  WaitsOK'
  <2>1. OnlyMoves(t) /\ LockOK'
    BY <1>4, HandlerMoves, HandlerLocks DEF WaitsOK
  <2>2. ASSUME NEW u \in Callers, pc'[u] = "replace_poll", state'[obj'[u]] = "starting"
        PROVE  AtWork(obj[u])'
    BY <1>2, <1>4, <2>1, <2>2, HandlerPolls DEF OnlyMoves, SameHandler
  <2> QED
    BY <2>1, <2>2 DEF WaitsOK, PollsOK
<1> QED
  BY <1>3, <1>4 DEF Next, vars, pmVars, UnregStep, UnregStopped, UnregCheck, MoveUnreg, UnregGiveUp, UnregRemove, UnregSend,
     CheckSend, MonitorStep, MonitorRespond, MonitorBroadcast, CheckMountPoints

LEMMA SpecWaits == Spec => []WaitsOK
<1>1. Init => WaitsOK
  BY CallersAssumption DEF Init, WaitsOK, LockOK, PollsOK
<1> QED
  BY <1>1, NextWaits, SpecInv, SpecStops, PTL DEF Spec

(* Manager.lock and the channel of updates are given up by somebody who    *)
(* can go on.                                                              *)
LockAndChannelMove ==
    /\ ~Unlocked => LockHolderReady
    /\ recv # NoProc => MonitorReady \/ LockHolderReady

LEMMA HolderGoesOn ==
    ASSUME Inv, WaitsOK, ~Unlocked
    PROVE  LockHolderReady
<1>1. PICK u \in Callers : lock = u
  BY DEF Unlocked, Inv, TypeOK
<1>2. pc[u] = "replace_commit"
  BY <1>1 DEF WaitsOK, LockOK
<1> QED
  BY <1>1, <1>2 DEF LockHolderReady, HandlerReady, SendsUpdate, TakesLock, Stops

(* Whoever waits, a handler, the runner or the prober of a process, an     *)
(* unregister goroutine or the check of mount points, waits for the lock   *)
(* or for the monitor to take an update, and neither is ever stuck         *)
(* (process_manager.go:103-123, process.go:65-111, 141-218).               *)
THEOREM LockAndMonitorMove == Spec => []LockAndChannelMove
<1>1. Inv /\ WaitsOK => LockAndChannelMove
  BY HolderGoesOn DEF LockAndChannelMove, MonitorReady
<1> QED
  BY <1>1, SpecInv, SpecWaits, PTL

(* No handler waits for somebody who waits for it: the handler that holds  *)
(* Manager.lock waits for nobody, so that the monitor gets the lock and    *)
(* takes the next update, whatever the number of handlers and goroutines   *)
(* that have one to send (issue 2697, process_test.go:184-193).            *)
THEOREM NobodyWaitsInACircle == Spec => []NoCircularWait
<1>1. Inv /\ WaitsOK => NoCircularWait
  <2> SUFFICES ASSUME Inv, WaitsOK, NEW t \in Callers, pc[t] # "idle", ~HandlerReady(t)
               PROVE  \/ SendsUpdate(t) /\ (MonitorReady \/ LockHolderReady)
                      \/ TakesLock(t) /\ LockHolderReady
                      \/ pc[t] = "replace_poll" /\ AtWork(obj[t])
                      \/ recv = NoProc /\ \E p \in Procs : Stops(t, p) /\ StopperCount(p) = MaxStoppers
    BY DEF NoCircularWait, AtWork
  <2>1. ~Unlocked => LockHolderReady
    BY HolderGoesOn
  <2>2. recv # NoProc => MonitorReady \/ LockHolderReady
    BY <2>1 DEF MonitorReady
  <2>3. pc[t] = "replace_commit" => lock = t
    BY DEF WaitsOK, LockOK
  <2>4. ASSUME NEW p \in Procs, Stops(t, p), ~(StopperCount(p) < MaxStoppers)
        PROVE  StopperCount(p) = MaxStoppers /\ SendsUpdate(t)
    <3>1. StopperCount(p) <= MaxStoppers
      BY DEF Inv, StoppersBounded
    <3>2. StopperCount(p) \in Int /\ MaxStoppers \in Int
      BY MaxStoppersAssumption DEF StopperCount, StopperPC, Inv, TypeOK, ProcTypeOK
    <3>3. StopperCount(p) = MaxStoppers
      BY <2>4, <3>1, <3>2
    <3> QED
      BY <2>4, <3>3 DEF Stops, SendsUpdate
  <2>5. pc[t] = "replace_poll" /\ state[obj[t]] = "starting" => AtWork(obj[t])
    BY DEF WaitsOK, PollsOK
  <2> QED
    BY <2>1, <2>2, <2>3, <2>4, <2>5 DEF HandlerReady
<1> QED
  BY <1>1, SpecInv, SpecWaits, PTL

-----------------------------------------------------------------------------
(* A stop is never forgotten.                                              *)

(* Somebody is about to spawn a stopper of p.                              *)
StopperComes(p) ==
    \/ \E t \in Callers : Stops(t, p)
    \/ prober[p] \in {"send_stop", "send_kill"}

(* Who finishes the stop of p: a stopper that comes or has still to decide *)
(* what to do, one that waits for a live process or has killed it, or the  *)
(* runner, which is about to record the end of the process.                *)
InHand(p) ==
    \/ StopperComes(p)
    \/ \E s \in StopperPC \ {"wait"} : stoppers[p][s] > 0
    \/ runner[p] = "wait" /\ (killed[p] \/ stoppers[p]["wait"] > 0)
    \/ runner[p] \in {"ok", "err"}

(* A process that is recorded as stopping is being stopped by somebody.    *)
StopsInHand == \A p \in Procs : state[p] = "stopping" => InHand(p)

StopsKept(p) == state'[p] = "stopping" => state[p] = "stopping"

LEMMA ComingStays ==
    ASSUME SendersStay, NEW p \in Procs, StopperComes(p),
           prober[p] \in {"send_stop", "send_kill"} => prober'[p] = prober[p]
    PROVE  StopperComes(p)'
  BY DEF SendersStay, StopperComes, Stops, SenderPC, AskedObjPC, SameHandler

LEMMA InHandStays ==
    ASSUME SendersStay, NEW p \in Procs, InHand(p), stoppers'[p] = stoppers[p],
           killed'[p] = killed[p],
           runner[p] \in {"wait", "ok", "err"} => runner'[p] = runner[p],
           prober[p] \in {"send_stop", "send_kill"} => prober'[p] = prober[p]
    PROVE  InHand(p)'
<1>1. CASE StopperComes(p)
  BY <1>1, ComingStays DEF InHand
<1>2. CASE ~StopperComes(p)
  BY <1>2, Zenon DEF InHand
<1> QED
  BY <1>1, <1>2

LEMMA QuietInHand ==
    ASSUME SendersStay, StopsInHand, UNCHANGED <<stoppers, killed>>, \A p \in Procs : StopsKept(p),
           \A p \in Procs : runner[p] \in {"wait", "ok", "err"} => runner'[p] = runner[p],
           \A p \in Procs : prober[p] \in {"send_stop", "send_kill"} => prober'[p] = prober[p]
    PROVE  StopsInHand'
  BY InHandStays DEF StopsInHand, StopsKept

(* StopWithSignal: who makes p stopping comes with a stopper.              *)
LEMMA StopLockedInHand ==
    ASSUME Inv, StopsInHand, NEW p \in Procs, StopLocked(p), UNCHANGED killed,
           SendersStay, NeedStop(p) => StopperComes(p)',
           \A q \in Procs : prober[q] \in {"send_stop", "send_kill"} => prober'[q] = prober[q]
    PROVE  StopsInHand'
<1>1. /\ UNCHANGED <<stoppers, killed, runner>>
      /\ \A q \in Procs : q # p => state'[q] = state[q]
      /\ ~NeedStop(p) => state'[p] = state[p]
  BY DEF StopLocked, Inv, TypeOK, ProcTypeOK
<1>2. \A q \in Procs : InHand(q) => InHand(q)'
  BY <1>1, InHandStays
<1>3. NeedStop(p) => InHand(p)'
  BY DEF InHand
<1> QED
  BY <1>1, <1>2, <1>3 DEF StopsInHand

LEMMA CallStopInHand ==
    ASSUME Inv, StopsInHand, NEW t \in Callers, NEW p \in Procs,
           NEW s1, NEW s2, CallStop(t, p, s1, s2), pc[t] \notin SenderPC,
           \/ s1 \in AskedObjPC /\ obj[t] = p
           \/ s1 = "replace_send_old" /\ old[t] = p
    PROVE  StopsInHand'
<1>1. /\ UNCHANGED <<killed, prober, obj, old>> /\ StopLocked(p)
      /\ pc'[t] = IF StopMode(p) = "none" THEN s2 ELSE s1
      /\ \A u \in Callers : u # t => pc'[u] = pc[u]
  BY DEF CallStop, StopLocked, Goto, Inv, TypeOK
<1>2. SendersStay
  BY <1>1 DEF SendersStay, SameHandler
<1>3. NeedStop(p) => StopperComes(p)'
  BY <1>1 DEF StopperComes, Stops, StopMode, AskedObjPC
<1> QED
  BY <1>1, <1>2, <1>3, StopLockedInHand

(* A stopper that is spawned has still to decide what to do.               *)
LEMMA SpawnedInHand ==
    ASSUME Inv, NEW p \in Procs, NEW m \in {"stop", "kill"}, SpawnStopper(p, m)
    PROVE  /\ UNCHANGED <<state, killed, runner>> /\ InHand(p)'
           /\ \A q \in Procs : q # p => stoppers'[q] = stoppers[q]
<1>1. PICK s \in StopperPC \ {"wait"} : stoppers' = [stoppers EXCEPT ![p][s] = @ + 1]
  BY DEF SpawnStopper, StopperPC
<1>2. stoppers[p][s] \in 0 .. MaxStoppers /\ stoppers \in [Procs -> [StopperPC -> 0 .. MaxStoppers]]
  BY DEF Inv, TypeOK, ProcTypeOK
<1>3. stoppers'[p][s] = stoppers[p][s] + 1 /\ MaxStoppers \in Nat
  BY <1>1, <1>2, MaxStoppersAssumption
<1>4. stoppers'[p][s] > 0
  BY <1>2, <1>3
<1> QED
  BY <1>1, <1>2, <1>4 DEF SpawnStopper, InHand

LEMMA CallSpawnInHand ==
    ASSUME Inv, StopsInHand, NEW t \in Callers, NEW p \in Procs, NEW s, CallSpawn(t, p, s),
           mode[t] # "none", pc[t] \in SenderPC, \A q \in Procs : Stops(t, q) => q = p
    PROVE  StopsInHand'
<1>1. mode[t] \in {"stop", "kill"}
  BY DEF Inv, TypeOK
<1>2. /\ UNCHANGED <<state, killed, runner, prober, obj, old>> /\ InHand(p)'
      /\ \A q \in Procs : q # p => stoppers'[q] = stoppers[q]
  BY <1>1, SpawnedInHand DEF CallSpawn
<1>3. \A u \in Callers : u # t => pc'[u] = pc[u]
  BY DEF CallSpawn, Goto, Inv, TypeOK
<1>4. ASSUME NEW q \in Procs, q # p, InHand(q)
      PROVE  InHand(q)'
  <2>1. StopperComes(q) => StopperComes(q)'
    BY <1>2, <1>3, <1>4 DEF StopperComes, Stops
  <2> QED
    BY <1>2, <1>4, <2>1, Zenon DEF InHand
<1> QED
  BY <1>2, <1>4 DEF StopsInHand

LEMMA HandlerInHand ==
    ASSUME Inv, StartInv, StopsInHand, ProbersOK, ModesOK,
           NEW t \in Callers, CallRPC(t) \/ HandlerStep(t)
    PROVE  StopsInHand'
<1> USE DEF SenderPC, AskedObjPC
<1>0. OnlyMoves(t)
  BY HandlerMoves
<1>1. ASSUME pc[t] \notin SenderPC, UNCHANGED <<killed, stoppers, prober, runner>>,
             \A p \in Procs : StopsKept(p)
      PROVE  StopsInHand'
  BY <1>0, <1>1, QuietInHand DEF OnlyMoves, SendersStay
<1>2. CASE CallRPC(t)
  <2>1. CASE Refuse(t)
    BY <1>1, <2>1, <1>0, QuietInHand DEF Refuse, vars, procVars, pmVars, StopsKept, SendersStay,
                                         OnlyMoves, SameHandler
  <2>2. CASE ~Refuse(t)
    BY <1>1, <1>2, <2>2 DEF CallRPC, CreateRegister, ReplaceInit, Construct, DeleteFind, procVars,
                            StopsKept, Inv, TypeOK, ProcTypeOK
  <2> QED
    BY <2>1, <2>2
<1>3. CASE CreateStart(t) \/ ReplaceStart(t)
  <2>1. pc[t] \in StartPC
    BY <1>3 DEF CreateStart, ReplaceStart, StartPC
  <2>2. PICK p \in Procs : obj[t] = p
    BY <2>1, HandlerObj DEF StartPC
  <2>3. prober[p] = "none" /\ runner[p] = "none" /\ pc[t] \notin SenderPC
    BY <2>1, <2>2 DEF StartInv, StartsOK, CommandsOK, ProbersOK, StartPC
  <2>4. /\ UNCHANGED <<killed, stoppers>>
        /\ \A q \in Procs : q # p => prober'[q] = prober[q] /\ runner'[q] = runner[q]
        /\ \A q \in Procs : StopsKept(q)
    BY <1>3, <2>2 DEF CreateStart, ReplaceStart, StartOK, StartError, Inv, TypeOK, ProcTypeOK, StopsKept
  <2> QED
    BY <1>0, <2>3, <2>4, QuietInHand DEF OnlyMoves, SendersStay
<1>4. CASE CreateSend(t) \/ CreateSendError(t) \/ DeleteUnregister(t)
  BY <1>1, <1>4 DEF CreateSend, SendAndGoto, CreateSendError, DeleteUnregister, procVars, StopsKept
<1>5. CASE DeleteStop(t) \/ CleanupStop(t)
  <2>1. PICK p \in Procs : obj[t] = p
    BY <1>5, HandlerObj DEF DeleteStop, CleanupStop
  <2> QED
    BY <1>5, <2>1, CallStopInHand DEF DeleteStop, CleanupStop
<1>6. CASE DeleteSend(t) \/ CleanupSend(t)
  <2>1. PICK p \in Procs : obj[t] = p
    BY <1>6, HandlerObj DEF DeleteSend, CleanupSend
  <2>2. mode[t] # "none" /\ \A q \in Procs : Stops(t, q) => q = p
    BY <1>6, <2>1 DEF ModesOK, DeleteSend, CleanupSend, Stops
  <2> QED
    BY <1>6, <2>1, <2>2, CallSpawnInHand DEF DeleteSend, CleanupSend
<1>7. CASE ReplaceStopOld(t) \/ ReplaceSendOld(t)
  <2>1. PICK p \in Procs : old[t] = p
    BY <1>7, ReplaceOld DEF ReplaceStopOld, ReplaceSendOld, ReplacePC
  <2>2. CASE ReplaceStopOld(t)
    BY <2>1, <2>2, CallStopInHand DEF ReplaceStopOld
  <2>3. CASE ReplaceSendOld(t)
    BY <2>1, <2>3, CallSpawnInHand DEF ReplaceSendOld, ModesOK, Stops
  <2> QED
    BY <1>7, <2>2, <2>3
<1>8. CASE \/ ReplaceSame(t) \/ ReplacePoll(t) \/ ReplaceLock(t) \/ ReplaceCommit(t)
           \/ ReplaceSend(t) \/ CleanupRelease(t)
  BY <1>1, <1>8 DEF ReplaceSame, ReplacePoll, ReplaceLock, ReplaceCommit, ReplaceSend,
                    CleanupRelease, procVars, StopsKept
<1> QED
  BY <1>2, <1>3, <1>4, <1>5, <1>6, <1>7, <1>8 DEF HandlerStep, CreateStep, DeleteStep, ReplaceStep

(* A stopper ends only when p has ended, or has been killed; after it has  *)
(* signalled a live process it waits.                                      *)
LEMMA StopperInHand ==
    ASSUME Inv, StartInv, StopsInHand, NEW p \in Procs, StopperStep(p), UNCHANGED pmVars
    PROVE  StopsInHand'
<1> USE DEF Inv, TypeOK, ProcTypeOK
<1>0. /\ UNCHANGED <<prober, runner, pc, obj, old>> /\ SendersStay
      /\ \A q \in Procs : q # p => /\ stoppers'[q] = stoppers[q] /\ killed'[q] = killed[q]
                                   /\ state'[q] = state[q]
  BY DEF StopperStep, StopperNotRunning, StopperMark, StopperSignal, StopperWaitDone,
         StopperKill, EndStopper, MoveStopper, pmVars, SendersStay, SameHandler
<1>1. \A q \in Procs : q # p /\ InHand(q) => InHand(q)'
  BY <1>0, InHandStays
<1>2. SUFFICES ASSUME state'[p] = "stopping"
               PROVE  InHand(p)'
  BY <1>0, <1>1 DEF StopsInHand
<1>3. state[p] = "stopping" /\ InHand(p) /\ ~IsStopped(p) /\ UNCHANGED state
  BY <1>2 DEF StopperStep, StopperNotRunning, StopperMark, StopperSignal, StopperWaitDone,
         StopperKill, EndStopper, MoveStopper, StopsInHand, IsStopped, Terminal
<1>4. ASSUME NEW s \in StopperPC, NEW r \in StopperPC, s # r, MoveStopper(p, s, r)
      PROVE  stoppers'[p][r] > 0
  <2>1. stoppers[p][r] \in 0 .. MaxStoppers /\ MaxStoppers \in Nat
    BY MaxStoppersAssumption
  <2>2. stoppers'[p][r] = stoppers[p][r] + 1
    BY <1>4 DEF MoveStopper
  <2> QED
    BY <2>1, <2>2
<1>5. ASSUME NEW s \in {"nocmd", "stop", "kill"}, StopperNotRunning(p, s)
      PROVE  InHand(p)'
  <2>1. MoveStopper(p, s, "mark") /\ s \in StopperPC /\ "mark" \in StopperPC \ {"wait"} /\ s # "mark"
    BY <1>3, <1>5 DEF StopperNotRunning, StopperPC
  <2> QED
    BY <1>4, <2>1 DEF InHand
<1>6. CASE StopperSignal(p)
  <2>1. runner'[p] = "wait" /\ MoveStopper(p, "stop", "wait")
    BY <1>0, <1>6 DEF StopperSignal, IsRunning, StartInv, CommandsOK
  <2>2. stoppers'[p]["wait"] > 0
    BY <1>4, <2>1 DEF StopperPC
  <2> QED
    BY <2>1, <2>2 DEF InHand
<1>7. CASE StopperKill(p)
  <2>1. IsRunning(p) => runner'[p] = "wait" /\ killed'[p]
    BY <1>0, <1>7 DEF StopperKill, IsRunning, StartInv, CommandsOK
  <2>2. CASE ~IsRunning(p)
    <3>1. /\ runner[p] \in {"none", "wait", "done"}
          /\ \A s \in StopperPC \ {"wait"} : stoppers[p][s] = 0
      BY <1>7, <2>2 DEF StopperKill, MinutePassed
    <3>2. runner[p] # "wait"
      BY <2>2 DEF IsRunning, StartInv, CommandsOK
    <3>3. StopperComes(p)
      BY <1>3, <3>1, <3>2 DEF InHand
    <3> QED
      BY <1>0, <3>3, ComingStays DEF InHand
  <2> QED
    BY <2>1, <2>2 DEF InHand
<1>8. ~StopperMark(p) /\ ~StopperWaitDone(p)
  BY <1>2, <1>3 DEF StopperMark, StopperWaitDone
<1> QED
  BY <1>5, <1>6, <1>7, <1>8 DEF StopperStep

LEMMA ProcessInHand ==
    ASSUME Inv, StartInv, StopsInHand, ProbersOK, NEW p \in Procs,
           GoroutineStep(p) \/ EnvironmentStep(p), UNCHANGED pmVars
    PROVE  StopsInHand'
<1> USE DEF Inv, TypeOK, ProcTypeOK
<1>0. SendersStay
  BY DEF SendersStay, SameHandler, pmVars
<1>1. CASE \/ RunnerFork(p) \/ RunnerSend(p) \/ DeletionExpires(p)
           \/ ProbeReady(p) \/ ProbeFails(p) \/ ProbeRunning(p) \/ ProbeCheck(p) \/ ProbeSend(p)
  <2>1. /\ UNCHANGED <<stoppers, killed>>
        /\ \A q \in Procs : /\ StopsKept(q)
                            /\ runner[q] \in {"wait", "ok", "err"} => runner'[q] = runner[q]
                            /\ prober[q] \in {"send_stop", "send_kill"} => prober'[q] = prober[q]
    BY <1>1 DEF RunnerFork, RunnerSend, DeletionExpires, ProbeReady, ProbeFails, ProbeRunning,
                ProbeCheck, ProbeSend, StopsKept
  <2> QED
    BY <1>0, <2>1, QuietInHand
<1>2. CASE RunnerForkFails(p) \/ CmdExit(p) \/ RunnerRecord(p)
  <2>1. /\ UNCHANGED <<stoppers, killed, prober>>
        /\ \A q \in Procs : q # p => runner'[q] = runner[q] /\ state'[q] = state[q]
        /\ runner'[p] \in {"ok", "err"} \/ state'[p] # "stopping"
    BY <1>2 DEF RunnerForkFails, CmdExit, RunnerRecord
  <2>2. \A q \in Procs : q # p /\ InHand(q) => InHand(q)'
    BY <1>0, <2>1, InHandStays
  <2> QED
    BY <2>1, <2>2 DEF StopsInHand, InHand
<1>3. CASE ProbeStop(p)
  <2>1. /\ UNCHANGED killed /\ StopLocked(p) /\ prober[p] = "stop"
        /\ \A q \in Procs : q # p => prober'[q] = prober[q]
    BY <1>3 DEF ProbeStop, StopLocked
  <2>2. NeedStop(p) => prober'[p] = "send_stop"
    BY <1>3 DEF ProbeStop, StopMode
  <2> QED
    BY <1>0, <2>1, <2>2, StopLockedInHand DEF StopperComes
<1>4. CASE ProbeSpawn(p)
  <2>1. PICK m \in {"stop", "kill"} : SpawnStopper(p, m)
    BY <1>4 DEF ProbeSpawn
  <2>2. /\ UNCHANGED <<state, killed, runner>> /\ InHand(p)'
        /\ \A q \in Procs : q # p => stoppers'[q] = stoppers[q]
    BY <2>1, SpawnedInHand
  <2>3. \A q \in Procs : q # p => prober'[q] = prober[q]
    BY <1>4 DEF ProbeSpawn
  <2>4. \A q \in Procs : q # p /\ InHand(q) => InHand(q)'
    BY <1>0, <2>2, <2>3, InHandStays
  <2> QED
    BY <2>2, <2>4 DEF StopsInHand
<1>5. CASE StopperStep(p)
  BY <1>5, StopperInHand
<1> QED
  BY <1>1, <1>2, <1>3, <1>4, <1>5 DEF GoroutineStep, EnvironmentStep, RunnerStep, ProberStep

(* A process that is recorded as stopping is in somebody's hands until it  *)
(* is recorded as ended: the stopper of StopWithSignal is on its way, or   *)
(* waits for the live process, or has killed it, or the runner is about to *)
(* record its end - however stops, kills after a timeout, the prober and   *)
(* the end of the process itself interleave (process.go:155-218).          *)
THEOREM StopsAreFinished == Spec => []StopsInHand
<1>1. Init => StopsInHand
  BY DEF Init, ProcInit, StopsInHand
<1>2. Inv /\ StartInv /\ LogsOK /\ StopsInHand /\ [Next]_vars => StopsInHand'
  <2> SUFFICES ASSUME Inv, StartInv, LogsOK, StopsInHand, [Next]_vars PROVE StopsInHand'
    OBVIOUS
  <2>1. ASSUME UNCHANGED <<state, stoppers, killed, runner, prober, pc, obj, old>>
        PROVE  StopsInHand'
    BY <2>1, QuietInHand DEF StopsKept, SendersStay, SameHandler
  <2>2. CASE UNCHANGED vars
    BY <2>1, <2>2 DEF vars, procVars, pmVars
  <2>3. ASSUME NEW t \in Callers, CallRPC(t) \/ HandlerStep(t)
        PROVE  StopsInHand'
    BY <2>3, HandlerInHand DEF LogsOK, TellersOK
  <2>4. ASSUME NEW p \in Procs, GoroutineStep(p) \/ EnvironmentStep(p), UNCHANGED pmVars
        PROVE  StopsInHand'
    BY <2>4, ProcessInHand DEF LogsOK
  <2>5. ASSUME NEW p \in Procs, UnregStep(p) \/ CheckSend(p)
        PROVE  StopsInHand'
    BY <2>1, <2>5 DEF UnregStep, UnregStopped, UnregCheck, MoveUnreg, UnregGiveUp, UnregRemove, UnregSend, CheckSend, procVars
  <2>6. CASE MonitorStep \/ CheckMountPoints
    BY <2>1, <2>6 DEF MonitorStep, MonitorRespond, MonitorBroadcast, CheckMountPoints, procVars
  <2> QED
    BY <2>2, <2>3, <2>4, <2>5, <2>6 DEF Next
<1> QED
  BY <1>1, <1>2, SpecInv, SpecStops, SpecLogs, PTL DEF Spec
=============================================================================
