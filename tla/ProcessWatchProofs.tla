------------------------- MODULE ProcessWatchProofs -------------------------
(***************************************************************************)
(* What the watchers of the processes get to know, for every set of        *)
(* processes, names, callers and ports.                                    *)
(*                                                                         *)
(* WatchOK: of every registered process the watchers have heard, or the    *)
(* monitor is about to tell them, or somebody is still going to send an    *)
(* update, or the process is stopped and on its way out of the map, be it  *)
(* in vain.                                                                *)
(* The one step that changes a State and sends nothing is the last one of  *)
(* a stopper goroutine.  Known says why it does no harm to a process that  *)
(* is meant to stay: the stoppers of such a process come from its prober,  *)
(* find the command ended, and the runner has recorded the end or will.    *)
(***************************************************************************)
EXTENDS ProcessStopProofs

-----------------------------------------------------------------------------
(* Watchers hear of every change.                                          *)

SameKind(a, b) == a = b \/ (a \in Terminal /\ b \in Terminal)

(* The last event about p is right.                                        *)
Match(p) == SameKind(lastEvent[p].state, state[p]) /\ ~lastEvent[p].deleted

SendObjPC == {"create_send", "create_send_error", "delete_send", "cleanup_send", "replace_send"}

(* Somebody is going to send an update of p.                               *)
HandlerSends(t, p) ==
    \/ pc[t] \in SendObjPC /\ obj[t] = p
    \/ pc[t] = "replace_send_old" /\ old[t] = p

Sending(p) ==
    \/ runner[p] \in {"ok", "err", "send"}
    \/ prober[p] \in {"send", "send_stop", "send_kill"}
    \/ \E t \in Callers : HandlerSends(t, p)

(* What the monitor has read, or will read, is right; otherwise what it    *)
(* has broadcast is.                                                       *)
Informed(p) == IF recv = p THEN resp = "none" \/ SameKind(resp, state[p])
               ELSE p \in Watched => Match(p)

(* Somebody will take p out of the map when p is stopped, or has tried to. *)
HandlerRemoves(t, p) ==
    \/ pc[t] \in {"delete_send", "delete_unregister"} /\ obj[t] = p
    \/ pc[t] \in HarmlessOldPC /\ old[t] = p

Removal(p) ==
    \/ \E s \in UnregPC \ {"send"} : unreg[p][s] > 0
    \/ \E t \in Callers : HandlerRemoves(t, p)

WatchOK(p) == Registered(p) => Informed(p) \/ Sending(p) \/ (IsStopped(p) /\ Removal(p))

(* A replacement has the name of the process it replaces, and that process *)
(* is not a replacement that is still to be registered.                    *)
OldOK(t) == pc[t] \in ReplacePC => NameOf[old[t]] = NameOf[obj[t]] /\ ~Replacing(old[t])

RespOK == recv = NoProc => resp = "none"

(* The monitor and those who talk to it.                                   *)
Sends(p) == Send(p) /\ UNCHANGED <<resp, lastEvent>>
Talks == \/ UNCHANGED <<recv, resp, lastEvent>>
         \/ \E p \in Procs : Sends(p)
         \/ MonitorStep /\ UNCHANGED <<state, processes>>

LEMMA NextTalks == Inv /\ [Next]_vars => Talks
<1> SUFFICES ASSUME Inv, [Next]_vars PROVE Talks
  OBVIOUS
<1>1. CASE UNCHANGED vars
  BY <1>1 DEF Talks, vars, procVars, pmVars
<1>2. ASSUME NEW t \in Callers, CallRPC(t)
      PROVE  Talks
  BY <1>2 DEF Talks, CallRPC, CreateRegister, ReplaceInit, Construct, DeleteFind, Refuse, Bystanders,
              vars, procVars, pmVars
<1>3. ASSUME NEW t \in Callers, HandlerStep(t)
      PROVE  Talks
  <2>1. ASSUME NEW p \in Procs, Send(p), UNCHANGED Bystanders
        PROVE  Talks
    BY <2>1 DEF Talks, Sends, Bystanders
  <2>2. CASE CreateSend(t) \/ CreateSendError(t) \/ DeleteSend(t) \/ ReplaceSend(t) \/ CleanupSend(t)
    <3>1. obj[t] \in Procs
      BY <2>2, HandlerObj DEF CreateSend, CreateSendError, DeleteSend, ReplaceSend, CleanupSend
    <3> QED
      BY <2>1, <2>2, <3>1 DEF CreateSend, SendAndGoto, CreateSendError, DeleteSend, ReplaceSend,
                              CleanupSend, CallSpawn, SpawnStopper
  <2>3. CASE ReplaceSendOld(t)
    <3>1. old[t] \in Procs
      BY <2>3, ReplaceOld DEF ReplaceSendOld, ReplacePC
    <3> QED
      BY <2>1, <2>3, <3>1 DEF ReplaceSendOld, CallSpawn, SpawnStopper
  <2>4. CASE CreateStart(t) \/ DeleteStop(t) \/ DeleteUnregister(t)
    BY <2>4 DEF Talks, CreateStart, StartOK, StartError, DeleteStop, CallStop, DeleteUnregister,
                Bystanders, procVars
  <2>5. CASE \/ ReplaceSame(t) \/ ReplaceStart(t) \/ ReplacePoll(t) \/ ReplaceStopOld(t)
             \/ ReplaceLock(t) \/ ReplaceCommit(t) \/ CleanupStop(t) \/ CleanupRelease(t)
    BY <2>5 DEF Talks, ReplaceSame, ReplaceStart, StartOK, StartError, ReplacePoll, ReplaceStopOld,
                CallStop, ReplaceLock, ReplaceCommit, CleanupStop, CleanupRelease, Bystanders, procVars
  <2> QED
    BY <1>3, <2>2, <2>3, <2>4, <2>5 DEF HandlerStep, CreateStep, DeleteStep, ReplaceStep
<1>4. ASSUME NEW p \in Procs, GoroutineStep(p) \/ EnvironmentStep(p), UNCHANGED pmVars
      PROVE  Talks
  <2>1. UNCHANGED recv \/ Send(p)
    <3>1. CASE RunnerStep(p) \/ RunnerSend(p) \/ EnvironmentStep(p)
      BY <3>1 DEF RunnerStep, RunnerFork, RunnerForkFails, RunnerRecord, RunnerSend, EnvironmentStep,
                  CmdExit, DeletionExpires
    <3>2. CASE ProberStep(p) \/ ProbeSend(p) \/ ProbeSpawn(p)
      BY <3>2 DEF ProberStep, ProbeReady, ProbeFails, ProbeRunning, ProbeCheck, ProbeStop,
                  ProbeSend, ProbeSpawn, SpawnStopper
    <3>3. CASE StopperStep(p)
      BY <3>3 DEF StopperStep, StopperNotRunning, StopperMark, StopperSignal, StopperWaitDone,
                  StopperKill, EndStopper, MoveStopper
    <3> QED
      BY <1>4, <3>1, <3>2, <3>3 DEF GoroutineStep
  <2> QED
    BY <1>4, <2>1 DEF Talks, Sends, pmVars
<1>5. ASSUME NEW p \in Procs, UnregStep(p) \/ CheckSend(p)
      PROVE  Talks
  BY <1>5 DEF Talks, Sends, UnregStep, UnregStopped, UnregCheck, MoveUnreg, UnregGiveUp, UnregRemove, UnregSend, CheckSend,
              procVars
<1>6. CASE MonitorStep
  BY <1>6 DEF Talks, MonitorStep, MonitorRespond, MonitorBroadcast, procVars
<1>7. CASE CheckMountPoints
  BY <1>7 DEF Talks, CheckMountPoints, procVars
<1> QED
  BY <1>1, <1>2, <1>3, <1>4, <1>5, <1>6, <1>7 DEF Next

LEMMA NextResp ==
    ASSUME RespOK, Talks
    PROVE  RespOK'
<1>1. CASE \E p \in Procs : Sends(p)
  BY <1>1, ProcsAssumption DEF Sends, Send, RespOK
<1>2. CASE MonitorStep
  BY <1>2 DEF MonitorStep, MonitorRespond, MonitorBroadcast, RespOK, procVars
<1> QED
  BY <1>1, <1>2 DEF Talks, RespOK

(* Where a handler's step leads.                                           *)
LEMMA HandlerGoes ==
    ASSUME Inv, NEW t \in Callers, HandlerStep(t)
    PROVE  \/ pc'[t] = "idle"
           \/ /\ obj'[t] = obj[t] /\ old'[t] = old[t]
              /\ pc'[t] \in ReplacePC => pc[t] \in ReplacePC
<1> USE DEF Goto, Inv, TypeOK
<1>1. CASE CreateStep(t) \/ DeleteStep(t)
  BY <1>1 DEF CreateStep, CreateSend, SendAndGoto, CreateStart, CreateSendError, DeleteStep,
              DeleteStop, DeleteSend, DeleteUnregister, CallStop, CallSpawn, Finish, ReplacePC
<1>2. CASE ReplaceStep(t) /\ pc[t] # "replace_send"
  BY <1>2 DEF ReplaceStep, ReplaceSame, ReplaceStart, ReplacePoll, ReplaceStopOld, ReplaceSendOld,
              ReplaceLock, ReplaceCommit, ReplaceSend, CleanupStop, CleanupSend, CleanupRelease,
              CallStop, CallSpawn, Finish, ReplacePC
<1>3. CASE ReplaceStep(t) /\ pc[t] = "replace_send"
  BY <1>3 DEF ReplaceStep, ReplaceSame, ReplaceStart, ReplacePoll, ReplaceStopOld, ReplaceSendOld,
              ReplaceLock, ReplaceCommit, ReplaceSend, CleanupStop, CleanupSend, CleanupRelease,
              Finish
<1> QED
  BY <1>1, <1>2, <1>3 DEF HandlerStep

(* Only a new process becomes a replacement.                               *)
NewReplacing == \A p \in Procs : Replacing(p)' => Replacing(p) \/ ~Constructed(p)

OldsOK == \A t \in Callers : OldOK(t)

LEMMA NextOlds ==
    ASSUME Inv, OldsOK, [Next]_vars
    PROVE  OldsOK' /\ NewReplacing
<1>1. ASSUME NewReplacing, NEW t \in Callers, OnlyMoves(t), OldOK(t)'
      PROVE  OldsOK'
  <2>1. \A u \in Callers : pc[u] \in ReplacePC => old[u] \in Procs /\ Constructed(old[u])
    BY ReplaceOld DEF Constructed
  <2> QED
    BY <1>1, <2>1 DEF OldsOK, OldOK, OnlyMoves, SameHandler, NewReplacing
<1>2. ASSUME UNCHANGED <<pc, obj, old>> PROVE OldsOK' /\ NewReplacing
  BY <1>2 DEF OldsOK, OldOK, NewReplacing, Replacing
<1>3. ASSUME NEW t \in Callers, HandlerStep(t)
      PROVE  OldsOK' /\ NewReplacing
  <2>1. "idle" \notin ReplacePC
    BY DEF ReplacePC
  <2>2. OnlyMoves(t)
    BY <1>3, HandlerMoves
  <2>3. pc'[t] \in ReplacePC => pc[t] \in ReplacePC /\ obj'[t] = obj[t] /\ old'[t] = old[t]
    BY <1>3, <2>1, HandlerGoes
  <2>4. NewReplacing
    BY <2>2, <2>3 DEF NewReplacing, Replacing, OnlyMoves, SameHandler
  <2>5. pc[t] \in ReplacePC => old[t] \in Procs /\ Constructed(old[t])
    BY ReplaceOld DEF Constructed
  <2>6. OldOK(t)'
    BY <2>3, <2>4, <2>5 DEF OldsOK, OldOK, NewReplacing
  <2> QED
    BY <1>1, <2>2, <2>4, <2>6
<1>4. ASSUME NEW t \in Callers, CallRPC(t)
      PROVE  OldsOK' /\ NewReplacing
  <2>0. OnlyMoves(t)
    BY <1>4, HandlerMoves
  <2>1. ASSUME NEW p \in Procs, NEW b \in Blocks, ReplaceInit(t, p, b)
        PROVE  OldsOK' /\ NewReplacing
    <3>0. PICK o : o = processes[NameOf[p]]
      OBVIOUS
    <3>1. old'[t] = o /\ obj'[t] = p /\ o # NoProc /\ ~Constructed(p)
      BY <2>1, <3>0 DEF ReplaceInit, Construct, Constructed, Inv, TypeOK
    <3>2. NameOf[o] = NameOf[p] /\ Constructed(o) /\ o \in Procs
      BY <3>0, <3>1, NamesAssumption DEF Inv, Links, MapOK, Constructed
    <3>3. ~Replacing(o)
      BY <3>0, <3>2 DEF Inv, Links, ReplacesOK, Registered, Replacing
    <3>4. NewReplacing
      BY <2>0, <3>1 DEF NewReplacing, Replacing, OnlyMoves, SameHandler
    <3>5. ~Replacing(o)'
      BY <3>2, <3>3, <3>4 DEF NewReplacing
    <3>6. OldOK(t)'
      BY <3>1, <3>2, <3>5 DEF OldOK
    <3> QED
      BY <1>1, <2>0, <3>4, <3>6
  <2>2. ASSUME NEW s, Goto(t, s), s \notin ReplacePC PROVE OldsOK' /\ NewReplacing
    <3>1. pc'[t] \notin ReplacePC
      BY <2>2 DEF Goto, Inv, TypeOK
    <3>2. NewReplacing
      BY <2>0, <3>1 DEF NewReplacing, Replacing, OnlyMoves, SameHandler
    <3> QED
      BY <1>1, <2>0, <3>1, <3>2 DEF OldOK
  <2>3. ASSUME NEW p \in Procs, NEW b \in Blocks, CreateRegister(t, p, b)
        PROVE  OldsOK' /\ NewReplacing
    BY <2>2, <2>3 DEF CreateRegister, ReplacePC
  <2>4. ASSUME NEW p \in Procs, DeleteFind(t, p) PROVE OldsOK' /\ NewReplacing
    BY <2>2, <2>4 DEF DeleteFind, ReplacePC
  <2>5. CASE Refuse(t)
    BY <1>2, <2>5 DEF Refuse, vars, pmVars
  <2> QED
    BY <1>4, <2>1, <2>3, <2>4, <2>5 DEF CallRPC
<1>5. CASE UNCHANGED pmVars
  BY <1>2, <1>5 DEF pmVars
<1>6. ASSUME NEW p \in Procs, UnregStep(p) \/ CheckSend(p) PROVE UNCHANGED <<pc, obj, old>>
  BY <1>6 DEF UnregStep, UnregStopped, UnregCheck, MoveUnreg, UnregGiveUp, UnregRemove, UnregSend, CheckSend
<1>7. MonitorStep \/ CheckMountPoints => UNCHANGED <<pc, obj, old>>
  BY DEF MonitorStep, MonitorRespond, MonitorBroadcast, CheckMountPoints
<1>8. UNCHANGED vars => UNCHANGED pmVars
  BY DEF vars
<1> QED
  BY <1>2, <1>3, <1>4, <1>5, <1>6, <1>7, <1>8 DEF Next

-----------------------------------------------------------------------------
(* Stoppers of a process that is meant to stay.                            *)

(* A prober that has not heard of the end of p.                            *)
ProbeEnd(p) ==
    /\ prober[p] \in {"probe", "ready", "failed", "stop", "send_stop", "send_kill"} =>
         (runner[p] \in {"send", "done"} => IsStopped(p))
    /\ prober[p] \in {"failed", "stop", "send_stop", "send_kill"} => cmd[p] # "new"

(* A replacement that is still to be registered.                           *)
KeptPC == ReplacePC \ {"cleanup_stop", "cleanup_send", "cleanup_release"}
Fostered(p) == \E t \in Callers : pc[t] \in KeptPC /\ obj[t] = p

Concerned(p) == (Registered(p) /\ ~Removal(p)) \/ Fostered(p)

(* Only the prober has p stopped, after p was forked or could not be.      *)
Known(p) ==
    /\ ~(stoppers[p]["nocmd"] > 0)
    /\ stoppers[p]["mark"] > 0 => cmd[p] = "exited"
    /\ \A s \in StopperPC \ {"wait"} : stoppers[p][s] > 0 =>
         /\ cmd[p] \in {"live", "exited"}
         /\ runner[p] \in {"send", "done"} => IsStopped(p)
         /\ prober[p] \notin {"probe", "ready"}

(* What a step of a handler does to a process: it may change its State but *)
(* never takes a recorded end back,                                        *)
Restates(p) ==
    /\ cmd'[p] = cmd[p] /\ runner'[p] = runner[p] /\ prober'[p] = prober[p]
    /\ stoppers'[p] = stoppers[p]
    /\ IsStopped(p) => IsStopped(p)'
(* start it,                                                               *)
Begins(p) ==
    /\ cmd[p] = "nil" /\ cmd'[p] = "new" /\ runner'[p] = "run" /\ prober'[p] = "probe"
    /\ state'[p] = state[p] /\ stoppers'[p] = stoppers[p]
(* or send a stopper to one it gives up.                                   *)
GivesUp(p) ==
    /\ state'[p] = state[p] /\ cmd'[p] = cmd[p] /\ runner'[p] = runner[p]
    /\ prober'[p] = prober[p]
    /\ ~Concerned(p)'

LEMMA NotConcerned ==
    ASSUME Inv', OldsOK', NEW t \in Callers, NEW p \in Procs,
           \/ pc'[t] \in {"delete_unregister", "cleanup_release"} /\ obj'[t] = p
           \/ pc'[t] = "replace_lock" /\ old'[t] = p
    PROVE  ~Concerned(p)'
<1>1. CASE pc'[t] = "delete_unregister" /\ obj'[t] = p
  <2>1. Removal(p)'
    BY <1>1 DEF Removal, HandlerRemoves
  <2>2. ~Fostered(p)'
    BY <1>1 DEF Fostered, KeptPC, ReplacePC, Inv, Links, ReplacesOK
  <2> QED
    BY <2>1, <2>2 DEF Concerned
<1>2. CASE pc'[t] = "cleanup_release" /\ obj'[t] = p
  <2>1. ~Registered(p)'
    BY <1>2 DEF ReplacePC, Inv, Links, ReplacesOK
  <2>2. ~Fostered(p)'
    BY <1>2 DEF Fostered, KeptPC, ReplacePC, Inv, Links, ReplacesOK
  <2> QED
    BY <2>1, <2>2 DEF Concerned
<1>3. CASE pc'[t] = "replace_lock" /\ old'[t] = p
  <2>1. Removal(p)'
    BY <1>3 DEF Removal, HandlerRemoves, HarmlessOldPC
  <2>2. ~Replacing(p)'
    BY <1>3 DEF OldsOK, OldOK, ReplacePC
  <2>3. ~Fostered(p)'
    BY <2>2 DEF Fostered, KeptPC, Replacing
  <2> QED
    BY <2>1, <2>3 DEF Concerned
<1> QED
  BY <1>1, <1>2, <1>3

LEMMA StopLockedRestates ==
    ASSUME Inv, NEW p \in Procs, StopLocked(p), UNCHANGED prober, NEW q \in Procs
    PROVE  Restates(q)
  BY DEF StopLocked, Restates, NeedStop, IsStopped, Terminal, Inv, TypeOK, ProcTypeOK

LEMMA HandlerTouches ==
    ASSUME Inv, StartInv, Inv', OldsOK', NEW t \in Callers, CallRPC(t) \/ HandlerStep(t), NEW q \in Procs
    PROVE  Restates(q) \/ Begins(q) \/ GivesUp(q)
<1>1. ASSUME UNCHANGED <<state, cmd, runner, prober, stoppers>> PROVE Restates(q)
  BY <1>1 DEF Restates, IsStopped
<1>2. ASSUME NEW p \in Procs, NEW b, Construct(p, b) PROVE Restates(q)
  BY <1>2 DEF Construct, Restates, IsStopped, Terminal, Inv, TypeOK, ProcTypeOK
<1>3. CASE CallRPC(t)
  BY <1>1, <1>2, <1>3 DEF CallRPC, CreateRegister, ReplaceInit, DeleteFind, Refuse, vars, procVars
<1>4. ASSUME NEW p \in Procs, StartOK(p), cmd[p] = "nil" PROVE Restates(q) \/ Begins(q)
  BY <1>4 DEF StartOK, Restates, Begins, IsStopped, Inv, TypeOK, ProcTypeOK
<1>5. ASSUME NEW p \in Procs, StartError(p) PROVE Restates(q)
  BY <1>5 DEF StartError, Restates, IsStopped, Terminal, Inv, TypeOK, ProcTypeOK
<1>6. ASSUME NEW p \in Procs, NEW s1, NEW s2, CallStop(t, p, s1, s2) PROVE Restates(q)
  BY <1>6, StopLockedRestates DEF CallStop
<1>7. ASSUME NEW p \in Procs, NEW s, CallSpawn(t, p, s), ~Concerned(p)'
      PROVE  Restates(q) \/ GivesUp(q)
  BY <1>7 DEF CallSpawn, SpawnStopper, GivesUp, Restates, IsStopped, Inv, TypeOK, ProcTypeOK
<1>8. pc[t] # "idle" => obj[t] \in Procs
  BY HandlerObj
<1>9. CASE CreateSend(t) \/ CreateSendError(t) \/ ReplaceSend(t) \/ DeleteUnregister(t)
  BY <1>1, <1>9 DEF CreateSend, SendAndGoto, CreateSendError, ReplaceSend, DeleteUnregister, procVars
<1>10. CASE ReplaceSame(t) \/ ReplacePoll(t) \/ ReplaceLock(t) \/ ReplaceCommit(t) \/ CleanupRelease(t)
  BY <1>1, <1>10 DEF ReplaceSame, ReplacePoll, ReplaceLock, ReplaceCommit, CleanupRelease, procVars
<1>11. CASE CreateStart(t) \/ ReplaceStart(t)
  <2>1. pc[t] \in StartPC /\ cmd[obj[t]] = "nil" /\ obj[t] \in Procs
    BY <1>8, <1>11 DEF CreateStart, ReplaceStart, StartPC, StartInv, StartsOK
  <2> QED
    BY <1>4, <1>5, <1>11, <2>1 DEF CreateStart, ReplaceStart
<1>12. CASE DeleteStop(t) \/ CleanupStop(t)
  BY <1>6, <1>8, <1>12 DEF DeleteStop, CleanupStop
<1>13. CASE ReplaceStopOld(t)
  <2>1. old[t] \in Procs
    BY <1>13, ReplaceOld DEF ReplaceStopOld, ReplacePC
  <2> QED
    BY <1>6, <1>13, <2>1 DEF ReplaceStopOld
<1>14. CASE DeleteSend(t) \/ CleanupSend(t) \/ ReplaceSendOld(t)
  <2>1. pc[t] = "replace_send_old" => old[t] \in Procs
    BY ReplaceOld DEF ReplacePC
  <2>2. PICK p \in Procs, s \in PCs :
           /\ CallSpawn(t, p, s)
           /\ \/ s \in {"delete_unregister", "cleanup_release"} /\ obj[t] = p
              \/ s = "replace_lock" /\ old[t] = p
    BY <1>8, <1>14, <2>1
    DEF DeleteSend, CleanupSend, ReplaceSendOld, PCs, DeletePC, ReplacePC
  <2>3. pc'[t] = s /\ obj'[t] = obj[t] /\ old'[t] = old[t]
    BY <2>2 DEF CallSpawn, Goto, Inv, TypeOK
  <2>4. ~Concerned(p)'
    BY <2>2, <2>3, NotConcerned
  <2> QED
    BY <1>7, <2>2, <2>4
<1> QED
  BY <1>3, <1>9, <1>10, <1>11, <1>12, <1>13, <1>14 DEF HandlerStep, CreateStep, DeleteStep, ReplaceStep

(* What keeps ProbeEnd and Known.                                          *)
LEMMA TouchKeeps ==
    ASSUME StartInv, NEW p \in Procs, ProbeEnd(p), Restates(p) \/ Begins(p) \/ GivesUp(p)
    PROVE  /\ ProbeEnd(p)'
           /\ Known(p) /\ Concerned(p)' => Known(p)'
<1>1. CASE Restates(p)
  BY <1>1 DEF Restates, ProbeEnd, Known
<1>2. CASE Begins(p)
  BY <1>2 DEF Begins, ProbeEnd, Known, IsStopped
<1>3. CASE GivesUp(p)
  BY <1>3 DEF GivesUp, ProbeEnd, IsStopped
<1> QED
  BY <1>1, <1>2, <1>3

(* The goroutines of p touch no other process.                             *)
LEMMA OthersUntouched ==
    ASSUME Inv, NEW p \in Procs, GoroutineStep(p) \/ EnvironmentStep(p), NEW q \in Procs, q # p
    PROVE  Restates(q) /\ state'[q] = state[q]
<1> USE DEF Restates, IsStopped, Inv, TypeOK, ProcTypeOK
<1>1. CASE RunnerStep(p) \/ RunnerSend(p) \/ EnvironmentStep(p)
  BY <1>1 DEF RunnerStep, RunnerFork, RunnerForkFails, RunnerRecord, RunnerSend, EnvironmentStep,
              CmdExit, DeletionExpires
<1>2. CASE ProberStep(p) \/ ProbeSend(p)
  BY <1>2 DEF ProberStep, ProbeReady, ProbeFails, ProbeRunning, ProbeCheck, ProbeStop, StopLocked,
              ProbeSend
<1>3. CASE ProbeSpawn(p)
  BY <1>3 DEF ProbeSpawn, SpawnStopper
<1>4. CASE StopperStep(p)
  BY <1>4 DEF StopperStep, StopperNotRunning, StopperMark, StopperSignal, StopperWaitDone,
              StopperKill, EndStopper, MoveStopper
<1> QED
  BY <1>1, <1>2, <1>3, <1>4 DEF GoroutineStep

(* Stopper goroutines end or move on.                                      *)
StoppersGo(p) ==
    /\ \A s \in {"nocmd", "stop", "kill"} : stoppers'[p][s] > 0 => stoppers[p][s] > 0
    /\ stoppers'[p]["mark"] > 0 =>
         \/ stoppers[p]["mark"] > 0
         \/ \E s \in {"nocmd", "stop", "kill"} :
               stoppers[p][s] > 0 /\ (s = "nocmd" \/ ~IsRunning(p))
    /\ UNCHANGED <<cmd, runner, prober>>

LEMMA StopperGoes ==
    ASSUME Inv, NEW p \in Procs, StopperStep(p)
    PROVE  StoppersGo(p) /\ (state'[p] = state[p] \/ StopperMark(p))
<1>0. \A s \in StopperPC : stoppers[p][s] \in Nat
  BY MaxStoppersAssumption DEF Inv, TypeOK, ProcTypeOK
<1>1. stoppers \in [Procs -> [StopperPC -> 0 .. MaxStoppers]]
  BY DEF Inv, TypeOK, ProcTypeOK
<1>2. ASSUME NEW s \in StopperPC, EndStopper(p, s)
      PROVE  /\ \A r \in StopperPC : stoppers'[p][r] > 0 => stoppers[p][r] > 0
             /\ UNCHANGED <<cmd, runner, prober>>
  BY <1>0, <1>1, <1>2 DEF EndStopper
<1>3. ASSUME NEW s \in StopperPC, NEW r \in StopperPC, MoveStopper(p, s, r)
      PROVE  /\ \A u \in StopperPC \ {r} : stoppers'[p][u] > 0 => stoppers[p][u] > 0
             /\ stoppers[p][s] > 0
             /\ UNCHANGED <<cmd, runner, prober>>
  BY <1>0, <1>1, <1>3 DEF MoveStopper
<1>4. ASSUME NEW s \in {"nocmd", "stop", "kill"}, StopperNotRunning(p, s)
      PROVE  StoppersGo(p) /\ state'[p] = state[p]
  BY <1>2, <1>3, <1>4 DEF StopperNotRunning, StopperPC, StoppersGo
<1>5. CASE StopperMark(p)
  BY <1>2, <1>5 DEF StopperMark, StopperPC, StoppersGo
<1>6. CASE StopperSignal(p)
  BY <1>3, <1>6 DEF StopperSignal, StopperPC, StoppersGo
<1>7. CASE StopperWaitDone(p) \/ StopperKill(p)
  BY <1>2, <1>7 DEF StopperWaitDone, StopperKill, StopperPC, StoppersGo
<1> QED
  BY <1>4, <1>5, <1>6, <1>7 DEF StopperStep

LEMMA StopperKeeps ==
    ASSUME Inv, NEW p \in Procs, ProbeEnd(p), StopperStep(p)
    PROVE  ProbeEnd(p)' /\ (Known(p) => Known(p)')
<1>1. StoppersGo(p) /\ (state'[p] = state[p] \/ StopperMark(p))
  BY StopperGoes
<1>2. IsStopped(p) => IsStopped(p)'
  BY <1>1 DEF StopperMark, IsStopped, Terminal, Inv, TypeOK, ProcTypeOK
<1>3. ProbeEnd(p)'
  BY <1>1, <1>2 DEF ProbeEnd, StoppersGo
<1>4. ASSUME Known(p) PROVE Known(p)'
  <2>1. stoppers'[p]["mark"] > 0 => stoppers[p]["mark"] > 0 \/ cmd[p] = "exited"
    BY <1>1, <1>4 DEF StoppersGo, Known, StopperPC, IsRunning
  <2>2. ASSUME NEW s \in StopperPC \ {"wait"}, stoppers'[p][s] > 0
        PROVE  \E r \in StopperPC \ {"wait"} : stoppers[p][r] > 0
    BY <1>1, <2>2 DEF StoppersGo, StopperPC
  <2> QED
    BY <1>1, <1>2, <1>4, <2>1, <2>2 DEF Known, StoppersGo, StopperPC
<1> QED
  BY <1>3, <1>4

LEMMA RunnerKeeps ==
    ASSUME Inv, StartInv, NEW p \in Procs, ProbeEnd(p),
           RunnerStep(p) \/ RunnerSend(p) \/ EnvironmentStep(p)
    PROVE  ProbeEnd(p)' /\ (Known(p) => Known(p)')
<1> USE DEF Inv, TypeOK, ProcTypeOK
<1>1. /\ cmd[p] = "new" <=> runner[p] = "run"
      /\ cmd[p] = "live" <=> runner[p] = "wait"
  BY DEF StartInv, CommandsOK
<1>2. CASE RunnerFork(p)
  BY <1>1, <1>2 DEF RunnerFork, ProbeEnd, Known, IsStopped
<1>3. CASE RunnerForkFails(p)
  BY <1>1, <1>3 DEF RunnerForkFails, ProbeEnd, Known, IsStopped
<1>4. CASE RunnerRecord(p)
  BY <1>1, <1>4 DEF RunnerRecord, ProbeEnd, Known, IsStopped, Terminal
<1>5. CASE RunnerSend(p)
  BY <1>1, <1>5 DEF RunnerSend, ProbeEnd, Known, IsStopped
<1>6. CASE CmdExit(p)
  BY <1>1, <1>6 DEF CmdExit, ProbeEnd, Known, IsStopped
<1>7. CASE DeletionExpires(p)
  BY <1>7 DEF DeletionExpires, ProbeEnd, Known, IsStopped
<1> QED
  BY <1>2, <1>3, <1>4, <1>5, <1>6, <1>7 DEF RunnerStep, EnvironmentStep

LEMMA ProberKeeps ==
    ASSUME Inv, StartInv, ProbersOK, NEW p \in Procs, ProbeEnd(p),
           ProberStep(p) \/ ProbeSend(p) \/ ProbeSpawn(p)
    PROVE  ProbeEnd(p)' /\ (Known(p) => Known(p)')
<1> USE DEF Inv, TypeOK, ProcTypeOK
<1>1. CASE ProbeReady(p)
  BY <1>1 DEF ProbeReady, ProbeEnd, Known, IsStopped
<1>2. CASE ProbeFails(p)
  <2>1. cmd[p] # "new"
    BY <1>2 DEF ProbeFails, ProbeStopClosed, MinutePassed, StartInv, CommandsOK
  <2> QED
    BY <1>2, <2>1 DEF ProbeFails, ProbeEnd, Known, IsStopped
<1>3. CASE ProbeRunning(p)
  BY <1>3 DEF ProbeRunning, ProbeEnd, Known, IsStopped
<1>4. CASE ProbeCheck(p)
  BY <1>4 DEF ProbeCheck, ProbeEnd, Known, IsStopped
<1>5. CASE ProbeStop(p)
  <2>1. IsStopped(p) => IsStopped(p)'
    BY <1>5 DEF ProbeStop, StopLocked, NeedStop, IsStopped, Terminal
  <2>2. prober'[p] \in {"send_stop", "send_kill", "done"}
    BY <1>5 DEF ProbeStop
  <2>3. UNCHANGED <<cmd, runner, stoppers>>
    BY <1>5 DEF ProbeStop, StopLocked
  <2> QED
    BY <1>5, <2>1, <2>2, <2>3 DEF ProbeStop, ProbeEnd, Known
<1>6. CASE ProbeSend(p)
  BY <1>6 DEF ProbeSend, ProbeEnd, Known, IsStopped
<1>7. CASE ProbeSpawn(p)
  <2>1. /\ cmd[p] \in {"live", "exited"}
        /\ runner[p] \in {"send", "done"} => IsStopped(p)
    BY <1>7 DEF ProbeSpawn, ProbeEnd, ProbersOK
  <2>2. PICK m \in {"stop", "kill"} : SpawnStopper(p, m)
    BY <1>7 DEF ProbeSpawn
  <2>3. stoppers'[p] = [stoppers[p] EXCEPT ![m] = @ + 1]
    BY <2>1, <2>2 DEF SpawnStopper
  <2>4. prober'[p] = "done" /\ UNCHANGED <<state, cmd, runner>>
    BY <1>7, <2>2 DEF ProbeSpawn, SpawnStopper
  <2>5. \A s \in {"nocmd", "mark"} : stoppers'[p][s] = stoppers[p][s]
    BY <2>3
  <2> QED
    BY <2>1, <2>4, <2>5 DEF ProbeEnd, Known, IsStopped
<1> QED
  BY <1>1, <1>2, <1>3, <1>4, <1>5, <1>6, <1>7 DEF ProberStep

(* The steps that touch no process at all.                                 *)
LEMMA IdleStep ==
    ASSUME Inv, \/ UNCHANGED vars \/ MonitorStep \/ CheckMountPoints
                \/ \E p \in Procs : UnregStep(p) \/ CheckSend(p)
    PROVE  UNCHANGED <<state, cmd, runner, prober, stoppers>> /\ UNCHANGED <<pc, obj, old>>
<1>1. CASE UNCHANGED vars
  BY <1>1 DEF vars, procVars, pmVars
<1>2. CASE MonitorStep \/ CheckMountPoints
  BY <1>2 DEF MonitorStep, MonitorRespond, MonitorBroadcast, CheckMountPoints, procVars
<1>3. ASSUME NEW p \in Procs, UnregStep(p) \/ CheckSend(p)
      PROVE  UNCHANGED <<state, cmd, runner, prober, stoppers>> /\ UNCHANGED <<pc, obj, old>>
  BY <1>3 DEF UnregStep, UnregStopped, UnregCheck, MoveUnreg, UnregGiveUp, UnregRemove, UnregSend, CheckSend, procVars
<1> QED
  BY <1>1, <1>2, <1>3

LEMMA NextKeeps ==
    ASSUME Inv, StartInv, ProbersOK, Inv', OldsOK', [Next]_vars, NEW q \in Procs, ProbeEnd(q)
    PROVE  ProbeEnd(q)' /\ (Known(q) /\ Concerned(q)' => Known(q)')
<1>1. ASSUME NEW t \in Callers, CallRPC(t) \/ HandlerStep(t)
      PROVE  ProbeEnd(q)' /\ (Known(q) /\ Concerned(q)' => Known(q)')
  BY <1>1, HandlerTouches, TouchKeeps
<1>2. ASSUME NEW p \in Procs, GoroutineStep(p) \/ EnvironmentStep(p)
      PROVE  ProbeEnd(q)' /\ (Known(q) /\ Concerned(q)' => Known(q)')
  <2>1. CASE q # p
    BY <1>2, <2>1, OthersUntouched, TouchKeeps
  <2>2. CASE q = p
    BY <1>2, <2>2, RunnerKeeps, ProberKeeps, StopperKeeps DEF GoroutineStep
  <2> QED
    BY <2>1, <2>2
<1>3. CASE \/ UNCHANGED vars \/ MonitorStep \/ CheckMountPoints
           \/ \E p \in Procs : UnregStep(p) \/ CheckSend(p)
  <2>1. Restates(q)
    BY <1>3, IdleStep DEF Restates, IsStopped
  <2> QED
    BY <2>1, TouchKeeps
<1> QED
  BY <1>1, <1>2, <1>3 DEF Next

-----------------------------------------------------------------------------
(* Whoever has to send does, and whoever changes a State has to send.      *)

LEMMA SenderStep ==
    ASSUME Inv, NEW t \in Callers, HandlerStep(t), NEW q \in Procs, HandlerSends(t, q)
    PROVE  Sends(q)
<1>1. CASE pc[t] \in {"create_send", "create_send_error", "replace_send"}
  BY <1>1 DEF HandlerSends, HandlerStep, CreateStep, DeleteStep, ReplaceStep, CreateSend, SendAndGoto,
              CreateStart, CreateSendError, DeleteStop, DeleteSend, DeleteUnregister, ReplaceSame,
              ReplaceStart, ReplacePoll, ReplaceStopOld, ReplaceSendOld, ReplaceLock, ReplaceCommit,
              ReplaceSend, CleanupStop, CleanupSend, CleanupRelease, Sends, Bystanders
<1>2. CASE pc[t] \in {"delete_send", "cleanup_send", "replace_send_old"}
  BY <1>2 DEF HandlerSends, HandlerStep, CreateStep, DeleteStep, ReplaceStep, CreateSend,
              CreateStart, CreateSendError, DeleteStop, DeleteSend, DeleteUnregister, ReplaceSame,
              ReplaceStart, ReplacePoll, ReplaceStopOld, ReplaceSendOld, ReplaceLock, ReplaceCommit,
              ReplaceSend, CleanupStop, CleanupSend, CleanupRelease, Sends, Bystanders,
              CallSpawn, SpawnStopper, SendObjPC
<1> QED
  BY <1>1, <1>2 DEF HandlerSends, SendObjPC

LEMMA NextSending ==
    ASSUME Inv, StartInv, ProbersOK, Inv', OldsOK', [Next]_vars, NEW q \in Procs, Sending(q)
    PROVE  Sending(q)' \/ Sends(q)
<1>1. ASSUME NEW t \in Callers, CallRPC(t) \/ HandlerStep(t)
      PROVE  Sending(q)' \/ Sends(q)
  <2>1. Restates(q) \/ Begins(q) \/ GivesUp(q)
    BY <1>1, HandlerTouches
  <2>2. Begins(q) => runner[q] = "none" /\ prober[q] = "none"
    BY DEF Begins, StartInv, CommandsOK, ProbersOK
  <2>3. CASE runner[q] \in {"ok", "err", "send"} \/ prober[q] \in {"send", "send_stop", "send_kill"}
    BY <2>1, <2>2, <2>3 DEF Restates, GivesUp, Sending
  <2>4. ASSUME NEW u \in Callers, HandlerSends(u, q) PROVE Sending(q)' \/ Sends(q)
    <3>1. CASE u # t
      BY <1>1, <2>4, <3>1, HandlerMoves DEF OnlyMoves, SameHandler, HandlerSends, Sending
    <3>2. CASE u = t
      <4>1. pc[t] # "idle"
        BY <2>4, <3>2 DEF HandlerSends, SendObjPC
      <4>2. HandlerStep(t) \/ UNCHANGED vars
        BY <1>1, <4>1 DEF CallRPC, CreateRegister, ReplaceInit, DeleteFind, Refuse
      <4>3. CASE UNCHANGED vars
        BY <2>4, <4>3 DEF vars, pmVars, HandlerSends, Sending
      <4> QED
        BY <2>4, <3>2, <4>2, <4>3, SenderStep
    <3> QED
      BY <3>1, <3>2
  <2> QED
    BY <2>3, <2>4 DEF Sending
<1>2. ASSUME NEW p \in Procs, GoroutineStep(p) \/ EnvironmentStep(p), UNCHANGED pmVars
      PROVE  Sending(q)' \/ Sends(q)
  <2>1. \A t \in Callers : HandlerSends(t, q) => HandlerSends(t, q)'
    BY <1>2 DEF pmVars, HandlerSends
  <2>2. CASE q # p
    <3>1. Restates(q)
      BY <1>2, <2>2, OthersUntouched
    <3> QED
      BY <2>1, <3>1 DEF Restates, Sending
  <2>3. CASE q = p
    <3> USE DEF Inv, TypeOK, ProcTypeOK
    <3>1. CASE RunnerStep(p) \/ EnvironmentStep(p)
      <4>1. runner[p] \in {"ok", "err", "send"} => runner'[p] \in {"ok", "err", "send"}
        BY <3>1 DEF RunnerStep, RunnerFork, RunnerForkFails, RunnerRecord, EnvironmentStep,
                    CmdExit, DeletionExpires, StartInv, CommandsOK
      <4>2. prober' = prober
        BY <3>1 DEF RunnerStep, RunnerFork, RunnerForkFails, RunnerRecord, EnvironmentStep,
                    CmdExit, DeletionExpires
      <4> QED
        BY <2>1, <2>3, <4>1, <4>2 DEF Sending
    <3>2. CASE RunnerSend(p) \/ ProbeSend(p) \/ ProbeSpawn(p)
      BY <1>2, <2>3, <3>2 DEF RunnerSend, ProbeSend, ProbeSpawn, SpawnStopper, Sends, pmVars
    <3>3. CASE ProberStep(p)
      <4>1. /\ runner' = runner
            /\ prober[p] \in {"send", "send_stop", "send_kill"} => prober'[p] = prober[p]
        BY <3>3 DEF ProberStep, ProbeReady, ProbeFails, ProbeRunning, ProbeCheck, ProbeStop, StopLocked
      <4> QED
        BY <2>1, <2>3, <4>1 DEF Sending
    <3>4. CASE StopperStep(p)
      BY <2>1, <2>3, <3>4, StopperGoes DEF StoppersGo, Sending
    <3> QED
      BY <1>2, <3>1, <3>2, <3>3, <3>4 DEF GoroutineStep
  <2> QED
    BY <2>2, <2>3
<1>3. CASE \/ UNCHANGED vars \/ MonitorStep \/ CheckMountPoints
           \/ \E p \in Procs : UnregStep(p) \/ CheckSend(p)
  BY <1>3, IdleStep DEF Sending, HandlerSends
<1> QED
  BY <1>1, <1>2, <1>3 DEF Next

(* A State that changes for its watchers, with nobody about to say so.     *)
Kinds(q) == SameKind(state[q], state'[q]) \/ Sending(q)' \/ ~Registered(q)'

LEMMA HandlerKinds ==
    ASSUME Inv, NEW t \in Callers, CallRPC(t) \/ HandlerStep(t), NEW q \in Procs
    PROVE  Kinds(q)
<1>1. ASSUME state'[q] = state[q] PROVE Kinds(q)
  BY <1>1 DEF Kinds, SameKind
<1>2. ASSUME NEW s \in SendObjPC, Goto(t, s), obj'[t] = q PROVE Kinds(q)
  BY <1>2 DEF Kinds, Sending, HandlerSends, Goto, Inv, TypeOK
<1>3. ASSUME NEW p \in Procs, NEW b \in Blocks, CreateRegister(t, p, b)
      PROVE  Kinds(q)
  <2>1. obj'[t] = p /\ Goto(t, "create_send")
    BY <1>3 DEF CreateRegister, Inv, TypeOK
  <2>2. q # p => state'[q] = state[q]
    BY <1>3 DEF CreateRegister, Construct, Inv, TypeOK, ProcTypeOK
  <2> QED
    BY <1>1, <1>2, <2>1, <2>2 DEF SendObjPC
<1>4. ASSUME NEW p \in Procs, NEW b \in Blocks, ReplaceInit(t, p, b)
      PROVE  Kinds(q)
  <2>1. state[p] = "none" /\ UNCHANGED processes
    BY <1>4 DEF ReplaceInit, Construct
  <2>2. ~Registered(p)'
    BY <2>1, FreshOwnsNothing DEF Owns, Registered
  <2>3. q # p => state'[q] = state[q]
    BY <1>4 DEF ReplaceInit, Construct, Inv, TypeOK, ProcTypeOK
  <2> QED
    BY <1>1, <2>2, <2>3 DEF Kinds
<1>5. CASE CallRPC(t)
  <2>1. ASSUME NEW p \in Procs, DeleteFind(t, p) PROVE Kinds(q)
    BY <1>1, <2>1 DEF DeleteFind, procVars
  <2>2. CASE Refuse(t)
    BY <1>1, <2>2 DEF Refuse, vars, procVars
  <2> QED
    BY <1>3, <1>4, <1>5, <2>1, <2>2 DEF CallRPC
<1>6. pc[t] # "idle" => obj[t] \in Procs
  BY HandlerObj
<1>7. CASE CreateStart(t)
  <2>1. CASE StartOK(obj[t])
    BY <1>1, <2>1 DEF StartOK
  <2>2. CASE StartError(obj[t]) /\ Goto(t, "create_send_error") /\ UNCHANGED obj
    <3>1. q # obj[t] => state'[q] = state[q]
      BY <2>2 DEF StartError, Inv, TypeOK, ProcTypeOK
    <3> QED
      BY <1>1, <1>2, <2>2, <3>1 DEF SendObjPC
  <2> QED
    BY <1>7, <2>1, <2>2 DEF CreateStart
<1>8. CASE ReplaceStart(t)
  <2>1. ~Registered(obj[t]) /\ UNCHANGED processes
    BY <1>8 DEF ReplaceStart, ReplacePC, Inv, Links, ReplacesOK
  <2>2. q # obj[t] => state'[q] = state[q]
    BY <1>8 DEF ReplaceStart, StartOK, StartError, Inv, TypeOK, ProcTypeOK
  <2> QED
    BY <1>1, <2>1, <2>2 DEF Kinds, Registered
<1>9. ASSUME NEW p \in Procs, NEW s1, NEW s2, CallStop(t, p, s1, s2)
      PROVE  state'[q] = state[q] \/ (q = p /\ Goto(t, s1) /\ UNCHANGED <<obj, old>>)
  BY <1>9 DEF CallStop, StopLocked, StopMode, Inv, TypeOK, ProcTypeOK
<1>10. CASE DeleteStop(t) \/ CleanupStop(t)
  BY <1>1, <1>2, <1>6, <1>9, <1>10 DEF DeleteStop, CleanupStop, SendObjPC
<1>11. CASE ReplaceStopOld(t)
  <2>1. old[t] \in Procs
    BY <1>11, ReplaceOld DEF ReplaceStopOld, ReplacePC
  <2>2. ASSUME q = old[t], Goto(t, "replace_send_old"), UNCHANGED old PROVE Kinds(q)
    <3>1. HandlerSends(t, q)'
      BY <2>2 DEF HandlerSends, Goto, Inv, TypeOK
    <3> QED
      BY <3>1 DEF Kinds, Sending
  <2> QED
    BY <1>1, <1>9, <1>11, <2>1, <2>2 DEF ReplaceStopOld
<1>12. CASE \/ CreateSend(t) \/ CreateSendError(t) \/ ReplaceSend(t) \/ DeleteUnregister(t)
            \/ DeleteSend(t) \/ CleanupSend(t) \/ ReplaceSendOld(t)
  BY <1>1, <1>12 DEF CreateSend, SendAndGoto, CreateSendError, ReplaceSend, DeleteUnregister,
                     DeleteSend, CleanupSend, ReplaceSendOld, CallSpawn, SpawnStopper, procVars
<1>13. CASE ReplaceSame(t) \/ ReplacePoll(t) \/ ReplaceLock(t) \/ ReplaceCommit(t) \/ CleanupRelease(t)
  BY <1>1, <1>13 DEF ReplaceSame, ReplacePoll, ReplaceLock, ReplaceCommit, CleanupRelease, procVars
<1> QED
  BY <1>5, <1>7, <1>8, <1>10, <1>11, <1>12, <1>13 DEF HandlerStep, CreateStep, DeleteStep, ReplaceStep

LEMMA NextKinds ==
    ASSUME Inv, [Next]_vars, NEW q \in Procs
    PROVE  Kinds(q) \/ (StopperMark(q) /\ UNCHANGED pmVars)
<1>1. ASSUME state'[q] = state[q] PROVE Kinds(q)
  BY <1>1 DEF Kinds, SameKind
<1>2. ASSUME NEW t \in Callers, CallRPC(t) \/ HandlerStep(t) PROVE Kinds(q)
  BY <1>2, HandlerKinds
<1>3. ASSUME NEW p \in Procs, GoroutineStep(p) \/ EnvironmentStep(p), UNCHANGED pmVars
      PROVE  Kinds(q) \/ (StopperMark(q) /\ UNCHANGED pmVars)
  <2>1. CASE q # p
    BY <1>1, <1>3, <2>1, OthersUntouched
  <2>2. CASE q = p
    <3> USE DEF Inv, TypeOK, ProcTypeOK
    <3>1. CASE RunnerStep(p) \/ EnvironmentStep(p) \/ RunnerSend(p)
      <4>1. state'[q] = state[q] \/ runner'[q] = "send"
        BY <2>2, <3>1 DEF RunnerStep, RunnerFork, RunnerForkFails, RunnerRecord, RunnerSend, EnvironmentStep,
                    CmdExit, DeletionExpires
      <4> QED
        BY <1>1, <4>1 DEF Kinds, Sending
    <3>2. CASE ProberStep(p) \/ ProbeSend(p) \/ ProbeSpawn(p)
      <4>1. CASE ProbeStop(p)
        <5>1. state'[q] = state[q] \/ prober'[q] = "send_stop"
          BY <2>2, <4>1 DEF ProbeStop, StopLocked, StopMode
        <5> QED
          BY <1>1, <5>1 DEF Kinds, Sending
      <4>2. CASE ~ProbeStop(p)
        <5>1. state'[q] = state[q] \/ prober'[q] = "send"
          BY <2>2, <3>2, <4>2 DEF ProberStep, ProbeReady, ProbeFails, ProbeRunning, ProbeCheck,
                                  ProbeSend, ProbeSpawn, SpawnStopper
        <5> QED
          BY <1>1, <5>1 DEF Kinds, Sending
      <4> QED
        BY <4>1, <4>2
    <3>3. CASE StopperStep(p)
      BY <1>1, <1>3, <2>2, <3>3, StopperGoes
    <3> QED
      BY <1>3, <3>1, <3>2, <3>3 DEF GoroutineStep
  <2> QED
    BY <2>1, <2>2
<1>4. CASE \/ UNCHANGED vars \/ MonitorStep \/ CheckMountPoints
           \/ \E p \in Procs : UnregStep(p) \/ CheckSend(p)
  BY <1>1, <1>4, IdleStep
<1> QED
  BY <1>2, <1>3, <1>4 DEF Next

(* The map.                                                                *)
LEMMA NextMap ==
    ASSUME Inv, [Next]_vars, NEW q \in Procs, Registered(q)', ~Registered(q)
    PROVE  Sending(q)' /\ (~Constructed(q) \/ Fostered(q))
<1>0. processes' # processes
  BY DEF Registered
<1>1. ASSUME NEW t \in Callers, CallRPC(t)
      PROVE  Sending(q)' /\ ~Constructed(q)
  <2>1. PICK p \in Procs, b \in Blocks : CreateRegister(t, p, b)
    BY <1>0, <1>1 DEF CallRPC, ReplaceInit, DeleteFind, Refuse, vars, pmVars
  <2>2. q = p
    BY <2>1, NamesAssumption DEF CreateRegister, Registered, Inv, TypeOK
  <2>3. ~Constructed(q) /\ pc'[t] = "create_send" /\ obj'[t] = q
    BY <2>1, <2>2 DEF CreateRegister, Construct, Constructed, Goto, Inv, TypeOK
  <2> QED
    BY <2>3 DEF Sending, HandlerSends, SendObjPC
<1>2. ASSUME NEW t \in Callers, HandlerStep(t)
      PROVE  Sending(q)' /\ Fostered(q)
  <2>1. ReplaceCommit(t)
    BY <1>0, <1>2 DEF HandlerStep, CreateStep, DeleteStep, ReplaceStep, CreateSend, SendAndGoto,
              CreateStart, CreateSendError, DeleteStop, DeleteSend, DeleteUnregister, ReplaceSame,
              ReplaceStart, ReplacePoll, ReplaceStopOld, ReplaceSendOld, ReplaceLock,
              ReplaceSend, CleanupStop, CleanupSend, CleanupRelease, CallStop, CallSpawn
  <2>2. obj[t] \in Procs
    BY <2>1, HandlerObj DEF ReplaceCommit
  <2>3. processes' = [processes EXCEPT ![NameOf[obj[t]]] = obj[t]] /\ Goto(t, "replace_send") /\ obj' = obj
    BY <1>0, <2>1 DEF ReplaceCommit
  <2>4. q = obj[t]
    BY <2>2, <2>3, NamesAssumption DEF Registered, Inv, TypeOK
  <2>5. pc'[t] = "replace_send" /\ pc[t] = "replace_commit" /\ obj'[t] = q
    BY <2>1, <2>3, <2>4 DEF ReplaceCommit, Goto, Inv, TypeOK
  <2> QED
    BY <2>4, <2>5 DEF Sending, HandlerSends, SendObjPC, Fostered, KeptPC, ReplacePC
<1>3. ASSUME NEW p \in Procs, UnregStep(p) PROVE FALSE
  <2>1. processes' = [processes EXCEPT ![NameOf[p]] = NoProc]
    BY <1>0, <1>3 DEF UnregStep, UnregStopped, UnregCheck, MoveUnreg, UnregGiveUp, UnregRemove, UnregSend
  <2> QED
    BY <2>1, NamesAssumption, ProcsAssumption DEF Registered, Inv, TypeOK
<1>4. ASSUME UNCHANGED pmVars \/ MonitorStep \/ CheckMountPoints PROVE FALSE
  BY <1>0, <1>4 DEF MonitorStep, MonitorRespond, MonitorBroadcast, CheckMountPoints, pmVars
<1>5. ASSUME NEW p \in Procs, CheckSend(p) PROVE FALSE
  BY <1>0, <1>5 DEF CheckSend
<1> QED
  BY <1>1, <1>2, <1>3, <1>4, <1>5 DEF Next, vars

(* Who is going to take q out of the map stays.                            *)
LEMMA HandlerRemoval ==
    ASSUME Inv, OldsOK, NEW t \in Callers, CallRPC(t) \/ HandlerStep(t), NEW q \in Procs,
           Registered(q), Registered(q)', Removal(q)
    PROVE  Removal(q)'
<1>1. \A s \in UnregPC : unreg[q][s] > 0 => unreg'[q][s] > 0
  <2>1. CASE UNCHANGED unreg
    BY <2>1
  <2>2. CASE DeleteUnregister(t)
    <3>1. \A s \in UnregPC : unreg[q][s] \in Nat
      BY BoundsAssumption DEF Inv, TypeOK
    <3>2. unreg \in [Procs -> [UnregPC -> 0 .. MaxUnreg]]
      BY DEF Inv, TypeOK
    <3> QED
      BY <2>2, <3>1, <3>2 DEF DeleteUnregister, UnregPC
  <2>3. CASE CallRPC(t)
    BY <2>1, <2>3 DEF CallRPC, CreateRegister, ReplaceInit, DeleteFind, Refuse, Bystanders, vars, pmVars
  <2>4. CASE HandlerStep(t) /\ ~DeleteUnregister(t)
    BY <2>1, <2>4 DEF HandlerStep, CreateStep, DeleteStep, ReplaceStep, CreateSend, SendAndGoto,
              CreateStart, CreateSendError, DeleteStop, DeleteSend, ReplaceSame, ReplaceCommit,
              ReplaceStart, ReplacePoll, ReplaceStopOld, ReplaceSendOld, ReplaceLock,
              ReplaceSend, CleanupStop, CleanupSend, CleanupRelease, CallStop, CallSpawn, Bystanders
  <2> QED
    BY <2>2, <2>3, <2>4
<1>2. CASE \E s \in UnregPC \ {"send"} : unreg[q][s] > 0
  BY <1>1, <1>2 DEF Removal
<1>3. ASSUME NEW u \in Callers, HandlerRemoves(u, q) PROVE Removal(q)'
  <2>1. CASE u # t
    BY <1>3, <2>1, HandlerMoves DEF OnlyMoves, SameHandler, HandlerRemoves, Removal
  <2>2. CASE u = t
    <3>1. pc[t] \in {"delete_send", "delete_unregister"} \cup HarmlessOldPC
      BY <1>3, <2>2 DEF HandlerRemoves
    <3>2. pc[t] # "idle"
      BY <3>1 DEF HarmlessOldPC
    <3>3. CASE CallRPC(t)
      <4>1. UNCHANGED vars
        BY <3>2, <3>3 DEF CallRPC, CreateRegister, ReplaceInit, DeleteFind, Refuse
      <4> QED
        BY <1>3, <4>1 DEF vars, pmVars, HandlerRemoves, Removal
    <3>4. CASE HandlerStep(t) /\ pc[t] \in {"delete_send", "delete_unregister"}
      <4>0. obj[t] = q
        BY <1>3, <2>2, <3>4 DEF HandlerRemoves, HarmlessOldPC
      <4>1. DeleteSend(t) \/ DeleteUnregister(t)
        BY <3>4 DEF HandlerStep, CreateStep, DeleteStep, ReplaceStep, CreateSend,
              CreateStart, CreateSendError, DeleteStop, DeleteSend, ReplaceSame, ReplaceCommit,
              ReplaceStart, ReplacePoll, ReplaceStopOld, ReplaceSendOld, ReplaceLock,
              ReplaceSend, CleanupStop, CleanupSend, CleanupRelease
      <4>2. CASE DeleteSend(t)
        <5>1. pc'[t] = "delete_unregister" /\ obj'[t] = q
          BY <4>0, <4>2 DEF DeleteSend, CallSpawn, Goto, Inv, TypeOK
        <5> QED
          BY <5>1 DEF Removal, HandlerRemoves
      <4>3. CASE DeleteUnregister(t)
        <5>1. unreg' = [unreg EXCEPT ![q]["wait"] = @ + 1]
          BY <4>0, <4>3 DEF DeleteUnregister
        <5>2. unreg[q]["wait"] \in Nat /\ unreg \in [Procs -> [UnregPC -> 0 .. MaxUnreg]]
          BY BoundsAssumption DEF Inv, TypeOK, UnregPC
        <5>3. unreg'[q]["wait"] > 0
          BY <5>1, <5>2 DEF UnregPC
        <5> QED
          BY <5>3 DEF Removal, UnregPC
      <4> QED
        BY <4>1, <4>2, <4>3
    <3>5. CASE HandlerStep(t) /\ pc[t] \in HarmlessOldPC
      <4>0. old[t] = q
        BY <1>3, <2>2, <3>5 DEF HandlerRemoves, HarmlessOldPC
      <4>1. ReplaceSendOld(t) \/ ReplaceLock(t) \/ ReplaceCommit(t)
        BY <3>5 DEF HandlerStep, CreateStep, DeleteStep, ReplaceStep, CreateSend, HarmlessOldPC,
              CreateStart, CreateSendError, DeleteStop, DeleteSend, DeleteUnregister, ReplaceSame,
              ReplaceStart, ReplacePoll, ReplaceStopOld,
              ReplaceSend, CleanupStop, CleanupSend, CleanupRelease
      <4>2. CASE ReplaceSendOld(t) \/ ReplaceLock(t)
        <5>1. pc'[t] \in HarmlessOldPC /\ old'[t] = q
          BY <4>0, <4>2 DEF ReplaceSendOld, ReplaceLock, CallSpawn, Goto, HarmlessOldPC, Inv, TypeOK
        <5> QED
          BY <5>1 DEF Removal, HandlerRemoves
      <4>3. CASE ReplaceCommit(t)
        <5>1. pc[t] \in ReplacePC /\ obj[t] \in Procs
          BY <4>3, HandlerObj DEF ReplaceCommit, ReplacePC
        <5>2. NameOf[q] = NameOf[obj[t]] /\ obj[t] # q
          BY <4>0, <5>1 DEF OldsOK, OldOK, Inv, Links, ReplacesOK
        <5>3. processes[NameOf[obj[t]]] = old[t] /\ old[t] # NoProc
          BY <4>0, <5>2, ProcsAssumption DEF Registered
        <5>4. processes' = [processes EXCEPT ![NameOf[obj[t]]] = obj[t]]
          BY <4>3, <5>3 DEF ReplaceCommit
        <5> QED
          BY <5>1, <5>2, <5>4, NamesAssumption DEF Registered, Inv, TypeOK
      <4> QED
        BY <4>1, <4>2, <4>3
    <3> QED
      BY <3>1, <3>3, <3>4, <3>5
  <2> QED
    BY <2>1, <2>2
<1> QED
  BY <1>2, <1>3 DEF Removal

LEMMA NextRemoval ==
    ASSUME Inv, OldsOK, [Next]_vars, NEW q \in Procs, Registered(q), Registered(q)', Removal(q)
    PROVE  Removal(q)' \/ UnregGiveUp(q)
<1>1. ASSUME NEW t \in Callers, CallRPC(t) \/ HandlerStep(t) PROVE Removal(q)'
  BY <1>1, HandlerRemoval
<1>2. ASSUME UNCHANGED <<unreg, pc, obj, old>> PROVE Removal(q)'
  BY <1>2 DEF Removal, HandlerRemoves
<1>3. ASSUME NEW p \in Procs, UnregStep(p) PROVE Removal(q)' \/ UnregGiveUp(q)
  <2>0. UNCHANGED <<pc, obj, old>>
    BY <1>3, IdleStep
  <2>1. ASSUME NEW t \in Callers, HandlerRemoves(t, q) PROVE Removal(q)'
    BY <2>0, <2>1 DEF Removal, HandlerRemoves
  <2>2. unreg \in [Procs -> [UnregPC -> 0 .. MaxUnreg]] /\ \A s \in UnregPC : unreg[q][s] \in Nat
    BY BoundsAssumption DEF Inv, TypeOK
  <2>3. CASE q # p
    <3>1. unreg'[q] = unreg[q]
      BY <1>3, <2>2, <2>3 DEF UnregStep, UnregStopped, UnregCheck, MoveUnreg, UnregGiveUp, UnregRemove, UnregSend
    <3> QED
      BY <2>1, <3>1 DEF Removal
  <2>4. CASE q = p
    <3>1. CASE UnregStopped(p) \/ UnregCheck(p)
      <4>1. PICK s \in UnregPC, r \in {"seen", "remove", "lost"} :
              s # r /\ unreg' = [unreg EXCEPT ![p][s] = @ - 1, ![p][r] = @ + 1]
        BY <3>1 DEF UnregStopped, UnregCheck, MoveUnreg, UnregPC
      <4>2. r \in UnregPC \ {"send"}
        BY DEF UnregPC
      <4>3. unreg'[q][r] = unreg[q][r] + 1
        BY <2>2, <2>4, <4>1, <4>2
      <4> QED
        BY <2>2, <4>2, <4>3 DEF Removal
    <3>2. CASE UnregRemove(p)
      <4>1. processes' = [processes EXCEPT ![NameOf[q]] = NoProc]
        BY <2>4, <3>2 DEF UnregRemove
      <4> QED
        BY <4>1, NamesAssumption, ProcsAssumption DEF Registered, Inv, TypeOK
    <3>3. CASE UnregSend(p)
      <4>1. \A s \in UnregPC \ {"send"} : unreg'[q][s] = unreg[q][s]
        BY <2>2, <2>4, <3>3 DEF UnregSend
      <4> QED
        BY <2>1, <4>1 DEF Removal
    <3> QED
      BY <1>3, <2>4, <3>1, <3>2, <3>3 DEF UnregStep
  <2> QED
    BY <2>3, <2>4
<1>4. ASSUME UNCHANGED pmVars \/ MonitorStep \/ CheckMountPoints PROVE Removal(q)'
  BY <1>2, <1>4 DEF MonitorStep, MonitorRespond, MonitorBroadcast, CheckMountPoints, pmVars
<1>5. ASSUME NEW p \in Procs, CheckSend(p) PROVE Removal(q)'
  BY <1>2, <1>5 DEF CheckSend
<1> QED
  BY <1>1, <1>3, <1>4, <1>5 DEF Next, vars

LEMMA NextFostered ==
    ASSUME Inv, [Next]_vars, NEW q \in Procs, Fostered(q)'
    PROVE  Fostered(q) \/ ~Constructed(q)
<1>0. PICK u \in Callers : pc'[u] \in KeptPC /\ obj'[u] = q
  BY DEF Fostered
<1>1. ASSUME NEW t \in Callers, CallRPC(t) PROVE Fostered(q) \/ ~Constructed(q)
  <2>1. CASE u # t
    BY <1>0, <1>1, <2>1, HandlerMoves DEF OnlyMoves, SameHandler, Fostered
  <2>2. CASE u = t
    <3>1. CASE \E p \in Procs, b \in Blocks : ReplaceInit(t, p, b)
      BY <1>0, <2>2, <3>1 DEF ReplaceInit, Construct, Constructed, Inv, TypeOK
    <3>2. CASE Refuse(t)
      BY <1>0, <3>2 DEF Refuse, vars, pmVars, Fostered
    <3>3. CASE ~(\E p \in Procs, b \in Blocks : ReplaceInit(t, p, b)) /\ ~Refuse(t)
      <4>1. pc'[t] \in {"create_send", "delete_stop"}
        BY <1>1, <3>3 DEF CallRPC, CreateRegister, DeleteFind, Goto, Inv, TypeOK
      <4> QED
        BY <1>0, <2>2, <4>1 DEF KeptPC, ReplacePC
    <3> QED
      BY <3>1, <3>2, <3>3
  <2> QED
    BY <2>1, <2>2
<1>2. ASSUME NEW t \in Callers, HandlerStep(t) PROVE Fostered(q)
  <2>1. CASE u # t
    BY <1>0, <1>2, <2>1, HandlerMoves DEF OnlyMoves, SameHandler, Fostered
  <2>2. CASE u = t
    <3>1. pc[t] \in ReplacePC /\ obj[t] = q
      BY <1>0, <1>2, <2>2, HandlerGoes DEF KeptPC, ReplacePC
    <3>2. pc[t] \in {"cleanup_stop", "cleanup_send", "cleanup_release"} =>
            pc'[t] \in {"cleanup_send", "cleanup_release", "idle"}
      BY <1>2 DEF HandlerStep, CreateStep, DeleteStep, ReplaceStep, CreateSend,
              CreateStart, CreateSendError, DeleteStop, DeleteSend, DeleteUnregister, ReplaceSame,
              ReplaceStart, ReplacePoll, ReplaceStopOld, ReplaceSendOld, ReplaceLock, ReplaceCommit,
              ReplaceSend, CleanupStop, CleanupSend, CleanupRelease, CallStop, CallSpawn, Finish, Goto,
              Inv, TypeOK
    <3> QED
      BY <1>0, <2>2, <3>1, <3>2 DEF KeptPC, ReplacePC, Fostered
  <2> QED
    BY <2>1, <2>2
<1>3. ASSUME UNCHANGED <<pc, obj>> PROVE Fostered(q)
  BY <1>0, <1>3 DEF Fostered
<1>4. CASE UNCHANGED pmVars
  BY <1>3, <1>4 DEF pmVars
<1>5. CASE \/ UNCHANGED vars \/ MonitorStep \/ CheckMountPoints
           \/ \E p \in Procs : UnregStep(p) \/ CheckSend(p)
  BY <1>3, <1>5, IdleStep
<1> QED
  BY <1>1, <1>2, <1>4, <1>5 DEF Next

(* The invariant.                                                          *)
WatchInv ==
    /\ RespOK /\ OldsOK
    /\ \A p \in Procs : ProbeEnd(p) /\ (Concerned(p) => Known(p)) /\ WatchOK(p)

LEMMA ConcernedKnown ==
    ASSUME Inv, StopsOK, LogsOK, WatchInv, [Next]_vars, NEW q \in Procs, Concerned(q)'
    PROVE  Known(q)
<1>1. ASSUME ~Constructed(q) PROVE Known(q)
  <2>1. Unasked(q)
    BY <1>1 DEF Constructed, LogsOK, ClosersOK, CloserOK
  <2>2. \A s \in StopperPC : ~(stoppers[q][s] > 0)
    BY <2>1 DEF StopsOK, ProcStop
  <2> QED
    BY <2>2 DEF Known, StopperPC
<1>2. ASSUME UnregGiveUp(q) PROVE Known(q)
  BY <1>2 DEF UnregGiveUp, MinutePassed, Known, StopperPC
<1>3. Concerned(q) => Known(q)
  BY DEF WatchInv
<1>4. CASE Fostered(q)'
  BY <1>1, <1>3, <1>4, NextFostered DEF Concerned
<1>5. CASE Registered(q)' /\ ~Removal(q)'
  <2>1. CASE ~Registered(q)
    BY <1>1, <1>3, <1>5, <2>1, NextMap DEF Concerned
  <2>2. CASE Registered(q)
    BY <1>2, <1>3, <1>5, <2>2, NextRemoval DEF Concerned, WatchInv
  <2> QED
    BY <2>1, <2>2
<1> QED
  BY <1>4, <1>5 DEF Concerned

(* Nothing changes for the watchers of q: they have heard of it, or will.  *)
LEMMA StaysInformed ==
    ASSUME Inv, RespOK, Talks, NEW q \in Procs, Registered(q)', Informed(q),
           SameKind(state[q], state'[q])
    PROVE  Informed(q)'
<1>0. q # NoProc
  BY ProcsAssumption
<1>1. CASE UNCHANGED <<recv, resp, lastEvent>>
  BY <1>1 DEF Informed, Match, SameKind
<1>2. ASSUME NEW p \in Procs, Sends(p) PROVE Informed(q)'
  BY <1>0, <1>2 DEF Sends, Send, RespOK, Informed, Match, SameKind
<1>3. CASE MonitorRespond /\ UNCHANGED <<state, processes>>
  BY <1>3 DEF MonitorRespond, procVars, Informed, Match, SameKind
<1>4. CASE MonitorBroadcast /\ UNCHANGED <<state, processes>>
  <2>1. CASE recv = q
    <3>1. /\ recv' = NoProc /\ SameKind(resp, state[q])
          /\ q \in Watched => lastEvent'[q] = [state |-> resp, deleted |-> processes[NameOf[q]] = NoProc]
      BY <1>4, <2>1 DEF MonitorBroadcast, Informed, Inv, TypeOK
    <3>2. processes[NameOf[q]] # NoProc
      BY <1>0, <1>4 DEF Registered
    <3>3. q \in Watched => lastEvent'[q].state = resp /\ ~lastEvent'[q].deleted
      <4>1. (processes[NameOf[q]] = NoProc) = FALSE
        BY <3>2
      <4>2. q \in Watched => lastEvent'[q] = [state |-> resp, deleted |-> FALSE]
        BY <3>1, <4>1, Zenon
      <4>3. q \in Watched => lastEvent'[q].state = resp /\ lastEvent'[q].deleted = FALSE
        BY <4>2
      <4> QED
        BY <4>3
    <3> QED
      BY <1>0, <1>4, <3>1, <3>3 DEF Informed, Match
  <2>2. CASE recv # q
    <3>1. lastEvent'[q] = lastEvent[q] /\ recv' = NoProc
      BY <1>4, <2>2 DEF MonitorBroadcast, Inv, TypeOK
    <3> QED
      BY <1>0, <1>4, <2>2, <3>1 DEF Informed, Match
  <2> QED
    BY <2>1, <2>2
<1> QED
  BY <1>1, <1>2, <1>3, <1>4 DEF Talks, MonitorStep

LEMMA NextWatchOK ==
    ASSUME Inv, StartInv, StopsOK, LogsOK, WatchInv, Inv', OldsOK', [Next]_vars, NEW q \in Procs
    PROVE  WatchOK(q)'
<1> SUFFICES ASSUME Registered(q)', ~Sending(q)', ~Informed(q)'
             PROVE  IsStopped(q)' /\ Removal(q)'
  BY DEF WatchOK
<1>1. Talks
  BY NextTalks
<1>2. ~Sends(q)
  BY DEF Sends, Send, Informed, WatchInv, RespOK
<1>3. ~Sending(q)
  BY <1>2, NextSending DEF LogsOK
<1>4. Registered(q)
  BY NextMap
<1>5. Informed(q) \/ (IsStopped(q) /\ Removal(q))
  BY <1>3, <1>4 DEF WatchInv, WatchOK
<1>6. CASE SameKind(state[q], state'[q])
  <2>1. ~Informed(q)
    BY <1>1, <1>6, StaysInformed DEF WatchInv
  <2>2. IsStopped(q) /\ Removal(q)
    BY <1>5, <2>1
  <2>3. ~UnregGiveUp(q)
    BY <2>2 DEF UnregGiveUp
  <2>4. Removal(q)'
    BY <1>4, <2>2, <2>3, NextRemoval DEF WatchInv
  <2>5. IsStopped(q)'
    BY <1>6, <2>2 DEF SameKind, IsStopped
  <2> QED
    BY <2>4, <2>5
<1>7. CASE StopperMark(q) /\ UNCHANGED pmVars
  <2>1. state'[q] = "stopped"
    BY <1>7 DEF StopperMark, Inv, TypeOK, ProcTypeOK
  <2>2. CASE Removal(q)
    <3>1. Removal(q)'
      BY <1>7, <2>2 DEF Removal, HandlerRemoves, pmVars
    <3> QED
      BY <2>1, <3>1 DEF IsStopped, Terminal
  <2>3. CASE ~Removal(q)
    <3>1. IsStopped(q)
      <4>1. Known(q)
        BY <1>4, <2>3 DEF WatchInv, Concerned
      <4>2. stoppers[q]["mark"] > 0
        BY <1>7 DEF StopperMark, EndStopper
      <4>3. cmd[q] = "exited" /\ (runner[q] \in {"send", "done"} => IsStopped(q))
        BY <4>1, <4>2 DEF Known, StopperPC
      <4>4. runner[q] \in {"ok", "err", "send", "done"}
        BY <4>3 DEF StartInv, CommandsOK, Inv, TypeOK, ProcTypeOK, RunnerPC
      <4> QED
        BY <1>3, <4>3, <4>4 DEF Sending
    <3>2. SameKind(state[q], state'[q])
      BY <2>1, <3>1 DEF SameKind, IsStopped, Terminal
    <3> QED
      BY <1>6, <3>2
  <2> QED
    BY <2>2, <2>3
<1> QED
  BY <1>6, <1>7, NextKinds DEF Kinds

LEMMA NextWatch ==
    ASSUME Inv, StartInv, StopsOK, LogsOK, WatchInv, Inv', [Next]_vars
    PROVE  WatchInv'
<1>1. RespOK'
  BY NextTalks, NextResp DEF WatchInv
<1>2. OldsOK'
  BY NextOlds DEF WatchInv
<1>3. ASSUME NEW q \in Procs
      PROVE  ProbeEnd(q)' /\ (Concerned(q)' => Known(q)') /\ WatchOK(q)'
  <2>1. ProbeEnd(q)' /\ (Known(q) /\ Concerned(q)' => Known(q)')
    BY <1>2, NextKeeps DEF LogsOK, WatchInv
  <2>2. Concerned(q)' => Known(q)
    BY ConcernedKnown
  <2>3. WatchOK(q)'
    BY <1>2, NextWatchOK
  <2> QED
    BY <2>1, <2>2, <2>3
<1> QED
  BY <1>1, <1>2, <1>3 DEF WatchInv

LEMMA InitWatch == Init => WatchInv
<1> SUFFICES ASSUME Init PROVE WatchInv
  OBVIOUS
<1>1. RespOK /\ OldsOK
  BY DEF Init, RespOK, OldsOK, OldOK, ReplacePC
<1>2. ASSUME NEW p \in Procs PROVE ProbeEnd(p) /\ Known(p) /\ ~Registered(p)
  BY NamesAssumption, ProcsAssumption DEF Init, ProcInit, NoStoppers, ProbeEnd, Known, StopperPC, Registered
<1> QED
  BY <1>1, <1>2 DEF WatchInv, WatchOK

LEMMA SpecWatch == Spec => []WatchInv
<1>1. Inv /\ StartInv /\ StopsOK /\ LogsOK /\ WatchInv /\ Inv' /\ [Next]_vars => WatchInv'
  BY NextWatch
<1> QED
  BY <1>1, InitWatch, SpecInv, SpecStops, SpecLogs, PTL DEF Spec

(* Nobody who watches the processes is left with a wrong picture.  Once    *)
(* nothing is on its way, the last event about a process that is still in  *)
(* the map tells its State, although updates are sent after the lock is    *)
(* given up and State is read by the monitor later still.  Only a deletion *)
(* that was lost may leave one behind.  (process.go Start, StopWithSignal; *)
(* process_manager.go startMonitoring, 100-120, unregisterProcess)         *)
THEOREM WatchersSeeTheTruth == Spec => []WatchersUpToDate
<1>1. Inv /\ WatchInv => WatchersUpToDate
  <2> SUFFICES ASSUME Inv, WatchInv, Quiet, NEW p \in Watched, Registered(p), unreg[p]["lost"] = 0
               PROVE  /\ \/ lastEvent[p].state = state[p]
                         \/ lastEvent[p].state \in Terminal /\ IsStopped(p)
                      /\ ~lastEvent[p].deleted
    BY DEF WatchersUpToDate
  <2>0. p \in Procs /\ p # NoProc
    BY BoundsAssumption, ProcsAssumption
  <2>1. ~Sending(p)
    BY <2>0 DEF Quiet, Sending, HandlerSends, SendObjPC
  <2>2. ~(IsStopped(p) /\ Removal(p))
    BY <2>0 DEF Quiet, Removal, HandlerRemoves, HarmlessOldPC, UnregPC
  <2>3. Informed(p)
    BY <2>0, <2>1, <2>2 DEF WatchInv, WatchOK
  <2>4. Match(p)
    BY <2>0, <2>3 DEF Informed, Quiet
  <2> QED
    BY <2>4 DEF Match, SameKind, IsStopped
<1> QED
  BY <1>1, SpecInv, SpecWatch, PTL

=============================================================================
