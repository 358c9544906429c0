------------------------ MODULE ProcessManagerProofs ------------------------
(***************************************************************************)
(* Theorems about ProcessManager, for every set of process objects, names, *)
(* callers, ports and faults.                                              *)
(*                                                                         *)
(* Inv ties the handlers' local variables to the map: what a handler works *)
(* on has been constructed, and a replacement belongs to its handler alone *)
(* and is not registered before the handler commits.  Ownership, on top of *)
(* it, says that the ports of the processes that own them and the free     *)
(* ports partition the range.                                              *)
(***************************************************************************)
EXTENDS ProcessManager, FiniteSetTheorems, TLAPS

-----------------------------------------------------------------------------
(* The invariant.                                                          *)

(* The handlers that will start an unregister goroutine of p.              *)
Deleters(p) == {t \in Callers : obj[t] = p /\ pc[t] \in DeletePC}

StoppersBounded == \A p \in Procs : StopperCount(p) <= MaxStoppers

UnregBounded == \A p \in Procs : UnregCount(p) <= MaxUnreg

Constructed(p) == p \in Procs /\ state[p] # "none"

MapOK ==
    \A n \in Names : processes[n] # NoProc =>
        Constructed(processes[n]) /\ NameOf[processes[n]] = n

HandlersOK == \A t \in Callers : pc[t] # "idle" => Constructed(obj[t])

(* A replacement is unregistered and no other handler knows it.            *)
ReplacesOK ==
    \A t \in Callers : pc[t] \in ReplacePC =>
        /\ ~Registered(obj[t])
        /\ Constructed(old[t])
        /\ \A u \in Callers : u # t /\ pc[u] # "idle" => obj[u] # obj[t]

Links == MapOK /\ HandlersOK /\ ReplacesOK

Inv == TypeOK /\ StoppersBounded /\ UnregBounded /\ Links

-----------------------------------------------------------------------------
(* Lemmas about the counters of goroutines.                                *)

StopperCounts == [StopperPC -> 0 .. MaxStoppers]

(* What StopperCount adds up, for any vector of counters.                  *)
Total(f) == f["nocmd"] + f["stop"] + f["kill"] + f["wait"] + f["mark"]

LEMMA OneMore ==
    ASSUME NEW f \in StopperCounts, NEW s \in StopperPC, Total(f) < MaxStoppers
    PROVE  LET g == [f EXCEPT ![s] = @ + 1]
           IN  g \in StopperCounts /\ Total(g) <= MaxStoppers
<1> DEFINE g == [f EXCEPT ![s] = @ + 1]
<1>1. \A r \in StopperPC : f[r] \in 0 .. MaxStoppers /\ g[r] = IF r = s THEN f[r] + 1 ELSE f[r]
  BY DEF StopperCounts
<1>2. MaxStoppers \in Nat
  BY MaxStoppersAssumption
<1>3. Total(g) = Total(f) + 1
  BY <1>1, <1>2 DEF Total, StopperPC
<1>4. \A r \in StopperPC : f[r] <= Total(f) /\ Total(f) \in Nat
  BY <1>1, <1>2 DEF Total, StopperPC
<1>5. \A r \in StopperPC : g[r] \in 0 .. MaxStoppers
  BY <1>1, <1>2, <1>4
<1>6. g \in StopperCounts
  BY <1>5 DEF StopperCounts
<1> QED
  BY <1>2, <1>3, <1>4, <1>6

LEMMA OneLess ==
    ASSUME NEW f \in StopperCounts, NEW s \in StopperPC, f[s] > 0, Total(f) <= MaxStoppers
    PROVE  LET g == [f EXCEPT ![s] = @ - 1]
           IN  g \in StopperCounts /\ Total(g) < MaxStoppers /\ Total(g) <= MaxStoppers
<1> DEFINE g == [f EXCEPT ![s] = @ - 1]
<1>1. \A r \in StopperPC : f[r] \in 0 .. MaxStoppers /\ g[r] = IF r = s THEN f[r] - 1 ELSE f[r]
  BY DEF StopperCounts
<1>2. MaxStoppers \in Nat
  BY MaxStoppersAssumption
<1>3. Total(g) = Total(f) - 1
  BY <1>1, <1>2 DEF Total, StopperPC
<1>4. Total(f) \in Nat
  BY <1>1, <1>2 DEF Total, StopperPC
<1>5. \A r \in StopperPC : g[r] \in 0 .. MaxStoppers
  BY <1>1, <1>2
<1>6. g \in StopperCounts
  BY <1>5 DEF StopperCounts
<1> QED
  BY <1>2, <1>3, <1>4, <1>6

StoppersOK == stoppers \in [Procs -> StopperCounts] /\ StoppersBounded

LEMMA StopperCountIsTotal == \A p \in Procs : StopperCount(p) = Total(stoppers[p])
  BY DEF StopperCount, Total

LEMMA StoppersUpdate ==
    ASSUME StoppersOK, NEW p \in Procs, NEW g \in StopperCounts, Total(g) <= MaxStoppers,
           stoppers' = [stoppers EXCEPT ![p] = g]
    PROVE  StoppersOK'
<1>1. stoppers' \in [Procs -> StopperCounts]
  BY DEF StoppersOK
<1>2. ASSUME NEW q \in Procs PROVE Total(stoppers'[q]) <= MaxStoppers
  <2>1. CASE q = p
    <3>1. stoppers'[q] = g
      BY <2>1 DEF StoppersOK
    <3> QED
      BY <3>1
  <2>2. CASE q # p
    <3>1. stoppers'[q] = stoppers[q]
      BY <2>2 DEF StoppersOK
    <3> QED
      BY <3>1, StopperCountIsTotal DEF StoppersOK, StoppersBounded
  <2> QED
    BY <2>1, <2>2
<1> QED
  BY <1>1, <1>2 DEF StoppersOK, StoppersBounded, StopperCount, Total

(* The three things that happen to stopper goroutines: one is spawned, one *)
(* returns, one moves on.                                                  *)
LEMMA StopperSpawns ==
    ASSUME StoppersOK, NEW p \in Procs, NEW s \in StopperPC, StopperCount(p) < MaxStoppers,
           stoppers' = [stoppers EXCEPT ![p][s] = @ + 1]
    PROVE  StoppersOK'
<1> DEFINE g == [stoppers[p] EXCEPT ![s] = @ + 1]
<1>1. g \in StopperCounts /\ Total(g) <= MaxStoppers
  BY OneMore, StopperCountIsTotal DEF StoppersOK
<1>2. stoppers' = [stoppers EXCEPT ![p] = g]
  OBVIOUS
<1> HIDE DEF g
<1> QED
  BY <1>1, <1>2, StoppersUpdate

LEMMA StopperEnds ==
    ASSUME StoppersOK, NEW p \in Procs, NEW s \in StopperPC, stoppers[p][s] > 0,
           stoppers' = [stoppers EXCEPT ![p][s] = @ - 1]
    PROVE  StoppersOK'
<1> DEFINE g == [stoppers[p] EXCEPT ![s] = @ - 1]
<1>1. g \in StopperCounts /\ Total(g) <= MaxStoppers
  BY OneLess, StopperCountIsTotal DEF StoppersOK, StoppersBounded
<1>2. stoppers' = [stoppers EXCEPT ![p] = g]
  OBVIOUS
<1> HIDE DEF g
<1> QED
  BY <1>1, <1>2, StoppersUpdate

LEMMA StopperMoves ==
    ASSUME StoppersOK, NEW p \in Procs, NEW s \in StopperPC, NEW r \in StopperPC, s # r,
           stoppers[p][s] > 0,
           stoppers' = [stoppers EXCEPT ![p][s] = @ - 1, ![p][r] = @ + 1]
    PROVE  StoppersOK'
<1> DEFINE h == [stoppers[p] EXCEPT ![s] = @ - 1]
           g == [h EXCEPT ![r] = @ + 1]
<1>1. h \in StopperCounts /\ Total(h) < MaxStoppers
  BY OneLess, StopperCountIsTotal DEF StoppersOK, StoppersBounded
<1>2. stoppers' = [stoppers EXCEPT ![p] = g]
  BY DEF StoppersOK
<1> HIDE DEF h
<1>3. g \in StopperCounts /\ Total(g) <= MaxStoppers
  BY <1>1, OneMore
<1> HIDE DEF g
<1> QED
  BY <1>2, <1>3, StoppersUpdate

-----------------------------------------------------------------------------
(* The steps of processes.                                                 *)

(* No process object is ever un-constructed.                               *)
Persist == \A q \in Procs : state[q] # "none" => state'[q] # "none"

ProcOK == ProcTypeOK /\ StoppersBounded

LEMMA ProcOKIff == ProcOK => StoppersOK
  BY DEF ProcOK, StoppersOK, ProcTypeOK, StopperCounts

LEMMA RunnerOK ==
    ASSUME ProcOK, NEW p \in Procs,
           RunnerStep(p) \/ RunnerSend(p) \/ EnvironmentStep(p)
    PROVE  ProcOK' /\ ports' = ports /\ Persist
<1> USE DEF ProcOK, ProcTypeOK, StoppersBounded, StopperCount, States, Terminal, RunnerPC, Persist
<1>1. CASE RunnerFork(p)
  BY <1>1 DEF RunnerFork
<1>2. CASE RunnerForkFails(p)
  BY <1>2 DEF RunnerForkFails
<1>3. CASE RunnerRecord(p)
  BY <1>3 DEF RunnerRecord
<1>4. CASE RunnerSend(p)
  BY <1>4 DEF RunnerSend, Send
<1>5. CASE CmdExit(p)
  BY <1>5 DEF CmdExit
<1>6. CASE DeletionExpires(p)
  BY <1>6 DEF DeletionExpires
<1> QED
  BY <1>1, <1>2, <1>3, <1>4, <1>5, <1>6 DEF RunnerStep, EnvironmentStep

(* The locked section of StopWithSignal.                                   *)
LEMMA StopLockedOK ==
    ASSUME ProcOK, NEW p \in Procs, StopLocked(p),
           prober' \in [Procs -> ProberPC], recv' \in Procs \cup {NoProc}
    PROVE  ProcOK' /\ ports' = ports /\ Persist
<1>1. state' \in [Procs -> States] /\ delTS' \in [Procs -> {"nil", "set", "expired"}]
      /\ logger' \in [Procs -> {"none", "open", "closed"}]
  BY DEF ProcOK, ProcTypeOK, StopLocked, States
<1>2. ProcTypeOK'
  BY <1>1 DEF ProcOK, ProcTypeOK, StopLocked
<1>3. StoppersBounded' /\ ports' = ports /\ Persist
  BY DEF ProcOK, ProcTypeOK, StopLocked, StoppersBounded, StopperCount, Persist
<1> QED
  BY <1>2, <1>3 DEF ProcOK

(* The rest of StopWithSignal.                                             *)
LEMMA SpawnStopperOK ==
    ASSUME ProcOK, NEW p \in Procs, NEW m \in {"none", "stop", "kill"}, SpawnStopper(p, m),
           prober' \in [Procs -> ProberPC]
    PROVE  ProcOK' /\ ports' = ports /\ Persist
<1>1. PICK s \in StopperPC \cup {"none"} : stoppers' = [stoppers EXCEPT ![p][s] = @ + 1]
  BY DEF SpawnStopper, StopperPC
<1>4. StoppersOK'
  <2>1. CASE s \in StopperPC
    BY <1>1, <2>1, ProcOKIff, StopperSpawns DEF SpawnStopper
  <2>2. CASE s \notin StopperPC
    <3>1. stoppers' = stoppers
      BY <1>1, <2>2 DEF ProcOK, ProcTypeOK
    <3> QED
      BY <3>1, ProcOKIff DEF StoppersOK, StoppersBounded, StopperCount
  <2> QED
    BY <2>1, <2>2
<1>5. ProcTypeOK'
  BY <1>4 DEF ProcOK, ProcTypeOK, SpawnStopper, Send, StoppersOK, StopperCounts
<1> QED
  BY <1>4, <1>5 DEF ProcOK, StoppersOK, SpawnStopper, Persist

LEMMA ProberOK ==
    ASSUME ProcOK, NEW p \in Procs,
           ProberStep(p) \/ ProbeSend(p) \/ ProbeSpawn(p)
    PROVE  ProcOK' /\ ports' = ports /\ Persist
<1>1. CASE ProbeReady(p) \/ ProbeFails(p) \/ ProbeRunning(p) \/ ProbeSend(p) \/ ProbeCheck(p)
  <2> USE DEF ProcOK, ProcTypeOK, StoppersBounded, StopperCount, States, ProberPC, Persist
  <2>1. CASE ProbeReady(p)
    BY <2>1 DEF ProbeReady
  <2>2. CASE ProbeFails(p)
    BY <2>2 DEF ProbeFails
  <2>3. CASE ProbeRunning(p)
    BY <2>3 DEF ProbeRunning
  <2>4. CASE ProbeSend(p)
    BY <2>4 DEF ProbeSend, Send
  <2>5. CASE ProbeCheck(p)
    BY <2>5 DEF ProbeCheck
  <2> QED
    BY <1>1, <2>1, <2>2, <2>3, <2>4, <2>5
<1>2. CASE ProbeStop(p)
  <2>1. prober' \in [Procs -> ProberPC] /\ recv' \in Procs \cup {NoProc}
    BY <1>2 DEF ProbeStop, ProcOK, ProcTypeOK, ProberPC, StopMode
  <2> QED
    BY <1>2, <2>1, StopLockedOK DEF ProbeStop
<1>3. CASE ProbeSpawn(p)
  <2>1. prober' \in [Procs -> ProberPC]
    BY <1>3 DEF ProbeSpawn, ProcOK, ProcTypeOK, ProberPC
  <2> QED
    BY <1>3, <2>1, SpawnStopperOK DEF ProbeSpawn
<1> QED
  BY <1>1, <1>2, <1>3 DEF ProberStep

(* A stopper goroutine that moves on or returns.                           *)
LEMMA MoveStopperOK ==
    ASSUME ProcOK, NEW p \in Procs, NEW s \in StopperPC, NEW r \in StopperPC, s # r,
           MoveStopper(p, s, r), UNCHANGED <<state, killed>>
    PROVE  ProcOK' /\ ports' = ports /\ Persist
<1>1. StoppersOK'
  BY ProcOKIff, StopperMoves DEF MoveStopper
<1> QED
  BY <1>1 DEF ProcOK, ProcTypeOK, MoveStopper, StoppersOK, StopperCounts, Persist

LEMMA EndStopperOK ==
    ASSUME ProcOK, NEW p \in Procs, NEW s \in StopperPC, EndStopper(p, s),
           state' \in [Procs -> States], killed' \in [Procs -> BOOLEAN], Persist
    PROVE  ProcOK' /\ ports' = ports /\ Persist
<1>1. StoppersOK'
  BY ProcOKIff, StopperEnds DEF EndStopper
<1>2. logger' \in [Procs -> {"none", "open", "closed"}]
  BY DEF EndStopper, ProcOK, ProcTypeOK
<1> QED
  BY <1>1, <1>2 DEF ProcOK, ProcTypeOK, EndStopper, StoppersOK, StopperCounts

LEMMA StopperStepOK ==
    ASSUME ProcOK, NEW p \in Procs, StopperStep(p)
    PROVE  ProcOK' /\ ports' = ports /\ Persist
<1>0. {"nocmd", "stop", "kill", "wait", "mark"} = StopperPC
  BY DEF StopperPC
<1>1. ASSUME UNCHANGED <<state, killed>>
      PROVE  state' \in [Procs -> States] /\ killed' \in [Procs -> BOOLEAN] /\ Persist
  BY <1>1 DEF ProcOK, ProcTypeOK, Persist
<1>2. ASSUME NEW s \in {"nocmd", "stop", "kill"}, StopperNotRunning(p, s)
      PROVE  ProcOK' /\ ports' = ports /\ Persist
  <2>1. s \in StopperPC /\ "mark" \in StopperPC /\ s # "mark"
    BY <1>0
  <2>2. CASE IsStopped(p)
    BY <1>1, <1>2, <2>1, <2>2, EndStopperOK DEF StopperNotRunning
  <2>3. CASE ~IsStopped(p)
    BY <1>2, <2>1, <2>3, MoveStopperOK DEF StopperNotRunning
  <2> QED
    BY <2>2, <2>3
<1>3. CASE StopperMark(p)
  <2>1. state' \in [Procs -> States] /\ killed' \in [Procs -> BOOLEAN] /\ Persist
    BY <1>3 DEF StopperMark, ProcOK, ProcTypeOK, States, Terminal, Persist
  <2> QED
    BY <1>0, <1>3, <2>1, EndStopperOK DEF StopperMark
<1>4. CASE StopperSignal(p)
  BY <1>0, <1>4, MoveStopperOK DEF StopperSignal
<1>5. CASE StopperWaitDone(p)
  BY <1>0, <1>1, <1>5, EndStopperOK DEF StopperWaitDone
<1>6. CASE StopperKill(p)
  <2>1. state' \in [Procs -> States] /\ killed' \in [Procs -> BOOLEAN] /\ Persist
    <3>1. killed' = [killed EXCEPT ![p] = @ \/ IsRunning(p)] /\ state' = state
      BY <1>6 DEF StopperKill
    <3>2. (killed[p] \/ IsRunning(p)) \in BOOLEAN
      OBVIOUS
    <3>3. killed' \in [Procs -> BOOLEAN]
      BY <3>1, <3>2 DEF ProcOK, ProcTypeOK
    <3> QED
      BY <3>1, <3>3 DEF ProcOK, ProcTypeOK, Persist
  <2> QED
    BY <1>0, <1>6, <2>1, EndStopperOK DEF StopperKill
<1> QED
  BY <1>2, <1>3, <1>4, <1>5, <1>6 DEF StopperStep

LEMMA ProcessStepOK ==
    ASSUME ProcOK, NEW p \in Procs, GoroutineStep(p) \/ EnvironmentStep(p)
    PROVE  ProcOK' /\ ports' = ports /\ Persist
  BY RunnerOK, ProberOK, StopperStepOK DEF GoroutineStep

-----------------------------------------------------------------------------
(* The manager's own variables: types and links.                           *)

PMTypeOK ==
    /\ ports \in [Procs -> SUBSET PortSet]
    /\ processes \in [Names -> Procs \cup {NoProc}]
    /\ free \in SUBSET PortSet
    /\ lock \in Callers \cup {NoCaller}
    /\ pc \in [Callers -> PCs]
    /\ obj \in [Callers -> Procs \cup {NoProc}]
    /\ old \in [Callers -> Procs \cup {NoProc}]
    /\ mode \in [Callers -> {"none", "stop", "kill"}]
    /\ resp \in States
    /\ lastEvent \in [Procs -> Events]
    /\ condCheck \in SUBSET Procs

UnregCounts == [UnregPC -> 0 .. MaxUnreg]

UnregOK == unreg \in [Procs -> UnregCounts] /\ UnregBounded

LEMMA InvSplit == Inv <=> ProcOK /\ PMTypeOK /\ UnregOK /\ Links
  BY DEF Inv, TypeOK, ProcOK, PMTypeOK, UnregOK, UnregCounts

(* A handler that goes on with the same process.                           *)
LEMMA LinksAdvance ==
    ASSUME Links, PMTypeOK, Persist, NEW t \in Callers, NEW s,
           pc[t] # "idle", s \in ReplacePC => pc[t] \in ReplacePC,
           Goto(t, s), UNCHANGED <<processes, obj, old>>
    PROVE  Links'
<1>1. /\ \A u \in Callers : pc'[u] # "idle" => pc[u] # "idle"
      /\ \A u \in Callers : pc'[u] \in ReplacePC => pc[u] \in ReplacePC
  BY DEF PMTypeOK, Goto
<1>2. \A q : Constructed(q) => Constructed(q)'
  BY DEF Persist, Constructed
<1>3. MapOK'
  BY <1>2 DEF Links, MapOK
<1>4. HandlersOK'
  BY <1>1, <1>2 DEF Links, HandlersOK
<1>5. ReplacesOK'
  BY <1>1, <1>2 DEF Links, ReplacesOK, Registered
<1> QED
  BY <1>3, <1>4, <1>5 DEF Links

(* A handler that returns.                                                 *)
LEMMA LinksFinish ==
    ASSUME Links, PMTypeOK, Persist, NEW t \in Callers, Finish(t), UNCHANGED processes
    PROVE  Links'
<1>1. \A u \in Callers : pc'[u] # "idle" =>
         u # t /\ pc'[u] = pc[u] /\ obj'[u] = obj[u] /\ old'[u] = old[u]
  BY DEF PMTypeOK, Goto, Finish
<1>2. \A q : Constructed(q) => Constructed(q)'
  BY DEF Persist, Constructed
<1>3. MapOK'
  BY <1>2 DEF Links, MapOK
<1>4. HandlersOK'
  BY <1>1, <1>2 DEF Links, HandlersOK
<1>5. \A u \in Callers : pc[u] \in ReplacePC => pc[u] # "idle"
  BY DEF ReplacePC
<1>6. \A u \in Callers : pc'[u] \in ReplacePC => pc'[u] # "idle"
  BY DEF ReplacePC
<1>7. ReplacesOK'
  BY <1>1, <1>2, <1>5, <1>6 DEF Links, ReplacesOK, Registered
<1> QED
  BY <1>3, <1>4, <1>7 DEF Links

(* Everybody but the handlers.                                             *)
LEMMA LinksKept ==
    ASSUME Links, PMTypeOK, Persist, UNCHANGED <<pc, obj, old>>,
           \A n \in Names : processes'[n] \in {processes[n], NoProc}
    PROVE  Links'
<1>2. \A q : Constructed(q) => Constructed(q)'
  BY DEF Persist, Constructed
<1>3. MapOK'
  BY <1>2 DEF Links, MapOK
<1>4. HandlersOK'
  BY <1>2 DEF Links, HandlersOK
<1>5. ReplacesOK'
  <2> SUFFICES ASSUME NEW t \in Callers, pc[t] \in ReplacePC
               PROVE  /\ ~Registered(obj[t])'
                      /\ Constructed(old[t])'
                      /\ \A u \in Callers : u # t /\ pc[u] # "idle" => obj[u] # obj[t]
    BY DEF ReplacesOK
  <2>1. pc[t] # "idle"
    BY DEF ReplacePC
  <2>2. obj[t] \in Procs /\ obj[t] # NoProc /\ NameOf[obj[t]] \in Names
    BY <2>1, ProcsAssumption, NamesAssumption DEF Links, HandlersOK, Constructed
  <2> QED
    BY <1>2, <2>2 DEF Links, ReplacesOK, Registered
<1> QED
  BY <1>3, <1>4, <1>5 DEF Links

(* A process is constructed and its handler takes hold of it.              *)
LEMMA LinksConstruct ==
    ASSUME Links, PMTypeOK, ProcOK, NEW t \in Callers, NEW p \in Procs, NEW b, NEW s,
           pc[t] = "idle", Construct(p, b), Goto(t, s),
           obj' = [obj EXCEPT ![t] = p],
           \/ /\ s = "create_send"
              /\ processes[NameOf[p]] = NoProc
              /\ processes' = [processes EXCEPT ![NameOf[p]] = p]
              /\ UNCHANGED old
           \/ /\ s \in {"replace_same", "replace_start"}
              /\ processes[NameOf[p]] # NoProc
              /\ UNCHANGED processes
              /\ old' = [old EXCEPT ![t] = processes[NameOf[p]]]
    PROVE  Links'
<1>1. /\ \A q : Constructed(q) => Constructed(q)' /\ q # p
      /\ Constructed(p)'
      /\ NameOf[p] \in Names /\ NameOf \in [Procs -> Names] /\ p # NoProc
  BY NamesAssumption, ProcsAssumption DEF Construct, Constructed, ProcOK, ProcTypeOK
<1>2. /\ pc'[t] = s /\ obj'[t] = p
      /\ \A u \in Callers : u # t => pc'[u] = pc[u] /\ obj'[u] = obj[u] /\ old'[u] = old[u]
  BY DEF PMTypeOK, Goto
<1>3. MapOK'
  BY <1>1 DEF Links, MapOK, PMTypeOK
<1>4. HandlersOK'
  BY <1>1, <1>2 DEF Links, HandlersOK
<1>5. \A r \in ReplacePC : r # "idle"
  BY DEF ReplacePC
<1>6. \A u \in Callers : u # t /\ pc[u] # "idle" => Constructed(obj[u]) /\ obj[u] # p
  BY <1>1 DEF Links, HandlersOK
<1>7. ASSUME NEW u \in Callers, u # t, pc[u] \in ReplacePC
      PROVE  ~Registered(obj[u])'
  BY <1>1, <1>2, <1>5, <1>6, <1>7 DEF Links, ReplacesOK, Registered, PMTypeOK, Constructed
<1>8. ASSUME s \in ReplacePC
      PROVE  ~Registered(p)' /\ Constructed(old[t])'
  <2>1. s # "create_send"
    BY <1>8 DEF ReplacePC
  <2> QED
    BY <1>1, <1>2, <2>1 DEF Links, MapOK, Registered, PMTypeOK
<1>9. ReplacesOK'
  BY <1>1, <1>2, <1>5, <1>6, <1>7, <1>8 DEF Links, ReplacesOK
<1> QED
  BY <1>3, <1>4, <1>9 DEF Links

-----------------------------------------------------------------------------
(* The unregister goroutines.                                              *)

UnregTotal(f) == f["wait"] + f["seen"] + f["remove"] + f["send"] + f["lost"]

LEMMA CallersFinite ==
    ASSUME NEW C \in SUBSET Callers
    PROVE  IsFiniteSet(C) /\ Cardinality(C) \in Nat
  BY CallersAssumption, FS_Subset, FS_CardinalityType

LEMMA UnregCountIs == \A p : UnregCount(p) = UnregTotal(unreg[p]) + Cardinality(Deleters(p))
  BY DEF UnregCount, UnregTotal, Deleters

(* One process gets new counters g, its deleters become D, and the others  *)
(* keep theirs.                                                            *)
LEMMA UnregUpdate ==
    ASSUME UnregOK, NEW p \in Procs, NEW g \in UnregCounts,
           unreg' = [unreg EXCEPT ![p] = g],
           UnregTotal(g) + Cardinality(Deleters(p)') <= MaxUnreg,
           \A q \in Procs : q # p => Deleters(q)' = Deleters(q)
    PROVE  UnregOK'
<1>1. unreg' \in [Procs -> UnregCounts]
  BY DEF UnregOK
<1>2. ASSUME NEW q \in Procs PROVE UnregTotal(unreg'[q]) + Cardinality(Deleters(q)') <= MaxUnreg
  <2>1. CASE q = p
    <3>1. unreg'[q] = g
      BY <2>1 DEF UnregOK
    <3> QED
      BY <2>1, <3>1
  <2>2. CASE q # p
    <3>1. unreg'[q] = unreg[q] /\ Deleters(q)' = Deleters(q)
      BY <2>2 DEF UnregOK
    <3> QED
      BY <3>1, UnregCountIs DEF UnregOK, UnregBounded
  <2> QED
    BY <2>1, <2>2
<1> QED
  BY <1>1, <1>2 DEF UnregOK, UnregBounded, UnregCount, UnregTotal, Deleters

(* Nobody enters or leaves ProcessDelete.                                  *)
SameDeleters ==
    \A u \in Callers : /\ pc'[u] \in DeletePC <=> pc[u] \in DeletePC
                       /\ pc[u] \in DeletePC => obj'[u] = obj[u]

LEMMA UnregKept ==
    ASSUME UnregOK, UNCHANGED unreg, SameDeleters
    PROVE  UnregOK'
<1>1. \A q : Deleters(q)' = Deleters(q)
  BY DEF Deleters, SameDeleters
<1> QED
  BY <1>1, UnregCountIs DEF UnregOK, UnregBounded, UnregCount, UnregTotal, Deleters

LEMMA UnregTypes ==
    ASSUME UnregOK, NEW p \in Procs
    PROVE  /\ unreg[p] \in UnregCounts /\ MaxUnreg \in Nat
           /\ \A s \in UnregPC : unreg[p][s] \in 0 .. MaxUnreg
           /\ Cardinality(Deleters(p)) \in Nat
           /\ UnregTotal(unreg[p]) + Cardinality(Deleters(p)) <= MaxUnreg
<1>1. Cardinality(Deleters(p)) \in Nat
  BY CallersFinite DEF Deleters
<1>2. unreg[p] \in UnregCounts
  BY DEF UnregOK
<1> QED
  BY <1>1, <1>2, UnregCountIs, BoundsAssumption DEF UnregOK, UnregBounded, UnregCounts

(* The goroutine moves on or returns.                                      *)
LEMMA UnregStepOK ==
    ASSUME UnregOK, NEW p \in Procs, UnregStep(p)
    PROVE  UnregOK'
<1>1. /\ unreg[p] \in UnregCounts /\ MaxUnreg \in Nat
      /\ \A s \in UnregPC : unreg[p][s] \in 0 .. MaxUnreg
      /\ Cardinality(Deleters(p)) \in Nat
      /\ UnregTotal(unreg[p]) + Cardinality(Deleters(p)) <= MaxUnreg
  BY UnregTypes
<1>2. \A q : Deleters(q)' = Deleters(q)
  BY DEF UnregStep, UnregStopped, UnregCheck, MoveUnreg, UnregGiveUp, UnregRemove, UnregSend, Deleters, procVars
<1>3. ASSUME NEW g, g \in UnregCounts, unreg' = [unreg EXCEPT ![p] = g],
             UnregTotal(g) <= UnregTotal(unreg[p]), UnregTotal(g) \in Nat
      PROVE  UnregOK'
  <2>1. UnregTotal(unreg[p]) \in Nat
    BY <1>1 DEF UnregTotal, UnregPC
  <2>2. UnregTotal(g) + Cardinality(Deleters(p)') <= MaxUnreg
    BY <1>1, <1>2, <1>3, <2>1
  <2> QED
    BY <1>2, <1>3, <2>2, UnregUpdate
<1>4. ASSUME NEW s \in UnregPC, NEW r \in UnregPC, s # r, unreg[p][s] > 0,
             unreg' = [unreg EXCEPT ![p][s] = @ - 1, ![p][r] = @ + 1]
      PROVE  UnregOK'
  <2> DEFINE g == [unreg[p] EXCEPT ![s] = @ - 1, ![r] = @ + 1]
  <2>1. unreg' = [unreg EXCEPT ![p] = g]
    BY <1>4 DEF UnregOK
  <2>2. /\ g[s] = unreg[p][s] - 1 /\ g[r] = unreg[p][r] + 1
        /\ \A x \in UnregPC \ {s, r} : g[x] = unreg[p][x]
    BY <1>1, <1>4 DEF UnregCounts
  <2>3. unreg[p][s] > 0 /\ \A x \in UnregPC : unreg[p][x] \in Nat
    BY <1>1, <1>4
  <2>4. UnregTotal(g) = UnregTotal(unreg[p]) /\ UnregTotal(g) \in Nat
    BY <1>4, <2>2, <2>3 DEF UnregTotal, UnregPC
  <2>5. \A x \in UnregPC : g[x] \in Nat
    BY <1>4, <2>2, <2>3
  <2> HIDE DEF g
  <2>6. \A x \in UnregPC : g[x] <= UnregTotal(g)
    BY <2>5 DEF UnregTotal, UnregPC
  <2>7. UnregTotal(g) <= MaxUnreg
    BY <1>1, <2>4
  <2>8. \A x \in UnregPC : g[x] \in 0 .. MaxUnreg
    BY <1>1, <2>4, <2>5, <2>6, <2>7
  <2>9. g \in [UnregPC -> Nat]
    <3>1. g = [x \in UnregPC |-> g[x]]
      BY <1>1 DEF g, UnregCounts
    <3> QED
      BY <2>5, <3>1
  <2>10. g \in UnregCounts
    BY <2>8, <2>9 DEF UnregCounts
  <2>11. UnregTotal(g) <= UnregTotal(unreg[p])
    BY <2>4
  <2> QED
    BY <1>3, <2>1, <2>4, <2>10, <2>11
<1>5. ASSUME NEW s \in UnregPC, unreg[p][s] > 0, unreg' = [unreg EXCEPT ![p][s] = @ - 1]
      PROVE  UnregOK'
  <2> DEFINE g == [unreg[p] EXCEPT ![s] = @ - 1]
  <2>1. unreg' = [unreg EXCEPT ![p] = g]
    BY <1>5 DEF UnregOK
  <2>2. g[s] = unreg[p][s] - 1 /\ \A x \in UnregPC \ {s} : g[x] = unreg[p][x]
    BY <1>1, <1>5 DEF UnregCounts
  <2>3. unreg[p][s] > 0 /\ \A x \in UnregPC : unreg[p][x] \in Nat
    BY <1>1, <1>5
  <2>4. UnregTotal(g) <= UnregTotal(unreg[p]) /\ UnregTotal(g) \in Nat
    BY <2>2, <2>3 DEF UnregTotal, UnregPC
  <2>5. \A x \in UnregPC : g[x] \in 0 .. MaxUnreg
    BY <1>1, <2>2, <2>3
  <2>6. g \in UnregCounts
    BY <1>1, <2>5 DEF UnregCounts
  <2> HIDE DEF g
  <2> QED
    BY <1>3, <2>1, <2>4, <2>6
<1>6. CASE UnregStopped(p)
  BY <1>4, <1>6 DEF UnregStopped, MoveUnreg, UnregPC
<1>7. CASE UnregCheck(p)
  BY <1>4, <1>7 DEF UnregCheck, MoveUnreg, UnregPC
<1>8. CASE UnregGiveUp(p)
  BY <1>5, <1>8 DEF UnregGiveUp, UnregPC
<1>9. CASE UnregRemove(p)
  BY <1>4, <1>9 DEF UnregRemove, UnregPC
<1>10. CASE UnregSend(p)
  BY <1>5, <1>10 DEF UnregSend, UnregPC
<1> QED
  BY <1>6, <1>7, <1>8, <1>9, <1>10 DEF UnregStep

-----------------------------------------------------------------------------
(* Every step keeps the invariant.                                         *)

LEMMA InitInv == Init => Inv
<1> SUFFICES ASSUME Init PROVE Inv
  OBVIOUS
<1>1. ProcTypeOK
  <2>1. killed \in [Procs -> BOOLEAN]
    BY DEF Init, ProcInit
  <2>2. NoStoppers \in [StopperPC -> 0 .. MaxStoppers]
    BY MaxStoppersAssumption DEF NoStoppers
  <2>3. stoppers \in [Procs -> [StopperPC -> 0 .. MaxStoppers]]
    BY <2>2 DEF Init, ProcInit
  <2>4. /\ state \in [Procs -> States]
        /\ delTS \in [Procs -> {"nil", "set", "expired"}]
        /\ logger \in [Procs -> {"none", "open", "closed"}]
        /\ cmd \in [Procs -> {"nil", "new", "live", "exited"}]
        /\ runner \in [Procs -> RunnerPC]
        /\ prober \in [Procs -> ProberPC]
        /\ recv \in Procs \cup {NoProc}
    BY DEF Init, ProcInit, States, RunnerPC, ProberPC
  <2> QED
    BY <2>1, <2>3, <2>4 DEF ProcTypeOK
<1>2. StoppersBounded
  <2>1. \A p \in Procs : stoppers[p] = NoStoppers
    BY DEF Init, ProcInit
  <2>2. \A s \in StopperPC : NoStoppers[s] = 0
    BY DEF NoStoppers
  <2> QED
    BY <2>1, <2>2, MaxStoppersAssumption DEF StoppersBounded, StopperCount, StopperPC
<1>3. PMTypeOK
  <2>1. NoEvent \in Events
    BY DEF NoEvent, Events, States
  <2>2. lastEvent \in [Procs -> Events]
    BY <2>1 DEF Init
  <2>3. /\ ports \in [Procs -> SUBSET PortSet]
        /\ processes \in [Names -> Procs \cup {NoProc}]
        /\ free \in SUBSET PortSet
        /\ lock \in Callers \cup {NoCaller}
    BY DEF Init, ProcInit
  <2>4. /\ pc \in [Callers -> PCs]
        /\ obj \in [Callers -> Procs \cup {NoProc}]
        /\ old \in [Callers -> Procs \cup {NoProc}]
        /\ mode \in [Callers -> {"none", "stop", "kill"}]
        /\ resp \in States
        /\ condCheck \in SUBSET Procs
    BY DEF Init, PCs, States
  <2> QED
    BY <2>2, <2>3, <2>4 DEF PMTypeOK
<1>4. UnregOK
  <2>1. NoUnreg \in UnregCounts /\ UnregTotal(NoUnreg) = 0
    BY BoundsAssumption DEF NoUnreg, UnregCounts, UnregPC, UnregTotal
  <2>2. unreg \in [Procs -> UnregCounts] /\ \A p \in Procs : unreg[p] = NoUnreg
    BY <2>1 DEF Init
  <2>3. \A p \in Procs : Deleters(p) = {}
    BY DEF Init, Deleters, DeletePC
  <2>4. Cardinality({}) = 0
    BY FS_EmptySet
  <2>5. \A p \in Procs : UnregCount(p) = 0
    BY <2>1, <2>2, <2>3, <2>4, UnregCountIs
  <2> QED
    BY <2>2, <2>5, BoundsAssumption DEF UnregOK, UnregBounded
<1>5. Links
  BY DEF Init, Links, MapOK, HandlersOK, ReplacesOK, ReplacePC
<1> QED
  BY <1>1, <1>2, <1>3, <1>4, <1>5, InvSplit DEF ProcOK

(* A handler that goes on, with the same process, to s.                    *)
LEMMA AdvanceInv ==
    ASSUME Inv, NEW t \in Callers, NEW s \in PCs, pc[t] # "idle", Goto(t, s),
           s \in ReplacePC => pc[t] \in ReplacePC,
           s \in DeletePC <=> pc[t] \in DeletePC,
           ProcOK', ports' = ports, Persist,
           mode' \in [Callers -> {"none", "stop", "kill"}],
           lock' \in Callers \cup {NoCaller},
           UNCHANGED <<processes, free, obj, old, unreg, resp, lastEvent, condCheck>>
    PROVE  Inv'
<1>0. ProcOK /\ PMTypeOK /\ UnregOK /\ Links
  BY InvSplit
<1>1. PMTypeOK'
  BY <1>0 DEF PMTypeOK, Goto
<1>2. Links'
  BY <1>0, LinksAdvance
<1>3. SameDeleters
  BY <1>0 DEF SameDeleters, PMTypeOK, Goto
<1>4. UnregOK'
  BY <1>0, <1>3, UnregKept
<1> QED
  BY <1>1, <1>2, <1>4 DEF Inv, TypeOK, ProcOK, PMTypeOK, UnregOK, UnregCounts

(* A handler that returns, having given back ports or not.                 *)
LEMMA FinishInv ==
    ASSUME Inv, NEW t \in Callers, pc[t] \notin DeletePC, Finish(t),
           ProcOK', ports' = ports, Persist, free' \in SUBSET PortSet,
           UNCHANGED <<processes, lock, unreg, resp, lastEvent, condCheck>>
    PROVE  Inv'
<1>0. ProcOK /\ PMTypeOK /\ UnregOK /\ Links
  BY InvSplit
<1>1. PMTypeOK'
  BY <1>0 DEF PMTypeOK, Goto, Finish, PCs
<1>2. Links'
  BY <1>0, LinksFinish
<1>3. SameDeleters
  BY <1>0 DEF SameDeleters, PMTypeOK, Goto, Finish, DeletePC
<1>4. UnregOK'
  BY <1>0, <1>3, UnregKept
<1> QED
  BY <1>1, <1>2, <1>4 DEF Inv, TypeOK, ProcOK, PMTypeOK, UnregOK, UnregCounts

(* What a handler between two steps works on is a process object.          *)
LEMMA HandlerObj ==
    ASSUME Inv, NEW t \in Callers, pc[t] # "idle"
    PROVE  obj[t] \in Procs /\ state[obj[t]] # "none"
  BY DEF Inv, Links, HandlersOK, Constructed

LEMMA ReplaceOld ==
    ASSUME Inv, NEW t \in Callers, pc[t] \in ReplacePC
    PROVE  old[t] \in Procs /\ state[old[t]] # "none"
  BY DEF Inv, Links, ReplacesOK, Constructed

(* Only the receiver of UpdateCh learns something.                         *)
LEMMA SendOK ==
    ASSUME ProcOK, NEW p \in Procs, Send(p),
           UNCHANGED <<state, delTS, ports, logger, cmd, killed, runner, prober, stoppers>>
    PROVE  ProcOK' /\ Persist
  BY DEF ProcOK, ProcTypeOK, StoppersBounded, StopperCount, Send, Persist

LEMMA StartOKOK ==
    ASSUME ProcOK, NEW p \in Procs, StartOK(p) \/ StartError(p)
    PROVE  ProcOK' /\ ports' = ports /\ Persist
<1>1. CASE StartOK(p)
  BY <1>1 DEF StartOK, ProcOK, ProcTypeOK, StoppersBounded, StopperCount, Persist, RunnerPC, ProberPC
<1>2. CASE StartError(p)
  BY <1>2 DEF StartError, ProcOK, ProcTypeOK, StoppersBounded, StopperCount, Persist, States,
              Terminal
<1> QED
  BY <1>1, <1>2

(* StopWithSignal, called by a handler.                                    *)
LEMMA CallStopInv ==
    ASSUME Inv, NEW t \in Callers, NEW p \in Procs, NEW s1 \in PCs, NEW s2 \in PCs,
           pc[t] # "idle", CallStop(t, p, s1, s2),
           s1 \in ReplacePC \/ s2 \in ReplacePC => pc[t] \in ReplacePC,
           s1 \in DeletePC <=> pc[t] \in DeletePC,
           s2 \in DeletePC <=> pc[t] \in DeletePC
    PROVE  Inv'
<1>0. ProcOK /\ PMTypeOK
  BY InvSplit
<1>1. ProcOK' /\ ports' = ports /\ Persist
  BY <1>0, StopLockedOK DEF CallStop, ProcOK, ProcTypeOK
<1>2. PICK s \in {s1, s2} : Goto(t, s)
  BY DEF CallStop
<1>3. mode' \in [Callers -> {"none", "stop", "kill"}]
  BY <1>0 DEF CallStop, PMTypeOK, StopMode
<1>4. s \in PCs
  BY <1>2
<1> QED
  BY <1>0, <1>1, <1>2, <1>3, <1>4, AdvanceInv DEF CallStop, Bystanders, PMTypeOK

LEMMA CallSpawnInv ==
    ASSUME Inv, NEW t \in Callers, NEW p \in Procs, NEW s \in PCs,
           pc[t] # "idle", CallSpawn(t, p, s),
           s \in ReplacePC => pc[t] \in ReplacePC,
           s \in DeletePC <=> pc[t] \in DeletePC
    PROVE  Inv'
<1>0. ProcOK /\ PMTypeOK
  BY InvSplit
<1>1. mode[t] \in {"none", "stop", "kill"} /\ SpawnStopper(p, mode[t])
  BY <1>0 DEF PMTypeOK, CallSpawn
<1>2. prober' \in [Procs -> ProberPC]
  BY <1>0 DEF CallSpawn, ProcOK, ProcTypeOK
<1>3. ProcOK' /\ ports' = ports /\ Persist
  BY <1>0, <1>1, <1>2, SpawnStopperOK
<1>4. mode' \in [Callers -> {"none", "stop", "kill"}]
  BY <1>0 DEF CallSpawn, PMTypeOK
<1> QED
  BY <1>0, <1>3, <1>4, AdvanceInv DEF CallSpawn, Bystanders, PMTypeOK

LEMMA CreateInv ==
    ASSUME Inv, NEW t \in Callers, CreateStep(t)
    PROVE  Inv'
<1> USE DEF PCs, CreatePC, DeletePC, ReplacePC
<1>0. ProcOK /\ PMTypeOK /\ pc[t] # "idle" /\ obj[t] \in Procs
  BY InvSplit, HandlerObj DEF CreateStep, CreateSend, CreateStart, CreateSendError
<1>1. CASE CreateSend(t)
  <2>1. ProcOK' /\ ports' = ports /\ Persist
    BY <1>0, <1>1, SendOK DEF CreateSend, SendAndGoto
  <2> QED
    BY <1>0, <1>1, <2>1, AdvanceInv DEF CreateSend, SendAndGoto, Bystanders, PMTypeOK
<1>2. CASE CreateStart(t)
  <2>1. ProcOK' /\ ports' = ports /\ Persist
    BY <1>0, <1>2, StartOKOK DEF CreateStart
  <2>2. CASE Finish(t)
    BY <1>0, <1>2, <2>1, <2>2, FinishInv DEF CreateStart, Bystanders, PMTypeOK
  <2>3. CASE Goto(t, "create_send_error") /\ UNCHANGED <<obj, old, mode>>
    BY <1>0, <1>2, <2>1, <2>3, AdvanceInv DEF CreateStart, Bystanders, PMTypeOK
  <2> QED
    BY <1>2, <2>2, <2>3 DEF CreateStart
<1>3. CASE CreateSendError(t)
  <2>1. ProcOK' /\ ports' = ports /\ Persist
    BY <1>0, <1>3, SendOK DEF CreateSendError
  <2> QED
    BY <1>0, <1>3, <2>1, FinishInv DEF CreateSendError, Bystanders, PMTypeOK
<1> QED
  BY <1>1, <1>2, <1>3 DEF CreateStep

LEMMA DeleteUnregisterInv ==
    ASSUME Inv, NEW t \in Callers, DeleteUnregister(t)
    PROVE  Inv'
<1>p. PICK p \in Procs : obj[t] = p
  BY HandlerObj DEF DeleteUnregister
<1>0. ProcOK /\ PMTypeOK /\ UnregOK /\ Links /\ pc[t] = "delete_unregister"
  BY InvSplit DEF DeleteUnregister
<1>1. ProcOK' /\ Persist
  BY <1>0 DEF DeleteUnregister, procVars, ProcOK, ProcTypeOK, StoppersBounded, StopperCount, Persist
<1>2. PMTypeOK'
  BY <1>0 DEF DeleteUnregister, procVars, PMTypeOK, Goto, Finish, PCs
<1>3. Links'
  BY <1>0, <1>1, LinksFinish DEF DeleteUnregister
<1>4. /\ t \in Deleters(p) /\ Deleters(p)' = Deleters(p) \ {t}
      /\ \A q \in Procs : q # p => Deleters(q)' = Deleters(q)
  <2>1. \A u \in Callers : pc'[u] = (IF u = t THEN "idle" ELSE pc[u])
                          /\ (u # t => obj'[u] = obj[u])
    BY <1>0 DEF DeleteUnregister, PMTypeOK, Goto, Finish
  <2>2. "idle" \notin DeletePC /\ pc[t] \in DeletePC
    BY <1>0 DEF DeletePC
  <2> QED
    BY <1>p, <2>1, <2>2 DEF Deleters
<1>5. Cardinality(Deleters(p)') = Cardinality(Deleters(p)) - 1
  <2>1. IsFiniteSet(Deleters(p))
    BY CallersFinite DEF Deleters
  <2> QED
    BY <1>4, <2>1, FS_RemoveElement
<1>6. /\ unreg[p] \in UnregCounts /\ MaxUnreg \in Nat
      /\ \A s \in UnregPC : unreg[p][s] \in 0 .. MaxUnreg
      /\ Cardinality(Deleters(p)) \in Nat
      /\ UnregTotal(unreg[p]) + Cardinality(Deleters(p)) <= MaxUnreg
  BY <1>0, UnregTypes
<1>7. Cardinality(Deleters(p)) - 1 \in Nat
  <2>1. Deleters(p)' \in SUBSET Callers
    BY <1>4 DEF Deleters
  <2>2. Cardinality(Deleters(p)') \in Nat
    BY <2>1, CallersFinite
  <2> QED
    BY <1>5, <2>2
<1>8. UnregOK'
  <2>1. CASE unreg' = unreg
    <3>1. unreg' = [unreg EXCEPT ![p] = unreg[p]]
      BY <1>0, <2>1 DEF UnregOK
    <3>2. UnregTotal(unreg[p]) \in Nat
      BY <1>6 DEF UnregTotal, UnregPC
    <3>3. UnregTotal(unreg[p]) + Cardinality(Deleters(p)') <= MaxUnreg
      BY <1>5, <1>6, <3>2
    <3> QED
      BY <1>0, <1>4, <1>6, <3>1, <3>3, UnregUpdate
  <2>2. CASE unreg' = [unreg EXCEPT ![p]["wait"] = @ + 1]
    <3> DEFINE g == [unreg[p] EXCEPT !["wait"] = @ + 1]
    <3>1. unreg' = [unreg EXCEPT ![p] = g]
      BY <2>2
    <3>2. g["wait"] = unreg[p]["wait"] + 1 /\ \A s \in UnregPC \ {"wait"} : g[s] = unreg[p][s]
      BY <1>6 DEF UnregCounts, UnregPC
    <3>3. UnregTotal(g) = UnregTotal(unreg[p]) + 1 /\ UnregTotal(unreg[p]) \in Nat
          /\ UnregTotal(unreg[p]) >= unreg[p]["wait"]
      BY <1>6, <3>2 DEF UnregTotal, UnregPC
    <3>4. UnregTotal(g) + Cardinality(Deleters(p)') <= MaxUnreg
      BY <1>5, <1>6, <3>3
    <3>5. \A s \in UnregPC : g[s] \in 0 .. MaxUnreg
      BY <1>6, <1>7, <3>2, <3>3 DEF UnregPC
    <3>6. g \in UnregCounts
      BY <1>6, <3>5 DEF UnregCounts
    <3> HIDE DEF g
    <3> QED
      BY <1>0, <1>4, <3>1, <3>4, <3>6, UnregUpdate
  <2> QED
    BY <1>p, <2>1, <2>2 DEF DeleteUnregister
<1> QED
  BY <1>1, <1>2, <1>3, <1>8 DEF Inv, TypeOK, ProcOK, PMTypeOK, UnregOK, UnregCounts

LEMMA DeleteInv ==
    ASSUME Inv, NEW t \in Callers, DeleteStep(t)
    PROVE  Inv'
<1> USE DEF PCs, CreatePC, DeletePC, ReplacePC
<1>0. pc[t] # "idle" /\ obj[t] \in Procs
  BY HandlerObj DEF DeleteStep, DeleteStop, DeleteSend, DeleteUnregister
<1>1. CASE DeleteStop(t)
  BY <1>0, <1>1, CallStopInv DEF DeleteStop
<1>2. CASE DeleteSend(t)
  BY <1>0, <1>2, CallSpawnInv DEF DeleteSend
<1> QED
  BY <1>1, <1>2, DeleteUnregisterInv DEF DeleteStep

(* A block of ports lies in the range.                                     *)
LEMMA BlocksInRange == ASSUME NEW b \in Blocks PROVE b \in SUBSET PortSet
<1>1. PICK n \in Counts : b \in BlocksOf(n)
  BY DEF Blocks
<1>2. n \in Nat /\ PortMin \in Nat /\ PortMax \in Nat
  BY BoundsAssumption, PortRangeAssumption
<1> QED
  BY <1>1, <1>2 DEF BlocksOf, PortSet

LEMMA ConstructOK ==
    ASSUME ProcOK, NEW p \in Procs, NEW b, Construct(p, b)
    PROVE  ProcOK'
  BY DEF ProcOK, ProcTypeOK, StoppersBounded, StopperCount, Construct, States

LEMMA CallRPCInv ==
    ASSUME Inv, NEW t \in Callers, CallRPC(t)
    PROVE  Inv'
<1>0. ProcOK /\ PMTypeOK /\ UnregOK /\ Links
  BY InvSplit
<1>1. ASSUME NEW p \in Procs, NEW b \in Blocks,
             CreateRegister(t, p, b) \/ ReplaceInit(t, p, b)
      PROVE  Inv'
  <2>1. PICK s \in {"create_send", "replace_same", "replace_start"} :
           /\ Goto(t, s)
           /\ \/ /\ s = "create_send"
                 /\ processes[NameOf[p]] = NoProc
                 /\ processes' = [processes EXCEPT ![NameOf[p]] = p]
                 /\ UNCHANGED old
              \/ /\ s \in {"replace_same", "replace_start"}
                 /\ processes[NameOf[p]] # NoProc
                 /\ UNCHANGED processes
                 /\ old' = [old EXCEPT ![t] = processes[NameOf[p]]]
    BY <1>1 DEF CreateRegister, ReplaceInit
  <2>2. /\ pc[t] = "idle" /\ Construct(p, b) /\ obj' = [obj EXCEPT ![t] = p]
        /\ free' = free \ b /\ UNCHANGED <<mode, lock, unreg, resp, lastEvent, condCheck>>
    BY <1>1 DEF CreateRegister, ReplaceInit, Bystanders
  <2>3. Links'
    BY <1>0, <2>1, <2>2, LinksConstruct
  <2>4. ProcOK'
    BY <1>0, <2>2, ConstructOK
  <2>5. PMTypeOK'
    <3>1. processes' \in [Names -> Procs \cup {NoProc}] /\ old' \in [Callers -> Procs \cup {NoProc}]
      BY <1>0, <2>1, NamesAssumption DEF PMTypeOK
    <3>2. ports' \in [Procs -> SUBSET PortSet] /\ free' \in SUBSET PortSet
      BY <1>0, <2>2, BlocksInRange DEF PMTypeOK, Construct
    <3>3. s \in PCs
      BY DEF PCs, CreatePC, ReplacePC
    <3>4. pc' \in [Callers -> PCs] /\ obj' \in [Callers -> Procs \cup {NoProc}]
      BY <1>0, <2>1, <2>2, <3>3 DEF PMTypeOK, Goto
    <3> QED
      BY <1>0, <2>2, <3>1, <3>2, <3>4 DEF PMTypeOK
  <2>6. SameDeleters
    BY <1>0, <2>1, <2>2 DEF SameDeleters, PMTypeOK, Goto, DeletePC
  <2>7. UnregOK'
    BY <1>0, <2>2, <2>6, UnregKept
  <2> QED
    BY <2>3, <2>4, <2>5, <2>7 DEF Inv, TypeOK, ProcOK, PMTypeOK, UnregOK, UnregCounts
<1>2. ASSUME NEW p \in Procs, DeleteFind(t, p)
      PROVE  Inv'
  <2>0. /\ pc[t] = "idle" /\ obj' = [obj EXCEPT ![t] = p] /\ Goto(t, "delete_stop")
        /\ UNCHANGED <<procVars, processes, free, old, mode, lock, unreg, resp, lastEvent, condCheck>>
        /\ Registered(p) /\ UnregCount(p) < MaxUnreg
    BY <1>2 DEF DeleteFind, Bystanders
  <2>1. ProcOK' /\ Persist /\ ports' = ports
    BY <1>0, <2>0 DEF procVars, ProcOK, ProcTypeOK, StoppersBounded, StopperCount, Persist
  <2>2. PMTypeOK'
    BY <1>0, <2>0 DEF procVars, PMTypeOK, Goto, PCs, DeletePC
  <2>3. /\ pc'[t] = "delete_stop" /\ obj'[t] = p
        /\ \A u \in Callers : u # t => pc'[u] = pc[u] /\ obj'[u] = obj[u] /\ old'[u] = old[u]
    BY <1>0, <2>0 DEF PMTypeOK, Goto
  <2>4. Links'
    <3>1. \A q : Constructed(q)' <=> Constructed(q)
      BY <2>0 DEF Constructed, procVars
    <3>2. Constructed(p) /\ p # NoProc
      BY <1>0, <2>0, ProcsAssumption, NamesAssumption DEF Links, MapOK, Registered
    <3>3. MapOK'
      BY <1>0, <2>0, <3>1 DEF Links, MapOK
    <3>4. HandlersOK'
      BY <1>0, <2>3, <3>1, <3>2 DEF Links, HandlersOK
    <3>5. "delete_stop" \notin ReplacePC
      BY DEF ReplacePC
    <3>6. ReplacesOK'
      BY <1>0, <2>0, <2>3, <3>1, <3>5 DEF Links, ReplacesOK, Registered
    <3> QED
      BY <3>3, <3>4, <3>6 DEF Links
  <2>5. /\ t \notin Deleters(p) /\ Deleters(p)' = Deleters(p) \cup {t}
        /\ \A q \in Procs : q # p => Deleters(q)' = Deleters(q)
    BY <2>0, <2>3 DEF Deleters, DeletePC
  <2>6. Cardinality(Deleters(p)') = Cardinality(Deleters(p)) + 1
    <3>1. IsFiniteSet(Deleters(p))
      BY CallersFinite DEF Deleters
    <3> QED
      BY <2>5, <3>1, FS_AddElement
  <2>7. /\ unreg[p] \in UnregCounts /\ MaxUnreg \in Nat
        /\ \A s \in UnregPC : unreg[p][s] \in 0 .. MaxUnreg
        /\ Cardinality(Deleters(p)) \in Nat
        /\ UnregTotal(unreg[p]) + Cardinality(Deleters(p)) <= MaxUnreg
    BY <1>0, UnregTypes
  <2>8. UnregTotal(unreg[p]) + Cardinality(Deleters(p)') <= MaxUnreg
    <3>1. UnregTotal(unreg[p]) \in Nat
      BY <2>7 DEF UnregTotal, UnregPC
    <3>2. UnregTotal(unreg[p]) + Cardinality(Deleters(p)) < MaxUnreg
      BY <2>0, UnregCountIs
    <3> QED
      BY <2>6, <2>7, <3>1, <3>2
  <2>9. unreg' = [unreg EXCEPT ![p] = unreg[p]]
    BY <1>0, <2>0 DEF UnregOK
  <2>10. UnregOK'
    BY <1>0, <2>5, <2>7, <2>8, <2>9, UnregUpdate
  <2> QED
    BY <2>1, <2>2, <2>4, <2>10 DEF Inv, TypeOK, ProcOK, PMTypeOK, UnregOK, UnregCounts
<1>3. CASE Refuse(t)
  BY <1>3 DEF Refuse, vars, pmVars, procVars, Inv, TypeOK, ProcTypeOK, StoppersBounded, StopperCount,
              UnregBounded, UnregCount, Links, MapOK, HandlersOK, ReplacesOK, Registered, Constructed
<1> QED
  BY <1>1, <1>2, <1>3 DEF CallRPC

LEMMA ReplaceCommitInv ==
    ASSUME Inv, NEW t \in Callers, ReplaceCommit(t)
    PROVE  Inv'
<1>0. ProcOK /\ PMTypeOK /\ UnregOK /\ Links /\ pc[t] = "replace_commit" /\ pc[t] \in ReplacePC
  BY InvSplit DEF ReplaceCommit, ReplacePC
<1>p. PICK p \in Procs : obj[t] = p /\ Constructed(p)
  BY HandlerObj DEF ReplaceCommit, Constructed
<1>1. ProcOK' /\ Persist /\ ports' = ports
  BY <1>0 DEF ReplaceCommit, procVars, ProcOK, ProcTypeOK, StoppersBounded, StopperCount, Persist
<1>2. CASE Goto(t, "cleanup_stop") /\ UNCHANGED <<processes, free>>
  BY <1>0, <1>1, <1>2, AdvanceInv DEF ReplaceCommit, PMTypeOK, PCs, ReplacePC, DeletePC
<1>3. CASE /\ Goto(t, "replace_send")
           /\ processes' = [processes EXCEPT ![NameOf[p]] = p]
           /\ free' \in SUBSET PortSet
  <2>1. PMTypeOK'
    BY <1>0, <1>1, <1>3 DEF ReplaceCommit, PMTypeOK, Goto, PCs
  <2>2. SameDeleters
    BY <1>0, <1>3 DEF ReplaceCommit, SameDeleters, PMTypeOK, Goto, DeletePC
  <2>3. UnregOK'
    BY <1>0, <2>2, UnregKept DEF ReplaceCommit
  <2>4. /\ \A q : Constructed(q)' <=> Constructed(q)
        /\ NameOf \in [Procs -> Names] /\ UNCHANGED <<obj, old>>
    BY NamesAssumption DEF ReplaceCommit, Constructed, procVars
  <2>5. MapOK'
    BY <1>0, <1>p, <1>3, <2>4 DEF Links, MapOK, PMTypeOK
  <2>6. /\ \A u \in Callers : pc'[u] # "idle" => pc[u] # "idle"
        /\ \A u \in Callers : pc'[u] \in ReplacePC => pc[u] \in ReplacePC /\ u # t
        /\ \A u \in Callers : pc[u] \in ReplacePC => pc[u] # "idle"
    BY <1>0, <1>3 DEF PMTypeOK, Goto, ReplacePC
  <2>7. HandlersOK'
    BY <1>0, <2>4, <2>6 DEF Links, HandlersOK
  <2>8. ASSUME NEW u \in Callers, pc'[u] \in ReplacePC
        PROVE  ~Registered(obj[u])'
    <3>1. obj[u] # p /\ u # t /\ ~Registered(obj[u]) /\ obj[u] \in Procs
      BY <1>0, <1>p, <2>6, <2>8 DEF Links, ReplacesOK, HandlersOK, Constructed
    <3> QED
      BY <1>0, <1>3, <2>4, <3>1 DEF Registered, PMTypeOK
  <2>9. ReplacesOK'
    BY <1>0, <2>4, <2>6, <2>8 DEF Links, ReplacesOK
  <2> QED
    BY <1>1, <2>1, <2>3, <2>5, <2>7, <2>9
       DEF Inv, TypeOK, ProcOK, PMTypeOK, UnregOK, UnregCounts, Links
<1>4. ReleasePorts(old[t]) => free' \in SUBSET PortSet
  <2>1. old[t] \in Procs
    BY <1>0, ReplaceOld
  <2> QED
    BY <1>0, <2>1 DEF ReleasePorts, PMTypeOK
<1> QED
  BY <1>p, <1>0, <1>2, <1>3, <1>4 DEF ReplaceCommit, PMTypeOK

LEMMA ReplaceInv ==
    ASSUME Inv, NEW t \in Callers, ReplaceStep(t)
    PROVE  Inv'
<1> USE DEF PCs, CreatePC, DeletePC, ReplacePC
<1>0. ProcOK /\ PMTypeOK /\ pc[t] # "idle" /\ obj[t] \in Procs
  BY InvSplit, HandlerObj
     DEF ReplaceStep, ReplaceSame, ReplaceStart, ReplacePoll, ReplaceStopOld, ReplaceSendOld,
         ReplaceLock, ReplaceCommit, ReplaceSend, CleanupStop, CleanupSend, CleanupRelease
<1>1. ReleasePorts(obj[t]) => free' \in SUBSET PortSet
  BY <1>0 DEF ReleasePorts, PMTypeOK
<1>2. ASSUME UNCHANGED procVars
      PROVE  ProcOK' /\ Persist /\ ports' = ports
  BY <1>0, <1>2 DEF procVars, ProcOK, ProcTypeOK, StoppersBounded, StopperCount, Persist
<1>3. CASE ReplaceSame(t)
  <2>1. ProcOK' /\ ports' = ports /\ Persist
    BY <1>0, <1>3 DEF ReplaceSame, ProcOK, ProcTypeOK, StoppersBounded, StopperCount, Persist
  <2> QED
    BY <1>0, <1>1, <1>3, <2>1, FinishInv DEF ReplaceSame, Bystanders
<1>4. CASE ReplaceStart(t)
  <2>1. ProcOK' /\ ports' = ports /\ Persist
    BY <1>0, <1>4, StartOKOK DEF ReplaceStart
  <2>2. PICK s \in {"replace_poll", "cleanup_stop"} : Goto(t, s)
    BY <1>4 DEF ReplaceStart
  <2> QED
    BY <1>0, <1>4, <2>1, <2>2, AdvanceInv DEF ReplaceStart, Bystanders, PMTypeOK
<1>5. CASE ReplacePoll(t)
  <2>1. PICK s \in {"replace_stop_old", "cleanup_stop"} : Goto(t, s)
    BY <1>5 DEF ReplacePoll
  <2> QED
    BY <1>0, <1>2, <1>5, <2>1, AdvanceInv DEF ReplacePoll, Bystanders, PMTypeOK
<1>6. CASE ReplaceStopOld(t)
  BY <1>0, <1>6, ReplaceOld, CallStopInv DEF ReplaceStopOld
<1>7. CASE ReplaceSendOld(t)
  BY <1>0, <1>7, ReplaceOld, CallSpawnInv DEF ReplaceSendOld
<1>8. CASE ReplaceLock(t)
  BY <1>0, <1>2, <1>8, AdvanceInv DEF ReplaceLock, PMTypeOK
<1>9. CASE ReplaceSend(t)
  <2>1. ProcOK' /\ ports' = ports /\ Persist
    BY <1>0, <1>9, SendOK DEF ReplaceSend
  <2> QED
    BY <1>0, <1>9, <2>1, FinishInv DEF ReplaceSend, Bystanders, PMTypeOK
<1>10. CASE CleanupStop(t)
  BY <1>0, <1>10, CallStopInv DEF CleanupStop
<1>11. CASE CleanupSend(t)
  BY <1>0, <1>11, CallSpawnInv DEF CleanupSend
<1>12. CASE CleanupRelease(t)
  BY <1>0, <1>1, <1>2, <1>12, FinishInv DEF CleanupRelease, Bystanders
<1> QED
  BY <1>3, <1>4, <1>5, <1>6, <1>7, <1>8, <1>9, <1>10, <1>11, <1>12, ReplaceCommitInv
     DEF ReplaceStep

(* Everybody but the handlers: they change no local variable of one.       *)
LEMMA OtherInv ==
    ASSUME Inv, ProcOK', Persist, ports' = ports, UNCHANGED <<pc, obj, old, mode, lock>>,
           processes' \in [Names -> Procs \cup {NoProc}],
           \A n \in Names : processes'[n] \in {processes[n], NoProc},
           free' \in SUBSET PortSet, resp' \in States, lastEvent' \in [Procs -> Events],
           condCheck' \in SUBSET Procs, UnregOK'
    PROVE  Inv'
<1>0. PMTypeOK /\ Links
  BY InvSplit
<1>1. PMTypeOK'
  BY <1>0 DEF PMTypeOK
<1>2. Links'
  BY <1>0, LinksKept
<1> QED
  BY <1>1, <1>2 DEF Inv, TypeOK, ProcOK, PMTypeOK, UnregOK, UnregCounts

LEMMA UnregStepInv ==
    ASSUME Inv, NEW p \in Procs, UnregStep(p)
    PROVE  Inv'
<1>0. ProcOK /\ PMTypeOK /\ UnregOK
  BY InvSplit
<1>1. UnregOK'
  BY <1>0, UnregStepOK
<1>2. ASSUME UNCHANGED procVars
      PROVE  ProcOK' /\ Persist /\ ports' = ports
  BY <1>0, <1>2 DEF procVars, ProcOK, ProcTypeOK, StoppersBounded, StopperCount, Persist
<1>3. CASE UnregStopped(p) \/ UnregCheck(p) \/ UnregGiveUp(p)
  BY <1>0, <1>1, <1>2, <1>3, OtherInv DEF UnregStopped, UnregCheck, MoveUnreg, UnregGiveUp, PMTypeOK
<1>4. CASE UnregRemove(p)
  <2>1. processes' \in [Names -> Procs \cup {NoProc}] /\ free' \in SUBSET PortSet
        /\ \A n \in Names : processes'[n] \in {processes[n], NoProc}
    BY <1>0, <1>4 DEF UnregRemove, ReleasePorts, PMTypeOK
  <2> QED
    BY <1>0, <1>1, <1>2, <1>4, <2>1, OtherInv DEF UnregRemove, PMTypeOK
<1>5. CASE UnregSend(p)
  <2>1. ProcOK' /\ Persist /\ ports' = ports
    BY <1>0, <1>5, SendOK DEF UnregSend
  <2> QED
    BY <1>0, <1>1, <1>5, <2>1, OtherInv DEF UnregSend, PMTypeOK
<1> QED
  BY <1>3, <1>4, <1>5 DEF UnregStep

LEMMA UnregStays ==
    ASSUME Inv, UNCHANGED <<pc, obj, unreg>>
    PROVE  UnregOK'
  BY InvSplit, UnregKept DEF SameDeleters

LEMMA MonitorInv ==
    ASSUME Inv, MonitorStep \/ CheckMountPoints \/ \E p \in Procs : CheckSend(p)
    PROVE  Inv'
<1>0. ProcOK /\ PMTypeOK
  BY InvSplit
<1>1. CASE MonitorRespond
  <2>1. ProcOK' /\ Persist /\ ports' = ports
    BY <1>0, <1>1 DEF MonitorRespond, procVars, ProcOK, ProcTypeOK, StoppersBounded, StopperCount, Persist
  <2>2. resp' \in States
    BY <1>0, <1>1 DEF MonitorRespond, ProcOK, ProcTypeOK
  <2> QED
    BY <1>0, <1>1, <2>1, <2>2, UnregStays, OtherInv DEF MonitorRespond, PMTypeOK
<1>2. CASE MonitorBroadcast
  <2>1. ProcOK' /\ Persist /\ ports' = ports
    BY <1>0, <1>2 DEF MonitorBroadcast, ProcOK, ProcTypeOK, StoppersBounded, StopperCount, Persist
  <2>2. resp' \in States
    BY <1>2 DEF MonitorBroadcast, States
  <2>3. lastEvent' \in [Procs -> Events]
    <3>1. [state |-> resp, deleted |-> processes[NameOf[recv]] = NoProc] \in Events
      BY <1>0 DEF PMTypeOK, Events
    <3> QED
      BY <1>0, <1>2, <3>1 DEF MonitorBroadcast, PMTypeOK
  <2> QED
    BY <1>0, <1>2, <2>1, <2>2, <2>3, UnregStays, OtherInv DEF MonitorBroadcast, PMTypeOK
<1>3. CASE CheckMountPoints
  <2>1. ProcOK' /\ Persist /\ ports' = ports
    BY <1>0, <1>3 DEF CheckMountPoints, procVars, ProcOK, ProcTypeOK, StoppersBounded, StopperCount, Persist
  <2>2. condCheck' \in SUBSET Procs
    BY <1>3 DEF CheckMountPoints
  <2> QED
    BY <1>0, <1>3, <2>1, <2>2, UnregStays, OtherInv DEF CheckMountPoints, PMTypeOK
<1>4. ASSUME NEW p \in Procs, CheckSend(p)
      PROVE  Inv'
  <2>1. ProcOK' /\ Persist /\ ports' = ports
    BY <1>0, <1>4, SendOK DEF CheckSend
  <2>2. condCheck' \in SUBSET Procs
    BY <1>0, <1>4 DEF CheckSend, PMTypeOK
  <2> QED
    BY <1>0, <1>4, <2>1, <2>2, UnregStays, OtherInv DEF CheckSend, PMTypeOK
<1> QED
  BY <1>1, <1>2, <1>3, <1>4 DEF MonitorStep

LEMMA ProcessInv ==
    ASSUME Inv, NEW p \in Procs, GoroutineStep(p) \/ EnvironmentStep(p), UNCHANGED pmVars
    PROVE  Inv'
<1>0. ProcOK /\ PMTypeOK
  BY InvSplit
<1>1. ProcOK' /\ ports' = ports /\ Persist
  BY <1>0, ProcessStepOK
<1> QED
  BY <1>0, <1>1, UnregStays, OtherInv DEF pmVars, PMTypeOK

LEMMA NextInv == Inv /\ [Next]_vars => Inv'
<1> SUFFICES ASSUME Inv, [Next]_vars PROVE Inv'
  OBVIOUS
<1>1. CASE UNCHANGED vars
  BY <1>1 DEF vars, pmVars, procVars, Inv, TypeOK, ProcTypeOK, StoppersBounded, StopperCount,
              UnregBounded, UnregCount, Links, MapOK, HandlersOK, ReplacesOK, Registered, Constructed
<1>2. ASSUME NEW t \in Callers, CallRPC(t) \/ HandlerStep(t) PROVE Inv'
  BY <1>2, CallRPCInv, CreateInv, DeleteInv, ReplaceInv DEF HandlerStep
<1> QED
  BY <1>1, <1>2, ProcessInv, UnregStepInv, MonitorInv DEF Next

LEMMA SpecInv == Spec => []Inv
  BY InitInv, NextInv, PTL DEF Spec

(* Every variable keeps its type, for every number of processes, callers   *)
(* and ports; in particular the stopper and unregister goroutines of a     *)
(* process stay within the bounds, which takes the handlers that are about *)
(* to spawn one into account.                                              *)
THEOREM TypeCorrect == Spec => []TypeOK
<1>1. Inv => TypeOK
  BY DEF Inv
<1> QED
  BY <1>1, SpecInv, PTL

-----------------------------------------------------------------------------
(* The port allocator is used correctly.                                   *)
(*                                                                         *)
(* Whether a process owns ports follows from the map and from the handlers *)
(* (Owns).  A step leaves owners and ports alone (Keeps), or one process   *)
(* becomes an owner of a block of free ports (Takes), or one owner ceases  *)
(* to be one and its ports become free (Gives).  That the last two concern *)
(* one process only, and that a release always comes from an owner, rests  *)
(* on Links.                                                               *)

(* Who owns the ports: the owners and the free ports share no port and     *)
(* cover the range.                                                        *)
Ownership ==
    /\ \A p \in Procs : Owns(p) => ports[p] \cap free = {}
    /\ \A p, q \in Procs : p # q /\ Owns(p) /\ Owns(q) => ports[p] \cap ports[q] = {}
    /\ \A x \in PortSet : x \in free \/ \E p \in Procs : Owns(p) /\ x \in ports[p]

SameOwners == \A q \in Procs : Owns(q)' <=> Owns(q)

Keeps == UNCHANGED <<ports, free>> /\ SameOwners

Takes(p, b) ==
    /\ ~Owns(p) /\ Owns(p)'
    /\ b \subseteq free
    /\ free' = free \ b
    /\ ports' = [ports EXCEPT ![p] = b]
    /\ \A q \in Procs : q # p => (Owns(q)' <=> Owns(q))

Gives(p) ==
    /\ Owns(p) /\ ~Owns(p)'
    /\ free' = free \cup ports[p]
    /\ ports' = ports
    /\ \A q \in Procs : q # p => (Owns(q)' <=> Owns(q))

OwnershipStep ==
    \/ Keeps
    \/ \E p \in Procs : Gives(p) \/ \E b \in Blocks : Takes(p, b)

-----------------------------------------------------------------------------
(* Every step is one of the three.                                         *)

(* Nobody enters or leaves ProcessReplace.                                 *)
SameReplacers ==
    \A u \in Callers : /\ pc'[u] \in ReplacePC <=> pc[u] \in ReplacePC
                       /\ pc[u] \in ReplacePC => obj'[u] = obj[u]

LEMMA OwnersStay ==
    ASSUME SameReplacers, UNCHANGED processes
    PROVE  SameOwners
  BY DEF SameReplacers, SameOwners, Owns, Registered, Replacing

LEMMA AdvanceKeeps ==
    ASSUME Inv, NEW t \in Callers, NEW s, Goto(t, s), s \in ReplacePC <=> pc[t] \in ReplacePC,
           UNCHANGED <<obj, processes, ports, free>>
    PROVE  Keeps
<1>1. SameReplacers
  BY DEF Inv, TypeOK, Goto, SameReplacers
<1> QED
  BY <1>1, OwnersStay DEF Keeps

LEMMA FinishKeeps ==
    ASSUME Inv, NEW t \in Callers, Finish(t), pc[t] \notin ReplacePC,
           UNCHANGED <<processes, ports, free>>
    PROVE  Keeps
<1>1. SameReplacers
  BY DEF Inv, TypeOK, Goto, Finish, SameReplacers, ReplacePC
<1> QED
  BY <1>1, OwnersStay DEF Keeps

(* A registered process is not being replaced in by anybody.               *)
LEMMA RegisteredNotReplacing ==
    ASSUME Inv, NEW p \in Procs, Registered(p)
    PROVE  ~Replacing(p)
  BY DEF Inv, Links, ReplacesOK, Replacing

LEMMA FreshOwnsNothing ==
    ASSUME Inv, NEW p \in Procs, state[p] = "none"
    PROVE  /\ ~Owns(p)
           /\ \A u \in Callers : pc[u] # "idle" => obj[u] # p
<1>1. \A u \in Callers : pc[u] # "idle" => obj[u] # p
  BY DEF Inv, Links, HandlersOK, Constructed
<1>2. ~Registered(p)
  BY NamesAssumption, ProcsAssumption DEF Inv, Links, MapOK, Constructed, Registered
<1>3. \A s \in ReplacePC : s # "idle"
  BY DEF ReplacePC
<1> QED
  BY <1>1, <1>2, <1>3 DEF Owns, Replacing

LEMMA CreateTakes ==
    ASSUME Inv, NEW t \in Callers, NEW p \in Procs, NEW b \in Blocks, CreateRegister(t, p, b)
    PROVE  Takes(p, b)
<1>1. /\ pc[t] = "idle" /\ Construct(p, b) /\ state[p] = "none" /\ b \subseteq free
      /\ free' = free \ b /\ obj' = [obj EXCEPT ![t] = p] /\ Goto(t, "create_send")
      /\ processes[NameOf[p]] = NoProc /\ processes' = [processes EXCEPT ![NameOf[p]] = p]
  BY DEF CreateRegister, Construct
<1>2. SameReplacers
  BY <1>1 DEF SameReplacers, Inv, TypeOK, Goto, ReplacePC
<1>3. \A q : Replacing(q)' <=> Replacing(q)
  BY <1>2 DEF SameReplacers, Replacing
<1>4. /\ Registered(p)'
      /\ \A q \in Procs : q # p => (Registered(q)' <=> Registered(q))
  BY <1>1, NamesAssumption, ProcsAssumption DEF Inv, TypeOK, Registered
<1> QED
  BY <1>1, <1>3, <1>4, FreshOwnsNothing DEF Takes, Owns, Construct

LEMMA ReplaceTakes ==
    ASSUME Inv, NEW t \in Callers, NEW p \in Procs, NEW b \in Blocks, ReplaceInit(t, p, b)
    PROVE  Takes(p, b)
<1>1. PICK s \in {"replace_same", "replace_start"} : Goto(t, s)
  BY DEF ReplaceInit
<1>2. /\ pc[t] = "idle" /\ Construct(p, b) /\ state[p] = "none" /\ b \subseteq free
      /\ free' = free \ b /\ obj' = [obj EXCEPT ![t] = p] /\ UNCHANGED processes
  BY DEF ReplaceInit, Construct
<1>3. /\ obj'[t] = p /\ pc'[t] \in ReplacePC /\ pc[t] \notin ReplacePC
      /\ \A u \in Callers : u # t => pc'[u] = pc[u] /\ obj'[u] = obj[u]
  BY <1>1, <1>2 DEF Inv, TypeOK, Goto, ReplacePC
<1>4. /\ Replacing(p)'
      /\ \A q \in Procs : q # p => (Replacing(q)' <=> Replacing(q))
  BY <1>3 DEF Replacing
<1> QED
  BY <1>2, <1>4, FreshOwnsNothing DEF Takes, Owns, Construct, Registered

LEMMA CallRPCTakes ==
    ASSUME Inv, NEW t \in Callers, CallRPC(t)
    PROVE  Keeps \/ \E p \in Procs, b \in Blocks : Takes(p, b)
<1>1. ASSUME NEW p \in Procs, DeleteFind(t, p)
      PROVE  Keeps
  <2>1. SameReplacers
    BY <1>1 DEF DeleteFind, SameReplacers, Inv, TypeOK, Goto, ReplacePC
  <2> QED
    BY <1>1, <2>1, OwnersStay DEF Keeps, DeleteFind, procVars
<1>2. ASSUME Refuse(t) PROVE Keeps
  BY <1>2 DEF Refuse, vars, pmVars, procVars, Keeps, SameOwners, Owns, Registered, Replacing
<1> QED
  BY <1>1, <1>2, CreateTakes, ReplaceTakes DEF CallRPC

LEMMA CreateOwns ==
    ASSUME Inv, NEW t \in Callers, CreateStep(t)
    PROVE  Keeps
<1> USE DEF ReplacePC
<1>1. CASE CreateSend(t)
  BY <1>1, AdvanceKeeps DEF CreateSend, SendAndGoto
<1>2. CASE CreateStart(t)
  BY <1>2, AdvanceKeeps, FinishKeeps DEF CreateStart, StartOK, StartError
<1>3. CASE CreateSendError(t)
  BY <1>3, FinishKeeps DEF CreateSendError
<1> QED
  BY <1>1, <1>2, <1>3 DEF CreateStep

LEMMA DeleteOwns ==
    ASSUME Inv, NEW t \in Callers, DeleteStep(t)
    PROVE  Keeps
<1> USE DEF ReplacePC
<1>1. CASE DeleteStop(t)
  BY <1>1, AdvanceKeeps DEF DeleteStop, CallStop, StopLocked
<1>2. CASE DeleteSend(t)
  BY <1>2, AdvanceKeeps DEF DeleteSend, CallSpawn, SpawnStopper
<1>3. CASE DeleteUnregister(t)
  BY <1>3, FinishKeeps DEF DeleteUnregister, procVars
<1> QED
  BY <1>1, <1>2, <1>3 DEF DeleteStep

(* A handler drops its replacement: it is the only one that has it.        *)
LEMMA DropGives ==
    ASSUME Inv, NEW t \in Callers, NEW p \in Procs, obj[t] = p, pc[t] \in ReplacePC,
           ReleasePorts(p), Finish(t), UNCHANGED <<processes, ports>>
    PROVE  Gives(p)
<1>0. pc[t] # "idle" /\ "idle" \notin ReplacePC
  BY DEF ReplacePC
<1>1. \A u \in Callers : u # t => pc'[u] = pc[u] /\ obj'[u] = obj[u]
  BY DEF Inv, TypeOK, Goto, Finish
<1>2. pc'[t] = "idle"
  BY DEF Inv, TypeOK, Goto, Finish
<1>3. ~Registered(p) /\ \A u \in Callers : u # t /\ pc[u] # "idle" => obj[u] # p
  BY DEF Inv, Links, ReplacesOK
<1>4. Replacing(p) /\ ~Replacing(p)'
  BY <1>0, <1>1, <1>2, <1>3 DEF Replacing
<1>5. \A q \in Procs : q # p => (Replacing(q)' <=> Replacing(q))
  BY <1>0, <1>1, <1>2 DEF Replacing
<1> QED
  BY <1>3, <1>4, <1>5 DEF Gives, Owns, Registered, ReleasePorts

LEMMA CommitOwns ==
    ASSUME Inv, NEW t \in Callers, ReplaceCommit(t)
    PROVE  Keeps \/ \E o \in Procs : old[t] = o /\ Gives(o)
<1>0. pc[t] = "replace_commit" /\ pc[t] \in ReplacePC /\ UNCHANGED <<ports, obj>>
  BY DEF ReplaceCommit, ReplacePC, procVars
<1>p. PICK p \in Procs, o \in Procs : obj[t] = p /\ old[t] = o
  BY <1>0, HandlerObj, ReplaceOld
<1>1. CASE Goto(t, "cleanup_stop") /\ UNCHANGED <<processes, free>>
  BY <1>0, <1>1, AdvanceKeeps DEF ReplacePC
<1>2. ASSUME Goto(t, "replace_send"), processes' = [processes EXCEPT ![NameOf[p]] = p]
      PROVE  /\ Owns(p) /\ Owns(p)'
             /\ \A q : q # p => (Replacing(q)' <=> Replacing(q))
             /\ \A q \in Procs : q # p => (Registered(q)' <=> Registered(q) /\ NameOf[q] # NameOf[p])
  <2>1. Registered(p)'
    BY <1>2, NamesAssumption DEF Inv, TypeOK, Registered
  <2>2. Replacing(p)
    BY <1>0, <1>p DEF Replacing
  <2>3. \A u \in Callers : (u # t => pc'[u] = pc[u]) /\ (u = t => pc'[u] \notin ReplacePC)
    BY <1>2 DEF Inv, TypeOK, Goto, ReplacePC
  <2>4. \A q : q # p => (Replacing(q)' <=> Replacing(q))
    BY <1>0, <1>p, <2>3 DEF Replacing
  <2>5. \A q \in Procs : q # p => (Registered(q)' <=> Registered(q) /\ NameOf[q] # NameOf[p])
    BY <1>2, NamesAssumption DEF Inv, TypeOK, Registered
  <2> QED
    BY <2>1, <2>2, <2>4, <2>5 DEF Owns
<1>3. CASE /\ processes[NameOf[p]] = NoProc /\ Goto(t, "replace_send")
           /\ processes' = [processes EXCEPT ![NameOf[p]] = p] /\ UNCHANGED free
  <2>1. \A q \in Procs : Registered(q) => NameOf[q] # NameOf[p]
    BY <1>3, ProcsAssumption DEF Registered
  <2>2. SameOwners
    BY <1>2, <1>3, <2>1 DEF SameOwners, Owns
  <2> QED
    BY <1>0, <1>3, <2>2 DEF Keeps
<1>4. CASE /\ processes[NameOf[p]] = o /\ Goto(t, "replace_send")
           /\ processes' = [processes EXCEPT ![NameOf[p]] = p] /\ ReleasePorts(o)
  <2>1. Registered(o) /\ NameOf[o] = NameOf[p]
    BY <1>4, NamesAssumption, ProcsAssumption DEF Inv, Links, MapOK, Registered
  <2>2. o # p
    BY <1>0, <1>p, <2>1 DEF Inv, Links, ReplacesOK
  <2>3. ~Replacing(o)
    BY <2>1, RegisteredNotReplacing
  <2>4. Owns(o) /\ ~Owns(o)'
    BY <1>2, <1>4, <2>1, <2>2, <2>3 DEF Owns
  <2>5. \A q \in Procs : q # o /\ Registered(q) => NameOf[q] # NameOf[p]
    BY <1>4 DEF Registered
  <2>6. \A q \in Procs : q # o => (Owns(q)' <=> Owns(q))
    BY <1>2, <1>4, <2>5 DEF Owns
  <2>7. Gives(o)
    BY <1>0, <1>4, <2>4, <2>6 DEF Gives, ReleasePorts
  <2> QED
    BY <1>p, <2>7
<1> QED
  BY <1>p, <1>1, <1>3, <1>4 DEF ReplaceCommit

LEMMA ReplaceKeeps ==
    ASSUME Inv, NEW t \in Callers, ReplaceStep(t),
           ~ReplaceSame(t), ~CleanupRelease(t), ~ReplaceCommit(t)
    PROVE  Keeps
<1> USE DEF ReplacePC
<1>1. CASE ReplaceStart(t) \/ ReplacePoll(t) \/ ReplaceLock(t)
  <2>1. PICK s \in {"replace_poll", "cleanup_stop", "replace_stop_old", "replace_commit"} : Goto(t, s)
    BY <1>1 DEF ReplaceStart, ReplacePoll, ReplaceLock
  <2>2. pc[t] \in ReplacePC /\ UNCHANGED <<obj, processes, ports, free>>
    BY <1>1 DEF ReplaceStart, ReplacePoll, ReplaceLock, StartOK, StartError, procVars
  <2> QED
    BY <2>1, <2>2, AdvanceKeeps
<1>2. CASE ReplaceStopOld(t) \/ CleanupStop(t)
  <2>1. PICK s \in {"replace_send_old", "replace_lock", "cleanup_send", "cleanup_release"} : Goto(t, s)
    BY <1>2 DEF ReplaceStopOld, CleanupStop, CallStop
  <2>2. pc[t] \in ReplacePC /\ UNCHANGED <<obj, processes, ports, free>>
    BY <1>2 DEF ReplaceStopOld, CleanupStop, CallStop, StopLocked
  <2> QED
    BY <2>1, <2>2, AdvanceKeeps
<1>3. CASE ReplaceSendOld(t) \/ CleanupSend(t)
  <2>1. PICK s \in {"replace_lock", "cleanup_release"} : Goto(t, s)
    BY <1>3 DEF ReplaceSendOld, CleanupSend, CallSpawn
  <2>2. pc[t] \in ReplacePC /\ UNCHANGED <<obj, processes, ports, free>>
    BY <1>3 DEF ReplaceSendOld, CleanupSend, CallSpawn, SpawnStopper
  <2> QED
    BY <2>1, <2>2, AdvanceKeeps
<1>4. CASE ReplaceSend(t)
  BY <1>4, FinishKeeps DEF ReplaceSend
<1> QED
  BY <1>1, <1>2, <1>3, <1>4 DEF ReplaceStep

LEMMA ReplaceOwns ==
    ASSUME Inv, NEW t \in Callers, ReplaceStep(t)
    PROVE  OwnershipStep
<1> USE DEF ReplacePC
<1>1. CASE ReplaceSame(t) \/ CleanupRelease(t)
  <2>1. PICK p \in Procs : obj[t] = p
    BY <1>1, HandlerObj DEF ReplaceSame, CleanupRelease
  <2> QED
    BY <1>1, <2>1, DropGives DEF ReplaceSame, CleanupRelease, procVars, OwnershipStep
<1> QED
  BY <1>1, CommitOwns, ReplaceKeeps DEF OwnershipStep

(* Everybody but the handlers.                                             *)
LEMMA UnregOwns ==
    ASSUME Inv, NEW p \in Procs, UnregStep(p)
    PROVE  Keeps \/ (unreg[p]["remove"] > 0 /\ Gives(p))
<1>1. UNCHANGED <<pc, obj, ports>>
  BY DEF UnregStep, UnregStopped, UnregCheck, MoveUnreg, UnregGiveUp, UnregRemove, UnregSend, procVars
<1>2. \A q : Replacing(q)' <=> Replacing(q)
  BY <1>1 DEF Replacing
<1>3. CASE UNCHANGED <<processes, free>>
  BY <1>1, <1>2, <1>3 DEF Keeps, SameOwners, Owns, Registered
<1>4. CASE /\ unreg[p]["remove"] > 0 /\ Registered(p)
           /\ processes' = [processes EXCEPT ![NameOf[p]] = NoProc]
           /\ ReleasePorts(p)
  <2>1. /\ ~Registered(p)'
        /\ \A q \in Procs : q # p => (Registered(q)' <=> Registered(q))
    BY <1>4, NamesAssumption, ProcsAssumption DEF Inv, TypeOK, Registered
  <2> QED
    BY <1>1, <1>2, <1>4, <2>1, RegisteredNotReplacing DEF Gives, Owns, ReleasePorts
<1> QED
  BY <1>3, <1>4 DEF UnregStep, UnregStopped, UnregCheck, MoveUnreg, UnregGiveUp, UnregRemove, UnregSend

LEMMA NextOwns == Inv /\ [Next]_vars => OwnershipStep
<1> SUFFICES ASSUME Inv, [Next]_vars PROVE OwnershipStep
  OBVIOUS
<1>1. ASSUME UNCHANGED <<pc, obj, processes, ports, free>>
      PROVE  OwnershipStep
  BY <1>1 DEF OwnershipStep, Keeps, SameOwners, Owns, Registered, Replacing
<1>2. CASE UNCHANGED vars
  BY <1>1, <1>2 DEF vars, pmVars, procVars
<1>3. ASSUME NEW t \in Callers, CallRPC(t) \/ HandlerStep(t)
      PROVE  OwnershipStep
  BY <1>3, CallRPCTakes, CreateOwns, DeleteOwns, ReplaceOwns DEF HandlerStep, OwnershipStep
<1>4. ASSUME NEW p \in Procs, GoroutineStep(p) \/ EnvironmentStep(p), UNCHANGED pmVars
      PROVE  OwnershipStep
  BY <1>1, <1>4, InvSplit, ProcessStepOK DEF pmVars
<1>5. ASSUME NEW p \in Procs, CheckSend(p) PROVE OwnershipStep
  BY <1>1, <1>5 DEF CheckSend
<1>6. CASE MonitorStep \/ CheckMountPoints
  BY <1>1, <1>6 DEF MonitorStep, MonitorRespond, MonitorBroadcast, CheckMountPoints, procVars
<1> QED
  BY <1>2, <1>3, <1>4, <1>5, <1>6, UnregOwns DEF Next, OwnershipStep

-----------------------------------------------------------------------------
(* What follows.                                                           *)

LEMMA InitOwnership == Init => Ownership
<1> SUFFICES ASSUME Init PROVE Ownership
  OBVIOUS
<1>1. free = PortSet /\ \A p \in Procs : ports[p] = {}
  BY DEF Init, ProcInit
<1> QED
  BY <1>1 DEF Ownership

LEMMA NextOwnership ==
    ASSUME Inv, Ownership, OwnershipStep
    PROVE  Ownership'
<1>0. ports \in [Procs -> SUBSET PortSet] /\ free \in SUBSET PortSet
  BY DEF Inv, TypeOK
<1>1. CASE Keeps
  BY <1>1 DEF Keeps, SameOwners, Ownership
<1>2. ASSUME NEW p \in Procs, NEW b \in Blocks, Takes(p, b)
      PROVE  Ownership'
  <2>1. ports'[p] = b /\ \A q \in Procs : q # p => ports'[q] = ports[q]
    BY <1>0, <1>2 DEF Takes
  <2>2. free' = free \ b /\ b \subseteq free /\ ~Owns(p) /\ Owns(p)'
        /\ \A q \in Procs : q # p => (Owns(q)' <=> Owns(q))
    BY <1>2 DEF Takes
  <2>3. \A q \in Procs : Owns(q)' => ports'[q] \cap free' = {}
    BY <2>1, <2>2 DEF Ownership
  <2>4. \A q, r \in Procs : q # r /\ Owns(q)' /\ Owns(r)' => ports'[q] \cap ports'[r] = {}
    BY <2>1, <2>2 DEF Ownership
  <2>5. \A x \in PortSet : x \in free' \/ \E q \in Procs : Owns(q)' /\ x \in ports'[q]
    BY <2>1, <2>2 DEF Ownership
  <2> QED
    BY <2>3, <2>4, <2>5 DEF Ownership
<1>3. ASSUME NEW p \in Procs, Gives(p)
      PROVE  Ownership'
  <2>1. ports' = ports /\ free' = free \cup ports[p] /\ Owns(p) /\ ~Owns(p)'
        /\ \A q \in Procs : q # p => (Owns(q)' <=> Owns(q))
    BY <1>3 DEF Gives
  <2>2. \A q \in Procs : Owns(q)' => ports'[q] \cap free' = {}
    BY <2>1 DEF Ownership
  <2>3. \A q, r \in Procs : q # r /\ Owns(q)' /\ Owns(r)' => ports'[q] \cap ports'[r] = {}
    BY <2>1 DEF Ownership
  <2>4. \A x \in PortSet : x \in free' \/ \E q \in Procs : Owns(q)' /\ x \in ports'[q]
    BY <2>1 DEF Ownership
  <2> QED
    BY <2>2, <2>3, <2>4 DEF Ownership
<1> QED
  BY <1>1, <1>2, <1>3 DEF OwnershipStep

LEMMA SpecOwnership == Spec => []Ownership
<1>1. Inv /\ Ownership /\ [Next]_vars => Ownership'
  BY NextOwns, NextOwnership
<1> QED
  BY <1>1, InitOwnership, SpecInv, PTL DEF Spec

(* No port is lost and none has two owners, whatever creates, deletes,     *)
(* replaces and failures overlap.  (process_manager.go registerProcess,    *)
(* unregisterProcess, initProcessReplace, ProcessReplace,                  *)
(* cleanupReplacementProcess)                                              *)
THEOREM NoPortLostOrShared == Spec => []PortsConserved
<1>1. Inv /\ Ownership => PortsConserved
  <2> SUFFICES ASSUME Inv, Ownership PROVE PortsConserved
    OBVIOUS
  <2> DEFINE held == [p \in Procs |-> IF Owns(p) THEN ports[p] ELSE {}]
  <2>1. \A c \in Procs : held[c] \cap free = {}
    BY DEF Ownership
  <2>2. \A c, d \in Procs : c # d => held[c] \cap held[d] = {}
    BY DEF Ownership
  <2>3. \A x \in PortSet : x \in free \/ \E c \in Procs : x \in held[c]
    BY DEF Ownership
  <2> QED
    BY <2>1, <2>2, <2>3 DEF PortsConserved, Alloc!PortsConserved, Alloc!Ports, PortSet
<1> QED
  BY <1>1, SpecInv, SpecOwnership, PTL

LEMMA OwnershipStepRefines ==
    ASSUME Inv, OwnershipStep
    PROVE  Alloc!AllocNext \/ UNCHANGED Alloc!allocVars
<1> DEFINE held == [p \in Procs |-> IF Owns(p) THEN ports[p] ELSE {}]
<1>0. ports \in [Procs -> SUBSET PortSet] /\ held \in [Procs -> SUBSET PortSet]
  BY DEF Inv, TypeOK
<1>1. CASE Keeps
  <2>1. held' = held
    BY <1>1 DEF Keeps, SameOwners
  <2> QED
    BY <1>1, <2>1 DEF Keeps, Alloc!allocVars
<1>2. ASSUME NEW p \in Procs, NEW b \in Blocks, Takes(p, b)
      PROVE  Alloc!AllocNext \/ UNCHANGED Alloc!allocVars
  <2>1. ports'[p] = b /\ \A q \in Procs : q # p => ports'[q] = ports[q]
    BY <1>0, <1>2 DEF Takes
  <2>2. held[p] = {} /\ held' = [held EXCEPT ![p] = b]
    BY <1>0, <1>2, <2>1 DEF Takes
  <2>3. CASE b = {}
    <3>1. held' = held
      BY <1>0, <2>2, <2>3
    <3>2. free' = free
      BY <1>2, <2>3 DEF Takes
    <3> QED
      BY <3>1, <3>2 DEF Alloc!allocVars
  <2>4. CASE b # {}
    <3>1. b \in Alloc!Blocks
      <4>1. PICK n \in Counts : b \in BlocksOf(n)
        BY DEF Blocks
      <4>2. n \in Nat /\ n # 0 /\ PortMin \in Nat /\ PortMax \in Nat
        BY <2>4, <4>1, BoundsAssumption, PortRangeAssumption DEF BlocksOf
      <4>3. PICK s \in PortMin .. (PortMax - n + 1) : b = s .. (s + n - 1)
        BY <4>1, <4>2 DEF BlocksOf
      <4>4. s \in PortMin .. PortMax /\ (s + n - 1) \in PortMin .. PortMax
        BY <4>2, <4>3
      <4> QED
        BY <2>4, <4>3, <4>4 DEF Alloc!Blocks, Alloc!Ports
    <3>2. Alloc!Take(p, b)
      BY <1>2, <2>2 DEF Takes, Alloc!Take
    <3> QED
      BY <3>1, <3>2 DEF Alloc!AllocNext
  <2> QED
    BY <2>3, <2>4
<1>3. ASSUME NEW p \in Procs, Gives(p)
      PROVE  Alloc!AllocNext \/ UNCHANGED Alloc!allocVars
  <2>1. held[p] = ports[p] /\ held' = [held EXCEPT ![p] = {}]
    BY <1>0, <1>3 DEF Gives
  <2>2. free' = free \cup held[p]
    BY <1>3, <2>1 DEF Gives
  <2>3. CASE ports[p] = {}
    <3>1. held' = held /\ free' = free
      BY <1>0, <2>1, <2>2, <2>3
    <3> QED
      BY <3>1 DEF Alloc!allocVars
  <2>4. CASE ports[p] # {}
    <3>1. Alloc!Give(p)
      BY <2>1, <2>2, <2>4 DEF Alloc!Give
    <3> QED
      BY <3>1 DEF Alloc!AllocNext
  <2> QED
    BY <2>3, <2>4
<1> QED
  BY <1>1, <1>2, <1>3 DEF OwnershipStep

(* The handlers use the port allocator as PortAllocator wants to be used:  *)
(* a block is given to a process that holds none while all of its ports    *)
(* are free, and comes back whole and once.  (process_manager.go           *)
(* allocateProcessPorts, releaseProcessPorts and their callers)            *)
THEOREM AllocatorUse == Spec => UsesAllocator
<1>1. Init => Alloc!AllocInit
  <2> SUFFICES ASSUME Init PROVE Alloc!AllocInit
    OBVIOUS
  <2>1. free = PortSet /\ \A p \in Procs : ports[p] = {}
    BY DEF Init, ProcInit
  <2>2. [p \in Procs |-> IF Owns(p) THEN ports[p] ELSE {}] = [p \in Procs |-> {}]
    BY <2>1
  <2> QED
    BY <2>1, <2>2 DEF Alloc!AllocInit, Alloc!Ports, PortSet
<1>2. Inv /\ [Next]_vars => [Alloc!AllocNext]_(Alloc!allocVars)
  BY NextOwns, OwnershipStepRefines
<1> QED
  BY <1>1, <1>2, SpecInv, PTL DEF Spec, UsesAllocator, Alloc!AllocSpec

=============================================================================
