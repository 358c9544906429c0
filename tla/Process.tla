------------------------------- MODULE Process -------------------------------
(***************************************************************************)
(* The life of a Process object of the process manager (process.go,        *)
(* command.go, healthchecker.go): its State field, the operating-system    *)
(* process behind it, and the goroutines that work on it.                  *)
(*                                                                         *)
(*   runner    runs the command and records how it ended (Start, 65-84)    *)
(*   prober    waits until the process answers and marks it running        *)
(*             (Start, 86-107)                                             *)
(*   stoppers  one goroutine per effective StopWithSignal call (187-218)   *)
(*                                                                         *)
(* Every section under Process.lock is one action.  The stopper's test and *)
(* assignment of State without the lock (196-197) are two actions.         *)
(*                                                                         *)
(* All goroutines report to the manager over UpdateCh, an unbuffered       *)
(* channel: a send is possible only when the receiver is not busy.         *)
(* This module has no next-state relation of its own; ProcessManager calls *)
(* its operations and composes its goroutines.                             *)
(***************************************************************************)
EXTENDS Integers, FiniteSets

CONSTANTS
    Procs,          \* the Process objects that may be constructed
    NoProc,         \* the nil *Process
    MaxStoppers,    \* bound on the stopper goroutines of one process
    Faults          \* what goes wrong in the world around the manager

ASSUME ProcsAssumption == NoProc \notin Procs

(* "nobinary"  NewCommand does not find the binary                         *)
(* "nofork"    cmd.Run cannot fork                                         *)
(* "crash"     a process ends although nobody signalled it                 *)
(* "noanswer"  a process does not answer its port within a minute          *)
(* "nostop"    a process does not obey a signal within a minute            *)
ASSUME FaultsAssumption ==
    Faults \subseteq {"nobinary", "nofork", "crash", "noanswer", "nostop", "probehangs"}
ASSUME MaxStoppersAssumption == MaxStoppers \in Nat \ {0}

VARIABLES
    state,      \* Process.State; "none" before the object is constructed
    delTS,      \* Process.DeletionTimestamp: "nil", "set", "expired" (> 60 s)
    ports,      \* the set PortStart..PortEnd, {} for 0..0; kept after release
    logger,     \* the log file behind Process.logger: "none", "open", "closed"
    cmd,        \* Process.cmd: "nil", "new" (not forked yet), "live", "exited"
    killed,     \* SIGKILL was delivered to the operating-system process
    runner,     \* program counter of the runner goroutine
    prober,     \* program counter of the prober goroutine
    stoppers,   \* stoppers[p][s]: how many stopper goroutines of p are at s
    recv        \* the process the receiver of UpdateCh is busy with, or NoProc

procVars == <<state, delTS, ports, logger, cmd, killed, runner, prober,
              stoppers, recv>>

Terminal == {"stopped", "error"}
States == {"none", "starting", "running", "stopping"} \cup Terminal

RunnerPC == {"none", "run", "wait", "ok", "err", "send", "done"}
ProberPC == {"none", "probe", "ready", "failed", "stop",
             "send", "send_stop", "send_kill", "done"}
StopperPC == {"nocmd", "stop", "kill", "wait", "mark"}

NoStoppers == [s \in StopperPC |-> 0]

ProcTypeOK ==
    /\ state \in [Procs -> States]
    /\ delTS \in [Procs -> {"nil", "set", "expired"}]
    /\ logger \in [Procs -> {"none", "open", "closed"}]
    /\ cmd \in [Procs -> {"nil", "new", "live", "exited"}]
    /\ killed \in [Procs -> BOOLEAN]
    /\ runner \in [Procs -> RunnerPC]
    /\ prober \in [Procs -> ProberPC]
    /\ stoppers \in [Procs -> [StopperPC -> 0 .. MaxStoppers]]
    /\ recv \in Procs \cup {NoProc}

ProcInit ==
    /\ state = [p \in Procs |-> "none"]
    /\ delTS = [p \in Procs |-> "nil"]
    /\ ports = [p \in Procs |-> {}]
    /\ logger = [p \in Procs |-> "none"]
    /\ cmd = [p \in Procs |-> "nil"]
    /\ killed = [p \in Procs |-> FALSE]
    /\ runner = [p \in Procs |-> "none"]
    /\ prober = [p \in Procs |-> "none"]
    /\ stoppers = [p \in Procs |-> NoStoppers]
    /\ recv = NoProc

-----------------------------------------------------------------------------
(* Helpers.                                                                *)

IsStopped(p) == state[p] \in Terminal
IsRunning(p) == cmd[p] = "live"

StopperCount(p) == stoppers[p]["nocmd"] + stoppers[p]["stop"]
                   + stoppers[p]["kill"] + stoppers[p]["wait"]
                   + stoppers[p]["mark"]

(* A minute is enough for every goroutine of p that does not itself wait   *)
(* for time or for the operating-system process: 60 s timeouts expire only *)
(* when none of them is between two steps.  The fault says what took so    *)
(* long.                                                                   *)
MinutePassed(p, fault) ==
    /\ fault \in Faults
    /\ runner[p] \in {"none", "wait", "done"}
    /\ \A s \in StopperPC \ {"wait"} : stoppers[p][s] = 0

(* p.UpdateCh <- p                                                         *)
Send(p) ==
    /\ recv = NoProc
    /\ recv' = p

-----------------------------------------------------------------------------
(* Operations called by the manager.                                       *)

(* Mutant of Construct: State is not set.                                  *)
Construct_NoState(p, b) ==
    /\ state[p] = "none"
    /\ state' = [state EXCEPT ![p] = ""]
    /\ logger' = [logger EXCEPT ![p] = "open"]
    /\ ports' = [ports EXCEPT ![p] = b]
    /\ UNCHANGED <<delTS, cmd, killed, runner, prober, stoppers, recv>>

(* &Process{State: StateStarting, ...} with its log file open and the      *)
(* block b of ports.                                                       *)
Construct(p, b) ==
    /\ state[p] = "none"
    /\ state' = [state EXCEPT ![p] = "starting"]
    /\ logger' = [logger EXCEPT ![p] = "open"]
    /\ ports' = [ports EXCEPT ![p] = b]
    /\ UNCHANGED <<delTS, cmd, killed, runner, prober, stoppers, recv>>

(* Start: NewCommand succeeds, the two goroutines are spawned.             *)
StartOK(p) ==
    /\ cmd' = [cmd EXCEPT ![p] = "new"]
    /\ runner' = [runner EXCEPT ![p] = "run"]
    /\ prober' = [prober EXCEPT ![p] = "probe"]
    /\ UNCHANGED <<state, delTS, ports, logger, killed, stoppers, recv>>

(* Start: the binary cannot be found.                                      *)
StartError(p) ==
    /\ "nobinary" \in Faults
    /\ state' = [state EXCEPT ![p] = "error"]
    /\ UNCHANGED <<delTS, ports, logger, cmd, killed, runner, prober, stoppers, recv>>

(* Mutant of NeedCloseLogger: only stopper goroutines close log files.     *)
NeedCloseLogger_Never(p) == FALSE

(* StopWithSignal decides under the lock what has to be done.              *)
NeedStop(p) == state[p] \notin {"stopping"} \cup Terminal
NeedTimeoutKill(p) == ~NeedStop(p) /\ delTS[p] = "expired"
NeedCloseLogger(p) == /\ ~NeedStop(p) /\ ~NeedTimeoutKill(p)
                      /\ delTS[p] = "nil"
                      /\ IsStopped(p)

StopMode(p) == IF NeedStop(p) THEN "stop"
               ELSE IF NeedTimeoutKill(p) THEN "kill"
               ELSE "none"

(* StopWithSignal up to the send: the locked section, and the close of the *)
(* log file of a process that ended on its own.                            *)
StopLocked(p) ==
    /\ state' = [state EXCEPT ![p] = IF NeedStop(p) THEN "stopping" ELSE @]
    /\ delTS' = [delTS EXCEPT ![p] = IF NeedStop(p) THEN "set" ELSE @]
    /\ logger' = [logger EXCEPT ![p] = IF NeedCloseLogger(p) THEN "closed" ELSE @]
    /\ UNCHANGED <<ports, cmd, killed, runner, stoppers>>

(* StopWithSignal from the send on: the update is delivered and the        *)
(* stopper goroutine spawned with the command read after it.  The two are  *)
(* one step: cmd is assigned once, by Start, and a Start between them does *)
(* what a Start before the send would have done.                           *)
SpawnStopper(p, mode) ==
    /\ Send(p)
    /\ StopperCount(p) < MaxStoppers
    /\ LET s == IF cmd[p] = "nil" THEN "nocmd" ELSE mode
       IN  stoppers' = [stoppers EXCEPT ![p][s] = @ + 1]
    /\ UNCHANGED <<state, delTS, ports, logger, cmd, killed, runner>>

-----------------------------------------------------------------------------
(* The runner goroutine and the operating-system process.                  *)

(* Mutant of RunnerFork: cmd.Start instead of cmd.Run, which also waits.   *)
RunnerFork_NoWait(p) ==
    /\ runner[p] = "run"
    /\ cmd' = [cmd EXCEPT ![p] = "live"]
    /\ runner' = [runner EXCEPT ![p] = "ok"]
    /\ UNCHANGED <<state, delTS, ports, logger, killed, prober, stoppers, recv>>

(* cmd.Run forks the process.                                              *)
RunnerFork(p) ==
    /\ runner[p] = "run"
    /\ cmd' = [cmd EXCEPT ![p] = "live"]
    /\ runner' = [runner EXCEPT ![p] = "wait"]
    /\ UNCHANGED <<state, delTS, ports, logger, killed, prober, stoppers, recv>>

(* cmd.Run fails without forking; probeStopCh is closed.                   *)
RunnerForkFails(p) ==
    /\ "nofork" \in Faults
    /\ runner[p] = "run"
    /\ cmd' = [cmd EXCEPT ![p] = "exited"]
    /\ runner' = [runner EXCEPT ![p] = "err"]
    /\ UNCHANGED <<state, delTS, ports, logger, killed, prober, stoppers, recv>>

(* The operating-system process ends, by itself, by a signal or killed, so *)
(* cmd.Run returns nil or an error and probeStopCh is closed.  It is live  *)
(* until cmd.Run has waited for it and set ProcessState, which is what     *)
(* IsRunning looks at; Run then returns without another step.              *)
CmdExit(p) ==
    /\ cmd[p] = "live"
    /\ "crash" \in Faults \/ killed[p] \/ stoppers[p]["wait"] > 0
    /\ cmd' = [cmd EXCEPT ![p] = "exited"]
    /\ \E r \in {"ok", "err"} : runner' = [runner EXCEPT ![p] = r]
    /\ UNCHANGED <<state, delTS, ports, logger, killed, prober, stoppers, recv>>

(* Mutant of RunnerRecord: no update is sent.                              *)
RunnerRecord_Silent(p) ==
    /\ runner[p] \in {"ok", "err"}
    /\ state' = [state EXCEPT ![p] = IF runner[p] = "ok" THEN "stopped" ELSE "error"]
    /\ runner' = [runner EXCEPT ![p] = "done"]
    /\ UNCHANGED <<delTS, ports, logger, cmd, killed, prober, stoppers, recv>>

(* The runner records the end of the process.                              *)
RunnerRecord(p) ==
    /\ runner[p] \in {"ok", "err"}
    /\ state' = [state EXCEPT ![p] = IF runner[p] = "ok" THEN "stopped" ELSE "error"]
    /\ runner' = [runner EXCEPT ![p] = "send"]
    /\ UNCHANGED <<delTS, ports, logger, cmd, killed, prober, stoppers, recv>>

RunnerSend(p) ==
    /\ runner[p] = "send"
    /\ Send(p)
    /\ runner' = [runner EXCEPT ![p] = "done"]
    /\ UNCHANGED <<state, delTS, ports, logger, cmd, killed, prober, stoppers>>

-----------------------------------------------------------------------------
(* The prober goroutine.                                                   *)

ProbeStopClosed(p) == runner[p] \in {"ok", "err", "send", "done"}

(* Something answers on PortStart: the process itself, or any other live   *)
(* process that was given this port.                                       *)
PortAnswers(p) ==
    \E q \in Procs : IsRunning(q) /\ \E x \in ports[p] :
        x \in ports[q] /\ \A y \in ports[p] : x <= y

(* The probe program does not end within a minute, and ExecuteWithTimeout  *)
(* returns no error then: the one it wraps is nil.  Whatever has become of *)
(* the process meanwhile, this counts as an answer.                        *)
ProbeTimesOut(p) == MinutePassed(p, "probehangs")

(* WaitForRunning returns true.                                            *)
ProbeReady(p) ==
    /\ prober[p] = "probe" /\ ports[p] # {}
    /\ PortAnswers(p) \/ ProbeTimesOut(p)
    /\ prober' = [prober EXCEPT ![p] = "ready"]
    /\ UNCHANGED <<state, delTS, ports, logger, cmd, killed, runner, stoppers, recv>>

(* WaitForRunning returns false: the process ended, or 600 probes failed.  *)
ProbeFails(p) ==
    /\ prober[p] = "probe" /\ ports[p] # {}
    /\ ProbeStopClosed(p) \/ MinutePassed(p, "noanswer")
    /\ prober' = [prober EXCEPT ![p] = "failed"]
    /\ UNCHANGED <<state, delTS, ports, logger, cmd, killed, runner, stoppers, recv>>

(* The prober marks the process running, whatever its state is by now; a   *)
(* process without ports is marked at once.                                *)
ProbeRunning(p) ==
    /\ \/ prober[p] = "ready"
       \/ prober[p] = "probe" /\ ports[p] = {}
    /\ state' = [state EXCEPT ![p] = "running"]
    /\ prober' = [prober EXCEPT ![p] = "send"]
    /\ UNCHANGED <<delTS, ports, logger, cmd, killed, runner, stoppers, recv>>

ProbeSend(p) ==
    /\ prober[p] = "send"
    /\ Send(p)
    /\ prober' = [prober EXCEPT ![p] = "done"]
    /\ UNCHANGED <<state, delTS, ports, logger, cmd, killed, runner, stoppers>>

(* if !p.IsStopped() { p.Stop() }                                          *)
ProbeCheck(p) ==
    /\ prober[p] = "failed"
    /\ prober' = [prober EXCEPT ![p] = IF IsStopped(p) THEN "done" ELSE "stop"]
    /\ UNCHANGED <<state, delTS, ports, logger, cmd, killed, runner, stoppers, recv>>

ProbeStop(p) ==
    /\ prober[p] = "stop"
    /\ StopLocked(p)
    /\ prober' = [prober EXCEPT ![p] = CASE StopMode(p) = "stop" -> "send_stop"
                                         [] StopMode(p) = "kill" -> "send_kill"
                                         [] OTHER -> "done"]
    /\ UNCHANGED recv

ProbeSpawn(p) ==
    /\ \/ prober[p] = "send_stop" /\ SpawnStopper(p, "stop")
       \/ prober[p] = "send_kill" /\ SpawnStopper(p, "kill")
    /\ prober' = [prober EXCEPT ![p] = "done"]

-----------------------------------------------------------------------------
(* Stopper goroutines.                                                     *)

MoveStopper(p, s, t) ==
    /\ stoppers[p][s] > 0
    /\ stoppers' = [stoppers EXCEPT ![p][s] = @ - 1, ![p][t] = @ + 1]
    /\ UNCHANGED <<delTS, ports, logger, cmd, runner, prober, recv>>

(* The goroutine returns; its deferred call closes the log file.           *)
EndStopper(p, s) ==
    /\ stoppers[p][s] > 0
    /\ stoppers' = [stoppers EXCEPT ![p][s] = @ - 1]
    /\ logger' = [logger EXCEPT ![p] = "closed"]
    /\ UNCHANGED <<delTS, ports, cmd, runner, prober, recv>>

(* cmd == nil || !cmd.IsRunning(): the goroutine reads State without the   *)
(* lock and ends, or goes on to mark the process stopped.                  *)
StopperNotRunning(p, s) ==
    /\ s = "nocmd" \/ (s \in {"stop", "kill"} /\ ~IsRunning(p))
    /\ IF IsStopped(p) THEN EndStopper(p, s) ELSE MoveStopper(p, s, "mark")
    /\ UNCHANGED <<state, killed>>

StopperMark(p) ==
    /\ EndStopper(p, "mark")
    /\ state' = [state EXCEPT ![p] = "stopped"]
    /\ UNCHANGED killed

(* cmd.StopWithSignal; whether and when the process obeys is up to it.     *)
StopperSignal(p) ==
    /\ IsRunning(p)
    /\ MoveStopper(p, "stop", "wait")
    /\ UNCHANGED <<state, killed>>

StopperWaitDone(p) ==
    /\ IsStopped(p)
    /\ EndStopper(p, "wait")
    /\ UNCHANGED <<state, killed>>

(* Mutant of StopperKill: gives up instead of killing.                     *)
StopperKill_GivesUp(p) ==
    /\ \/ EndStopper(p, "kill") /\ IsRunning(p)
       \/ EndStopper(p, "wait") /\ MinutePassed(p, "nostop")
    /\ UNCHANGED <<state, killed>>

(* cmd.Kill, after 600 waits or on a retry of a stop that took too long.   *)
StopperKill(p) ==
    /\ \/ EndStopper(p, "kill") /\ IsRunning(p)
       \/ EndStopper(p, "wait") /\ MinutePassed(p, "nostop")
    /\ killed' = [killed EXCEPT ![p] = @ \/ IsRunning(p)]
    /\ UNCHANGED state

(* 60 s since the DeletionTimestamp.                                       *)
DeletionExpires(p) ==
    /\ delTS[p] = "set"
    /\ MinutePassed(p, "nostop")
    /\ delTS' = [delTS EXCEPT ![p] = "expired"]
    /\ UNCHANGED <<state, ports, logger, cmd, killed, runner, prober, stoppers, recv>>

-----------------------------------------------------------------------------
(* The steps of p's goroutines that the Go scheduler runs eventually.      *)
RunnerStep(p) == RunnerFork(p) \/ RunnerForkFails(p) \/ RunnerRecord(p)
ProberStep(p) == \/ ProbeReady(p) \/ ProbeFails(p) \/ ProbeRunning(p)
                 \/ ProbeCheck(p) \/ ProbeStop(p)
StopperStep(p) == \/ \E s \in {"nocmd", "stop", "kill"} : StopperNotRunning(p, s)
                  \/ StopperMark(p) \/ StopperSignal(p)
                  \/ StopperWaitDone(p) \/ StopperKill(p)

GoroutineStep(p) ==
    \/ RunnerStep(p) \/ RunnerSend(p)
    \/ ProberStep(p) \/ ProbeSend(p) \/ ProbeSpawn(p)
    \/ StopperStep(p)

(* What time and the operating system do.                                  *)
EnvironmentStep(p) == CmdExit(p) \/ DeletionExpires(p)

=============================================================================
