------------------------------ MODULE Shutdown ------------------------------
(***************************************************************************)
(* The life of the instance manager itself (app/cmd/start.go): the setup   *)
(* of its gRPC servers, the goroutines that serve, the signal handler that *)
(* stops all servers, and cleanup, which deletes all processes before the  *)
(* program ends.                                                           *)
(*                                                                         *)
(* grpc.Server.Stop (external) makes Serve return and refuses new calls,   *)
(* but does not wait for handlers: a ProcessCreate that has begun may      *)
(* still register its process afterwards, and the Watch of a health        *)
(* server, once called, never returns.  A Serve that fails by itself       *)
(* leaves its open connections as they are.                                *)
(*                                                                         *)
(* A process is here what cleanup sees of it, its entry in the manager's   *)
(* map; ProcessManager has the rest.                                       *)
(***************************************************************************)
EXTENDS Integers, Sequences

CONSTANTS
    Servers,    \* the gRPC servers
    Watchable,  \* those whose health somebody may watch
    Procs       \* the names of the processes clients create

(* All servers but that of the process manager are alike here: smaller     *)
(* sets of them are smaller instances.                                     *)
ASSUME ServersAssumption ==
    /\ "pm" \in Servers
    /\ Servers \subseteq {"disk", "instance", "proxy", "pm", "spdk"}
    /\ Watchable \subseteq Servers

VARIABLES
    main,       \* where start is
    spdk,       \* the flag spdk-enabled
    spdkTgt,    \* the spdk_tgt daemon has been told to stop
    monitor,    \* the process manager's monitor runs: its context is not done
    sigs,       \* number of signals in the channel sigs, of capacity 1
    handler,    \* the signal goroutine: "none", "wait", "stop", "ended"
    stopped,    \* the servers whose Stop has been called
    server,     \* server[s]: the goroutine that runs server s
    watch,      \* the server that has a handler of a health Watch
    procs,      \* procs[p]: "absent", "creating", "registered", "deleting"
    toDelete,   \* processes cleanup has listed and not yet deleted
    stubborn,   \* processes that do not end within a minute
    late        \* processes registered after cleanup made its list (history)

vars == <<main, spdk, spdkTgt, monitor, sigs, handler, stopped, server, watch,
          procs, toDelete, stubborn, late>>

(* What start sets up, in this order.                                      *)
SetupOrder == <<"logger", "unfreeze", "addresses",
                "disk", "instance", "proxy", "pm", "spdk">>
SetupSteps == {SetupOrder[i] : i \in 1 .. Len(SetupOrder)}
NotServers == {"logger", "unfreeze", "addresses"}

ServerPC == {"none", "up", "serve", "list", "delete", "poll", "notify", "ended"}

TypeOK ==
    /\ main \in SetupSteps \cup {"group", "wait", "returned"}
    /\ spdk \in BOOLEAN /\ spdkTgt \in BOOLEAN /\ monitor \in BOOLEAN
    /\ sigs \in 0 .. 1
    /\ handler \in {"none", "wait", "stop", "ended"}
    /\ stopped \in SUBSET Servers
    /\ server \in [Servers -> ServerPC]
    /\ watch \in Servers \cup {"none"}
    /\ procs \in [Procs -> {"absent", "creating", "registered", "deleting"}]
    /\ toDelete \in SUBSET Procs
    /\ stubborn \in SUBSET Procs
    /\ late \in SUBSET Procs

Init ==
    /\ main = "logger"
    /\ spdk \in BOOLEAN
    /\ spdkTgt = FALSE
    /\ monitor = FALSE
    /\ sigs = 0
    /\ handler = "none"
    /\ stopped = {}
    /\ server = [s \in Servers |-> "none"]
    /\ watch = "none"
    /\ procs = [p \in Procs |-> "absent"]
    /\ toDelete = {}
    /\ stubborn \in SUBSET Procs
    /\ late = {}

procVars == <<watch, procs, toDelete, stubborn, late>>

-----------------------------------------------------------------------------
(* start: set up, run the group, return.                                   *)

(* The deferred calls: the contexts end and spdk_tgt is stopped.           *)
ReturnFromStart ==
    /\ main' = "returned"
    /\ monitor' = FALSE
    /\ spdkTgt' = spdk
    /\ UNCHANGED spdk

(* File systems are unfrozen only without spdk, the last server is there   *)
(* only with it.                                                           *)
Skipped(step) == \/ step \notin Servers \cup NotServers
                 \/ IF spdk THEN step = "unfreeze" ELSE step = "spdk"

SetUp(i) ==
    /\ main = SetupOrder[i]
    /\ main' = IF i < Len(SetupOrder) THEN SetupOrder[i + 1] ELSE "group"
    /\ monitor' = (monitor \/ main = "pm")
    /\ server' = IF main \in Servers /\ ~Skipped(main)
                 THEN [server EXCEPT ![main] = "up"] ELSE server
    /\ UNCHANGED <<spdk, spdkTgt, sigs, handler, stopped, procVars>>

SetUpFails ==
    /\ main \in SetupSteps
    /\ ~Skipped(main)
    /\ ReturnFromStart
    /\ UNCHANGED <<sigs, handler, stopped, server, procVars>>

(* signal.Notify, then one goroutine for signals and one for each server.  *)
StartGroup ==
    /\ main = "group"
    /\ main' = "wait"
    /\ handler' = "wait"
    /\ server' = [s \in Servers |-> IF server[s] = "up" THEN "serve" ELSE server[s]]
    /\ UNCHANGED <<spdk, spdkTgt, monitor, sigs, stopped, procVars>>

(* g.Wait                                                                  *)
GroupWait ==
    /\ main = "wait"
    /\ handler = "ended"
    /\ \A s \in Servers : server[s] \in {"none", "ended"}
    /\ ReturnFromStart
    /\ UNCHANGED <<sigs, handler, stopped, server, procVars>>

-----------------------------------------------------------------------------
(* Signals.  One that finds the channel full is dropped.                   *)

(* Mutant of Signal: the channel has room for every signal.                *)
Signal_Unbounded ==
    /\ main = "wait"
    /\ sigs' = sigs + 1
    /\ UNCHANGED <<main, spdk, spdkTgt, monitor, handler, stopped, server, procVars>>

Signal ==
    /\ main = "wait"
    /\ sigs' = 1
    /\ UNCHANGED <<main, spdk, spdkTgt, monitor, handler, stopped, server, procVars>>

TakeSignal ==
    /\ handler = "wait" /\ sigs = 1
    /\ handler' = "stop"
    /\ sigs' = 0
    /\ UNCHANGED <<main, spdk, spdkTgt, monitor, stopped, server, procVars>>

Running == {s \in Servers : server[s] # "none"}

(* Mutant of StopServer: it waits for the handlers, as GracefulStop does.  *)
StopServer_Graceful(s) ==
    /\ handler = "stop"
    /\ s \in Running \ stopped
    /\ s # watch
    /\ stopped' = stopped \cup {s}
    /\ handler' = IF stopped' = Running THEN "ended" ELSE "stop"
    /\ UNCHANGED <<main, spdk, spdkTgt, monitor, sigs, server, procVars>>

StopServer(s) ==
    /\ handler = "stop"
    /\ s \in Running \ stopped
    /\ stopped' = stopped \cup {s}
    /\ handler' = IF stopped' = Running THEN "ended" ELSE "stop"
    /\ UNCHANGED <<main, spdk, spdkTgt, monitor, sigs, server, procVars>>

-----------------------------------------------------------------------------
(* The goroutine of a server.                                              *)

Becomes(s, at) == server' = [server EXCEPT ![s] = at]
Others == <<main, spdk, spdkTgt, monitor, handler, stopped>>

(* Serve returns because of Stop, or with an error of its own.             *)
ServeReturns(s) ==
    /\ main = "wait"
    /\ server[s] = "serve"
    /\ Becomes(s, IF s = "pm" THEN "list" ELSE "notify")
    /\ UNCHANGED <<Others, sigs, procVars>>

(* Mutant of NotifyOthers: waits for room in the channel.                  *)
NotifyOthers_Blocking(s) ==
    /\ server[s] = "notify"
    /\ sigs = 0
    /\ sigs' = 1
    /\ Becomes(s, "ended")
    /\ UNCHANGED <<Others, procVars>>

(* The deferred select puts a SIGTERM into sigs if there is room.          *)
NotifyOthers(s) ==
    /\ server[s] = "notify"
    /\ sigs' = 1
    /\ Becomes(s, "ended")
    /\ UNCHANGED <<Others, procVars>>

-----------------------------------------------------------------------------
(* cleanup, in the goroutine of the process manager's server.              *)

Registered(p) == procs[p] \in {"registered", "deleting"}

CleanupList ==
    /\ server["pm"] = "list"
    /\ toDelete' = {p \in Procs : Registered(p)}
    /\ Becomes("pm", "delete")
    /\ UNCHANGED <<Others, sigs, watch, procs, stubborn, late>>

(* Mutant of CleanupDelete: the first error ends the loop.                 *)
CleanupDelete_UntilError(p) ==
    /\ server["pm"] = "delete" /\ p \in toDelete
    /\ monitor
    /\ procs' = [procs EXCEPT ![p] = IF Registered(p) THEN "deleting" ELSE @]
    /\ toDelete' = IF Registered(p) THEN toDelete \ {p} ELSE {}
    /\ UNCHANGED <<Others, sigs, server, watch, stubborn, late>>

(* ProcessDelete(p); that p is gone by now is only logged.  The update it  *)
(* sends needs the monitor.                                                *)
CleanupDelete(p) ==
    /\ server["pm"] = "delete" /\ p \in toDelete
    /\ monitor
    /\ procs' = [procs EXCEPT ![p] = IF Registered(p) THEN "deleting" ELSE @]
    /\ toDelete' = toDelete \ {p}
    /\ UNCHANGED <<Others, sigs, server, watch, stubborn, late>>

CleanupDeleted ==
    /\ server["pm"] = "delete" /\ toDelete = {}
    /\ Becomes("pm", "poll")
    /\ UNCHANGED <<Others, sigs, procVars>>

(* The poll finds no process left, or a minute has passed: who is still    *)
(* there does not obey, or was not on the list.                            *)
CleanupPolled ==
    /\ server["pm"] = "poll"
    /\ \/ \A p \in Procs : ~Registered(p)
       \/ \A p \in Procs : procs[p] = "deleting" => p \in stubborn \cup late
    /\ Becomes("pm", "notify")
    /\ UNCHANGED <<Others, sigs, procVars>>

-----------------------------------------------------------------------------
(* Clients of the process manager.                                         *)

Accepting == main = "wait" /\ "pm" \notin stopped

CallCreate(p) ==
    /\ Accepting
    /\ procs[p] = "absent"
    /\ procs' = [procs EXCEPT ![p] = "creating"]
    /\ UNCHANGED <<Others, sigs, server, watch, toDelete, stubborn, late>>

(* registerProcess, as late as it likes as long as the program runs.       *)
RegisterProcess(p) ==
    /\ main = "wait"
    /\ procs[p] = "creating"
    /\ procs' = [procs EXCEPT ![p] = "registered"]
    /\ late' = IF server["pm"] \in {"serve", "list"} THEN late \ {p} ELSE late \cup {p}
    /\ UNCHANGED <<Others, sigs, server, watch, toDelete, stubborn>>

CallDelete(p) ==
    /\ Accepting
    /\ procs[p] = "registered"
    /\ procs' = [procs EXCEPT ![p] = "deleting"]
    /\ UNCHANGED <<Others, sigs, server, watch, toDelete, stubborn, late>>

(* The unregister goroutine of a process that ends in time.                *)
Unregister(p) ==
    /\ main = "wait"
    /\ procs[p] = "deleting" /\ p \notin stubborn
    /\ procs' = [procs EXCEPT ![p] = "absent"]
    /\ UNCHANGED <<Others, sigs, server, watch, toDelete, stubborn, late>>

(* The Watch of a health server: it sends its status every second, logs    *)
(* that a send has failed, and goes on.  One such handler is enough.       *)
HealthWatch(s) ==
    /\ main = "wait" /\ server[s] = "serve" /\ s \notin stopped
    /\ watch = "none"
    /\ watch' = s
    /\ UNCHANGED <<Others, sigs, server, procs, toDelete, stubborn, late>>

-----------------------------------------------------------------------------
Setup == \/ \E i \in 1 .. Len(SetupOrder) : SetUp(i)
         \/ SetUpFails
         \/ StartGroup
SignalHandler == TakeSignal \/ \E s \in Servers : StopServer(s)
Cleanup == CleanupList \/ (\E p \in Procs : CleanupDelete(p))
           \/ CleanupDeleted \/ CleanupPolled
Clients(p) == CallCreate(p) \/ RegisterProcess(p) \/ CallDelete(p)

Next ==
    \/ Setup \/ Signal \/ SignalHandler \/ Cleanup \/ GroupWait
    \/ \E s \in Servers : ServeReturns(s) \/ NotifyOthers(s)
    \/ \E s \in Watchable : HealthWatch(s)
    \/ \E p \in Procs : Clients(p) \/ Unregister(p)

(* All goroutines are scheduled, Serve returns after Stop, a process that  *)
(* obeys is unregistered, and the polls run out.                           *)
Fairness ==
    /\ WF_vars(SignalHandler) /\ WF_vars(GroupWait)
    /\ WF_vars(CleanupList) /\ WF_vars(CleanupDeleted) /\ WF_vars(CleanupPolled)
    /\ \A p \in Procs : WF_vars(CleanupDelete(p)) /\ WF_vars(Unregister(p))
    /\ \A s \in Servers : /\ WF_vars(s \in stopped /\ ServeReturns(s))
                          /\ WF_vars(NotifyOthers(s))

Spec == Init /\ [][Next]_vars /\ Fairness

-----------------------------------------------------------------------------
(* When the program ends, what is still registered (and will be killed by  *)
(* Pdeathsig instead of being stopped) did not obey for a minute or came   *)
(* after cleanup's list: nothing else is missed by "Trying to gracefully   *)
(* shut down" (start.go:85), whatever clients do meanwhile.                *)
NoneForgotten ==
    main = "returned" =>
        \A p \in Procs : Registered(p) => p \in stubborn \cup late

(* The end of one is the end of all: a signal, or one server that stops    *)
(* serving, brings the whole program down, after cleanup ("Send SIGTERM to *)
(* stop other grpc servers", start.go:281), even while a handler runs that *)
(* never returns.                                                          *)
OneEndsAll ==
    (main = "wait" /\ (sigs = 1 \/ \E s \in Servers : server[s] = "notify"))
        ~> main = "returned"

=============================================================================
