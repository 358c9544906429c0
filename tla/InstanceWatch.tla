---------------------------- MODULE InstanceWatch ----------------------------
(***************************************************************************)
(* One InstanceWatch call of the instance service (instance.go:679-1015),  *)
(* or one SPDKBackingImageWatch call of the proxy service, which is built  *)
(* alike with a single watcher (backing_image.go:84-186).                  *)
(* Watcher goroutines turn every item of their stream (processes, and the  *)
(* SPDK objects if the v2 data engine is enabled) into an empty notice in  *)
(* notifyChan; handleNotify forwards notices to the client of the call.    *)
(* All run in one errgroup: the first that returns an error cancels the    *)
(* group's context.  When handleNotify ends, the closer goroutine closes   *)
(* the clients, which makes every pending Recv fail with Canceled.         *)
(*                                                                         *)
(* Once Recv of a gRPC stream has failed it fails for ever (external), so  *)
(* the retries of a watcher only delay its end.                            *)
(***************************************************************************)
EXTENDS Integers, FiniteSets

CONSTANTS
    Groups,     \* the watcher goroutines of a call, for each kind of call
    ChanCap,    \* capacity of notifyChan, 1024 in the code
    MaxRetry,   \* maxMonitorRetryCount
    MaxItems    \* bound on the items the streams deliver

(* With the v2 data engine the call also runs watchSPDKEngine and its four *)
(* siblings, copies of watchProcess; smaller sets of watchers are smaller  *)
(* instances of the same group.                                            *)
SPDKWatchers == {"engine", "engine_frontend", "replica", "shard", "shard_group"}

(* The group of SPDKBackingImageWatch has one watcher.                     *)
BackingImageWatchers == {"backing_image"}

Watchers == UNION Groups

ASSUME InstanceWatchAssumption ==
    /\ \A g \in Groups :
         \/ "process" \in g /\ g \subseteq {"process"} \cup SPDKWatchers
         \/ g = BackingImageWatchers
    /\ ChanCap \in Nat \ {0}
    /\ MaxRetry \in Nat \ {0}
    /\ MaxItems \in Nat

(* Server.v2DataEngineEnabled                                              *)
V2DataEngineEnabled == Watchers \cap SPDKWatchers # {}

VARIABLES
    call,       \* the handler: "clients", "abort", "group", "returned"
    clients,    \* "none", "open" or "closed": the clients map
    closer,     \* the closer goroutine: "wait" on done, "close", "ended"
    notify,     \* handleNotify: "none", "select", "exit", "return", "ended"
    notices,    \* number of notices in notifyChan
    chanOpen,   \* notifyChan has not been closed
    canceled,   \* the errgroup's context is done
    wpc,        \* wpc[w]: "none", "open", "check", "recv", "push", "ended"
    failures,   \* failureCount of watcher w
    broken,     \* the stream of w has failed
    items,      \* items delivered by all streams so far
    pushedLate  \* a notice was put into the closed channel (a panic)

vars == <<call, clients, closer, notify, notices, chanOpen, canceled, wpc,
          failures, broken, items, pushedLate>>

TypeOK ==
    /\ call \in {"clients", "abort", "group", "returned"}
    /\ clients \in {"none", "open", "closed"}
    /\ closer \in {"wait", "close", "ended"}
    /\ notify \in {"none", "select", "exit", "return", "ended"}
    /\ notices \in 0 .. ChanCap
    /\ chanOpen \in BOOLEAN
    /\ canceled \in BOOLEAN
    /\ wpc \in [Watchers -> {"none", "open", "check", "recv", "push", "ended"}]
    /\ failures \in [Watchers -> 0 .. MaxRetry]
    /\ broken \in [Watchers -> BOOLEAN]
    /\ items \in 0 .. MaxItems
    /\ pushedLate \in BOOLEAN

Init ==
    /\ call = "clients"
    /\ clients = "none"
    /\ closer = "wait"
    /\ notify = "none"
    /\ notices = 0
    /\ chanOpen = TRUE
    /\ canceled = FALSE
    /\ wpc = [w \in Watchers |-> "none"]
    /\ failures = [w \in Watchers |-> 0]
    /\ broken = [w \in Watchers |-> FALSE]
    /\ items = 0
    /\ pushedLate = FALSE

-----------------------------------------------------------------------------
(* The handler.                                                            *)

(* The clients of the call are created and its group starts; a watcher of  *)
(* another kind of call has no part in it.                                 *)
StartGroup ==
    /\ call = "clients"
    /\ call' = "group"
    /\ clients' = "open"
    /\ notify' = "select"
    /\ \E g \in Groups : wpc' = [w \in Watchers |-> IF w \in g THEN "open" ELSE "ended"]
    /\ UNCHANGED <<closer, notices, chanOpen, canceled, failures, broken, items, pushedLate>>

(* Creating a client fails, the first (nothing is open) or the second.     *)
ClientFails ==
    /\ call = "clients"
    /\ call' = "abort"
    /\ \/ UNCHANGED clients
       \/ V2DataEngineEnabled /\ clients' = "open"
    /\ UNCHANGED <<closer, notify, notices, chanOpen, canceled, wpc, failures, broken,
                   items, pushedLate>>

(* done <- struct{}{}: handed to the closer, which must be waiting.        *)
SignalDone ==
    /\ closer = "wait"
    /\ closer' = "close"

Abort ==
    /\ call = "abort"
    /\ SignalDone
    /\ call' = "returned"
    /\ UNCHANGED <<clients, notify, notices, chanOpen, canceled, wpc, failures, broken,
                   items, pushedLate>>

(* Mutant of GroupWait: the call returns with the notifier.                *)
GroupWait_NotifierOnly ==
    /\ call = "group"
    /\ notify = "ended"
    /\ call' = "returned"
    /\ chanOpen' = FALSE
    /\ UNCHANGED <<clients, closer, notify, notices, canceled, wpc, failures, broken,
                   items, pushedLate>>

(* g.Wait returns when all goroutines have; notifyChan is closed.          *)
GroupWait ==
    /\ call = "group"
    /\ notify = "ended"
    /\ \A w \in Watchers : wpc[w] = "ended"
    /\ call' = "returned"
    /\ chanOpen' = FALSE
    /\ UNCHANGED <<clients, closer, notify, notices, canceled, wpc, failures, broken,
                   items, pushedLate>>

(* The closer goroutine closes the clients and the done channel.           *)
CloseClients ==
    /\ closer = "close"
    /\ closer' = "ended"
    /\ clients' = "closed"
    /\ UNCHANGED <<call, notify, notices, chanOpen, canceled, wpc, failures, broken,
                   items, pushedLate>>

(* Server.ctx is done, or the caller of the group's parent cancels.        *)
ServerDone ==
    /\ call = "group"
    /\ ~canceled
    /\ canceled' = TRUE
    /\ UNCHANGED <<call, clients, closer, notify, notices, chanOpen, wpc, failures,
                   broken, items, pushedLate>>

-----------------------------------------------------------------------------
(* handleNotify.                                                           *)

(* A notice is forwarded; Send succeeds, or fails and ends the loop.       *)
Forward ==
    /\ notify = "select"
    /\ notices > 0
    /\ notices' = notices - 1
    /\ \E n \in {"select", "exit"} : notify' = n
    /\ UNCHANGED <<call, clients, closer, chanOpen, canceled, wpc, failures, broken,
                   items, pushedLate>>

NotifyCanceled ==
    /\ notify = "select"
    /\ canceled
    /\ notify' = "exit"
    /\ UNCHANGED <<call, clients, closer, notices, chanOpen, canceled, wpc, failures,
                   broken, items, pushedLate>>

(* Mutant of NotifyExit: the clients are left open.                        *)
NotifyExit_ClientsOpen ==
    /\ notify = "exit"
    /\ notify' = "return"
    /\ UNCHANGED <<call, clients, closer, notices, chanOpen, canceled, wpc, failures,
                   broken, items, pushedLate>>

(* The deferred done <- struct{}{}.                                        *)
NotifyExit ==
    /\ notify = "exit"
    /\ SignalDone
    /\ notify' = "return"
    /\ UNCHANGED <<call, clients, notices, chanOpen, canceled, wpc, failures, broken,
                   items, pushedLate>>

(* The error that handleNotify returns cancels the group.                  *)
NotifyReturn ==
    /\ notify = "return"
    /\ notify' = "ended"
    /\ canceled' = TRUE
    /\ UNCHANGED <<call, clients, closer, notices, chanOpen, wpc, failures, broken,
                   items, pushedLate>>

-----------------------------------------------------------------------------
(* A watcher.                                                              *)

Becomes(w, s) == wpc' = [wpc EXCEPT ![w] = s]

(* It returns an error, the first of which cancels the group.              *)
Ends(w) ==
    /\ Becomes(w, "ended")
    /\ canceled' = TRUE

(* The notifier is created, or not.                                        *)
OpenStream(w) ==
    /\ wpc[w] = "open"
    /\ \/ Becomes(w, "check") /\ UNCHANGED canceled
       \/ Ends(w)
    /\ UNCHANGED <<call, clients, closer, notify, notices, chanOpen, failures, broken,
                   items, pushedLate>>

(* Mutant of CheckLoop: one retry too many.                                *)
CheckLoop_OneMore(w) ==
    /\ wpc[w] = "check"
    /\ \/ /\ failures[w] > MaxRetry \/ canceled
          /\ Ends(w)
       \/ /\ failures[w] <= MaxRetry /\ ~canceled
          /\ Becomes(w, "recv")
          /\ UNCHANGED canceled
    /\ UNCHANGED <<call, clients, closer, notify, notices, chanOpen, failures, broken,
                   items, pushedLate>>

(* The top of the loop.                                                    *)
CheckLoop(w) ==
    /\ wpc[w] = "check"
    /\ \/ /\ failures[w] >= MaxRetry \/ canceled
          /\ Ends(w)
       \/ /\ failures[w] < MaxRetry /\ ~canceled
          /\ Becomes(w, "recv")
          /\ UNCHANGED canceled
    /\ UNCHANGED <<call, clients, closer, notify, notices, chanOpen, failures, broken,
                   items, pushedLate>>

(* Recv returns an item, maybe one that was there before the client got    *)
(* closed.                                                                 *)
RecvItem(w) ==
    /\ wpc[w] = "recv"
    /\ ~broken[w]
    /\ items < MaxItems
    /\ items' = items + 1
    /\ Becomes(w, "push")
    /\ UNCHANGED <<call, clients, closer, notify, notices, chanOpen, canceled, failures,
                   broken, pushedLate>>

(* Mutant of RecvError: failures are not counted.                          *)
RecvError_Uncounted(w) ==
    /\ wpc[w] = "recv"
    /\ clients = "open"
    /\ broken' = [broken EXCEPT ![w] = TRUE]
    /\ Becomes(w, "check")
    /\ UNCHANGED <<call, clients, closer, notify, notices, chanOpen, canceled, failures,
                   items, pushedLate>>

(* Recv fails: the peer is gone.  The watcher sleeps, counts, retries.     *)
RecvError(w) ==
    /\ wpc[w] = "recv"
    /\ clients = "open"
    /\ broken' = [broken EXCEPT ![w] = TRUE]
    /\ failures' = [failures EXCEPT ![w] = @ + 1]
    /\ Becomes(w, "check")
    /\ UNCHANGED <<call, clients, closer, notify, notices, chanOpen, canceled, items,
                   pushedLate>>

(* Recv fails with Canceled: the client has been closed, or the stream's   *)
(* context is done.  The watchers of InstanceWatch open their streams with *)
(* context.Background(), that of backing images with the group's context.  *)
StreamCanceled(w) == clients = "closed" \/ (canceled /\ w \in BackingImageWatchers)

RecvCanceled(w) ==
    /\ wpc[w] = "recv"
    /\ StreamCanceled(w)
    /\ Ends(w)
    /\ UNCHANGED <<call, clients, closer, notify, notices, chanOpen, failures, broken,
                   items, pushedLate>>

(* notifyChan <- struct{}{} waits while the channel is full, and panics if *)
(* it is closed.                                                           *)
Push(w) ==
    /\ wpc[w] = "push"
    /\ notices < ChanCap \/ ~chanOpen
    /\ notices' = IF chanOpen THEN notices + 1 ELSE notices
    /\ pushedLate' = (pushedLate \/ ~chanOpen)
    /\ Becomes(w, "check")
    /\ UNCHANGED <<call, clients, closer, notify, chanOpen, canceled, failures, broken,
                   items>>

(* The six watch functions are copies of the same loop.                    *)
Watcher(w) == \/ OpenStream(w) \/ CheckLoop(w) \/ RecvItem(w) \/ RecvError(w)
              \/ RecvCanceled(w) \/ Push(w)

handleNotify == Forward \/ NotifyCanceled \/ NotifyExit \/ NotifyReturn

Next ==
    \/ StartGroup \/ ClientFails \/ Abort \/ GroupWait
    \/ CloseClients \/ ServerDone
    \/ handleNotify
    \/ \E w \in Watchers : Watcher(w)

(* All goroutines are scheduled.  Whether a stream has an item or fails,   *)
(* and whether Send to the client fails, is up to the peers: a watcher may *)
(* stay in Recv for ever as long as its client is open.                    *)
Fairness ==
    /\ WF_vars(StartGroup \/ ClientFails) /\ WF_vars(Abort) /\ WF_vars(GroupWait)
    /\ WF_vars(CloseClients)
    /\ WF_vars(handleNotify)
    /\ \A w \in Watchers :
        /\ WF_vars(OpenStream(w)) /\ WF_vars(CheckLoop(w))
        /\ WF_vars(RecvCanceled(w)) /\ WF_vars(Push(w))
        /\ WF_vars(broken[w] /\ RecvError(w))

Spec == Init /\ [][Next]_vars /\ Fairness

-----------------------------------------------------------------------------
(* No watcher sends on notifyChan after InstanceWatch closed it.           *)
NoSendOnClosedChan == ~pushedLate

(* Whoever of the group ends first takes the whole call down with it, and  *)
(* the clients are closed: "Close the clients for closing streams and      *)
(* unblocking notifier Recv() with error" (instance.go:751).               *)
GroupEnds == (call = "group" /\ canceled) ~> (call = "returned" /\ clients = "closed")

(* A watcher whose stream has failed does not keep the call alive: the     *)
(* retries run out and the client learns that it has to watch again.       *)
BrokenStreamEndsCall == \A w \in Watchers : broken[w] ~> call = "returned"

=============================================================================
