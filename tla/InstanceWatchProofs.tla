------------------------- MODULE InstanceWatchProofs -------------------------
(***************************************************************************)
(* Theorems about InstanceWatch, for every group of watchers, every        *)
(* capacity of notifyChan and every number of retries.                     *)
(*                                                                         *)
(* The type of failureCount needs Retrying: the counter is checked at the  *)
(* top of the loop and incremented after Recv.  NoSendOnClosedChan needs   *)
(* ClosedAfterAll: the channel is closed when no watcher is left.  Stages  *)
(* leaves a full channel as the only place where a canceled call can hang. *)
(***************************************************************************)
EXTENDS InstanceWatch, TLAPS

-----------------------------------------------------------------------------
(* The invariant.                                                          *)

(* A watcher that waits in Recv has a retry left.                          *)
Retrying == \A w \in Watchers : wpc[w] = "recv" => failures[w] < MaxRetry

(* notifyChan is closed by the return of the handler only, and after the   *)
(* last watcher.                                                           *)
ClosedAfterAll == ~chanOpen => call = "returned" /\ \A w \in Watchers : wpc[w] = "ended"

(* Where each goroutine is when the handler is where it is.                *)
Stages ==
    /\ call \in {"clients", "abort"} =>
         /\ notify = "none" /\ closer = "wait"
         /\ \A w \in Watchers : wpc[w] = "none"
    /\ call = "group" =>
         /\ notify # "none" /\ (notify \in {"return", "ended"} <=> closer # "wait")
         /\ notify = "ended" => canceled
         /\ clients # "none"
         /\ \A w \in Watchers : wpc[w] # "none"
    /\ call = "returned" => /\ notify \in {"none", "ended"} /\ closer # "wait"
                            /\ \A w \in Watchers : wpc[w] \in {"none", "ended"}
    /\ clients = "closed" <=> closer = "ended"

(* done has no buffer and one receiver: the party that is about to send on *)
(* it, handleNotify or the handler after a failed start, finds the closer  *)
(* waiting, so it never blocks; and when the call has returned the closer  *)
(* has been told to close the clients.                                     *)
DoneIsReceived ==
    /\ call = "abort" \/ notify = "exit" => closer = "wait"
    /\ call = "returned" => closer \in {"close", "ended"}

Inv == TypeOK /\ Retrying /\ ClosedAfterAll /\ Stages /\ NoSendOnClosedChan

-----------------------------------------------------------------------------
LEMMA InitInv == Init => Inv
<1> SUFFICES ASSUME Init PROVE Inv
  OBVIOUS
<1> USE InstanceWatchAssumption DEF Init
<1>1. TypeOK
  <2>1. chanOpen \in BOOLEAN /\ canceled \in BOOLEAN /\ pushedLate \in BOOLEAN
    OBVIOUS
  <2>2. broken \in [Watchers -> BOOLEAN]
    OBVIOUS
  <2>3. /\ wpc \in [Watchers -> {"none", "open", "check", "recv", "push", "ended"}]
        /\ failures \in [Watchers -> 0 .. MaxRetry]
        /\ notices \in 0 .. ChanCap /\ items \in 0 .. MaxItems
    OBVIOUS
  <2>4. call = "clients" /\ clients = "none" /\ closer = "wait" /\ notify = "none"
    OBVIOUS
  <2> HIDE DEF Init
  <2> QED
    BY <2>1, <2>2, <2>3, <2>4 DEF TypeOK
<1>2. Retrying /\ ClosedAfterAll /\ Stages /\ NoSendOnClosedChan
  BY DEF Retrying, ClosedAfterAll, Stages, NoSendOnClosedChan
<1> QED
  BY <1>1, <1>2 DEF Inv

(* The steps of the handler and of its closer.                             *)
LEMMA HandlerInv ==
    ASSUME Inv, StartGroup \/ ClientFails \/ Abort \/ GroupWait \/ CloseClients \/ ServerDone
    PROVE  Inv'
<1> USE InstanceWatchAssumption DEF Inv
<1>1. CASE StartGroup
  <2>1. wpc' \in [Watchers -> {"open", "ended"}]
    BY <1>1 DEF StartGroup
  <2>2. TypeOK'
    BY <1>1, <2>1 DEF StartGroup, TypeOK
  <2>3. chanOpen
    BY <1>1 DEF StartGroup, ClosedAfterAll
  <2>4. Retrying' /\ ClosedAfterAll' /\ Stages' /\ NoSendOnClosedChan'
    BY <1>1, <2>1, <2>3 DEF StartGroup, Retrying, ClosedAfterAll, Stages, NoSendOnClosedChan,
                            TypeOK
  <2> QED
    BY <2>2, <2>4
<1>2. CASE ClientFails
  BY <1>2 DEF ClientFails, TypeOK, Retrying, ClosedAfterAll, Stages, NoSendOnClosedChan
<1>3. CASE Abort
  BY <1>3 DEF Abort, SignalDone, TypeOK, Retrying, ClosedAfterAll, Stages, NoSendOnClosedChan
<1>4. CASE GroupWait
  BY <1>4 DEF GroupWait, TypeOK, Retrying, ClosedAfterAll, Stages, NoSendOnClosedChan
<1>5. CASE CloseClients
  BY <1>5 DEF CloseClients, TypeOK, Retrying, ClosedAfterAll, Stages, NoSendOnClosedChan
<1>6. CASE ServerDone
  BY <1>6 DEF ServerDone, TypeOK, Retrying, ClosedAfterAll, Stages, NoSendOnClosedChan
<1> QED
  BY <1>1, <1>2, <1>3, <1>4, <1>5, <1>6

LEMMA NotifierInv ==
    ASSUME Inv, handleNotify
    PROVE  Inv'
<1> USE InstanceWatchAssumption DEF Inv
<1>1. CASE Forward
  BY <1>1 DEF Forward, TypeOK, Retrying, ClosedAfterAll, Stages, NoSendOnClosedChan
<1>2. CASE NotifyCanceled
  BY <1>2 DEF NotifyCanceled, TypeOK, Retrying, ClosedAfterAll, Stages, NoSendOnClosedChan
<1>3. CASE NotifyExit
  BY <1>3 DEF NotifyExit, SignalDone, TypeOK, Retrying, ClosedAfterAll, Stages,
              NoSendOnClosedChan
<1>4. CASE NotifyReturn
  BY <1>4 DEF NotifyReturn, TypeOK, Retrying, ClosedAfterAll, Stages, NoSendOnClosedChan
<1> QED
  BY <1>1, <1>2, <1>3, <1>4 DEF handleNotify

(* A watcher that takes a step is a goroutine of a group that still runs.  *)
LEMMA WatcherInGroup ==
    ASSUME Inv, NEW w \in Watchers, wpc[w] \notin {"none", "ended"}
    PROVE  chanOpen /\ call = "group"
  BY DEF Inv, TypeOK, ClosedAfterAll, Stages

LEMMA WatcherInv ==
    ASSUME Inv, NEW w \in Watchers, Watcher(w)
    PROVE  Inv'
<1> USE InstanceWatchAssumption DEF Inv
<1>1. wpc[w] \notin {"none", "ended"}
  BY DEF Watcher, OpenStream, CheckLoop, RecvItem, RecvError, RecvCanceled, Push
<1>2. chanOpen /\ call = "group"
  BY <1>1, WatcherInGroup
<1>3. /\ UNCHANGED <<call, clients, closer, notify, chanOpen>>
      /\ canceled => canceled'
      /\ \A v \in Watchers : wpc[v] # "none" => wpc'[v] # "none"
  BY DEF Watcher, OpenStream, CheckLoop, RecvItem, RecvError, RecvCanceled, Push, Ends, Becomes,
         TypeOK
<1>4. ClosedAfterAll' /\ Stages'
  BY <1>2, <1>3 DEF ClosedAfterAll, Stages
<1>5. CASE OpenStream(w)
  BY <1>4, <1>5 DEF OpenStream, Becomes, Ends, TypeOK, Retrying, NoSendOnClosedChan
<1>6. CASE CheckLoop(w)
  BY <1>4, <1>6 DEF CheckLoop, Becomes, Ends, TypeOK, Retrying, NoSendOnClosedChan
<1>7. CASE RecvItem(w)
  BY <1>4, <1>7 DEF RecvItem, Becomes, TypeOK, Retrying, NoSendOnClosedChan
<1>8. CASE RecvError(w)
  BY <1>4, <1>8 DEF RecvError, Becomes, TypeOK, Retrying, NoSendOnClosedChan
<1>9. CASE RecvCanceled(w)
  BY <1>4, <1>9 DEF RecvCanceled, Becomes, Ends, TypeOK, Retrying, NoSendOnClosedChan
<1>10. CASE Push(w)
  BY <1>2, <1>4, <1>10 DEF Push, Becomes, TypeOK, Retrying, NoSendOnClosedChan
<1> QED
  BY <1>5, <1>6, <1>7, <1>8, <1>9, <1>10 DEF Watcher

LEMMA NextInv == Inv /\ [Next]_vars => Inv'
<1> SUFFICES ASSUME Inv, [Next]_vars PROVE Inv'
  OBVIOUS
<1>1. CASE UNCHANGED vars
  BY <1>1 DEF vars, Inv, TypeOK, Retrying, ClosedAfterAll, Stages, NoSendOnClosedChan
<1>2. ASSUME NEW w \in Watchers, Watcher(w) PROVE Inv'
  BY <1>2, WatcherInv
<1> QED
  BY <1>1, <1>2, HandlerInv, NotifierInv DEF Next

LEMMA SpecInv == Spec => []Inv
  BY InitInv, NextInv, PTL DEF Spec

-----------------------------------------------------------------------------
(* The theorems.                                                           *)

(* The variables of a watch call keep their types: notifyChan holds no     *)
(* more than it has room for, and no failureCount exceeds the limit.       *)
THEOREM TypeCorrect == Spec => []TypeOK
<1>1. Inv => TypeOK
  BY DEF Inv
<1> QED
  BY <1>1, SpecInv, PTL

(* No watcher sends on notifyChan after the handler closed it, however     *)
(* many watchers the call has.                                             *)
THEOREM NoLatePush == Spec => []NoSendOnClosedChan
<1>1. Inv => NoSendOnClosedChan
  BY DEF Inv
<1> QED
  BY <1>1, SpecInv, PTL

(* The send on done never blocks, and no call returns without having told  *)
(* the closer goroutine to close its clients.                              *)
THEOREM ClientsGetClosed == Spec => []DoneIsReceived
<1>1. Inv => DoneIsReceived
  BY DEF Inv, Stages, TypeOK, DoneIsReceived
<1> QED
  BY <1>1, SpecInv, PTL

-----------------------------------------------------------------------------
(* The end of a call.                                                      *)

(* The guards of what a watcher does without the help of its peer.         *)
WatcherReady(w) ==
    \/ wpc[w] \in {"open", "check"}
    \/ wpc[w] = "recv" /\ StreamCanceled(w)
    \/ wpc[w] = "push" /\ notices < ChanCap

(* Those of handleNotify, of the closer, of the watchers and of g.Wait.    *)
GroupReady ==
    \/ notify = "select" /\ (canceled \/ notices > 0)
    \/ notify = "exit" /\ closer = "wait"
    \/ notify = "return"
    \/ closer = "close"
    \/ \E w \in Watchers : WatcherReady(w)
    \/ notify = "ended" /\ \A w \in Watchers : wpc[w] = "ended"

(* A watcher that sends on the full notifyChan, which nobody reads.        *)
Stuck(w) == wpc[w] = "push" /\ notices = ChanCap /\ notify = "ended"

CanceledGoesOn ==
    call = "group" /\ canceled => GroupReady \/ \E w \in Watchers : Stuck(w)

(* How many steps a watcher has left once the group is canceled.           *)
StepsLeft(w) ==
    CASE wpc[w] = "recv"             -> 3
      [] wpc[w] \in {"open", "push"} -> 2
      [] wpc[w] = "check"            -> 1
      [] OTHER                       -> 0

NoWatcherGoesBack ==
    [][call = "group" /\ canceled =>
         \A w \in Watchers : wpc'[w] = wpc[w] \/ StepsLeft(w)' < StepsLeft(w)]_vars

(* When the group of a watch call is canceled, one of its goroutines can   *)
(* go on, or all of them have ended and g.Wait returns - or a watcher      *)
(* hangs in its send on a full notifyChan after handleNotify has ended:    *)
(* nothing else can keep the call from ending (instance.go:679-790).       *)
THEOREM OnlyAFullChannelHangs == Spec => []CanceledGoesOn
<1>1. Inv => CanceledGoesOn
  <2> SUFFICES ASSUME Inv, call = "group", canceled, ~GroupReady
               PROVE  \E w \in Watchers : Stuck(w)
    BY DEF CanceledGoesOn
  <2>1. notify = "ended" /\ closer = "ended" /\ clients = "closed"
    BY DEF Inv, TypeOK, Stages, GroupReady
  <2>2. PICK w \in Watchers : wpc[w] # "ended"
    BY <2>1 DEF GroupReady
  <2>3. wpc[w] = "push" /\ ~(notices < ChanCap)
    BY <2>1, <2>2 DEF Inv, TypeOK, Stages, GroupReady, WatcherReady, StreamCanceled
  <2>4. notices = ChanCap
    BY <2>3, InstanceWatchAssumption DEF Inv, TypeOK
  <2> QED
    BY <2>1, <2>3, <2>4 DEF Stuck
<1> QED
  BY <1>1, SpecInv, PTL

LEMMA WatcherWindsUp ==
    ASSUME Inv, canceled, NEW v \in Watchers, Watcher(v), NEW w \in Watchers
    PROVE  wpc'[w] = wpc[w] \/ StepsLeft(w)' < StepsLeft(w)
<1>1. \/ wpc[v] \in {"open", "push"} /\ (Becomes(v, "check") \/ Becomes(v, "ended"))
      \/ wpc[v] = "recv" /\ \E s \in {"push", "check", "ended"} : Becomes(v, s)
      \/ wpc[v] = "check" /\ Becomes(v, "ended")
  BY DEF Watcher, OpenStream, CheckLoop, RecvItem, RecvError, RecvCanceled, Push, Ends
<1> QED
  BY <1>1 DEF Becomes, StepsLeft, Inv, TypeOK

(* Once the group is canceled every step of a watcher brings it nearer to  *)
(* its end, of which it is three steps away at most: no retry, no new      *)
(* stream, and no item but one that Recv has been waiting for.             *)
THEOREM WatchersWindUp == Spec => NoWatcherGoesBack
<1>1. Inv /\ [Next]_vars =>
        [call = "group" /\ canceled =>
           \A w \in Watchers : wpc'[w] = wpc[w] \/ StepsLeft(w)' < StepsLeft(w)]_vars
  <2> SUFFICES ASSUME Inv, Next, call = "group", canceled, NEW w \in Watchers
               PROVE  wpc'[w] = wpc[w] \/ StepsLeft(w)' < StepsLeft(w)
    OBVIOUS
  <2>1. ~StartGroup
    BY DEF StartGroup
  <2>2. ASSUME NEW v \in Watchers, Watcher(v)
        PROVE  wpc'[w] = wpc[w] \/ StepsLeft(w)' < StepsLeft(w)
    BY <2>2, WatcherWindsUp
  <2> QED
    BY <2>1, <2>2 DEF Next, ClientFails, Abort, GroupWait, CloseClients, ServerDone,
                      handleNotify, Forward, NotifyCanceled, NotifyExit, NotifyReturn
<1> QED
  BY <1>1, SpecInv, PTL DEF Spec, NoWatcherGoesBack

-----------------------------------------------------------------------------
(* The retries of a watcher.                                               *)

(* A watcher whose stream has failed tries again, which it can do whether  *)
(* its client is open or closed, or has ended and canceled the group.      *)
BrokenTries ==
    \A w \in Watchers : broken[w] =>
        \/ wpc[w] = "check"
        \/ wpc[w] = "recv" /\ (clients = "open" \/ StreamCanceled(w))
        \/ wpc[w] = "ended" /\ canceled

(* How many steps such a watcher has left at most.                         *)
RetriesLeft(w) ==
    IF wpc[w] = "ended" THEN 0
    ELSE 2 * (MaxRetry - failures[w]) + (IF wpc[w] = "check" THEN 2 ELSE 1)

RetriesDecrease ==
    [][\A w \in Watchers : broken[w] =>
         wpc'[w] = wpc[w] \/ RetriesLeft(w)' < RetriesLeft(w)]_vars

LEMMA WatcherTries ==
    ASSUME Inv, BrokenTries, NEW v \in Watchers, Watcher(v)
    PROVE  BrokenTries'
<1>1. /\ UNCHANGED clients /\ (canceled => canceled')
      /\ \A w \in Watchers : w # v => wpc'[w] = wpc[w] /\ broken'[w] = broken[w]
  BY DEF Watcher, OpenStream, CheckLoop, RecvItem, RecvError, RecvCanceled, Push, Ends, Becomes,
         Inv, TypeOK
<1>2. /\ wpc[v] \notin {"none", "ended"}
      /\ broken' = broken \/ RecvError(v)
  BY DEF Watcher, OpenStream, CheckLoop, RecvItem, RecvError, RecvCanceled, Push
<1>3. clients \in {"open", "closed"}
  BY <1>2, WatcherInGroup DEF Inv, TypeOK, Stages
<1>4. broken'[v] => \/ wpc'[v] = "check" \/ wpc'[v] = "recv"
                    \/ wpc'[v] = "ended" /\ canceled'
  <2>1. CASE RecvError(v)
    BY <2>1 DEF RecvError, Becomes, Inv, TypeOK
  <2>2. CASE broken' = broken
    <3> SUFFICES ASSUME broken[v]
                 PROVE  wpc'[v] = "check" \/ wpc'[v] = "recv" \/ (wpc'[v] = "ended" /\ canceled')
      BY <2>2
    <3>1. wpc[v] \in {"check", "recv"} /\ ~RecvItem(v)
      BY <1>2 DEF BrokenTries, RecvItem
    <3> QED
      BY <3>1 DEF Watcher, OpenStream, CheckLoop, RecvError, RecvCanceled, Push, Ends, Becomes,
                  Inv, TypeOK
  <2> QED
    BY <1>2, <2>1, <2>2
<1>5. \A w \in Watchers : StreamCanceled(w) => StreamCanceled(w)'
  BY <1>1 DEF StreamCanceled
<1>6. ASSUME NEW w \in Watchers, broken'[w]
      PROVE  \/ wpc'[w] = "check"
             \/ wpc'[w] = "recv" /\ (clients' = "open" \/ StreamCanceled(w)')
             \/ wpc'[w] = "ended" /\ canceled'
  <2>1. CASE w = v
    BY <1>1, <1>3, <1>4, <1>6, <2>1 DEF StreamCanceled
  <2>2. CASE w # v
    BY <1>1, <1>5, <1>6, <2>2 DEF BrokenTries
  <2> QED
    BY <2>1, <2>2
<1> QED
  BY <1>6, Zenon DEF BrokenTries

LEMMA NextTries == Inv /\ BrokenTries /\ [Next]_vars => BrokenTries'
<1> SUFFICES ASSUME Inv, BrokenTries, [Next]_vars PROVE BrokenTries'
  OBVIOUS
<1>1. ASSUME UNCHANGED <<wpc, broken>>, canceled => canceled', clients' = clients \/ clients' = "closed"
      PROVE  BrokenTries'
  BY <1>1 DEF BrokenTries, StreamCanceled
<1>2. CASE StartGroup \/ ClientFails
  <2>1. \A w \in Watchers : ~broken[w]
    BY <1>2 DEF BrokenTries, StartGroup, ClientFails, Inv, Stages
  <2> QED
    BY <1>2, <2>1 DEF BrokenTries, StartGroup, ClientFails
<1>3. CASE Abort \/ GroupWait \/ CloseClients \/ ServerDone \/ handleNotify
  BY <1>1, <1>3 DEF Abort, GroupWait, CloseClients, ServerDone, handleNotify, Forward,
                    NotifyCanceled, NotifyExit, NotifyReturn
<1>4. ASSUME NEW v \in Watchers, Watcher(v) PROVE BrokenTries'
  BY <1>4, WatcherTries
<1>5. CASE UNCHANGED vars
  BY <1>1, <1>5 DEF vars
<1> QED
  BY <1>2, <1>3, <1>4, <1>5 DEF Next

LEMMA WatcherRetries ==
    ASSUME Inv, BrokenTries, NEW v \in Watchers, Watcher(v), NEW w \in Watchers, broken[w]
    PROVE  wpc'[w] = wpc[w] \/ RetriesLeft(w)' < RetriesLeft(w)
<1>1. CASE w # v
  BY <1>1 DEF Watcher, OpenStream, CheckLoop, RecvItem, RecvError, RecvCanceled, Push, Ends, Becomes,
              Inv, TypeOK
<1>2. CASE w = v
  <2>1. wpc[w] \in {"check", "recv"} /\ ~RecvItem(w) /\ ~OpenStream(w) /\ ~Push(w)
    BY <1>2 DEF BrokenTries, Watcher, OpenStream, CheckLoop, RecvItem, RecvError, RecvCanceled, Push
  <2>2. failures[w] \in 0 .. MaxRetry /\ MaxRetry \in Nat /\ (wpc[w] = "recv" => failures[w] < MaxRetry)
    BY InstanceWatchAssumption DEF Inv, TypeOK, Retrying
  <2>3. \/ wpc[w] = "check" /\ wpc'[w] \in {"recv", "ended"} /\ failures'[w] = failures[w]
        \/ wpc[w] = "recv" /\ wpc'[w] = "ended"
        \/ wpc[w] = "recv" /\ wpc'[w] = "check" /\ failures'[w] = failures[w] + 1
    BY <1>2, <2>1 DEF Watcher, CheckLoop, RecvError, RecvCanceled, Ends, Becomes, Inv, TypeOK
  <2> QED
    BY <2>2, <2>3 DEF RetriesLeft
<1> QED
  BY <1>1, <1>2

(* A stream that has failed costs at most maxMonitorRetryCount retries:    *)
(* its watcher can always take its next step, even while the call winds    *)
(* up, every step uses up one of at most 2 * MaxRetry + 2, and when it     *)
(* ends it has canceled the group (instance.go:790-830).                   *)
THEOREM RetriesRunOut == Spec => []BrokenTries /\ RetriesDecrease
<1>1. Init => BrokenTries
  BY DEF Init, BrokenTries
<1>2. Spec => []BrokenTries
  BY <1>1, NextTries, SpecInv, PTL DEF Spec
<1>3. Inv /\ BrokenTries /\ [Next]_vars =>
        [\A w \in Watchers : broken[w] =>
           wpc'[w] = wpc[w] \/ RetriesLeft(w)' < RetriesLeft(w)]_vars
  <2> SUFFICES ASSUME Inv, BrokenTries, Next, NEW w \in Watchers, broken[w]
               PROVE  wpc'[w] = wpc[w] \/ RetriesLeft(w)' < RetriesLeft(w)
    OBVIOUS
  <2>1. ~StartGroup
    BY DEF StartGroup, Inv, Stages, BrokenTries
  <2>2. ASSUME NEW v \in Watchers, Watcher(v)
        PROVE  wpc'[w] = wpc[w] \/ RetriesLeft(w)' < RetriesLeft(w)
    BY <2>2, WatcherRetries
  <2> QED
    BY <2>1, <2>2 DEF Next, ClientFails, Abort, GroupWait, CloseClients, ServerDone,
                      handleNotify, Forward, NotifyCanceled, NotifyExit, NotifyReturn
<1> QED
  BY <1>2, <1>3, SpecInv, PTL DEF Spec, RetriesDecrease


=============================================================================
