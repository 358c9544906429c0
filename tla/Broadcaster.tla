----------------------------- MODULE Broadcaster -----------------------------
(***************************************************************************)
(* The event broadcaster (broadcaster.go) between the process manager's    *)
(* monitor and the watch streams: one stream goroutine copies every item   *)
(* into the buffered channel of every subscriber and never waits.  A       *)
(* subscriber whose buffer is full loses the item, and a goroutine is      *)
(* spawned to unsubscribe it; until that goroutine gets the lock, later    *)
(* items can still be delivered.                                           *)
(*                                                                         *)
(* Sections under the Broadcaster's mutex are single actions.  Items are   *)
(* numbered in the order in which the stream goroutine takes them.         *)
(***************************************************************************)
EXTENDS Integers, Sequences, FiniteSets

CONSTANTS
    Subs,       \* subscriptions: the channels Subscribe makes
    BufSize,    \* capacity of such a channel, 100 in the code
    MaxItems    \* bound on the items broadcast

ASSUME BroadcasterAssumption ==
    /\ BufSize \in Nat \ {0}
    /\ MaxItems \in Nat

VARIABLES
    running,    \* Broadcaster.running
    subs,       \* Broadcaster.subs
    buf,        \* buf[s]: the items in the channel
    closes,     \* closes[s]: how often the channel has been closed
    unsubs,     \* unsubs[s]: goroutines about to call unsub(s, true)
    ctx,        \* ctx[s]: "none", "live" or "done", the context of the watch
    item,       \* number of the last item taken from the input channel
    inputOpen,  \* the input channel has not been closed
    since,      \* since[s]: the last item before the subscription
    got         \* got[s]: the items the consumer has received (history)

vars == <<running, subs, buf, closes, unsubs, ctx, item, inputOpen, since, got>>

TypeOK ==
    /\ running \in BOOLEAN
    /\ subs \in SUBSET Subs
    /\ buf \in [Subs -> Seq(1 .. MaxItems)]
    /\ \A s \in Subs : Len(buf[s]) <= BufSize
    /\ closes \in [Subs -> Nat]
    /\ unsubs \in [Subs -> Nat]
    /\ ctx \in [Subs -> {"none", "live", "done"}]
    /\ item \in 0 .. MaxItems
    /\ inputOpen \in BOOLEAN
    /\ since \in [Subs -> 0 .. MaxItems]
    /\ got \in [Subs -> Seq(1 .. MaxItems)]

Init ==
    /\ running = FALSE
    /\ subs = {}
    /\ buf = [s \in Subs |-> <<>>]
    /\ closes = [s \in Subs |-> 0]
    /\ unsubs = [s \in Subs |-> 0]
    /\ ctx = [s \in Subs |-> "none"]
    /\ item = 0
    /\ inputOpen = TRUE
    /\ since = [s \in Subs |-> 0]
    /\ got = [s \in Subs |-> <<>>]

-----------------------------------------------------------------------------
(* Subscribe starts the stream goroutine if it does not run, and makes a   *)
(* channel.  (The manager's connector never fails.)                        *)
Subscribe(s) ==
    /\ ctx[s] = "none"
    /\ running' = TRUE
    /\ subs' = subs \cup {s}
    /\ ctx' = [ctx EXCEPT ![s] = "live"]
    /\ since' = [since EXCEPT ![s] = item]
    /\ UNCHANGED <<buf, closes, unsubs, item, inputOpen, got>>

(* The watch's context ends: the goroutine of Subscribe will unsubscribe.  *)
ContextDone(s) ==
    /\ ctx[s] = "live"
    /\ ctx' = [ctx EXCEPT ![s] = "done"]
    /\ unsubs' = [unsubs EXCEPT ![s] = @ + 1]
    /\ UNCHANGED <<running, subs, buf, closes, item, inputOpen, since, got>>

(* Mutant of Unsub: the channel is closed whether or not it is in subs.    *)
Unsub_Unchecked(s) ==
    /\ unsubs[s] > 0
    /\ unsubs' = [unsubs EXCEPT ![s] = @ - 1]
    /\ closes' = [closes EXCEPT ![s] = @ + 1]
    /\ subs' = subs \ {s}
    /\ UNCHANGED <<running, buf, ctx, item, inputOpen, since, got>>

(* unsub(sub, true): closes the channel if it is still subscribed.         *)
Unsub(s) ==
    /\ unsubs[s] > 0
    /\ unsubs' = [unsubs EXCEPT ![s] = @ - 1]
    /\ closes' = [closes EXCEPT ![s] = IF s \in subs THEN @ + 1 ELSE @]
    /\ subs' = subs \ {s}
    /\ UNCHANGED <<running, buf, ctx, item, inputOpen, since, got>>

(* Mutants of StreamItem: a channel without a limit; a slow consumer only  *)
(* loses the item.                                                         *)
StreamItem_NoLimit ==
    /\ running /\ inputOpen /\ item < MaxItems
    /\ item' = item + 1
    /\ buf' = [s \in Subs |-> IF s \in subs THEN Append(buf[s], item + 1) ELSE buf[s]]
    /\ UNCHANGED <<running, subs, closes, unsubs, ctx, inputOpen, since, got>>

StreamItem_DropOnly ==
    /\ running /\ inputOpen /\ item < MaxItems
    /\ item' = item + 1
    /\ buf' = [s \in Subs |-> IF s \in subs /\ Len(buf[s]) < BufSize
                              THEN Append(buf[s], item + 1) ELSE buf[s]]
    /\ UNCHANGED <<running, subs, closes, unsubs, ctx, inputOpen, since, got>>

(* One iteration of stream: every subscriber gets the item or is doomed.   *)
StreamItem ==
    /\ running /\ inputOpen /\ item < MaxItems
    /\ item' = item + 1
    /\ buf' = [s \in Subs |-> IF s \in subs /\ Len(buf[s]) < BufSize
                              THEN Append(buf[s], item + 1) ELSE buf[s]]
    /\ unsubs' = [s \in Subs |-> IF s \in subs /\ Len(buf[s]) >= BufSize
                                 THEN unsubs[s] + 1 ELSE unsubs[s]]
    /\ UNCHANGED <<running, subs, closes, ctx, inputOpen, since, got>>

(* Whoever feeds the input closes it.                                      *)
CloseInput ==
    /\ inputOpen
    /\ inputOpen' = FALSE
    /\ UNCHANGED <<running, subs, buf, closes, unsubs, ctx, item, since, got>>

(* The end of stream: everybody is unsubscribed.                           *)
StreamEnd ==
    /\ running /\ ~inputOpen
    /\ running' = FALSE
    /\ closes' = [s \in Subs |-> IF s \in subs THEN closes[s] + 1 ELSE closes[s]]
    /\ subs' = {}
    /\ UNCHANGED <<buf, unsubs, ctx, item, inputOpen, since, got>>

(* The consumer takes an item out of its channel, closed or not.           *)
Receive(s) ==
    /\ buf[s] # <<>>
    /\ got' = [got EXCEPT ![s] = Append(@, Head(buf[s]))]
    /\ buf' = [buf EXCEPT ![s] = Tail(@)]
    /\ UNCHANGED <<running, subs, closes, unsubs, ctx, item, inputOpen, since>>

Next ==
    \/ \E s \in Subs : Subscribe(s) \/ ContextDone(s) \/ Unsub(s) \/ Receive(s)
    \/ StreamItem \/ CloseInput \/ StreamEnd

(* The spawned goroutines and the stream goroutine are scheduled; nothing  *)
(* is assumed of producers and consumers.  The mutex is fair enough, every *)
(* section under it being short.                                           *)
Spec == /\ Init /\ [][Next]_vars
        /\ \A s \in Subs : WF_vars(Unsub(s))
        /\ WF_vars(StreamEnd)

-----------------------------------------------------------------------------
(* No channel is closed twice and none in subs is closed: stream never     *)
(* sends on a closed channel and unsub never panics, although up to three  *)
(* parties may want to unsubscribe the same channel.                       *)
CloseOnce ==
    \A s \in Subs : /\ closes[s] <= 1
                    /\ s \in subs => closes[s] = 0

(* Everything the subscriber has received or can still receive.            *)
Seen(s) == got[s] \o buf[s]

(* All items after the subscription, in order.                             *)
Complete(s) == Seen(s) = [i \in 1 .. (item - since[s]) |-> since[s] + i]

(* A subscriber nobody is about to unsubscribe has missed nothing: what it *)
(* received and what waits in its channel are all items since it came.     *)
NoSilentGap ==
    \A s \in subs : unsubs[s] = 0 => Complete(s)

(* A subscriber that missed an item learns it: its channel gets closed.    *)
GapIsReported == \A s \in Subs : (s \in subs /\ ~Complete(s)) ~> closes[s] = 1

=============================================================================
