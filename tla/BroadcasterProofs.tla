-------------------------- MODULE BroadcasterProofs --------------------------
(***************************************************************************)
(* Theorems about Broadcaster, for every set of subscriptions, every       *)
(* capacity of their channels and every bound on the items.                *)
(*                                                                         *)
(* CloseOnce and NoSilentGap are not inductive: a subscription could start *)
(* with a closed or a filled channel.  Fresh excludes this, and SinceItem  *)
(* makes the items since a subscription a number that can be counted.      *)
(***************************************************************************)
EXTENDS Broadcaster, SequenceTheorems, TLAPS

-----------------------------------------------------------------------------
(* The invariant.                                                          *)

(* A channel that has not been handed out is untouched.                    *)
Fresh ==
    \A s \in Subs : ctx[s] = "none" =>
        /\ s \notin subs
        /\ closes[s] = 0 /\ unsubs[s] = 0
        /\ buf[s] = <<>> /\ got[s] = <<>>

SinceItem == \A s \in Subs : since[s] <= item

(* What a subscriber sees is increasing and came after it: items are       *)
(* neither reordered nor repeated nor old, even where some are missing.    *)
InOrder ==
    \A s \in Subs :
        /\ \A i \in 1 .. Len(Seen(s)) : Seen(s)[i] \in since[s] + 1 .. item
        /\ \A i, j \in 1 .. Len(Seen(s)) : i < j => Seen(s)[i] < Seen(s)[j]

Inv == TypeOK /\ Fresh /\ SinceItem /\ CloseOnce /\ NoSilentGap /\ InOrder

Items == 1 .. MaxItems

-----------------------------------------------------------------------------
(* Lemmas about what a subscriber sees.                                    *)

LEMMA FunctionIsSeq ==
    ASSUME NEW S, NEW n \in Nat, NEW f \in [1 .. n -> S]
    PROVE  f \in Seq(S) /\ Len(f) = n
<1>1. f \in Seq(S)
  BY SeqDef
<1>2. DOMAIN f = 1 .. Len(f) /\ Len(f) \in Nat
  BY <1>1, LenProperties
<1> QED
  BY <1>1, <1>2

LEMMA SeenType ==
    ASSUME TypeOK, NEW s \in Subs
    PROVE  /\ buf[s] \in Seq(Items) /\ got[s] \in Seq(Items)
           /\ Seen(s) \in Seq(Items)
           /\ Len(Seen(s)) = Len(got[s]) + Len(buf[s])
           /\ Len(Seen(s)) \in Nat
           /\ \A i \in 1 .. Len(Seen(s)) : Seen(s)[i] \in Items
<1>1. buf[s] \in Seq(Items) /\ got[s] \in Seq(Items)
  BY DEF TypeOK, Items
<1> QED
  BY <1>1, ConcatProperties, LenProperties, ElementOfSeq DEF Seen

(* A sequence is the items a+1 .. b in order when its length and its       *)
(* elements say so.                                                        *)
LEMMA CompleteIff ==
    ASSUME NEW q \in Seq(Items), NEW a \in Nat, NEW b \in Nat, a <= b, b <= MaxItems
    PROVE  q = [i \in 1 .. (b - a) |-> a + i]
             <=> /\ Len(q) = b - a
                 /\ \A i \in 1 .. Len(q) : q[i] = a + i
<1> DEFINE n == b - a
           want == [i \in 1 .. n |-> a + i]
<1>1. n \in Nat
  OBVIOUS
<1>2. want \in [1 .. n -> Items]
  BY BroadcasterAssumption DEF Items
<1> HIDE DEF want, n
<1>3. want \in Seq(Items) /\ Len(want) = n
  BY <1>1, <1>2, FunctionIsSeq
<1>4. \A i \in 1 .. n : want[i] = a + i
  BY DEF want
<1>5. ASSUME Len(q) = n, \A i \in 1 .. Len(q) : q[i] = a + i
      PROVE  q = want
  BY <1>3, <1>4, <1>5, SeqEqual
<1>6. ASSUME q = want
      PROVE  Len(q) = n /\ \A i \in 1 .. Len(q) : q[i] = a + i
  BY <1>3, <1>4, <1>6
<1> QED
  BY <1>5, <1>6 DEF want, n

LEMMA AppendElements ==
    ASSUME NEW q \in Seq(Items), NEW x \in Items
    PROVE  /\ Append(q, x) \in Seq(Items)
           /\ Len(q) \in Nat
           /\ Len(Append(q, x)) = Len(q) + 1
           /\ \A i \in 1 .. Len(q) + 1 :
                Append(q, x)[i] = IF i <= Len(q) THEN q[i] ELSE x
<1>1. Len(q) \in Nat
  BY LenProperties
<1> QED
  BY <1>1, AppendProperties

(* The next item completes the sequence again.                             *)
LEMMA AppendComplete ==
    ASSUME NEW q \in Seq(Items), NEW a \in Nat, NEW b \in Nat, a <= b, b + 1 \in Items,
           q = [i \in 1 .. (b - a) |-> a + i]
    PROVE  Append(q, b + 1) = [i \in 1 .. ((b + 1) - a) |-> a + i]
<1>1. b + 1 <= MaxItems /\ b <= MaxItems /\ MaxItems \in Nat
  BY BroadcasterAssumption DEF Items
<1>2. Len(q) = b - a /\ \A i \in 1 .. Len(q) : q[i] = a + i
  BY <1>1, CompleteIff
<1> DEFINE x == b + 1
           ext == Append(q, x)
<1>3. /\ x \in Items /\ x \in Nat /\ a <= x /\ x <= MaxItems /\ x = b + 1
  BY <1>1
<1> HIDE DEF x
<1>4. /\ ext \in Seq(Items)
      /\ Len(ext) = Len(q) + 1
      /\ \A i \in 1 .. Len(q) + 1 : ext[i] = IF i <= Len(q) THEN q[i] ELSE x
  BY <1>3, AppendElements
<1> HIDE DEF ext
<1>5. Len(ext) = x - a
  BY <1>2, <1>3, <1>4
<1>6. ASSUME NEW i \in 1 .. Len(ext)
      PROVE  ext[i] = a + i
  BY <1>2, <1>3, <1>4, <1>5
<1>7. ext = [i \in 1 .. (x - a) |-> a + i]
  BY <1>3, <1>4, <1>5, <1>6, CompleteIff
<1> QED
  BY <1>7 DEF ext, x

(* The next item keeps a sequence of items in order.                       *)
LEMMA AppendInOrder ==
    ASSUME NEW q \in Seq(Items), NEW a \in Nat, NEW b \in Nat, a <= b, b + 1 \in Items,
           \A i \in 1 .. Len(q) : q[i] \in a + 1 .. b,
           \A i, j \in 1 .. Len(q) : i < j => q[i] < q[j]
    PROVE  LET ext == Append(q, b + 1)
           IN  /\ \A i \in 1 .. Len(ext) : ext[i] \in a + 1 .. b + 1
               /\ \A i, j \in 1 .. Len(ext) : i < j => ext[i] < ext[j]
<1> DEFINE x == b + 1
           ext == Append(q, x)
<1>1. /\ Len(q) \in Nat
      /\ Len(ext) = Len(q) + 1
      /\ \A i \in 1 .. Len(q) + 1 : ext[i] = IF i <= Len(q) THEN q[i] ELSE x
  BY AppendElements
<1> HIDE DEF ext
<1>2. \A i \in 1 .. Len(ext) : ext[i] \in a + 1 .. x
  BY <1>1
<1>3. \A i, j \in 1 .. Len(ext) : i < j => ext[i] < ext[j]
  BY <1>1
<1> QED
  BY <1>2, <1>3 DEF ext

(* An item put into the channel is the last one seen.                      *)
LEMMA SeenAppend ==
    ASSUME NEW a \in Seq(Items), NEW b \in Seq(Items), NEW x \in Items
    PROVE  a \o Append(b, x) = Append(a \o b, x)
  BY AppendIsConcat, ConcatAssociative, ConcatProperties

(* Receiving moves an item from the channel to the consumer.               *)
LEMMA SeenReceive ==
    ASSUME NEW a \in Seq(Items), NEW b \in Seq(Items), b # <<>>
    PROVE  Append(a, Head(b)) \o Tail(b) = a \o b
<1>1. Head(b) \in Items /\ Tail(b) \in Seq(Items)
  BY HeadTailProperties
<1>2. <<Head(b)>> \in Seq(Items)
  BY <1>1
<1>3. Append(a, Head(b)) = a \o <<Head(b)>>
  BY <1>1, AppendIsConcat
<1>4. <<Head(b)>> \o Tail(b) = b
  BY <1>1
<1> QED
  BY <1>1, <1>2, <1>3, <1>4, ConcatAssociative

-----------------------------------------------------------------------------
(* Every step keeps the invariant.                                         *)

LEMMA InitInv == Init => Inv
<1> SUFFICES ASSUME Init PROVE Inv
  OBVIOUS
<1> USE BroadcasterAssumption DEF Init
<1>1. TypeOK
  <2>1. <<>> \in Seq(1 .. MaxItems) /\ Len(<<>>) = 0
    BY EmptySeq
  <2>2. buf \in [Subs -> Seq(1 .. MaxItems)] /\ got \in [Subs -> Seq(1 .. MaxItems)]
    BY <2>1
  <2>3. \A s \in Subs : Len(buf[s]) <= BufSize
    BY <2>1
  <2>4. running \in BOOLEAN /\ inputOpen \in BOOLEAN
    OBVIOUS
  <2>5. /\ subs \in SUBSET Subs /\ item \in 0 .. MaxItems
        /\ closes \in [Subs -> Nat] /\ unsubs \in [Subs -> Nat]
        /\ since \in [Subs -> 0 .. MaxItems]
        /\ ctx \in [Subs -> {"none", "live", "done"}]
    OBVIOUS
  <2> HIDE DEF Init
  <2> QED
    BY <2>2, <2>3, <2>4, <2>5 DEF TypeOK
<1>2. Fresh /\ SinceItem /\ CloseOnce /\ NoSilentGap
  BY DEF Fresh, SinceItem, CloseOnce, NoSilentGap
<1>3. \A s \in Subs : Len(Seen(s)) = 0
  BY <1>1, SeenType
<1>4. InOrder
  BY <1>3 DEF InOrder
<1> QED
  BY <1>1, <1>2, <1>4 DEF Inv

(* Where neither items nor what is seen change, nothing is reordered.      *)
LEMMA InOrderKept ==
    ASSUME InOrder, UNCHANGED <<item, since>>,
           \A s \in Subs : Seen(s)' = Seen(s)
    PROVE  InOrder'
  BY DEF InOrder

LEMMA SubscribeInv ==
    ASSUME Inv, NEW s \in Subs, Subscribe(s)
    PROVE  Inv'
<1> USE BroadcasterAssumption DEF Inv, Subscribe
<1>1. TypeOK'
  BY DEF TypeOK
<1>2. Fresh' /\ SinceItem' /\ CloseOnce'
  BY DEF TypeOK, Fresh, SinceItem, CloseOnce
<1>3. \A r \in Subs : Seen(r)' = Seen(r)
  BY DEF Seen
<1>4. Len(Seen(s)) = 0
  <2>1. buf[s] = <<>> /\ got[s] = <<>>
    BY DEF Fresh
  <2>2. Len(buf[s]) = 0 /\ Len(got[s]) = 0
    BY <2>1, EmptySeq
  <2>3. Len(Seen(s)) = Len(got[s]) + Len(buf[s])
    BY SeenType
  <2> QED
    BY <2>2, <2>3
<1>5. since'[s] = item /\ item' = item
  BY DEF TypeOK
<1>6. \A r \in Subs : r # s => since'[r] = since[r]
  BY DEF TypeOK
<1>7. Complete(s)'
  <2>1. Seen(s)' \in Seq(Items) /\ Len(Seen(s)') = 0
    BY <1>3, <1>4, SeenType
  <2>2. item' - since'[s] = 0
    BY <1>5 DEF TypeOK
  <2>3. Seen(s)' = <<>>
    BY <2>1, EmptySeq
  <2> QED
    BY <2>2, <2>3 DEF Complete
<1>8. \A r \in Subs : r # s => (Complete(r)' <=> Complete(r))
  BY <1>3, <1>6 DEF Complete
<1>9. NoSilentGap'
  BY <1>7, <1>8 DEF NoSilentGap, TypeOK
<1>10. InOrder'
  BY <1>3, <1>4, <1>6 DEF InOrder
<1> QED
  BY <1>1, <1>2, <1>9, <1>10

(* Steps that touch neither the items nor what is seen: a subscriber that  *)
(* stays and has no goroutine against it is as complete as before.         *)
LEMMA NothingSeenInv ==
    ASSUME Inv, UNCHANGED <<item, since, buf, got>>,
           \A r \in subs' : r \in subs /\ (unsubs'[r] = 0 => unsubs[r] = 0)
    PROVE  SinceItem' /\ NoSilentGap' /\ InOrder'
<1>1. \A r \in Subs : Seen(r)' = Seen(r) /\ (Complete(r)' <=> Complete(r))
  BY DEF Seen, Complete
<1>2. SinceItem' /\ InOrder'
  BY <1>1 DEF Inv, SinceItem, InOrder
<1>3. NoSilentGap'
  BY <1>1 DEF Inv, NoSilentGap, TypeOK
<1> QED
  BY <1>2, <1>3

LEMMA ContextDoneInv ==
    ASSUME Inv, NEW s \in Subs, ContextDone(s)
    PROVE  Inv'
<1> USE DEF Inv, ContextDone
<1>1. TypeOK' /\ Fresh' /\ CloseOnce'
  BY DEF TypeOK, Fresh, CloseOnce
<1>2. \A r \in subs' : r \in subs /\ (unsubs'[r] = 0 => unsubs[r] = 0)
  BY DEF TypeOK
<1> QED
  BY <1>1, <1>2, NothingSeenInv

LEMMA UnsubInv ==
    ASSUME Inv, NEW s \in Subs, Unsub(s)
    PROVE  Inv'
<1> USE DEF Inv, Unsub
<1>1. TypeOK' /\ CloseOnce'
  BY DEF TypeOK, CloseOnce
<1>2. Fresh'
  BY DEF TypeOK, Fresh
<1>3. \A r \in subs' : r \in subs /\ (unsubs'[r] = 0 => unsubs[r] = 0)
  BY DEF TypeOK
<1> QED
  BY <1>1, <1>2, <1>3, NothingSeenInv

LEMMA CloseInputInv ==
    ASSUME Inv, CloseInput
    PROVE  Inv'
<1> USE DEF Inv, CloseInput
<1>1. TypeOK' /\ Fresh' /\ CloseOnce'
  BY DEF TypeOK, Fresh, CloseOnce
<1> QED
  BY <1>1, NothingSeenInv

LEMMA StreamEndInv ==
    ASSUME Inv, StreamEnd
    PROVE  Inv'
<1> USE DEF Inv, StreamEnd
<1>1. closes' \in [Subs -> Nat]
  BY DEF TypeOK
<1>2. TypeOK'
  BY <1>1 DEF TypeOK
<1>3. CloseOnce' /\ Fresh'
  BY DEF TypeOK, CloseOnce, Fresh
<1> QED
  BY <1>1, <1>2, <1>3, NothingSeenInv

LEMMA ReceiveInv ==
    ASSUME Inv, NEW s \in Subs, Receive(s)
    PROVE  Inv'
<1> USE DEF Inv, Receive
<1>1. /\ buf[s] \in Seq(Items) /\ got[s] \in Seq(Items) /\ buf[s] # <<>>
  BY SeenType
<1>2. /\ Head(buf[s]) \in Items /\ Tail(buf[s]) \in Seq(Items)
      /\ Len(Tail(buf[s])) = Len(buf[s]) - 1
      /\ Append(got[s], Head(buf[s])) \in Seq(Items)
  BY <1>1, HeadTailProperties, AppendProperties
<1>3. /\ \A r \in Subs : buf'[r] = IF r = s THEN Tail(buf[s]) ELSE buf[r]
      /\ \A r \in Subs : got'[r] = IF r = s THEN Append(got[s], Head(buf[s])) ELSE got[r]
  BY DEF TypeOK
<1>4. TypeOK'
  <2>1. buf' \in [Subs -> Seq(Items)] /\ got' \in [Subs -> Seq(Items)]
    BY <1>1, <1>2 DEF TypeOK, Items
  <2>2. \A r \in Subs : Len(buf'[r]) <= BufSize
    BY <1>1, <1>2, <1>3, BroadcasterAssumption, LenProperties DEF TypeOK
  <2> QED
    BY <2>1, <2>2 DEF TypeOK, Items
<1>5. \A r \in Subs : Seen(r)' = Seen(r)
  <2>1. Append(got[s], Head(buf[s])) \o Tail(buf[s]) = got[s] \o buf[s]
    BY <1>1, SeenReceive
  <2>2. Seen(s)' = Seen(s)
    BY <1>3, <2>1 DEF Seen
  <2>3. \A r \in Subs : r # s => Seen(r)' = Seen(r)
    BY <1>3 DEF Seen
  <2> QED
    BY <2>2, <2>3
<1>6. \A r \in Subs : Complete(r)' <=> Complete(r)
  BY <1>5 DEF Complete
<1>7. Fresh' /\ SinceItem' /\ CloseOnce'
  BY <1>1, <1>3 DEF Fresh, SinceItem, CloseOnce
<1>8. NoSilentGap'
  BY <1>6 DEF NoSilentGap, TypeOK
<1> QED
  BY <1>4, <1>5, <1>7, <1>8, InOrderKept

(* A subscriber that gets the item sees it last; one that does not has a   *)
(* goroutine against it.                                                   *)
LEMMA StreamItemInv ==
    ASSUME Inv, StreamItem
    PROVE  Inv'
<1> USE BroadcasterAssumption DEF Inv
<1> DEFINE x == item + 1
           Gets(r) == r \in subs /\ Len(buf[r]) < BufSize
<1>1. x \in Items /\ item' = x /\ item \in Nat /\ since' = since /\ got' = got
  BY DEF StreamItem, TypeOK, Items
<1>2. \A r \in Subs : buf'[r] = IF Gets(r) THEN Append(buf[r], x) ELSE buf[r]
  BY DEF StreamItem
<1>3. \A r \in Subs : /\ unsubs'[r] = IF r \in subs /\ Len(buf[r]) >= BufSize
                                      THEN unsubs[r] + 1 ELSE unsubs[r]
                     /\ unsubs[r] \in Nat
  BY DEF StreamItem, TypeOK
<1>4. \A r \in Subs : buf[r] \in Seq(Items) /\ Len(buf[r]) \in Nat /\ got[r] \in Seq(Items)
  BY SeenType, LenProperties
<1>5. \A r \in Subs : /\ Append(buf[r], x) \in Seq(Items)
                     /\ Len(Append(buf[r], x)) = Len(buf[r]) + 1
  BY <1>1, <1>4, AppendProperties
<1>6. TypeOK'
  <2>1. buf' \in [Subs -> Seq(Items)]
    BY <1>2, <1>4, <1>5 DEF StreamItem
  <2>2. \A r \in Subs : Len(buf'[r]) <= BufSize
    <3> TAKE r \in Subs
    <3>1. CASE Gets(r)
      <4>1. buf'[r] = Append(buf[r], x)
        BY <3>1, <1>2
      <4>2. Len(buf'[r]) = Len(buf[r]) + 1 /\ Len(buf[r]) \in Nat
        BY <4>1, <1>4, <1>5
      <4> QED
        BY <3>1, <4>2
    <3>2. CASE ~Gets(r)
      BY <3>2, <1>2 DEF TypeOK
    <3> QED
      BY <3>1, <3>2
  <2>3. unsubs' \in [Subs -> Nat]
    BY <1>3 DEF StreamItem
  <2> QED
    BY <1>1, <2>1, <2>2, <2>3 DEF TypeOK, StreamItem, Items
<1>7. Fresh'
  BY <1>1, <1>2, <1>3 DEF Fresh, StreamItem
<1>8. SinceItem' /\ CloseOnce'
  BY <1>1 DEF SinceItem, CloseOnce, StreamItem, TypeOK
<1>9. \A r \in Subs : Gets(r) => Seen(r)' = Append(Seen(r), x)
  BY <1>1, <1>2, <1>4, SeenAppend DEF Seen
<1>10. \A r \in Subs : ~Gets(r) => Seen(r)' = Seen(r)
  BY <1>1, <1>2 DEF Seen
<1>11. NoSilentGap'
  <2> SUFFICES ASSUME NEW r \in subs', unsubs'[r] = 0 PROVE Complete(r)'
    BY DEF NoSilentGap
  <2>1. r \in Subs /\ r \in subs
    BY DEF StreamItem, TypeOK
  <2>2. Gets(r) /\ unsubs[r] = 0
    BY <1>3, <1>4, <2>1
  <2>3. since[r] <= item /\ since[r] \in Nat
    BY <2>1 DEF SinceItem, TypeOK
  <2>4. Seen(r) \in Seq(Items) /\ Seen(r) = [i \in 1 .. (item - since[r]) |-> since[r] + i]
    BY <2>1, <2>2, SeenType DEF NoSilentGap, Complete
  <2>5. Seen(r)' = [i \in 1 .. (x - since[r]) |-> since[r] + i]
    <3>1. Seen(r)' = Append(Seen(r), x)
      BY <1>9, <2>1, <2>2
    <3>2. Append(Seen(r), item + 1) = [i \in 1 .. ((item + 1) - since[r]) |-> since[r] + i]
      BY <1>1, <2>3, <2>4, AppendComplete
    <3> QED
      BY <3>1, <3>2
  <2> QED
    BY <1>1, <2>5 DEF Complete
<1>12. InOrder'
  <2> SUFFICES ASSUME NEW r \in Subs
               PROVE  /\ \A i \in 1 .. Len(Seen(r)') : Seen(r)'[i] \in since[r] + 1 .. x
                      /\ \A i, j \in 1 .. Len(Seen(r)') : i < j => Seen(r)'[i] < Seen(r)'[j]
    BY <1>1 DEF InOrder
  <2>1. /\ \A i \in 1 .. Len(Seen(r)) : Seen(r)[i] \in since[r] + 1 .. item
        /\ \A i, j \in 1 .. Len(Seen(r)) : i < j => Seen(r)[i] < Seen(r)[j]
    BY DEF InOrder
  <2>2. since[r] <= item /\ since[r] \in Nat
    BY DEF SinceItem, TypeOK
  <2>3. CASE Gets(r)
    <3>1. Seen(r)' = Append(Seen(r), x) /\ Seen(r) \in Seq(Items)
      BY <1>9, <2>3, SeenType
    <3> QED
      BY <1>1, <2>1, <2>2, <3>1, AppendInOrder DEF Items
  <2>4. CASE ~Gets(r)
    BY <1>1, <1>10, <2>1, <2>2, <2>4
  <2> QED
    BY <2>3, <2>4
<1> QED
  BY <1>6, <1>7, <1>8, <1>11, <1>12

LEMMA NextInv == Inv /\ [Next]_vars => Inv'
<1> SUFFICES ASSUME Inv, [Next]_vars PROVE Inv'
  OBVIOUS
<1>1. ASSUME NEW s \in Subs, Subscribe(s) PROVE Inv'
  BY <1>1, SubscribeInv
<1>2. ASSUME NEW s \in Subs, ContextDone(s) PROVE Inv'
  BY <1>2, ContextDoneInv
<1>3. ASSUME NEW s \in Subs, Unsub(s) PROVE Inv'
  BY <1>3, UnsubInv
<1>4. ASSUME NEW s \in Subs, Receive(s) PROVE Inv'
  BY <1>4, ReceiveInv
<1>5. CASE StreamItem
  BY <1>5, StreamItemInv
<1>6. CASE CloseInput
  BY <1>6, CloseInputInv
<1>7. CASE StreamEnd
  BY <1>7, StreamEndInv
<1>8. CASE UNCHANGED vars
  BY <1>8 DEF vars, Inv, TypeOK, Fresh, SinceItem, CloseOnce, NoSilentGap, InOrder,
              Complete, Seen
<1> QED
  BY <1>1, <1>2, <1>3, <1>4, <1>5, <1>6, <1>7, <1>8 DEF Next

LEMMA SpecInv == Spec => []Inv
  BY InitInv, NextInv, PTL DEF Spec

-----------------------------------------------------------------------------
(* The theorems.                                                           *)

(* The variables of the broadcaster keep their types; no channel holds     *)
(* more items than it has room for.                                        *)
THEOREM TypeCorrect == Spec => []TypeOK
<1>1. Inv => TypeOK
  BY DEF Inv
<1> QED
  BY <1>1, SpecInv, PTL

(* unsub closes no channel twice and stream sends on no closed one, for    *)
(* any number of subscribers, goroutines and items.                        *)
THEOREM NoDoubleClose == Spec => []CloseOnce
<1>1. Inv => CloseOnce
  BY DEF Inv
<1> QED
  BY <1>1, SpecInv, PTL

(* A subscriber that stream has not doomed has missed no item.             *)
THEOREM NoGapUnreported == Spec => []NoSilentGap
<1>1. Inv => NoSilentGap
  BY DEF Inv
<1> QED
  BY <1>1, SpecInv, PTL

(* Whatever a slow subscriber misses, it sees later items only, each once  *)
(* and in the order of the input.                                          *)
THEOREM DeliveredInOrder == Spec => []InOrder
<1>1. Inv => InOrder
  BY DEF Inv
<1> QED
  BY <1>1, SpecInv, PTL

-----------------------------------------------------------------------------
(* Subscribers are told.                                                   *)

(* Whoever has subscribed is served or its channel has been closed, and    *)
(* who is served has a stream goroutine.                                   *)
Served ==
    /\ \A s \in Subs : ctx[s] # "none" => s \in subs \/ closes[s] = 1
    /\ subs # {} => running

(* A subscriber that has missed an item has been told, or a goroutine is   *)
(* on the way that will close its channel.                                 *)
GapInHand ==
    \A s \in Subs : ctx[s] # "none" /\ ~Complete(s) =>
        closes[s] = 1 \/ (s \in subs /\ unsubs[s] > 0)

LEMMA NextServed == Inv /\ Served /\ [Next]_vars => Served'
<1> SUFFICES ASSUME Inv, Served, [Next]_vars PROVE Served'
  OBVIOUS
<1>1. ASSUME NEW s \in Subs, Subscribe(s) PROVE Served'
  BY <1>1 DEF Subscribe, Served, Inv, TypeOK
<1>2. ASSUME NEW s \in Subs, ContextDone(s) \/ Receive(s) PROVE Served'
  BY <1>2 DEF ContextDone, Receive, Served, Inv, TypeOK
<1>3. ASSUME NEW s \in Subs, Unsub(s) PROVE Served'
  BY <1>3 DEF Unsub, Served, Inv, TypeOK, CloseOnce
<1>4. CASE StreamItem \/ CloseInput
  BY <1>4 DEF StreamItem, CloseInput, Served
<1>5. CASE StreamEnd
  BY <1>5 DEF StreamEnd, Served, Inv, TypeOK, CloseOnce
<1>6. CASE UNCHANGED vars
  BY <1>6 DEF vars, Served
<1> QED
  BY <1>1, <1>2, <1>3, <1>4, <1>5, <1>6 DEF Next

(* No subscriber waits for ever on a channel nobody serves any more: who   *)
(* has missed an item, because its buffer was full or because it has been  *)
(* unsubscribed or the stream has ended, has its channel closed or a       *)
(* goroutine on the way that closes it (broadcaster.go:16-83).             *)
THEOREM GapsAreTold == Spec => [](Served /\ GapInHand)
<1>1. Init => Served
  BY DEF Init, Served
<1>2. Inv /\ Served => GapInHand
  BY DEF Inv, TypeOK, NoSilentGap, Served, GapInHand
<1> QED
  BY <1>1, <1>2, NextServed, SpecInv, PTL DEF Spec


=============================================================================
