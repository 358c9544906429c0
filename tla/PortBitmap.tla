----------------------------- MODULE PortBitmap -----------------------------
(***************************************************************************)
(* The port bitmap of go-common-libs (bitmap.go), as the process manager   *)
(* uses it: AllocateRange searches the free positions for `count`          *)
(* consecutive ones, first from where the last search stopped and then     *)
(* from the bottom; ReleaseRange gives a block back.                       *)
(*                                                                         *)
(* The search (findAt) is modelled loop iteration by loop iteration: the   *)
(* position of the roaring iterator and the loop's local variables are     *)
(* variables of the specification.  Bitmap.lock is held from the call to   *)
(* the return, so `pc # "idle"` is the lock.                               *)
(***************************************************************************)
EXTENDS Integers, FiniteSets

CONSTANTS
    Clients,    \* process objects, each allocates at most one block at a time
    PortMin,    \* Bitmap.base
    PortMax,    \* the last port of the range
    MaxCount,   \* bound on the block size a client asks for
    NoClient    \* nobody is calling AllocateRange

ASSUME PortRangeAssumption ==
    /\ PortMin \in Nat \ {0}
    /\ PortMax \in Nat
    /\ PortMin <= PortMax

ASSUME MaxCountAssumption == MaxCount \in Nat \ {0}

ASSUME NoClientAssumption == NoClient \notin Clients

VARIABLES
    data,       \* Bitmap.data: the free positions, relative to PortMin
    start,      \* Bitmap.start: where the next search begins
    rng,        \* rng[c] = <<PortStart, PortEnd>> of client c, <<0,0>> if none
    \* the AllocateRange call that holds Bitmap.lock
    pc,         \* "idle", "cursor" (first findAt) or "bottom" (second findAt)
    who,        \* the calling client
    count,      \* its argument
    iter,       \* position of the iterator: elements below it are consumed
    bStart,     \* findAt's bStart
    last,       \* findAt's last, -1 before the first element
    remains     \* findAt's remains

findVars == <<who, count, iter, bStart, last, remains>>
vars == <<data, start, rng, pc, who, count, iter, bStart, last, remains>>

Size == PortMax - PortMin + 1
Positions == 0 .. (Size - 1)
NoRange == <<0, 0>>

(* The positions the iterator has still to deliver, HasNext and Next.      *)
Ahead(i) == {x \in data : x >= i}
HasNext(i) == Ahead(i) # {}
NextOf(i) == CHOOSE x \in Ahead(i) : \A y \in Ahead(i) : x <= y

-----------------------------------------------------------------------------
Init ==
    /\ data = Positions
    /\ start = 0
    /\ rng = [c \in Clients |-> NoRange]
    /\ pc = "idle"
    /\ who = NoClient
    /\ count = 0
    /\ iter = 0
    /\ bStart = 0
    /\ last = -1
    /\ remains = 0

(* findAt(count, iStart): its initial assignments.                         *)
BeginFind(iStart, n) ==
    /\ iter' = iStart
    /\ bStart' = iStart
    /\ last' = -1
    /\ remains' = n

(* The call returned: the lock is free and the locals are gone.            *)
Return ==
    /\ pc' = "idle"
    /\ who' = NoClient
    /\ count' = 0
    /\ BeginFind(0, 0)

(* Mutant of AllocateRange: always search from the bottom.                 *)
AllocateRange_FromBottom(c, n) ==
    /\ pc = "idle"
    /\ rng[c] = NoRange
    /\ pc' = "cursor"
    /\ who' = c
    /\ count' = n
    /\ BeginFind(0, n)
    /\ UNCHANGED <<data, start, rng>>

(* AllocateRange(n) of client c takes the lock and searches from the       *)
(* cursor.  Non-positive counts never get here: allocatePorts answers      *)
(* them itself.                                                            *)
AllocateRange(c, n) ==
    /\ pc = "idle"
    /\ rng[c] = NoRange
    /\ pc' = "cursor"
    /\ who' = c
    /\ count' = n
    /\ BeginFind(start, n)
    /\ UNCHANGED <<data, start, rng>>

(* Inner loop of findAt, first element of a candidate block.               *)
FindFirst ==
    /\ pc # "idle"
    /\ HasNext(iter) /\ remains > 0
    /\ last < 0
    /\ last' = NextOf(iter)
    /\ bStart' = NextOf(iter)
    /\ iter' = NextOf(iter) + 1
    /\ remains' = remains - 1
    /\ UNCHANGED <<data, start, rng, pc, who, count>>

(* Mutant of FindAdjacent: a gap of one position goes unnoticed.           *)
FindAdjacent_OverGap ==
    /\ pc # "idle"
    /\ HasNext(iter) /\ remains > 0
    /\ last >= 0
    /\ NextOf(iter) - last <= 2
    /\ last' = NextOf(iter)
    /\ iter' = NextOf(iter) + 1
    /\ remains' = remains - 1
    /\ UNCHANGED <<data, start, rng, pc, who, count, bStart>>

(* Inner loop of findAt, an adjacent element: the candidate grows.         *)
FindAdjacent ==
    /\ pc # "idle"
    /\ HasNext(iter) /\ remains > 0
    /\ last >= 0
    /\ NextOf(iter) - last <= 1
    /\ last' = NextOf(iter)
    /\ iter' = NextOf(iter) + 1
    /\ remains' = remains - 1
    /\ UNCHANGED <<data, start, rng, pc, who, count, bStart>>

(* Mutants of NotFound: no second pass; a second pass without an end.      *)
NotFound_NoSecondPass == Return

NotFound_Again ==
    /\ pc' = "bottom"
    /\ BeginFind(0, count)
    /\ UNCHANGED <<who, count>>

(* findAt returned an error.  AllocateRange looks again from the bottom,   *)
(* once, and then fails.                                                   *)
NotFound ==
    \/ /\ pc = "cursor"
       /\ pc' = "bottom"
       /\ BeginFind(0, count)
       /\ UNCHANGED <<who, count>>
    \/ /\ pc = "bottom"
       /\ Return

(* Inner loop of findAt, a gap: the element after the gap is consumed by   *)
(* the test itself, then the outer loop starts over if anything is left.   *)
FindGap ==
    /\ pc # "idle"
    /\ HasNext(iter) /\ remains > 0
    /\ last >= 0
    /\ NextOf(iter) - last > 1
    /\ IF HasNext(NextOf(iter) + 1)
       THEN /\ iter' = NextOf(iter) + 1
            /\ last' = -1
            /\ remains' = count
            /\ UNCHANGED <<bStart, pc, who, count>>
       ELSE NotFound
    /\ UNCHANGED <<data, start, rng>>

(* The iterator is exhausted in the middle of a candidate block.           *)
FindExhausted ==
    /\ pc # "idle"
    /\ ~HasNext(iter) /\ remains > 0
    /\ NotFound
    /\ UNCHANGED <<data, start, rng>>

(* Mutant of Commit: the cursor moves one position too far.                *)
Commit_CursorTooFar ==
    /\ pc # "idle"
    /\ remains = 0
    /\ LET bEnd == bStart + count - 1
       IN  /\ data' = data \ (bStart .. bEnd)
           /\ start' = bEnd + 2
           /\ rng' = [rng EXCEPT ![who] = <<PortMin + bStart, PortMin + bEnd>>]
    /\ Return

(* findAt found its block: AllocateRange removes it from the free          *)
(* positions, moves the cursor behind it and returns it as port numbers.   *)
Commit ==
    /\ pc # "idle"
    /\ remains = 0
    /\ LET bEnd == bStart + count - 1
       IN  /\ data' = data \ (bStart .. bEnd)
           /\ start' = bEnd + 1
           /\ rng' = [rng EXCEPT ![who] = <<PortMin + bStart, PortMin + bEnd>>]
    /\ Return

(* Mutant of ReleaseRange: the last port of the block stays allocated.     *)
ReleaseRange_OffByOne(c) ==
    /\ pc = "idle"
    /\ rng[c] # NoRange
    /\ data' = data \cup ((rng[c][1] - PortMin) .. (rng[c][2] - PortMin - 1))
    /\ rng' = [rng EXCEPT ![c] = NoRange]
    /\ UNCHANGED <<start, pc, findVars>>

(* ReleaseRange(PortStart, PortEnd) of the client that holds the block.    *)
ReleaseRange(c) ==
    /\ pc = "idle"
    /\ rng[c] # NoRange
    /\ data' = data \cup ((rng[c][1] - PortMin) .. (rng[c][2] - PortMin))
    /\ rng' = [rng EXCEPT ![c] = NoRange]
    /\ UNCHANGED <<start, pc, findVars>>

Find == FindFirst \/ FindAdjacent \/ FindGap \/ FindExhausted \/ Commit

Next ==
    \/ \E c \in Clients, n \in 1 .. MaxCount : AllocateRange(c, n)
    \/ Find
    \/ \E c \in Clients : ReleaseRange(c)

(* The loop runs to its end once it is entered.                            *)
Spec == Init /\ [][Next]_vars /\ WF_vars(Find)

-----------------------------------------------------------------------------
(* Properties.                                                             *)

TypeOK ==
    /\ data \in SUBSET Positions
    /\ start \in 0 .. Size
    /\ rng \in [Clients -> {NoRange} \cup ((PortMin .. PortMax) \X (PortMin .. PortMax))]
    /\ pc \in {"idle", "cursor", "bottom"}
    /\ who \in Clients \cup {NoClient}
    /\ count \in 0 .. MaxCount
    /\ iter \in 0 .. Size
    /\ bStart \in 0 .. Size
    /\ last \in -1 .. (Size - 1)
    /\ remains \in 0 .. MaxCount

(* The ports client c holds, for the refinement.                           *)
Span(c) == IF rng[c] = NoRange THEN {} ELSE rng[c][1] .. rng[c][2]

FreePorts == {PortMin + i : i \in data}

Alloc == INSTANCE PortAllocator
            WITH free <- FreePorts, held <- [c \in Clients |-> Span(c)]

(* The bitmap is an allocator: whatever the search does, a block is handed *)
(* out only if it is free, and a returned block is free again.             *)
(* (bitmap.go AllocateRange, ReleaseRange)                                 *)
ImplementsAllocator == Alloc!AllocSpec

(* Every port is free or belongs to exactly one client, and the client's   *)
(* PortStart..PortEnd says which: base and position arithmetic agree.      *)
NoPortLostOrShared == Alloc!PortsConserved

(* n consecutive positions are free at or above position lo.               *)
FreeRun(n, lo) ==
    \E s \in lo .. (Size - n) : s .. (s + n - 1) \subseteq data

(* The gap test consumes the first position behind the gap, so a block     *)
(* there can be missed; a run one longer cannot, and single ports never.   *)
SureRun(n) == IF n = 1 THEN 1 ELSE n + 1

(* AllocateRange fails only if no run of count + 1 positions is free (of   *)
(* one position if count = 1, the engine's DefaultEnginePortCount).        *)
Failed == pc # "idle" /\ pc' = "idle" /\ rng' = rng
FailsOnlyWhenFragmented == [][Failed => ~FreeRun(SureRun(count), 0)]_vars

(* "Avoid quick reuse after free" (bitmap.go:80): a block below the cursor *)
(* is handed out only if none of the sure runs is free above the cursor.   *)
Reused == pc # "idle" /\ rng' # rng /\ bStart < start
NoQuickReuse == [][Reused => ~FreeRun(SureRun(count), start)]_vars

(* Every AllocateRange call returns and releases Bitmap.lock.              *)
CallReturns == pc # "idle" ~> pc = "idle"

=============================================================================
