-------------------------- MODULE PortBitmapProofs --------------------------
(***************************************************************************)
(* Theorems about PortBitmap, for every port range, every set of clients   *)
(* and every bound on the block size.                                      *)
(*                                                                         *)
(* The invariant has two halves.  Inv says what the bitmap and the blocks  *)
(* of the clients have to do with each other, and what the candidate of a  *)
(* running search is; it carries type correctness, the refinement of       *)
(* PortAllocator and NoPortLostOrShared.  SearchInv says what the search   *)
(* may have skipped; it carries the two properties of failed searches.     *)
(* LoopsLeft is the variant of the search.                                 *)
(***************************************************************************)
EXTENDS PortBitmap, WellFoundedInduction, TLAPS

-----------------------------------------------------------------------------
(* The invariant.                                                          *)

(* A client's block is not empty.                                          *)
SpansOrdered == \A c \in Clients : rng[c] = NoRange \/ rng[c][1] <= rng[c][2]

(* What a client holds is not free.                                        *)
SpansTaken == \A c \in Clients : \A x \in Span(c) : x - PortMin \notin data

SpansDisjoint == \A c, d \in Clients : c # d => Span(c) \cap Span(d) = {}

NothingLost == \A i \in Positions : i \in data \/ \E c \in Clients : PortMin + i \in Span(c)

(* A running search belongs to a client without a block; its candidate     *)
(* bStart..last consists of free positions and ends before the iterator.   *)
Candidate ==
    pc # "idle" =>
        /\ who \in Clients /\ rng[who] = NoRange
        /\ count >= 1
        /\ last = -1 => remains = count
        /\ last >= 0 => /\ iter = last + 1
                        /\ last = bStart + count - remains - 1
                        /\ bStart <= last
                        /\ \A i \in bStart .. last : i \in data

Inv == TypeOK /\ SpansOrdered /\ SpansTaken /\ SpansDisjoint /\ NothingLost /\ Candidate

-----------------------------------------------------------------------------
(* Lemmas.                                                                 *)

(* A non-empty set of natural numbers has a least element.                 *)
LEMMA NatMin ==
    ASSUME NEW T \in SUBSET Nat, T # {}
    PROVE  \E x \in T : \A y \in T : x <= y
<1> DEFINE R == {ss \in Nat \X Nat : ss[1] < ss[2]}
<1>1. R = OpToRel(<, Nat)
  BY DEF OpToRel
<1>2. IsWellFoundedOn(R, Nat)
  BY <1>1, NatLessThanWellFounded, Zenon
<1> HIDE DEF R
<1>3. PICK x \in T : \A y \in T : ~(<<y, x>> \in R)
  BY <1>2, WFMin
<1>4. \A y \in T : ~(y < x)
  BY <1>3 DEF R
<1> QED
  BY <1>4

LEMMA SizeNat == Size \in Nat \ {0}
  BY PortRangeAssumption DEF Size

(* The iterator delivers the least free position at or behind i.           *)
LEMMA NextOfLeast ==
    ASSUME data \in SUBSET Positions, NEW i \in Nat, HasNext(i)
    PROVE  /\ NextOf(i) \in data
           /\ NextOf(i) \in Nat
           /\ i <= NextOf(i)
           /\ NextOf(i) <= Size - 1
           /\ \A y \in data : y >= i => NextOf(i) <= y
<1>0. \A x \in data : x \in Nat /\ x <= Size - 1
  BY SizeNat DEF Positions
<1>1. Ahead(i) \in SUBSET Nat /\ Ahead(i) # {}
  BY <1>0 DEF Ahead, HasNext
<1>2. \E x \in Ahead(i) : \A y \in Ahead(i) : x <= y
  BY <1>1, NatMin
<1>3. NextOf(i) \in Ahead(i) /\ \A y \in Ahead(i) : NextOf(i) <= y
  BY <1>2 DEF NextOf
<1> QED
  BY <1>0, <1>3 DEF Ahead

-----------------------------------------------------------------------------
LEMMA InitInv == Init => Inv
<1> SUFFICES ASSUME Init PROVE Inv
  OBVIOUS
<1> USE SizeNat, PortRangeAssumption, MaxCountAssumption DEF Init, NoRange
<1>1. TypeOK
  BY DEF TypeOK, Positions
<1>2. \A c \in Clients : rng[c] = NoRange /\ Span(c) = {}
  BY DEF Span
<1>3. SpansOrdered /\ SpansTaken /\ SpansDisjoint
  BY <1>2 DEF SpansOrdered, SpansTaken, SpansDisjoint
<1>4. NothingLost /\ Candidate
  BY DEF NothingLost, Candidate
<1> QED
  BY <1>1, <1>3, <1>4 DEF Inv

LEMMA AllocateInv ==
    ASSUME Inv, NEW c \in Clients, NEW n \in 1 .. MaxCount, AllocateRange(c, n)
    PROVE  Inv'
<1> USE SizeNat, MaxCountAssumption
<1>1. TypeOK'
  BY DEF Inv, TypeOK, AllocateRange, BeginFind, Positions
<1>2. \A d \in Clients : rng'[d] = rng[d] /\ Span(d)' = Span(d)
  BY DEF AllocateRange, Span, NoRange
<1>3. SpansOrdered' /\ SpansTaken' /\ SpansDisjoint' /\ NothingLost'
  BY <1>2 DEF Inv, AllocateRange, SpansOrdered, SpansTaken, SpansDisjoint, NothingLost, NoRange
<1>4. Candidate'
  BY DEF Inv, TypeOK, AllocateRange, BeginFind, Candidate, NoRange
<1> QED
  BY <1>1, <1>3, <1>4 DEF Inv

(* The steps of the search touch neither the bitmap nor the blocks.        *)
LEMMA BlocksUntouched ==
    ASSUME Inv, UNCHANGED <<data, start, rng>>
    PROVE  SpansOrdered' /\ SpansTaken' /\ SpansDisjoint' /\ NothingLost'
<1>1. \A d \in Clients : rng'[d] = rng[d] /\ Span(d)' = Span(d)
  BY DEF Span, NoRange
<1> QED
  BY <1>1 DEF Inv, SpansOrdered, SpansTaken, SpansDisjoint, NothingLost, NoRange

LEMMA FindFirstInv == Inv /\ FindFirst => Inv'
<1> SUFFICES ASSUME Inv, FindFirst PROVE Inv'
  OBVIOUS
<1> USE SizeNat, MaxCountAssumption
<1>1. /\ NextOf(iter) \in data /\ NextOf(iter) \in Nat
      /\ iter <= NextOf(iter) /\ NextOf(iter) <= Size - 1
  BY NextOfLeast DEF Inv, TypeOK, FindFirst
<1> HIDE DEF NextOf
<1>2. TypeOK'
  BY <1>1 DEF Inv, TypeOK, FindFirst
<1>3. Candidate'
  BY <1>1 DEF Inv, TypeOK, FindFirst, Candidate, NoRange
<1> QED
  BY <1>2, <1>3, BlocksUntouched DEF Inv, FindFirst

LEMMA FindAdjacentInv == Inv /\ FindAdjacent => Inv'
<1> SUFFICES ASSUME Inv, FindAdjacent PROVE Inv'
  OBVIOUS
<1> USE SizeNat, MaxCountAssumption
<1>1. /\ NextOf(iter) \in data /\ NextOf(iter) \in Nat
      /\ iter <= NextOf(iter) /\ NextOf(iter) <= Size - 1
  BY NextOfLeast DEF Inv, TypeOK, FindAdjacent
<1>2. TypeOK'
  BY <1>1 DEF Inv, TypeOK, FindAdjacent
<1>3. NextOf(iter) = last + 1
  BY <1>1 DEF Inv, TypeOK, FindAdjacent, Candidate
<1>4. Candidate'
  BY <1>1, <1>3 DEF Inv, TypeOK, FindAdjacent, Candidate, NoRange
<1> QED
  BY <1>2, <1>4, BlocksUntouched DEF Inv, FindAdjacent

LEMMA NotFoundInv ==
    ASSUME Inv, pc # "idle", NotFound, UNCHANGED <<data, start, rng>>
    PROVE  Inv'
<1> USE SizeNat, MaxCountAssumption, NoClientAssumption
<1>1. TypeOK'
  BY DEF Inv, TypeOK, NotFound, Return, BeginFind, Candidate
<1>2. Candidate'
  BY DEF Inv, TypeOK, NotFound, Return, BeginFind, Candidate, NoRange
<1> QED
  BY <1>1, <1>2, BlocksUntouched DEF Inv

LEMMA FindGapInv == Inv /\ FindGap => Inv'
<1> SUFFICES ASSUME Inv, FindGap PROVE Inv'
  OBVIOUS
<1> USE SizeNat, MaxCountAssumption
<1>1. /\ NextOf(iter) \in Nat /\ NextOf(iter) <= Size - 1
  BY NextOfLeast DEF Inv, TypeOK, FindGap
<1>2. CASE HasNext(NextOf(iter) + 1)
  <2>1. TypeOK'
    BY <1>1, <1>2 DEF Inv, TypeOK, FindGap
  <2>2. Candidate'
    BY <1>1, <1>2 DEF Inv, TypeOK, FindGap, Candidate, NoRange
  <2> QED
    BY <2>1, <2>2, BlocksUntouched DEF Inv, FindGap
<1>3. CASE ~HasNext(NextOf(iter) + 1)
  BY <1>3, NotFoundInv DEF FindGap
<1> QED
  BY <1>2, <1>3

LEMMA FindExhaustedInv == Inv /\ FindExhausted => Inv'
  BY NotFoundInv DEF FindExhausted

(* The candidate of a finished search becomes the caller's block.          *)
LEMMA CommitInv == Inv /\ Commit => Inv'
<1> SUFFICES ASSUME Inv, Commit PROVE Inv'
  OBVIOUS
<1> USE SizeNat, MaxCountAssumption, NoClientAssumption, PortRangeAssumption
<1>0. PICK w \in Clients, lo \in Nat, hi \in Nat :
          w = who /\ lo = bStart /\ hi = bStart + count - 1
  BY DEF Inv, TypeOK, Candidate, Commit
<1>1. /\ rng[w] = NoRange
      /\ lo <= hi /\ hi <= Size - 1
      /\ \A i \in lo .. hi : i \in data
  BY <1>0 DEF Inv, TypeOK, Candidate, Commit
<1>2. /\ data' = data \ (lo .. hi)
      /\ start' = hi + 1
      /\ rng' = [rng EXCEPT ![w] = <<PortMin + lo, PortMin + hi>>]
      /\ Return
  BY <1>0 DEF Commit
<1>3. /\ PortMin + lo \in PortMin .. PortMax
      /\ PortMin + hi \in PortMin .. PortMax
  BY <1>1 DEF Size
<1>4. rng \in [Clients -> {NoRange} \cup ((PortMin .. PortMax) \X (PortMin .. PortMax))]
  BY DEF Inv, TypeOK
<1>5. /\ rng'[w] = <<PortMin + lo, PortMin + hi>>
      /\ rng'[w] # NoRange
      /\ \A d \in Clients \ {w} : rng'[d] = rng[d]
  BY <1>1, <1>2, <1>3, <1>4 DEF NoRange
<1>6. /\ Span(w)' = (PortMin + lo) .. (PortMin + hi)
      /\ Span(w) = {}
      /\ \A d \in Clients \ {w} : Span(d)' = Span(d)
  BY <1>1, <1>5 DEF Span, NoRange
<1>7. TypeOK'
  <2>1. rng' \in [Clients -> {NoRange} \cup ((PortMin .. PortMax) \X (PortMin .. PortMax))]
    BY <1>1, <1>2, <1>3, <1>4
  <2>2. data' \in SUBSET Positions /\ start' \in 0 .. Size
    BY <1>1, <1>2 DEF Inv, TypeOK
  <2> QED
    BY <1>2, <2>1, <2>2 DEF TypeOK, NoRange, Return, BeginFind, Positions
<1>8. SpansOrdered'
  BY <1>1, <1>5 DEF Inv, SpansOrdered, NoRange
<1>9. \A c \in Clients : \A x \in Span(c) : x \in Int /\ x - PortMin \notin data
  BY <1>4 DEF Inv, SpansTaken, Span, NoRange
<1>10. SpansTaken'
  BY <1>1, <1>2, <1>6, <1>9 DEF SpansTaken
<1>11. SpansDisjoint'
  <2>1. \A d \in Clients : Span(d) \cap ((PortMin + lo) .. (PortMin + hi)) = {}
    BY <1>1, <1>9
  <2> QED
    BY <1>6, <2>1 DEF Inv, SpansDisjoint
<1>12. NothingLost'
  <2> SUFFICES ASSUME NEW i \in Positions, i \notin data'
               PROVE  \E c \in Clients : PortMin + i \in Span(c)'
    BY DEF NothingLost, Positions, Size
  <2>1. CASE i \in lo .. hi
    BY <1>1, <1>6, <2>1
  <2>2. CASE i \notin lo .. hi
    <3>1. PICK c \in Clients : PortMin + i \in Span(c)
      BY <1>2, <2>2 DEF Inv, NothingLost
    <3>2. Span(c)' = Span(c)
      BY <1>6, <3>1
    <3> QED
      BY <3>1, <3>2
  <2> QED
    BY <2>1, <2>2
<1>13. Candidate'
  BY <1>2 DEF Candidate, Return
<1> QED
  BY <1>7, <1>8, <1>10, <1>11, <1>12, <1>13 DEF Inv

LEMMA ReleaseInv ==
    ASSUME Inv, NEW c \in Clients, ReleaseRange(c)
    PROVE  Inv'
<1> USE SizeNat, PortRangeAssumption
<1> DEFINE lo == rng[c][1]
           hi == rng[c][2]
<1>1. rng \in [Clients -> {NoRange} \cup ((PortMin .. PortMax) \X (PortMin .. PortMax))]
  BY DEF Inv, TypeOK
<1>2. /\ lo \in PortMin .. PortMax /\ hi \in PortMin .. PortMax
      /\ Span(c) = lo .. hi
  BY <1>1 DEF ReleaseRange, Span
<1>3. /\ data' = data \cup ((lo - PortMin) .. (hi - PortMin))
      /\ rng' = [rng EXCEPT ![c] = NoRange]
      /\ pc = "idle" /\ UNCHANGED <<start, pc, findVars>>
  BY DEF ReleaseRange
<1> HIDE DEF lo, hi
<1>4. /\ rng'[c] = NoRange
      /\ \A d \in Clients \ {c} : rng'[d] = rng[d]
  BY <1>1, <1>3
<1>5. /\ Span(c)' = {}
      /\ \A d \in Clients \ {c} : Span(d)' = Span(d)
  BY <1>4 DEF Span, NoRange
<1>6. TypeOK'
  <2>1. rng' \in [Clients -> {NoRange} \cup ((PortMin .. PortMax) \X (PortMin .. PortMax))]
    BY <1>1, <1>3
  <2>2. data' \in SUBSET Positions
    BY <1>2, <1>3 DEF Inv, TypeOK, Positions, Size
  <2> QED
    BY <1>3, <2>1, <2>2 DEF Inv, TypeOK, NoRange, findVars, Positions
<1>7. SpansOrdered'
  BY <1>4 DEF Inv, SpansOrdered, NoRange
<1>8. SpansDisjoint'
  BY <1>5 DEF Inv, SpansDisjoint
<1>9. SpansTaken'
  <2> SUFFICES ASSUME NEW d \in Clients \ {c}, NEW x \in Span(d)
               PROVE  x - PortMin \notin data'
    BY <1>5 DEF SpansTaken
  <2>1. x \in Int /\ x - PortMin \notin data
    BY <1>1 DEF Inv, SpansTaken, Span, NoRange
  <2>2. x \notin lo .. hi
    BY <1>2 DEF Inv, SpansDisjoint
  <2> QED
    BY <1>2, <1>3, <2>1, <2>2
<1>10. NothingLost'
  <2> SUFFICES ASSUME NEW i \in Positions, i \notin data'
               PROVE  \E d \in Clients : PortMin + i \in Span(d)'
    BY DEF NothingLost, Positions, Size
  <2>1. PICK d \in Clients : PortMin + i \in Span(d)
    BY <1>3 DEF Inv, NothingLost
  <2>2. d # c
    BY <1>2, <1>3, <2>1 DEF Positions
  <2> QED
    BY <1>5, <2>1, <2>2
<1>11. Candidate'
  BY <1>3 DEF Candidate
<1> QED
  BY <1>6, <1>7, <1>8, <1>9, <1>10, <1>11 DEF Inv

LEMMA NextInv == Inv /\ [Next]_vars => Inv'
<1> SUFFICES ASSUME Inv, [Next]_vars PROVE Inv'
  OBVIOUS
<1>1. CASE UNCHANGED vars
  <2>1. TypeOK' /\ Candidate'
    BY <1>1 DEF Inv, TypeOK, Candidate, vars, NoRange, Positions
  <2> QED
    BY <1>1, <2>1, BlocksUntouched DEF Inv, vars
<1>2. CASE Next
  BY <1>2, AllocateInv, FindFirstInv, FindAdjacentInv, FindGapInv, FindExhaustedInv,
     CommitInv, ReleaseInv DEF Next, Find
<1> QED
  BY <1>1, <1>2

-----------------------------------------------------------------------------
(* The bitmap, the blocks of the clients and the candidate of a running    *)
(* search agree in every reachable state.                                  *)
(* (bitmap.go AllocateRange, findAt, ReleaseRange)                         *)
THEOREM Invariant == Spec => []Inv
  BY InitInv, NextInv, PTL DEF Spec

(* Every variable keeps its type: in particular the cursor never leaves    *)
(* the range, so findAt never starts outside the bitmap.                   *)
(* (bitmap.go AllocateRange, findAt)                                       *)
THEOREM TypeCorrect == Spec => []TypeOK
<1>1. Inv => TypeOK
  BY DEF Inv
<1> QED
  BY <1>1, Invariant, PTL

(* Ports and positions correspond.                                         *)
LEMMA FreePortsIff ==
    ASSUME data \in SUBSET Positions, NEW x \in Int
    PROVE  x \in FreePorts <=> x - PortMin \in data
<1>1. \A i \in data : i \in Int
  BY SizeNat DEF Positions
<1> QED
  BY <1>1, PortRangeAssumption DEF FreePorts

LEMMA SpanInts ==
    ASSUME TypeOK, NEW c \in Clients
    PROVE  Span(c) \subseteq Int
  BY PortRangeAssumption DEF TypeOK, Span, NoRange

(* Every port is free or belongs to exactly one client: allocation and     *)
(* release lose no port and hand none out twice, whatever the fragmentation*)
(* of the bitmap.  (bitmap.go AllocateRange, ReleaseRange)                 *)
THEOREM Conservation == Spec => []NoPortLostOrShared
<1>1. Inv => NoPortLostOrShared
  <2> SUFFICES ASSUME Inv PROVE NoPortLostOrShared
    OBVIOUS
  <2> USE PortRangeAssumption
  <2> DEFINE h == [c \in Clients |-> Span(c)]
  <2>0. data \in SUBSET Positions /\ TypeOK
    BY DEF Inv, TypeOK
  <2>1. \A c \in Clients : h[c] \cap FreePorts = {}
    BY <2>0, FreePortsIff, SpanInts DEF Inv, SpansTaken
  <2>2. \A c, d \in Clients : c # d => h[c] \cap h[d] = {}
    BY DEF Inv, SpansDisjoint
  <2>3. ASSUME NEW x \in PortMin .. PortMax
        PROVE  x \in FreePorts \/ \E c \in Clients : x \in h[c]
    <3>1. x - PortMin \in Positions /\ PortMin + (x - PortMin) = x
      BY DEF Positions, Size
    <3> QED
      BY <2>0, <3>1, FreePortsIff DEF Inv, NothingLost
  <2> QED
    BY <2>1, <2>2, <2>3 DEF NoPortLostOrShared, Alloc!PortsConserved, Alloc!Ports
<1> QED
  BY <1>1, Invariant, PTL

-----------------------------------------------------------------------------
(* The refinement.                                                         *)

Held == [c \in Clients |-> Span(c)]

LEMMA InitRefines == Init => Alloc!AllocInit
<1> SUFFICES ASSUME Init PROVE Alloc!AllocInit
  OBVIOUS
<1>1. FreePorts = PortMin .. PortMax
  <2>1. \A x \in FreePorts : x \in PortMin .. PortMax
    BY PortRangeAssumption DEF Init, FreePorts, Positions, Size
  <2>2. \A x \in PortMin .. PortMax : x = PortMin + (x - PortMin) /\ x - PortMin \in data
    BY PortRangeAssumption DEF Init, Positions, Size
  <2>3. \A x \in PortMin .. PortMax : x \in FreePorts
    BY <2>2 DEF FreePorts
  <2> QED
    BY <2>1, <2>3
<1>2. Held = [c \in Clients |-> {}]
  BY DEF Init, Held, Span, NoRange
<1> QED
  BY <1>1, <1>2 DEF Held, Alloc!AllocInit, Alloc!Ports

LEMMA SearchStutters ==
    ASSUME UNCHANGED <<data, start, rng>>
    PROVE  UNCHANGED Alloc!allocVars
<1>1. FreePorts' = FreePorts
  BY DEF FreePorts
<1>2. Held' = Held
  BY DEF Held, Span, NoRange
<1> QED
  BY <1>1, <1>2 DEF Held, Alloc!allocVars

LEMMA CommitTakes == Inv /\ Commit => Alloc!AllocNext
<1> SUFFICES ASSUME Inv, Commit PROVE Alloc!AllocNext
  OBVIOUS
<1> USE SizeNat, PortRangeAssumption
<1>0. PICK w \in Clients, lo \in Nat, hi \in Nat :
          w = who /\ lo = bStart /\ hi = bStart + count - 1
  BY MaxCountAssumption DEF Inv, TypeOK, Candidate, Commit
<1>1. /\ rng[w] = NoRange
      /\ lo <= hi /\ hi <= Size - 1
      /\ \A i \in lo .. hi : i \in data
  BY <1>0, MaxCountAssumption DEF Inv, TypeOK, Candidate, Commit
<1>2. /\ data' = data \ (lo .. hi)
      /\ rng' = [rng EXCEPT ![w] = <<PortMin + lo, PortMin + hi>>]
  BY <1>0 DEF Commit
<1> DEFINE b == (PortMin + lo) .. (PortMin + hi)
<1>3. b \in Alloc!Blocks
  <2>1. PortMin + lo \in PortMin .. PortMax /\ PortMin + hi \in PortMin .. PortMax
    BY <1>1 DEF Size
  <2>2. PortMin + lo \in b
    BY <1>1
  <2>3. \E s \in PortMin .. PortMax, e \in PortMin .. PortMax : b = s .. e
    BY <2>1
  <2>4. b # {}
    BY <2>2
  <2> HIDE DEF b
  <2> QED
    BY <2>3, <2>4 DEF Alloc!Blocks, Alloc!Ports
<1>4. TypeOK' /\ TypeOK
  BY CommitInv DEF Inv
<1>5. b \subseteq FreePorts
  BY <1>1, <1>4, FreePortsIff DEF TypeOK
<1>6. FreePorts' = FreePorts \ b
  <2>1. \A i \in data : i \in Int
    BY <1>4 DEF TypeOK, Positions
  <2> QED
    BY <1>1, <1>2, <2>1 DEF FreePorts
<1>7. /\ Held[w] = {}
      /\ Held' = [Held EXCEPT ![w] = b]
  <2>1. rng'[w] = <<PortMin + lo, PortMin + hi>> /\ \A d \in Clients \ {w} : rng'[d] = rng[d]
    BY <1>2, <1>4 DEF TypeOK
  <2>2. Span(w)' = b /\ Span(w) = {} /\ \A d \in Clients \ {w} : Span(d)' = Span(d)
    BY <1>1, <2>1 DEF Span, NoRange
  <2> QED
    BY <2>2 DEF Held
<1>8. Alloc!Take(w, b)
  BY <1>5, <1>6, <1>7 DEF Alloc!Take, Held
<1> QED
  BY <1>3, <1>8 DEF Alloc!AllocNext

LEMMA ReleaseGives ==
    ASSUME Inv, NEW c \in Clients, ReleaseRange(c)
    PROVE  Alloc!AllocNext
<1> USE SizeNat, PortRangeAssumption
<1>1. PICK lo \in PortMin .. PortMax, hi \in PortMin .. PortMax :
          lo = rng[c][1] /\ hi = rng[c][2]
  BY DEF Inv, TypeOK, ReleaseRange
<1>2. /\ Span(c) = lo .. hi /\ lo <= hi
      /\ data' = data \cup ((lo - PortMin) .. (hi - PortMin))
      /\ rng' = [rng EXCEPT ![c] = NoRange]
  BY <1>1 DEF Inv, SpansOrdered, ReleaseRange, Span
<1>3. FreePorts' = FreePorts \cup (lo .. hi)
  <2>1. \A i \in data : i \in Int
    BY DEF Inv, TypeOK, Positions
  <2>2. data \in SUBSET Positions /\ data' \in SUBSET Positions
    BY ReleaseInv DEF Inv, TypeOK, Positions
  <2>3. \A x \in FreePorts' : x \in FreePorts \cup (lo .. hi)
    BY <1>2, <2>1 DEF FreePorts
  <2>4. \A x \in FreePorts : x \in FreePorts'
    BY <1>2 DEF FreePorts
  <2>5. \A x \in lo .. hi : x = PortMin + (x - PortMin) /\ x - PortMin \in data'
    BY <1>2
  <2>6. \A x \in lo .. hi : x \in FreePorts'
    BY <2>5 DEF FreePorts
  <2> QED
    BY <2>3, <2>4, <2>6
<1>4. /\ Held[c] = lo .. hi /\ Held[c] # {}
      /\ Held' = [Held EXCEPT ![c] = {}]
  <2>1. rng'[c] = NoRange /\ \A d \in Clients \ {c} : rng'[d] = rng[d]
    BY <1>2 DEF Inv, TypeOK
  <2>2. Span(c)' = {} /\ \A d \in Clients \ {c} : Span(d)' = Span(d)
    BY <2>1 DEF Span, NoRange
  <2>3. Held[c] = lo .. hi /\ lo \in lo .. hi
    BY <1>2 DEF Held
  <2>4. Held' = [Held EXCEPT ![c] = {}]
    BY <2>2 DEF Held
  <2> QED
    BY <2>3, <2>4
<1>5. Alloc!Give(c)
  BY <1>3, <1>4 DEF Alloc!Give, Held
<1> QED
  BY <1>5 DEF Alloc!AllocNext

LEMMA NextRefines == Inv /\ [Next]_vars => [Alloc!AllocNext]_(Alloc!allocVars)
<1> SUFFICES ASSUME Inv, [Next]_vars PROVE Alloc!AllocNext \/ UNCHANGED Alloc!allocVars
  OBVIOUS
<1>1. CASE UNCHANGED vars
  BY <1>1, SearchStutters DEF vars
<1>2. CASE \E c \in Clients, n \in 1 .. MaxCount : AllocateRange(c, n)
  BY <1>2, SearchStutters DEF AllocateRange
<1>3. CASE FindFirst \/ FindAdjacent \/ FindGap \/ FindExhausted
  BY <1>3, SearchStutters DEF FindFirst, FindAdjacent, FindGap, FindExhausted
<1>4. CASE Commit
  BY <1>4, CommitTakes
<1>5. CASE \E c \in Clients : ReleaseRange(c)
  BY <1>5, ReleaseGives
<1> QED
  BY <1>1, <1>2, <1>3, <1>4, <1>5 DEF Next, Find

(* The bitmap and its cursor search implement the abstract allocator: a    *)
(* block is handed out only while all of its ports are free, whole and to  *)
(* a client without one, and comes back whole.                             *)
(* (bitmap.go AllocateRange, findAt, ReleaseRange)                         *)
THEOREM Refinement == Spec => ImplementsAllocator
  BY InitRefines, Invariant, NextRefines, PTL DEF Spec, ImplementsAllocator, Alloc!AllocSpec

-----------------------------------------------------------------------------
(* What a search may have missed.                                          *)

(* Where the running findAt began.                                         *)
From == IF pc = "cursor" THEN start ELSE 0

(* A run longer than the block asked for is never behind the search: it    *)
(* begins at most one position before the candidate, or before the         *)
(* iterator when there is no candidate.                                    *)
Skipped ==
    pc # "idle" =>
        \A s \in Positions :
            (From <= s /\ \A i \in s .. (s + count) : i \in data) =>
                /\ last = -1 => s >= iter - 1
                /\ last >= 0 => s >= bStart - 1

(* A search for one port stops at the first free position.                 *)
Single == pc # "idle" /\ count = 1 /\ remains = 1 => last = -1 /\ iter = From

Forward == pc = "cursor" => iter >= start /\ (last >= 0 => bStart >= start)

(* The second pass runs only after the first found nothing.                *)
FirstPass == pc = "bottom" => ~FreeRun(SureRun(count), start)

SearchInv == Skipped /\ Single /\ Forward /\ FirstPass

LEMMA FindFirstSearch == Inv /\ SearchInv /\ FindFirst => SearchInv'
<1> SUFFICES ASSUME Inv, SearchInv, FindFirst PROVE SearchInv'
  OBVIOUS
<1> USE SizeNat, MaxCountAssumption
<1> DEFINE x == NextOf(iter)
<1>1. /\ x \in Nat /\ iter <= x
      /\ \A y \in data : y >= iter => x <= y
  BY NextOfLeast DEF Inv, TypeOK, FindFirst
<1>2. /\ pc # "idle" /\ last = -1
      /\ last' = x /\ bStart' = x /\ iter' = x + 1 /\ remains' = remains - 1
      /\ UNCHANGED <<data, start, rng, pc, who, count>>
  BY DEF FindFirst, Inv, TypeOK
<1> HIDE DEF x
<1>3. /\ count \in Nat /\ count >= 1 /\ remains = count
      /\ iter \in Nat /\ start \in Nat
  BY <1>2 DEF Inv, TypeOK, Candidate
<1>4. From' = From
  BY <1>2 DEF From
<1>5. Skipped'
  <2> SUFFICES ASSUME NEW s \in Positions, From <= s, \A i \in s .. (s + count) : i \in data
               PROVE  s >= x - 1
    BY <1>1, <1>2, <1>4 DEF Skipped, Positions
  <2>1. s >= iter - 1 /\ s \in Nat
    BY <1>2 DEF SearchInv, Skipped, Positions
  <2>2. s \in data /\ s + 1 \in data
    BY <1>3, <2>1
  <2>3. x <= s + 1
    BY <1>1, <1>3, <2>1, <2>2
  <2> QED
    BY <1>1, <2>1, <2>3
<1>6. Single'
  BY <1>2, <1>3 DEF Single
<1>7. Forward'
  BY <1>1, <1>2, <1>3 DEF SearchInv, Forward
<1>8. FirstPass'
  BY <1>2 DEF SearchInv, FirstPass, FreeRun, SureRun, Size
<1> QED
  BY <1>5, <1>6, <1>7, <1>8 DEF SearchInv

LEMMA FindAdjacentSearch == Inv /\ SearchInv /\ FindAdjacent => SearchInv'
<1> SUFFICES ASSUME Inv, SearchInv, FindAdjacent PROVE SearchInv'
  OBVIOUS
<1> USE SizeNat, MaxCountAssumption
<1> DEFINE x == NextOf(iter)
<1>1. x \in Nat /\ iter <= x
  BY NextOfLeast DEF Inv, TypeOK, FindAdjacent
<1>2. /\ pc # "idle" /\ last >= 0 /\ remains > 0
      /\ last' = x /\ iter' = x + 1 /\ remains' = remains - 1
      /\ UNCHANGED <<data, start, rng, pc, who, count, bStart>>
  BY DEF FindAdjacent
<1> HIDE DEF x
<1>3. /\ count \in Nat /\ remains \in Nat /\ remains < count
      /\ iter \in Nat /\ start \in Nat
  BY <1>2 DEF Inv, TypeOK, Candidate
<1>4. From' = From
  BY <1>2 DEF From
<1>5. Skipped'
  BY <1>1, <1>2, <1>4 DEF SearchInv, Skipped, Positions, Size
<1>6. Single'
  BY <1>2, <1>3 DEF Single
<1>7. Forward'
  BY <1>1, <1>2, <1>3 DEF SearchInv, Forward
<1>8. FirstPass'
  BY <1>2 DEF SearchInv, FirstPass, FreeRun, SureRun, Size
<1> QED
  BY <1>5, <1>6, <1>7, <1>8 DEF SearchInv

(* A long run is behind a gap the search meets, not before it.             *)
LEMMA BehindGap ==
    ASSUME Inv, SearchInv, pc # "idle", HasNext(iter), remains > 0, last >= 0,
           NextOf(iter) - last > 1,
           NEW s \in Positions, From <= s, \A i \in s .. (s + count) : i \in data
    PROVE  s >= NextOf(iter)
<1> USE SizeNat
<1> DEFINE x == NextOf(iter)
<1>1. x \in Nat /\ \A y \in data : y >= iter => x <= y
  BY NextOfLeast DEF Inv, TypeOK
<1>2. x - last > 1
  OBVIOUS
<1> HIDE DEF x
<1>3. /\ count \in Nat /\ remains \in Nat /\ last \in Nat /\ bStart \in Nat /\ s \in Nat
      /\ iter = last + 1 /\ last = bStart + count - remains - 1
  BY DEF Inv, TypeOK, Candidate, Positions
<1>4. s >= bStart - 1
  BY DEF SearchInv, Skipped
<1>5. s + count >= iter
  BY <1>3, <1>4
<1>6. iter \notin data
  BY <1>1, <1>2, <1>3
<1>7. s > iter
  BY <1>3, <1>5, <1>6
<1>8. s \in data
  BY <1>3
<1>9. s >= x
  BY <1>1, <1>3, <1>7, <1>8
<1> QED
  BY <1>9 DEF x

(* The fact behind both properties: a findAt that gives up has no sure run *)
(* in front of its starting point.                                         *)
LEMMA GivesUpFragmented ==
    ASSUME Inv, SearchInv, pc # "idle", remains > 0,
           \/ ~HasNext(iter)
           \/ /\ HasNext(iter) /\ last >= 0 /\ NextOf(iter) - last > 1
              /\ ~HasNext(NextOf(iter) + 1)
    PROVE  ~FreeRun(SureRun(count), From)
<1> USE SizeNat, MaxCountAssumption
<1>1. /\ count \in Nat /\ count >= 1 /\ remains \in Nat /\ iter \in Nat
      /\ last \in Int /\ last >= -1 /\ bStart \in Nat /\ start \in Nat
      /\ last = -1 => remains = count
      /\ last >= 0 => iter = last + 1 /\ last = bStart + count - remains - 1
      /\ bStart <= last \/ last = -1
  BY DEF Inv, TypeOK, Candidate
<1>2. From \in Nat
  BY <1>1 DEF From
<1>3. CASE count = 1
  <2>1. remains = 1 /\ last = -1
    BY <1>1, <1>3
  <2>2. iter = From
    BY <1>3, <2>1 DEF SearchInv, Single
  <2>3. ~HasNext(From)
    BY <2>1, <2>2
  <2>4. \A y \in data : ~(y >= From)
    BY <2>3 DEF HasNext, Ahead
  <2> SUFFICES ASSUME NEW s \in From .. (Size - 1), s .. (s + 1 - 1) \subseteq data
               PROVE  FALSE
    BY <1>3 DEF FreeRun, SureRun
  <2>5. s \in Int /\ s \in s .. (s + 1 - 1) /\ s >= From
    BY <1>2
  <2> QED
    BY <2>4, <2>5
<1>4. CASE count # 1
  <2> SUFFICES ASSUME NEW s \in From .. (Size - (count + 1)),
                      s .. (s + (count + 1) - 1) \subseteq data
               PROVE  FALSE
    BY <1>4 DEF FreeRun, SureRun
  <2>1. s \in Positions /\ s \in Nat /\ From <= s
    BY <1>1, <1>2 DEF Positions
  <2>2. \A i \in s .. (s + count) : i \in data
    BY <1>1, <2>1
  <2>3. CASE ~HasNext(iter)
    <3>1. \A y \in data : ~(y >= iter)
      BY <2>3 DEF HasNext, Ahead
    <3>2. s + count \in data
      BY <1>1, <2>1, <2>2
    <3>3. (last = -1 => s >= iter - 1) /\ (last >= 0 => s >= bStart - 1)
      BY <2>1, <2>2 DEF SearchInv, Skipped
    <3>4. s + count >= iter
      BY <1>1, <2>1, <3>3
    <3> QED
      BY <3>1, <3>2, <3>4
  <2>4. CASE HasNext(iter)
    <3>0. last >= 0 /\ NextOf(iter) - last > 1 /\ ~HasNext(NextOf(iter) + 1)
      BY <2>4
    <3>1. s >= NextOf(iter) /\ NextOf(iter) \in Nat
      BY <2>1, <2>2, <2>4, <3>0, <1>1, BehindGap, NextOfLeast DEF Inv, TypeOK
    <3>2. \A y \in data : ~(y >= NextOf(iter) + 1)
      BY <3>0 DEF HasNext, Ahead
    <3>3. s + 1 \in data
      BY <1>1, <2>1, <2>2
    <3> QED
      BY <2>1, <3>1, <3>2, <3>3
  <2> QED
    BY <2>3, <2>4
<1> QED
  BY <1>3, <1>4

LEMMA NotFoundSearch ==
    ASSUME Inv, SearchInv, pc # "idle", ~FreeRun(SureRun(count), From),
           NotFound, UNCHANGED <<data, start, rng>>
    PROVE  SearchInv'
<1> USE SizeNat
<1>1. CASE pc = "bottom"
  BY <1>1 DEF NotFound, Return, SearchInv, Skipped, Single, Forward, FirstPass
<1>2. CASE pc = "cursor"
  <2>1. /\ pc' = "bottom" /\ iter' = 0 /\ last' = -1 /\ remains' = count
        /\ UNCHANGED <<data, start, count>>
    BY <1>2 DEF NotFound, BeginFind
  <2>2. From' = 0 /\ From = start
    BY <1>2, <2>1 DEF From
  <2>3. Skipped'
    BY <2>1 DEF Skipped, Positions, Size
  <2>4. Single' /\ Forward'
    BY <2>1, <2>2 DEF Single, Forward
  <2>5. FirstPass'
    BY <2>1, <2>2 DEF FirstPass, FreeRun, SureRun, Size
  <2> QED
    BY <2>3, <2>4, <2>5 DEF SearchInv
<1> QED
  BY <1>1, <1>2 DEF Inv, TypeOK

LEMMA FindGapSearch == Inv /\ SearchInv /\ FindGap => SearchInv'
<1> SUFFICES ASSUME Inv, SearchInv, FindGap PROVE SearchInv'
  OBVIOUS
<1> USE SizeNat, MaxCountAssumption
<1>1. CASE ~HasNext(NextOf(iter) + 1)
  BY <1>1, NotFoundSearch, GivesUpFragmented DEF FindGap
<1>2. CASE HasNext(NextOf(iter) + 1)
  <2> DEFINE x == NextOf(iter)
  <2>1. x \in Nat /\ iter <= x
    BY NextOfLeast DEF Inv, TypeOK, FindGap
  <2>2. /\ pc # "idle" /\ HasNext(iter) /\ last >= 0 /\ remains > 0 /\ NextOf(iter) - last > 1
        /\ iter' = x + 1 /\ last' = -1 /\ remains' = count
        /\ UNCHANGED <<data, start, rng, pc, who, count, bStart>>
    BY <1>2 DEF FindGap
  <2>3. \A s \in Positions :
            (From <= s /\ \A i \in s .. (s + count) : i \in data) => s >= x
    BY <2>2, BehindGap
  <2> HIDE DEF x
  <2>4. From' = From
    BY <2>2 DEF From
  <2>5. Skipped'
    BY <2>1, <2>2, <2>3, <2>4 DEF Skipped, Positions, Size
  <2>6. Single'
    BY <2>2 DEF Inv, TypeOK, Candidate, Single
  <2>7. Forward'
    BY <2>1, <2>2 DEF Inv, TypeOK, SearchInv, Forward
  <2>8. FirstPass'
    BY <2>2 DEF SearchInv, FirstPass, FreeRun, SureRun, Size
  <2> QED
    BY <2>5, <2>6, <2>7, <2>8 DEF SearchInv
<1> QED
  BY <1>1, <1>2

LEMMA NextSearch == Inv /\ SearchInv /\ [Next]_vars => SearchInv'
<1> SUFFICES ASSUME Inv, SearchInv, [Next]_vars PROVE SearchInv'
  OBVIOUS
<1> USE SizeNat
<1>1. CASE UNCHANGED vars
  BY <1>1 DEF vars, SearchInv, Skipped, Single, Forward, FirstPass, From, FreeRun, SureRun,
              Positions, Size
<1>2. ASSUME NEW c \in Clients, NEW n \in 1 .. MaxCount, AllocateRange(c, n)
      PROVE  SearchInv'
  BY <1>2 DEF Inv, TypeOK, AllocateRange, BeginFind, SearchInv, Skipped, Single, Forward,
              FirstPass, From, Positions, Size
<1>3. CASE FindExhausted
  BY <1>3, NotFoundSearch, GivesUpFragmented DEF FindExhausted
<1>4. CASE Commit
  BY <1>4 DEF Commit, Return, SearchInv, Skipped, Single, Forward, FirstPass
<1>5. ASSUME NEW c \in Clients, ReleaseRange(c)
      PROVE  SearchInv'
  BY <1>5 DEF ReleaseRange, SearchInv, Skipped, Single, Forward, FirstPass
<1> QED
  BY <1>1, <1>2, <1>3, <1>4, <1>5, FindFirstSearch, FindAdjacentSearch, FindGapSearch
     DEF Next, Find

(* Both halves of the invariant hold in every reachable state.             *)
(* (bitmap.go AllocateRange, findAt, ReleaseRange)                         *)
THEOREM SearchInvariant == Spec => [](Inv /\ SearchInv)
<1>1. Init => SearchInv
  BY DEF Init, SearchInv, Skipped, Single, Forward, FirstPass
<1> QED
  BY <1>1, InitInv, NextInv, NextSearch, PTL DEF Spec

(* A search whose candidate is complete succeeds: Commit changes rng.      *)
LEMMA CommitAssigns == Inv /\ Commit => rng' # rng
<1> SUFFICES ASSUME Inv, Commit, rng' = rng PROVE FALSE
  OBVIOUS
<1>1. /\ who \in Clients /\ rng[who] = <<0, 0>> /\ bStart \in Nat
  BY SizeNat DEF Inv, TypeOK, Candidate, Commit, NoRange
<1>2. rng'[who] = <<PortMin + bStart, PortMin + (bStart + count - 1)>>
  BY <1>1 DEF Inv, TypeOK, Commit
<1> QED
  BY <1>1, <1>2, PortRangeAssumption

LEMMA StepFragmented ==
    ASSUME Inv, SearchInv, [Next]_vars, Failed
    PROVE  ~FreeRun(SureRun(count), 0)
<1>1. pc # "idle" /\ pc' = "idle" /\ rng' = rng
  BY DEF Failed
<1>2. ~Commit
  BY <1>1, CommitAssigns
<1>3. FindGap \/ FindExhausted
  BY <1>1, <1>2 DEF Next, Find, vars, AllocateRange, ReleaseRange, FindFirst, FindAdjacent
<1>4. /\ remains > 0
      /\ \/ ~HasNext(iter)
         \/ /\ HasNext(iter) /\ last >= 0 /\ NextOf(iter) - last > 1
            /\ ~HasNext(NextOf(iter) + 1)
      /\ NotFound
  BY <1>1, <1>3 DEF FindGap, FindExhausted
<1>5. pc = "bottom"
  BY <1>1, <1>4 DEF NotFound
<1>6. ~FreeRun(SureRun(count), From)
  BY <1>1, <1>4, GivesUpFragmented
<1> QED
  BY <1>5, <1>6 DEF From

(* An allocation fails only if no run of count + 1 positions is free       *)
(* anywhere in the range, and one port is found whenever one is free: the  *)
(* position that the gap test consumes is all that the search can miss.    *)
(* (bitmap.go findAt, AllocateRange)                                       *)
THEOREM FailureMeansFragmented == Spec => FailsOnlyWhenFragmented
<1>1. Inv /\ SearchInv /\ [Next]_vars => [Failed => ~FreeRun(SureRun(count), 0)]_vars
  BY StepFragmented
<1> QED
  BY <1>1, SearchInvariant, PTL DEF Spec, FailsOnlyWhenFragmented

LEMMA StepReuse ==
    ASSUME Inv, SearchInv, [Next]_vars, Reused
    PROVE  ~FreeRun(SureRun(count), start)
<1>1. pc # "idle" /\ rng' # rng /\ bStart < start
  BY DEF Reused
<1>2. Commit
  BY <1>1 DEF Next, Find, vars, AllocateRange, ReleaseRange, FindFirst, FindAdjacent, FindGap,
              FindExhausted
<1>3. last >= 0
  BY <1>1, <1>2, SizeNat DEF Commit, Inv, TypeOK, Candidate
<1>4. pc # "cursor"
  BY <1>1, <1>3, SizeNat DEF SearchInv, Forward, Inv, TypeOK
<1> QED
  BY <1>1, <1>4 DEF Inv, TypeOK, SearchInv, FirstPass

(* "Avoid quick reuse after free": a block below the cursor is handed out  *)
(* only when no sure run is free above it.  (bitmap.go AllocateRange)      *)
THEOREM ReuseIsLastResort == Spec => NoQuickReuse
<1>1. Inv /\ SearchInv /\ [Next]_vars => [Reused => ~FreeRun(SureRun(count), start)]_vars
  BY StepReuse
<1> QED
  BY <1>1, SearchInvariant, PTL DEF Spec, NoQuickReuse

-----------------------------------------------------------------------------
(* A call returns.                                                         *)

(* The loop iterations a call of AllocateRange has left at most: those of  *)
(* the pass that runs and, in the first pass, those of the second.         *)
LoopsLeft ==
    IF pc = "idle" THEN 0
    ELSE (IF pc = "cursor" THEN Size + 2 ELSE 0) + (Size - iter) + 1

(* Every step while Bitmap.lock is held is an iteration that uses one up.  *)
LoopsDecrease == [][pc # "idle" => LoopsLeft' < LoopsLeft]_vars

LEMMA LoopsLeftBound == Inv => LoopsLeft \in 0 .. (2 * Size + 3)
  BY SizeNat DEF Inv, TypeOK, LoopsLeft

LEMMA IteratorAdvances ==
    ASSUME Inv, pc # "idle", HasNext(iter), iter' = NextOf(iter) + 1, pc' = pc
    PROVE  LoopsLeft' < LoopsLeft
<1>1. iter \in Nat /\ NextOf(iter) \in Nat /\ iter <= NextOf(iter)
  BY NextOfLeast DEF Inv, TypeOK
<1> QED
  BY <1>1, SizeNat DEF LoopsLeft, Size

LEMMA PassEnds ==
    ASSUME Inv, pc # "idle", NotFound
    PROVE  LoopsLeft' < LoopsLeft
<1>1. iter \in 0 .. Size /\ pc \in {"cursor", "bottom"}
  BY DEF Inv, TypeOK
<1>2. CASE pc = "cursor"
  <2>1. pc' = "bottom" /\ iter' = 0
    BY <1>2 DEF NotFound, BeginFind
  <2> QED
    BY <1>1, <1>2, <2>1, SizeNat DEF LoopsLeft, Size
<1>3. CASE pc = "bottom"
  <2>1. pc' = "idle"
    BY <1>3 DEF NotFound, Return
  <2> QED
    BY <1>1, <1>3, <2>1, SizeNat DEF LoopsLeft, Size
<1> QED
  BY <1>1, <1>2, <1>3

LEMMA FindDecreases ==
    ASSUME Inv, pc # "idle", Next
    PROVE  LoopsLeft' < LoopsLeft
<1>1. CASE FindFirst
  BY <1>1, IteratorAdvances DEF FindFirst
<1>2. CASE FindAdjacent
  BY <1>2, IteratorAdvances DEF FindAdjacent
<1>3. CASE FindGap
  BY <1>3, IteratorAdvances, PassEnds DEF FindGap
<1>4. CASE FindExhausted
  BY <1>4, PassEnds DEF FindExhausted
<1>5. CASE Commit
  <2>1. pc' = "idle" /\ iter \in 0 .. Size /\ pc \in {"cursor", "bottom"}
    BY <1>5 DEF Commit, Return, Inv, TypeOK
  <2> QED
    BY <2>1, SizeNat DEF LoopsLeft, Size
<1> QED
  BY <1>1, <1>2, <1>3, <1>4, <1>5 DEF Next, Find, AllocateRange, ReleaseRange

(* Every step while a call holds Bitmap.lock is a loop iteration of that   *)
(* call, and uses up one of at most 2 * Size + 3: neither the restart      *)
(* behind a gap nor the second pass from the bottom (bitmap.go:80-95) can  *)
(* make the search go round, for any range and any pattern of free ports.  *)
THEOREM SearchTerminates == Spec => [](LoopsLeft \in 0 .. (2 * Size + 3)) /\ LoopsDecrease
<1>1. Inv /\ [Next]_vars => [pc # "idle" => LoopsLeft' < LoopsLeft]_vars
  BY FindDecreases
<1> QED
  BY <1>1, LoopsLeftBound, Invariant, PTL DEF Spec, LoopsDecrease

=============================================================================
