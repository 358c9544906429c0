--------------------------- MODULE PortAllocator ---------------------------
(***************************************************************************)
(* What the process manager needs from its port allocator, independently   *)
(* of how free ports are searched: a client (a process object) holds at    *)
(* most one block of consecutive ports, a block is handed out only while   *)
(* all of its ports are free, and it comes back whole.  An allocation may  *)
(* also fail, which changes nothing.                                       *)
(*                                                                         *)
(* PortBitmap implements this specification; ProcessManager uses it as its *)
(* allocator.                                                              *)
(***************************************************************************)
EXTENDS Integers

CONSTANTS
    Clients,    \* who may hold ports: process objects
    PortMin,    \* Manager.portRangeMin
    PortMax     \* Manager.portRangeMax, included in the range

VARIABLES
    free,       \* the ports nobody holds
    held        \* held[c]: the block of ports client c holds, {} if none

allocVars == <<free, held>>

Ports == PortMin .. PortMax

(* The blocks of consecutive ports inside the range.                       *)
Blocks == {s .. e : s, e \in Ports} \ {{}}

AllocTypeOK ==
    /\ free \in SUBSET Ports
    /\ held \in [Clients -> SUBSET Ports]

AllocInit ==
    /\ free = Ports
    /\ held = [c \in Clients |-> {}]

(* Client c obtains block b.                                               *)
Take(c, b) ==
    /\ held[c] = {}
    /\ b \subseteq free
    /\ free' = free \ b
    /\ held' = [held EXCEPT ![c] = b]

(* Client c returns its whole block.                                       *)
Give(c) ==
    /\ held[c] # {}
    /\ free' = free \cup held[c]
    /\ held' = [held EXCEPT ![c] = {}]

AllocNext ==
    \E c \in Clients :
        \/ \E b \in Blocks : Take(c, b)
        \/ Give(c)

AllocSpec == AllocInit /\ [][AllocNext]_allocVars

-----------------------------------------------------------------------------
(* No port is lost and none is in two hands: a port is free, or held by    *)
(* exactly one client.  (bitmap AllocateRange / ReleaseRange)              *)
PortsConserved ==
    /\ \A c \in Clients : held[c] \cap free = {}
    /\ \A c, d \in Clients : c # d => held[c] \cap held[d] = {}
    /\ \A x \in Ports : x \in free \/ \E c \in Clients : x \in held[c]

=============================================================================
