-------------------------- MODULE MCProcessManager --------------------------
(* Small instances of the process manager.  All process objects bear the   *)
(* same name, so that they compete for it.                                 *)
EXTENDS ProcessManager, TLC

MCNameOf == [p \in Procs |-> CHOOSE n \in Names : TRUE]

Symmetry == Permutations(Callers)

(* Single ports are interchangeable: it is enough to hand out the lowest.  *)
LowestPort == \A i \in free \ free', j \in free : i <= j
=============================================================================
