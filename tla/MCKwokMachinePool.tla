------------------------- MODULE MCKwokMachinePool -------------------------
(* KwokMachinePool on small instances. *)
EXTENDS KwokMachinePool, TLC

CONSTANTS p1, p2

\* As in the cluster template: a pool bears the name of its MachinePool.
SameNames == [p \in Pools |-> p]

\* As in the controller's tests: it bears another.
OtherNames == [p \in Pools |-> IF p = p1 THEN p2 ELSE p1]
=============================================================================
