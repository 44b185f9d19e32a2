-------------------------- MODULE MCKwokHeartbeat --------------------------
(* KwokHeartbeat on small instances. *)
EXTENDS KwokHeartbeat, TLC

Symmetry == Permutations(Machines)
=============================================================================
