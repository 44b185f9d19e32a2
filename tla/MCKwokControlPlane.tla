------------------------- MODULE MCKwokControlPlane -------------------------
(* KwokControlPlane on small instances. *)
EXTENDS KwokControlPlane, TLC
=============================================================================
