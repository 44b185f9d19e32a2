---------------------------- MODULE MCKwokConfig ----------------------------
(* KwokConfig on small instances. *)
EXTENDS KwokConfig, TLC
=============================================================================
