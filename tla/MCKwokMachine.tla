--------------------------- MODULE MCKwokMachine ---------------------------
(* KwokMachine on small instances. *)
EXTENDS KwokMachine, TLC
=============================================================================
