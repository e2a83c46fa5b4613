---------------------------- MODULE MCExcursion ----------------------------
(* TLC instance of Excursion. *)
EXTENDS Excursion
============================================================================
