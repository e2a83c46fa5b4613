---------------------------- MODULE MCWriteBack ----------------------------
(* TLC instances of WriteBack. *)
EXTENDS WriteBack
============================================================================
