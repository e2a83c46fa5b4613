-------------------------- MODULE MCSpawnAccounting --------------------------
(* The accounting of spawn on two slots with a handful of frames. *)
EXTENDS SpawnAccounting
=============================================================================
