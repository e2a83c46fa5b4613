-------------------------- MODULE MCTlbQuarantine --------------------------
(* TLC instances of TlbQuarantine. *)
EXTENDS TlbQuarantine, TLC

CONSTANTS c0, c1, c2, f1, f2, f3, none

\* The application processors and the frames are interchangeable.
Symmetry == Permutations({c1, c2}) \union Permutations({f1, f2})
============================================================================
