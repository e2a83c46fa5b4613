----------------------------- MODULE MCSession -----------------------------
(* TLC instances of Session. *)
EXTENDS Session

\* Ctrl+C, the left arrow, and Pause, whose codes hold one of a Ctrl key.
MCKeys == {<<"ctrl+", "c+", "ctrl-">>, <<"E0", "left+">>, <<"E1", "ctrl+">>}

\* A program in the shell, and the detached program alone.
MCMaxDepth == [main |-> 2, child |-> 1]

\* A time of less than a tick, and one whose nanoseconds are out of range.
MCDurations == {[sec |-> 0, nsec |-> 1], [sec |-> 0, nsec |-> 4]}
============================================================================
