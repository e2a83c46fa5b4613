------------------------------ MODULE FramePool ------------------------------
(***************************************************************************)
(* What the physical frame allocator promises: a set of free frames.  An   *)
(* allocation answers the lowest run that fits (the highest one when it    *)
(* hands out from above) and fails only if no run fits, or if an aligned   *)
(* run would need a range the table has no room for.  A returned frame is  *)
(* free again unless the table is full and no neighbour of it is free.     *)
(***************************************************************************)
EXTENDS Naturals, FiniteSetsExt

CONSTANTS
    Frames,     \* the frame numbers there are
    NoFrame,    \* the answer of a failed allocation
    Counts,     \* lengths of contiguous allocations
    Alignments  \* their alignments

VARIABLES
    free,       \* frames that can be handed out
    held,       \* frames in the hands of callers
    lost,       \* frames nobody has any more
    full,       \* the table of ranges is full
    high,       \* handing out from above
    answer      \* the first frame of the last allocation, or NoFrame

Run(f, n) == f .. f + n - 1
Fitting(n, align) == {f \in Frames : f % align = 0 /\ Run(f, n) \subseteq free}

Init == free = {} /\ held = {} /\ lost = {} /\ high = FALSE /\ answer = NoFrame

\* Frames that belonged to nobody become free.
Contribute ==
    /\ free \subseteq free' /\ free' \cap (held \cup lost) = {}
    /\ UNCHANGED <<held, lost, high, answer>>

Allocate(n, align) ==
    /\ \/ /\ Fitting(n, align) # {}
          /\ answer' = IF high THEN Max(Fitting(n, align)) ELSE Min(Fitting(n, align))
          /\ free' = free \ Run(answer', n)
          /\ held' = held \cup Run(answer', n)
       \/ /\ Fitting(n, align) = {} \/ (full /\ align > 1)
          /\ answer' = NoFrame
          /\ UNCHANGED <<free, held>>
    /\ UNCHANGED <<lost, high>>

Return(f) ==
    /\ held' = held \ {f}
    /\ \/ free' = free \cup {f} /\ UNCHANGED lost
       \/ full /\ {f - 1, f + 1} \cap free = {} /\ lost' = lost \cup {f} /\ UNCHANGED free
    /\ UNCHANGED <<high, answer>>

HandOutHighFirst == ~high /\ high' = TRUE /\ UNCHANGED <<free, held, lost, answer>>

Next ==
    \/ Contribute
    \/ \E n \in Counts \cup {1}, align \in Alignments \cup {1} : Allocate(n, align)
    \/ \E f \in held : Return(f)
    \/ HandOutHighFirst

Spec == Init /\ [][Next]_<<free, held, lost, high, answer>>
=============================================================================
