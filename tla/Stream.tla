------------------------------- MODULE Stream -------------------------------
(***************************************************************************)
(* What `left | right` promises its two programs: the bytes arrive in the  *)
(* order in which they were accepted, none twice and none invented; at     *)
(* most Capacity of them are under way; and the reader is told the end     *)
(* only after the writer has gone and everything has been read.            *)
(***************************************************************************)
EXTENDS Naturals, Sequences

CONSTANT Capacity

VARIABLES
    sent,       \* bytes accepted from the writer
    received,   \* bytes handed to the reader
    closed,     \* the writer is gone
    ended       \* the reader has been told the end

Init == sent = <<>> /\ received = <<>> /\ closed = TRUE /\ ended = FALSE

Open ==
    /\ closed
    /\ sent' = <<>> /\ received' = <<>> /\ closed' = FALSE /\ ended' = FALSE

Write ==
    /\ ~closed
    /\ \E n \in 1 .. Capacity :
          /\ Len(sent') = Len(sent) + n
          /\ SubSeq(sent', 1, Len(sent)) = sent
          /\ Len(sent') - Len(received) <= Capacity
    /\ UNCHANGED <<received, closed, ended>>

Read ==
    /\ \E n \in Len(received) + 1 .. Len(sent) : received' = SubSeq(sent, 1, n)
    /\ UNCHANGED <<sent, closed, ended>>

Close == ~closed /\ closed' = TRUE /\ UNCHANGED <<sent, received, ended>>

End == closed /\ received = sent /\ ended' = TRUE /\ UNCHANGED <<sent, received, closed>>

Next == Open \/ Write \/ Read \/ Close \/ End

Spec == Init /\ [][Next]_<<sent, received, closed, ended>>
=============================================================================
