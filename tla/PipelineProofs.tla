--------------------------- MODULE PipelineProofs ---------------------------
(***************************************************************************)
(* `left | right` for every ring size, every number of children and every  *)
(* number of bytes: the pipe counts its holders, no wake-up is lost, a     *)
(* wait answers for its own child, and the pipeline implements the byte    *)
(* stream of module Stream.                                                *)
(*                                                                         *)
(* The invariant is built up in layers.  Places says where the two tasks   *)
(* and the ends of the pipe can be; Accounts, over Places, which ends the  *)
(* pipe counts; NoLostWakeUp follows from both; Endings, over Places,      *)
(* follows the ending of a child to the answer; Content, over Accounts,    *)
(* says what is in the ring.                                               *)
(***************************************************************************)
EXTENDS Pipeline, TLAPS

ChildPcs == {"none", "borrow", "spawn", "loading", "mapping", "entering", "left", "writing",
             "dropping", "unused", "report", "finish", "wake", "yield"}

Types ==
    /\ running \in {"main", "child", "idle"}
    /\ mstate \in {"Ready", "Child", "PipeReadable"}
    /\ mpc \in {"shell", "entry", "waiting", "right", "reading"}
    /\ cstate \in {"Uninitialized", "Ready", "PipeWritable", "Finished"}
    /\ cpc \in ChildPcs

\* Who runs can run, a task waits where it says, and until the child is in Ring 3 or
\* has ended the parent polls for it.
Control ==
    /\ running = "main" => mstate = "Ready"
    /\ running = "child" => cpc # "none" /\ cstate \in {"Ready", "Finished"}
    /\ mstate = "PipeReadable" => mpc = "reading"
    /\ mstate = "Child" => mpc = "waiting" /\ awaited = gen /\ (cpc # "none" => ~cif)
    /\ cstate = "PipeWritable" => cpc = "writing"
    /\ cstate = "Uninitialized" <=> cpc = "none"
    /\ cstate = "Finished" <=> cpc \in {"wake", "yield"}
    /\ cpc \in {"borrow", "spawn", "loading", "mapping", "entering"} => cif
    /\ cpc \in {"left", "writing"} => ~cif
    /\ cif /\ cpc # "none" /\ cstate # "Finished" => mpc = "entry"

\* The handle of the current child is in range.
Handles ==
    /\ awaited \in 0 .. MaxStarts /\ gen \in 0 .. MaxStarts
    /\ cpc # "none" => gen > 0

\* Where each end of the pipe can be.
Ends ==
    /\ right_stdin => mpc \in {"right", "reading"}
    /\ mpc = "reading" => right_stdin
    /\ cpc = "writing" => child_stdout
    /\ inherit_stdout => cpc \in {"spawn", "loading", "unused"}
    /\ child_stdout => cpc \in {"mapping", "entering", "left", "writing", "dropping"}

Places == Types /\ Control /\ Handles /\ Ends

----------------------------------------------------------------------------
\* pick_next chooses a task that can run, and not the child that yields.
LEMMA PickedCanRun ==
    ASSUME NEW c, NEW ms, NEW cs
    PROVE  /\ pick_next(c, ms, cs) \in {"main", "child", "idle"}
           /\ pick_next(c, ms, cs) = "main" => ms = "Ready"
           /\ pick_next(c, ms, cs) = "child" => cs = "Ready" /\ c # "child"
  BY Zenon DEF pick_next, Runnable

\* Every system call, tick and step of the detached task keeps the two tasks in step: until
\* the child is in Ring 3 or has ended the parent stays in its polling loop, and a task that
\* waits is where it says that it waits.
LEMMA PlacesStep ==
    ASSUME Places, Next
    PROVE  Places'
<1> USE BoundsAssumption
        DEF Places, Types, Control, Handles, Ends, ChildPcs, main_vars, child_vars, history
<1>1. CASE Tick
  BY <1>1, PickedCanRun DEF Tick, InterruptsOn
<1>2. ASSUME NEW to_pipe \in BOOLEAN, SpawnDetached(to_pipe) PROVE Places'
  BY <1>2 DEF SpawnDetached
<1>3. ASSUME NEW to_pipe \in BOOLEAN, SpawnDetachedRefused(to_pipe) PROVE Places'
  BY <1>3, Zenon DEF SpawnDetachedRefused, StartRefused
<1>4. CASE AwaitEntry
  BY <1>4, PickedCanRun DEF AwaitEntry, InExcursion
<1>5. CASE SpawnWithPipedStdin
  BY <1>5 DEF SpawnWithPipedStdin, Woken
<1>6. ASSUME NEW handle \in 1 .. MaxStarts, WaitChild(handle) PROVE Places'
  BY <1>6 DEF WaitChild, Woken
<1>7. CASE WaitForRing3Task
  BY <1>7, PickedCanRun DEF WaitForRing3Task, YieldFrom
<1>8. ASSUME NEW n \in Chunks, ReadFromPipe(n) PROVE Places'
  BY <1>8, PickedCanRun DEF ReadFromPipe, YieldFrom, Woken
<1>9. ASSUME NEW next \in {"right", "shell"}, CloseRightStdin(next) PROVE Places'
  BY <1>9, Zenon DEF CloseRightStdin, Woken
<1>10. CASE BorrowRequest
  BY <1>10, Zenon DEF BorrowRequest, ChildStep
<1>11. CASE SpawnFails
  BY <1>11, Zenon DEF SpawnFails, ChildStep
<1>12. CASE TakeAllocator
  BY <1>12, Zenon DEF TakeAllocator, ChildStep
<1>13. CASE AddressSpaceFails
  BY <1>13, Zenon DEF AddressSpaceFails, ChildStep
<1>14. CASE MakeFileTable
  BY <1>14, Zenon DEF MakeFileTable, ChildStep
<1>15. CASE MappingSucceeds
  BY <1>15, Zenon DEF MappingSucceeds, ChildStep, GiveBack
<1>16. CASE MappingFails
  BY <1>16, Zenon DEF MappingFails, ChildStep, GiveBack
<1>17. CASE EnterRing3
  BY <1>17, Zenon DEF EnterRing3, ChildStep
<1>18. ASSUME NEW n \in Chunks, WriteToPipe(n) PROVE Places'
  BY <1>18, PickedCanRun DEF WriteToPipe, YieldFrom, Woken
<1>19. CASE CloseStdout
  BY <1>19, Zenon DEF CloseStdout, ReturnWriteEnd, Woken
<1>20. ASSUME NEW to_pipe \in BOOLEAN, LeftSpawnsDetached(to_pipe) PROVE Places'
  BY <1>20, Zenon DEF LeftSpawnsDetached, StartRefused
<1>21. CASE ExitLeft
  BY <1>21, Zenon DEF ExitLeft, ChildStep
<1>22. CASE DropFileTable
  BY <1>22 DEF DropFileTable, ReturnWriteEnd, Woken
<1>23. CASE ReturnUnusedStdout
  BY <1>23, Zenon DEF ReturnUnusedStdout, ReturnWriteEnd, Woken
<1>24. CASE ReportStatus
  BY <1>24, Zenon DEF ReportStatus, ChildStep
<1>25. CASE SetFinished
  BY <1>25, Zenon DEF SetFinished, ChildStep
<1>26. CASE WakeParent
  BY <1>26, Zenon DEF WakeParent, Woken
<1>27. CASE YieldForGood
  BY <1>27, PickedCanRun, Zenon DEF YieldForGood, ChildStep
<1> HIDE DEF Places
<1> QED
  BY <1>1, <1>2, <1>3, <1>4, <1>5, <1>6, <1>7, <1>8, <1>9, <1>10, <1>11, <1>12, <1>13, <1>14,
     <1>15, <1>16, <1>17, <1>18, <1>19, <1>20, <1>21, <1>22, <1>23, <1>24, <1>25, <1>26, <1>27, Zenon
     DEF Next, MainNext, ChildNext, CloseStdin, ExitRight

----------------------------------------------------------------------------
\* The fields of a pipe slot.
Fields == {"ring", "readers", "writers", "reserved_reader", "in_use"}

\* PipeAccounting, with the flags compared as truth values.
Accounts ==
    /\ DOMAIN pipe = Fields
    /\ pipe.writers = IF WriteEndHeld THEN 1 ELSE 0
    /\ pipe.readers = IF right_stdin THEN 1 ELSE 0
    /\ pipe.reserved_reader <=> pending_stdin
    /\ pipe.in_use <=> WriteEndHeld \/ right_stdin \/ pending_stdin

\* The flags of the slot and of the shell's side table are truth values.
Flags(p) == p.reserved_reader \in BOOLEAN /\ p.in_use \in BOOLEAN

\* A slot that is not in use has no ends.
LEMMA EmptyFields ==
    /\ DOMAIN EmptyPipe = Fields
    /\ EmptyPipe.ring = EmptyRing /\ EmptyPipe.writers = 0 /\ EmptyPipe.readers = 0
    /\ ~EmptyPipe.reserved_reader /\ ~EmptyPipe.in_use
  BY Zenon DEF EmptyPipe, Fields

\* pipe::create with a reservation.
LEMMA Created ==
    /\ DOMAIN create(TRUE) = Fields
    /\ create(TRUE).ring = EmptyRing /\ create(TRUE).writers = 1 /\ create(TRUE).readers = 0
    /\ create(TRUE).reserved_reader /\ create(TRUE).in_use
  BY EmptyFields, Zenon DEF create, Fields

\* claim_reserved_reader turns the reservation into the one read end.
LEMMA Claimed ==
    ASSUME NEW p, DOMAIN p = Fields, p.readers = 0
    PROVE  LET q == claim_reserved_reader(p) IN
           /\ DOMAIN q = Fields /\ q.readers = 1 /\ ~q.reserved_reader
           /\ q.writers = p.writers /\ (q.in_use <=> p.in_use) /\ q.ring = p.ring
  BY DEF claim_reserved_reader, Fields

\* drop_reservation: the slot is released when no end is left, and keeps its bytes otherwise.
LEMMA Dropped ==
    ASSUME NEW p, DOMAIN p = Fields, p.in_use, p.reserved_reader
    PROVE  LET q == drop_reservation(p) IN
           /\ DOMAIN q = Fields /\ q.readers = p.readers /\ q.writers = p.writers
           /\ ~q.reserved_reader
           /\ (q.in_use <=> p.readers # 0 \/ p.writers # 0)
           /\ q.in_use => q.ring = p.ring
           /\ ~q.in_use => q = EmptyPipe
  BY EmptyFields, Zenon DEF drop_reservation, HasReservation, release_if_unused, Fields

\* close_read_end of the one read end.
LEMMA ReadEndClosed ==
    ASSUME NEW p, DOMAIN p = Fields, p.in_use, p.readers = 1
    PROVE  LET q == close_read_end(p) IN
           /\ DOMAIN q = Fields /\ q.readers = 0 /\ q.writers = p.writers
           /\ (q.reserved_reader <=> p.reserved_reader)
           /\ (q.in_use <=> p.writers # 0 \/ p.reserved_reader)
           /\ q.in_use => q.ring = p.ring
           /\ ~q.in_use => q = EmptyPipe
  BY EmptyFields DEF close_read_end, release_if_unused, Fields

\* close_write_end of the one write end.
LEMMA WriteEndClosed ==
    ASSUME NEW p, DOMAIN p = Fields, p.in_use, p.writers = 1
    PROVE  LET q == close_write_end(p) IN
           /\ DOMAIN q = Fields /\ q.readers = p.readers /\ q.writers = 0
           /\ (q.reserved_reader <=> p.reserved_reader)
           /\ (q.in_use <=> p.readers # 0 \/ p.reserved_reader)
           /\ q.in_use => q.ring = p.ring
           /\ ~q.in_use => q = EmptyPipe
  BY EmptyFields DEF close_write_end, release_if_unused, Fields

\* What start_detached made for a start that is refused is gone again.
LEMMA Refused == close_write_end(drop_reservation(create(TRUE))) = EmptyPipe
<1> DEFINE p == create(TRUE)
           q == drop_reservation(p)
<1>1. DOMAIN p = Fields /\ p.writers = 1 /\ p.readers = 0 /\ p.reserved_reader /\ p.in_use
  BY Created, Zenon
<1> HIDE DEF p
<1>2. DOMAIN q = Fields /\ q.readers = 0 /\ q.writers = 1 /\ ~q.reserved_reader /\ q.in_use
  BY <1>1, Dropped
<1> HIDE DEF q
<1>3. close_write_end(q) = EmptyPipe
  BY <1>2, WriteEndClosed, Zenon
<1> QED
  BY <1>3, Zenon DEF p, q

\* Every operation on a pipe leaves truth values in its flags.
LEMMA FlagsKept ==
    ASSUME NEW p, DOMAIN p = Fields, Flags(p)
    PROVE  /\ Flags(EmptyPipe) /\ Flags(create(TRUE))
           /\ Flags(drop_reservation(p)) /\ Flags(close_read_end(p)) /\ Flags(close_write_end(p))
           /\ DOMAIN claim_reserved_reader(p) = Fields /\ Flags(claim_reserved_reader(p))
<1>1. Flags(EmptyPipe)
  BY Zenon DEF EmptyPipe, Flags
<1>2. Flags(create(TRUE))
  BY Created, <1>1, Zenon DEF create, EmptyPipe, Flags
<1>3. Flags(drop_reservation(p))
  BY <1>1, Zenon DEF drop_reservation, release_if_unused, Flags, Fields
<1>4. Flags(close_read_end(p))
  BY <1>1, Zenon DEF close_read_end, release_if_unused, Flags, Fields
<1>5. Flags(close_write_end(p))
  BY <1>1, Zenon DEF close_write_end, release_if_unused, Flags, Fields
<1>6. DOMAIN claim_reserved_reader(p) = Fields /\ Flags(claim_reserved_reader(p))
  BY Zenon DEF claim_reserved_reader, Flags, Fields
<1> QED
  BY <1>1, <1>2, <1>3, <1>4, <1>5, <1>6, Zenon

\* Whoever takes over, returns or drops an end of the pipe moves exactly one count with it.
LEMMA AccountsStep ==
    ASSUME Places, Accounts, Next
    PROVE  Accounts'
<1> USE DEF Places, Types, Control, Ends, Accounts, WriteEndHeld, main_vars, child_vars, history
<1>1. CASE Tick
  BY <1>1, Zenon DEF Tick, InterruptsOn
<1>2. ASSUME NEW to_pipe \in BOOLEAN, SpawnDetached(to_pipe) PROVE Accounts'
  BY <1>2, Created, Zenon DEF SpawnDetached
<1>3. ASSUME NEW to_pipe \in BOOLEAN, SpawnDetachedRefused(to_pipe) PROVE Accounts'
  BY <1>3, Refused, EmptyFields, Zenon DEF SpawnDetachedRefused, StartRefused
<1>4. CASE AwaitEntry
  BY <1>4, Zenon DEF AwaitEntry
<1>5. CASE SpawnWithPipedStdin
  BY <1>5, Claimed, ReadEndClosed DEF SpawnWithPipedStdin, HasReservation
<1>6. ASSUME NEW handle \in 1 .. MaxStarts, WaitChild(handle) PROVE Accounts'
  BY <1>6, Dropped DEF WaitChild, HasReservation
<1>7. CASE WaitForRing3Task
  BY <1>7, Zenon DEF WaitForRing3Task, YieldFrom
<1>8. ASSUME NEW n \in Chunks, ReadFromPipe(n) PROVE Accounts'
  <2>1. /\ pipe' = pipe \/ pipe' = [pipe EXCEPT !.ring = take(pipe.ring, n)]
        /\ cpc' = cpc /\ request' = request /\ inherit_stdout' = inherit_stdout
        /\ child_stdout' = child_stdout /\ right_stdin' = right_stdin /\ pending_stdin' = pending_stdin
    BY <1>8, Zenon DEF ReadFromPipe
  <2>2. /\ DOMAIN pipe' = Fields /\ pipe'.readers = pipe.readers /\ pipe'.writers = pipe.writers
        /\ (pipe'.reserved_reader <=> pipe.reserved_reader) /\ (pipe'.in_use <=> pipe.in_use)
    BY <2>1, Zenon DEF Fields
  <2> QED
    BY <2>1, <2>2, Zenon
<1>9. ASSUME NEW next \in {"right", "shell"}, CloseRightStdin(next) PROVE Accounts'
  BY <1>9, ReadEndClosed DEF CloseRightStdin
<1>10. CASE BorrowRequest
  BY <1>10, Zenon DEF BorrowRequest, ChildStep
<1>11. CASE SpawnFails
  BY <1>11, Zenon DEF SpawnFails, ChildStep
<1>12. CASE TakeAllocator
  BY <1>12, Zenon DEF TakeAllocator, ChildStep
<1>13. CASE AddressSpaceFails
  BY <1>13, Zenon DEF AddressSpaceFails, ChildStep
<1>14. CASE MakeFileTable
  BY <1>14, Zenon DEF MakeFileTable, ChildStep
<1>15. CASE MappingSucceeds
  BY <1>15, Zenon DEF MappingSucceeds, ChildStep, GiveBack
<1>16. CASE MappingFails
  BY <1>16, Zenon DEF MappingFails, ChildStep, GiveBack
<1>17. CASE EnterRing3
  BY <1>17, Zenon DEF EnterRing3, ChildStep
<1>18. ASSUME NEW n \in Chunks, WriteToPipe(n) PROVE Accounts'
  <2>1. /\ \/ pipe' = pipe
           \/ pipe' = [pipe EXCEPT !.ring = put(pipe.ring, [k \in 1 .. n |-> Len(sent) + k])]
        /\ cpc \in {"left", "writing"} /\ cpc' \in {"left", "writing"}
        /\ request' = request /\ inherit_stdout' = inherit_stdout
        /\ child_stdout' = child_stdout /\ right_stdin' = right_stdin /\ pending_stdin' = pending_stdin
    BY <1>18, Zenon DEF WriteToPipe
  <2>2. /\ DOMAIN pipe' = Fields /\ pipe'.readers = pipe.readers /\ pipe'.writers = pipe.writers
        /\ (pipe'.reserved_reader <=> pipe.reserved_reader) /\ (pipe'.in_use <=> pipe.in_use)
    BY <2>1, Zenon DEF Fields
  <2> QED
    BY <2>1, <2>2, Zenon
<1>19. CASE CloseStdout
  BY <1>19, WriteEndClosed DEF CloseStdout, ReturnWriteEnd
<1>20. ASSUME NEW to_pipe \in BOOLEAN, LeftSpawnsDetached(to_pipe) PROVE Accounts'
  BY <1>20, Refused, EmptyFields, Zenon DEF LeftSpawnsDetached, StartRefused
<1>21. CASE ExitLeft
  BY <1>21, Zenon DEF ExitLeft, ChildStep
<1>22. CASE DropFileTable
  BY <1>22, WriteEndClosed DEF DropFileTable, ReturnWriteEnd
<1>23. CASE ReturnUnusedStdout
  BY <1>23, WriteEndClosed DEF ReturnUnusedStdout, ReturnWriteEnd
<1>24. CASE ReportStatus
  BY <1>24, Zenon DEF ReportStatus, ChildStep
<1>25. CASE SetFinished
  BY <1>25, Zenon DEF SetFinished, ChildStep
<1>26. CASE WakeParent
  BY <1>26, Zenon DEF WakeParent
<1>27. CASE YieldForGood
  BY <1>27, Zenon DEF YieldForGood, ChildStep
<1> HIDE DEF Accounts
<1> QED
  BY <1>1, <1>2, <1>3, <1>4, <1>5, <1>6, <1>7, <1>8, <1>9, <1>10, <1>11, <1>12, <1>13, <1>14,
     <1>15, <1>16, <1>17, <1>18, <1>19, <1>20, <1>21, <1>22, <1>23, <1>24, <1>25, <1>26, <1>27, Zenon
     DEF Next, MainNext, ChildNext, CloseStdin, ExitRight

\* The flags stay truth values.
LEMMA FlagsStep ==
    ASSUME DOMAIN pipe = Fields, Flags(pipe), pending_stdin \in BOOLEAN, Next
    PROVE  Flags(pipe') /\ pending_stdin' \in BOOLEAN
<1> USE DEF main_vars, child_vars, history
<1>1. CASE Tick
  BY <1>1, Zenon DEF Tick, InterruptsOn
<1>2. ASSUME NEW to_pipe \in BOOLEAN, SpawnDetached(to_pipe) PROVE Flags(pipe') /\ pending_stdin' \in BOOLEAN
  <2>1. /\ pending_stdin' = TRUE \/ pending_stdin' = pending_stdin
        /\ pipe' = create(TRUE) \/ pipe' = pipe
    BY <1>2, Zenon DEF SpawnDetached
  <2> QED
    BY <2>1, FlagsKept, Zenon
<1>3. ASSUME NEW to_pipe \in BOOLEAN, SpawnDetachedRefused(to_pipe) PROVE Flags(pipe') /\ pending_stdin' \in BOOLEAN
  <2>1. /\ pending_stdin' = pending_stdin
        /\ pipe' = EmptyPipe \/ pipe' = pipe
    BY <1>3, Refused, Zenon DEF SpawnDetachedRefused, StartRefused
  <2> QED
    BY <2>1, FlagsKept, Zenon
<1>4. CASE AwaitEntry
  BY <1>4, Zenon DEF AwaitEntry
<1>5. CASE SpawnWithPipedStdin
  <2>1. /\ pending_stdin' = FALSE
        /\ \/ pipe' = claim_reserved_reader(pipe)
           \/ pipe' = close_read_end(claim_reserved_reader(pipe))
    BY <1>5, Zenon DEF SpawnWithPipedStdin
  <2> QED
    BY <2>1, FlagsKept, Zenon
<1>6. ASSUME NEW handle \in 1 .. MaxStarts, WaitChild(handle) PROVE Flags(pipe') /\ pending_stdin' \in BOOLEAN
  <2>1. /\ pending_stdin' = FALSE
        /\ pipe' = drop_reservation(pipe) \/ pipe' = pipe
    BY <1>6, Zenon DEF WaitChild
  <2> QED
    BY <2>1, FlagsKept, Zenon
<1>7. CASE WaitForRing3Task
  BY <1>7, Zenon DEF WaitForRing3Task, YieldFrom
<1>8. ASSUME NEW n \in Chunks, ReadFromPipe(n) PROVE Flags(pipe') /\ pending_stdin' \in BOOLEAN
  <2>1. /\ pending_stdin' = pending_stdin
        /\ pipe' = [pipe EXCEPT !.ring = take(pipe.ring, n)] \/ pipe' = pipe
    BY <1>8, Zenon DEF ReadFromPipe
  <2> QED
    BY <2>1, Zenon DEF Flags, Fields
<1>9. ASSUME NEW next \in {"right", "shell"}, CloseRightStdin(next) PROVE Flags(pipe') /\ pending_stdin' \in BOOLEAN
  <2>1. /\ pending_stdin' = pending_stdin
        /\ pipe' = close_read_end(pipe) \/ pipe' = pipe
    BY <1>9, Zenon DEF CloseRightStdin
  <2> QED
    BY <2>1, FlagsKept, Zenon
<1>10. CASE BorrowRequest
  BY <1>10, Zenon DEF BorrowRequest, ChildStep
<1>11. CASE SpawnFails
  BY <1>11, Zenon DEF SpawnFails, ChildStep
<1>12. CASE TakeAllocator
  BY <1>12, Zenon DEF TakeAllocator, ChildStep
<1>13. CASE AddressSpaceFails
  BY <1>13, Zenon DEF AddressSpaceFails, ChildStep
<1>14. CASE MakeFileTable
  BY <1>14, Zenon DEF MakeFileTable, ChildStep
<1>15. CASE MappingSucceeds
  BY <1>15, Zenon DEF MappingSucceeds, ChildStep, GiveBack
<1>16. CASE MappingFails
  BY <1>16, Zenon DEF MappingFails, ChildStep, GiveBack
<1>17. CASE EnterRing3
  BY <1>17, Zenon DEF EnterRing3, ChildStep
<1>18. ASSUME NEW n \in Chunks, WriteToPipe(n) PROVE Flags(pipe') /\ pending_stdin' \in BOOLEAN
  <2>1. /\ pending_stdin' = pending_stdin
        /\ pipe' = pipe \/ pipe' = [pipe EXCEPT !.ring = put(pipe.ring, [k \in 1 .. n |-> Len(sent) + k])]
    BY <1>18, Zenon DEF WriteToPipe
  <2> QED
    BY <2>1, Zenon DEF Flags, Fields
<1>19. CASE CloseStdout
  <2>1. /\ pending_stdin' = pending_stdin
        /\ pipe' = close_write_end(pipe) \/ pipe' = pipe
    BY <1>19, Zenon DEF CloseStdout, ReturnWriteEnd
  <2> QED
    BY <2>1, FlagsKept, Zenon
<1>20. ASSUME NEW to_pipe \in BOOLEAN, LeftSpawnsDetached(to_pipe) PROVE Flags(pipe') /\ pending_stdin' \in BOOLEAN
  <2>1. /\ pending_stdin' = pending_stdin
        /\ pipe' = EmptyPipe \/ pipe' = pipe
    BY <1>20, Refused, Zenon DEF LeftSpawnsDetached, StartRefused
  <2> QED
    BY <2>1, FlagsKept, Zenon
<1>21. CASE ExitLeft
  BY <1>21, Zenon DEF ExitLeft, ChildStep
<1>22. CASE DropFileTable
  <2>1. /\ pending_stdin' = pending_stdin
        /\ pipe' = close_write_end(pipe) \/ pipe' = pipe
    BY <1>22, Zenon DEF DropFileTable, ReturnWriteEnd
  <2> QED
    BY <2>1, FlagsKept, Zenon
<1>23. CASE ReturnUnusedStdout
  <2>1. /\ pending_stdin' = pending_stdin
        /\ pipe' = close_write_end(pipe) \/ pipe' = pipe
    BY <1>23, Zenon DEF ReturnUnusedStdout, ReturnWriteEnd
  <2> QED
    BY <2>1, FlagsKept, Zenon
<1>24. CASE ReportStatus
  BY <1>24, Zenon DEF ReportStatus, ChildStep
<1>25. CASE SetFinished
  BY <1>25, Zenon DEF SetFinished, ChildStep
<1>26. CASE WakeParent
  BY <1>26, Zenon DEF WakeParent
<1>27. CASE YieldForGood
  BY <1>27, Zenon DEF YieldForGood, ChildStep
<1> QED
  BY <1>1, <1>2, <1>3, <1>4, <1>5, <1>6, <1>7, <1>8, <1>9, <1>10, <1>11, <1>12, <1>13, <1>14,
     <1>15, <1>16, <1>17, <1>18, <1>19, <1>20, <1>21, <1>22, <1>23, <1>24, <1>25, <1>26, <1>27, Zenon
     DEF Next, MainNext, ChildNext, CloseStdin, ExitRight

----------------------------------------------------------------------------
\* A step that gives a sleeper what it waits for wakes it, and nobody falls asleep on what
\* is already there: read_into and write_from look and go to sleep in one step, the last
\* close of the other end and a dropped reservation wake, and the parent sleeps only for a
\* child whose wake-up is still to come.
LEMMA WaitsStep ==
    ASSUME Places, Accounts, NoLostWakeUp, Next
    PROVE  NoLostWakeUp'
<1> USE DEF Places, Types, Control, Ends, Accounts, WriteEndHeld, NoLostWakeUp,
            main_vars, child_vars, history
<1>1. CASE Tick
  BY <1>1, PickedCanRun, Zenon DEF Tick, InterruptsOn
<1>2. ASSUME NEW to_pipe \in BOOLEAN, SpawnDetached(to_pipe) PROVE NoLostWakeUp'
  BY <1>2, Zenon DEF SpawnDetached
<1>3. ASSUME NEW to_pipe \in BOOLEAN, SpawnDetachedRefused(to_pipe) PROVE NoLostWakeUp'
  BY <1>3, Zenon DEF SpawnDetachedRefused, StartRefused
<1>4. CASE AwaitEntry
  BY <1>4, PickedCanRun, Zenon DEF AwaitEntry
<1>5. CASE SpawnWithPipedStdin
  BY <1>5, Claimed DEF SpawnWithPipedStdin, Woken, HasReservation, LastReaderCloses
<1>6. ASSUME NEW handle \in 1 .. MaxStarts, WaitChild(handle) PROVE NoLostWakeUp'
  BY <1>6, Zenon DEF WaitChild, Woken, HasReservation
<1>7. CASE WaitForRing3Task
  BY <1>7, PickedCanRun, Zenon DEF WaitForRing3Task, YieldFrom
<1>8. ASSUME NEW n \in Chunks, ReadFromPipe(n) PROVE NoLostWakeUp'
  BY <1>8, PickedCanRun DEF ReadFromPipe, YieldFrom, Woken, ReadOutcome
<1>9. ASSUME NEW next \in {"right", "shell"}, CloseRightStdin(next) PROVE NoLostWakeUp'
  BY <1>9, Zenon DEF CloseRightStdin, Woken, LastReaderCloses
<1>10. CASE BorrowRequest
  BY <1>10, Zenon DEF BorrowRequest, ChildStep
<1>11. CASE SpawnFails
  BY <1>11, Zenon DEF SpawnFails, ChildStep
<1>12. CASE TakeAllocator
  BY <1>12, Zenon DEF TakeAllocator, ChildStep
<1>13. CASE AddressSpaceFails
  BY <1>13, Zenon DEF AddressSpaceFails, ChildStep
<1>14. CASE MakeFileTable
  BY <1>14, Zenon DEF MakeFileTable, ChildStep
<1>15. CASE MappingSucceeds
  BY <1>15, Zenon DEF MappingSucceeds, ChildStep, GiveBack
<1>16. CASE MappingFails
  BY <1>16, Zenon DEF MappingFails, ChildStep, GiveBack
<1>17. CASE EnterRing3
  BY <1>17, Zenon DEF EnterRing3, ChildStep
<1>18. ASSUME NEW n \in Chunks, WriteToPipe(n) PROVE NoLostWakeUp'
  BY <1>18, PickedCanRun DEF WriteToPipe, YieldFrom, Woken, WriteOutcome
<1>19. CASE CloseStdout
  BY <1>19, Zenon DEF CloseStdout, ReturnWriteEnd, Woken, LastWriterCloses
<1>20. ASSUME NEW to_pipe \in BOOLEAN, LeftSpawnsDetached(to_pipe) PROVE NoLostWakeUp'
  BY <1>20, Zenon DEF LeftSpawnsDetached, StartRefused
<1>21. CASE ExitLeft
  BY <1>21, Zenon DEF ExitLeft, ChildStep
<1>22. CASE DropFileTable
  BY <1>22, Zenon DEF DropFileTable, ReturnWriteEnd, Woken, LastWriterCloses
<1>23. CASE ReturnUnusedStdout
  BY <1>23, Zenon DEF ReturnUnusedStdout, ReturnWriteEnd, Woken, LastWriterCloses
<1>24. CASE ReportStatus
  BY <1>24, Zenon DEF ReportStatus, ChildStep
<1>25. CASE SetFinished
  BY <1>25, Zenon DEF SetFinished, ChildStep
<1>26. CASE WakeParent
  BY <1>26, Zenon DEF WakeParent, Woken
<1>27. CASE YieldForGood
  BY <1>27, PickedCanRun, Zenon DEF YieldForGood, ChildStep
<1> HIDE DEF NoLostWakeUp
<1> QED
  BY <1>1, <1>2, <1>3, <1>4, <1>5, <1>6, <1>7, <1>8, <1>9, <1>10, <1>11, <1>12, <1>13, <1>14,
     <1>15, <1>16, <1>17, <1>18, <1>19, <1>20, <1>21, <1>22, <1>23, <1>24, <1>25, <1>26, <1>27, Zenon
     DEF Next, MainNext, ChildNext, CloseStdin, ExitRight

----------------------------------------------------------------------------
\* What is known of the ending of the current child.
Endings ==
    /\ ending \in [1 .. MaxStarts -> {"none", "failed", "exited"}]
    /\ answer \in Nat \X {"none", "failed", "exited"} /\ answer[1] <= gen
    /\ answer[1] = gen /\ gen # 0 => cpc = "none"
    /\ cpc \in {"borrow", "spawn", "loading", "mapping", "entering", "left", "writing"} => ~failed
    /\ cpc \in {"dropping", "unused", "report"} =>
           ending[gen] = IF failed THEN "failed" ELSE "exited"
    /\ cpc \in {"finish", "wake", "yield"} => status = <<gen, ending[gen]>>

\* The status a child files under its handle is its ending, and a wait takes the status only
\* from a finished child with the handle it was called with.
LEMMA EndingsStep ==
    ASSUME Control, Handles, Endings, AnswerIsTheChildsEnding, Next
    PROVE  Endings' /\ AnswerIsTheChildsEnding'
<1> USE BoundsAssumption
        DEF Control, Handles, Endings, AnswerIsTheChildsEnding, main_vars, child_vars, history, NoAnswer
<1>1. CASE Tick
  BY <1>1, Zenon DEF Tick, InterruptsOn
<1>2. ASSUME NEW to_pipe \in BOOLEAN, SpawnDetached(to_pipe) PROVE Endings' /\ AnswerIsTheChildsEnding'
  BY <1>2 DEF SpawnDetached
<1>3. ASSUME NEW to_pipe \in BOOLEAN, SpawnDetachedRefused(to_pipe) PROVE Endings' /\ AnswerIsTheChildsEnding'
  BY <1>3, Zenon DEF SpawnDetachedRefused, StartRefused
<1>4. CASE AwaitEntry
  BY <1>4, Zenon DEF AwaitEntry
<1>5. CASE SpawnWithPipedStdin
  BY <1>5, Zenon DEF SpawnWithPipedStdin
<1>6. ASSUME NEW handle \in 1 .. MaxStarts, WaitChild(handle) PROVE Endings' /\ AnswerIsTheChildsEnding'
  BY <1>6, Zenon DEF WaitChild
<1>7. CASE WaitForRing3Task
  BY <1>7 DEF WaitForRing3Task, YieldFrom
<1>8. ASSUME NEW n \in Chunks, ReadFromPipe(n) PROVE Endings' /\ AnswerIsTheChildsEnding'
  BY <1>8, Zenon DEF ReadFromPipe, YieldFrom
<1>9. ASSUME NEW next \in {"right", "shell"}, CloseRightStdin(next) PROVE Endings' /\ AnswerIsTheChildsEnding'
  BY <1>9, Zenon DEF CloseRightStdin
<1>10. CASE BorrowRequest
  BY <1>10, Zenon DEF BorrowRequest, ChildStep
<1>11. CASE SpawnFails
  BY <1>11 DEF SpawnFails, ChildStep
<1>12. CASE TakeAllocator
  BY <1>12, Zenon DEF TakeAllocator, ChildStep
<1>13. CASE AddressSpaceFails
  BY <1>13 DEF AddressSpaceFails, ChildStep
<1>14. CASE MakeFileTable
  BY <1>14, Zenon DEF MakeFileTable, ChildStep
<1>15. CASE MappingSucceeds
  BY <1>15, Zenon DEF MappingSucceeds, ChildStep, GiveBack
<1>16. CASE MappingFails
  BY <1>16 DEF MappingFails, ChildStep, GiveBack
<1>17. CASE EnterRing3
  BY <1>17, Zenon DEF EnterRing3, ChildStep
<1>18. ASSUME NEW n \in Chunks, WriteToPipe(n) PROVE Endings' /\ AnswerIsTheChildsEnding'
  BY <1>18, Zenon DEF WriteToPipe, YieldFrom
<1>19. CASE CloseStdout
  BY <1>19, Zenon DEF CloseStdout, ReturnWriteEnd
<1>20. ASSUME NEW to_pipe \in BOOLEAN, LeftSpawnsDetached(to_pipe) PROVE Endings' /\ AnswerIsTheChildsEnding'
  BY <1>20, Zenon DEF LeftSpawnsDetached, StartRefused
<1>21. CASE ExitLeft
  BY <1>21 DEF ExitLeft, ChildStep
<1>22. CASE DropFileTable
  BY <1>22, Zenon DEF DropFileTable, ReturnWriteEnd
<1>23. CASE ReturnUnusedStdout
  BY <1>23, Zenon DEF ReturnUnusedStdout, ReturnWriteEnd
<1>24. CASE ReportStatus
  BY <1>24, Zenon DEF ReportStatus, ChildStep
<1>25. CASE SetFinished
  BY <1>25, Zenon DEF SetFinished, ChildStep
<1>26. CASE WakeParent
  BY <1>26, Zenon DEF WakeParent
<1>27. CASE YieldForGood
  BY <1>27, Zenon DEF YieldForGood, ChildStep
<1> HIDE DEF Endings, AnswerIsTheChildsEnding
<1> QED
  BY <1>1, <1>2, <1>3, <1>4, <1>5, <1>6, <1>7, <1>8, <1>9, <1>10, <1>11, <1>12, <1>13, <1>14,
     <1>15, <1>16, <1>17, <1>18, <1>19, <1>20, <1>21, <1>22, <1>23, <1>24, <1>25, <1>26, <1>27, Zenon
     DEF Next, MainNext, ChildNext, CloseStdin, ExitRight

----------------------------------------------------------------------------
\* The values of a ring.
Rings == [buf : [0 .. RingSize - 1 -> Nat], head : 0 .. RingSize - 1, len : 0 .. RingSize]

\* What was sent and received counts up from one, and the ring of a pipe in use holds what
\* was sent and not yet received, in this order.
CountsFrom(s, n) == s \in Seq(Nat) /\ \A k \in 1 .. Len(s) : s[k] = n + k
Holds(r, n) == \A k \in 1 .. r.len : r.buf[(r.head + k - 1) % RingSize] = n + k
Content ==
    /\ CountsFrom(sent, 0) /\ CountsFrom(received, 0)
    /\ pipe.ring \in Rings
    /\ pipe.in_use => Len(sent) = Len(received) + pipe.ring.len /\ Holds(pipe.ring, Len(received))

\* An index modulo the size, by how far it is from the array.
LEMMA NoWrap ==
    ASSUME NEW b \in Nat \ {0}, NEW x \in 0 .. b - 1
    PROVE  x % b = x
OBVIOUS

\* The same, one size above.
LEMMA WrapDown ==
    ASSUME NEW b \in Nat \ {0}, NEW x \in b .. 2 * b - 1
    PROVE  x % b = x - b
OBVIOUS

\* One size below.
LEMMA WrapUp ==
    ASSUME NEW b \in Nat \ {0}, NEW x \in -b .. -1
    PROVE  x % b = x + b
OBVIOUS

\* Two sizes below.
LEMMA WrapUpTwice ==
    ASSUME NEW b \in Nat \ {0}, NEW x \in (-2) * b .. -b - 1
    PROVE  x % b = x + 2 * b
OBVIOUS

\* How many bytes a take moves.
LEMMA TakeCountIs ==
    ASSUME NEW r \in Rings, NEW n \in Nat
    PROVE  TakeCount(r, n) = IF n <= r.len THEN n ELSE r.len
  BY RingSizeAssumption DEF TakeCount, Min, Rings

\* How many bytes a put moves.
LEMMA PutCountIs ==
    ASSUME NEW r \in Rings, NEW src, Len(src) \in Nat
    PROVE  PutCount(r, src) = IF Len(src) <= RingSize - r.len THEN Len(src) ELSE RingSize - r.len
  BY RingSizeAssumption DEF PutCount, Min, Rings, room

\* The cell of the k-th byte of a ring that starts at h.
LEMMA Cell ==
    ASSUME NEW h \in 0 .. RingSize - 1, NEW k \in 1 .. RingSize
    PROVE  /\ (h + k - 1) % RingSize \in 0 .. RingSize - 1
           /\ (h + k - 1) % RingSize = IF h + k - 1 < RingSize THEN h + k - 1
                                       ELSE h + k - 1 - RingSize
<1> DEFINE x == h + k - 1
<1>1. RingSize \in Nat \ {0} /\ x \in 0 .. 2 * RingSize - 1
  BY RingSizeAssumption
<1> HIDE DEF x
<1>2. CASE x < RingSize
  <2>1. x \in 0 .. RingSize - 1
    BY <1>1, <1>2
  <2>2. x % RingSize = x
    BY <1>1, <2>1, NoWrap, Zenon
  <2> QED
    BY <2>1, <2>2, <1>2, Zenon DEF x
<1>3. CASE x >= RingSize
  <2>1. x \in RingSize .. 2 * RingSize - 1
    BY <1>1, <1>3
  <2>2. x % RingSize = x - RingSize
    BY <1>1, <2>1, WrapDown, Zenon
  <2>3. x % RingSize \in 0 .. RingSize - 1
    BY <1>1, <2>1, <2>2
  <2> QED
    BY <1>1, <2>2, <2>3, <1>3 DEF x
<1> QED
  BY <1>1, <1>2, <1>3

\* How far that cell is behind the end of a ring of l bytes, as put computes it.
LEMMA Behind ==
    ASSUME NEW h \in 0 .. RingSize - 1, NEW l \in 0 .. RingSize, NEW k \in 1 .. RingSize
    PROVE  (((h + k - 1) % RingSize) - h - l) % RingSize =
               IF k <= l THEN RingSize + k - 1 - l ELSE k - 1 - l
<1> DEFINE i == (h + k - 1) % RingSize
           d == i - h - l
<1>1. /\ RingSize \in Nat \ {0} /\ i \in 0 .. RingSize - 1
      /\ i = IF h + k - 1 < RingSize THEN h + k - 1 ELSE h + k - 1 - RingSize
  BY RingSizeAssumption, Cell, Zenon
<1> HIDE DEF i
<1>2. d \in Int /\ d = IF h + k - 1 < RingSize THEN k - 1 - l ELSE k - 1 - l - RingSize
  BY <1>1
<1> HIDE DEF d
<1> SUFFICES d % RingSize = IF k <= l THEN RingSize + k - 1 - l ELSE k - 1 - l
  BY Zenon DEF d, i
<1>3. CASE d >= 0
  <2>1. d \in 0 .. RingSize - 1
    BY <1>1, <1>2, <1>3
  <2>2. d % RingSize = d
    BY <1>1, <2>1, NoWrap, Zenon
  <2> QED
    BY <1>1, <1>2, <1>3, <2>2
<1>4. CASE d < 0 /\ d >= -RingSize
  <2>1. d \in -RingSize .. -1
    BY <1>1, <1>2, <1>4
  <2>2. d % RingSize = d + RingSize
    BY <1>1, <2>1, WrapUp, Zenon
  <2> QED
    BY <1>1, <1>2, <1>4, <2>2
<1>5. CASE d < -RingSize
  <2>1. d \in (-2) * RingSize .. -RingSize - 1
    BY <1>1, <1>2, <1>5
  <2>2. d % RingSize = d + 2 * RingSize
    BY <1>1, <2>1, WrapUpTwice, Zenon
  <2> QED
    BY <1>1, <1>2, <1>5, <2>2
<1> QED
  BY <1>1, <1>2, <1>3, <1>4, <1>5

\* A remainder is a number from zero.
LEMMA Residue ==
    ASSUME NEW b \in Nat \ {0}, NEW x \in Int
    PROVE  x % b \in Nat
OBVIOUS

\* The two assignments a take makes to the ring, and those a put makes.
Moved(r, h, l) == [r EXCEPT !.head = h, !.len = l]
Filled(r, b, l) == [r EXCEPT !.buf = b, !.len = l]

\* The ring after the assignments of a take.
LEMMA RingMoved ==
    ASSUME NEW r \in Rings, NEW h \in 0 .. RingSize - 1, NEW l \in 0 .. RingSize
    PROVE  LET q == Moved(r, h, l)
           IN  q \in Rings /\ q.len = l /\ q.head = h /\ q.buf = r.buf
  BY Zenon DEF Rings, Moved

\* The ring after the assignments of a put.
LEMMA RingFilled ==
    ASSUME NEW r \in Rings, NEW b \in [0 .. RingSize - 1 -> Nat], NEW l \in 0 .. RingSize
    PROVE  LET q == Filled(r, b, l)
           IN  q \in Rings /\ q.len = l /\ q.head = r.head /\ q.buf = b
  BY Zenon DEF Rings, Filled

\* Ring::take hands out the oldest bytes in order.
LEMMA TakeMoves ==
    ASSUME NEW r \in Rings, NEW m \in Nat, Holds(r, m), r.len # 0, NEW n \in Nat \ {0}
    PROVE  LET c == TakeCount(r, n) IN
           /\ c \in 1 .. r.len
           /\ Len(Taken(r, n)) = c /\ CountsFrom(Taken(r, n), m)
<1> DEFINE c == TakeCount(r, n)
<1>1. c \in 1 .. r.len
  BY RingSizeAssumption, TakeCountIs DEF Rings
<1> HIDE DEF c
<1>2. Contents(r) = [k \in 1 .. r.len |-> m + k]
  BY Zenon DEF Contents, Holds
<1>3. Taken(r, n) = [k \in 1 .. c |-> m + k]
  BY <1>1, <1>2 DEF Taken, Rings, c
<1> QED
  BY <1>1, <1>3 DEF c, Rings, CountsFrom

\* Ring::take leaves the bytes behind them, across the wrap of the array.
LEMMA TakeHolds ==
    ASSUME NEW r \in Rings, NEW m \in Nat, Holds(r, m), r.len # 0, NEW n \in Nat \ {0}
    PROVE  LET c == TakeCount(r, n) IN
           take(r, n) \in Rings /\ take(r, n).len = r.len - c /\ Holds(take(r, n), m + c)
<1> DEFINE c == TakeCount(r, n)
           h == (r.head + c) % RingSize
           q == take(r, n)
<1>1. c \in 1 .. r.len /\ RingSize \in Nat \ {0} /\ r.len \in 0 .. RingSize /\ r.head \in 0 .. RingSize - 1
  BY RingSizeAssumption, TakeCountIs DEF Rings
<1>2. q = Moved(r, h, r.len - c)
  BY Zenon DEF take, Rings, Moved
<1> HIDE DEF c, q
<1>3. h \in 0 .. RingSize - 1 /\ h = IF r.head + c < RingSize THEN r.head + c ELSE r.head + c - RingSize
  <2>1. CASE c < RingSize
    <3>1. c + 1 \in 1 .. RingSize /\ r.head + (c + 1) - 1 = r.head + c
      BY <1>1, <2>1
    <3> QED
      BY <1>1, <3>1, Cell
  <2>2. CASE c = RingSize
    <3>1. r.head + c \in RingSize .. 2 * RingSize - 1
      BY <1>1, <2>2
    <3>2. h = r.head + c - RingSize
      BY <1>1, <3>1, WrapDown
    <3> QED
      BY <1>1, <2>2, <3>2
  <2> QED
    BY <1>1, <2>1, <2>2
<1> HIDE DEF h
<1>4. q \in Rings /\ q.len = r.len - c /\ q.head = h /\ q.buf = r.buf
  <2>1. r.len - c \in 0 .. RingSize
    BY <1>1
  <2> QED
    BY <1>2, <1>3, <2>1, RingMoved
<1>5. ASSUME NEW k \in 1 .. r.len - c
      PROVE  r.buf[(h + k - 1) % RingSize] = (m + c) + k
  <2>1. c + k \in 1 .. RingSize /\ c + k \in 1 .. r.len /\ k \in 1 .. RingSize
    BY <1>1
  <2>2. (h + k - 1) % RingSize = (r.head + (c + k) - 1) % RingSize
    <3>1. (h + k - 1) % RingSize = IF h + k - 1 < RingSize THEN h + k - 1 ELSE h + k - 1 - RingSize
      BY <2>1, <1>3, Cell, Zenon
    <3>2. (r.head + (c + k) - 1) % RingSize =
              IF r.head + (c + k) - 1 < RingSize THEN r.head + (c + k) - 1
              ELSE r.head + (c + k) - 1 - RingSize
      BY <2>1, <1>1, Cell, Zenon
    <3> QED
      BY <1>1, <1>3, <2>1, <3>1, <3>2
  <2>3. r.buf[(r.head + (c + k) - 1) % RingSize] = m + (c + k)
    BY <2>1, Zenon DEF Holds
  <2> QED
    BY <1>1, <2>2, <2>3
<1>6. Holds(q, m + c)
  BY <1>4, <1>5, Zenon DEF Holds
<1> QED
  BY <1>4, <1>6, Zenon DEF c, q

\* Ring::put appends to what the ring holds and overwrites none of it.
LEMMA PutHolds ==
    ASSUME NEW r \in Rings, NEW m \in Nat, Holds(r, m), r.len # RingSize,
           NEW src, CountsFrom(src, m + r.len), Len(src) # 0
    PROVE  LET c == PutCount(r, src) IN
           /\ c \in 1 .. Len(src) /\ r.len + c <= RingSize
           /\ put(r, src) \in Rings /\ put(r, src).len = r.len + c
           /\ Holds(put(r, src), m)
<1> DEFINE c == PutCount(r, src)
           d(i) == (i - r.head - r.len) % RingSize
           b == [i \in 0 .. RingSize - 1 |-> IF d(i) < c THEN src[d(i) + 1] ELSE r.buf[i]]
           q == put(r, src)
<1>1. /\ RingSize \in Nat \ {0} /\ r.len \in 0 .. RingSize /\ r.head \in 0 .. RingSize - 1
      /\ c \in 1 .. Len(src) /\ r.len + c \in 1 .. RingSize /\ Len(src) \in Nat
  <2>1. RingSize \in Nat \ {0} /\ r.len \in 0 .. RingSize /\ r.head \in 0 .. RingSize - 1
    BY RingSizeAssumption, Zenon DEF Rings
  <2>2. Len(src) \in Nat
    BY DEF CountsFrom
  <2>3. c = IF Len(src) <= RingSize - r.len THEN Len(src) ELSE RingSize - r.len
    BY <2>2, PutCountIs, Zenon
  <2> HIDE DEF c
  <2> QED
    BY <2>1, <2>2, <2>3, SMTT(30)
<1>2. DOMAIN r.buf = 0 .. RingSize - 1 /\ \A i \in 0 .. RingSize - 1 : r.buf[i] \in Nat
  BY Zenon DEF Rings
<1>3. q = Filled(r, b, r.len + c)
  BY <1>2, Zenon DEF put, Rings, Filled
<1> HIDE DEF c, q
<1>4. ASSUME NEW i \in 0 .. RingSize - 1 PROVE d(i) \in Nat
  <2>1. i - r.head - r.len \in Int
    BY <1>1, SMTT(30)
  <2> QED
    BY <1>1, <2>1, Residue, Zenon
<1> HIDE DEF d
<1>5. b \in [0 .. RingSize - 1 -> Nat]
  <2>1. ASSUME NEW i \in 0 .. RingSize - 1
        PROVE  (IF d(i) < c THEN src[d(i) + 1] ELSE r.buf[i]) \in Nat
    <3>1. CASE d(i) < c
      <4>1. d(i) + 1 \in 1 .. Len(src)
        BY <1>1, <1>4, <3>1, SMTT(30)
      <4> QED
        BY <3>1, <4>1 DEF CountsFrom
    <3> QED
      BY <1>2, <3>1, Zenon
  <2> QED
    BY <2>1, Zenon
<1> HIDE DEF b
<1>6. q \in Rings /\ q.len = r.len + c /\ q.head = r.head /\ q.buf = b
  <2>1. r.len + c \in 0 .. RingSize
    BY <1>1
  <2> QED
    BY <1>3, <1>5, <2>1, RingFilled
<1>7. ASSUME NEW k \in 1 .. r.len + c
      PROVE  b[(r.head + k - 1) % RingSize] = m + k
  <2> DEFINE i == (r.head + k - 1) % RingSize
  <2>1. k \in 1 .. RingSize
    BY <1>1
  <2>2. i \in 0 .. RingSize - 1
    BY <1>1, <2>1, Cell, Zenon
  <2>3. d(i) = IF k <= r.len THEN RingSize + k - 1 - r.len ELSE k - 1 - r.len
    BY <1>1, <2>1, Behind, Zenon DEF d
  <2> HIDE DEF i
  <2>4. b[i] = IF d(i) < c THEN src[d(i) + 1] ELSE r.buf[i]
    BY <2>2, Zenon DEF b
  <2>5. CASE k <= r.len
    <3>1. ~(d(i) < c)
      BY <1>1, <2>3, <2>5, SMTT(30)
    <3>2. k \in 1 .. r.len
      BY <1>1, <2>5
    <3> QED
      BY <2>4, <3>1, <3>2, Zenon DEF Holds, i
  <2>6. CASE k > r.len
    <3> DEFINE j == d(i) + 1
               l == r.len
    <3>1. d(i) = k - 1 - l
      BY <1>1, <2>3, <2>6
    <3> HIDE DEF l
    <3>2. l \in Nat /\ k \in Int /\ c \in Int /\ k <= l + c /\ c <= Len(src) /\ Len(src) \in Nat /\ k > l
      BY <1>1, <2>6 DEF l
    <3>3. d(i) < c /\ j \in 1 .. Len(src) /\ m + l + j = m + k
      BY <3>1, <3>2
    <3>4. b[i] = src[j]
      BY <2>4, <3>3, Zenon
    <3> HIDE DEF j
    <3>5. src[j] = m + l + j
      BY <3>3, Zenon DEF CountsFrom, l
    <3> QED
      BY <3>3, <3>4, <3>5, Zenon DEF i
  <2> QED
    BY <1>1, <2>5, <2>6 DEF i
<1>8. Holds(q, m)
  BY <1>6, <1>7, Zenon DEF Holds
<1> QED
  BY <1>1, <1>6, <1>8 DEF c, q

\* A new pipe is empty, and nothing has been sent or received.
LEMMA Fresh ==
    /\ EmptyRing \in Rings /\ EmptyRing.len = 0 /\ Holds(EmptyRing, 0)
    /\ CountsFrom(<<>>, 0) /\ Len(<<>>) = 0
  BY RingSizeAssumption DEF EmptyRing, Rings, Holds, CountsFrom

\* A count that is continued is a count.
LEMMA Joined ==
    ASSUME NEW s, NEW t, CountsFrom(s, 0), CountsFrom(t, Len(s))
    PROVE  /\ Len(s) \in Nat /\ Len(t) \in Nat /\ Len(s \o t) = Len(s) + Len(t)
           /\ CountsFrom(s \o t, 0) /\ SubSeq(s \o t, 1, Len(s)) = s
<1>1. s \in Seq(Nat) /\ t \in Seq(Nat) /\ s \o t \in Seq(Nat)
  BY DEF CountsFrom
<1>2. Len(s) \in Nat /\ Len(t) \in Nat /\ Len(s \o t) = Len(s) + Len(t)
  BY <1>1
<1>3. ASSUME NEW k \in 1 .. Len(s \o t) PROVE (s \o t)[k] = 0 + k
  <2>1. CASE k <= Len(s)
    <3>1. k \in 1 .. Len(s) /\ (s \o t)[k] = s[k]
      BY <1>1, <2>1
    <3> QED
      BY <3>1, Zenon DEF CountsFrom
  <2>2. CASE k > Len(s)
    <3>1. k - Len(s) \in 1 .. Len(t) /\ (s \o t)[k] = t[k - Len(s)]
      BY <1>1, <1>2, <2>2
    <3>2. t[k - Len(s)] = Len(s) + (k - Len(s))
      BY <3>1, Zenon DEF CountsFrom
    <3> QED
      BY <1>2, <3>1, <3>2
  <2> QED
    BY <1>2, <2>1, <2>2
<1>4. SubSeq(s \o t, 1, Len(s)) = s
  BY <1>1, <1>2
<1> QED
  BY <1>1, <1>2, <1>3, <1>4, Zenon DEF CountsFrom

\* Sequences with the same elements are equal.
LEMMA SameSequence ==
    ASSUME NEW s \in Seq(Nat), NEW t \in Seq(Nat), Len(s) = Len(t),
           \A k \in 1 .. Len(s) : s[k] = t[k]
    PROVE  s = t
BY SMTT(30)

\* Of two counts the shorter one is a prefix of the other.
LEMMA Prefix ==
    ASSUME NEW s, NEW t, CountsFrom(s, 0), CountsFrom(t, 0), Len(t) <= Len(s)
    PROVE  /\ t = SubSeq(s, 1, Len(t))
           /\ Len(t) = Len(s) => t = s
<1>1. s \in Seq(Nat) /\ t \in Seq(Nat) /\ Len(s) \in Nat /\ Len(t) \in Nat
  BY DEF CountsFrom
<1>2. \A k \in 1 .. Len(t) : t[k] = s[k]
  BY <1>1 DEF CountsFrom
<1> DEFINE u == SubSeq(s, 1, Len(t))
<1>3. u \in Seq(Nat) /\ Len(u) = Len(t) /\ \A k \in 1 .. Len(t) : u[k] = s[k]
  BY <1>1
<1> HIDE DEF u
<1>4. t = u
  BY <1>1, <1>2, <1>3, SameSequence, Zenon
<1>5. Len(t) = Len(s) => t = s
  BY <1>1, <1>2, SameSequence, Zenon
<1> QED
  BY <1>4, <1>5, Zenon DEF u

\* The beginning of a count is a count.
LEMMA Cut ==
    ASSUME NEW m \in Nat, NEW s, CountsFrom(s, m), NEW c \in 0 .. Len(s)
    PROVE  CountsFrom(SubSeq(s, 1, c), m) /\ Len(SubSeq(s, 1, c)) = c
  BY DEF CountsFrom

\* The bytes one write offers continue what was sent.
LEMMA Source ==
    ASSUME NEW m \in Nat, NEW n \in Nat
    PROVE  CountsFrom([k \in 1 .. n |-> m + k], m) /\ Len([k \in 1 .. n |-> m + k]) = n
  BY DEF CountsFrom

\* Sums of lengths, regrouped.
LEMMA Fits ==
    ASSUME NEW m \in Nat, NEW l \in Nat, NEW c \in Nat, c # 0, NEW b \in Nat, l + c <= b
    PROVE  c \in 1 .. b /\ (m + l) + c = m + (l + c) /\ ((m + l) + c) - m <= b
OBVIOUS

\* read_into: the bytes read are the next ones that were sent, and the ring holds the rest.
LEMMA BytesRead ==
    ASSUME Content, DOMAIN pipe = Fields, pipe.in_use, pipe.ring.len # 0, NEW n \in Chunks,
           pipe' = [pipe EXCEPT !.ring = take(pipe.ring, n)],
           received' = received \o Taken(pipe.ring, n), sent' = sent
    PROVE  /\ Content'
           /\ \E j \in Len(received) + 1 .. Len(sent) : received' = SubSeq(sent, 1, j)
<1> DEFINE r == pipe.ring
           m == Len(received)
           c == TakeCount(r, n)
<1>1. /\ r \in Rings /\ Holds(r, m) /\ r.len # 0 /\ Len(sent) = m + r.len
      /\ CountsFrom(sent, 0) /\ CountsFrom(received, 0)
  BY Zenon DEF Content
<1>2. m \in Nat /\ Len(sent) \in Nat /\ r.len \in Nat
  BY <1>1 DEF CountsFrom, Rings
<1>3. n \in Nat \ {0}
  BY RingSizeAssumption DEF Chunks
<1>4. c \in 1 .. r.len /\ Len(Taken(r, n)) = c /\ CountsFrom(Taken(r, n), m)
  BY <1>1, <1>2, <1>3, TakeMoves, Zenon
<1>5. take(r, n) \in Rings /\ take(r, n).len = r.len - c /\ Holds(take(r, n), m + c)
  BY <1>1, <1>2, <1>3, TakeHolds, Zenon
<1> HIDE DEF c
<1>6. Len(received') = m + c /\ CountsFrom(received', 0)
  BY <1>1, <1>4, Joined, Zenon
<1>7. pipe'.ring = take(r, n) /\ (pipe'.in_use <=> pipe.in_use)
  BY Zenon DEF Fields
<1> HIDE DEF r, m
<1>8. Len(sent') = Len(received') + pipe'.ring.len /\ Len(received') <= Len(sent)
      /\ Len(received') \in m + 1 .. Len(sent)
  BY <1>1, <1>2, <1>4, <1>5, <1>6, <1>7, SMTT(30)
<1>9. Content'
  BY <1>1, <1>5, <1>6, <1>7, <1>8, Zenon DEF Content
<1>10. received' = SubSeq(sent, 1, Len(received'))
  BY <1>1, <1>6, <1>8, Prefix, Zenon
<1> QED
  BY <1>8, <1>9, <1>10, Zenon DEF m

\* write_from: the bytes accepted go behind those sent before, and they fit.
LEMMA BytesWritten ==
    ASSUME Content, DOMAIN pipe = Fields, pipe.in_use, room(pipe.ring) # 0,
           NEW src, CountsFrom(src, Len(sent)), Len(src) # 0,
           NEW r, r = put(pipe.ring, src), pipe' = [pipe EXCEPT !.ring = r],
           NEW t, t = SubSeq(src, 1, PutCount(pipe.ring, src)), sent' = sent \o t,
           received' = received
    PROVE  /\ Content'
           /\ \E j \in 1 .. RingSize :
                 /\ Len(sent') = Len(sent) + j
                 /\ SubSeq(sent', 1, Len(sent)) = sent
                 /\ Len(sent') - Len(received) <= RingSize
<1> DEFINE q == pipe.ring
           m == Len(received)
           c == PutCount(q, src)
<1>1. /\ q \in Rings /\ Holds(q, m) /\ Len(sent) = m + q.len
      /\ CountsFrom(sent, 0) /\ CountsFrom(received, 0)
  BY Zenon DEF Content
<1>2. /\ m \in Nat /\ Len(sent) \in Nat /\ q.len \in Nat /\ RingSize \in Nat /\ q.len # RingSize
      /\ Len(src) \in Nat
  BY <1>1, RingSizeAssumption, SMTT(30) DEF CountsFrom, Rings, room
<1>3. pipe'.ring = r /\ (pipe'.in_use <=> pipe.in_use)
  BY Zenon DEF Fields
<1>4. CountsFrom(src, m + q.len)
  BY <1>1, Zenon
<1>5. c \in 1 .. Len(src) /\ q.len + c <= RingSize /\ r \in Rings /\ r.len = q.len + c /\ Holds(r, m)
  BY <1>1, <1>2, <1>4, PutHolds, Zenon
<1>6. Len(t) = c /\ CountsFrom(t, Len(sent))
  <2>1. c \in 0 .. Len(src)
    BY <1>2, <1>5
  <2> QED
    BY <1>2, <2>1, Cut, Zenon
<1> HIDE DEF c, q, m
<1>7. Len(sent \o t) = Len(sent) + c /\ CountsFrom(sent \o t, 0) /\ SubSeq(sent \o t, 1, Len(sent)) = sent
  BY <1>1, <1>6, Joined, Zenon
<1>8. c \in 1 .. RingSize /\ Len(sent) + c = m + r.len /\ (Len(sent) + c) - m <= RingSize
  <2>1. c \in Nat /\ c # 0
    BY <1>2, <1>5
  <2>2. c \in 1 .. RingSize /\ (m + q.len) + c = m + (q.len + c) /\ ((m + q.len) + c) - m <= RingSize
    BY <1>2, <1>5, <2>1, Fits, Zenon
  <2> QED
    BY <1>1, <1>5, <2>2, Zenon
<1>9. Content'
  BY <1>1, <1>3, <1>5, <1>7, <1>8, Zenon DEF Content, m
<1>10. Len(sent') = Len(sent) + c /\ SubSeq(sent', 1, Len(sent)) = sent /\ Len(sent') - m <= RingSize
  BY <1>7, <1>8, ZenonT(60)
<1> QED
  BY <1>8, <1>9, <1>10, Zenon DEF m

----------------------------------------------------------------------------
\* What a step can do to the pipe and to what was sent and received: a new pipe is made,
\* bytes are read, the end is reported, bytes are written, or ends change hands.
Opens ==
    /\ pipe.writers = 0 /\ pipe' = create(TRUE)
    /\ sent' = <<>> /\ received' = <<>> /\ eof' = FALSE

Reads ==
    /\ pipe.in_use /\ pipe.ring.len # 0
    /\ \E n \in Chunks : /\ pipe' = [pipe EXCEPT !.ring = take(pipe.ring, n)]
                          /\ received' = received \o Taken(pipe.ring, n)
    /\ sent' = sent /\ eof' = eof

SeesEnd ==
    /\ pipe.in_use /\ pipe.ring.len = 0 /\ pipe.writers = 0
    /\ pipe' = pipe /\ sent' = sent /\ received' = received /\ eof' = TRUE

Writes ==
    /\ pipe.in_use /\ pipe.writers = 1 /\ room(pipe.ring) # 0
    /\ \E n \in Chunks : LET src == [k \in 1 .. n |-> Len(sent) + k]
                         IN  /\ pipe' = [pipe EXCEPT !.ring = put(pipe.ring, src)]
                             /\ sent' = sent \o SubSeq(src, 1, PutCount(pipe.ring, src))
    /\ received' = received /\ eof' = eof

KeepsBytes ==
    /\ pipe'.ring = pipe.ring \/ (~pipe'.in_use /\ pipe'.ring = EmptyRing)
    /\ pipe'.in_use => pipe.in_use
    /\ pipe.writers = 0 => pipe'.writers = 0
    /\ sent' = sent /\ received' = received /\ eof' = eof

PipeStep == Opens \/ Reads \/ SeesEnd \/ Writes \/ KeepsBytes

\* Every step does one of these.
LEMMA PipeSteps ==
    ASSUME Places, Accounts, Next
    PROVE  PipeStep
<1> USE DEF Places, Ends, Accounts, WriteEndHeld, PipeStep, main_vars, child_vars, history
<1>1. CASE Tick
  BY <1>1, Zenon DEF Tick, InterruptsOn, KeepsBytes
<1>2. ASSUME NEW to_pipe \in BOOLEAN, SpawnDetached(to_pipe) PROVE PipeStep
  <2>1. CASE to_pipe
    <3>1. ~pipe.in_use /\ pipe' = create(TRUE) /\ sent' = <<>> /\ received' = <<>> /\ eof' = FALSE
      BY <1>2, <2>1, Zenon DEF SpawnDetached
    <3>2. pipe.writers = 0
      BY <3>1, Zenon
    <3> QED
      BY <3>1, <3>2, Zenon DEF Opens
  <2>2. CASE ~to_pipe
    BY <1>2, <2>2, Zenon DEF SpawnDetached, KeepsBytes
  <2> QED
    BY <2>1, <2>2, Zenon
<1>3. ASSUME NEW to_pipe \in BOOLEAN, SpawnDetachedRefused(to_pipe) PROVE PipeStep
  BY <1>3, Refused, EmptyFields, Zenon DEF SpawnDetachedRefused, StartRefused, KeepsBytes
<1>4. CASE AwaitEntry
  BY <1>4, Zenon DEF AwaitEntry, KeepsBytes
<1>5. CASE SpawnWithPipedStdin
  BY <1>5, Claimed, ReadEndClosed, EmptyFields DEF SpawnWithPipedStdin, HasReservation, KeepsBytes
<1>6. ASSUME NEW handle \in 1 .. MaxStarts, WaitChild(handle) PROVE PipeStep
  BY <1>6, Dropped, EmptyFields, Zenon DEF WaitChild, HasReservation, KeepsBytes
<1>7. CASE WaitForRing3Task
  BY <1>7, Zenon DEF WaitForRing3Task, YieldFrom, KeepsBytes
<1>8. ASSUME NEW n \in Chunks, ReadFromPipe(n) PROVE PipeStep
  <2>1. sent' = sent /\ pipe.in_use
    BY <1>8, Zenon DEF ReadFromPipe
  <2>2. ReadOutcome(pipe) = "Bytes" => pipe.ring.len # 0
    BY Zenon DEF ReadOutcome
  <2>3. ReadOutcome(pipe) = "Eof" => pipe.ring.len = 0 /\ pipe.writers = 0
    BY Zenon DEF ReadOutcome
  <2> HIDE DEF Accounts
  <2>4. CASE ReadOutcome(pipe) = "Bytes"
    BY <1>8, <2>1, <2>2, <2>4, Zenon DEF ReadFromPipe, Reads
  <2>5. CASE ReadOutcome(pipe) = "Eof"
    BY <1>8, <2>1, <2>3, <2>5, Zenon DEF ReadFromPipe, SeesEnd
  <2>6. CASE ReadOutcome(pipe) = "Empty"
    BY <1>8, <2>1, <2>6, Zenon DEF ReadFromPipe, KeepsBytes
  <2> QED
    BY <1>8, <2>4, <2>5, <2>6, Zenon DEF ReadFromPipe
<1>9. ASSUME NEW next \in {"right", "shell"}, CloseRightStdin(next) PROVE PipeStep
  BY <1>9, ReadEndClosed, EmptyFields, Zenon DEF CloseRightStdin, KeepsBytes
<1>10. CASE BorrowRequest
  BY <1>10, Zenon DEF BorrowRequest, ChildStep, KeepsBytes
<1>11. CASE SpawnFails
  BY <1>11, Zenon DEF SpawnFails, ChildStep, KeepsBytes
<1>12. CASE TakeAllocator
  BY <1>12, Zenon DEF TakeAllocator, ChildStep, KeepsBytes
<1>13. CASE AddressSpaceFails
  BY <1>13, Zenon DEF AddressSpaceFails, ChildStep, KeepsBytes
<1>14. CASE MakeFileTable
  BY <1>14, Zenon DEF MakeFileTable, ChildStep, KeepsBytes
<1>15. CASE MappingSucceeds
  BY <1>15, Zenon DEF MappingSucceeds, ChildStep, GiveBack, KeepsBytes
<1>16. CASE MappingFails
  BY <1>16, Zenon DEF MappingFails, ChildStep, GiveBack, KeepsBytes
<1>17. CASE EnterRing3
  BY <1>17, Zenon DEF EnterRing3, ChildStep, KeepsBytes
<1>18. ASSUME NEW n \in Chunks, WriteToPipe(n) PROVE PipeStep
  <2>1. received' = received /\ eof' = eof /\ pipe.in_use /\ pipe.writers = 1
    BY <1>18, Zenon DEF WriteToPipe
  <2>2. WriteOutcome(pipe) = "Bytes" => room(pipe.ring) # 0
    BY Zenon DEF WriteOutcome
  <2>3. CASE pipe' = pipe /\ sent' = sent
    BY <2>1, <2>3, Zenon DEF KeepsBytes
  <2>4. CASE /\ WriteOutcome(pipe) = "Bytes"
             /\ pipe' = [pipe EXCEPT !.ring = put(pipe.ring, [k \in 1 .. n |-> Len(sent) + k])]
             /\ sent' = sent \o SubSeq([k \in 1 .. n |-> Len(sent) + k], 1,
                                       PutCount(pipe.ring, [k \in 1 .. n |-> Len(sent) + k]))
    BY <2>1, <2>2, <2>4, Zenon DEF Writes
  <2> QED
    BY <1>18, <2>3, <2>4, Zenon DEF WriteToPipe
<1>19. CASE CloseStdout
  BY <1>19, WriteEndClosed, EmptyFields, Zenon DEF CloseStdout, ReturnWriteEnd, KeepsBytes
<1>20. ASSUME NEW to_pipe \in BOOLEAN, LeftSpawnsDetached(to_pipe) PROVE PipeStep
  BY <1>20, Refused, EmptyFields, Zenon DEF LeftSpawnsDetached, StartRefused, KeepsBytes
<1>21. CASE ExitLeft
  BY <1>21, Zenon DEF ExitLeft, ChildStep, KeepsBytes
<1>22. CASE DropFileTable
  BY <1>22, WriteEndClosed, EmptyFields, Zenon DEF DropFileTable, ReturnWriteEnd, KeepsBytes
<1>23. CASE ReturnUnusedStdout
  BY <1>23, WriteEndClosed, EmptyFields, Zenon DEF ReturnUnusedStdout, ReturnWriteEnd, KeepsBytes
<1>24. CASE ReportStatus
  BY <1>24, Zenon DEF ReportStatus, ChildStep, KeepsBytes
<1>25. CASE SetFinished
  BY <1>25, Zenon DEF SetFinished, ChildStep, KeepsBytes
<1>26. CASE WakeParent
  BY <1>26, Zenon DEF WakeParent, KeepsBytes
<1>27. CASE YieldForGood
  BY <1>27, Zenon DEF YieldForGood, ChildStep, KeepsBytes
<1> HIDE DEF PipeStep
<1> QED
  BY <1>1, <1>2, <1>3, <1>4, <1>5, <1>6, <1>7, <1>8, <1>9, <1>10, <1>11, <1>12, <1>13, <1>14,
     <1>15, <1>16, <1>17, <1>18, <1>19, <1>20, <1>21, <1>22, <1>23, <1>24, <1>25, <1>26, <1>27, Zenon
     DEF Next, MainNext, ChildNext, CloseStdin, ExitRight

\* A write keeps the ring in order and appends what it accepts.
LEMMA WritesAppend ==
    ASSUME DOMAIN pipe = Fields, Content, Writes
    PROVE  /\ Content'
           /\ \E j \in 1 .. RingSize :
                 /\ Len(sent') = Len(sent) + j
                 /\ SubSeq(sent', 1, Len(sent)) = sent
                 /\ Len(sent') - Len(received) <= RingSize
<1>1. PICK n \in Chunks : LET src == [k \in 1 .. n |-> Len(sent) + k]
                          IN  /\ pipe' = [pipe EXCEPT !.ring = put(pipe.ring, src)]
                              /\ sent' = sent \o SubSeq(src, 1, PutCount(pipe.ring, src))
  BY Zenon DEF Writes
<1> DEFINE src == [k \in 1 .. n |-> Len(sent) + k]
<1>2. n \in Nat /\ n # 0 /\ Len(sent) \in Nat
  BY RingSizeAssumption DEF Chunks, Content, CountsFrom
<1>3. CountsFrom(src, Len(sent)) /\ Len(src) = n
  BY <1>2, Source, Zenon
<1> HIDE DEF src
<1>4. pipe.in_use /\ room(pipe.ring) # 0 /\ received' = received
  BY Zenon DEF Writes
<1>5. /\ pipe' = [pipe EXCEPT !.ring = put(pipe.ring, src)]
      /\ sent' = sent \o SubSeq(src, 1, PutCount(pipe.ring, src))
  BY <1>1, Zenon DEF src
<1> QED
  BY <1>2, <1>3, <1>4, <1>5, BytesWritten, Zenon

\* The ring keeps holding what was sent and not yet received.
LEMMA ContentStep ==
    ASSUME DOMAIN pipe = Fields, Content, PipeStep
    PROVE  Content'
<1>1. CASE Opens
  <2>1. pipe'.ring = EmptyRing
    BY <1>1, Created, Zenon DEF Opens
  <2>2. /\ CountsFrom(sent', 0) /\ CountsFrom(received', 0) /\ Len(sent') = 0 /\ Len(received') = 0
        /\ pipe'.ring \in Rings /\ pipe'.ring.len = 0 /\ Holds(pipe'.ring, 0)
    BY <1>1, <2>1, Fresh, Zenon DEF Opens
  <2> QED
    BY <2>2 DEF Content
<1>2. CASE Reads
  BY <1>2, BytesRead, Zenon DEF Reads
<1>3. CASE SeesEnd
  BY <1>3, Zenon DEF SeesEnd, Content
<1>4. CASE Writes
  BY <1>4, WritesAppend, Zenon
<1>5. CASE KeepsBytes
  BY <1>5, Fresh, Zenon DEF KeepsBytes, Content
<1> QED
  BY <1>1, <1>2, <1>3, <1>4, <1>5, Zenon DEF PipeStep

\* The variables of Stream, as the pipeline gives them.
Unseen == UNCHANGED <<sent, received, pipe.writers = 0, eof>>

\* What a step does to the pipe is a step of the stream or nothing.
LEMMA StreamStep ==
    ASSUME DOMAIN pipe = Fields, Content, PipeStep
    PROVE  ByteStream!Next \/ Unseen
<1>1. CASE Opens
  <2>1. (pipe.writers = 0) = TRUE
    BY <1>1, Zenon DEF Opens
  <2>2. pipe'.writers = 1
    BY <1>1, Created, Zenon DEF Opens
  <2>3. (pipe'.writers = 0) = FALSE
    BY <2>2
  <2> QED
    BY <1>1, <2>1, <2>3, Zenon DEF Opens, ByteStream!Next, ByteStream!Open
<1>2. CASE Reads
  <2>1. \E j \in Len(received) + 1 .. Len(sent) : received' = SubSeq(sent, 1, j)
    BY <1>2, BytesRead, Zenon DEF Reads
  <2>2. pipe'.writers = pipe.writers /\ sent' = sent /\ eof' = eof
    BY <1>2, Zenon DEF Reads, Fields
  <2> QED
    BY <2>1, <2>2, Zenon DEF ByteStream!Next, ByteStream!Read
<1>3. CASE SeesEnd
  <2>1. received = sent
    <3>1. CountsFrom(sent, 0) /\ CountsFrom(received, 0) /\ Len(sent) = Len(received) + 0
      BY <1>3, Zenon DEF SeesEnd, Content
    <3>2. Len(received) = Len(sent) /\ Len(received) <= Len(sent)
      BY <3>1 DEF CountsFrom
    <3> QED
      BY <3>1, <3>2, Prefix, Zenon
  <2> QED
    BY <1>3, <2>1, Zenon DEF SeesEnd, ByteStream!Next, ByteStream!End
<1>4. CASE Writes
  <2>1. \E j \in 1 .. RingSize :
            /\ Len(sent') = Len(sent) + j
            /\ SubSeq(sent', 1, Len(sent)) = sent
            /\ Len(sent') - Len(received) <= RingSize
    BY <1>4, WritesAppend, Zenon
  <2>2. ~(pipe.writers = 0) /\ ~(pipe'.writers = 0) /\ received' = received /\ eof' = eof
    BY <1>4 DEF Writes, Fields
  <2> QED
    BY <2>1, <2>2, Zenon DEF ByteStream!Next, ByteStream!Write
<1>5. CASE KeepsBytes
  <2>1. sent' = sent /\ received' = received /\ eof' = eof
    BY <1>5, Zenon DEF KeepsBytes
  <2>2. CASE ~(pipe.writers = 0) /\ pipe'.writers = 0
    BY <2>1, <2>2, Zenon DEF ByteStream!Next, ByteStream!Close
  <2>3. CASE pipe.writers = 0 <=> pipe'.writers = 0
    BY <2>1, <2>3, Zenon DEF Unseen
  <2> QED
    BY <1>5, <2>2, <2>3, Zenon DEF KeepsBytes
<1> QED
  BY <1>1, <1>2, <1>3, <1>4, <1>5, Zenon DEF PipeStep

----------------------------------------------------------------------------
Inv ==
    /\ Places
    /\ Accounts /\ Flags(pipe) /\ pending_stdin \in BOOLEAN
    /\ NoLostWakeUp
    /\ Endings /\ AnswerIsTheChildsEnding
    /\ Content

\* When the shell starts there is no child, no pipe and nobody waits.
LEMMA InitInv == Init => Inv
<1> SUFFICES ASSUME Init PROVE Inv
  BY Zenon
<1>1. Places
  BY BoundsAssumption DEF Init, Places, Types, Control, Handles, Ends, ChildPcs
<1>2. Accounts /\ pipe.ring = EmptyRing
  BY EmptyFields, Zenon DEF Init, Accounts, WriteEndHeld
<1>3. Flags(pipe) /\ pending_stdin \in BOOLEAN
  BY Zenon DEF Init, Flags, EmptyPipe
<1>4. NoLostWakeUp
  BY Zenon DEF Init, NoLostWakeUp
<1>5. Endings /\ AnswerIsTheChildsEnding
  BY BoundsAssumption DEF Init, Endings, AnswerIsTheChildsEnding, NoAnswer
<1>6. Content
  <2>1. sent = <<>> /\ received = <<>> /\ ~pipe.in_use
    BY EmptyFields, Zenon DEF Init
  <2> QED
    BY <1>2, <2>1, Fresh, Zenon DEF Content
<1> QED
  BY <1>1, <1>2, <1>3, <1>4, <1>5, <1>6, Zenon DEF Inv

\* Every step keeps the layers, each by the ones below it.
LEMMA NextInv == Inv /\ [Next]_vars => Inv'
<1> SUFFICES ASSUME Inv, [Next]_vars PROVE Inv'
  BY Zenon
<1>1. CASE Next
  <2>1. Places' /\ Accounts'
    BY <1>1, PlacesStep, AccountsStep, Zenon DEF Inv
  <2>2. DOMAIN pipe = Fields
    BY Zenon DEF Inv, Accounts
  <2>3. Flags(pipe)' /\ pending_stdin' \in BOOLEAN
    BY <1>1, <2>2, FlagsStep, Zenon DEF Inv
  <2>4. NoLostWakeUp'
    BY <1>1, WaitsStep, Zenon DEF Inv
  <2>5. Endings' /\ AnswerIsTheChildsEnding'
    BY <1>1, EndingsStep, Zenon DEF Inv, Places
  <2>6. Content'
    BY <1>1, <2>2, PipeSteps, ContentStep, Zenon DEF Inv
  <2> QED
    BY <2>1, <2>3, <2>4, <2>5, <2>6, Zenon DEF Inv
<1>2. CASE UNCHANGED vars
  <2> USE <1>2 DEF Inv, vars, main_vars, child_vars, history
  <2>1. Places'
    BY DEF Places, Types, Control, Handles, Ends
  <2>2. Accounts' /\ Flags(pipe)' /\ pending_stdin' \in BOOLEAN
    BY Zenon  DEF Accounts, WriteEndHeld
  <2>3. NoLostWakeUp'
    BY Zenon DEF NoLostWakeUp
  <2>4. Endings' /\ AnswerIsTheChildsEnding'
    BY Zenon DEF Endings, AnswerIsTheChildsEnding
  <2>5. Content'
    BY Zenon DEF Content
  <2> QED
    BY <2>1, <2>2, <2>3, <2>4, <2>5, Zenon
<1> QED
  BY <1>1, <1>2, Zenon

\* The invariant holds throughout.
LEMMA PipelineInvariant == Spec => []Inv
  BY InitInv, NextInv, PTL DEF Spec

\* Whichever of the load, spawn, wait and close paths gives an end of the pipe up, the pipe
\* counts exactly the ends that are held and the slot is in use exactly as long as one is.
THEOREM AccountingHolds == Spec => []PipeAccounting
<1>1. Inv => PipeAccounting
  <2> SUFFICES ASSUME Inv PROVE PipeAccounting
    BY Zenon
  <2>1. /\ pipe.writers = IF WriteEndHeld THEN 1 ELSE 0
        /\ pipe.readers = IF right_stdin THEN 1 ELSE 0
    BY Zenon DEF Inv, Accounts
  <2>2. pipe.reserved_reader = pending_stdin
    BY DEF Inv, Accounts, Flags
  <2>3. pipe.in_use = (WriteEndHeld \/ right_stdin \/ pending_stdin)
    BY Zenon DEF Inv, Accounts, Flags
  <2> QED
    BY <2>1, <2>2, <2>3, Zenon DEF PipeAccounting
<1> QED
  BY <1>1, PipelineInvariant, PTL

\* No task sleeps on a pipe that is ready for it or has lost its other side, and no parent on
\* a child that has finished and will not wake it.
THEOREM WakeUpsArrive == Spec => []NoLostWakeUp
<1>1. Inv => NoLostWakeUp
  BY Zenon DEF Inv
<1> QED
  BY <1>1, PipelineInvariant, PTL

\* wait_child returns the ending of the child whose handle it was called with.
THEOREM AnswersAreTrue == Spec => []AnswerIsTheChildsEnding
<1>1. Inv => AnswerIsTheChildsEnding
  BY Zenon DEF Inv
<1> QED
  BY <1>1, PipelineInvariant, PTL

\* The pipeline with its ring, its wake-ups and its closing paths implements the byte stream
\* that module Stream specifies.
THEOREM PipelineIsAStream == Spec => StreamOK
<1>1. Init => ByteStream!Init
  <2> SUFFICES ASSUME Init PROVE ByteStream!Init
    BY Zenon
  <2>1. (pipe.writers = 0) = TRUE
    BY EmptyFields, Zenon DEF Init
  <2> QED
    BY <2>1, Zenon DEF Init, ByteStream!Init
<1>2. Inv /\ [Next]_vars => [ByteStream!Next]_<<sent, received, pipe.writers = 0, eof>>
  <2> SUFFICES ASSUME Inv, [Next]_vars PROVE ByteStream!Next \/ Unseen
    BY Zenon DEF Unseen
  <2>1. CASE Next
    <3>1. DOMAIN pipe = Fields
      BY Zenon DEF Inv, Accounts
    <3> QED
      BY <2>1, <3>1, PipeSteps, StreamStep, Zenon DEF Inv
  <2>2. CASE UNCHANGED vars
    BY <2>2, Zenon DEF vars, history, Unseen
  <2> QED
    BY <2>1, <2>2, Zenon
<1> QED
  BY <1>1, <1>2, PipelineInvariant, PTL DEF Spec, StreamOK, ByteStream!Spec
=============================================================================
