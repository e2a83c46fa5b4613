------------------------------ MODULE Pipeline ------------------------------
(***************************************************************************)
(* The shell's `left | right`: the main task runs the shell and, nested in *)
(* it, the right program; the added Ring 3 task runs the left program,     *)
(* detached.  One pipe joins them.  The module follows                     *)
(*   - the system calls spawn_detached, spawn_with_piped_stdin, wait_child,*)
(*     read and write on the pipe (syscall.rs),                            *)
(*   - the detached task from start_detached to its reaping (userland.rs,  *)
(*     task.rs), with the frame allocator it borrows while loading,        *)
(*   - the bootstrap processor's scheduler: yields, timer ticks, waiting   *)
(*     and waking (task.rs).                                               *)
(*                                                                         *)
(* A system call enters through an interrupt gate and keeps interrupts off *)
(* until it returns, so up to its next yield it is one step.  A timer tick *)
(* can come between any two steps of code that runs with interrupts on:    *)
(* Ring 3 programs, and the detached task's kernel code until its          *)
(* excursion has come back (the way back does not restore RFLAGS).         *)
(* Programs are arbitrary: any system call may come at any time.           *)
(***************************************************************************)
EXTENDS Pipe

CONSTANTS
    MaxStarts,      \* bound: detached children started (RING3_TASK_GENERATION)
    MaxSent         \* bound: bytes written into one pipe

ASSUME BoundsAssumption == MaxStarts \in Nat /\ MaxSent \in Nat

VARIABLES
    running,        \* CURRENT of the bootstrap processor
    mstate,         \* state of the main task: "Ready" or what it waits for
    mpc,            \* where the main task is
    awaited,        \* the handle wait_child was called with
    cstate,         \* state of the detached task (RING3_TASK)
    cpc,            \* where the detached task is
    cif,            \* the detached task's kernel code still runs with interrupts on
    gen,            \* RING3_TASK_GENERATION; the current handle
    request,        \* DETACHED_REQUEST: NoRequest, or the start it describes
    status,         \* DETACHED_STATUS: the handle and how its child ended
    failed,         \* spawn came back with an error in the detached task
    inherit_stdout, \* INHERITED_ENDS[1].stdout is set
    pending_stdin,  \* PENDING_STDIN[0] is set
    child_stdout,   \* fd 1 of the left program is the pipe's write end
    right_stdin,    \* fd 0 of the right program is the pipe's read end
    lent,           \* the frame allocator is lent to the detached task
    pipe,           \* the one pipe slot
    sent, received, \* history: what went into and came out of the current pipe
    eof,            \* history: the right program saw the end of the current pipe
    ending,         \* history: how each detached child ended
    answer          \* history: what the last wait_child returned

main_vars == <<mstate, mpc, awaited, pending_stdin, right_stdin>>
child_vars == <<cstate, cpc, cif, failed, inherit_stdout, child_stdout, lent>>
history == <<sent, received, eof>>
vars == <<running, main_vars, child_vars, gen, request, status, pipe, history,
          ending, answer>>

NoRequest == [owner |-> 0, stdout |-> FALSE]
NoAnswer == <<0, "none">>

Runnable(s) == s = "Ready"

----------------------------------------------------------------------------
\* pick_next on the bootstrap processor once the demo workers are done.
pick_next(current, ms, cs) ==
    IF current # "child" /\ Runnable(cs) THEN "child"
    ELSE IF Runnable(ms) THEN "main" ELSE "idle"

\* yield_now, with the task states after this step.
YieldFrom(current) == running' = pick_next(current, mstate', cstate')

\* wake_tasks_waiting_on, as seen by the state s of one task.
Woken(s, reasons) == IF s \in reasons THEN "Ready" ELSE s

\* The states in which the code that runs can be interrupted by the timer.
InterruptsOn ==
    CASE running = "main" -> mpc \in {"shell", "right"}
      [] running = "child" -> cpc = "left" \/ cif
      [] running = "idle" -> TRUE

\* on_timer_tick.
Tick ==
    /\ InterruptsOn
    /\ running' = pick_next(running, mstate, cstate)
    /\ UNCHANGED <<main_vars, child_vars, gen, request, status, pipe, history, ending, answer>>

----------------------------------------------------------------------------
\* The main task: the shell's system calls, then those of the right program.

\* Mutant: a child inside a system call does not count as entered.
InUserMode == cpc = "left"
InExcursion == cpc \in {"left", "writing"}

\* start_detached refused by start_ring3_task: the request has been written
\* over and is taken back, and so are both ends of the pipe just made.
StartRefused(to_pipe) ==
    /\ cstate # "Uninitialized"
    /\ to_pipe => ~pipe.in_use
    /\ request' = NoRequest
    /\ pipe' = IF to_pipe THEN close_write_end(drop_reservation(create(TRUE))) ELSE pipe
    /\ UNCHANGED history

\* spawn_detached_from_ring3 up to the wait for the child's entry.
SpawnDetached(to_pipe) ==
    /\ running = "main" /\ mpc = "shell"
    /\ gen < MaxStarts
    /\ cstate = "Uninitialized"
    /\ to_pipe => ~pipe.in_use
    /\ request' = [owner |-> gen + 1, stdout |-> to_pipe]
    /\ gen' = gen + 1
    /\ cstate' = "Ready" /\ cpc' = "borrow" /\ cif' = TRUE /\ failed' = FALSE
    /\ IF to_pipe
       THEN /\ pipe' = create(TRUE) /\ pending_stdin' = TRUE
            /\ sent' = <<>> /\ received' = <<>> /\ eof' = FALSE
       ELSE UNCHANGED <<pipe, pending_stdin, history>>
    /\ mpc' = "entry"
    /\ UNCHANGED <<running, mstate, awaited, right_stdin, inherit_stdout, child_stdout, lent,
                   status, ending, answer>>

SpawnDetachedRefused(to_pipe) ==
    /\ running = "main" /\ mpc = "shell"
    /\ StartRefused(to_pipe)
    /\ UNCHANGED <<running, main_vars, child_vars, gen, status, ending, answer>>

\* Its loop: back to the shell once the child is in Ring 3 or has ended.
AwaitEntry ==
    /\ running = "main" /\ mpc = "entry"
    /\ IF InExcursion \/ cstate = "Finished"
       THEN mpc' = "shell" /\ UNCHANGED running
       ELSE UNCHANGED mpc /\ running' = pick_next(running, mstate, cstate)
    /\ UNCHANGED <<mstate, awaited, pending_stdin, right_stdin, child_vars, gen, request,
                   status, pipe, history, ending, answer>>

\* spawn_with_piped_stdin_from_ring3: the reservation becomes the read end, and
\* the right program either starts on it or cannot be loaded.
SpawnWithPipedStdin ==
    /\ running = "main" /\ mpc = "shell"
    /\ pending_stdin /\ HasReservation(pipe)
    /\ pending_stdin' = FALSE
    /\ LET claimed == claim_reserved_reader(pipe)
       IN  \/ /\ ~lent
              /\ pipe' = claimed
              /\ mpc' = "right" /\ right_stdin' = TRUE
              /\ UNCHANGED cstate
           \/ /\ pipe' = close_read_end(claimed)
              /\ cstate' = IF LastReaderCloses(claimed) THEN Woken(cstate, {"PipeWritable"})
                           ELSE cstate
              /\ UNCHANGED <<mpc, right_stdin>>
    /\ UNCHANGED <<running, mstate, awaited, cpc, cif, failed, inherit_stdout, child_stdout, lent,
                   gen, request, status, history, ending, answer>>

\* Mutant: wait_child keeps a reservation that nobody used.
ReservationKept(handle) ==
    /\ running = "main" /\ mpc = "shell"
    /\ mpc' = "waiting" /\ awaited' = handle
    /\ UNCHANGED <<running, mstate, pending_stdin, right_stdin, child_vars, gen, request, status,
                   pipe, history, ending, answer>>

\* wait_child_from_ring3: an unused reservation goes away first.
WaitChild(handle) ==
    /\ running = "main" /\ mpc = "shell"
    /\ IF pending_stdin
       THEN /\ pipe' = drop_reservation(pipe)
            /\ cstate' = IF HasReservation(pipe) THEN Woken(cstate, {"PipeWritable"}) ELSE cstate
       ELSE UNCHANGED <<pipe, cstate>>
    /\ pending_stdin' = FALSE
    /\ mpc' = "waiting" /\ awaited' = handle
    /\ UNCHANGED <<running, mstate, right_stdin, cpc, cif, failed, inherit_stdout, child_stdout,
                   lent, gen, request, status, history, ending, answer>>

\* wait_for_ring3_task, one turn of its loop.
WaitForRing3Task ==
    /\ running = "main" /\ mpc = "waiting"
    /\ \/ /\ awaited # gen                                     \* NoSuchChild
          /\ mpc' = "shell" /\ answer' = NoAnswer
          /\ UNCHANGED <<running, mstate, cstate, cpc>>
       \/ /\ awaited = gen /\ cstate = "Finished"               \* reap_ring3_task
          /\ answer' = IF status[1] = awaited THEN status ELSE <<awaited, "failed">>
          /\ cstate' = "Uninitialized" /\ cpc' = "none"
          /\ mpc' = "shell"
          /\ UNCHANGED <<running, mstate>>
       \/ /\ awaited = gen /\ cstate # "Finished"
          /\ mstate' = "Child"
          /\ UNCHANGED <<mpc, cstate, cpc, answer>>
          /\ YieldFrom("main")
    /\ UNCHANGED <<awaited, pending_stdin, right_stdin, cif, failed, inherit_stdout, child_stdout,
                   lent, gen, request, status, pipe, history, ending>>

\* read_from_pipe by the right program: one turn of its loop, for n bytes.
ReadFromPipe(n) ==
    /\ running = "main" /\ mpc \in {"right", "reading"} /\ right_stdin
    /\ LET outcome == ReadOutcome(pipe)
       IN  \/ /\ outcome = "Bytes"
              /\ pipe' = [pipe EXCEPT !.ring = take(pipe.ring, n)]
              /\ received' = received \o Taken(pipe.ring, n)
              /\ cstate' = Woken(cstate, {"PipeWritable"})
              /\ mpc' = "right"
              /\ UNCHANGED <<running, mstate, eof>>
           \/ /\ outcome = "Eof"
              /\ mpc' = "right" /\ eof' = TRUE
              /\ UNCHANGED <<running, mstate, cstate, pipe, received>>
           \/ /\ outcome = "Empty"
              /\ mpc' = "reading" /\ mstate' = "PipeReadable"
              /\ UNCHANGED <<cstate, pipe, received, eof>>
              /\ YieldFrom("main")
    /\ UNCHANGED <<awaited, pending_stdin, right_stdin, cpc, cif, failed, inherit_stdout,
                   child_stdout, lent, gen, request, status, sent, ending, answer>>

\* The right program closes fd 0, or ends with it open: File::release_end.
CloseRightStdin(next) ==
    /\ running = "main" /\ mpc = "right"
    /\ next = "right" => right_stdin
    /\ mpc' = next
    /\ right_stdin' = FALSE
    /\ pipe' = IF right_stdin THEN close_read_end(pipe) ELSE pipe
    /\ cstate' = IF right_stdin /\ LastReaderCloses(pipe) THEN Woken(cstate, {"PipeWritable"})
                 ELSE cstate
    /\ UNCHANGED <<running, mstate, awaited, pending_stdin, cpc, cif, failed, inherit_stdout,
                   child_stdout, lent, gen, request, status, history, ending, answer>>

CloseStdin == CloseRightStdin("right")
ExitRight == CloseRightStdin("shell")

----------------------------------------------------------------------------
\* The detached task: run_detached_request, spawn and load_user_program, the
\* left program's own system calls, and the end of ring3_task_main.

\* A step of the detached task's kernel code that changes only its own state.
ChildStep(from, to) ==
    /\ running = "child" /\ cpc = from /\ cpc' = to
    /\ UNCHANGED <<main_vars, gen, answer, history>>

BorrowRequest ==
    /\ ChildStep("borrow", "spawn")
    /\ inherit_stdout' = request.stdout
    /\ UNCHANGED <<running, cstate, cif, failed, child_stdout, lent, request, status, pipe, ending>>

\* spawn fails before it loads, or load_user_program borrows the allocator.
SpawnFails ==
    /\ ChildStep("spawn", "unused")
    /\ failed' = TRUE /\ ending' = [ending EXCEPT ![gen] = "failed"]
    /\ UNCHANGED <<running, cstate, cif, inherit_stdout, child_stdout, lent, request, status,
                   pipe>>

TakeAllocator ==
    /\ ChildStep("spawn", "loading")
    /\ lent' = TRUE
    /\ UNCHANGED <<running, cstate, cif, failed, inherit_stdout, child_stdout, request, status,
                   pipe, ending>>

\* AddressSpace::new fails, or the file table is made and takes the write end.
AddressSpaceFails ==
    /\ ChildStep("loading", "unused")
    /\ lent' = FALSE
    /\ failed' = TRUE /\ ending' = [ending EXCEPT ![gen] = "failed"]
    /\ UNCHANGED <<running, cstate, cif, inherit_stdout, child_stdout, request, status, pipe>>

MakeFileTable ==
    /\ ChildStep("loading", "mapping")
    /\ child_stdout' = inherit_stdout /\ inherit_stdout' = FALSE
    /\ UNCHANGED <<running, cstate, cif, failed, lent, request, status, pipe, ending>>

\* load_user_program_into, then give_back whether it succeeded or not.
GiveBack ==
    /\ lent' = FALSE
    /\ UNCHANGED <<running, cstate, cif, inherit_stdout, child_stdout, request, status, pipe>>

MappingSucceeds ==
    /\ ChildStep("mapping", "entering")
    /\ GiveBack
    /\ UNCHANGED <<failed, ending>>

MappingFails ==
    /\ ChildStep("mapping", "dropping")
    /\ GiveBack
    /\ failed' = TRUE /\ ending' = [ending EXCEPT ![gen] = "failed"]

\* The way into Ring 3.  From here on the task's kernel code has interrupts off:
\* its system calls by the gate, what follows the excursion by the way back.
EnterRing3 ==
    /\ ChildStep("entering", "left")
    /\ cif' = FALSE
    /\ UNCHANGED <<running, cstate, failed, inherit_stdout, child_stdout, lent, request, status,
                   pipe, ending>>

\* write_to_pipe by the left program: one turn of its loop, for n bytes.
WriteToPipe(n) ==
    /\ running = "child" /\ cpc \in {"left", "writing"} /\ child_stdout
    /\ Len(sent) + n <= MaxSent
    /\ LET src == [k \in 1 .. n |-> Len(sent) + k]
           outcome == WriteOutcome(pipe)
       IN  \/ /\ outcome = "Bytes"
              /\ pipe' = [pipe EXCEPT !.ring = put(pipe.ring, src)]
              /\ sent' = sent \o SubSeq(src, 1, PutCount(pipe.ring, src))
              /\ mstate' = Woken(mstate, {"PipeReadable"})
              /\ cpc' = "left"
              /\ UNCHANGED <<running, cstate>>
           \/ /\ outcome = "NoReader"
              /\ cpc' = "left"
              /\ UNCHANGED <<running, mstate, cstate, pipe, sent>>
           \/ /\ outcome = "Full"
              /\ cpc' = "writing" /\ cstate' = "PipeWritable"
              /\ UNCHANGED <<mstate, pipe, sent>>
              /\ YieldFrom("child")
    /\ UNCHANGED <<mpc, awaited, pending_stdin, right_stdin, cif, failed, inherit_stdout,
                   child_stdout, lent, gen, request, status, received, eof, ending, answer>>

\* The write end goes back: by close, by dropping the file table, or because the
\* program never took it over.
ReturnWriteEnd(held) ==
    /\ pipe' = IF held THEN close_write_end(pipe) ELSE pipe
    /\ mstate' = IF held /\ LastWriterCloses(pipe) THEN Woken(mstate, {"PipeReadable"}) ELSE mstate
    /\ UNCHANGED <<running, mpc, awaited, pending_stdin, right_stdin, cstate, cif, failed, lent, gen,
                   request, status, history, ending, answer>>

CloseStdout ==
    /\ running = "child" /\ cpc = "left" /\ child_stdout
    /\ ReturnWriteEnd(TRUE)
    /\ child_stdout' = FALSE
    /\ UNCHANGED <<cpc, inherit_stdout>>

\* The left program itself asks for a detached child while it is one.
LeftSpawnsDetached(to_pipe) ==
    /\ running = "child" /\ cpc = "left"
    /\ StartRefused(to_pipe)
    /\ UNCHANGED <<running, main_vars, child_vars, gen, status, ending, answer>>

\* exit, a fault, or being folded: back from the excursion into load_user_program.
ExitLeft ==
    /\ ChildStep("left", "dropping")
    /\ ending' = [ending EXCEPT ![gen] = "exited"]
    /\ UNCHANGED <<running, cstate, cif, failed, inherit_stdout, child_stdout, lent, request,
                   status, pipe>>

DropFileTable ==
    /\ running = "child" /\ cpc = "dropping" /\ cpc' = "unused"
    /\ ReturnWriteEnd(child_stdout)
    /\ child_stdout' = FALSE
    /\ UNCHANGED inherit_stdout

\* Mutant: a write end that the program never took over is forgotten.
UnusedStdoutForgotten ==
    /\ running = "child" /\ cpc = "unused" /\ cpc' = "report"
    /\ ReturnWriteEnd(FALSE)
    /\ inherit_stdout' = FALSE
    /\ UNCHANGED child_stdout

ReturnUnusedStdout ==
    /\ running = "child" /\ cpc = "unused" /\ cpc' = "report"
    /\ ReturnWriteEnd(inherit_stdout)
    /\ inherit_stdout' = FALSE
    /\ UNCHANGED child_stdout

\* Mutant: the status is filed under the handle of the child before.
ReportedForPrevious ==
    /\ ChildStep("report", "finish")
    /\ status' = <<gen - 1, IF failed THEN "failed" ELSE "exited">>
    /\ UNCHANGED <<running, cstate, cif, failed, inherit_stdout, child_stdout, lent, request, pipe,
                   ending>>

ReportStatus ==
    /\ ChildStep("report", "finish")
    /\ status' = <<gen, IF failed THEN "failed" ELSE "exited">>
    /\ UNCHANGED <<running, cstate, cif, failed, inherit_stdout, child_stdout, lent, request, pipe,
                   ending>>

\* ring3_task_main: Finished first, then the wake-up, then yield for good.
SetFinished ==
    /\ ChildStep("finish", "wake")
    /\ cstate' = "Finished"
    /\ UNCHANGED <<running, cif, failed, inherit_stdout, child_stdout, lent, request, status, pipe,
                   ending>>

\* Mutant: the parent is not woken.
ParentNotWoken ==
    /\ ChildStep("wake", "yield")
    /\ UNCHANGED <<running, cstate, cif, failed, inherit_stdout, child_stdout, lent, request, status,
                   pipe, ending>>

WakeParent ==
    /\ running = "child" /\ cpc = "wake" /\ cpc' = "yield"
    /\ mstate' = IF awaited = gen THEN Woken(mstate, {"Child"}) ELSE mstate
    /\ UNCHANGED <<running, mpc, awaited, pending_stdin, right_stdin, cstate, cif, failed,
                   inherit_stdout, child_stdout, lent, gen, request, status, pipe, history,
                   ending, answer>>

YieldForGood ==
    /\ ChildStep("yield", "yield")
    /\ running' = pick_next("child", mstate, cstate)
    /\ UNCHANGED <<cstate, cif, failed, inherit_stdout, child_stdout, lent, request, status, pipe,
                   ending>>

----------------------------------------------------------------------------
Init ==
    /\ running = "main" /\ mstate = "Ready" /\ mpc = "shell" /\ awaited = 0
    /\ cstate = "Uninitialized" /\ cpc = "none" /\ cif = FALSE /\ failed = FALSE
    /\ gen = 0 /\ request = NoRequest /\ status = NoAnswer
    /\ inherit_stdout = FALSE /\ pending_stdin = FALSE
    /\ child_stdout = FALSE /\ right_stdin = FALSE
    /\ lent = FALSE
    /\ pipe = EmptyPipe
    /\ sent = <<>> /\ received = <<>> /\ eof = FALSE
    /\ ending = [g \in 1 .. MaxStarts |-> "none"] /\ answer = NoAnswer

Chunks == 1 .. RingSize + 1     \* how many bytes one read or write asks for

MainNext ==
    \/ \E to_pipe \in BOOLEAN : SpawnDetached(to_pipe) \/ SpawnDetachedRefused(to_pipe)
    \/ AwaitEntry
    \/ SpawnWithPipedStdin
    \/ \E handle \in 1 .. MaxStarts : WaitChild(handle)
    \/ WaitForRing3Task
    \/ \E n \in Chunks : ReadFromPipe(n)
    \/ CloseStdin \/ ExitRight

ChildNext ==
    \/ BorrowRequest \/ SpawnFails \/ TakeAllocator \/ AddressSpaceFails \/ MakeFileTable
    \/ MappingSucceeds \/ MappingFails \/ EnterRing3
    \/ \E n \in Chunks : WriteToPipe(n)
    \/ CloseStdout
    \/ \E to_pipe \in BOOLEAN : LeftSpawnsDetached(to_pipe)
    \/ ExitLeft \/ DropFileTable \/ ReturnUnusedStdout \/ ReportStatus
    \/ SetFinished \/ WakeParent \/ YieldForGood

Next == Tick \/ MainNext \/ ChildNext

Spec == Init /\ [][Next]_vars

----------------------------------------------------------------------------
\* Who holds a write end: the request of a child that has not borrowed it yet,
\* the side table, or the left program.
WriteEndHeld == (cpc = "borrow" /\ request.stdout) \/ inherit_stdout \/ child_stdout

(* The pipe counts exactly the ends that somebody still holds, so the last     *)
(* close is seen (end of file, EPIPE) and the slot is free for the next `|`    *)
(* as soon as nobody holds it, whichever of the load, spawn and wait paths     *)
(* gave an end up (pipe.rs, release_end, take_inherit_*, drop_reservation).    *)
PipeAccounting ==
    /\ pipe.writers = IF WriteEndHeld THEN 1 ELSE 0
    /\ pipe.readers = IF right_stdin THEN 1 ELSE 0
    /\ pipe.reserved_reader = pending_stdin
    /\ pipe.in_use = (WriteEndHeld \/ right_stdin \/ pending_stdin)

(* A task that waits has something to wait for: a reader only for an empty     *)
(* pipe with a writer, a writer only for a full pipe with a reader or a        *)
(* reservation, the parent only for a child that has not finished or is about  *)
(* to wake it.  A wake-up lost between the look and the wait breaks this.      *)
NoLostWakeUp ==
    /\ mstate = "PipeReadable" => pipe.ring.len = 0 /\ pipe.writers > 0
    /\ cstate = "PipeWritable" =>
          room(pipe.ring) = 0 /\ (pipe.readers > 0 \/ pipe.reserved_reader)
    /\ mstate = "Child" => cstate # "Finished" \/ (running = "child" /\ cpc = "wake")

(* What wait_child returns is how the child with that handle ended, and never  *)
(* the ending of an earlier child or a value read before the child reported.   *)
AnswerIsTheChildsEnding == answer[1] # 0 => answer[2] = ending[answer[1]]

(* The pipeline implements the byte stream that `left | right` stands for:     *)
(* the ring, its wake-ups and every path that closes an end lose, repeat or    *)
(* reorder nothing, and end of file is reported to the right program only when *)
(* the left one is gone and everything it wrote has been read.                 *)
ByteStream == INSTANCE Stream WITH Capacity <- RingSize, closed <- pipe.writers = 0, ended <- eof
StreamOK == ByteStream!Spec

----------------------------------------------------------------------------
\* Fairness.  The timer keeps ticking.  Kernel code that runs goes on; with
\* interrupts on it may be put aside, but not before each of its steps for ever
\* (a tick is 10 ms).  Programs end by themselves or are folded, and the shell
\* waits for the child that it started.
ReadAgain == mpc = "reading" /\ \E n \in Chunks : ReadFromPipe(n)
WriteAgain == cpc = "writing" /\ \E n \in Chunks : WriteToPipe(n)
ChildKernel ==
    \/ BorrowRequest \/ SpawnFails \/ TakeAllocator \/ AddressSpaceFails \/ MakeFileTable
    \/ MappingSucceeds \/ MappingFails \/ EnterRing3
    \/ DropFileTable \/ ReturnUnusedStdout \/ ReportStatus
    \/ SetFinished \/ WakeParent \/ YieldForGood

Fairness ==
    /\ WF_vars(Tick) /\ WF_vars(AwaitEntry) /\ WF_vars(WaitForRing3Task)
    /\ WF_vars(ReadAgain) /\ WF_vars(WriteAgain) /\ SF_vars(ChildKernel)
    /\ SF_vars(ExitLeft) /\ SF_vars(ExitRight)
    /\ SF_vars(gen # 0 /\ WaitChild(gen))

LiveSpec == Spec /\ Fairness

(* spawn_detached comes back: the child enters Ring 3 or ends, whatever fails  *)
(* on its way, although the main task polls instead of sleeping.               *)
EntryReturns == mpc = "entry" ~> mpc = "shell"

(* wait_child for a child that has not been reaped comes back: the child is    *)
(* not stuck on a pipe that nobody will read, and its one wake-up reaches the  *)
(* parent.                                                                     *)
WaitReturns == mpc = "waiting" /\ cstate # "Uninitialized" ~> mpc = "shell"

(* A read from the pipe comes back, with bytes or with end of file.            *)
ReadReturns == mpc = "reading" ~> mpc = "right"

(* A write to the pipe comes back, with a count or with EPIPE, also when the   *)
(* right program could not be started or never reads.                          *)
WriteReturns == cpc = "writing" ~> cpc = "left"

----------------------------------------------------------------------------
(* What the comments on ChildStatus, ring3_task_handle and ECHILD say of a      *)
(* second wait with the handle of a child already reaped: it comes back.       *)
SecondWaitReturns == mpc = "waiting" /\ cstate = "Uninitialized" ~> mpc = "shell"
============================================================================
