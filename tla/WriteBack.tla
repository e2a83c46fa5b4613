----------------------------- MODULE WriteBack -----------------------------
(***************************************************************************)
(* Saving a file: programs change the root file system's image in memory,  *)
(* and close of a file opened for writing sends the whole image to the     *)
(* disk through virtio-blk (syscall.rs flush_root_image, virtio.rs).  The  *)
(* request is issued under the kernel lock; the wait for its end happens   *)
(* without it and with interrupts on, so the other program runs meanwhile. *)
(*                                                                         *)
(* A write of a program changes several blocks of the image (data, inode,  *)
(* bitmap) in one system call, so the image is the number of that write;   *)
(* the disk keeps, per block, the write it last copied.  The device is     *)
(* external: it takes a request when it sees a new avail.idx, copies block *)
(* after block, and says so in status, used.idx and its interrupt.  It may *)
(* fail a request, and it may be slower than the driver's patience.  Every *)
(* request uses descriptor 0, so the ring slots and used ids are left out. *)
(* The device is installed throughout (main.rs installs it before init).   *)
(***************************************************************************)
EXTENDS Integers

CONSTANTS
    Programs,       \* programs in Ring 3 on the bootstrap processor
    Blocks,         \* blocks of the image
    INDICES,        \* ring indices before they wrap (2^16)
    MaxWrites, MaxErrors, MaxTimeouts      \* bounds

ASSUME WriteBackAssumption ==
    /\ INDICES \in Nat \ {0, 1} /\ Blocks # {}
    /\ MaxWrites \in Nat /\ MaxErrors \in Nat /\ MaxTimeouts \in Nat

VARIABLES
    image,          \* the last write that changed the image
    pc,             \* per program: "user", "sleeping" or "polling" in close
    in_use,         \* DEVICE_IN_USE
    completed,      \* VirtioBlk.completed
    woken,          \* IRQ_DELIVERED has moved since the last request was issued
    avail, used, status, isr,              \* what driver and device share
    seen, copying, disk,                   \* the device
    mine, result,   \* history, per program: its last write, what close returned since
    errors, timeouts

shared == <<avail, used, status, isr>>
device == <<seen, copying, disk>>
vars == <<image, pc, in_use, completed, woken, shared, device, mine, result, errors, timeouts>>

UNSENT == 255
OK == 0
IOERR == 1

\* wrapping_add(1).
next_index(index) == IF index = INDICES - 1 THEN 0 ELSE index + 1

Busy == copying # {}
Pending == Busy \/ avail # seen

----------------------------------------------------------------------------
(* Programs *)

\* sys_write_to_file: one append.
Write(p) ==
    /\ pc[p] = "user" /\ image < MaxWrites
    /\ image' = image + 1
    /\ mine' = [mine EXCEPT ![p] = image'] /\ result' = [result EXCEPT ![p] = "none"]
    /\ UNCHANGED <<pc, in_use, completed, woken, shared, device, errors, timeouts>>

\* Mutant: the index is published as it was.
old_index == completed

\* The index issue_at publishes, and returns to be waited for.
published_index == next_index(completed)

\* issue_at, up to the notification.
Issue ==
    /\ status' = UNSENT
    /\ avail' = published_index
    /\ woken' = FALSE
    /\ UNCHANGED <<used, isr>>

\* Mutant: the claim does not look at the flag.
AlwaysFree == TRUE

\* claim.
Claimable == ~in_use

\* close of a file opened for writing, until it waits.
Close(p) ==
    /\ pc[p] = "user"
    /\ IF Claimable
       THEN /\ in_use' = TRUE
            /\ Issue
            /\ pc' = [pc EXCEPT ![p] = "sleeping"] /\ result' = [result EXCEPT ![p] = "none"]
       ELSE /\ result' = [result EXCEPT ![p] = "EBUSY"]
            /\ UNCHANGED <<in_use, woken, shared, pc>>
    /\ UNCHANGED <<image, completed, device, mine, errors, timeouts>>

\* wait_for_image_write stops sleeping, because an interrupt of the device has come,
\* which may be the last request's, or because its deadline has passed.
StopSleeping(p) ==
    /\ pc[p] = "sleeping"
    /\ pc' = [pc EXCEPT ![p] = "polling"]
    /\ UNCHANGED <<image, in_use, completed, woken, shared, device, mine, result, errors, timeouts>>

WokenByInterrupt(p) == woken /\ StopSleeping(p)
DeadlinePasses(p) == ~woken /\ StopSleeping(p)

\* close returns, giving up the claim.
Finish(p, outcome) ==
    /\ pc' = [pc EXCEPT ![p] = "user"] /\ result' = [result EXCEPT ![p] = outcome]
    /\ in_use' = FALSE
    /\ UNCHANGED <<image, woken, shared, device, mine, errors>>

\* wait_for_used sees the request's index.
request_is_used == used = next_index(completed)

\* Mutant: the status is not looked at.
any_status == TRUE

status_is_ok == status = OK

Poll(p) ==
    /\ pc[p] = "polling" /\ request_is_used
    /\ IF status_is_ok
       THEN completed' = next_index(completed) /\ Finish(p, "ok")
       ELSE UNCHANGED completed /\ Finish(p, "EIO")
    /\ UNCHANGED timeouts

\* POLL_SPIN_LIMIT is reached.
PollTimesOut(p) ==
    /\ pc[p] = "polling" /\ ~request_is_used
    /\ timeouts < MaxTimeouts /\ timeouts' = timeouts + 1
    /\ Finish(p, "EIO")
    /\ UNCHANGED completed

\* handle_irq.
Interrupt ==
    /\ isr /\ isr' = FALSE /\ woken' = TRUE
    /\ UNCHANGED <<image, pc, in_use, completed, avail, used, status, device, mine, result,
                   errors, timeouts>>

----------------------------------------------------------------------------
(* The device *)

TakeRequest ==
    /\ ~Busy /\ avail # seen
    /\ seen' = avail /\ copying' = Blocks
    /\ UNCHANGED <<image, pc, in_use, completed, woken, shared, disk, mine, result, errors, timeouts>>

Answer(st) == status' = st /\ used' = next_index(used) /\ isr' = TRUE /\ UNCHANGED avail

CopyBlock(b) ==
    /\ b \in copying
    /\ copying' = copying \ {b} /\ disk' = [disk EXCEPT ![b] = image]
    /\ IF copying' = {} THEN Answer(OK) ELSE UNCHANGED shared
    /\ UNCHANGED <<image, pc, in_use, completed, woken, seen, mine, result, errors, timeouts>>

FailRequest ==
    /\ Busy /\ errors < MaxErrors /\ errors' = errors + 1
    /\ copying' = {}
    /\ Answer(IOERR)
    /\ UNCHANGED <<image, pc, in_use, completed, woken, seen, disk, mine, result, timeouts>>

----------------------------------------------------------------------------
Init ==
    /\ image = 0 /\ disk = [b \in Blocks |-> 0]
    /\ pc = [p \in Programs |-> "user"]
    /\ mine = [p \in Programs |-> 0] /\ result = [p \in Programs |-> "none"]
    /\ in_use = FALSE /\ woken = FALSE /\ isr = FALSE /\ status = OK
    /\ completed \in 0 .. INDICES - 1 /\ avail = completed /\ used = completed /\ seen = completed
    /\ copying = {} /\ errors = 0 /\ timeouts = 0

DeviceStep == TakeRequest \/ (\E b \in Blocks : CopyBlock(b)) \/ FailRequest
Waits(p) == WokenByInterrupt(p) \/ DeadlinePasses(p) \/ Poll(p) \/ PollTimesOut(p)

Next ==
    \/ \E p \in Programs : Write(p) \/ Close(p) \/ Waits(p)
    \/ Interrupt \/ DeviceStep

Spec == Init /\ [][Next]_vars

\* The waiter's deadline passes and its loop runs on; the device answers what it was sent.
LiveSpec == Spec /\ WF_vars(DeviceStep) /\ \A p \in Programs : WF_vars(Waits(p))

----------------------------------------------------------------------------
(* Properties *)

\* A close that returned 0 has saved what its program had written, in every block, however
\* the other program wrote, closed, was refused or failed meanwhile, and whatever interrupt
\* ended the wait.  It is promised as long as no request was given up: after a timeout the
\* index is published again and the late answer is taken for the new request's (issue_at,
\* wait_for_used).
SavedIsOnDisk ==
    timeouts = 0 =>
        \A p \in Programs, b \in Blocks : result[p] = "ok" => disk[b] >= mine[p]

\* "Requests are issued one at a time, the next one after the last has come back": while
\* the device has work, one program holds the claim and waits for exactly that request
\* (claim, DeviceClaim::drop), unless a request was given up.
DeviceWorksForTheClaim ==
    timeouts = 0 /\ Pending =>
        /\ in_use /\ avail = next_index(completed) /\ used = completed
        /\ \E p \in Programs : \A q \in Programs : pc[q] # "user" <=> q = p

\* Every close returns, also after a request that failed or was given up: the index that is
\* waited for is one the device has reached or will reach.
CloseReturns == \A p \in Programs : pc[p] # "user" ~> pc[p] = "user"
=============================================================================
