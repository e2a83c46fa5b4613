---------------------------- MODULE SpawnAccounting ----------------------------
(***************************************************************************)
(* The frame accounting of spawn (userland.rs).  Every spawn opens a       *)
(* window, counts the free frames before and after its child, and compares *)
(* the difference with the frames the destruction put into quarantine.     *)
(* Two Ring 3 slots run children at once: slot 0 holds init, the shell and *)
(* what the shell starts, slot 1 a detached child; a child may start       *)
(* children of its own in the same slot.  The difference is judged only    *)
(* when no window of another slot crossed this one.  The frame allocator   *)
(* is lent out (frame_allocator.rs: take, give_back) to one user at a time.*)
(***************************************************************************)
EXTENDS Naturals, Sequences

CONSTANTS
    Frames,         \* free frames at the start
    Capacity,       \* entries of a slot's quarantine
    MaxDepth,       \* MAX_EXCURSION_DEPTH
    MaxHeap,        \* HEAP_LIMIT, in pages
    MaxTables,      \* bound: tables of a space
    MaxStarts,      \* bound: windows a slot opens
    MaxShared       \* bound: shared frames held at a time

ASSUME BoundsAssumption ==
    /\ Frames \in Nat /\ Capacity \in Nat /\ MaxDepth \in Nat
    /\ MaxHeap \in Nat /\ MaxTables \in Nat /\ MaxStarts \in Nat /\ MaxShared \in Nat

VARIABLES
    free,           \* free_frame_count()
    loan,           \* whether the allocator is on loan (ON_LOAN)
    refused,        \* history: somebody asked for the allocator while it was on loan
    shared_held,    \* SHARED_FRAMES_HELD
    quarantined,    \* SPAWN_QUARANTINED
    leaked,         \* SPAWN_LEAKED
    astray,         \* history: pages the loader took and neither mapped nor gave back
    windows_open,   \* SPAWN_WINDOWS_OPEN
    window_starts,  \* SPAWN_WINDOW_STARTS
    calls,          \* slot -> the calls of spawn under way, outermost first
    detached,       \* the detached task: "none", "started", "finished"
    awaiting        \* slot 0 waits until the detached child has entered Ring 3

vars == <<free, loan, refused, shared_held, quarantined, leaked, astray, windows_open,
          window_starts, calls, detached, awaiting>>

Slots == {0, 1}
Other(s) == 1 - s
Depth(s) == Len(calls[s])
Top(s) == calls[s][Depth(s)]
Runs(s) == Depth(s) > 0 /\ Top(s).pc = "running"

\* Kernel code of a slot that no tick can interrupt: everything inside a system
\* call, and everything after an excursion.  Only the detached task up to its
\* first excursion (or its failed load) has interrupts on.
Masked(s) == Depth(s) > 0 /\ ~Runs(s) /\ Top(s).masked

\* Mutant: spawn_detached returns before its child has entered Ring 3.
ReturnsEarly(s) == ~Masked(Other(s))

\* One processor: a slot moves unless the other one is in masked kernel code;
\* slot 0 does not while it waits for the detached child to enter Ring 3.
MayRun(s) == ~Masked(Other(s)) /\ ~(s = 0 /\ awaiting)

At(s, pc) == MayRun(s) /\ Depth(s) > 0 /\ Top(s).pc = pc
Becomes(s, call) == calls' = [calls EXCEPT ![s][Depth(s)] = call]

\* take: the action happens with the allocator borrowed, or the caller is refused.
Borrowing(Action, Refusal) ==
    IF loan THEN refused' = TRUE /\ Refusal ELSE Action /\ UNCHANGED refused

----------------------------------------------------------------------------
\* Windows.

\* Mutant: only the windows open at both ends are looked at.
CrossedAtTheEnds(s, window) == window.open > 0 \/ windows_open[Other(s)] > 0

\* close_spawn_window: another window was open when this one was opened or is
\* open now, or one was opened in between.
Crossed(s, window) ==
    \/ window.open > 0
    \/ windows_open[Other(s)] > 0
    \/ window_starts[Other(s)] # window.starts

\* open_spawn_window: what is open and was opened elsewhere.
OpenWindow(s) == [open |-> windows_open[Other(s)], starts |-> window_starts[Other(s)]]

\* spawn up to the window: the counters of the grandchildren, then the window.
\* met records for the properties that another slot's window was open meanwhile.
OpenSpawnWindow(s) ==
    /\ MayRun(s)
    /\ \/ Runs(s)
       \/ Depth(s) = 0 /\ s = 0
       \/ Depth(s) = 0 /\ s = 1 /\ detached = "started"
    /\ Depth(s) < MaxDepth /\ window_starts[s] < MaxStarts
    /\ calls' = [calls EXCEPT
           ![s] = Append(@, [pc |-> "opened", masked |-> s = 0 \/ Depth(s) > 0,
                     window |-> OpenWindow(s), met |-> Depth(Other(s)) > 0,
                     children |-> quarantined, lost |-> leaked, strays |-> astray,
                     free |-> 0, shared |-> shared_held,
                     tables |-> 0, leaves |-> 0, heap |-> 0, counted |-> 0, post |-> 0,
                     fds |-> 0, inbox |-> 0,
                     held |-> 0, spill |-> 0, taken |-> 0, consumed |-> 0, crossed |-> FALSE]),
           ![Other(s)] = [d \in DOMAIN @ |-> [@[d] EXCEPT !.met = TRUE]]]
    /\ windows_open' = [windows_open EXCEPT ![s] = @ + 1]
    /\ window_starts' = [window_starts EXCEPT ![s] = @ + 1]
    /\ UNCHANGED <<free, loan, refused, shared_held, quarantined, leaked, astray, detached, awaiting>>

\* The return of spawn; the detached task ends with its one call.
Return(s) ==
    /\ calls' = [calls EXCEPT ![s] = SubSeq(@, 1, Depth(s) - 1)]
    /\ detached' = IF s = 1 /\ Depth(1) = 1 THEN "finished" ELSE detached

\* free_before.  A caller that cannot borrow leaves with its window open.
CountBefore(s) ==
    /\ At(s, "opened")
    /\ Borrowing(Becomes(s, [Top(s) EXCEPT !.pc = "counted", !.free = free]) /\ UNCHANGED detached,
                 Return(s))
    /\ UNCHANGED <<free, loan, shared_held, quarantined, leaked, astray, windows_open, window_starts, awaiting>>

----------------------------------------------------------------------------
\* load_user_program.

BeginLoad(s) ==
    /\ At(s, "counted")
    /\ Borrowing(loan' = TRUE /\ Becomes(s, [Top(s) EXCEPT !.pc = "loading"]),
                 Becomes(s, [Top(s) EXCEPT !.pc = "gone"]) /\ UNCHANGED loan)
    /\ UNCHANGED <<free, shared_held, quarantined, leaked, astray, windows_open, window_starts,
                   detached, awaiting>>

\* AddressSpace::new and map_user_4kib: what is linked into the space is counted.
Mapped(call, tables, leaves) ==
    [call EXCEPT !.tables = @ + tables, !.leaves = @ + leaves, !.counted = @ + tables + leaves]

\* The space is built and the program mapped, here with a top table, a page and the table
\* for it; the allocator is given back before Ring 3.
Load(s) ==
    /\ At(s, "loading") /\ free >= 3
    /\ free' = free - 3
    /\ loan' = FALSE
    /\ Becomes(s, [Mapped(Top(s), 2, 1) EXCEPT !.pc = "running"])
    /\ UNCHANGED <<refused, shared_held, quarantined, leaked, astray, windows_open, window_starts,
                   detached, awaiting>>

\* The image is refused, the frames run out or the arguments are too long after some
\* frames were taken; the space is destroyed all the same.  A page of a segment that found
\* no table is given back; the tables on the way to it stay.
LoadFailsHalfway(s) ==
    /\ At(s, "loading")
    /\ \E t \in 1 .. 2, p \in 0 .. 1 :
        /\ t + p <= free
        /\ p = 1 => t = 2
        /\ t = 2 /\ p = 0 => free = 3
        /\ free' = free - (t + p)
        /\ Becomes(s, [Mapped(Top(s), t, p) EXCEPT !.pc = "left"])
    /\ loan' = FALSE
    /\ UNCHANGED <<refused, shared_held, quarantined, leaked, astray, windows_open, window_starts,
                   detached, awaiting>>

\* A page whose address is not canonical, or the page of the stack that finds no table, is
\* not given back.
LoadLosesPage(s) ==
    /\ At(s, "loading") /\ free >= 2
    /\ free' = free - 2
    /\ astray' = astray + 1
    /\ loan' = FALSE
    /\ Becomes(s, [Mapped(Top(s), 1, 0) EXCEPT !.pc = "left"])
    /\ UNCHANGED <<refused, shared_held, quarantined, leaked, windows_open, window_starts,
                   detached, awaiting>>

\* No frame for the space itself.
LoadFails(s) ==
    /\ At(s, "loading") /\ free = 0
    /\ loan' = FALSE
    /\ Becomes(s, [Top(s) EXCEPT !.pc = "gone"])
    /\ UNCHANGED <<free, refused, shared_held, quarantined, leaked, astray, windows_open, window_starts,
                   detached, awaiting>>

\* exit, a fault or Ctrl+C: the excursion returns with interrupts off.
LeaveExcursion(s) ==
    /\ At(s, "running")
    /\ Becomes(s, [Top(s) EXCEPT !.pc = "left", !.masked = TRUE])
    /\ UNCHANGED <<free, loan, refused, shared_held, quarantined, leaked, astray, windows_open,
                   window_starts, detached, awaiting>>

\* saturating_sub
Minus(a, b) == IF a >= b THEN a - b ELSE 0

\* frames_taken() + post_load_frames(): what was counted while the space grew.
Taken(call) == call.counted + call.post

\* detach: what its walk through the space meets, the tables and the leaves but the
\* shared ones.
Collected(call) == call.tables + call.leaves

\* retire_address_space: every frame of the space, as many as the quarantine holds.  Then
\* the process goes, and its descriptors with it.
Destroy(s) ==
    /\ At(s, "left")
    /\ LET call == Top(s)
           spill == Minus(Collected(call), Capacity)
       IN  /\ Becomes(s, [call EXCEPT !.pc = "gone", !.taken = Taken(call), !.spill = spill,
                                      !.held = Collected(call) - spill, !.fds = 0])
           /\ shared_held' = shared_held - call.fds
           /\ Borrowing(free' = free + call.fds, UNCHANGED free)
    /\ UNCHANGED <<loan, quarantined, leaked, astray, windows_open, window_starts, detached, awaiting>>

----------------------------------------------------------------------------
\* The rest of spawn.

\* Mutant: the shared frames are not taken out of the difference.
ConsumedAll(call, after) == Minus(call.free, after)

\* consumed: the frames that left, without those shared memory took and kept.
Consumed(call, after) == Minus(Minus(call.free, after), Minus(shared_held, call.shared))

CountAfter(s) ==
    /\ At(s, "gone")
    /\ LET Counted(after) ==
               Becomes(s, [Top(s) EXCEPT !.pc = "closing", !.consumed = Consumed(Top(s), after)])
       IN  Borrowing(Counted(free), Counted(Top(s).free))
    /\ UNCHANGED <<free, loan, shared_held, quarantined, leaked, astray, windows_open, window_starts,
                   detached, awaiting>>

CloseSpawnWindow(s) ==
    /\ At(s, "closing")
    /\ windows_open' = [windows_open EXCEPT ![s] = @ - 1]
    /\ Becomes(s, [Top(s) EXCEPT !.pc = "closed", !.crossed = Crossed(s, Top(s).window)])
    /\ UNCHANGED <<free, loan, refused, shared_held, quarantined, leaked, astray, window_starts,
                   detached, awaiting>>

\* What the children of this call put into quarantine, and its own.
Quarantined(call) == call.held + Minus(quarantined, call.children)
AllLeaked(call) == call.spill + Minus(leaked, call.lost)

\* The child's share goes to the account of the parent's window.
Report(s) ==
    /\ At(s, "closed")
    /\ quarantined' = quarantined + Top(s).held
    /\ leaked' = leaked + Top(s).spill
    /\ Return(s)
    /\ UNCHANGED <<free, loan, refused, shared_held, astray, windows_open, window_starts, awaiting>>

----------------------------------------------------------------------------
\* System calls of the running programs.

Calls(s) == At(s, "running")
    /\ UNCHANGED <<loan, quarantined, leaked, astray, windows_open, window_starts>>

\* note_post_load_frames, with the difference of the free frames around the mapping.
Noted(call, before, after) == [call EXCEPT !.post = @ + Minus(before, after)]

\* Mutant: what brk takes is not counted.
BrkUncounted(s) ==
    /\ Calls(s)
    /\ \E p \in 0 .. 1, t \in 0 .. 1 :
        /\ p + t > 0 /\ p + t <= free
        /\ Top(s).heap + p <= MaxHeap /\ Top(s).tables + t <= MaxTables
        /\ p = 0 => free = t + 1
        /\ Borrowing(/\ free' = free - (p + t)
                     /\ Becomes(s, [Top(s) EXCEPT !.leaves = @ + p, !.heap = @ + p, !.tables = @ + t]),
                     UNCHANGED <<free, calls>>)
    /\ UNCHANGED <<shared_held, detached, awaiting>>

\* A page, and a table where there is none for it yet.  A page that finds no table is
\* given back; the tables on the way to it stay.
BrkGrows(s) ==
    /\ Calls(s)
    /\ \E p \in 0 .. 1, t \in 0 .. 1 :
        /\ p + t > 0 /\ p + t <= free
        /\ Top(s).heap + p <= MaxHeap /\ Top(s).tables + t <= MaxTables
        /\ p = 0 => free = t + 1
        /\ Borrowing(/\ free' = free - (p + t)
                     /\ Becomes(s, Noted([Top(s) EXCEPT !.leaves = @ + p, !.heap = @ + p,
                                                        !.tables = @ + t], free, free')),
                     UNCHANGED <<free, calls>>)
    /\ UNCHANGED <<shared_held, detached, awaiting>>

\* note_post_load_frames_returned, with the leaves that were unmapped; the tables stay.
BrkShrinks(s) ==
    /\ Calls(s) /\ Top(s).heap > 0
    /\ Borrowing(/\ free' = free + 1
                 /\ Becomes(s, [Top(s) EXCEPT !.leaves = @ - 1, !.heap = @ - 1,
                                              !.post = Minus(@, 1)]),
                 UNCHANGED <<free, calls>>)
    /\ UNCHANGED <<shared_held, detached, awaiting>>

\* memfd_create and ftruncate.
SetSize(s) ==
    /\ Calls(s) /\ free > 0 /\ shared_held < MaxShared
    /\ Borrowing(/\ free' = free - 1 /\ shared_held' = shared_held + 1
                 /\ Becomes(s, [Top(s) EXCEPT !.fds = @ + 1]),
                 UNCHANGED <<free, shared_held, calls>>)
    /\ UNCHANGED <<detached, awaiting>>

\* A mapping that needs a table; the leaves are shared and not the space's.
Mmap(s) ==
    /\ Calls(s) /\ free > 0 /\ Top(s).fds > 0 /\ Top(s).tables < MaxTables
    /\ Borrowing(/\ free' = free - 1
                 /\ Becomes(s, Noted([Top(s) EXCEPT !.tables = @ + 1], free, free')),
                 UNCHANGED <<free, calls>>)
    /\ UNCHANGED <<shared_held, detached, awaiting>>

\* The last descriptor is closed; shm::detach drops the count even if it is refused.
CloseShm(s) ==
    /\ Calls(s) /\ Top(s).fds > 0
    /\ shared_held' = shared_held - 1
    /\ Becomes(s, [Top(s) EXCEPT !.fds = @ - 1])
    /\ Borrowing(free' = free + 1, UNCHANGED free)
    /\ UNCHANGED <<detached, awaiting>>

\* A descriptor goes over a connection to a program of the other slot, to a waiting
\* parent or to the sender itself; what the receiver does not take before it ends
\* is held by nobody.
SendShm(s) ==
    /\ Calls(s) /\ Top(s).fds > 0
    /\ \E t \in Slots : \E d \in 1 .. Depth(t) :
           /\ calls[t][d].pc = "running"
           /\ calls' = [calls EXCEPT ![s][Depth(s)].fds = @ - 1, ![t][d].inbox = @ + 1]
    /\ UNCHANGED <<free, refused, shared_held, detached, awaiting>>

ReceiveShm(s) ==
    /\ Calls(s) /\ Top(s).inbox > 0
    /\ Becomes(s, [Top(s) EXCEPT !.inbox = @ - 1, !.fds = @ + 1])
    /\ UNCHANGED <<free, refused, shared_held, detached, awaiting>>

\* spawn_detached: the request is placed and the caller waits.
SpawnDetached ==
    /\ Calls(0) /\ detached = "none" /\ window_starts[1] < MaxStarts
    /\ detached' = "started"
    /\ awaiting' = TRUE
    /\ UNCHANGED <<free, refused, shared_held, calls>>

\* ring3_task_in_excursion() or ring3_task_finished().
ChildHasEntered ==
    /\ awaiting /\ ~Masked(1)
    /\ detached = "finished" \/ \E d \in 1 .. Depth(1) : calls[1][d].pc = "running"
    /\ awaiting' = FALSE
    /\ UNCHANGED <<free, loan, refused, shared_held, quarantined, leaked, astray, windows_open,
                   window_starts, calls, detached>>

WaitChild ==
    /\ Calls(0) /\ detached = "finished"
    /\ detached' = "none"
    /\ UNCHANGED <<free, refused, shared_held, calls, awaiting>>

----------------------------------------------------------------------------
Init ==
    /\ free = Frames
    /\ loan = FALSE /\ refused = FALSE
    /\ shared_held = 0 /\ quarantined = 0 /\ leaked = 0 /\ astray = 0
    /\ windows_open = [s \in Slots |-> 0]
    /\ window_starts = [s \in Slots |-> 0]
    /\ calls = [s \in Slots |-> <<>>]
    /\ detached = "none" /\ awaiting = FALSE

Next ==
    \/ \E s \in Slots :
        \/ OpenSpawnWindow(s) \/ CountBefore(s) \/ BeginLoad(s)
        \/ Load(s) \/ LoadFailsHalfway(s) \/ LoadLosesPage(s) \/ LoadFails(s)
        \/ LeaveExcursion(s) \/ Destroy(s)
        \/ CountAfter(s) \/ CloseSpawnWindow(s) \/ Report(s)
        \/ BrkGrows(s) \/ BrkShrinks(s)
        \/ SetSize(s) \/ Mmap(s) \/ CloseShm(s) \/ SendShm(s) \/ ReceiveShm(s)
    \/ SpawnDetached \/ ChildHasEntered \/ WaitChild

Spec == Init /\ [][Next]_vars

----------------------------------------------------------------------------
Closed == {c \in {Top(s) : s \in {t \in Slots : Depth(t) > 0}} : c.pc = "closed"}

\* A window that was not crossed judges exactly its own child: the frames that left
\* the allocator are those its child and its child's children put into quarantine or
\* leaked.  Spawn reports a loss (DestroyAccounting) exactly if a load in this very window
\* lost a page, never because of what the other slot did.
DifferenceIsOwn ==
    \A c \in Closed :
        ~c.crossed => c.consumed = Quarantined(c) + AllLeaked(c) + (astray - c.strays)

\* The space of every child is collected to the last frame, crossed or not: the walk that
\* takes it apart meets as many frames as were counted by the loader, brk and mmap while
\* it grew, less those brk counted as given back.
SpaceIsCollected == \A c \in Closed : c.held + c.spill = c.taken

\* A window counts as crossed exactly if a window of the other slot was open at some
\* moment of it: the global difference is judged whenever it may be, never otherwise.
CrossedIsOverlap == \A c \in Closed : c.crossed = c.met

\* Nobody asks for the frame allocator while somebody has it: not the loader of one
\* slot, nor brk, mmap, ftruncate, close or the accounting of the other.
NobodyRefused == ~refused
=============================================================================
