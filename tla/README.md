# ZeikOS in TLA+

A verification development kept beside the ZeikOS kernel, an x86-64 operating system in Rust. It
models the parts of the kernel where several actors meet: cores and their TLBs, tasks and the timer,
nested user programs, programs that share pipes, sockets, memory, the terminal and the disk, and the
frame accounting and the file system that have to come out right in the middle of all this. TLC checks
the models on small instances. TLAPS proves the central safety properties of seven of them, and of the ext2
bitmaps and the conversions of time, for every value of their constants.

Paths without a prefix are under `src/kernel/src/`.

## 1. The system

### Parts, state and operations

| Part | Source | State | Operations | Correct when |
|---|---|---|---|---|
| Big kernel lock | `bkl.rs` | holder, `TLB_GENERATION`, `SEEN_GENERATION` per core | `acquire`, drop, `note_mapping_changed`, `generation_is_retired` | a core that wins the lock has flushed for every mapping change made under it |
| Frame quarantine | `quarantine.rs` | frames of dead spaces with a generation stamp | `retire_address_space`, `release_retired`, `reset` | a frame is handed out again only when no core caches it |
| Tasks and switching | `task.rs`, `task/scheduler.rs` | a fixed table of tasks, current task per core | `schedule_switch`, `pick_next`, wait sets, wake-ups, timers | the processor always holds the running task's state; nobody sleeps past a wake-up |
| Excursions | `arch/x86_64/ring3.rs`, `userland.rs` | per task: nesting depth, recovery points, records of how a program ended | `run_excursion`, `leave_user_mode`, fold, `spawn` | every way out of Ring 3 lands in the right activation, and parents learn the truth |
| Detached child | `userland.rs`, `task.rs` | one extra Ring 3 task, its request, handle and status | `start_detached`, `wait_for_ring3_task`, reap | the parent gets the ending of the child it asked for |
| Pipes | `ring.rs`, `pipe.rs` | a byte ring, counted ends, one reservation | read, write, close, reserve, claim | a byte stream with an end; no end is counted that nobody holds |
| Sockets | `socket.rs` | one listener, two connections, a ring and a pending descriptor per side | bind, listen, connect, accept, read, write, close, `queue_fd`, `take_fd` | ends, slots and descriptors agree; a descriptor comes with its bytes |
| Shared memory | `shm.rs` | two objects with frames and a reference count | create, `set_size`, attach, detach | frames live exactly as long as something names them |
| File tables | `vfs.rs` | 16 descriptors per program | insert, remove, replace, drop | closing and exiting give every end back once |
| System calls | `syscall.rs` | none of its own | entry, dispatch, return | each call is one uninterrupted stretch up to a wait |
| Frame allocator | `frame_allocator.rs` | sorted table of free ranges; lent to one borrower | build, take, give back, allocate, deallocate | it answers like a set of free frames |
| Frame accounting | `userland.rs` | windows and counters per Ring 3 slot | open and close a window, count, destroy | a spawn is blamed for its own frames only |
| Block device | `virtio.rs` | one queue, one claim, the completed index | claim, issue, wait, interrupt | a file is on the disk when `close` says so |
| Input | `input.rs`, `keyboard/` | foreground, Ctrl+C request, scancode ring, two decoders | claim, push, read, interrupt | no key is slept through; Ctrl+C ends the right program |
| File system | `common/src/ext2.rs`, `syscall.rs` | the image: two bitmaps with counts, inodes, blocks, directories | open, write, unlink, mkdir, rmdir | the image stays one that `e2fsck` accepts, and files keep their contents |
| Screen, shell, loader, drivers | `common/`, `console/`, `machine/`, `bootloader/`, `userland/` | see `PROJECT.json` | | mostly sequential code with host tests |

### How they interact

* **Calls.** A user program enters by `int 0x80` with interrupts off and takes the big kernel lock.
  A call that has to wait sets its task's wait set, drops the lock, yields, and takes the lock again
  when it is woken. So the state it read before the wait may be stale after it.
* **The timer.** A tick can switch tasks in Ring 3 and in kernel code that runs with interrupts on.
  The latter is only the way of a *first* program of a task into Ring 3, up to the `cli` of
  `run_excursion`. After a `longjmp` out of Ring 3 interrupts stay off.
* **Shared state.** All pipes, sockets and objects are global static tables. User tasks run on the
  bootstrap processor alone; the other cores take the lock on their ticks and cache translations.
* **The one wait outside the lock.** `close` of a written file issues the write of the whole disk image
  under the lock, lets the lock go and waits with interrupts on, so the other program runs meanwhile.
* **Lending.** The frame allocator is lent to one borrower at a time, and a second one is refused.
* **Nesting.** `spawn` runs the child on the parent's own task, one excursion deeper (at most
  `MAX_EXCURSION_DEPTH`, 2). A shell pipeline runs its left program on the extra Ring 3 task instead.

### What is hard

Interleavings of two programs with waits in the middle of a call; a tick inside a sequence of writes
that must be seen together; wake-ups lost between a check and a sleep; failing steps that must give
back what earlier ones took; a counter compared over a stretch in which others move it; slots reused while something still names their old content; a core that
starts late, or flushes too early. The list with lines, and the property for each, is `hazards` in
`PROJECT.json`.

## 2. The modules

```
Ring <- Pipe <- Pipeline <- PipelineProofs    Pipeline  --implements-->  Stream
Excursion <- ExcursionProofs
Socket, Shm <- FdPassing
FrameAllocator <- FrameAllocatorProofs        FrameAllocator  --implements-->  FramePool
SpawnAccounting <- SpawnAccountingProofs <- SpawnLedgerProofs
Keyboard, Time <- Session <- SessionProofs
WriteBack <- WriteBackProofs
Ext2Bitmap <- Ext2 <- FileSystem
TlbQuarantine, Ext2Bitmap <- ReuseProofs
```

(`A <- B`: B extends A.) A module `MC...` instantiates each model for TLC. `map` in `PROJECT.json` gives
the source lines of every definition. Definitions marked "Mutant" are deliberately wrong variants of the
definition that follows them: replacing the one by the other must break the property that `mutants`
names, which shows that the property can fail.

### TlbQuarantine

The life of a frame: free, mapped, detached, held in the quarantine, free again (or lost). `holder`,
`generation` and `seen` are the atomics of `bkl.rs`; `tlb` is what a core may still cache. `Acquire`
includes the flush of `flush_if_generation_is_stale`. `retire_address_space` is three actions
(`Detach`, `NoteMappingChanged`, `PushAll`) because other cores' page walkers run between them.
Which table a core has loaded is left out: a running core may cache any mapped frame, so the model
allows more than the machine does. Any core that holds the lock may destroy a space (in the code only
the bootstrap processor does), and one quarantine stands for that of the boot exercise and those of
the two slots.

### Ring, Pipe, Stream, Pipeline

`Ring` and `Pipe` are the data structures as operators. `Pipeline` is `left | right`: the shell and,
nested in it, the right program on the main task; the left program on the detached task; the
bootstrap processor's scheduler below them. Each stretch of a call up to its yield is one action. The
detached task's kernel code is cut into single steps, with ticks between them as long as its
interrupts are on (`cif`). `Stream` is what the two programs are promised, and `StreamOK` says that
`Pipeline` implements it: `sent` and `received` are history variables, `closed` is "no writer",
`ended` is "the reader was told the end".

Left out: children of the left program, the retry's own byte count (a retried write picks a new one),
and failures that change nothing.

### Excursion

Two tasks that run programs nested to `MaxDepth`, and the idle task. The variables are the processor
(`cr3`, `rsp0`, `recovery`, `fp`), the fields of `Task`, the `ExcursionState` and the saved locals of
each activation of `run_loaded_program` and `run_excursion` (`frame`). Tables, stacks, recovery
points and FP contents are all named by task and level, which is what the properties tell apart. The
checks that halt the machine (`SwitchIsSound`, the test of `in_ring3` on a fault) and a `longjmp` into
a wrong activation set `fate`. Which task is picked next is left open.

### Socket, Shm, FdPassing

`Socket` and `Shm` give each function of `socket.rs` and `shm.rs` as an operator on one kernel record.
`FdPassing` has one action per system call for two arbitrary programs with their file tables. A call
that waits leaves what it was doing in `call` and goes on in `Resume`. `DropFileTable` is the end of a
program. Bytes are numbers: 0 for plain data, n for the first byte of the n-th message that carries a
descriptor, so that `FdComesWithItsBytes` can tell them apart.

Left out: names (there is one listener), the keyboard in `poll` (see Session), `mmap` (it takes no
reference, a limit that ADR-0065 records), and calls that fail without an effect.

### FrameAllocator, FramePool

The table of free ranges, with `insert_free_range`, `try_merge_forward` and the contiguous, aligned
search from below and from above as operators on the table. `build` is one step per entry of the firmware's
memory map. Callers that ignore a refused return lose the frame (`lost`), the quarantine keeps it. `FramePool`
is the promise: a set of free frames, first fit from the end in use, and exactly two ways to be refused
that a set does not have. Both come from a full table. `PoolOK` says that the table implements it. The
statistics and the 64-bit limits of addresses are left out.

### SpawnAccounting

Every `spawn` opens a window, counts the free frames before and after its child and compares the
difference with what reached the quarantine. `calls` is the stack of spawns of each slot with their local
variables; opening, counting, loading, destroying and closing are actions of their own, since the other
slot can run between them where interrupts are on. Frames are counted, not named. What a space holds and what was
counted while it grew are kept apart, as in the code: `tables`, `leaves` and `heap` are what is linked into it, which the
walk of `detach` meets (`Collected`); `counted` and `post` are the counters of the loader, `brk` and `mmap` (`Taken`). `astray` is history:
pages a failing load took and did not give back (section 5); `strays` is its value when a window opened. `masked` marks kernel code no tick can interrupt: all but the detached task on its way
into its first program. The field `met` is history: "another slot's window was open meanwhile".
Programs grow and shrink their heap, map, create, send and close shared memory. The pipe, the terminal
and the contents of pages are left out.

### Keyboard, Time, Session

`Keyboard` has the scancode ring, the decoder with its left-over bytes, and the interrupt handler's
own look-out for Ctrl+C. A scancode is a name, one for each case the decoders treat differently. `Time` has
the conversions of `common/src/time.rs`. `Session` puts them under the scheduler of the bootstrap
processor: the shell and a program nested in it on the main task, one detached program beside them, the
keyboard and the timer. `read` on the terminal and on the raw input device, `poll` on input and a socket, and
`nanosleep` are cut at their waits. `waits` is the task's wait set. Time is kept as ticks left. `pressed`
records how many programs ran on each task when Ctrl+C was pressed, `lost` that codes went past the decoder.
Left out: modifiers that only choose a character, poll's time limit (a timer in the wait set, as
`nanosleep` has), and the session's end after the last restart of the shell.

### WriteBack

Programs append to files and close them. One append changes several blocks of the image in one system call,
so the image is the number of the last append, and the disk keeps for each block which append it last
copied. The device is external: it takes a request when it sees a new index, copies block by block while
the programs go on, answers or fails, and may be slower than the driver waits. `INDICES` is the size of the
wrapping index space. The ring slots and descriptors are left out, since every request uses the same ones.

### Ext2Bitmap, Ext2, FileSystem

`Ext2Bitmap` has the allocation of blocks and inodes with the counts of group and superblock. `Ext2` gives
every function of `ext2.rs` that changes the image as an operator from the image to an answer and the image
it leaves. A step that fails leaves what the steps before it did, as in the code, where `?` returns without
undoing anything (`Then`). A block is a sequence of units or of directory entries; the length of an entry is
counted in the length of the shortest one. The inode table is a row of words (`WordsOf`), because `truncate_to`
counts up to the blocks of the file, not to the end of `i_block`: `i_block_slot` leads from the slots into whatever
follows. Words that are 0 in every inode and the blocks that hold bitmaps and tables themselves are left out. Numbers out of range, offsets and the parsing of a foreign image are left
out. So is everything about how a directory continues in a second block, since nothing makes one longer.

`FileSystem` has one action per system call, since these calls run under the lock from start to end and wait for
nothing. Two programs share the image. It starts as `mke2fs` leaves it (external), with the files of `Seeds`: in
`file_system` one that fills its direct slots and has a hole, like `/data/direct-max` and `/data/sparse-hole` of
`kernel/build.rs`, in `cuts_are_clean` longer ones. `open` is `O_WRONLY|O_CREAT|O_TRUNC`.
One write call brings a chunk of one unit and one of two: an append is never longer than a block (`WRITE_BUF_LEN`
is 64 bytes), and the second crosses into a new block.
Four history variables say what was written to each file (`text`), which programs hold a descriptor of a
removed file (`gone`), and two things the code does that section 5 lists: inodes `stranded` by a failed `mkdir`, and an
image `damaged` by a write to a removed file or by the removal of the root. The model stops when the image is damaged.

## 3. What TLC checks

| Run | Instance | States | Shows |
|---|---|---|---|
| `tlb_quarantine` | 3 cores, 2 frames, capacity 1, 3 changes | 139,720 | `NoStaleFree`: a free frame is cached by no core; `FlushDiscipline`: why; `HeldIsRetired`: a held frame becomes releasable |
| `pipeline` | ring 2, 2 children, 4 bytes | 20,097 | `PipeAccounting`, `NoLostWakeUp`, `AnswerIsTheChildsEnding`; `StreamOK`: refinement of `Stream`; `EntryReturns`, `WaitReturns`, `ReadReturns`, `WriteReturns` |
| `excursion` | depth 2 | 16,545 | `UserMachine`, `NothingStops`, `NoDeadRoot`, `OutcomeIsTrue` |
| `fd_passing` | 2 connections, 1 object, 2 frames, 2 messages | 779,804 | `ShmOutlivesItsHolders`, `FramesAccounted`, `FdComesWithItsBytes`, `EndsAreHeld`, `NoLostWakeUp` |
| `frame_allocator` | 9 frames, 3 ranges, 3 memory maps | 9,646 | `RangesAreMerged`, `OneOwnerPerFrame`; `PoolOK`: refinement of `FramePool` |
| `spawn_accounting` | 10 frames, quarantine 3, depth 2, 3 windows per slot | 735,208 | `DifferenceIsOwn`, `SpaceIsCollected`, `CrossedIsOverlap`, `NobodyRefused` |
| `session` | ring 2, Ctrl+C, an arrow, a Pause sequence | 384,262 | `SleepersHaveNothingToWakeFor`, `RequestIsForThoseRunning`, `DecodersAgree`; `SpinnerIsStopped`, `WokenTaskRuns` |
| `write_back` | 2 programs, 2 blocks, 3 writes, 1 error, 1 time-out | 266,475 | `SavedIsOnDisk`, `DeviceWorksForTheClaim`; `CloseReturns` |
| `file_system` | 4 blocks and 4 inodes in 2 groups each, 2 units a block, 2 direct slots, 2 programs | 73,166 | `BlocksAccounted`: bits, counts and references agree; `TreeOK`: one name for every inode, right link counts; `FilesKeepTheirText`; `UndoneIsUntouched`: make and remove, append and cut restore the image |

Types are an invariant of their own in `excursion` (`TypeOK`). For `TlbQuarantine` and `WriteBack` they are
proved (section 4). The other runs check no types of their own.

**Bounds.** Capacity 1 with two frames makes the quarantine overflow and be reset; three cores let one flush
early and one start late. A ring of two bytes wraps, fills and empties, and chunks of up to three bytes are
longer than it. Two children are what the handle generation needs to go wrong. Depth 2 is the kernel's own
bound. One byte per socket ring makes every second write wait. Two descriptors per table make tables fill up, so
that the failing paths of accept and recvmsg are taken. In `fd_passing` the listener is bound once: a second
bind meets the stale connection of section 5, after which ends and descriptors do not agree any more. Its
constraint `OneConcern` limits what happens together: the second connection is not in use beside a shared
object, nor after a descriptor was sent, and an object is sent with no frame or with all of them. Nine frames and three ranges fill the table in several ways, with gaps
of one frame, and the memory maps are out of order, adjacent and too fragmented. Ten frames run out through
nested loads and `brk`, at every point of a load. A program takes three frames to start, so one that grows overflows a quarantine of three. Three windows per slot let
one lie wholly inside another's. A ring of two scancodes overflows within one Ctrl+C chord. `HZ = 2` with four
"nanoseconds" in a second keeps a tick longer than a nanosecond. Three indices wrap within a run; two blocks are
what it takes to tear an image. In `file_system` four blocks, two of them taken, and two inodes, one of them
taken, run out in every order. Every file has at most as many blocks as direct slots, since `append_to_file` makes none longer.
A directory has
room for one or two names beside `.` and `..`. The paths `a` and `a/b` let a name be now a file, now a directory
with something in it, and `a/..` and `..` are names that are never free.

**Symmetry** is used in `FdPassing` for interchangeable programs, and never with a temporal property.

**Deadlock** is checked except in the `FdPassing` runs, where two programs may well wait for each other
and the bounds end a run, in `frame_allocator`, where a boot with too fragmented a map stops, in
`spawn_accounting`, where the bound on windows ends a run, and in `file_system`, which stops at a damaged image.

**Fairness.** `TlbQuarantine`: every core takes the lock on each tick (100 Hz). The lock is a
test-and-set spin without a queue, so a waiter needs strong fairness; one that starves stops the
machine after `WAIT_TIMEOUT_CYCLES`. A holder finishes its destruction and lets go. `Pipeline`: ticks
keep coming, and a running system call goes on. The child's kernel code can be put aside by a tick but
not before each of its steps for ever (a tick is 10 ms), hence strong fairness. User programs are
assumed to end (or to be ended by Ctrl+C), and the shell to wait for the child it started. `Session`: kernel
code goes on (weak fairness), and ticks keep coming whenever interrupts are on again (strong fairness,
since system calls switch them off and a pending tick is delivered afterwards). Nothing is assumed of
programs or of the keyboard. `WriteBack`: the waiter's loop runs on, and the device answers what it was
sent, with success or failure. Time-outs are bounded, so the last wait is one the device answers.

## 4. What is proved

The proofs hold for every value of the constants under the named assumptions of the modules: finite
`Frames`, `Bsp` a member of `Cpus` (`TlbQuarantine`), a ring of at least one byte and bounds that are
numbers (`Pipeline`), `MaxDepth` a positive number (`Excursion`), at
least two indices and one block (`WriteBack`), at least one tick and at most one per nanosecond in a
second (`Time`), at least one block, inode and member of a group (`Ext2Bitmap`). `FrameAllocator` assumes a
table of at least one range, requests for at least one frame with a positive alignment, and a memory map
whose free entries do not overlap; `SpawnAccounting` that its bounds are numbers. `Session` assumes reads of at
least one byte, at least one level of nesting per task, times that are pairs of integers, a scancode ring and a Pause
sequence of at least one code, and of the keyboard that a key sends at least one code and that a prefix `E0` is
followed, within its key, by a code other than `E1` (`KeysAssumption`).

**`ReuseProofs`**, on `TlbQuarantine`: `TypeOK`, `FlushDiscipline` and `NoStaleFree` for any number of cores, frames and slots.
`NoStaleFree` alone is not inductive: nothing in it says why a frame that is about to be released is
not cached. `FlushDiscipline` adds that. A core that has seen the generation stamped on a held frame
does not cache the frame; a core that has not started caches nothing; between announcing a generation and
stamping the frames, nobody has seen it, because the destroying core holds the lock.
Both are also invariants of the run.

**`ExcursionProofs`**: `TypeOK`, `NothingStops`, `UserMachine` and `NoDeadRoot` for every
`MAX_EXCURSION_DEPTH`. The inductive invariant `IInv` says, for each task and as a function of where
it is on its way into or out of Ring 3, at which level its fields stand (`Fields`), what its
activations saved (`SavedFrames`), and that the processor holds the running task's state while the
others' is in their fields (`Machine`, `Parked`). The four counts `Entered`, `Loaded`, `Armed` and
`Counted` are what makes the steps between `spawn` and `iretq`, which a tick can separate, agree. There is one lemma per
action; steps that touch one task only go through `LocalStep`.

The last part of the module proves `OutcomeIsTrue`. The records are one set per task, shared by its levels.
`Told` says what they may contain at each stage: nothing of the program's own ending while it runs,
and in the saved records of each outer level nothing either.

**`FrameAllocatorProofs`**: `RangesAreMerged`, `OneOwnerPerFrame` and the refinement of `FramePool` for every
memory map, table size and sequence of requests. The lemmas go from the table up. `SpliceSorted` and
`SpliceOne` say what replacing some ranges by others does to a sorted table and to the frames it covers.
`InsertKeeps` and `CutKeeps` carry this to `insert_free_range`, with its merges on either side, and to the cut
of an allocation. `ChosenIs` and `AllocationIs` show that the search from either end finds a range exactly if
some aligned run of frames is free anywhere, and then answers the lowest (or highest) one: a run of free
frames lies in one range because ranges never touch (`RunInOneRange`), so merging is what makes the first fit complete.
The inductive invariant adds to the properties that, while the table is being built, the entries still to come
overlap neither each other nor what is in the table (`Pending`).

**`SpawnAccountingProofs`**: `NobodyRefused` and `CrossedIsOverlap` for every number of frames, windows and levels of
nesting. Nobody is refused because only one slot at a time is in the kernel's part of `spawn` (`Lending`):
interrupts are on there only in the detached task's first call, and slot 0 then waits for it (`Nested`, `Waiting`).
A window is judged crossed exactly if it was because what it noted of the other slot when it was opened
still tells, from the two counters now, whether a window was open in between (`Knows`, `Windows`).

**`SpawnLedgerProofs`**: `SpaceIsCollected` and `DifferenceIsOwn` for every number of frames,
capacity of the quarantine, number of windows and depth. The property compares two counts taken far apart, with calls of
children in between, so the invariant has to say at every step where the frames are. `Ledger` does. Frames only move between the allocator, the
shared objects, the spaces and the quarantine. So for the innermost call of a slot the frames outside the spaces (`Total`)
and those of its child (`Own`) add up to what it counted (`Before`), and for a call that waits, what it counted is what the
call of its child counted and the frames of its own child (`Waits`). A call that has met a window of the other
slot has no account: its difference may be anybody's. The shared frames are subtracted with saturation, so the invariant also
needs that those of before are still held when the child is gone: for each level there is a number of shared frames
that stay when the calls from that level on have ended, and it is at least what the call counted. A descriptor sent to a
program further out raises it for the levels in between (`SendAccounts`).
That the walk meets what was counted needs `Whole` for every child under way: counters and links differ in every part
(a page of `brk` is counted by the difference of the free frames, and given back one by one), but in sum they agree, and
the heap is never more than either, so that the saturating subtraction does not bite.
The first part of the module has the steps within a call, the second those between calls (a window opens, a call
returns, a descriptor changes hands) and the theorems.

**`WriteBackProofs`**: `SavedIsOnDisk` and `DeviceWorksForTheClaim` for any programs, blocks, ring size and
number of writes and errors. The inductive invariant `IInv` says that at most one program is in `close` and
holds the claim (`OneWaits`), how the four indices stand to each other in each phase of a request, after
a failed one too (`Phase`, with `Quiet`, `Sent`, `Underway`, `Answered`). `Underway` and `Answered` add that a block
already copied is at least as new as the waiter's last write. This is needed because the property speaks of the moment
after the claim is given up, while the reason lies in the device's copying before it.

**`PipelineProofs`**: `PipeAccounting`, `NoLostWakeUp`, `AnswerIsTheChildsEnding` and the refinement of `Stream`
(`StreamOK`) for every ring size, number of children and number of bytes. The invariant has layers, each proved
over the ones below. `Places` says where the two tasks and the ends of the pipe can be together: who runs can run, and until the child
is in Ring 3 or has ended the parent polls for it. Over it, `Accounts` are the counts of the slot. `NoLostWakeUp`
needs both: the step that makes a wait pointless is taken by the other task, and `Places` says what that task can be
doing. `Endings` follows the ending of a child from the record through the slot to the answer. `Content` says that the bytes of the ring, from its head on and
around its end, are those sent and not yet received. The bytes are numbered as they are sent, so what is lost, repeated or out of
order shows. `TakeHolds` and `PutHolds` give what `take` and `put` do to a ring that wraps.
The refinement then reads off each step: it makes a pipe, reads, sees the end, writes, or changes nothing that
`Stream` can see (`PipeStep`).

**`SessionProofs`**, on `Time`: for every frequency, the ticks `nanosleep` waits for cover the time asked for
(`TicksCoverTheDuration`), with less than a tick to spare when the frequency divides a second
(`TicksAreTheFewest`), and the times `clock_gettime` reports convert back to the same ticks
(`TimesKeepTheirTicks`).

The same module, on `Session`: `SleepersHaveNothingToWakeFor`, `RequestIsForThoseRunning` and `DecodersAgree` for every set of
keys, capacity of the ring, size of reads, duration and depth. The first two are inductive once types are added, and
that the task which has the processor waits for nothing (`RunnerIsReady`). `DecodersAgree` is not: between two codes of
a key the decoder can be after a prefix, which the look-out does not follow. `Decoding` adds that the
two are in the same place of the same sequence (`Alike`) and that a prefix is always followed, in what the key has still to send
(`Follows`). A read decodes as many codes as it has room for, so the proof needs what `read_bytes` computes for a ring of
any length: that the decoder it leaves is the one fed with exactly the codes it used (`Stands`, `ReadBytesIs`), and that
feeding it the rest gives what feeding everything would have (`FedTheRest`). Both loops are recursive functions over `0 .. n`,
and the inductions go over the set of the numbers at which the statement holds (`Induction`, from
the well-foundedness of `<` on the naturals).

**`ReuseProofs`**, on `Ext2Bitmap`: for images of every size and every division into groups, on a bitmap whose counts are
right. Allocating never finds a count wrong, fails only when nothing is free, hands out what nobody has and
leaves the counts right (`AllocateBlockIsSound`, the first half of `InodeRoundTrip`). Freeing succeeds exactly
for what is taken (`FreeBlockIsSound`). Freeing what was just allocated restores every bit and count
(`BlockRoundTrip`, `InodeRoundTrip`). The argument is `Sound`, a bitmap with right counts, which
`TakenIsSound` and `ReturnedIsSound` carry over one bit: its group's count and the total move by one, and the
set of clear bits by one element. `BlocksAccounted` starts with the same statement about the counts.
What is built on the bitmaps works by folds over sequences, whose results need induction over data.

Only model-checked: everything about `FdPassing` and the files and directories of `FileSystem`, and all liveness.
Liveness under fairness and `ENABLED` are beyond the prover used, and so are recursive operators, which `FileSystem`
uses to say what the tree reaches.

## 5. Where code and comments disagree

These have a run that TLC must find violated, and an entry in `findings` with the quoted line. `closes_are_clean` and
`cuts_are_clean` each check that at least one of two statements is true, so that the one behaviour TLC finds refutes both.

| Run | The text says | The code does |
|---|---|---|
| `second_wait_returns` | a second wait for a reaped child is answered like an unknown handle | the handle is still current and the wait never returns |
| `closes_are_clean` | an object is returned when its last descriptor is closed (`UnnamedShmIsReturned`) | a descriptor under way in a closed connection keeps its reference for ever |
| `closes_are_clean` | closing a listener closes the server ends not yet accepted (`DescriptorIsOpenEnd`) | a later listener accepts such a connection and gets a closed end |
| `cuts_are_clean` | `truncate_to` gives the blocks of a removed file's contents back (`NothingIsLost`) | of a file with more than 12 blocks it gives the single indirect table back, and the blocks listed there stay taken with nobody referring to them |
| `cuts_are_clean` | the slots beyond a file are 0, so the loop passes over them (`OthersAreUntouched`) | from the 16th block on it takes the words behind `i_block` for block numbers and clears them; from the 65th on these are the slots of the next inode, whose blocks are wiped and freed |

In `cuts_are_clean` blocks, tables and inodes are scaled down (an inode has 7 words instead of 64), and three files are there when
the run starts: one long enough to reach the slots of the next inode, that inode's file, and one with a block behind a table. Overwriting
the first and the last breaks both statements. The cut of the long file also ends with an error: the words before
the next inode's slots (its link count, for one) are no block numbers, so `free_block` refuses them after they were cleared. The image of the
repository has such files: `/data/indirect-first` has 13 blocks, `/lib/font.ttf` more than 64. In that image small words
lead to the blocks of bitmaps and tables, which the model leaves out, so what else is hit there is not followed.

The others were met while modelling, and no run is about them:

* `virtio.rs:295` requires that nobody changes the image while the device reads it. `close` lets the lock go and waits,
  the other program may append meanwhile, and the disk then holds blocks of two images.
* The loader gives a page that it could not map back, since otherwise "nobody" would (`userland.rs:1568`). Two ways out do not:
  a page whose address is not canonical, and the page of the stack. Such a page leaves the allocator for good,
  and `spawn` reports it as a loss. `DifferenceIsOwn` counts exactly these pages (`astray`).
* `create_directory` takes the inode before the block. Without a free block it returns an error and the inode stays
  taken, without a name. `TreeOK` allows exactly these inodes (`stranded`).
* `sys_unlink` says that no program holds a descriptor of a file while it is removed, since one process runs at a time.
  A detached program can hold one, and one program alone can remove a file it has open. A later write through the
  descriptor changes whatever the inode has become. The properties of `FileSystem` end there (`damaged`).
* `remove_directory` does not refuse `..`. With an empty root, removing `/..` releases the root's own inode and returns
  an error. No text speaks of it; the properties end there too.
* `open` makes and cuts a file before it knows whether the file table has room for a descriptor. No text promises otherwise.
* `task.rs:1601` says the idle task is picked only when nobody is runnable. A tick in the detached program picks it
  while that program is ready and the main task waits (`pick_next` never answers the detached task to itself).
* `userland.rs:2801` says nobody writes the request while the detached task reads it. A refused
  `start_detached` has already overwritten it (`userland.rs:2695`). By then only the name in the closing log
  line is still read.
* `quarantine.rs:198` says why a frame that could not be returned stays: dropping it would make a frame
  that belongs to nobody. The destroy path resets a quarantine with frames in it (`userland.rs:1126`; recorded in `docs/deferred-decisions.md:314`).
* `syscall.rs:1013` says `EBUSY` cannot happen in `close`, since one program runs at a time. With a detached
  program it can.
* After a time-out the next image write is published under the same index, and the late answer to the first
  request is taken for the answer to the second. `SavedIsOnDisk` is therefore promised only as long as
  no request was given up. After one failed request the completed index stays behind: the next request has the
  index the device has already seen, so every later `close` of a written file reports `EIO`.
* `syscall.rs:4211` and `common/src/time.rs:27` say a sleep is never shorter than asked for. The conversion
  rounds up, but the deadline counts from a tick that has partly passed (`syscall.rs:4239`), so a sleep can
  be short by less than a tick.
* `input.rs:237` says a detached program's `read(0)` is `-EBADF`. `sys_read` looks at the global foreground, so the
  program shares the terminal with the shell (recorded in `docs/deferred-decisions.md:361`), and the two
  readers can split one escape sequence.
* `input.rs:281` says the next foreground does not get what was typed for the last one. Decoded bytes are dropped, but
  scancodes still in the ring are not.
* A starting program clears a Ctrl+C request meant for a program on the other task (`userland.rs:1902`), and
  a dropped, discarded or raw-read break code leaves the decoder's Ctrl key down. No text promises otherwise.

## 6. Not modelled

* **Page tables**: sequential tree walks. The models take an address space as the set or number of its frames.
* **Kernel heap, ELF and shell parsing, console and graphics**: sequential code with host tests.
* **Reading the file system**: reads through a descriptor use the copy of the inode that `open` made. `getdents`, the checks
  of a foreign image and reading behind the double and triple indirect tables are left out. Cutting files of any length is
  modelled (`cuts_are_clean`); the properties of `file_system` are about images whose files fit their direct slots.
* **Several cores in `pick_next`** (`task.rs:2674`): after the boot exercises the other cores own their idle task
  alone, and only the TLB protocol concerns them.
* **Mapped shared frames** that outlive their object (`syscall.rs:2164`): a limit that ADR-0065 records.
* **Boot path, hardware set-up, boot exercises**: straight-line code against firmware and registers.
* **User programs**: arbitrary in the models. **Host tooling**: not part of the system.

`components` in `PROJECT.json` gives the reason for each part.

## 7. Plan

1. Proofs: `EndsAreHeld` and the reference counting of `FdPassing`, which needs what closing a whole file table leaves.
2. **ext2**: `FileSystem` composed with `WriteBack`, so that a torn image can be judged by what a later mount reads;
   reads through stale inode copies.
3. **Scheduler**: `pick_next` on several cores with owners and workers, for the boot exercises.
4. **Heap**: the free list against a set of free ranges, along the lines of `FrameAllocator`; `paging/plan.rs`
   and `shell_script.rs` against reference definitions over bounded inputs.
