------------------------------ MODULE Session ------------------------------
(***************************************************************************)
(* The interactive session on the bootstrap processor: the shell and the   *)
(* programs nested in it (main task, Ring 3 slot 0), one detached program  *)
(* (slot 1), the terminal and raw input they read, sleeping and polling,   *)
(* and Ctrl+C.  The module follows                                         *)
(*   - the keyboard interrupt and the timer interrupt (keyboard/mod.rs,    *)
(*     interrupts.rs, task.rs),                                            *)
(*   - read on the terminal and on the input device, poll and nanosleep    *)
(*     (syscall.rs, input.rs),                                             *)
(*   - the foreground and the interrupt request around an excursion        *)
(*     (userland.rs, run_loaded_program).                                  *)
(*                                                                         *)
(* System calls keep interrupts off up to their next yield, and so does    *)
(* what follows an excursion, so interrupts come only in Ring 3, in the    *)
(* idle task and while a detached program is loaded.  The console's        *)
(* foreground is installed throughout: the module is about the time        *)
(* between init's first start of the shell and the end of the session.     *)
(* The pipe and the reaping of the detached program are Pipeline's; the    *)
(* socket is one byte that the detached program sends to the other side.   *)
(* Time is kept as the ticks left until a deadline.                        *)
(***************************************************************************)
EXTENDS Keyboard, Time

CONSTANTS
    Keys,           \* what the keyboard sends for a key: sequences of scancodes
    ReadSizes,      \* bytes asked for by one read
    Durations,      \* times asked for by one nanosleep
    MaxDepth        \* per task: how deep programs nest, at most MAX_EXCURSION_DEPTH

ASSUME SessionAssumption ==
    /\ ReadSizes \subseteq Nat \ {0} /\ MaxDepth \in [{"main", "child"} -> Nat \ {0}]
    /\ Durations \subseteq [sec : Int, nsec : Int]

\* What a keyboard sends: a prefix "E0" is followed, within its key, by a code other than
\* the one that begins Pause.
Prefixed(codes) ==
    \A i \in 1 .. Len(codes) : codes[i] = "E0" => i < Len(codes) /\ codes[i + 1] # "E1"

ASSUME KeysAssumption ==
    \A codes \in Keys : codes \in Seq(STRING) /\ codes # <<>> /\ Prefixed(codes)

VARIABLES
    running,        \* CURRENT of the bootstrap processor
    pc,             \* per task: where it is
    waits,          \* per task: its wait set; empty when it is Ready
    left,           \* per task: ticks until the deadline of its nanosleep
    want,           \* per task: the size of the read it is in
    depth,          \* per task: excursions it is in
    foreground,     \* FOREGROUND
    requested,      \* INTERRUPT_REQUESTED
    trk,            \* CTRL_DOWN and PAUSE_REMAINING
    ring,           \* SCANCODES
    dec,            \* DECODER
    pending,        \* PENDING
    mail,           \* bytes in the socket from the detached program
    wire,           \* scancodes of the last key the keyboard has not sent yet
    lost,           \* history: codes have gone past the decoder
    pressed         \* history, per task: programs there since the request was raised

input == <<trk, ring, dec, pending, wire, lost>>
vars == <<running, pc, waits, left, want, depth, foreground, requested, input, mail, pressed>>

Tasks == {"main", "child"}
Keyboard == "Keyboard"
Timer == "Timer"
SocketReadable == "SocketReadable"

Ready(t) == waits[t] = {} /\ pc[t] # "none"
InUser(t) == running = t /\ pc[t] = "user"

----------------------------------------------------------------------------
(* The scheduler *)

\* Mutant: the Ring 3 task is answered to itself.
child_first(current, ready) ==
    IF ready["child"] THEN "child" ELSE IF ready["main"] THEN "main" ELSE "idle"

\* pick_next on the bootstrap processor once the demo workers are done.
pick_next(current, ready) ==
    IF current # "child" /\ ready["child"] THEN "child"
    ELSE IF ready["main"] THEN "main" ELSE "idle"

\* yield_now, with the task states after this step.
Yield == running' = pick_next(running, [t \in Tasks |-> waits'[t] = {} /\ pc'[t] # "none"])

\* Mutant: a task is woken only when it waits for nothing else.
WaitsForThatAlone(set, on) == set = {on}

\* waits_on, and wake_tasks_waiting_on.
waits_on(set, on) == on \in set
Woken(on) == [t \in Tasks |-> IF waits_on(waits[t], on) THEN {} ELSE waits[t]]

\* set_current_waiting_set inside a system call, then the yield.
Wait(t, reasons, at) ==
    /\ waits' = [waits EXCEPT ![t] = reasons]
    /\ pc' = [pc EXCEPT ![t] = at]
    /\ Yield

\* A system call returns to its program.
Return(t) == pc' = [pc EXCEPT ![t] = "user"] /\ UNCHANGED <<running, waits>>

----------------------------------------------------------------------------
(* Programs come and go *)

\* Mutant: the request stays.
RequestKept == UNCHANGED <<requested, pressed>>

\* clear_interrupt_request.
ClearRequest == requested' = FALSE /\ pressed' = [t \in Tasks |-> 0]

\* run_loaded_program of task t up to Ring 3.
Enter(t) ==
    /\ depth' = [depth EXCEPT ![t] = @ + 1]
    /\ pc' = [pc EXCEPT ![t] = "user"]
    /\ foreground' = (foreground \/ t = "main")
    /\ ClearRequest

StartShell ==
    /\ running = "main" /\ pc["main"] = "init"
    /\ Enter("main")
    /\ UNCHANGED <<running, waits, left, want, input, mail>>

Spawn(t) ==
    /\ InUser(t) /\ depth[t] < MaxDepth[t]
    /\ Enter(t)
    /\ UNCHANGED <<running, waits, left, want, input, mail>>

\* spawn_detached: the child is made ready, and its parent yields until it has entered.
SpawnDetached ==
    /\ InUser("main") /\ pc["child"] = "none"
    /\ pc' = [pc EXCEPT !["main"] = "entry", !["child"] = "loading"]
    /\ UNCHANGED <<running, waits, left, want, depth, foreground, requested, input, mail, pressed>>

AwaitEntry ==
    /\ running = "main" /\ pc["main"] = "entry"
    /\ IF pc["child"] = "loading" THEN UNCHANGED <<pc, waits>> /\ Yield ELSE Return("main")
    /\ UNCHANGED <<left, want, depth, foreground, requested, input, mail, pressed>>

EnterDetached ==
    /\ running = "child" /\ pc["child"] = "loading"
    /\ Enter("child")
    /\ UNCHANGED <<running, waits, left, want, input, mail>>

\* What follows an excursion of task t: the level below goes on, the shell's init starts
\* another shell, the detached task ends for good.
Leave(t) ==
    /\ depth' = [depth EXCEPT ![t] = @ - 1]
    /\ pc' = [pc EXCEPT ![t] = IF depth[t] > 1 THEN "user" ELSE IF t = "main" THEN "init" ELSE "none"]
    /\ foreground' = (foreground /\ ~(t = "main" /\ depth[t] = 1))

Exit(t) ==
    /\ InUser(t)
    /\ Leave(t)
    /\ pending' = IF foreground' THEN pending ELSE <<>>                  \* release_foreground
    /\ pressed' = [pressed EXCEPT ![t] = Min({@, depth[t] - 1})]
    /\ IF pc'[t] = "none" THEN UNCHANGED waits /\ Yield ELSE UNCHANGED <<running, waits>>
    /\ UNCHANGED <<left, want, requested, trk, ring, dec, wire, lost, mail>>

----------------------------------------------------------------------------
(* Interrupts *)

InterruptsOn == running \in Tasks => pc[running] \in {"user", "loading"}

\* keyboard::handle_irq.
KeyboardInterrupt(code) ==
    /\ trk' = Tracked(trk, code)
    /\ IF IsInterrupt(trk, code)
       THEN requested' = TRUE /\ pressed' = depth
       ELSE UNCHANGED <<requested, pressed>>
    /\ ring' = push(ring, code)
    /\ lost' = (lost \/ ring' = ring)
    /\ waits' = Woken(Keyboard)
    /\ UNCHANGED <<running, pc, left, want, depth, foreground, dec, pending, mail>>

\* The keyboard sends the next code of a key, or the first one of the next key.
KeyCode ==
    /\ InterruptsOn
    /\ \E codes \in IF wire = <<>> THEN Keys ELSE {wire} :
          /\ wire' = Tail(codes)
          /\ KeyboardInterrupt(Head(codes))

\* wake_expired_timers: deadline <= now.
Expired(ticks) == ticks <= 0

\* advance_clock.
AdvanceClock ==
    /\ left' = [t \in Tasks |-> IF Timer \in waits[t] THEN left[t] - 1 ELSE left[t]]
    /\ waits' = [t \in Tasks |-> IF Timer \in waits[t] /\ Expired(left'[t]) THEN {} ELSE waits[t]]

\* Mutant: the detached slot is treated like the shell's.
SameDepthForAll(t) == 2

\* The depth from which a program of task t may be ended by Ctrl+C.
MinimumDepth(t) == IF t = "child" THEN 1 ELSE 2
Foldable(t) == pc[t] = "user" /\ depth[t] >= MinimumDepth(t)

\* should_fold_excursion, with the request it takes.
ShouldFold == running \in Tasks /\ Foldable(running) /\ requested

\* The timer interrupt: the clock, then either the end of the running program, whose
\* typed input is discarded, or the scheduler.
Tick ==
    /\ InterruptsOn
    /\ AdvanceClock
    /\ IF ShouldFold
       THEN /\ Leave(running)
            /\ ClearRequest
            /\ ring' = <<>> /\ pending' = <<>> /\ lost' = (lost \/ ring # <<>>)
            /\ IF pc'[running] = "none" THEN Yield ELSE UNCHANGED running
       ELSE /\ UNCHANGED <<pc, depth, foreground, requested, pressed, ring, pending, lost>>
            /\ Yield
    /\ UNCHANGED <<want, trk, dec, wire, mail>>

----------------------------------------------------------------------------
(* System calls that read, poll and sleep *)

\* A turn of the terminal's read loop for n bytes.
ReadLoop(t, n) ==
    /\ \E r \in {read_bytes(n, ring, dec, pending)} :
          /\ ring' = SubSeq(ring, r.consumed + 1, Len(ring))
          /\ dec' = r.dec /\ pending' = r.pending
          /\ IF r.out # <<>>
             THEN Return(t) /\ want' = [want EXCEPT ![t] = 0]
             ELSE Wait(t, {Keyboard}, "reading") /\ want' = [want EXCEPT ![t] = n]
    /\ UNCHANGED <<left, depth, foreground, requested, trk, wire, lost, mail, pressed>>

\* sys_read on the terminal asks whether anybody has the foreground.
ReadTerminal(t, n) == InUser(t) /\ foreground /\ ReadLoop(t, n)

\* wait_for_keyboard comes back: to the loop, or with -EBADF when the foreground is gone.
ReadGoesOn(t) ==
    /\ running = t /\ pc[t] = "reading"
    /\ \/ foreground /\ ReadLoop(t, want[t])
       \/ /\ ~foreground
          /\ Return(t) /\ want' = [want EXCEPT ![t] = 0]
          /\ UNCHANGED <<left, depth, foreground, requested, input, mail, pressed>>

\* read_input_events: the codes themselves, n of them.  Only slot 0 can open the device.
ReadEvents(n) ==
    /\ running = "main" /\ pc["main"] \in {"user", "events"} /\ foreground
    /\ pc["main"] = "events" => n = want["main"]
    /\ ring' = SubSeq(ring, n + 1, Len(ring))
    /\ lost' = (lost \/ ring # <<>>)
    /\ IF ring # <<>>
       THEN Return("main") /\ want' = [want EXCEPT !["main"] = 0]
       ELSE Wait("main", {Keyboard}, "events") /\ want' = [want EXCEPT !["main"] = n]
    /\ UNCHANGED <<left, depth, foreground, requested, trk, dec, pending, wire, mail, pressed>>

\* poll_is_ready.
poll_is_ready(on) == IF on = Keyboard THEN ring # <<>> ELSE mail > 0

\* poll_from_ring3 without a time limit on the input device and the socket.
Poll ==
    /\ running = "main" /\ pc["main"] \in {"user", "polling"}
    /\ IF \E on \in {Keyboard, SocketReadable} : poll_is_ready(on)
       THEN Return("main")
       ELSE Wait("main", {Keyboard, SocketReadable}, "polling")
    /\ UNCHANGED <<left, want, depth, foreground, requested, input, mail, pressed>>

\* The byte in the socket is sent, waking its reader, and read.
SendMail ==
    /\ InUser("child") /\ mail = 0
    /\ mail' = 1 /\ waits' = Woken(SocketReadable)
    /\ UNCHANGED <<running, pc, left, want, depth, foreground, requested, input, pressed>>

ReceiveMail ==
    /\ InUser("main") /\ mail = 1
    /\ mail' = 0
    /\ UNCHANGED <<running, pc, waits, left, want, depth, foreground, requested, input, pressed>>

\* sys_nanosleep: the deadline is set, and looked at again after every wake-up.  A time
\* out of range is -EINVAL, and no time at all is over at once.
Nanosleep(t, time) ==
    /\ InUser(t)
    /\ LET ticks == ticks_for_duration(time)
       IN  IF ticks = InvalidTimespec \/ ticks = 0
           THEN Return(t) /\ UNCHANGED left
           ELSE left' = [left EXCEPT ![t] = ticks] /\ Wait(t, {Timer}, "sleeping")
    /\ UNCHANGED <<want, depth, foreground, requested, input, mail, pressed>>

SleepGoesOn(t) ==
    /\ running = t /\ pc[t] = "sleeping"
    /\ IF left[t] > 0
       THEN Wait(t, {Timer}, "sleeping") /\ UNCHANGED left
       ELSE Return(t) /\ left' = [left EXCEPT ![t] = 0]
    /\ UNCHANGED <<want, depth, foreground, requested, input, mail, pressed>>

----------------------------------------------------------------------------
Init ==
    /\ running = "main"
    /\ pc = [t \in Tasks |-> IF t = "main" THEN "user" ELSE "none"]
    /\ depth = [t \in Tasks |-> IF t = "main" THEN 1 ELSE 0]
    /\ waits = [t \in Tasks |-> {}]
    /\ left = [t \in Tasks |-> 0] /\ want = [t \in Tasks |-> 0] /\ pressed = [t \in Tasks |-> 0]
    /\ foreground = TRUE /\ requested = FALSE
    /\ trk = Untracked /\ ring = <<>> /\ dec = Released /\ pending = <<>> /\ wire = <<>>
    /\ lost = FALSE /\ mail = 0

\* Steps of the kernel's code, which go on by themselves.
KernelStep ==
    \/ StartShell \/ AwaitEntry \/ EnterDetached
    \/ \E t \in Tasks : ReadGoesOn(t) \/ SleepGoesOn(t)
    \/ pc["main"] = "events" /\ \E n \in ReadSizes : ReadEvents(n)
    \/ pc["main"] = "polling" /\ Poll

\* System calls of programs.
Call ==
    \/ SpawnDetached \/ SendMail \/ ReceiveMail
    \/ pc["main"] = "user" /\ (Poll \/ \E n \in ReadSizes : ReadEvents(n))
    \/ \E t \in Tasks :
          \/ Spawn(t) \/ Exit(t)
          \/ \E n \in ReadSizes : ReadTerminal(t, n)
          \/ \E time \in Durations : Nanosleep(t, time)

Next == KernelStep \/ Call \/ KeyCode \/ Tick

Spec == Init /\ [][Next]_vars

\* The kernel's code runs on, and the timer keeps interrupting: a tick that comes while
\* interrupts are off is delivered when they are on again.
LiveSpec == Spec /\ WF_vars(KernelStep) /\ SF_vars(Tick)

----------------------------------------------------------------------------
(* Properties *)

\* Whoever sleeps has nothing to wake up for: in read or poll no code is in the ring, a
\* terminal's reader has no byte pending, for poll the socket is empty, and a sleeper's
\* deadline is ahead.  A key that comes between the look at the ring and the sleep, or a
\* tick that passes a deadline by, would break it (wait_for_keyboard, poll_from_ring3,
\* keyboard::handle_irq, wake_expired_timers).
SleepersHaveNothingToWakeFor ==
    \A t \in Tasks :
        /\ Keyboard \in waits[t] => ring = <<>>
        /\ Keyboard \in waits[t] /\ pc[t] = "reading" => pending = <<>>
        /\ SocketReadable \in waits[t] => mail = 0
        /\ Timer \in waits[t] => left[t] > 0

\* "The last interrupt request is not carried over to a new child": a request that is
\* raised was raised while every program that runs now was there already, so Ctrl+C at the
\* prompt ends no program started later (clear_interrupt_request in run_loaded_program).
RequestIsForThoseRunning == requested => \A t \in Tasks : depth[t] <= pressed[t]

\* The handler's look-out and the readers' decoder, which never share state, agree: once
\* the ring is decoded both hold the same Ctrl key and are as far in a Pause sequence,
\* unless codes were dropped, discarded or read raw.
DecodersAgree ==
    lost \/ LET after == FedAll(dec, ring)
            IN  after.ctrl = trk.ctrl /\ after.remaining = trk.pause

\* Ctrl+C reaches a program that only computes: the request does not stay raised for ever
\* while a program other than the shell stays in Ring 3 (should_fold_excursion at every
\* tick, with its own depth for the detached slot).
SpinnerIsStopped ==
    \A t \in Tasks : []<>~(requested /\ pc[t] = "user" /\ (t = "child" \/ depth[t] > 1))

\* A task that is woken gets the processor, whatever the other one does: pick_next
\* alternates between the two.  A tick that ends a program switches to nobody, so whoever
\* presses Ctrl+C again and again holds the task up.
WokenTaskRuns == \A t \in Tasks : []<>(running = t \/ ~Ready(t) \/ requested)
=============================================================================
