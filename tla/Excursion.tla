----------------------------- MODULE Excursion -----------------------------
(***************************************************************************)
(* Which machine state belongs to whom while two tasks run nested user     *)
(* programs.  A task enters Ring 3 through run_excursion (ring3.rs), which *)
(* returns by a longjmp through CURRENT_RECOVERY.  A program that spawns   *)
(* another one does so on its own task, one excursion deeper.  At any tick *)
(* or yield schedule_switch (task.rs) may move the processor to the other  *)
(* task, exchanging CR3, the recovery point, RSP0 and the FP registers.    *)
(*                                                                         *)
(* The nested part of a run happens with interrupts off.  The first run of *)
(* a task starts with interrupts on, so every step up to the cli of        *)
(* run_excursion can be cut by a tick.  Which runnable task is picked next *)
(* is left open here; any of them may be.                                  *)
(***************************************************************************)
EXTENDS Integers

CONSTANT MaxDepth       \* MAX_EXCURSION_DEPTH
ASSUME MaxDepthAssumption == MaxDepth \in Nat \ {0}

VARIABLES
    running,        \* CURRENT of the bootstrap processor
    fate,           \* "fine", or what stopped the machine
    pc,             \* per task: where its innermost program, or its kernel code, is
    iflag,          \* per task: does its kernel code run with interrupts on
    level,          \* per task: activations of run_loaded_program on its stack
    frame,          \* per task and level: what those activations saved
    on,             \* per task: the stack its kernel code runs on
    cr3, rsp0, recovery, fp,                        \* the processor
    root, entry_top, depth_field, recovery_field, fp_area, saved_sp,   \* Task
    depth, in_ring3, record,                        \* ExcursionState and Records
    ended, outcome  \* how the last program left, and what spawn says of it

hardware == <<cr3, rsp0, recovery, fp>>
fields == <<root, entry_top, depth_field, recovery_field, fp_area, saved_sp>>
slots == <<depth, in_ring3, record>>
control == <<pc, iflag, level, frame, on>>
results == <<ended, outcome>>
vars == <<running, fate, control, hardware, fields, slots, results>>

UserTasks == {"main", "ring3"}
Tasks == UserTasks \union {"idle"}
Levels == 0 .. MaxDepth - 1

\* A user space, an excursion stack, a recovery point and the FP contents a program
\* leaves are all named by the task and the level of the program they belong to.  A
\* task's own kernel stack is at level -1.
Place(t, d) == <<t, d>>
KernelStack(t) == Place(t, -1)
KernelRoot == Place("kernel", -1)
Zero == Place("zero", -1)
Fresh == Place("fresh", -1)
Places == (Tasks \union {"kernel", "zero", "fresh"}) \X (-1 .. MaxDepth - 1)

NoRecord == [exited |-> FALSE, folded |-> FALSE, interrupted |-> FALSE]
EmptyFrame == [root |-> Zero, rsp0 |-> Zero, recovery |-> Zero, fp |-> Zero, record |-> NoRecord]

Alive == {t \in Tasks : pc[t] # "none"}

----------------------------------------------------------------------------
(* schedule_switch *)

\* page_table_root_to_load: a zero field stands for the kernel's own table.
page_table_root_to_load(field) == IF field = Zero THEN KernelRoot ELSE field

\* expected_stack: where the saved stack pointer of a task must point.
expected_stack(t) == Place(t, depth_field[t] - 1)

\* excursion_recovery_belongs_to_slot.
belongs_to_slot(r, t) == r = Zero \/ r[1] = t

\* The checks of schedule_switch that halt the machine.
SwitchIsSound(t, next) ==
    /\ saved_sp[next] = expected_stack(next)
    /\ cr3 = page_table_root_to_load(root[t])
    /\ belongs_to_slot(recovery_field[next], next)
    /\ entry_top[next] # Zero

ExchangeRecovery(t, next) ==
    /\ recovery_field' = [recovery_field EXCEPT ![t] = recovery]
    /\ recovery' = recovery_field[next]

\* Mutant: the FP registers are saved but not loaded.
FpNotLoaded(t, next) == fp_area' = [fp_area EXCEPT ![t] = fp] /\ UNCHANGED fp

ExchangeFp(t, next) == fp_area' = [fp_area EXCEPT ![t] = fp] /\ fp' = fp_area[next]

\* schedule_switch(current_sp), called on task t's stack sp.
Switch(t, sp, next) ==
    /\ next \in Alive \ {t}
    /\ saved_sp' = [saved_sp EXCEPT ![t] = sp]
    /\ IF SwitchIsSound(t, next)
       THEN /\ cr3' = page_table_root_to_load(root[next])
            /\ ExchangeRecovery(t, next)
            /\ ExchangeFp(t, next)
            /\ running' = next
            /\ rsp0' = entry_top[next]
            /\ UNCHANGED <<fate, root, entry_top, depth_field>>
       ELSE /\ fate' = "halted"
            /\ UNCHANGED <<running, hardware, root, entry_top, depth_field, recovery_field, fp_area>>

Up(t) == fate = "fine" /\ running = t

\* A timer tick: from Ring 3 the processor pushes on RSP0, from the kernel on the stack in use.
Tick(t, next) ==
    /\ Up(t)
    /\ \/ pc[t] = "user" /\ Switch(t, rsp0, next)
       \/ pc[t] \notin {"user", "syscall", "left"} /\ iflag[t] /\ Switch(t, on[t], next)
    /\ UNCHANGED <<control, slots, results>>

\* yield_now inside a system call that waits.
Yield(t, next) ==
    /\ Up(t) /\ pc[t] = "syscall"
    /\ Switch(t, on[t], next)
    /\ UNCHANGED <<control, slots, results>>

----------------------------------------------------------------------------
(* spawn, load_user_program and run_loaded_program, up to run_excursion *)

\* start_ring3_task, from a system call of the main task: init_task overwrites every
\* field, but the FP area is not one of them.  build_initial_context enables interrupts.
StartRing3Task ==
    /\ Up("main") /\ pc["main"] = "syscall" /\ pc["ring3"] = "none"
    /\ pc' = [pc EXCEPT !["ring3"] = "kernel"]
    /\ iflag' = [iflag EXCEPT !["ring3"] = TRUE]
    /\ on' = [on EXCEPT !["ring3"] = KernelStack("ring3")]
    /\ saved_sp' = [saved_sp EXCEPT !["ring3"] = KernelStack("ring3")]
    /\ entry_top' = [entry_top EXCEPT !["ring3"] = KernelStack("ring3")]
    /\ root' = [root EXCEPT !["ring3"] = Zero]
    /\ depth_field' = [depth_field EXCEPT !["ring3"] = 0]
    /\ recovery_field' = [recovery_field EXCEPT !["ring3"] = Zero]
    /\ UNCHANGED <<running, fate, level, frame, hardware, fp_area, slots, results>>

\* Mutant: spawn does not refuse at the deepest level.
SpawnUnbounded(t) ==
    /\ Up(t) /\ pc[t] \in {"kernel", "syscall"}
    /\ frame' = [frame EXCEPT ![t] = [d \in Levels |->
                    IF d = depth[t] THEN [@[d] EXCEPT !.fp = fp, !.record = record[t]] ELSE @[d]]]
    /\ level' = [level EXCEPT ![t] = @ + 1]
    /\ pc' = [pc EXCEPT ![t] = "saved"]
    /\ UNCHANGED <<running, fate, iflag, on, hardware, fields, slots, results>>

\* spawn: refused (TooDeep) at the deepest level; the caller's records and FP are saved.
Spawn(t) ==
    /\ Up(t) /\ pc[t] \in {"kernel", "syscall"}
    /\ depth[t] < MaxDepth
    /\ frame' = [frame EXCEPT ![t][depth[t]] = [@ EXCEPT !.fp = fp, !.record = record[t]]]
    /\ level' = [level EXCEPT ![t] = @ + 1]
    /\ pc' = [pc EXCEPT ![t] = "saved"]
    /\ UNCHANGED <<running, fate, iflag, on, hardware, fields, slots, results>>

\* run_loaded_program: note the table in use and the RSP0 to come back to, forget the
\* exit record, then load the program's table and its field in one uninterrupted step.
LoadSpace(t) ==
    LET d == depth[t] IN
    /\ Up(t) /\ pc[t] = "saved"
    /\ frame' = [frame EXCEPT ![t][d] =
                    [@ EXCEPT !.root = cr3, !.rsp0 = IF d = 0 THEN rsp0 ELSE Place(t, d - 1)]]
    /\ record' = [record EXCEPT ![t].exited = FALSE]
    /\ cr3' = Place(t, d)
    /\ root' = [root EXCEPT ![t] = Place(t, d)]
    /\ pc' = [pc EXCEPT ![t] = "loaded"]
    /\ UNCHANGED <<running, fate, iflag, level, on, rsp0, recovery, fp, entry_top, depth_field,
                   recovery_field, fp_area, saved_sp, depth, in_ring3, results>>

\* A program starts from fresh FP registers.
FreshFp(t) ==
    /\ Up(t) /\ pc[t] = "loaded"
    /\ fp' = Fresh
    /\ pc' = [pc EXCEPT ![t] = "fresh"]
    /\ UNCHANGED <<running, fate, iflag, level, frame, on, cr3, rsp0, recovery, fields, slots, results>>

----------------------------------------------------------------------------
(* run_excursion and the ways out of Ring 3 *)

\* CURRENT_RECOVERY.swap: this level's recovery point is set, the previous one kept.
ArmRecovery(t) ==
    /\ Up(t) /\ pc[t] = "fresh"
    /\ frame' = [frame EXCEPT ![t][depth[t]].recovery = recovery]
    /\ recovery' = Place(t, depth[t])
    /\ pc' = [pc EXCEPT ![t] = "armed"]
    /\ UNCHANGED <<running, fate, iflag, level, on, cr3, rsp0, fp, fields, slots, results>>

\* The depth of the slot goes up and the previous excursion's fold record is forgotten.
CountDepth(t) ==
    /\ Up(t) /\ pc[t] = "armed"
    /\ depth' = [depth EXCEPT ![t] = @ + 1]
    /\ record' = [record EXCEPT ![t].folded = FALSE, ![t].interrupted = FALSE]
    /\ pc' = [pc EXCEPT ![t] = "counted"]
    /\ UNCHANGED <<running, fate, iflag, level, frame, on, hardware, fields, in_ring3, results>>

\* Mutant: the depth noted in the task is the one before the excursion was counted.
EnterRing3Uncounted(t) ==
    LET d == depth[t] - 1 IN
    /\ Up(t) /\ pc[t] = "counted"
    /\ rsp0' = Place(t, d)
    /\ entry_top' = [entry_top EXCEPT ![t] = Place(t, d)]
    /\ depth_field' = [depth_field EXCEPT ![t] = d]
    /\ in_ring3' = [in_ring3 EXCEPT ![t] = TRUE]
    /\ fp' = Place(t, d)
    /\ pc' = [pc EXCEPT ![t] = "user"]
    /\ iflag' = [iflag EXCEPT ![t] = FALSE]
    /\ UNCHANGED <<running, fate, level, frame, on, cr3, recovery, root, recovery_field, fp_area,
                   saved_sp, depth, record, results>>

\* From cli to iretq: RSP0, the task's fields and in_ring3.  Ring 3 code then uses the
\* FP registers; the kernel code of this task stays at IF=0 from here on.
EnterRing3(t) ==
    LET d == depth[t] - 1 IN
    /\ Up(t) /\ pc[t] = "counted"
    /\ rsp0' = Place(t, d)
    /\ entry_top' = [entry_top EXCEPT ![t] = Place(t, d)]
    /\ depth_field' = [depth_field EXCEPT ![t] = d + 1]
    /\ in_ring3' = [in_ring3 EXCEPT ![t] = TRUE]
    /\ fp' = Place(t, d)
    /\ pc' = [pc EXCEPT ![t] = "user"]
    /\ iflag' = [iflag EXCEPT ![t] = FALSE]
    /\ UNCHANGED <<running, fate, level, frame, on, cr3, recovery, root, recovery_field, fp_area,
                   saved_sp, depth, record, results>>

\* syscall_entry: the processor pushes on RSP0; in_ring3 is lowered.
SyscallEntry(t) ==
    /\ Up(t) /\ pc[t] = "user"
    /\ on' = [on EXCEPT ![t] = rsp0]
    /\ in_ring3' = [in_ring3 EXCEPT ![t] = FALSE]
    /\ pc' = [pc EXCEPT ![t] = "syscall"]
    /\ UNCHANGED <<running, fate, iflag, level, frame, hardware, fields, depth, record, results>>

\* The end of syscall_entry: back to Ring 3.
SyscallReturn(t) ==
    /\ Up(t) /\ pc[t] = "syscall"
    /\ in_ring3' = [in_ring3 EXCEPT ![t] = TRUE]
    /\ pc' = [pc EXCEPT ![t] = "user"]
    /\ UNCHANGED <<running, fate, iflag, level, frame, on, hardware, fields, depth, record, results>>

\* leave_user_mode and the epilogue of run_excursion, without an interrupt in between.
\* The longjmp lands in whatever activation CURRENT_RECOVERY names; anywhere but in the
\* innermost activation of this task the machine runs on somebody else's stack.
leave_user_mode(t, noted, how) ==
    LET d == recovery[2]
        f == frame[t][d]
    IN
    /\ ended' = [ended EXCEPT ![t] = how]
    /\ record' = [record EXCEPT ![t] = noted]
    /\ in_ring3' = [in_ring3 EXCEPT ![t] = FALSE]
    /\ IF recovery # Place(t, level[t] - 1)
       THEN /\ fate' = "derailed"
            /\ UNCHANGED <<pc, on, depth, recovery, rsp0, entry_top, depth_field>>
       ELSE /\ depth' = [depth EXCEPT ![t] = d]
            /\ recovery' = f.recovery
            /\ rsp0' = f.rsp0
            /\ entry_top' = [entry_top EXCEPT ![t] = f.rsp0]
            /\ depth_field' = [depth_field EXCEPT ![t] = d]
            /\ on' = [on EXCEPT ![t] = Place(t, d - 1)]
            /\ pc' = [pc EXCEPT ![t] = "left"]
            /\ fate' = fate
    /\ UNCHANGED <<running, iflag, level, frame, cr3, fp, root, recovery_field, fp_area, saved_sp,
                   outcome>>

\* exception_entry: a fault in Ring 3 is folded when in_ring3 says so; else it halts.
Fault(t) ==
    /\ Up(t) /\ pc[t] = "user"
    /\ IF in_ring3[t]
       THEN leave_user_mode(t, [record[t] EXCEPT !.folded = TRUE], "folded")
       ELSE /\ fate' = "halted"
            /\ UNCHANGED <<running, control, hardware, fields, slots, results>>

\* SYS_EXIT.
Exit(t) ==
    /\ Up(t) /\ pc[t] = "syscall"
    /\ leave_user_mode(t, [record[t] EXCEPT !.exited = TRUE], "exited")

\* should_fold_excursion at a tick: Ctrl+C ends a child of the shell, or any program of
\* the detached slot.
Interrupt(t) ==
    /\ Up(t) /\ pc[t] = "user"
    /\ depth[t] >= (IF t = "ring3" THEN 1 ELSE 2)
    /\ leave_user_mode(t, [record[t] EXCEPT !.interrupted = TRUE], "interrupted")

\* Back in the caller of spawn: its frame is gone and it goes on where it was.
SpawnReturns(t) ==
    LET d == depth[t] IN
    /\ level' = [level EXCEPT ![t] = @ - 1]
    /\ frame' = [frame EXCEPT ![t][d] = EmptyFrame]
    /\ pc' = [pc EXCEPT ![t] = IF d > 0 THEN "syscall" ELSE IF t = "ring3" THEN "done" ELSE "kernel"]

\* What spawn says: an interruption first, then an exit, else a fold.
SpawnOutcome(r) ==
    IF r.interrupted THEN "interrupted" ELSE IF r.exited THEN "exited" ELSE "folded"

\* Mutant: the child's records stay where the parent's were.
RecordsKept(t) == UNCHANGED record

RestoreRecords(t) == record' = [record EXCEPT ![t] = frame[t][depth[t]].record]

\* Mutant: the task's field still names the table that is about to be destroyed.
FieldKept(t, noted) == UNCHANGED root

\* The field part of switch_page_table_root_and_note.
NoteRoot(t, noted) == root' = [root EXCEPT ![t] = noted]

\* The end of run_loaded_program and of spawn: the caller's table and its field, the
\* caller's FP, the ending of the child, the caller's records.  The space is destroyed.
UnloadSpace(t) ==
    LET d == depth[t]
        f == frame[t][d]
    IN
    /\ Up(t) /\ pc[t] = "left"
    /\ cr3' = f.root
    /\ NoteRoot(t, IF d = 0 THEN Zero ELSE f.root)
    /\ fp' = f.fp
    /\ outcome' = [outcome EXCEPT ![t] = SpawnOutcome(record[t])]
    /\ RestoreRecords(t)
    /\ SpawnReturns(t)
    /\ UNCHANGED <<running, fate, iflag, on, rsp0, recovery, entry_top, depth_field, recovery_field,
                   fp_area, saved_sp, depth, in_ring3, ended>>

\* load_user_program fails before the program ran: spawn restores what it saved.
LoadFails(t) ==
    /\ Up(t) /\ pc[t] = "saved"
    /\ fp' = frame[t][depth[t]].fp
    /\ RestoreRecords(t)
    /\ SpawnReturns(t)
    /\ UNCHANGED <<running, fate, iflag, on, cr3, rsp0, recovery, fields, depth, in_ring3, results>>

\* The last yield of ring3_task_main; the task is reaped and may be started again.
FinishRing3Task(next) ==
    /\ Up("ring3") /\ pc["ring3"] = "done"
    /\ Switch("ring3", on["ring3"], next)
    /\ pc' = [pc EXCEPT !["ring3"] = "none"]
    /\ UNCHANGED <<iflag, level, frame, on, slots, results>>

----------------------------------------------------------------------------
Init ==
    /\ running = "main" /\ fate = "fine"
    /\ pc = [t \in Tasks |-> IF t = "ring3" THEN "none" ELSE "kernel"]
    /\ iflag = [t \in Tasks |-> TRUE]
    /\ level = [t \in UserTasks |-> 0]
    /\ frame = [t \in UserTasks |-> [d \in Levels |-> EmptyFrame]]
    /\ on = [t \in Tasks |-> KernelStack(t)]
    /\ cr3 = KernelRoot /\ rsp0 = KernelStack("main") /\ recovery = Zero /\ fp = Fresh
    /\ root = [t \in Tasks |-> Zero]
    /\ entry_top = [t \in Tasks |-> KernelStack(t)]
    /\ depth_field = [t \in Tasks |-> 0]
    /\ recovery_field = [t \in Tasks |-> Zero]
    /\ fp_area = [t \in Tasks |-> Fresh]
    /\ saved_sp = [t \in Tasks |-> KernelStack(t)]
    /\ depth = [t \in UserTasks |-> 0]
    /\ in_ring3 = [t \in UserTasks |-> FALSE]
    /\ record = [t \in UserTasks |-> NoRecord]
    /\ ended = [t \in UserTasks |-> "no"]
    /\ outcome = [t \in UserTasks |-> "no"]

Next ==
    \/ StartRing3Task
    \/ \E t \in Tasks, next \in Tasks : Tick(t, next)
    \/ \E next \in Tasks : FinishRing3Task(next)
    \/ \E t \in UserTasks :
          \/ Spawn(t) \/ LoadSpace(t) \/ LoadFails(t) \/ FreshFp(t) \/ ArmRecovery(t)
          \/ CountDepth(t) \/ EnterRing3(t) \/ SyscallEntry(t) \/ SyscallReturn(t)
          \/ Fault(t) \/ Exit(t) \/ Interrupt(t) \/ UnloadSpace(t)
          \/ \E next \in Tasks : Yield(t, next)

Spec == Init /\ [][Next]_vars

----------------------------------------------------------------------------
(* Properties *)

Pcs == {"none", "kernel", "saved", "loaded", "fresh", "armed", "counted", "user", "syscall",
        "left", "done"}
Endings == {"no", "exited", "folded", "interrupted"}
Records == [exited : BOOLEAN, folded : BOOLEAN, interrupted : BOOLEAN]
Frames == [root : Places, rsp0 : Places, recovery : Places, fp : Places, record : Records]

\* Every variable has its type; no task nests deeper than MAX_EXCURSION_DEPTH, which
\* bounds the tables run_excursion indexes.
TypeOK ==
    /\ running \in Tasks /\ fate \in {"fine", "halted", "derailed"}
    /\ pc \in [Tasks -> Pcs] /\ iflag \in [Tasks -> BOOLEAN]
    /\ level \in [UserTasks -> 0 .. MaxDepth]
    /\ frame \in [UserTasks -> [Levels -> Frames]]
    /\ on \in [Tasks -> Places]
    /\ {cr3, rsp0, recovery, fp} \subseteq Places
    /\ root \in [Tasks -> Places] /\ entry_top \in [Tasks -> Places]
    /\ depth_field \in [Tasks -> 0 .. MaxDepth]
    /\ recovery_field \in [Tasks -> Places] /\ fp_area \in [Tasks -> Places]
    /\ saved_sp \in [Tasks -> Places]
    /\ depth \in [UserTasks -> 0 .. MaxDepth] /\ in_ring3 \in [UserTasks -> BOOLEAN]
    /\ record \in [UserTasks -> Records]
    /\ ended \in [UserTasks -> Endings] /\ outcome \in [UserTasks -> Endings]

\* While a program runs in Ring 3 the processor holds that program's own table, RSP0,
\* recovery point and FP registers, whatever switches, children and folds came before
\* (schedule_switch, run_excursion, spawn).  Before its first instruction the FP
\* registers are fresh, although ticks cut the way from restore_fp_state to iretq.
UserMachine ==
    running \in UserTasks =>
        LET own == Place(running, level[running] - 1) IN
        /\ pc[running] = "user" =>
              cr3 = own /\ rsp0 = own /\ recovery = own /\ fp = own /\ in_ring3[running]
        /\ pc[running] \in {"fresh", "armed", "counted"} => fp = Fresh

\* None of the consistency checks of schedule_switch and exception_entry ever fires, and
\* no longjmp lands in an activation that is not the innermost one of the running task.
NothingStops == fate = "fine"

\* The processor and the tasks' fields name only live user spaces: a space is destroyed
\* right after run_loaded_program, so a table still named then would be a dead one.
NoDeadRoot ==
    LET live == {Place(t, d) : t \in UserTasks, d \in Levels} IN
    \A r \in {cr3} \union {root[t] : t \in Alive} :
        r \in {Zero, KernelRoot} \/ (r \in live /\ r[2] < level[r[1]])

\* spawn tells how the child it ran really ended: neither the parent's earlier records
\* nor those of the child's own children show through.
OutcomeIsTrue == \A t \in UserTasks : pc[t] # "left" => outcome[t] = ended[t]
============================================================================
