-------------------------- MODULE ExcursionProofs --------------------------
(***************************************************************************)
(* For every MAX_EXCURSION_DEPTH: a program in Ring 3 runs on its own      *)
(* machine state, none of the kernel's consistency checks ever fires, no   *)
(* destroyed table is named, and spawn tells the truth about its child.    *)
(*                                                                         *)
(* The invariant says, for each task, which level its fields, its saved    *)
(* frames and (when it runs) the processor stand at, as a function of      *)
(* where the task is on its way into or out of Ring 3.  First come the     *)
(* steps of one task on its own way, then the ways out of Ring 3, the task *)
(* switch and the theorems, and last what spawn reads in the records.      *)
(***************************************************************************)
EXTENDS Excursion, TLAPS

\* How many levels of task t have entered Ring 3, loaded their table, armed their
\* recovery point.
Outside(t) == pc[t] \in {"none", "kernel", "done"}
Inner(t, stages) ==
    IF Outside(t) THEN 0 ELSE IF pc[t] \in stages THEN level[t] ELSE level[t] - 1

Entered(t) == Inner(t, {"user", "syscall"})
Loaded(t) == Inner(t, {"loaded", "fresh", "armed", "counted", "user", "syscall", "left"})
Armed(t) == Inner(t, {"armed", "counted", "user", "syscall"})
Counted(t) == Inner(t, {"counted", "user", "syscall"})

\* The place of level n - 1, or zero when there is none.
Top(t, n) == IF n = 0 THEN Zero ELSE Place(t, n - 1)

\* What the FP registers of task t must hold while it runs, or its area while it waits.
FpOf(t, value) ==
    /\ pc[t] \in {"user", "syscall"} => value = Place(t, level[t] - 1)
    /\ pc[t] \in {"fresh", "armed", "counted"} => value = Fresh
    /\ pc[t] = "saved" /\ level[t] > 1 => value = Place(t, level[t] - 2)

\* Where a task is determines its nesting and its fields.
Fields(t) ==
    /\ level[t] \in 0 .. MaxDepth
    /\ Outside(t) <=> level[t] = 0
    /\ depth[t] = Counted(t)
    /\ depth_field[t] = Entered(t)
    /\ entry_top[t] = Place(t, Entered(t) - 1)
    /\ pc[t] # "user" => on[t] = Place(t, Entered(t) - 1)
    /\ root[t] = Top(t, Loaded(t))
    /\ in_ring3[t] <=> pc[t] = "user"

\* What the activations of run_loaded_program and run_excursion saved.
SavedFrames(t) ==
    \A d \in Levels :
        /\ d < level[t] /\ d > 0 => frame[t][d].fp = Place(t, d - 1)
        /\ d < Loaded(t) => /\ frame[t][d].root = page_table_root_to_load(Top(t, d))
                            /\ frame[t][d].rsp0 = Place(t, d - 1)
        /\ d < Armed(t) => frame[t][d].recovery = Top(t, d)

\* The processor holds the running task's state; the others' are in their fields.
Machine(t) ==
    t = running =>
        /\ cr3 = page_table_root_to_load(root[t])
        /\ rsp0 = entry_top[t]
        /\ recovery = IF t = "idle" THEN Zero ELSE Top(t, Armed(t))
        /\ t \in UserTasks => FpOf(t, fp)

Parked(t) ==
    t # running /\ pc[t] # "none" =>
        /\ saved_sp[t] = expected_stack(t)
        /\ recovery_field[t] = IF t = "idle" THEN Zero ELSE Top(t, Armed(t))
        /\ t \in UserTasks => FpOf(t, fp_area[t])

IdleFields ==
    /\ pc["idle"] = "kernel" /\ depth_field["idle"] = 0 /\ root["idle"] = Zero
    /\ entry_top["idle"] = KernelStack("idle") /\ on["idle"] = KernelStack("idle")

Consistent ==
    /\ running \in Tasks /\ pc[running] # "none"
    /\ pc["main"] \notin {"none", "done"}
    /\ \A t \in UserTasks : Fields(t) /\ SavedFrames(t)
    /\ IdleFields
    /\ \A t \in Tasks : Parked(t) /\ Machine(t)
    /\ NothingStops

IInv == TypeOK /\ Consistent

----------------------------------------------------------------------------
\* Every place named in the code is one of the model's places.
LEMMA PlaceType ==
    /\ \A t \in Tasks, d \in -1 .. MaxDepth - 1 : Place(t, d) \in Places
    /\ {Zero, Fresh, KernelRoot} \subseteq Places
  BY MaxDepthAssumption DEF Places, Place, Zero, Fresh, KernelRoot, Tasks, UserTasks

\* At boot the main task runs in the kernel and nobody has an excursion.
LEMMA InitIInv == Init => IInv
<1> SUFFICES ASSUME Init PROVE IInv
  BY Zenon
<1> USE MaxDepthAssumption, PlaceType
<1>1. TypeOK
  BY DEF Init, TypeOK, Tasks, UserTasks, Pcs, Endings, Records, Frames, Levels, NoRecord,
         EmptyFrame, KernelStack
<1> USE DEF Init, Tasks, UserTasks, Levels, KernelStack, Place
<1>2. \A t \in UserTasks : Fields(t)
  BY DEF Fields, Entered, Loaded, Counted, Inner, Outside, Top
<1>3. \A t \in UserTasks : SavedFrames(t)
  BY DEF SavedFrames, Loaded, Armed, Inner, Outside
<1>4. \A t \in Tasks : Parked(t)
  BY DEF Parked, FpOf, expected_stack, Armed, Inner, Outside, Top
<1>5. (\A t \in Tasks : Machine(t)) /\ IdleFields /\ NothingStops
  BY Zenon DEF Machine, IdleFields, NothingStops, page_table_root_to_load, Armed, Inner, Outside,
     Top,
     FpOf
<1> QED BY <1>1, <1>2, <1>3, <1>4, <1>5, Zenon DEF IInv, Consistent

\* Writing one level's frame leaves every other level and the other task alone.
LEMMA FrameUpdate ==
    ASSUME TypeOK, NEW t \in UserTasks, NEW d \in Levels, NEW new \in Frames,
           frame' = [frame EXCEPT ![t][d] = new]
    PROVE  /\ frame' \in [UserTasks -> [Levels -> Frames]] /\ frame'[t][d] = new
           /\ \A e \in Levels \ {d} : frame'[t][e] = frame[t][e]
           /\ \A u \in UserTasks \ {t} : frame'[u] = frame[u]
  BY Zenon DEF TypeOK

\* A caller of spawn has its own level counted.
LEMMA CallerDepth ==
    ASSUME NEW t \in UserTasks, Fields(t), pc[t] \in {"kernel", "syscall"}
    PROVE  depth[t] = level[t] /\ level[t] \in Nat
<1>1. depth[t] = level[t] /\ level[t] \in 0 .. MaxDepth
  BY Zenon DEF Fields, Counted, Inner, Outside
<1> QED BY <1>1, MaxDepthAssumption

\* Between spawn and its return, outside Ring 3, the depth is that of the caller.
LEMMA DepthInLevels ==
    ASSUME NEW t \in UserTasks, Fields(t),
           pc[t] \in {"saved", "loaded", "fresh", "armed", "left"}
    PROVE  /\ level[t] \in 1 .. MaxDepth /\ depth[t] = level[t] - 1 /\ depth[t] \in Levels
           /\ depth[t] \in Nat /\ depth[t] < level[t] /\ depth[t] \in 0 .. MaxDepth
<1>1. depth[t] = level[t] - 1 /\ level[t] # 0 /\ level[t] \in 0 .. MaxDepth
  BY Zenon DEF Fields, Counted, Inner, Outside
<1> QED BY <1>1, MaxDepthAssumption DEF Levels

\* A change of a saved frame's other fields leaves its records.
LEMMA FrameRecord ==
    ASSUME NEW f \in Frames, NEW a, NEW b, NEW c
    PROVE  /\ [f EXCEPT !.fp = a, !.record = b].record = b
           /\ [f EXCEPT !.recovery = c].record = f.record
           /\ [f EXCEPT !.root = a, !.rsp0 = b].record = f.record
  BY DEF Frames

\* A task none of whose fields changes stands where it stood.
LEMMA Untouched ==
    ASSUME NEW u \in UserTasks, Fields(u), SavedFrames(u),
           pc'[u] = pc[u], level'[u] = level[u], frame'[u] = frame[u], on'[u] = on[u],
           root'[u] = root[u], entry_top'[u] = entry_top[u], depth_field'[u] = depth_field[u],
           depth'[u] = depth[u], in_ring3'[u] = in_ring3[u]
    PROVE  Fields(u)' /\ SavedFrames(u)'
  BY DEF Fields, SavedFrames, Entered, Loaded, Armed, Counted, Inner, Outside,
     page_table_root_to_load, Top

\* A step of the running task t that touches nothing of the others.
Only(t) ==
    /\ running = t /\ running' = t /\ fate' = fate
    /\ \A u \in Tasks \ {t} :
          /\ pc'[u] = pc[u] /\ on'[u] = on[u] /\ root'[u] = root[u] /\ entry_top'[u] = entry_top[u]
          /\ depth_field'[u] = depth_field[u] /\ saved_sp'[u] = saved_sp[u]
          /\ recovery_field'[u] = recovery_field[u] /\ fp_area'[u] = fp_area[u]
    /\ \A u \in UserTasks \ {t} :
          /\ level'[u] = level[u] /\ frame'[u] = frame[u] /\ depth'[u] = depth[u]
          /\ in_ring3'[u] = in_ring3[u]

\* Such a step keeps the invariant when it leaves t itself in order.
LEMMA LocalStep ==
    ASSUME NEW t \in UserTasks, IInv, Only(t), TypeOK', Fields(t)', SavedFrames(t)', Machine(t)',
           pc'[t] # "none", t = "main" => pc'[t] # "done"
    PROVE  IInv'
<1>1. \A u \in UserTasks : Fields(u)' /\ SavedFrames(u)'
  <2> TAKE u \in UserTasks
  <2>1. CASE u # t
    BY <2>1, Untouched, Zenon DEF Only, IInv, Consistent, Tasks
  <2> QED BY <2>1, Zenon
<1>2. \A u \in Tasks : Parked(u)'
  <2> TAKE u \in Tasks
  <2>1. CASE u = t
    BY <2>1, Zenon DEF Only, Parked
  <2>2. CASE u # t
    <3>1. Parked(u) /\ u # running /\ (u \in UserTasks => level'[u] = level[u])
      BY <2>2, Zenon DEF Only, IInv, Consistent
    <3> QED BY <2>2, <3>1, Zenon
       DEF Only, Parked, FpOf, expected_stack, Armed, Inner, Outside, Top, Tasks
  <2> QED BY <2>1, <2>2, Zenon
<1>3. \A u \in Tasks : Machine(u)'
  BY Zenon DEF Only, Machine
<1>4. IdleFields' /\ NothingStops'
  BY Zenon DEF Only, IInv, Consistent, IdleFields, NothingStops, Tasks, UserTasks
<1>5. running' \in Tasks /\ pc'[running'] # "none" /\ pc'["main"] \notin {"none", "done"}
  BY Zenon DEF Only, IInv, Consistent, Tasks, UserTasks
<1> QED BY <1>1, <1>2, <1>3, <1>4, <1>5, Zenon DEF IInv, Consistent

----------------------------------------------------------------------------
(* The steps of the running task, up to Ring 3 *)

\* spawn saves the caller's FP registers, which are the caller's own.
LEMMA SpawnStep == ASSUME NEW t \in UserTasks, IInv, Spawn(t) PROVE IInv'
<1>1. /\ TypeOK /\ Fields(t) /\ SavedFrames(t) /\ Machine(t) /\ t \in Tasks /\ running = t
      /\ pc[t] \in {"kernel", "syscall"} /\ depth[t] < MaxDepth
  BY Zenon DEF IInv, Consistent, Tasks, Spawn, Up
<1>2. level[t] \in 0 .. MaxDepth - 1 /\ depth[t] = level[t] /\ depth[t] \in Levels
  BY <1>1, MaxDepthAssumption DEF Fields, Counted, Inner, Outside, Levels
<1> DEFINE new == [frame[t][depth[t]] EXCEPT !.fp = fp, !.record = record[t]]
<1>3. frame' = [frame EXCEPT ![t][depth[t]] = new]
  BY Zenon DEF Spawn
<1>4. new \in Frames /\ new.fp = fp
  <2>1. frame[t][depth[t]] \in Frames /\ fp \in Places /\ record[t] \in Records
    BY <1>1, <1>2, Zenon DEF TypeOK
  <2> QED BY <2>1, Zenon DEF Frames
<1> HIDE DEF new
<1>5. /\ frame' \in [UserTasks -> [Levels -> Frames]] /\ frame'[t][depth[t]] = new
      /\ \A d \in Levels \ {depth[t]} : frame'[t][d] = frame[t][d]
      /\ \A u \in UserTasks \ {t} : frame'[u] = frame[u]
  BY <1>1, <1>2, <1>3, <1>4, FrameUpdate, Zenon
<1>6. /\ level' = [level EXCEPT ![t] = level[t] + 1] /\ pc' = [pc EXCEPT ![t] = "saved"]
      /\ UNCHANGED <<running, fate, iflag, on, hardware, fields, slots, results>>
  BY Zenon DEF Spawn
<1>7. TypeOK'
  BY <1>1, <1>2, <1>5, <1>6, MaxDepthAssumption DEF TypeOK, hardware, fields, slots, results, Pcs
<1>8. Only(t)
  BY <1>1, <1>5, <1>6, Zenon DEF Only, TypeOK, fields, slots
<1>9. pc'[t] = "saved" /\ level'[t] = level[t] + 1
  BY <1>1, <1>6, Zenon DEF TypeOK
<1>10. /\ Entered(t) = level[t] /\ Loaded(t) = level[t] /\ Armed(t) = level[t]
       /\ Entered(t)' = level[t] /\ Loaded(t)' = level[t] /\ Armed(t)' = level[t]
       /\ Counted(t)' = level[t] /\ ~Outside(t)'
  BY <1>1, <1>2, <1>9 DEF Fields, Entered, Loaded, Armed, Counted, Inner, Outside
<1>11. Fields(t)'
  BY <1>1, <1>2, <1>6, <1>9, <1>10, MaxDepthAssumption DEF Fields, fields, slots
<1>12. level[t] > 0 => fp = Place(t, level[t] - 1)
  BY <1>1, <1>2 DEF Machine, FpOf, Fields, Outside
<1>13. SavedFrames(t)'
  <2> SUFFICES ASSUME NEW d \in Levels, d <= level[t]
              PROVE  /\ d > 0 => frame'[t][d].fp = Place(t, d - 1)
                     /\ d < level[t] =>
                           /\ frame'[t][d].root = page_table_root_to_load(Top(t, d))
                           /\ frame'[t][d].rsp0 = Place(t, d - 1)
                           /\ frame'[t][d].recovery = Top(t, d)
    BY <1>2, <1>9, <1>10 DEF SavedFrames, Levels
  <2>1. CASE d = level[t]
    BY <1>2, <1>4, <1>5, <1>12, <2>1
  <2>2. CASE d # level[t]
    BY <1>1, <1>2, <1>5, <1>10, <2>2 DEF SavedFrames, Levels
  <2> QED BY <2>1, <2>2, Zenon
<1>14. Machine(t)'
  <2>1. FpOf(t, fp)'
    BY <1>2, <1>6, <1>9, <1>12 DEF FpOf, Place, hardware
  <2> QED BY <1>1, <1>6, <1>10, <2>1, Zenon DEF Machine, hardware, fields
<1> QED BY <1>7, <1>8, <1>9, <1>11, <1>13, <1>14, LocalStep, Zenon

\* run_loaded_program notes the table and the RSP0 that are in use, then loads its own.
LEMMA LoadSpaceStep == ASSUME NEW t \in UserTasks, IInv, LoadSpace(t) PROVE IInv'
<1>1. /\ TypeOK /\ Fields(t) /\ SavedFrames(t) /\ Machine(t) /\ t \in Tasks /\ running = t
      /\ pc[t] = "saved"
  BY Zenon DEF IInv, Consistent, Tasks, LoadSpace, Up
<1>2. level[t] \in 1 .. MaxDepth /\ depth[t] = level[t] - 1 /\ depth[t] \in Levels
  BY <1>1, MaxDepthAssumption DEF Fields, Counted, Inner, Outside, Levels
<1>3. /\ Entered(t) = depth[t] /\ Loaded(t) = depth[t] /\ Armed(t) = depth[t]
  BY <1>1, <1>2, Zenon DEF Entered, Loaded, Armed, Inner, Outside
<1>4. cr3 = page_table_root_to_load(Top(t, depth[t])) /\ rsp0 = Place(t, depth[t] - 1)
  BY <1>1, <1>3, Zenon DEF Machine, Fields
<1> DEFINE new == [frame[t][depth[t]] EXCEPT !.root = cr3, !.rsp0 = rsp0]
<1>5. frame' = [frame EXCEPT ![t][depth[t]] = new]
  BY <1>4, Zenon DEF LoadSpace
<1>6. new \in Frames /\ new.root = cr3 /\ new.rsp0 = rsp0 /\ new.fp = frame[t][depth[t]].fp
  <2>1. frame[t][depth[t]] \in Frames /\ cr3 \in Places /\ rsp0 \in Places
    BY <1>1, <1>2, Zenon DEF TypeOK
  <2> QED BY <2>1, Zenon DEF Frames
<1> HIDE DEF new
<1>7. /\ frame' \in [UserTasks -> [Levels -> Frames]] /\ frame'[t][depth[t]] = new
      /\ \A d \in Levels \ {depth[t]} : frame'[t][d] = frame[t][d]
      /\ \A u \in UserTasks \ {t} : frame'[u] = frame[u]
  BY <1>1, <1>2, <1>5, <1>6, FrameUpdate, Zenon
<1>8. /\ record' = [record EXCEPT ![t].exited = FALSE] /\ cr3' = Place(t, depth[t])
      /\ root' = [root EXCEPT ![t] = Place(t, depth[t])] /\ pc' = [pc EXCEPT ![t] = "loaded"]
      /\ UNCHANGED <<running, fate, iflag, level, on, rsp0, recovery, fp, entry_top, depth_field,
                     recovery_field, fp_area, saved_sp, depth, in_ring3, results>>
  BY Zenon DEF LoadSpace
<1>9. TypeOK'
  <2>1. record' \in [UserTasks -> Records]
    BY ONLY <1>1, <1>8, Zenon DEF TypeOK, Records
  <2>2. Place(t, depth[t]) \in Places
    BY <1>1, <1>2, MaxDepthAssumption, PlaceType
  <2> QED BY <1>1, <1>7, <1>8, <2>1, <2>2, Zenon DEF TypeOK, results, Pcs
<1>10. Only(t)
  BY <1>1, <1>7, <1>8, Zenon DEF Only, TypeOK
<1>11. pc'[t] = "loaded" /\ root'[t] = Place(t, depth[t]) /\ level'[t] = level[t]
  BY <1>1, <1>8, Zenon DEF TypeOK
<1>12. /\ Entered(t)' = depth[t] /\ Loaded(t)' = level[t] /\ Armed(t)' = depth[t]
       /\ Counted(t)' = depth[t] /\ ~Outside(t)'
  BY <1>2, <1>11, Zenon DEF Entered, Loaded, Armed, Counted, Inner, Outside
<1>13. root'[t] = Top(t, level[t]) /\ page_table_root_to_load(root'[t]) = root'[t]
  BY <1>2, <1>11 DEF Top, page_table_root_to_load, Place, Zero, UserTasks
<1>14. Fields(t)'
  BY <1>1, <1>2, <1>3, <1>8, <1>11, <1>12, <1>13 DEF Fields
<1>15. SavedFrames(t)'
  <2> SUFFICES ASSUME NEW d \in Levels, d < level[t]
              PROVE  /\ d > 0 => frame'[t][d].fp = Place(t, d - 1)
                     /\ frame'[t][d].root = page_table_root_to_load(Top(t, d))
                     /\ frame'[t][d].rsp0 = Place(t, d - 1)
                     /\ d < depth[t] => frame'[t][d].recovery = Top(t, d)
    BY <1>2, <1>11, <1>12 DEF SavedFrames, Levels
  <2>1. CASE d = depth[t]
    BY <1>1, <1>2, <1>4, <1>6, <1>7, <2>1 DEF SavedFrames
  <2>2. CASE d # depth[t]
    BY <1>1, <1>2, <1>3, <1>7, <2>2 DEF SavedFrames, Levels
  <2> QED BY <2>1, <2>2, Zenon
<1>16. Machine(t)'
  BY <1>1, <1>3, <1>8, <1>11, <1>12, <1>13, Zenon DEF Machine, FpOf
<1> QED BY <1>9, <1>10, <1>11, <1>14, <1>15, <1>16, LocalStep, Zenon

\* restore_fp_state touches the FP registers only.
LEMMA FreshFpStep == ASSUME NEW t \in UserTasks, IInv, FreshFp(t) PROVE IInv'
<1>1. /\ TypeOK /\ Fields(t) /\ SavedFrames(t) /\ Machine(t) /\ t \in Tasks /\ running = t
      /\ pc[t] = "loaded"
  BY Zenon DEF IInv, Consistent, Tasks, FreshFp, Up
<1>2. /\ fp' = Fresh /\ pc' = [pc EXCEPT ![t] = "fresh"]
      /\ UNCHANGED <<running, fate, iflag, level, frame, on, cr3, rsp0, recovery, fields, slots,
                     results>>
  BY Zenon DEF FreshFp
<1>3. TypeOK'
  BY <1>1, <1>2, PlaceType, Zenon DEF TypeOK, fields, slots, results, Pcs
<1>4. Only(t)
  BY <1>1, <1>2, Zenon DEF Only, TypeOK, fields, slots
<1>5. pc'[t] = "fresh"
  BY <1>1, <1>2, Zenon DEF TypeOK
<1>6. /\ Entered(t)' = Entered(t) /\ Loaded(t)' = Loaded(t) /\ Armed(t)' = Armed(t)
      /\ Counted(t)' = Counted(t) /\ ~Outside(t) /\ ~Outside(t)'
  BY <1>1, <1>2, <1>5, Zenon DEF Entered, Loaded, Armed, Counted, Inner, Outside
<1>7. Fields(t)'
  BY <1>1, <1>2, <1>5, <1>6, Zenon DEF Fields, fields, slots
<1>8. SavedFrames(t)'
  BY <1>1, <1>2, <1>6, Zenon DEF SavedFrames
<1>9. Machine(t)'
  BY <1>1, <1>2, <1>5, <1>6, Zenon DEF Machine, FpOf, fields
<1> QED BY <1>3, <1>4, <1>5, <1>7, <1>8, <1>9, LocalStep, Zenon

\* run_excursion keeps the recovery point of the level above and sets its own.
LEMMA ArmRecoveryStep == ASSUME NEW t \in UserTasks, IInv, ArmRecovery(t) PROVE IInv'
<1>1. /\ TypeOK /\ Fields(t) /\ SavedFrames(t) /\ Machine(t) /\ t \in Tasks /\ running = t
      /\ pc[t] = "fresh"
  BY Zenon DEF IInv, Consistent, Tasks, ArmRecovery, Up
<1>2. level[t] \in 1 .. MaxDepth /\ depth[t] = level[t] - 1 /\ depth[t] \in Levels
  BY <1>1, MaxDepthAssumption DEF Fields, Counted, Inner, Outside, Levels
<1>3. /\ Entered(t) = depth[t] /\ Loaded(t) = level[t] /\ Armed(t) = depth[t]
  BY <1>1, <1>2, Zenon DEF Entered, Loaded, Armed, Inner, Outside
<1>4. recovery = Top(t, depth[t])
  BY <1>1, <1>3, Zenon DEF Machine, UserTasks
<1> DEFINE new == [frame[t][depth[t]] EXCEPT !.recovery = recovery]
<1>5. frame' = [frame EXCEPT ![t][depth[t]] = new]
  BY Zenon DEF ArmRecovery
<1>6. /\ new \in Frames /\ new.recovery = recovery /\ new.fp = frame[t][depth[t]].fp
      /\ new.root = frame[t][depth[t]].root /\ new.rsp0 = frame[t][depth[t]].rsp0
  <2>1. frame[t][depth[t]] \in Frames /\ recovery \in Places
    BY <1>1, <1>2, Zenon DEF TypeOK
  <2> QED BY <2>1, Zenon DEF Frames
<1> HIDE DEF new
<1>7. /\ frame' \in [UserTasks -> [Levels -> Frames]] /\ frame'[t][depth[t]] = new
      /\ \A d \in Levels \ {depth[t]} : frame'[t][d] = frame[t][d]
      /\ \A u \in UserTasks \ {t} : frame'[u] = frame[u]
  BY <1>1, <1>2, <1>5, <1>6, FrameUpdate, Zenon
<1>8. /\ recovery' = Place(t, depth[t]) /\ pc' = [pc EXCEPT ![t] = "armed"]
      /\ UNCHANGED <<running, fate, iflag, level, on, cr3, rsp0, fp, fields, slots, results>>
  BY Zenon DEF ArmRecovery
<1>9. TypeOK'
  <2>1. Place(t, depth[t]) \in Places
    BY <1>1, <1>2, MaxDepthAssumption, PlaceType
  <2> QED BY <1>1, <1>7, <1>8, <2>1, Zenon DEF TypeOK, fields, slots, results, Pcs
<1>10. Only(t)
  BY <1>1, <1>7, <1>8, Zenon DEF Only, TypeOK, fields, slots
<1>11. pc'[t] = "armed"
  BY <1>1, <1>8, Zenon DEF TypeOK
<1>12. /\ Entered(t)' = depth[t] /\ Loaded(t)' = level[t] /\ Armed(t)' = level[t]
       /\ Counted(t)' = depth[t] /\ ~Outside(t)'
  BY <1>2, <1>8, <1>11, Zenon DEF Entered, Loaded, Armed, Counted, Inner, Outside
<1>13. Fields(t)'
  BY <1>1, <1>2, <1>3, <1>8, <1>11, <1>12 DEF Fields, fields, slots
<1>14. SavedFrames(t)'
  <2> SUFFICES ASSUME NEW d \in Levels, d < level[t]
              PROVE  /\ d > 0 => frame'[t][d].fp = Place(t, d - 1)
                     /\ frame'[t][d].root = page_table_root_to_load(Top(t, d))
                     /\ frame'[t][d].rsp0 = Place(t, d - 1)
                     /\ frame'[t][d].recovery = Top(t, d)
    BY <1>8, <1>12, Zenon DEF SavedFrames
  <2>1. CASE d = depth[t]
    BY <1>1, <1>2, <1>3, <1>4, <1>6, <1>7, <2>1, Zenon DEF SavedFrames
  <2>2. CASE d # depth[t]
    BY <1>1, <1>2, <1>3, <1>7, <2>2 DEF SavedFrames, Levels
  <2> QED BY <2>1, <2>2, Zenon
<1>15. Machine(t)'
  <2>1. recovery' = Top(t, level[t])
    BY <1>2, <1>8 DEF Top
  <2> QED BY <1>1, <1>8, <1>11, <1>12, <2>1, Zenon DEF Machine, FpOf, fields, UserTasks
<1> QED BY <1>9, <1>10, <1>11, <1>13, <1>14, <1>15, LocalStep, Zenon

\* Counting the excursion changes the slot's depth, not yet the task's field.
LEMMA CountDepthStep == ASSUME NEW t \in UserTasks, IInv, CountDepth(t) PROVE IInv'
<1>1. /\ TypeOK /\ Fields(t) /\ SavedFrames(t) /\ Machine(t) /\ t \in Tasks /\ running = t
      /\ pc[t] = "armed"
  BY Zenon DEF IInv, Consistent, Tasks, CountDepth, Up
<1>2. level[t] \in 1 .. MaxDepth /\ depth[t] = level[t] - 1
  BY <1>1, MaxDepthAssumption DEF Fields, Counted, Inner, Outside
<1>3. /\ depth' = [depth EXCEPT ![t] = depth[t] + 1]
      /\ record' = [record EXCEPT ![t].folded = FALSE, ![t].interrupted = FALSE]
      /\ pc' = [pc EXCEPT ![t] = "counted"]
      /\ UNCHANGED <<running, fate, iflag, level, frame, on, hardware, fields, in_ring3, results>>
  BY Zenon DEF CountDepth
<1>4. TypeOK'
  <2>1. record' \in [UserTasks -> Records]
    BY ONLY <1>1, <1>3, ZenonT(60) DEF TypeOK, Records
  <2> QED BY <1>1, <1>2, <1>3, <2>1, MaxDepthAssumption DEF TypeOK, hardware, fields, results, Pcs
<1>5. Only(t)
  BY <1>1, <1>3, Zenon DEF Only, TypeOK, fields
<1>6. pc'[t] = "counted" /\ depth'[t] = level[t]
  BY <1>1, <1>2, <1>3 DEF TypeOK
<1>7. /\ Entered(t)' = Entered(t) /\ Loaded(t)' = Loaded(t) /\ Armed(t)' = Armed(t)
      /\ Counted(t)' = level[t] /\ ~Outside(t)'
  BY <1>1, <1>3, <1>6, Zenon DEF Entered, Loaded, Armed, Counted, Inner, Outside
<1>8. Fields(t)'
  BY <1>1, <1>2, <1>3, <1>6, <1>7 DEF Fields, fields
<1>9. SavedFrames(t)'
  BY <1>1, <1>3, <1>7, Zenon DEF SavedFrames
<1>10. Machine(t)'
  BY <1>1, <1>3, <1>6, <1>7, Zenon DEF Machine, FpOf, hardware, fields
<1> QED BY <1>4, <1>5, <1>6, <1>8, <1>9, <1>10, LocalStep, Zenon

\* From cli to iretq every field of the task moves to the new level.
LEMMA EnterRing3Step == ASSUME NEW t \in UserTasks, IInv, EnterRing3(t) PROVE IInv'
<1> DEFINE own == Place(t, level[t] - 1)
<1>1. /\ TypeOK /\ Fields(t) /\ SavedFrames(t) /\ Machine(t) /\ t \in Tasks /\ running = t
      /\ pc[t] = "counted"
  BY Zenon DEF IInv, Consistent, Tasks, EnterRing3, Up
<1>2. /\ level[t] \in 1 .. MaxDepth /\ depth[t] = level[t] /\ Loaded(t) = level[t]
      /\ Armed(t) = level[t] /\ depth[t] - 1 + 1 = level[t]
  BY <1>1, MaxDepthAssumption DEF Fields, Loaded, Armed, Counted, Inner, Outside
<1>3. /\ rsp0' = own /\ entry_top' = [entry_top EXCEPT ![t] = own] /\ fp' = own
      /\ depth_field' = [depth_field EXCEPT ![t] = level[t]]
      /\ in_ring3' = [in_ring3 EXCEPT ![t] = TRUE]
      /\ pc' = [pc EXCEPT ![t] = "user"] /\ iflag' = [iflag EXCEPT ![t] = FALSE]
      /\ UNCHANGED <<running, fate, level, frame, on, cr3, recovery, root, recovery_field, fp_area,
                     saved_sp, depth, record, results>>
  BY <1>2, Zenon DEF EnterRing3
<1>4. TypeOK'
  <2>1. own \in Places
    BY <1>1, <1>2, MaxDepthAssumption, PlaceType
  <2> HIDE DEF own
  <2> QED BY <1>1, <1>2, <1>3, <2>1, MaxDepthAssumption, Zenon DEF TypeOK, results, Pcs
<1>5. Only(t)
  BY <1>1, <1>3, Zenon DEF Only, TypeOK
<1>6. /\ pc'[t] = "user" /\ entry_top'[t] = own /\ depth_field'[t] = level[t] /\ in_ring3'[t]
  BY <1>1, <1>3, Zenon DEF TypeOK
<1>7. /\ Entered(t)' = level[t] /\ Loaded(t)' = level[t] /\ Armed(t)' = level[t]
      /\ Counted(t)' = level[t] /\ ~Outside(t)'
  BY <1>3, <1>6, Zenon DEF Entered, Loaded, Armed, Counted, Inner, Outside
<1>8. Fields(t)'
  <2>1. level[t] # 0
    BY <1>2
  <2> QED BY <1>1, <1>2, <1>3, <1>6, <1>7, <2>1, Zenon DEF Fields
<1>9. SavedFrames(t)'
  BY <1>1, <1>2, <1>3, <1>7, Zenon DEF SavedFrames
<1>10. Machine(t)'
  BY <1>1, <1>2, <1>3, <1>6, <1>7, Zenon DEF Machine, FpOf
<1> QED BY <1>4, <1>5, <1>6, <1>8, <1>9, <1>10, LocalStep, Zenon

\* A system call runs on the stack RSP0 names.
LEMMA SyscallEntryStep == ASSUME NEW t \in UserTasks, IInv, SyscallEntry(t) PROVE IInv'
<1>1. /\ TypeOK /\ Fields(t) /\ SavedFrames(t) /\ Machine(t) /\ t \in Tasks /\ running = t
      /\ pc[t] = "user"
  BY Zenon DEF IInv, Consistent, Tasks, SyscallEntry, Up
<1>2. /\ on' = [on EXCEPT ![t] = rsp0] /\ in_ring3' = [in_ring3 EXCEPT ![t] = FALSE]
      /\ pc' = [pc EXCEPT ![t] = "syscall"]
      /\ UNCHANGED <<running, fate, iflag, level, frame, hardware, fields, depth, record, results>>
  BY Zenon DEF SyscallEntry
<1>3. TypeOK'
  BY <1>1, <1>2, Zenon DEF TypeOK, hardware, fields, results, Pcs
<1>4. Only(t)
  BY <1>1, <1>2, Zenon DEF Only, TypeOK, fields
<1>5. pc'[t] = "syscall" /\ on'[t] = rsp0 /\ ~in_ring3'[t]
  BY <1>1, <1>2, Zenon DEF TypeOK
<1>6. /\ Entered(t)' = Entered(t) /\ Loaded(t)' = Loaded(t) /\ Armed(t)' = Armed(t)
      /\ Counted(t)' = Counted(t) /\ ~Outside(t) /\ ~Outside(t)'
  BY <1>1, <1>2, <1>5, Zenon DEF Entered, Loaded, Armed, Counted, Inner, Outside
<1>7. Fields(t)'
  <2>1. rsp0 = entry_top[t]
    BY <1>1, Zenon DEF Machine
  <2> QED BY <1>1, <1>2, <1>5, <1>6, <2>1, Zenon DEF Fields, fields
<1>8. SavedFrames(t)'
  BY <1>1, <1>2, <1>6, Zenon DEF SavedFrames
<1>9. Machine(t)'
  BY <1>1, <1>2, <1>5, <1>6, Zenon DEF Machine, FpOf, hardware, fields
<1> QED BY <1>3, <1>4, <1>5, <1>7, <1>8, <1>9, LocalStep, Zenon

\* Going back to Ring 3 changes nothing but in_ring3.
LEMMA SyscallReturnStep == ASSUME NEW t \in UserTasks, IInv, SyscallReturn(t) PROVE IInv'
<1>1. /\ TypeOK /\ Fields(t) /\ SavedFrames(t) /\ Machine(t) /\ t \in Tasks /\ running = t
      /\ pc[t] = "syscall"
  BY Zenon DEF IInv, Consistent, Tasks, SyscallReturn, Up
<1>2. /\ in_ring3' = [in_ring3 EXCEPT ![t] = TRUE] /\ pc' = [pc EXCEPT ![t] = "user"]
      /\ UNCHANGED <<running, fate, iflag, level, frame, on, hardware, fields, depth, record,
                     results>>
  BY Zenon DEF SyscallReturn
<1>3. TypeOK'
  BY <1>1, <1>2, Zenon DEF TypeOK, hardware, fields, results, Pcs
<1>4. Only(t)
  BY <1>1, <1>2, Zenon DEF Only, TypeOK, fields
<1>5. pc'[t] = "user" /\ in_ring3'[t]
  BY <1>1, <1>2, Zenon DEF TypeOK
<1>6. /\ Entered(t)' = Entered(t) /\ Loaded(t)' = Loaded(t) /\ Armed(t)' = Armed(t)
      /\ Counted(t)' = Counted(t) /\ ~Outside(t) /\ ~Outside(t)'
  BY <1>1, <1>2, <1>5, Zenon DEF Entered, Loaded, Armed, Counted, Inner, Outside
<1>7. Fields(t)'
  BY <1>1, <1>2, <1>5, <1>6, Zenon DEF Fields, fields
<1>8. SavedFrames(t)'
  BY <1>1, <1>2, <1>6, Zenon DEF SavedFrames
<1>9. Machine(t)'
  BY <1>1, <1>2, <1>5, <1>6, Zenon DEF Machine, FpOf, hardware, fields
<1> QED BY <1>3, <1>4, <1>5, <1>7, <1>8, <1>9, LocalStep, Zenon

\* spawn returns to its caller, one level up: its frame is gone, the caller's frames stay.
LEMMA ReturnStep ==
    ASSUME NEW t \in UserTasks, IInv, SpawnReturns(t), RestoreRecords(t),
           pc[t] \in {"saved", "left"}, Only(t), TypeOK',
           fp' = frame[t][depth[t]].fp, root'[t] = Top(t, depth[t]),
           cr3' = page_table_root_to_load(root'[t]),
           UNCHANGED <<rsp0, recovery, depth, in_ring3, on, entry_top, depth_field>>
    PROVE  IInv'
<1>1. TypeOK /\ Fields(t) /\ SavedFrames(t) /\ Machine(t) /\ t \in Tasks
  BY Zenon DEF IInv, Consistent, Tasks
<1>2. /\ level[t] \in 1 .. MaxDepth /\ depth[t] = level[t] - 1 /\ depth[t] \in Levels
      /\ depth[t] \in Nat /\ depth[t] < level[t] /\ depth[t] \in 0 .. MaxDepth
  BY <1>1, DepthInLevels, Zenon
<1>3. Entered(t) = depth[t] /\ Armed(t) = depth[t] /\ Loaded(t) \in {depth[t], level[t]}
  BY <1>1, <1>2, Zenon DEF Entered, Loaded, Armed, Inner, Outside
<1>4. /\ level'[t] = depth[t]
      /\ pc'[t] = IF depth[t] > 0 THEN "syscall" ELSE IF t = "ring3" THEN "done" ELSE "kernel"
      /\ \A d \in Levels \ {depth[t]} : frame'[t][d] = frame[t][d]
  <2>1. level'[t] = level[t] - 1
    BY <1>1, Zenon DEF SpawnReturns, TypeOK
  <2>2. \A d \in Levels \ {depth[t]} : frame'[t][d] = frame[t][d]
    BY <1>1, <1>2, ZenonT(60) DEF SpawnReturns, TypeOK
  <2>3. pc'[t] = IF depth[t] > 0 THEN "syscall" ELSE IF t = "ring3" THEN "done" ELSE "kernel"
    BY <1>1, Zenon DEF SpawnReturns, TypeOK
  <2> QED BY <1>2, <2>1, <2>2, <2>3, Zenon
<1>5. /\ Entered(t)' = depth[t] /\ Loaded(t)' = depth[t] /\ Armed(t)' = depth[t]
      /\ Counted(t)' = depth[t] /\ (Outside(t)' <=> depth[t] = 0)
  <2>1. depth[t] > 0 <=> depth[t] # 0
    BY <1>2
  <2> QED BY <1>4, <2>1, Zenon DEF Entered, Loaded, Armed, Counted, Inner, Outside
<1>6. Fields(t)'
  <2>1. depth_field[t] = depth[t] /\ entry_top[t] = Place(t, depth[t] - 1)
        /\ on[t] = Place(t, depth[t] - 1) /\ ~in_ring3[t]
    BY <1>1, <1>3, Zenon DEF Fields
  <2> QED BY <1>2, <1>4, <1>5, <2>1, Zenon DEF Fields
<1>7. SavedFrames(t)'
  <2> SUFFICES ASSUME NEW d \in Levels, d < depth[t]
              PROVE  /\ d > 0 => frame'[t][d].fp = Place(t, d - 1)
                     /\ frame'[t][d].root = page_table_root_to_load(Top(t, d))
                     /\ frame'[t][d].rsp0 = Place(t, d - 1)
                     /\ frame'[t][d].recovery = Top(t, d)
    BY <1>4, <1>5, Zenon DEF SavedFrames
  <2>1. d # depth[t] /\ d < level[t] /\ d < Loaded(t) /\ d < Armed(t)
    BY <1>2, <1>3 DEF Levels
  <2> QED BY <1>1, <1>4, <2>1, Zenon DEF SavedFrames
<1>8. Machine(t)'
  <2>1. depth[t] > 0 => fp' = Place(t, depth[t] - 1)
    BY <1>1, <1>2, Zenon DEF SavedFrames
  <2>3. FpOf(t, fp)'
    BY <1>4, <2>1, Zenon DEF FpOf
  <2>2. rsp0 = entry_top[t] /\ recovery = Top(t, depth[t]) /\ t # "idle"
    BY <1>1, <1>3, Zenon DEF Only, Machine, UserTasks
  <2> QED BY <1>5, <2>2, <2>3, Zenon DEF Machine
<1> QED BY <1>4, <1>6, <1>7, <1>8, LocalStep, Zenon

\* What spawn puts back on its return is of the right type.
LEMMA ReturnTypes ==
    ASSUME NEW t \in UserTasks, TypeOK, SpawnReturns(t), RestoreRecords(t),
           depth[t] = level[t] - 1, depth[t] \in Levels
    PROVE  /\ level' \in [UserTasks -> 0 .. MaxDepth] /\ pc' \in [Tasks -> Pcs]
           /\ frame' \in [UserTasks -> [Levels -> Frames]] /\ record' \in [UserTasks -> Records]
<1>1. level' \in [UserTasks -> 0 .. MaxDepth] /\ pc' \in [Tasks -> Pcs]
  BY MaxDepthAssumption, Zenon DEF SpawnReturns, TypeOK, Levels, Pcs
<1>2. EmptyFrame \in Frames
  BY PlaceType, Zenon DEF EmptyFrame, NoRecord, Frames, Records
<1>3. frame' = [frame EXCEPT ![t][depth[t]] = EmptyFrame]
  BY Zenon DEF SpawnReturns
<1>4. frame' \in [UserTasks -> [Levels -> Frames]]
  BY <1>2, <1>3, FrameUpdate, Zenon
<1>5. frame[t][depth[t]].record \in Records
  BY Zenon DEF TypeOK, Frames
<1>6. record' \in [UserTasks -> Records]
  BY <1>5, Zenon DEF RestoreRecords, TypeOK
<1> QED BY <1>1, <1>4, <1>6, Zenon

\* The end of run_loaded_program puts the caller's table, field and FP registers back.
LEMMA UnloadSpaceStep == ASSUME NEW t \in UserTasks, IInv, UnloadSpace(t) PROVE IInv'
<1>1. /\ TypeOK /\ Fields(t) /\ SavedFrames(t) /\ t \in Tasks /\ running = t /\ pc[t] = "left"
  BY Zenon DEF IInv, Consistent, Tasks, UnloadSpace, Up
<1>2. depth[t] = level[t] - 1 /\ depth[t] \in Levels /\ depth[t] < Loaded(t)
  <2>1. Loaded(t) = level[t]
    BY <1>1, Zenon DEF Loaded, Inner, Outside
  <2> QED BY <1>1, <2>1, DepthInLevels, Zenon
<1> DEFINE f == frame[t][depth[t]]
<1>3. f \in Frames /\ f.root = page_table_root_to_load(Top(t, depth[t]))
  BY <1>1, <1>2, Zenon DEF SavedFrames, TypeOK
<1>4. /\ cr3' = f.root /\ root' = [root EXCEPT ![t] = IF depth[t] = 0 THEN Zero ELSE f.root]
      /\ fp' = f.fp /\ outcome' = [outcome EXCEPT ![t] = SpawnOutcome(record[t])]
      /\ RestoreRecords(t) /\ SpawnReturns(t)
      /\ UNCHANGED <<running, fate, iflag, on, rsp0, recovery, entry_top, depth_field,
                     recovery_field, fp_area, saved_sp, depth, in_ring3, ended>>
  BY Zenon DEF UnloadSpace, NoteRoot
<1>5. root'[t] = Top(t, depth[t])
  BY <1>1, <1>3, <1>4, Zenon DEF TypeOK, Top, page_table_root_to_load, Place, Zero, UserTasks
<1>6. TypeOK'
  <2>1. /\ level' \in [UserTasks -> 0 .. MaxDepth] /\ pc' \in [Tasks -> Pcs]
        /\ frame' \in [UserTasks -> [Levels -> Frames]] /\ record' \in [UserTasks -> Records]
    BY <1>1, <1>2, <1>4, ReturnTypes, Zenon
  <2>2. f.root \in Places /\ f.fp \in Places /\ SpawnOutcome(record[t]) \in Endings
    BY <1>3, Zenon DEF Frames, SpawnOutcome, Endings
  <2> HIDE DEF f
  <2> QED BY <1>1, <1>4, <2>1, <2>2, PlaceType, Zenon DEF TypeOK
<1>7. Only(t)
  BY <1>1, <1>2, <1>4, Zenon DEF Only, SpawnReturns, TypeOK
<1> QED BY <1>1, <1>3, <1>4, <1>5, <1>6, <1>7, ReturnStep, Zenon

\* A failed load leaves the level before anything of it was loaded.
LEMMA LoadFailsStep == ASSUME NEW t \in UserTasks, IInv, LoadFails(t) PROVE IInv'
<1>1. /\ TypeOK /\ Fields(t) /\ Machine(t) /\ t \in Tasks /\ running = t /\ pc[t] = "saved"
  BY Zenon DEF IInv, Consistent, Tasks, LoadFails, Up
<1>2. depth[t] = level[t] - 1 /\ depth[t] \in Levels /\ depth[t] = Loaded(t)
  BY <1>1, MaxDepthAssumption DEF Fields, Counted, Loaded, Inner, Outside, Levels
<1>3. /\ fp' = frame[t][depth[t]].fp /\ RestoreRecords(t) /\ SpawnReturns(t)
      /\ UNCHANGED <<running, fate, iflag, on, cr3, rsp0, recovery, fields, depth, in_ring3,
                     results>>
  BY Zenon DEF LoadFails
<1>4. root'[t] = Top(t, depth[t]) /\ cr3' = page_table_root_to_load(root'[t])
  BY <1>1, <1>2, <1>3, Zenon DEF Fields, Machine, fields
<1>5. TypeOK'
  <2>1. /\ level' \in [UserTasks -> 0 .. MaxDepth] /\ pc' \in [Tasks -> Pcs]
        /\ frame' \in [UserTasks -> [Levels -> Frames]] /\ record' \in [UserTasks -> Records]
    BY <1>1, <1>2, <1>3, ReturnTypes, Zenon
  <2>2. frame[t][depth[t]].fp \in Places
    BY <1>1, <1>2, Zenon DEF Frames, TypeOK
  <2> QED BY <1>1, <1>3, <2>1, <2>2, Zenon DEF TypeOK, fields, results
<1>6. Only(t)
  BY <1>1, <1>2, <1>3, Zenon DEF Only, SpawnReturns, TypeOK, fields
<1> QED BY <1>1, <1>3, <1>4, <1>5, <1>6, ReturnStep, Zenon DEF fields

----------------------------------------------------------------------------
\* The ways out of Ring 3 and the task switch.

\* leave_user_mode lands in the innermost activation of the running task, and the
\* epilogue of run_excursion puts back what that activation saved.
LEMMA LeaveStep ==
    ASSUME NEW t \in UserTasks, IInv, Up(t), pc[t] \in {"user", "syscall"},
           NEW noted \in Records, NEW how \in Endings, leave_user_mode(t, noted, how)
    PROVE  IInv'
<1> USE MaxDepthAssumption, PlaceType DEF leave_user_mode, Up
<1>1. TypeOK /\ Fields(t) /\ SavedFrames(t) /\ running = t /\ t \in Tasks
  BY Zenon DEF IInv, Consistent, Tasks
<1>2. level[t] \in 1 .. MaxDepth /\ level[t] - 1 \in Levels
  <2>1. level[t] # 0 /\ level[t] \in 0 .. MaxDepth
    BY <1>1, Zenon DEF Fields, Outside
  <2> HIDE DEF leave_user_mode, Up
  <2> QED BY <2>1 DEF Levels
<1>3. /\ Entered(t) = level[t] /\ Loaded(t) = level[t] /\ Armed(t) = level[t]
      /\ Counted(t) = level[t]
  BY <1>1, Zenon DEF Entered, Loaded, Armed, Counted, Inner, Outside
<1>4. recovery = Place(t, level[t] - 1) /\ recovery[2] = level[t] - 1
  BY <1>1, <1>2, <1>3 DEF IInv, Consistent, Machine, Top, UserTasks, Place
<1>5. /\ frame[t][level[t] - 1].recovery = Top(t, level[t] - 1)
      /\ frame[t][level[t] - 1].rsp0 = Place(t, level[t] - 1 - 1)
  BY <1>1, <1>2, <1>3 DEF SavedFrames
<1>6. /\ depth' = [depth EXCEPT ![t] = level[t] - 1]
      /\ recovery' = Top(t, level[t] - 1)
      /\ rsp0' = Place(t, level[t] - 1 - 1)
      /\ entry_top' = [entry_top EXCEPT ![t] = Place(t, level[t] - 1 - 1)]
      /\ depth_field' = [depth_field EXCEPT ![t] = level[t] - 1]
      /\ on' = [on EXCEPT ![t] = Place(t, level[t] - 1 - 1)]
      /\ pc' = [pc EXCEPT ![t] = "left"] /\ fate' = fate
      /\ record' = [record EXCEPT ![t] = noted] /\ in_ring3' = [in_ring3 EXCEPT ![t] = FALSE]
      /\ ended' = [ended EXCEPT ![t] = how]
      /\ UNCHANGED <<running, iflag, level, frame, cr3, fp, root, recovery_field, fp_area, saved_sp,
                     outcome>>
  BY <1>4, <1>5, Zenon
<1> USE <1>6
<1> HIDE DEF leave_user_mode
<1>7. /\ Entered(t)' = level[t] - 1 /\ Loaded(t)' = level[t] /\ Armed(t)' = level[t] - 1
      /\ Counted(t)' = level[t] - 1 /\ ~Outside(t)'
  BY <1>1, Zenon DEF TypeOK, Entered, Loaded, Armed, Counted, Inner, Outside
<1>8. Place(t, level[t] - 1 - 1) \in Places /\ Top(t, level[t] - 1) \in Places
  <2>1. level[t] - 1 - 1 \in -1 .. MaxDepth - 1
    BY <1>2
  <2> QED BY <1>1, <2>1, Zenon DEF Top
<1>9. TypeOK'
  BY <1>1, <1>2, <1>8 DEF TypeOK, Pcs
<1>10. Fields(t)'
  <2>1. level[t] # 0
    BY ONLY <1>2, MaxDepthAssumption
  <2> QED BY <1>1, <1>2, <1>3, <1>7, <2>1, Zenon DEF TypeOK, Fields
<1>11. SavedFrames(t)'
  <2>1. \A d \in Levels : d < level[t] - 1 => d < level[t]
    BY ONLY <1>2, MaxDepthAssumption DEF Levels
  <2> QED BY <1>1, <1>3, <1>7, <2>1, Zenon DEF SavedFrames
<1>12. Only(t)
  BY <1>1, Zenon DEF Only, TypeOK
<1>13. Machine(t)'
  <2>1. cr3 = page_table_root_to_load(root[t])
    BY <1>1, Zenon DEF IInv, Consistent, Machine
  <2>2. pc'[t] = "left" /\ entry_top'[t] = rsp0'
    BY <1>1, Zenon DEF TypeOK
  <2> QED BY <1>1, <1>7, <2>1, <2>2, Zenon DEF Machine, FpOf, UserTasks
<1>14. pc'[t] = "left"
  BY <1>1, Zenon DEF TypeOK
<1> QED BY <1>9, <1>10, <1>11, <1>12, <1>13, <1>14, LocalStep, Zenon

\* schedule_switch finds every one of its consistency checks satisfied.
LEMMA SwitchGoesThrough ==
    ASSUME NEW t \in Tasks, NEW next \in Tasks, NEW sp \in Places, IInv, Up(t), Switch(t, sp, next)
    PROVE  /\ next # t /\ pc[next] # "none"
           /\ saved_sp' = [saved_sp EXCEPT ![t] = sp]
           /\ cr3' = page_table_root_to_load(root[next])
           /\ ExchangeRecovery(t, next) /\ ExchangeFp(t, next)
           /\ running' = next /\ rsp0' = entry_top[next]
           /\ UNCHANGED <<fate, root, entry_top, depth_field>>
<1>1. next # t /\ pc[next] # "none" /\ running = t
  BY Zenon DEF Switch, Alive, Up
<1>2. Parked(next) /\ Machine(t)
  BY Zenon DEF IInv, Consistent
<1>3. saved_sp[next] = expected_stack(next) /\ cr3 = page_table_root_to_load(root[t])
  BY <1>1, <1>2, Zenon DEF Parked, Machine
<1>4. belongs_to_slot(recovery_field[next], next)
  BY <1>1, <1>2 DEF Parked, belongs_to_slot, Top, Place
<1>5. entry_top[next] # Zero
  <2>1. CASE next = "idle"
    BY <2>1 DEF IInv, Consistent, IdleFields, KernelStack, Place, Zero
  <2>2. CASE next \in UserTasks
    BY <2>2 DEF IInv, Consistent, Fields, Place, Zero, UserTasks
  <2> QED BY <2>1, <2>2, Zenon DEF Tasks
<1>6. SwitchIsSound(t, next)
  BY <1>3, <1>4, <1>5, Zenon DEF SwitchIsSound
<1> QED BY <1>1, <1>6, Zenon DEF Switch

\* The switch parks the task that leaves and gives the next one its own state back.
LEMMA SwitchStep ==
    ASSUME NEW t \in Tasks, NEW next \in Tasks, NEW sp \in Places, IInv, Up(t), Switch(t, sp, next),
           sp = expected_stack(t), UNCHANGED <<control, slots, results>>
    PROVE  IInv'
<1> USE MaxDepthAssumption, PlaceType DEF control, slots, results
<1>1. /\ next # t /\ pc[next] # "none"
      /\ saved_sp' = [saved_sp EXCEPT ![t] = sp]
      /\ cr3' = page_table_root_to_load(root[next])
      /\ recovery_field' = [recovery_field EXCEPT ![t] = recovery]
      /\ recovery' = recovery_field[next]
      /\ fp_area' = [fp_area EXCEPT ![t] = fp] /\ fp' = fp_area[next]
      /\ running' = next /\ rsp0' = entry_top[next]
      /\ UNCHANGED <<fate, root, entry_top, depth_field>>
  BY SwitchGoesThrough, Zenon DEF ExchangeRecovery, ExchangeFp
<1> USE <1>1
<1>2. TypeOK /\ running = t /\ Machine(t) /\ Parked(next)
  BY Zenon DEF IInv, Consistent, Up
<1>3. TypeOK'
  BY <1>2 DEF TypeOK, page_table_root_to_load
<1>4. \A u \in UserTasks : Fields(u)' /\ SavedFrames(u)'
  BY Untouched, Zenon DEF IInv, Consistent
<1>5. \A u \in Tasks : Parked(u)'
  <2> TAKE u \in Tasks
  <2>1. CASE u = t
    BY <1>2, <2>1, Zenon
       DEF TypeOK, Parked, Machine, FpOf, expected_stack, Armed, Inner, Outside, Top
  <2>2. CASE u # t
    BY <1>2, <2>2, Zenon
       DEF IInv, Consistent, TypeOK, Parked, FpOf, expected_stack, Armed, Inner, Outside, Top
  <2> QED BY <2>1, <2>2, Zenon
<1>6. \A u \in Tasks : Machine(u)'
  BY <1>2, Zenon DEF TypeOK, Parked, Machine, FpOf, Armed, Inner, Outside, Top,
     page_table_root_to_load
<1>7. /\ IdleFields' /\ NothingStops' /\ running' \in Tasks
      /\ pc'[running'] # "none" /\ pc'["main"] \notin {"none", "done"}
  BY Zenon DEF IInv, Consistent, IdleFields, NothingStops
<1> QED BY <1>3, <1>4, <1>5, <1>6, <1>7, Zenon DEF IInv, Consistent

\* A tick or a yield leaves the saved stack pointer where expected_stack looks for it.
LEMMA StackInUse ==
    ASSUME NEW t \in Tasks, IInv, Up(t)
    PROVE  /\ expected_stack(t) \in Places
           /\ pc[t] = "user" => rsp0 = expected_stack(t)
           /\ pc[t] # "user" => on[t] = expected_stack(t)
<1>1. TypeOK /\ running = t /\ Machine(t)
  BY Zenon DEF IInv, Consistent, Up
<1>2. CASE t = "idle"
  <2>1. pc[t] = "kernel" /\ depth_field[t] = 0 /\ on[t] = KernelStack(t) /\ on[t] \in Places
    BY <1>1, <1>2, Zenon DEF IInv, Consistent, IdleFields, TypeOK
  <2>2. expected_stack(t) = KernelStack(t)
    BY <2>1 DEF expected_stack, KernelStack, Place
  <2> QED BY <2>1, <2>2, Zenon
<1>3. CASE t \in UserTasks
  <2>1. Fields(t)
    BY <1>3, Zenon DEF IInv, Consistent
  <2>2. entry_top[t] = expected_stack(t)
    BY <2>1, Zenon DEF Fields, expected_stack
  <2>3. pc[t] # "user" => on[t] = expected_stack(t)
    BY <2>1, Zenon DEF Fields, expected_stack
  <2> QED BY <1>1, <2>2, <2>3, Zenon DEF Machine, TypeOK
<1> QED BY <1>2, <1>3, Zenon DEF Tasks

\* The reaped task is nobody's: its fields wait for init_task.
LEMMA FinishStep == ASSUME NEW next \in Tasks, IInv, FinishRing3Task(next) PROVE IInv'
<1> DEFINE t == "ring3"
<1> USE MaxDepthAssumption, PlaceType
<1>1. /\ next # t /\ pc[next] # "none"
      /\ saved_sp' = [saved_sp EXCEPT ![t] = on[t]]
      /\ cr3' = page_table_root_to_load(root[next])
      /\ recovery_field' = [recovery_field EXCEPT ![t] = recovery]
      /\ recovery' = recovery_field[next]
      /\ fp_area' = [fp_area EXCEPT ![t] = fp] /\ fp' = fp_area[next]
      /\ running' = next /\ rsp0' = entry_top[next]
      /\ UNCHANGED <<fate, root, entry_top, depth_field>>
      /\ pc[t] = "done" /\ pc' = [pc EXCEPT ![t] = "none"]
      /\ UNCHANGED <<iflag, level, frame, on, depth, in_ring3, record, ended, outcome>>
  <2>1. t \in Tasks /\ Up(t) /\ Switch(t, on[t], next) /\ on[t] \in Places
    BY Zenon DEF FinishRing3Task, Tasks, UserTasks, IInv, TypeOK
  <2> QED BY <2>1, SwitchGoesThrough, Zenon
     DEF FinishRing3Task, ExchangeRecovery, ExchangeFp, slots, results
<1> USE <1>1
<1>2. /\ TypeOK /\ running = t /\ t \in UserTasks /\ t \in Tasks /\ Parked(next) /\ Fields(t)
      /\ SavedFrames(t)
  BY Zenon DEF IInv, Consistent, Up, FinishRing3Task, UserTasks, Tasks
<1> HIDE DEF t
<1>3. /\ Entered(t) = 0 /\ Loaded(t) = 0 /\ Armed(t) = 0 /\ Counted(t) = 0
      /\ Entered(t)' = 0 /\ Loaded(t)' = 0 /\ Armed(t)' = 0 /\ Counted(t)' = 0
      /\ Outside(t) /\ Outside(t)'
  BY <1>2, Zenon DEF TypeOK, Entered, Loaded, Armed, Counted, Inner, Outside
<1>4. TypeOK'
  BY <1>2 DEF TypeOK, page_table_root_to_load, Pcs
<1>5. Fields(t)' /\ SavedFrames(t)'
  BY <1>2, <1>3, ZenonT(60) DEF TypeOK, Fields, SavedFrames, Levels
<1>6. \A u \in UserTasks : Fields(u)' /\ SavedFrames(u)'
  BY <1>2, <1>5, Untouched, Zenon DEF IInv, Consistent, TypeOK, Tasks
<1>7. \A u \in Tasks : Parked(u)'
  BY <1>2, Zenon DEF IInv, Consistent, TypeOK, Parked, FpOf, expected_stack, Armed, Inner, Outside, Top
<1>8. \A u \in Tasks : Machine(u)'
  BY <1>2, Zenon DEF TypeOK, Parked, Machine, FpOf, Armed, Inner, Outside, Top,
     page_table_root_to_load
<1>9. /\ IdleFields' /\ NothingStops' /\ running' \in Tasks
      /\ pc'[running'] # "none" /\ pc'["main"] \notin {"none", "done"}
  BY <1>2, Zenon DEF IInv, Consistent, IdleFields, NothingStops, TypeOK, Tasks, UserTasks, t
<1> QED BY <1>4, <1>6, <1>7, <1>8, <1>9, Zenon DEF IInv, Consistent

\* init_task gives the new task the fields of a task outside every excursion.
LEMMA StartStep == ASSUME IInv, StartRing3Task PROVE IInv'
<1> DEFINE t == "ring3"
<1> USE MaxDepthAssumption, PlaceType DEF StartRing3Task, Up, hardware, slots, results
<1>1. /\ TypeOK /\ running = "main" /\ t \in UserTasks /\ t \in Tasks /\ Fields(t) /\ SavedFrames(t)
      /\ pc[t] = "none"
  BY Zenon DEF IInv, Consistent, UserTasks, Tasks
<1>2. /\ Entered(t) = 0 /\ Loaded(t) = 0 /\ Armed(t) = 0 /\ Counted(t) = 0
      /\ Entered(t)' = 0 /\ Loaded(t)' = 0 /\ Armed(t)' = 0 /\ Counted(t)' = 0
      /\ Outside(t) /\ Outside(t)'
  BY <1>1, Zenon DEF TypeOK, Entered, Loaded, Armed, Counted, Inner, Outside
<1>3. TypeOK'
  BY <1>1, SMTT(30) DEF TypeOK, Pcs, KernelStack
<1>4. Fields(t)' /\ SavedFrames(t)'
  <2>0. 0 - 1 = -1
    OBVIOUS
  <2>1. Fields(t)'
    BY <1>1, <1>2, <2>0, Zenon DEF TypeOK, Fields, Top, KernelStack
  <2>2. SavedFrames(t)'
    BY <1>1, <1>2, Zenon DEF SavedFrames
  <2> QED BY <2>1, <2>2, Zenon
<1>5. \A u \in UserTasks : Fields(u)' /\ SavedFrames(u)'
  BY <1>1, <1>4, Untouched, Zenon DEF IInv, Consistent, TypeOK, Tasks
<1>6. \A u \in Tasks : Parked(u)'
  <2> TAKE u \in Tasks
  <2>1. CASE u = t
    <3>1. 0 - 1 = -1
      OBVIOUS
    <3> QED BY <1>1, <1>2, <2>1, <3>1, Zenon
       DEF TypeOK, Parked, FpOf, expected_stack, Top, KernelStack
  <2>2. CASE u # t
    BY <1>1, <2>2, Zenon
       DEF IInv, Consistent, TypeOK, Parked, FpOf, expected_stack, Armed, Inner, Outside, Top
  <2> QED BY <2>1, <2>2, Zenon
<1>7. \A u \in Tasks : Machine(u)'
  BY <1>1, Zenon DEF IInv, Consistent, TypeOK, Machine, FpOf, Armed, Inner, Outside, Top,
     page_table_root_to_load
<1>8. /\ IdleFields' /\ NothingStops' /\ running' \in Tasks
      /\ pc'[running'] # "none" /\ pc'["main"] \notin {"none", "done"}
  BY <1>1, Zenon DEF IInv, Consistent, IdleFields, NothingStops, TypeOK, Tasks, UserTasks
<1> QED BY <1>3, <1>5, <1>6, <1>7, <1>8, Zenon DEF IInv, Consistent

\* Every step keeps the invariant.
LEMMA NextIInv == IInv /\ [Next]_vars => IInv'
<1> SUFFICES ASSUME IInv, [Next]_vars PROVE IInv'
  BY Zenon
<1>1. CASE StartRing3Task
  BY <1>1, StartStep, Zenon
<1>2. CASE \E t \in Tasks, next \in Tasks : Tick(t, next)
  <2>1. PICK t \in Tasks, next \in Tasks : Tick(t, next)
    BY <1>2, Zenon
  <2> QED BY <2>1, StackInUse, SwitchStep, Zenon DEF Tick
<1>3. CASE \E next \in Tasks : FinishRing3Task(next)
  BY <1>3, FinishStep, Zenon
<1>4. ASSUME NEW t \in UserTasks,
             \/ Spawn(t) \/ LoadSpace(t) \/ LoadFails(t) \/ FreshFp(t) \/ ArmRecovery(t)
             \/ CountDepth(t) \/ EnterRing3(t) \/ SyscallEntry(t) \/ SyscallReturn(t)
             \/ UnloadSpace(t)
      PROVE  IInv'
  BY <1>4, SpawnStep, LoadSpaceStep, LoadFailsStep, FreshFpStep, ArmRecoveryStep, CountDepthStep,
     EnterRing3Step, SyscallEntryStep, SyscallReturnStep, UnloadSpaceStep, Zenon
<1>5. ASSUME NEW t \in UserTasks, Fault(t) \/ Exit(t) \/ Interrupt(t)
      PROVE  IInv'
  <2>1. Up(t) /\ pc[t] \in {"user", "syscall"} /\ record[t] \in Records
    BY <1>5, Zenon DEF Fault, Exit, Interrupt, IInv, TypeOK
  <2>2. \A b \in BOOLEAN : /\ [record[t] EXCEPT !.folded = b] \in Records
                           /\ [record[t] EXCEPT !.exited = b] \in Records
                           /\ [record[t] EXCEPT !.interrupted = b] \in Records
    BY <2>1, Zenon DEF Records
  <2>3. CASE Fault(t)
    <3>1. in_ring3[t]
      BY <2>3, Zenon DEF Fault, IInv, Consistent, Fields
    <3> QED BY <2>1, <2>2, <2>3, <3>1, LeaveStep, Zenon DEF Fault, Endings
  <2>4. CASE Exit(t)
    BY <2>1, <2>2, <2>4, LeaveStep, Zenon DEF Exit, Endings
  <2>5. CASE Interrupt(t)
    BY <2>1, <2>2, <2>5, LeaveStep, Zenon DEF Interrupt, Endings
  <2> QED BY <1>5, <2>3, <2>4, <2>5, Zenon
<1>6. ASSUME NEW t \in UserTasks, NEW next \in Tasks, Yield(t, next)
      PROVE  IInv'
  <2>1. t \in Tasks /\ pc[t] # "user" /\ Up(t) /\ Switch(t, on[t], next)
    BY <1>6, Zenon DEF Tasks, Yield
  <2> QED BY <1>6, <2>1, StackInUse, SwitchStep, Zenon DEF Yield
<1>7. CASE UNCHANGED vars
  <2> USE <1>7 DEF vars, control, hardware, fields, slots, results
  <2>1. TypeOK'
    BY Zenon DEF IInv, TypeOK
  <2>2. \A u \in UserTasks : Fields(u)' /\ SavedFrames(u)'
    BY Untouched, Zenon DEF IInv, Consistent
  <2>3. \A u \in Tasks : Parked(u)' /\ Machine(u)'
    BY Zenon DEF IInv, Consistent, Parked, Machine, FpOf, expected_stack, Armed, Inner, Outside, Top
  <2>4. /\ IdleFields' /\ NothingStops' /\ running' \in Tasks
        /\ pc'[running'] # "none" /\ pc'["main"] \notin {"none", "done"}
    BY Zenon DEF IInv, Consistent, IdleFields, NothingStops
  <2> QED BY <2>1, <2>2, <2>3, <2>4, Zenon DEF IInv, Consistent
<1> HIDE DEF IInv
<1> QED BY <1>1, <1>2, <1>3, <1>4, <1>5, <1>6, <1>7, Zenon DEF Next

LEMMA Invariance == Spec => []IInv
  BY InitIInv, NextIInv, PTL DEF Spec

----------------------------------------------------------------------------
\* Every variable keeps its type, and the excursions of a task never nest deeper than
\* MAX_EXCURSION_DEPTH, for every such bound.
THEOREM TypeCorrect == Spec => []TypeOK
<1>1. IInv => TypeOK
  BY Zenon DEF IInv
<1> QED BY <1>1, Invariance, PTL

\* No consistency check of schedule_switch or exception_entry ever fires, and every
\* longjmp out of Ring 3 lands in the innermost activation of the running task.
THEOREM NothingStopsCorrect == Spec => []NothingStops
<1>1. IInv => NothingStops
  BY Zenon DEF IInv, Consistent
<1> QED BY <1>1, Invariance, PTL

\* A program in Ring 3 always has its own table, RSP0, recovery point and FP registers.
THEOREM UserMachineCorrect == Spec => []UserMachine
<1>1. IInv => UserMachine
  <2> SUFFICES ASSUME IInv, NEW t \in UserTasks, running = t
              PROVE  /\ pc[t] = "user" => /\ cr3 = Place(t, level[t] - 1)
                                          /\ rsp0 = Place(t, level[t] - 1)
                                          /\ recovery = Place(t, level[t] - 1)
                                          /\ fp = Place(t, level[t] - 1) /\ in_ring3[t]
                     /\ pc[t] \in {"fresh", "armed", "counted"} => fp = Fresh
    BY Zenon DEF UserMachine
  <2>1. Machine(t) /\ Fields(t)
    BY Zenon DEF IInv, Consistent, Tasks
  <2>2. CASE pc[t] = "user"
    <3>1. Entered(t) = level[t] /\ Loaded(t) = level[t] /\ Armed(t) = level[t] /\ level[t] # 0
      BY <2>1, <2>2, Zenon DEF Entered, Loaded, Armed, Inner, Outside, Fields
    <3>2. root[t] = Place(t, level[t] - 1) /\ entry_top[t] = Place(t, level[t] - 1) /\ in_ring3[t]
      BY <2>1, <2>2, <3>1, Zenon DEF Fields, Top
    <3>3. page_table_root_to_load(root[t]) = root[t]
      BY <3>2 DEF page_table_root_to_load, Place, Zero, UserTasks
    <3> QED BY <2>1, <2>2, <3>1, <3>2, <3>3, Zenon DEF Machine, Top, FpOf, UserTasks
  <2>3. pc[t] \in {"fresh", "armed", "counted"} => fp = Fresh
    BY <2>1, Zenon DEF Machine, FpOf
  <2> QED BY <2>2, <2>3, Zenon
<1> QED BY <1>1, Invariance, PTL

\* No table that a task or the processor still names has been destroyed.
THEOREM NoDeadRootCorrect == Spec => []NoDeadRoot
<1>1. IInv => NoDeadRoot
  <2> SUFFICES ASSUME IInv PROVE NoDeadRoot
    BY Zenon
  <2> DEFINE live == {Place(t, d) : t \in UserTasks, d \in Levels}
             Named(r) == r \in {Zero, KernelRoot} \/ (r \in live /\ r[2] < level[r[1]])
  <2>1. ASSUME NEW t \in UserTasks PROVE Named(root[t])
    <3>1. Fields(t) /\ TypeOK
      BY Zenon DEF IInv, Consistent
    <3>2. Loaded(t) \in 0 .. level[t] /\ level[t] \in 0 .. MaxDepth
      BY <3>1, MaxDepthAssumption DEF Fields, Loaded, Inner, Outside
    <3>3. CASE Loaded(t) = 0
      BY <3>1, <3>3 DEF Fields, Top
    <3>4. CASE Loaded(t) # 0
      <4>1. Loaded(t) - 1 \in Levels /\ Loaded(t) - 1 < level[t]
        BY <3>2, <3>4, MaxDepthAssumption DEF Levels
      <4>2. root[t] = Place(t, Loaded(t) - 1)
        BY <3>1, <3>4, Zenon DEF Fields, Top
      <4>3. root[t] \in live
        BY <4>1, <4>2
      <4> QED BY <4>1, <4>2, <4>3 DEF Place
    <3> QED BY <3>3, <3>4
  <2>2. Named(root["idle"])
    BY DEF IInv, Consistent, IdleFields
  <2>3. \A t \in Tasks : Named(root[t])
    BY <2>1, <2>2 DEF Tasks
  <2>4. Named(cr3)
    <3>1. running \in Tasks /\ cr3 = page_table_root_to_load(root[running])
      BY Zenon DEF IInv, Consistent, Machine
    <3> QED BY <2>3, <3>1 DEF page_table_root_to_load
  <2> HIDE DEF Named
  <2>5. \A r \in {cr3} \union {root[t] : t \in Alive} : Named(r)
    BY <2>3, <2>4, Zenon DEF Alive
  <2> QED BY <2>5 DEF NoDeadRoot, Named
<1> QED BY <1>1, Invariance, PTL

----------------------------------------------------------------------------
\* The records.  They are one set per task, shared by all the levels of that task.

\* What the records of a task say at each stage: nothing of the program's ending while
\* it runs, its true ending once it has left.
Silent(r) == ~r.exited /\ ~r.interrupted
Told(t) ==
    /\ pc[t] \in {"counted", "user", "syscall"} => Silent(record[t])
    /\ pc[t] \in {"loaded", "fresh", "armed"} => ~record[t].exited
    /\ \A d \in Levels : 0 < d /\ d < level[t] => Silent(frame[t][d].record)
    /\ pc[t] = "left" => SpawnOutcome(record[t]) = ended[t]
    /\ pc[t] # "left" => outcome[t] = ended[t]
AllTold == \A t \in UserTasks : Told(t)

\* A task whose records, frames and place do not change is told what it was told.
LEMMA UntouchedTold ==
    ASSUME NEW u \in UserTasks, Told(u), pc'[u] = pc[u], level'[u] = level[u],
           frame'[u] = frame[u], record'[u] = record[u], ended'[u] = ended[u],
           outcome'[u] = outcome[u]
    PROVE  Told(u)'
  BY Zenon DEF Told, Silent, SpawnOutcome

\* Leaving notes the one ending that happened.
LEMMA LeaveTold ==
    ASSUME NEW t \in UserTasks, IInv, AllTold, Up(t), pc[t] \in {"user", "syscall"},
           NEW noted \in Records, NEW how, SpawnOutcome(noted) = how, leave_user_mode(t, noted, how)
    PROVE  AllTold'
<1>1. /\ level' = level /\ frame' = frame /\ pc' \in {pc, [pc EXCEPT ![t] = "left"]}
      /\ record' = [record EXCEPT ![t] = noted] /\ ended' = [ended EXCEPT ![t] = how]
      /\ outcome' = outcome
  BY Zenon DEF leave_user_mode
<1>2. TypeOK /\ Fields(t) /\ Machine(t) /\ running = t /\ t \in Tasks
  BY Zenon DEF IInv, Consistent, Up, Tasks
<1>3. recovery = Place(t, level[t] - 1)
  BY <1>2, Zenon DEF Fields, Machine, Armed, Inner, Outside, Top, UserTasks
<1>4. pc' = [pc EXCEPT ![t] = "left"]
  BY <1>3, Zenon DEF leave_user_mode
<1>5. Told(t)'
  BY <1>1, <1>2, <1>4, Zenon DEF AllTold, Told, TypeOK
<1> QED BY <1>1, <1>2, <1>4, <1>5, UntouchedTold, Zenon DEF AllTold, TypeOK, Tasks

\* A step that touches only task t's records tells the others what they were told.
LEMMA LocalTold ==
    ASSUME NEW t \in UserTasks, AllTold, Told(t)',
           \A u \in UserTasks \ {t} : /\ pc'[u] = pc[u] /\ level'[u] = level[u]
                                      /\ frame'[u] = frame[u] /\ record'[u] = record[u]
                                      /\ ended'[u] = ended[u] /\ outcome'[u] = outcome[u]
    PROVE  AllTold'
  BY UntouchedTold, Zenon DEF AllTold

\* spawn saves records that are silent, since the caller is still running.
LEMMA SpawnTold == ASSUME NEW t \in UserTasks, IInv, AllTold, Spawn(t) PROVE AllTold'
<1>1. /\ TypeOK /\ Fields(t) /\ Told(t) /\ t \in Tasks
      /\ pc[t] \in {"kernel", "syscall"} /\ depth[t] < MaxDepth
  BY Zenon DEF IInv, Consistent, AllTold, Tasks, Spawn
<1>2. depth[t] = level[t] /\ level[t] \in Nat /\ depth[t] \in Levels
  <2>1. depth[t] = level[t] /\ level[t] \in Nat
    BY <1>1, CallerDepth, Zenon
  <2> QED BY <1>1, <2>1, MaxDepthAssumption DEF Levels
<1>3. /\ frame' = [frame EXCEPT ![t][depth[t]] = [@ EXCEPT !.fp = fp, !.record = record[t]]]
      /\ level' = [level EXCEPT ![t] = level[t] + 1] /\ pc' = [pc EXCEPT ![t] = "saved"]
      /\ UNCHANGED <<record, ended, outcome>>
  BY Zenon DEF Spawn, slots, results
<1>4. /\ frame'[t][depth[t]].record = record[t]
      /\ \A d \in Levels \ {depth[t]} : frame'[t][d] = frame[t][d]
  <2> DEFINE f == [frame[t][depth[t]] EXCEPT !.fp = fp, !.record = record[t]]
  <2>1. frame[t][depth[t]] \in Frames /\ frame \in [UserTasks -> [Levels -> Frames]]
    BY <1>1, <1>2, Zenon DEF TypeOK
  <2>2. f.record = record[t]
    BY <2>1, FrameRecord
  <2>3. frame' = [frame EXCEPT ![t][depth[t]] = f]
    BY <1>3, Zenon
  <2> HIDE DEF f
  <2> QED
    BY <1>2, <2>1, <2>2, <2>3, Zenon
<1>5. level'[t] = level[t] + 1 /\ pc'[t] = "saved"
  BY <1>1, <1>3, Zenon DEF TypeOK
<1>6. \A d \in Levels : 0 < d /\ d < level'[t] => Silent(frame'[t][d].record)
  <2> SUFFICES ASSUME NEW d \in Levels, 0 < d, d < level[t] + 1
              PROVE  Silent(frame'[t][d].record)
    BY <1>5, Zenon
  <2>1. CASE d = level[t]
    <3>1. Silent(record[t])
      BY <1>1, <1>2, <2>1 DEF Fields, Outside, Told
    <3> QED BY <1>2, <1>4, <2>1, <3>1, Zenon
  <2>2. CASE d # level[t]
    <3>1. d < level[t] /\ frame'[t][d] = frame[t][d]
      BY <1>2, <1>4, <2>2 DEF Levels
    <3> QED BY <1>1, <3>1, Zenon DEF Told
  <2> QED BY <2>1, <2>2, Zenon
<1>7. Told(t)'
  BY <1>1, <1>3, <1>5, <1>6, Zenon DEF Told
<1> QED BY <1>1, <1>3, <1>7, LocalTold DEF TypeOK

\* The other steps on the way into Ring 3 leave the saved records alone.
LEMMA EnterTold ==
    ASSUME NEW t \in UserTasks, IInv, AllTold,
           \/ LoadSpace(t) \/ ArmRecovery(t) \/ FreshFp(t) \/ CountDepth(t) \/ EnterRing3(t)
           \/ SyscallEntry(t) \/ SyscallReturn(t)
    PROVE  AllTold'
<1> USE DEF LoadSpace, ArmRecovery, FreshFp, CountDepth, EnterRing3, SyscallEntry, SyscallReturn
<1>1. TypeOK /\ Fields(t) /\ Told(t) /\ t \in Tasks /\ pc[t] # "left"
  BY Zenon DEF IInv, Consistent, AllTold, Tasks
<1>2. UNCHANGED <<level, ended, outcome>>
  BY Zenon DEF slots, results
<1>3. \A u \in UserTasks \ {t} : pc'[u] = pc[u] /\ frame'[u] = frame[u] /\ record'[u] = record[u]
  <2>1. \A u \in UserTasks \ {t} : pc'[u] = pc[u]
    BY <1>1, Zenon DEF TypeOK, Tasks
  <2>2. \A u \in UserTasks \ {t} : frame'[u] = frame[u]
    BY <1>1, Zenon DEF TypeOK
  <2>3. \A u \in UserTasks \ {t} : record'[u] = record[u]
    BY <1>1, Zenon DEF TypeOK, slots
  <2> QED BY ONLY <2>1, <2>2, <2>3, Zenon
<1>4. \A d \in Levels : frame'[t][d].record = frame[t][d].record
  <2>1. CASE LoadSpace(t)
    <3> DEFINE d == depth[t]
               f == [frame[t][d] EXCEPT !.root = cr3, !.rsp0 = IF d = 0 THEN rsp0 ELSE Place(t, d - 1)]
    <3>1. pc[t] = "saved" /\ frame' = [frame EXCEPT ![t][d] = f]
      BY <2>1, Zenon
    <3> HIDE DEF LoadSpace, ArmRecovery, FreshFp, CountDepth, EnterRing3, SyscallEntry, SyscallReturn
    <3>2. d \in Levels
      BY <1>1, <3>1, DepthInLevels, Zenon
    <3>3. frame[t][d] \in Frames /\ frame \in [UserTasks -> [Levels -> Frames]]
      BY <1>1, <3>2, Zenon DEF TypeOK
    <3>4. f.record = frame[t][d].record
      BY <3>3, FrameRecord
    <3> HIDE DEF f
    <3> QED
      BY <3>1, <3>2, <3>3, <3>4, Zenon
  <2>2. CASE ArmRecovery(t)
    <3> DEFINE d == depth[t]
               f == [frame[t][d] EXCEPT !.recovery = recovery]
    <3>1. pc[t] = "fresh" /\ frame' = [frame EXCEPT ![t][d] = f]
      BY <2>2, Zenon
    <3> HIDE DEF LoadSpace, ArmRecovery, FreshFp, CountDepth, EnterRing3, SyscallEntry, SyscallReturn
    <3>2. d \in Levels
      BY <1>1, <3>1, DepthInLevels, Zenon
    <3>3. frame[t][d] \in Frames /\ frame \in [UserTasks -> [Levels -> Frames]]
      BY <1>1, <3>2, Zenon DEF TypeOK
    <3>4. f.record = frame[t][d].record
      BY <3>3, FrameRecord
    <3> HIDE DEF f
    <3> QED
      BY <3>1, <3>2, <3>3, <3>4, Zenon
  <2> QED BY <2>1, <2>2, Zenon
<1>5. pc'[t] # "left" /\ (pc'[t] \in {"user", "syscall"} => Silent(record'[t]))
  BY <1>1, Zenon DEF TypeOK, Told, slots
<1>6. /\ pc'[t] = "counted" => Silent(record'[t])
      /\ pc'[t] \in {"loaded", "fresh", "armed"} => ~record'[t].exited
  BY <1>1 DEF TypeOK, Told, Silent, Records, slots
<1> HIDE DEF LoadSpace, ArmRecovery, FreshFp, CountDepth, EnterRing3, SyscallEntry, SyscallReturn
<1>7. Told(t)'
  BY <1>1, <1>2, <1>4, <1>5, <1>6, Zenon DEF Told
<1> QED BY <1>2, <1>3, <1>7, LocalTold, Zenon

\* What spawn puts back are the caller's records, and it reads the child's before that.
LEMMA ReturnTold ==
    ASSUME NEW t \in UserTasks, IInv, AllTold, UnloadSpace(t) \/ LoadFails(t)
    PROVE  AllTold'
<1>1. /\ TypeOK /\ Fields(t) /\ Told(t) /\ t \in Tasks /\ pc[t] \in {"saved", "left"}
      /\ SpawnReturns(t) /\ RestoreRecords(t) /\ ended' = ended
  BY Zenon DEF IInv, Consistent, AllTold, Tasks, UnloadSpace, LoadFails, results
<1>2. depth[t] = level[t] - 1 /\ depth[t] \in Levels /\ level[t] \in Nat
  <2>1. level[t] \in Nat
    BY <1>1 DEF TypeOK
  <2> QED BY <1>1, <2>1, DepthInLevels, Zenon
<1>3. /\ level'[t] = depth[t] /\ record'[t] = frame[t][depth[t]].record
      /\ pc'[t] = IF depth[t] > 0 THEN "syscall" ELSE IF t = "ring3" THEN "done" ELSE "kernel"
      /\ \A d \in Levels \ {depth[t]} : frame'[t][d] = frame[t][d]
  BY <1>1, <1>2, Zenon DEF SpawnReturns, RestoreRecords, TypeOK
<1>4. outcome'[t] = ended[t] /\ \A u \in UserTasks \ {t} : outcome'[u] = outcome[u]
  <2>1. CASE UnloadSpace(t)
    BY <1>1, <2>1, Zenon DEF UnloadSpace, TypeOK, Told
  <2>2. CASE LoadFails(t)
    BY <1>1, <2>2, Zenon DEF LoadFails, results, Told
  <2> QED BY <2>1, <2>2, Zenon
<1>5. \A d \in Levels : 0 < d /\ d < level[t] => Silent(frame[t][d].record)
  BY <1>1, Zenon DEF Told
<1>6. \A d \in Levels : 0 < d /\ d < level'[t] => Silent(frame'[t][d].record)
  BY <1>2, <1>3, <1>5 DEF Levels
<1>7. pc'[t] = "syscall" => Silent(record'[t])
  BY <1>2, <1>3, <1>5
<1>8. Told(t)'
  BY <1>1, <1>3, <1>4, <1>6, <1>7, Zenon DEF Told
<1> QED BY <1>1, <1>2, <1>4, <1>8, LocalTold DEF SpawnReturns, RestoreRecords, TypeOK

\* Every step keeps the records in step with the program they are of.
LEMMA NextTold == IInv /\ AllTold /\ [Next]_vars => AllTold'
<1> SUFFICES ASSUME IInv, AllTold, [Next]_vars PROVE AllTold'
  BY Zenon
<1>1. TypeOK /\ \A t \in UserTasks : t \in Tasks /\ Told(t) /\ Fields(t)
  BY Zenon DEF IInv, Consistent, AllTold, Tasks
<1>2. CASE StartRing3Task
  <2>1. /\ pc["ring3"] = "none" /\ pc' = [pc EXCEPT !["ring3"] = "kernel"]
        /\ UNCHANGED <<level, frame, record, ended, outcome>>
    BY <1>2, Zenon DEF StartRing3Task, slots, results
  <2>2. ASSUME NEW u \in UserTasks PROVE Told(u)'
    BY <1>1, <2>1, Zenon DEF TypeOK, Told, Silent, SpawnOutcome
  <2> QED BY <2>2, Zenon DEF AllTold
<1>3. ASSUME NEW t \in Tasks, NEW next \in Tasks, Tick(t, next) \/ Yield(t, next) PROVE AllTold'
  <2>1. UNCHANGED <<pc, level, frame, record, ended, outcome>>
    BY <1>3, Zenon DEF Tick, Yield, control, slots, results
  <2> QED BY <1>1, <2>1, UntouchedTold, Zenon DEF AllTold
<1>4. ASSUME NEW next \in Tasks, FinishRing3Task(next) PROVE AllTold'
  <2>1. /\ pc["ring3"] = "done" /\ pc' = [pc EXCEPT !["ring3"] = "none"]
        /\ UNCHANGED <<level, frame, record, ended, outcome>>
    BY <1>4, Zenon DEF FinishRing3Task, slots, results
  <2>2. ASSUME NEW u \in UserTasks PROVE Told(u)'
    BY <1>1, <2>1, Zenon DEF TypeOK, Told, Silent, SpawnOutcome
  <2> QED BY <2>2, Zenon DEF AllTold
<1>5. ASSUME NEW t \in UserTasks, Fault(t) \/ Exit(t) \/ Interrupt(t) PROVE AllTold'
  <2>1. Up(t) /\ pc[t] \in {"user", "syscall"} /\ record[t] \in Records
    BY <1>5, <1>1, Zenon DEF Fault, Exit, Interrupt, TypeOK
  <2>2. Silent(record[t]) /\ (pc[t] = "user" => in_ring3[t])
    BY <1>1, <2>1, Zenon DEF Told, Fields
  <2>3. /\ [record[t] EXCEPT !.folded = TRUE] \in Records
        /\ SpawnOutcome([record[t] EXCEPT !.folded = TRUE]) = "folded"
    BY <2>1, <2>2, Zenon DEF Records, SpawnOutcome, Silent
  <2>4. /\ [record[t] EXCEPT !.exited = TRUE] \in Records
        /\ SpawnOutcome([record[t] EXCEPT !.exited = TRUE]) = "exited"
    BY <2>1, <2>2, Zenon DEF Records, SpawnOutcome, Silent
  <2>5. /\ [record[t] EXCEPT !.interrupted = TRUE] \in Records
        /\ SpawnOutcome([record[t] EXCEPT !.interrupted = TRUE]) = "interrupted"
    BY <2>1, <2>2, Zenon DEF Records, SpawnOutcome, Silent
  <2>6. CASE Fault(t)
    BY <2>1, <2>2, <2>3, <2>6, LeaveTold, Zenon DEF Fault
  <2>7. CASE Exit(t)
    BY <2>1, <2>4, <2>7, LeaveTold, Zenon DEF Exit
  <2>8. CASE Interrupt(t)
    BY <2>1, <2>5, <2>8, LeaveTold, Zenon DEF Interrupt
  <2> QED BY <1>5, <2>6, <2>7, <2>8, Zenon
<1>6. CASE UNCHANGED vars
  <2>1. UNCHANGED <<pc, level, frame, record, ended, outcome>>
    BY <1>6, Zenon DEF vars, control, slots, results
  <2> QED BY <1>1, <2>1, UntouchedTold, Zenon DEF AllTold
<1>7. \A t \in UserTasks : t \in Tasks
  BY Zenon DEF Tasks
<1> HIDE DEF IInv, AllTold
<1> QED BY <1>2, <1>3, <1>4, <1>5, <1>6, <1>7, SpawnTold, EnterTold, ReturnTold, Zenon DEF Next

\* Whatever spawn says of a child is how that child really ended, at every depth.
THEOREM OutcomeIsTrueCorrect == Spec => []OutcomeIsTrue
<1>1. Init => AllTold
  BY MaxDepthAssumption DEF Init, AllTold, Told, UserTasks, Tasks, Levels
<1>2. AllTold => OutcomeIsTrue
  BY Zenon DEF AllTold, Told, OutcomeIsTrue
<1> QED BY <1>1, <1>2, NextTold, Invariance, PTL DEF Spec
============================================================================
