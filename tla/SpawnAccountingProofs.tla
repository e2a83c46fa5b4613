------------------------ MODULE SpawnAccountingProofs ------------------------
(***************************************************************************)
(* Nobody is refused the frame allocator, and a window is judged crossed   *)
(* exactly if it was, for every number of frames, windows and levels.      *)
(***************************************************************************)
EXTENDS SpawnAccounting, Integers, TLAPS

Pcs == {"opened", "counted", "loading", "running", "left", "gone", "closing", "closed"}

Call == [pc : Pcs, masked : BOOLEAN, window : [open : Int, starts : Int], met : BOOLEAN,
         children : Int, lost : Int, strays : Int, free : Int, shared : Int,
         tables : Int, leaves : Int, heap : Int, counted : Int, post : Int,
         fds : Int, inbox : Int,
         held : Int, spill : Int, taken : Int, consumed : Int, crossed : BOOLEAN]

Types ==
    /\ calls \in [Slots -> Seq(Call)]
    /\ {free, shared_held, quarantined, leaked, astray} \subseteq Int
    /\ windows_open \in [Slots -> Int] /\ window_starts \in [Slots -> Int]
    /\ loan \in BOOLEAN /\ refused \in BOOLEAN /\ awaiting \in BOOLEAN
    /\ detached \in {"none", "started", "finished"}

\* A slot is in the kernel's part of spawn: its innermost call is under way and
\* its program does not run.
InKernel(s) == Depth(s) > 0 /\ Top(s).pc # "running"

\* The outer calls wait for the inner ones.  Interrupts are on only in the first
\* call of the detached task, and slot 0 then waits for it to enter Ring 3.
Nested(s) ==
    /\ \A d \in 1 .. Depth(s) - 1 : calls[s][d].pc = "running"
    /\ InKernel(s) /\ ~Top(s).masked => s = 1 /\ Depth(s) = 1 /\ awaiting

\* When the detached task exists, and who waits for it.
Waiting ==
    /\ detached # "started" => Depth(1) = 0
    /\ detached = "started" /\ Depth(1) = 0 => awaiting
    /\ awaiting => Depth(0) > 0 /\ Top(0).pc = "running"

\* One slot at a time is in the kernel, and the allocator is on loan while one loads.
Lending ==
    /\ ~(InKernel(0) /\ InKernel(1))
    /\ loan <=> \E s \in Slots : Depth(s) > 0 /\ Top(s).pc = "loading"
    /\ ~refused

OpenNow(s) == IF Depth(s) > 0 /\ Top(s).pc = "closed" THEN Depth(s) - 1 ELSE Depth(s)

\* What a call knows of the other slot, whose windows were opened that often and of
\* which that many are open: it has met one exactly if one was open when its own was
\* opened or if one was opened since, and a closed window was judged by that.
Overlapped(c, starts) == c.window.open > 0 \/ c.window.starts # starts
Knows(c, starts, open) ==
    /\ c.window.starts <= starts
    /\ c.met = Overlapped(c, starts)
    /\ open > 0 => Overlapped(c, starts)
    /\ c.pc = "closed" => c.crossed = c.met

Windows(s) ==
    /\ windows_open[s] = OpenNow(s)
    /\ \A d \in 1 .. Depth(s) : Knows(calls[s][d], window_starts[Other(s)], windows_open[Other(s)])

IInv == Types /\ Waiting /\ Lending /\ \A s \in Slots : Nested(s) /\ Windows(s)

----------------------------------------------------------------------------
\* What a typed state says of one slot.
LEMMA SlotType ==
    ASSUME Types, NEW s \in Slots
    PROVE  /\ Other(s) \in Slots /\ Other(s) # s /\ Other(Other(s)) = s
           /\ calls[s] \in Seq(Call) /\ Depth(s) \in Nat /\ DOMAIN calls[s] = 1 .. Depth(s)
           /\ \A d \in 1 .. Depth(s) : calls[s][d] \in Call
           /\ Depth(s) > 0 => Top(s) \in Call /\ Depth(s) \in 1 .. Depth(s)
<1>1. Other(s) \in Slots /\ Other(s) # s /\ Other(Other(s)) = s
  BY DEF Slots, Other
<1>2. calls[s] \in Seq(Call)
  BY Zenon DEF Types
<1>3. /\ Depth(s) \in Nat /\ DOMAIN calls[s] = 1 .. Depth(s)
      /\ \A d \in 1 .. Depth(s) : calls[s][d] \in Call
  BY <1>2 DEF Depth
<1> QED
  BY <1>1, <1>2, <1>3 DEF Top

\* Becomes changes the innermost call of the slot and nothing else.
LEMMA BecomesType ==
    ASSUME Types, NEW s \in Slots, Depth(s) > 0, NEW c \in Call, Becomes(s, c)
    PROVE  /\ calls' \in [Slots -> Seq(Call)]
           /\ calls'[Other(s)] = calls[Other(s)]
           /\ Len(calls'[s]) = Depth(s) /\ calls'[s][Depth(s)] = c
           /\ \A d \in 1 .. Depth(s) - 1 : calls'[s][d] = calls[s][d]
<1>1. /\ calls[s] \in Seq(Call) /\ Depth(s) \in 1 .. Len(calls[s]) /\ Depth(s) \in Nat
      /\ Other(s) \in Slots /\ Other(s) # s
  BY SlotType, Zenon DEF Depth
<1>2. calls \in [Slots -> Seq(Call)]
  BY Zenon DEF Types
<1> DEFINE new == [calls[s] EXCEPT ![Depth(s)] = c]
<1>3. calls' = [calls EXCEPT ![s] = new]
  BY <1>2, Zenon DEF Becomes
<1>4. /\ new \in Seq(Call) /\ Len(new) = Len(calls[s])
      /\ \A d \in 1 .. Len(calls[s]) : new[d] = IF d = Depth(s) THEN c ELSE calls[s][d]
  BY <1>1
<1> HIDE DEF new
<1>5. calls' \in [Slots -> Seq(Call)] /\ calls'[s] = new /\ calls'[Other(s)] = calls[Other(s)]
  BY <1>1, <1>2, <1>3, <1>4, Zenon
<1>6. Len(new) = Depth(s) /\ new[Depth(s)] = c
  BY <1>1, <1>4, Zenon DEF Depth
<1>7. ASSUME NEW d \in 1 .. Depth(s) - 1
      PROVE  new[d] = calls[s][d]
  BY <1>1, <1>4 DEF Depth
<1> QED
  BY <1>5, <1>6, <1>7, Zenon

\* While a slot moves, the other is not in the kernel: there it is either masked,
\* or it is the detached task on its first way in, for which slot 0 waits.
LEMMA Alone ==
    ASSUME IInv, NEW s \in Slots, MayRun(s)
    PROVE  ~InKernel(Other(s))
<1>1. Other(s) \in Slots /\ (Other(s) = 1 => s = 0)
  BY DEF Slots, Other
<1>2. Nested(Other(s)) /\ Types
  BY <1>1, Zenon DEF IInv
<1>3. SUFFICES ASSUME InKernel(Other(s)) PROVE FALSE
  BY Zenon
<1>4. ~Top(Other(s)).masked
  BY <1>3, Zenon DEF MayRun, Masked, InKernel, Runs
<1>5. Other(s) = 1 /\ awaiting
  BY <1>2, <1>3, <1>4, Zenon DEF Nested
<1> QED
  BY <1>1, <1>5, Zenon DEF MayRun

\* So a slot that is not itself loading finds the allocator at home.
LEMMA NotLent ==
    ASSUME IInv, NEW s \in Slots, MayRun(s), Depth(s) > 0 => Top(s).pc # "loading"
    PROVE  ~loan
<1>1. ~InKernel(Other(s))
  BY Alone, Zenon
<1>2. \A t \in Slots : t = s \/ t = Other(s)
  BY DEF Slots, Other
<1> QED
  BY <1>1, <1>2, Zenon DEF IInv, Lending, InKernel

Rest == /\ {free, shared_held, quarantined, leaked, astray}' \subseteq Int
        /\ loan' \in BOOLEAN /\ refused' = refused

\* A slot that moves on within its innermost call keeps the kernel to itself, and has
\* the allocator exactly while it loads.
LEMMA MoveKeeps ==
    ASSUME IInv, NEW s \in Slots, MayRun(s), Depth(s) > 0, NEW c \in Call, Becomes(s, c),
           c.pc # "running" => c.masked \/ (Top(s).pc # "running" /\ ~Top(s).masked),
           loan' <=> c.pc = "loading", Rest,
           UNCHANGED <<detached, awaiting>>
    PROVE  /\ Depth(s)' = Depth(s) /\ Top(s)' = c /\ Depth(Other(s))' = Depth(Other(s))
           /\ Depth(Other(s)) > 0 => Top(Other(s))' = Top(Other(s))
           /\ Nested(s)' /\ Nested(Other(s))' /\ Waiting' /\ Lending'
<1> DEFINE o == Other(s)
           n == Depth(s)
<1>1. /\ Types /\ Waiting /\ Lending /\ Nested(s) /\ Windows(s) /\ Nested(o) /\ Windows(o)
      /\ o \in Slots /\ o # s /\ Other(o) = s /\ n \in Nat /\ Depth(o) \in Nat
      /\ \A t \in Slots : t = s \/ t = o
  BY SlotType, Zenon DEF IInv, Slots, Other
<1>2. /\ calls' \in [Slots -> Seq(Call)] /\ calls'[o] = calls[o]
      /\ Len(calls'[s]) = n /\ calls'[s][n] = c
      /\ \A d \in 1 .. n - 1 : calls'[s][d] = calls[s][d]
  BY <1>1, BecomesType, Zenon
<1>3. /\ Depth(s)' = n /\ Top(s)' = c /\ Depth(o)' = Depth(o)
      /\ Depth(o) > 0 => Top(o)' = Top(o)
  BY <1>2, Zenon DEF Depth, Top
<1>4. ~InKernel(o)
  BY Alone, Zenon
<1>6. InKernel(o)' = InKernel(o)
  BY <1>3, Zenon DEF InKernel
<1>7. Nested(s)'
  <2>1. \A d \in 1 .. n - 1 : calls'[s][d].pc = "running"
    BY <1>1, <1>2, Zenon DEF Nested
  <2>2. ASSUME c.pc # "running", ~c.masked
        PROVE  s = 1 /\ n = 1 /\ awaiting
    BY <1>1, <2>2, Zenon DEF Nested, InKernel
  <2> QED
    BY <1>3, <2>1, <2>2, Zenon DEF Nested, InKernel
<1>8. Nested(o)'
  BY <1>1, <1>2, <1>3, <1>4, <1>6, Zenon DEF Nested
<1>9. Waiting'
  <2>1. CASE s = 0
    BY <1>1, <1>3, <2>1 DEF Waiting, MayRun, Other
  <2>2. CASE s = 1
    BY <1>1, <1>3, <2>2 DEF Waiting, Other
  <2> QED
    BY <2>1, <2>2, Zenon DEF Slots
<1>10. Lending'
  <2>1. ~(InKernel(0)' /\ InKernel(1)')
    BY <1>1, <1>4, <1>6, Zenon DEF Slots, Other
  <2>2. ~(Depth(o)' > 0 /\ Top(o)'.pc = "loading")
    BY <1>4, <1>3, Zenon DEF InKernel
  <2>3. Depth(s)' > 0 /\ (Top(s)'.pc = "loading" <=> c.pc = "loading")
    BY <1>3, Zenon
  <2>4. loan' <=> \E t \in Slots : Depth(t)' > 0 /\ Top(t)'.pc = "loading"
    BY <1>1, <2>2, <2>3, Zenon
  <2> QED
    BY <1>1, <2>1, <2>4, Zenon DEF Lending, Rest
<1> QED
  BY <1>3, <1>7, <1>8, <1>9, <1>10, Zenon

\* If it neither opens nor closes a window, it keeps the whole invariant.
LEMMA TouchKeeps ==
    ASSUME IInv, NEW s \in Slots, MayRun(s), Depth(s) > 0, NEW c \in Call, Becomes(s, c),
           c.window = Top(s).window, c.met = Top(s).met, c.pc # "closed", Top(s).pc # "closed",
           c.pc # "running" => c.masked \/ (Top(s).pc # "running" /\ ~Top(s).masked),
           loan' <=> c.pc = "loading", Rest,
           UNCHANGED <<windows_open, window_starts, detached, awaiting>>
    PROVE  IInv'
<1> DEFINE o == Other(s)
           n == Depth(s)
<1>1. /\ Types /\ Windows(s) /\ Windows(o)
      /\ o \in Slots /\ o # s /\ Other(o) = s /\ n \in Nat /\ Depth(o) \in Nat
      /\ \A t \in Slots : t = s \/ t = o
  BY SlotType, Zenon DEF IInv, Slots, Other
<1>2. /\ calls' \in [Slots -> Seq(Call)] /\ calls'[o] = calls[o]
      /\ Len(calls'[s]) = n /\ calls'[s][n] = c
      /\ \A d \in 1 .. n - 1 : calls'[s][d] = calls[s][d]
  BY <1>1, BecomesType, Zenon
<1>3. /\ Depth(s)' = n /\ Top(s)' = c /\ Depth(o)' = Depth(o)
      /\ Depth(o) > 0 => Top(o)' = Top(o)
      /\ Nested(s)' /\ Nested(o)' /\ Waiting' /\ Lending'
  BY MoveKeeps, Zenon
<1>4. Types'
  BY <1>1, <1>2, Zenon DEF Types, Rest, Lending, IInv
<1>5. Windows(s)'
  <2>1. windows_open'[s] = OpenNow(s)'
    BY <1>1, <1>3, Zenon DEF Windows, OpenNow
  <2>2. ASSUME NEW d \in 1 .. n
        PROVE  Knows(calls'[s][d], window_starts'[o], windows_open'[o])
    <3>1. Knows(calls[s][d], window_starts[o], windows_open[o])
      BY <1>1, Zenon DEF Windows
    <3>2. CASE d = n
      BY <1>2, <3>1, <3>2, Zenon DEF Knows, Overlapped, Top
    <3>3. CASE d \in 1 .. n - 1
      BY <1>2, <3>1, <3>3, Zenon
    <3> QED
      BY <1>1, <3>2, <3>3
  <2> QED
    BY <1>3, <2>1, <2>2, Zenon DEF Windows
<1>6. Windows(o)'
  <2>1. windows_open'[o] = OpenNow(o)'
    BY <1>1, <1>3, Zenon DEF Windows, OpenNow
  <2> QED
    BY <1>1, <1>2, <1>3, <2>1, Zenon DEF Windows
<1> QED
  BY <1>1, <1>3, <1>4, <1>5, <1>6, Zenon DEF IInv

----------------------------------------------------------------------------
\* A call of which only a count differs.
Same(e, c) ==
    /\ e \in Call /\ e.pc = c.pc /\ e.masked = c.masked
    /\ e.window = c.window /\ e.met = c.met /\ e.crossed = c.crossed

LEMMA MappedSame ==
    ASSUME NEW k \in Call, NEW t \in Int, NEW p \in Int
    PROVE  Same(Mapped(k, t, p), k)
<1> DEFINE c1 == [k EXCEPT !.tables = @ + t]
           c2 == [c1 EXCEPT !.leaves = @ + p]
           c3 == [c2 EXCEPT !.counted = @ + t + p]
<1>1. Same(c1, k)
  BY DEF Same, Call
<1> HIDE DEF c1
<1>2. Same(c2, c1)
  BY <1>1 DEF Same, Call
<1> HIDE DEF c2
<1>3. Same(c3, c2)
  BY <1>2 DEF Same, Call
<1> HIDE DEF c3
<1>4. Mapped(k, t, p) = c3
  BY Zenon DEF Mapped, c1, c2, c3
<1> QED
  BY <1>1, <1>2, <1>3, <1>4, Zenon DEF Same

LEMMA NotedSame ==
    ASSUME NEW k \in Call, NEW before \in Int, NEW after \in Int
    PROVE  Same(Noted(k, before, after), k)
<1>1. Minus(before, after) \in Int /\ k.post \in Int
  BY DEF Minus, Call
<1>2. k.post + Minus(before, after) \in Int
  BY <1>1
<1> QED
  BY <1>2, Zenon DEF Noted, Same, Call

\* What brk does to the space itself.
Grown(k, p, t) == [k EXCEPT !.leaves = @ + p, !.heap = @ + p, !.tables = @ + t]

LEMMA GrownSame ==
    ASSUME NEW k \in Call, NEW p \in Int, NEW t \in Int
    PROVE  Same(Grown(k, p, t), k)
<1> DEFINE c1 == [k EXCEPT !.leaves = @ + p]
           c2 == [c1 EXCEPT !.heap = @ + p]
           c3 == [c2 EXCEPT !.tables = @ + t]
<1>1. Same(c1, k)
  BY DEF Same, Call
<1> HIDE DEF c1
<1>2. Same(c2, c1)
  BY <1>1 DEF Same, Call
<1> HIDE DEF c2
<1>3. Same(c3, c2)
  BY <1>2 DEF Same, Call
<1> HIDE DEF c3
<1>4. Grown(k, p, t) = c3
  BY Zenon DEF Grown, c1, c2, c3
<1> QED
  BY <1>1, <1>2, <1>3, <1>4, Zenon DEF Same

LEMMA ShrunkSame ==
    ASSUME NEW k \in Call
    PROVE  Same([k EXCEPT !.leaves = @ - 1, !.heap = @ - 1, !.post = Minus(@, 1)], k)
<1> DEFINE c1 == [k EXCEPT !.leaves = @ - 1]
           c2 == [c1 EXCEPT !.heap = @ - 1]
           c3 == [c2 EXCEPT !.post = Minus(@, 1)]
<1>1. Same(c1, k)
  BY DEF Same, Call
<1> HIDE DEF c1
<1>2. Same(c2, c1)
  BY <1>1 DEF Same, Call
<1> HIDE DEF c2
<1>3. Same(c3, c2)
  <2>1. Minus(c2.post, 1) \in Int
    BY <1>2 DEF Minus, Same, Call
  <2> QED
    BY <1>2, <2>1, Zenon DEF Same, Call
<1> HIDE DEF c3
<1>4. [k EXCEPT !.leaves = @ - 1, !.heap = @ - 1, !.post = Minus(@, 1)] = c3
  BY Zenon DEF c1, c2, c3
<1> QED
  BY <1>1, <1>2, <1>3, <1>4, Zenon DEF Same

\* The loader goes on to Ring 3 or to the end with what it has mapped.
LEMMA LoadedStep ==
    ASSUME IInv, NEW s \in Slots, At(s, "loading"), NEW t \in Int, NEW p \in Int,
           NEW pc \in {"running", "left"}, Becomes(s, [Mapped(Top(s), t, p) EXCEPT !.pc = pc]),
           {free, astray}' \subseteq Int, loan' = FALSE,
           UNCHANGED <<refused, shared_held, quarantined, leaked, windows_open, window_starts,
                       detached, awaiting>>
    PROVE  IInv'
<1> DEFINE m == Mapped(Top(s), t, p)
           c == [m EXCEPT !.pc = pc]
<1>1. /\ Types /\ MayRun(s) /\ Depth(s) > 0 /\ Top(s).pc = "loading" /\ Top(s) \in Call
      /\ pc # "loading" /\ pc # "closed"
  BY SlotType, Zenon DEF IInv, At
<1>2. Same(m, Top(s))
  BY <1>1, MappedSame, Zenon
<1> HIDE DEF m
<1>3. /\ c \in Call /\ c.pc = pc /\ c.window = m.window /\ c.met = m.met /\ c.masked = m.masked
  BY <1>2, Zenon DEF Same, Call, Pcs
<1>4. Becomes(s, c)
  BY Zenon DEF m
<1> HIDE DEF c
<1>5. Rest /\ (loan' <=> c.pc = "loading")
  BY <1>1, <1>3, Zenon DEF Types, Rest
<1>6. /\ c.window = Top(s).window /\ c.met = Top(s).met /\ c.pc # "closed" /\ Top(s).pc # "closed"
      /\ c.pc # "running" => c.masked \/ (Top(s).pc # "running" /\ ~Top(s).masked)
  <2>1. c.masked = Top(s).masked /\ Top(s).masked \in BOOLEAN
    BY <1>1, <1>2, <1>3, Zenon DEF Same, Call
  <2> QED
    BY <1>1, <1>2, <1>3, <2>1, Zenon DEF Same
<1> QED
  BY <1>1, <1>3, <1>4, <1>5, <1>6, TouchKeeps, Zenon

\* The steps within a call: each finds the allocator at home unless it has it.
LEMMA TouchStep ==
    ASSUME IInv, NEW s \in Slots,
           \/ CountBefore(s) \/ BeginLoad(s) \/ Load(s) \/ LoadFailsHalfway(s)
           \/ LoadLosesPage(s) \/ LoadFails(s)
           \/ LeaveExcursion(s) \/ Destroy(s) \/ CountAfter(s) \/ BrkGrows(s) \/ BrkShrinks(s)
           \/ SetSize(s) \/ Mmap(s) \/ CloseShm(s) \/ ReceiveShm(s)
    PROVE  IInv'
<1> USE DEF At
<1>0. Types /\ (Depth(s) > 0 => Top(s) \in Call)
  BY SlotType, Zenon DEF IInv
<1>t. {free, shared_held} \subseteq Int /\ {quarantined, leaked, astray} \subseteq Int /\ loan \in BOOLEAN
  BY <1>0, Zenon DEF Types
<1>1. CASE CountBefore(s)
  <2> DEFINE c == [Top(s) EXCEPT !.pc = "counted", !.free = free]
  <2>1. MayRun(s) /\ Depth(s) > 0 /\ Top(s).pc = "opened" /\ Top(s) \in Call
    BY <1>0, <1>1, Zenon DEF CountBefore
  <2>2. /\ c \in Call /\ c.pc = "counted" /\ c.window = Top(s).window /\ c.met = Top(s).met
      /\ c.masked = Top(s).masked
    BY <1>t, <2>1, Zenon DEF Call, Pcs
  <2>3. ~loan
    BY <2>1, NotLent, Zenon
  <2>4. Becomes(s, c) /\ Rest /\ (loan' <=> c.pc = "loading")
        /\ UNCHANGED <<windows_open, window_starts, detached, awaiting>>
    BY <1>t, <1>1, <2>2, <2>3, Zenon DEF CountBefore, Borrowing, Rest
  <2> HIDE DEF c
  <2> QED
    BY <2>1, <2>2, <2>4, TouchKeeps, Zenon DEF Call
<1>2. CASE BeginLoad(s)
  <2> DEFINE c == [Top(s) EXCEPT !.pc = "loading"]
  <2>1. MayRun(s) /\ Depth(s) > 0 /\ Top(s).pc = "counted" /\ Top(s) \in Call
    BY <1>0, <1>2, Zenon DEF BeginLoad
  <2>2. /\ c \in Call /\ c.pc = "loading" /\ c.window = Top(s).window /\ c.met = Top(s).met
      /\ c.masked = Top(s).masked
    BY <1>t, <2>1, Zenon DEF Call, Pcs
  <2>3. ~loan
    BY <2>1, NotLent, Zenon
  <2>4. Becomes(s, c) /\ Rest /\ (loan' <=> c.pc = "loading")
        /\ UNCHANGED <<windows_open, window_starts, detached, awaiting>>
    BY <1>t, <1>2, <2>2, <2>3, Zenon DEF BeginLoad, Borrowing, Rest
  <2> HIDE DEF c
  <2> QED
    BY <2>1, <2>2, <2>4, TouchKeeps, Zenon DEF Call
<1>3. CASE Load(s)
  <2>1. {free, astray}' \subseteq Int
    BY <1>t, <1>3 DEF Load
  <2>2. {0, 1, 2} \subseteq Int
    OBVIOUS
  <2> QED
    BY <1>3, <2>1, <2>2, LoadedStep, Zenon DEF Load
<1>4. CASE LoadFailsHalfway(s)
  <2>1. PICK t \in 1 .. 2, p \in 0 .. 1 :
          free' = free - (t + p) /\ Becomes(s, [Mapped(Top(s), t, p) EXCEPT !.pc = "left"])
    BY <1>4, Zenon DEF LoadFailsHalfway
  <2>2. t \in Int /\ p \in Int /\ astray' = astray
    BY <1>4 DEF LoadFailsHalfway
  <2>3. {free, astray}' \subseteq Int
    BY <1>t, <2>1, <2>2
  <2> QED
    BY <1>4, <2>1, <2>2, <2>3, LoadedStep, Zenon DEF LoadFailsHalfway
<1>15. CASE LoadLosesPage(s)
  <2>1. {free, astray}' \subseteq Int
    BY <1>t, <1>15 DEF LoadLosesPage
  <2>2. {0, 1, 2} \subseteq Int
    OBVIOUS
  <2> QED
    BY <1>15, <2>1, <2>2, LoadedStep, Zenon DEF LoadLosesPage
<1>5. CASE LoadFails(s)
  <2> DEFINE c == [Top(s) EXCEPT !.pc = "gone"]
  <2>1. MayRun(s) /\ Depth(s) > 0 /\ Top(s).pc = "loading" /\ Top(s) \in Call
    BY <1>0, <1>5, Zenon DEF LoadFails
  <2>2. /\ c \in Call /\ c.pc = "gone" /\ c.window = Top(s).window /\ c.met = Top(s).met
      /\ c.masked = Top(s).masked
    BY <1>t, <2>1, Zenon DEF Call, Pcs
  <2>3. loan' = FALSE /\ refused' = refused
    BY <1>5, Zenon DEF LoadFails
  <2>4. Becomes(s, c) /\ Rest /\ (loan' <=> c.pc = "loading")
        /\ UNCHANGED <<windows_open, window_starts, detached, awaiting>>
    BY <1>t, <1>5, <2>2, <2>3, Zenon DEF LoadFails, Borrowing, Rest
  <2> HIDE DEF c
  <2> QED
    BY <2>1, <2>2, <2>4, TouchKeeps, Zenon DEF Call
<1>6. CASE LeaveExcursion(s)
  <2> DEFINE c == [Top(s) EXCEPT !.pc = "left", !.masked = TRUE]
  <2>1. MayRun(s) /\ Depth(s) > 0 /\ Top(s).pc = "running" /\ Top(s) \in Call
    BY <1>0, <1>6, Zenon DEF LeaveExcursion
  <2>2. /\ c \in Call /\ c.pc = "left" /\ c.window = Top(s).window /\ c.met = Top(s).met
      /\ c.masked = TRUE
    BY <1>t, <2>1, Zenon DEF Call, Pcs
  <2>3. ~loan
    BY <2>1, NotLent, Zenon
  <2>4. Becomes(s, c) /\ Rest /\ (loan' <=> c.pc = "loading")
        /\ UNCHANGED <<windows_open, window_starts, detached, awaiting>>
    BY <1>t, <1>6, <2>2, <2>3, Zenon DEF LeaveExcursion, Borrowing, Rest
  <2> HIDE DEF c
  <2> QED
    BY <2>1, <2>2, <2>4, TouchKeeps, Zenon DEF Call
<1>7. CASE CountAfter(s)
  <2> DEFINE c == [Top(s) EXCEPT !.pc = "closing", !.consumed = Consumed(Top(s), free)]
  <2>1. MayRun(s) /\ Depth(s) > 0 /\ Top(s).pc = "gone" /\ Top(s) \in Call
    BY <1>0, <1>7, Zenon DEF CountAfter
  <2>m. Consumed(Top(s), free) \in Int
    BY <1>t, <2>1 DEF Consumed, Minus, Call
  <2>2. /\ c \in Call /\ c.pc = "closing" /\ c.window = Top(s).window /\ c.met = Top(s).met
      /\ c.masked = Top(s).masked
    BY <1>t, <2>m, <2>1, Zenon DEF Call, Pcs
  <2>3. ~loan
    BY <2>1, NotLent, Zenon
  <2>4. Becomes(s, c) /\ Rest /\ (loan' <=> c.pc = "loading")
        /\ UNCHANGED <<windows_open, window_starts, detached, awaiting>>
    BY <1>t, <1>7, <2>2, <2>3, Zenon DEF CountAfter, Borrowing, Rest
  <2> HIDE DEF c
  <2> QED
    BY <2>1, <2>2, <2>4, TouchKeeps, Zenon DEF Call
<1>8. CASE BrkGrows(s)
  <2>1. MayRun(s) /\ Depth(s) > 0 /\ Top(s).pc = "running" /\ Top(s) \in Call
    BY <1>0, <1>8, Zenon DEF BrkGrows, Calls
  <2>3. ~loan
    BY <2>1, NotLent, Zenon
  <2>5. PICK p \in 0 .. 1, t \in 0 .. 1 :
          free' = free - (p + t) /\ Becomes(s, Noted(Grown(Top(s), p, t), free, free'))
    BY <1>8, <2>3, Zenon DEF BrkGrows, Borrowing, Grown
  <2>6. p \in Int /\ t \in Int /\ free' \in Int /\ free \in Int
    BY <1>t, <2>5
  <2> DEFINE g == Grown(Top(s), p, t)
             c == Noted(g, free, free')
  <2>7. Same(g, Top(s))
    BY <2>1, <2>6, GrownSame, Zenon
  <2> HIDE DEF g
  <2>8. Same(c, g)
    BY <2>6, <2>7, NotedSame, Zenon DEF Same
  <2>9. Becomes(s, c)
    BY <2>5, Zenon DEF g
  <2> HIDE DEF c
  <2>2. c \in Call /\ c.pc = "running" /\ c.window = Top(s).window /\ c.met = Top(s).met
    BY <2>1, <2>7, <2>8, Zenon DEF Same
  <2>4. Rest /\ (loan' <=> c.pc = "loading")
        /\ UNCHANGED <<windows_open, window_starts, detached, awaiting>>
    BY <1>t, <1>8, <2>2, <2>3, <2>6, Zenon DEF BrkGrows, Calls, Borrowing, Rest
  <2> QED
    BY <2>1, <2>2, <2>4, <2>9, TouchKeeps, Zenon DEF Call
<1>9. CASE BrkShrinks(s)
  <2> DEFINE c == [Top(s) EXCEPT !.leaves = @ - 1, !.heap = @ - 1, !.post = Minus(@, 1)]
  <2>1. MayRun(s) /\ Depth(s) > 0 /\ Top(s).pc = "running" /\ Top(s) \in Call
    BY <1>0, <1>9, Zenon DEF BrkShrinks, Calls
  <2>2. c \in Call /\ c.pc = "running" /\ c.window = Top(s).window /\ c.met = Top(s).met
    BY <2>1, ShrunkSame, Zenon DEF Same
  <2>3. ~loan
    BY <2>1, NotLent, Zenon
  <2>5. free' = free + 1 /\ Becomes(s, c)
    BY <1>9, <2>3, Zenon DEF BrkShrinks, Borrowing
  <2> HIDE DEF c
  <2>6. free' \in Int
    BY <1>t, <2>5
  <2>4. Becomes(s, c) /\ Rest /\ (loan' <=> c.pc = "loading")
        /\ UNCHANGED <<windows_open, window_starts, detached, awaiting>>
    BY <1>t, <1>9, <2>2, <2>3, <2>5, <2>6, Zenon DEF BrkShrinks, Calls, Borrowing, Rest
  <2> QED
    BY <2>1, <2>2, <2>4, TouchKeeps, Zenon DEF Call
<1>10. CASE SetSize(s)
  <2> DEFINE c == [Top(s) EXCEPT !.fds = @ + 1]
  <2>1. MayRun(s) /\ Depth(s) > 0 /\ Top(s).pc = "running" /\ Top(s) \in Call
    BY <1>0, <1>10, Zenon DEF SetSize, Calls
  <2>2. /\ c \in Call /\ c.pc = "running" /\ c.window = Top(s).window /\ c.met = Top(s).met
    BY <1>t, <2>1 DEF Call, Pcs
  <2>3. ~loan
    BY <2>1, NotLent, Zenon
  <2>4. Becomes(s, c) /\ Rest /\ (loan' <=> c.pc = "loading")
        /\ UNCHANGED <<windows_open, window_starts, detached, awaiting>>
    BY <1>t, <1>10, <2>2, <2>3 DEF SetSize, Calls, Borrowing, Rest
  <2> HIDE DEF c
  <2> QED
    BY <2>1, <2>2, <2>4, TouchKeeps, Zenon DEF Call
<1>11. CASE Mmap(s)
  <2> DEFINE m == [Top(s) EXCEPT !.tables = @ + 1]
             c == Noted(m, free, free')
  <2>1. MayRun(s) /\ Depth(s) > 0 /\ Top(s).pc = "running" /\ Top(s) \in Call
    BY <1>0, <1>11, Zenon DEF Mmap, Calls
  <2>3. ~loan
    BY <2>1, NotLent, Zenon
  <2>5. free' = free - 1 /\ Becomes(s, c)
    BY <1>11, <2>3, Zenon DEF Mmap, Borrowing
  <2>6. free' \in Int /\ free \in Int
    BY <1>t, <2>5
  <2>7. Same(m, Top(s))
    BY <2>1 DEF Same, Call
  <2> HIDE DEF m
  <2>8. Same(c, m)
    BY <2>6, <2>7, NotedSame, Zenon DEF Same
  <2> HIDE DEF c
  <2>2. /\ c \in Call /\ c.pc = "running" /\ c.window = Top(s).window /\ c.met = Top(s).met
    BY <2>1, <2>7, <2>8, Zenon DEF Same
  <2>4. Becomes(s, c) /\ Rest /\ (loan' <=> c.pc = "loading")
        /\ UNCHANGED <<windows_open, window_starts, detached, awaiting>>
    BY <1>t, <1>11, <2>2, <2>3, <2>5, <2>6, Zenon DEF Mmap, Calls, Borrowing, Rest
  <2> QED
    BY <2>1, <2>2, <2>4, TouchKeeps, Zenon DEF Call
<1>12. CASE CloseShm(s)
  <2> DEFINE c == [Top(s) EXCEPT !.fds = @ - 1]
  <2>1. MayRun(s) /\ Depth(s) > 0 /\ Top(s).pc = "running" /\ Top(s) \in Call
    BY <1>0, <1>12, Zenon DEF CloseShm, Calls
  <2>2. /\ c \in Call /\ c.pc = "running" /\ c.window = Top(s).window /\ c.met = Top(s).met
    BY <1>t, <2>1 DEF Call, Pcs
  <2>3. ~loan
    BY <2>1, NotLent, Zenon
  <2>4. Becomes(s, c) /\ Rest /\ (loan' <=> c.pc = "loading")
        /\ UNCHANGED <<windows_open, window_starts, detached, awaiting>>
    BY <1>t, <1>12, <2>2, <2>3 DEF CloseShm, Calls, Borrowing, Rest
  <2> HIDE DEF c
  <2> QED
    BY <2>1, <2>2, <2>4, TouchKeeps, Zenon DEF Call
<1>13. CASE ReceiveShm(s)
  <2> DEFINE c == [Top(s) EXCEPT !.inbox = @ - 1, !.fds = @ + 1]
  <2>1. MayRun(s) /\ Depth(s) > 0 /\ Top(s).pc = "running" /\ Top(s) \in Call
    BY <1>0, <1>13, Zenon DEF ReceiveShm, Calls
  <2>2. c \in Call /\ c.pc = "running" /\ c.window = Top(s).window /\ c.met = Top(s).met
    <3> DEFINE c1 == [Top(s) EXCEPT !.inbox = @ - 1]
               c2 == [c1 EXCEPT !.fds = @ + 1]
    <3>1. Same(c1, Top(s))
      BY <2>1 DEF Same, Call
    <3> HIDE DEF c1
    <3>2. Same(c2, c1)
      BY <3>1 DEF Same, Call
    <3> HIDE DEF c2
    <3>3. c = c2
      BY Zenon DEF c1, c2
    <3> HIDE DEF c
    <3> QED
      BY <2>1, <3>1, <3>2, <3>3, Zenon DEF Same
  <2>3. ~loan
    BY <2>1, NotLent, Zenon
  <2>4. Becomes(s, c) /\ Rest /\ (loan' <=> c.pc = "loading")
        /\ UNCHANGED <<windows_open, window_starts, detached, awaiting>>
    BY <1>t, <1>13, <2>2, <2>3, Zenon DEF ReceiveShm, Calls, Borrowing, Rest
  <2> HIDE DEF c
  <2> QED
    BY <2>1, <2>2, <2>4, TouchKeeps, Zenon DEF Call
<1>14. CASE Destroy(s)
  <2> DEFINE collected == Collected(Top(s))
             spill == Minus(collected, Capacity)
             c == [Top(s) EXCEPT !.pc = "gone", !.taken = Taken(Top(s)), !.spill = spill,
                                 !.held = collected - spill, !.fds = 0]
  <2>1. MayRun(s) /\ Depth(s) > 0 /\ Top(s).pc = "left" /\ Top(s) \in Call
    BY <1>0, <1>14, Zenon DEF Destroy
  <2>m. collected \in Int /\ spill \in Int /\ Taken(Top(s)) \in Int /\ Top(s).fds \in Int
    <3>1. collected \in Int /\ Taken(Top(s)) \in Int /\ Top(s).fds \in Int
      BY <2>1 DEF Taken, Collected, Call
    <3> HIDE DEF collected
    <3> QED
      BY <3>1, BoundsAssumption DEF Minus
  <2>2. /\ c \in Call /\ c.pc = "gone" /\ c.window = Top(s).window /\ c.met = Top(s).met
        /\ c.masked = Top(s).masked
    <3> HIDE DEF collected, spill
    <3> DEFINE c1 == [Top(s) EXCEPT !.pc = "gone"]
               c2 == [c1 EXCEPT !.taken = Taken(Top(s))]
               c3 == [c2 EXCEPT !.spill = spill]
               c4 == [c3 EXCEPT !.held = collected - spill]
               c5 == [c4 EXCEPT !.fds = 0]
    <3>1. /\ c1 \in Call /\ c1.pc = "gone" /\ c1.window = Top(s).window /\ c1.met = Top(s).met
          /\ c1.masked = Top(s).masked
      BY <2>1, Zenon DEF Call, Pcs
    <3> HIDE DEF c1
    <3>2. Same(c2, c1)
      BY <3>1, <2>m, Zenon DEF Same, Call
    <3> HIDE DEF c2
    <3>3. Same(c3, c2)
      BY <3>2, <2>m, Zenon DEF Same, Call
    <3> HIDE DEF c3
    <3>4. Same(c4, c3)
      BY <3>3, <2>m DEF Same, Call
    <3> HIDE DEF c4
    <3>5. Same(c5, c4)
      BY <3>4 DEF Same, Call
    <3> HIDE DEF c5
    <3>6. c = c5
      BY Zenon DEF c1, c2, c3, c4, c5
    <3> HIDE DEF c
    <3> QED
      BY <2>1, <3>1, <3>2, <3>3, <3>4, <3>5, <3>6 DEF Same
  <2>3. ~loan
    BY <2>1, NotLent, Zenon
  <2>4. Becomes(s, c) /\ Rest /\ (loan' <=> c.pc = "loading")
        /\ UNCHANGED <<windows_open, window_starts, detached, awaiting>>
    BY <1>t, <1>14, <2>m, <2>2, <2>3 DEF Destroy, Borrowing, Rest
  <2> HIDE DEF c
  <2> QED
    BY <2>1, <2>2, <2>4, TouchKeeps, Zenon DEF Call
<1> QED
  BY <1>1, <1>2, <1>3, <1>4, <1>5, <1>6, <1>7, <1>8, <1>9, <1>10, <1>11, <1>12, <1>13, <1>14,
     <1>15, Zenon

\* A window that closes has been crossed exactly if it has met another: a window of
\* the other slot that is open now counts among those opened since.
LEMMA CloseStep ==
    ASSUME IInv, NEW s \in Slots, CloseSpawnWindow(s)
    PROVE  IInv'
<1> DEFINE o == Other(s)
           n == Depth(s)
           crossed == Crossed(s, Top(s).window)
           c == [Top(s) EXCEPT !.pc = "closed", !.crossed = crossed]
<1>1. /\ Types /\ Windows(s) /\ Windows(o) /\ ~InKernel(o)
      /\ MayRun(s) /\ n > 0 /\ Top(s).pc = "closing" /\ Top(s) \in Call
  BY SlotType, Alone, Zenon DEF IInv, CloseSpawnWindow, At
<1>2. /\ o \in Slots /\ o # s /\ Other(o) = s /\ n \in Nat /\ Depth(o) \in Nat
      /\ \A t \in Slots : t = s \/ t = o
  BY <1>1, SlotType, Zenon DEF Slots, Other
<1>3. /\ c \in Call /\ c.pc = "closed" /\ c.window = Top(s).window /\ c.met = Top(s).met
      /\ c.masked = Top(s).masked /\ c.crossed = crossed
  <2>1. crossed \in BOOLEAN
    BY Zenon DEF Crossed
  <2> HIDE DEF crossed
  <2> QED
    BY <1>1, <2>1, Zenon DEF Call, Pcs
<1>4. ~loan
  BY <1>1, NotLent, Zenon
<1>5. /\ Becomes(s, c) /\ loan' = loan /\ refused' = refused /\ window_starts' = window_starts
      /\ windows_open' = [windows_open EXCEPT ![s] = @ - 1]
      /\ UNCHANGED <<free, shared_held, quarantined, leaked, astray>> /\ UNCHANGED <<detached, awaiting>>
  BY Zenon DEF CloseSpawnWindow
<1> HIDE DEF c
<1>6. Rest /\ (loan' <=> c.pc = "loading")
  BY <1>1, <1>3, <1>4, <1>5, Zenon DEF Types, Rest
<1>7. /\ calls' \in [Slots -> Seq(Call)] /\ calls'[o] = calls[o]
      /\ Len(calls'[s]) = n /\ calls'[s][n] = c
      /\ \A d \in 1 .. n - 1 : calls'[s][d] = calls[s][d]
  BY <1>1, <1>3, <1>5, BecomesType, Zenon
<1>8. /\ Depth(s)' = n /\ Top(s)' = c /\ Depth(o)' = Depth(o)
      /\ Depth(o) > 0 => Top(o)' = Top(o)
      /\ Nested(s)' /\ Nested(o)' /\ Waiting' /\ Lending'
  <2>1. c.pc # "running" => c.masked \/ (Top(s).pc # "running" /\ ~Top(s).masked)
    BY <1>1, <1>3, Zenon
  <2> QED
    BY <1>1, <1>3, <1>5, <1>6, <2>1, MoveKeeps, Zenon
<1>9. /\ windows_open'[s] = windows_open[s] - 1 /\ windows_open'[o] = windows_open[o]
      /\ windows_open' \in [Slots -> Int]
  BY <1>1, <1>2, <1>5 DEF Types
<1>10. Types'
  BY <1>1, <1>5, <1>6, <1>7, <1>9, Zenon DEF Types, Rest
<1>11. Windows(s)'
  <2>1. windows_open'[s] = OpenNow(s)'
    BY <1>1, <1>2, <1>3, <1>8, <1>9, Zenon DEF Windows, OpenNow
  <2>2. ASSUME NEW d \in 1 .. n
        PROVE  Knows(calls'[s][d], window_starts'[o], windows_open'[o])
    <3>1. Knows(calls[s][d], window_starts[o], windows_open[o])
      BY <1>1, Zenon DEF Windows
    <3>2. CASE d = n
      <4>1. Knows(Top(s), window_starts[o], windows_open[o])
        BY <3>1, <3>2, Zenon DEF Top
      <4>2. c.crossed = Overlapped(c, window_starts[o])
        BY <1>3, <4>1, Zenon DEF Crossed, Knows, Overlapped
      <4> QED
        BY <1>3, <1>5, <1>7, <1>9, <3>2, <4>1, <4>2, Zenon DEF Knows, Overlapped
    <3>3. CASE d \in 1 .. n - 1
      BY <1>5, <1>7, <1>9, <3>1, <3>3, Zenon
    <3> QED
      BY <1>2, <3>2, <3>3
  <2> QED
    BY <1>8, <2>1, <2>2, Zenon DEF Windows
<1>12. Windows(o)'
  <2>1. windows_open'[o] = OpenNow(o)'
    BY <1>1, <1>8, <1>9, Zenon DEF Windows, OpenNow
  <2>2. ASSUME NEW d \in 1 .. Depth(o)
        PROVE  Knows(calls'[o][d], window_starts'[s], windows_open'[s])
    <3>1. Knows(calls[o][d], window_starts[s], windows_open[s]) /\ windows_open[s] \in Int
      BY <1>1, <1>2, Zenon DEF Windows, Types
    <3> QED
      BY <1>5, <1>7, <1>9, <3>1 DEF Knows
  <2> QED
    BY <1>2, <1>8, <2>1, <2>2, Zenon DEF Windows
<1> QED
  BY <1>2, <1>8, <1>10, <1>11, <1>12, Zenon DEF IInv

\* A new window meets the other slot's exactly if that slot has any call under way;
\* its own call is masked unless it is the detached task's first.
LEMMA OpenStep ==
    ASSUME IInv, NEW s \in Slots, OpenSpawnWindow(s)
    PROVE  IInv'
<1> DEFINE o == Other(s)
           n == Depth(s)
           met == Depth(o) > 0
           c == [pc |-> "opened", masked |-> s = 0 \/ Depth(s) > 0,
                 window |-> OpenWindow(s), met |-> met,
                 children |-> quarantined, lost |-> leaked, strays |-> astray,
                 free |-> 0, shared |-> shared_held,
                 tables |-> 0, leaves |-> 0, heap |-> 0, counted |-> 0, post |-> 0,
                 fds |-> 0, inbox |-> 0,
                 held |-> 0, spill |-> 0, taken |-> 0, consumed |-> 0, crossed |-> FALSE]
           mine == Append(calls[s], c)
           theirs == [d \in DOMAIN calls[o] |-> [calls[o][d] EXCEPT !.met = TRUE]]
<1>1. /\ Types /\ Waiting /\ Lending /\ Nested(s) /\ Nested(o) /\ Windows(s) /\ Windows(o)
      /\ MayRun(s) /\ ~InKernel(o)
  BY SlotType, Alone, Zenon DEF IInv, OpenSpawnWindow
<1>2. /\ o \in Slots /\ o # s /\ Other(o) = s /\ n \in Nat /\ Depth(o) \in Nat
      /\ calls[s] \in Seq(Call) /\ calls[o] \in Seq(Call) /\ calls \in [Slots -> Seq(Call)]
      /\ DOMAIN calls[o] = 1 .. Depth(o) /\ \A t \in Slots : t = s \/ t = o
  BY <1>1, SlotType, Zenon DEF Slots, Other, Types
<1>3. /\ c \in Call /\ c.pc = "opened" /\ c.window = OpenWindow(s) /\ c.met = met
      /\ c.masked = (s = 0 \/ n > 0)
  <2>1. /\ OpenWindow(s) \in [open : Int, starts : Int]
        /\ {quarantined, leaked, astray, shared_held} \subseteq Int
    BY <1>1, <1>2, Zenon DEF Types, OpenWindow
  <2>2. met \in BOOLEAN /\ (s = 0 \/ Depth(s) > 0) \in BOOLEAN
    OBVIOUS
  <2> HIDE DEF met
  <2> QED
    BY <2>1, <2>2 DEF Call, Pcs
<1>4. /\ UNCHANGED <<free, loan, refused, shared_held, quarantined, leaked, astray, detached, awaiting>>
      /\ windows_open' = [windows_open EXCEPT ![s] = @ + 1]
      /\ window_starts' = [window_starts EXCEPT ![s] = @ + 1]
      /\ Runs(s) \/ (n = 0 /\ s = 0) \/ (n = 0 /\ s = 1 /\ detached = "started")
  BY Zenon DEF OpenSpawnWindow
<1>5. calls'[s] = mine /\ calls'[o] = theirs /\ DOMAIN calls' = Slots
  BY <1>2, Zenon DEF OpenSpawnWindow
<1> HIDE DEF c
<1>6. /\ mine \in Seq(Call) /\ Len(mine) = n + 1 /\ mine[n + 1] = c
      /\ \A d \in 1 .. n : mine[d] = calls[s][d]
  BY <1>2, <1>3 DEF Depth
<1> HIDE DEF mine
<1>7. ASSUME NEW d \in 1 .. Depth(o)
      PROVE  /\ theirs[d] \in Call /\ theirs[d].met = TRUE
             /\ theirs[d].pc = calls[o][d].pc /\ theirs[d].masked = calls[o][d].masked
             /\ theirs[d].window = calls[o][d].window
  <2>1. theirs[d] = [calls[o][d] EXCEPT !.met = TRUE] /\ calls[o][d] \in Call
    BY <1>1, <1>2, SlotType, Zenon
  <2> DEFINE e == calls[o][d]
             f == [e EXCEPT !.met = TRUE]
  <2> HIDE DEF e, theirs
  <2>2. e \in Call
    BY <2>1, Zenon DEF e
  <2>3. f \in Call /\ f.met = TRUE /\ f.pc = e.pc /\ f.masked = e.masked /\ f.window = e.window
    BY <2>2, Zenon DEF Call
  <2> HIDE DEF f
  <2>4. theirs[d] = f
    BY <2>1, Zenon DEF e, f
  <2> QED
    BY <2>3, <2>4, Zenon DEF e
<1>8. theirs \in Seq(Call) /\ Len(theirs) = Depth(o)
  <2>1. DOMAIN theirs = 1 .. Depth(o)
    BY <1>2, Zenon
  <2>2. theirs \in [1 .. Depth(o) -> Call]
    BY <1>2, <1>7, <2>1, Zenon
  <2> HIDE DEF theirs
  <2> QED
    BY <1>2, <2>1, <2>2
<1> HIDE DEF theirs
<1>9. /\ Depth(s)' = n + 1 /\ Top(s)' = c /\ Depth(o)' = Depth(o)
      /\ Depth(o) > 0 => Top(o)'.pc = Top(o).pc /\ Top(o)'.masked = Top(o).masked
  <2>1. Depth(s)' = n + 1 /\ Top(s)' = c /\ Depth(o)' = Depth(o)
    BY <1>2, <1>5, <1>6, <1>8, Zenon DEF Depth, Top
  <2>2. ASSUME Depth(o) > 0
        PROVE  Top(o)'.pc = Top(o).pc /\ Top(o)'.masked = Top(o).masked
    <3>1. Depth(o) \in 1 .. Depth(o)
      BY <1>2, <2>2
    <3>2. Top(o)' = theirs[Depth(o)]
      BY <1>5, <2>1, Zenon DEF Top
    <3> QED
      BY <1>7, <3>1, <3>2, Zenon DEF Top
  <2> QED
    BY <2>1, <2>2, Zenon
<1>10. /\ windows_open'[s] = windows_open[s] + 1 /\ windows_open'[o] = windows_open[o]
       /\ windows_open' \in [Slots -> Int]
       /\ window_starts'[s] = window_starts[s] + 1 /\ window_starts'[o] = window_starts[o]
       /\ window_starts' \in [Slots -> Int]
  BY <1>1, <1>2, <1>4 DEF Types
<1>11. Types'
  <2>1. calls' \in [Slots -> Seq(Call)]
    <3>1. \A t \in Slots : calls'[t] \in Seq(Call)
      BY <1>2, <1>5, <1>6, <1>8, Zenon
    <3>2. calls' = [t \in Slots |-> calls'[t]]
      BY <1>5, ZenonT(60) DEF OpenSpawnWindow
    <3> QED
      BY <3>1, <3>2, Zenon
  <2> QED
    BY <1>1, <1>4, <1>10, <2>1, Zenon DEF Types
<1>12. Nested(s)'
  <2>1. \A d \in 1 .. n : calls'[s][d].pc = "running"
    <3>1. ASSUME NEW d \in 1 .. n
          PROVE  calls[s][d].pc = "running"
      <4>1. d \in 1 .. n - 1 \/ (d = n /\ n # 0)
        BY <1>2
      <4>2. n # 0 => Runs(s)
        BY <1>4, Zenon
      <4> QED
        BY <1>1, <4>1, <4>2, Zenon DEF Nested, Runs, Top
    <3> QED
      BY <1>5, <1>6, <3>1, Zenon
  <2>2. ~c.masked => s = 1 /\ n = 0 /\ awaiting'
    BY <1>1, <1>2, <1>3, <1>4, Zenon DEF Waiting, Slots, Runs
  <2> QED
    BY <1>2, <1>9, <2>1, <2>2, SMTT(30) DEF Nested
<1>13. Nested(o)'
  <2>1. \A d \in 1 .. Depth(o) - 1 : calls'[o][d].pc = "running"
    <3> TAKE d \in 1 .. Depth(o) - 1
    <3>1. d \in 1 .. Depth(o)
      BY <1>2
    <3>2. theirs[d].pc = calls[o][d].pc /\ calls'[o][d] = theirs[d]
      BY <1>5, <1>7, <3>1, Zenon
    <3> QED
      BY <1>1, <3>2, Zenon DEF Nested
  <2>2. ~InKernel(o)'
    BY <1>1, <1>9, Zenon DEF InKernel
  <2> QED
    BY <1>9, <2>1, <2>2, Zenon DEF Nested
<1>14. Waiting'
  <2>1. CASE s = 0
    BY <1>1, <1>2, <1>4, <1>9, <2>1 DEF Waiting, MayRun, Other
  <2>2. CASE s = 1
    BY <1>1, <1>2, <1>4, <1>9, <2>2 DEF Waiting, Other, Runs
  <2> QED
    BY <2>1, <2>2, Zenon DEF Slots
<1>15. Lending'
  <2>1. ~InKernel(o)'
    BY <1>1, <1>9, Zenon DEF InKernel
  <2>2. ~loan
    BY <1>1, <1>4, NotLent DEF Runs
  <2>3. ~\E t \in Slots : Depth(t)' > 0 /\ Top(t)'.pc = "loading"
    BY <1>2, <1>3, <1>9, <2>1, Zenon DEF InKernel
  <2>4. ~(InKernel(0)' /\ InKernel(1)')
    BY <1>2, <2>1, Zenon DEF Slots
  <2> QED
    BY <1>1, <1>4, <2>2, <2>3, <2>4, Zenon DEF Lending
<1>16. Windows(s)'
  <2>1. windows_open'[s] = OpenNow(s)'
    BY <1>1, <1>2, <1>3, <1>4, <1>9, <1>10, SMTT(30) DEF Windows, OpenNow, Runs
  <2>2. windows_open[o] = Depth(o)
    BY <1>1, <1>2, Zenon DEF Windows, OpenNow, InKernel
  <2>3. Knows(c, window_starts[o], windows_open[o])
    <3>1. c.window.open = windows_open[o] /\ c.window.starts = window_starts[o]
          /\ window_starts[o] \in Int
      BY <1>1, <1>2, <1>3 DEF OpenWindow, Types
    <3> QED
      BY <1>2, <1>3, <2>2, <3>1 DEF Knows, Overlapped
  <2>4. ASSUME NEW d \in 1 .. n + 1
        PROVE  Knows(calls'[s][d], window_starts'[o], windows_open'[o])
    <3>1. CASE d = n + 1
      BY <1>5, <1>6, <1>10, <2>3, <3>1, Zenon
    <3>2. CASE d \in 1 .. n
      BY <1>1, <1>5, <1>6, <1>10, <3>2, Zenon DEF Windows
    <3> QED
      BY <1>2, <3>1, <3>2
  <2> QED
    BY <1>9, <2>1, <2>4, Zenon DEF Windows
<1>17. Windows(o)'
  <2>1. windows_open'[o] = OpenNow(o)'
    BY <1>1, <1>9, <1>10, Zenon DEF Windows, OpenNow
  <2>2. ASSUME NEW d \in 1 .. Depth(o)
        PROVE  Knows(calls'[o][d], window_starts'[s], windows_open'[s])
    <3>1. /\ Knows(calls[o][d], window_starts[s], windows_open[s])
          /\ window_starts[s] \in Int /\ calls[o][d].window.starts \in Int
      BY <1>1, <1>2, SlotType, Zenon DEF Windows, Types, Call
    <3>2. calls[o][d].pc # "closed"
      BY <1>1, <1>2 DEF Nested, InKernel, Top
    <3>3. /\ theirs[d].met = TRUE /\ theirs[d].pc = calls[o][d].pc
          /\ theirs[d].window = calls[o][d].window
      BY <1>7, Zenon
    <3>4. Knows(theirs[d], window_starts[s] + 1, windows_open[s] + 1)
      <4> DEFINE w == window_starts[s] + 1
                 f == theirs[d]
      <4>1. calls[o][d].window.starts <= w /\ calls[o][d].window.starts # w
        BY <3>1 DEF Knows
      <4>2. f.window.starts <= w /\ f.window.starts # w /\ f.met = TRUE /\ f.pc # "closed"
        BY <3>2, <3>3, <4>1, Zenon
      <4> HIDE DEF f, w
      <4>3. Overlapped(f, w) = TRUE
        BY <4>2, Zenon DEF Overlapped
      <4>4. Knows(f, w, windows_open[s] + 1)
        BY <4>2, <4>3, ZenonT(60) DEF Knows
      <4> QED
        BY <4>4, Zenon DEF f, w
    <3> QED
      BY <1>5, <1>10, <3>4, Zenon
  <2> QED
    BY <1>2, <1>9, <2>1, <2>2, Zenon DEF Windows
<1> QED
  BY <1>2, <1>11, <1>12, <1>13, <1>14, <1>15, <1>16, <1>17, Zenon DEF IInv

\* A call that returns leaves its caller, which runs, as the innermost; the detached
\* task ends with its only call.
LEMMA ReportStep ==
    ASSUME IInv, NEW s \in Slots, Report(s)
    PROVE  IInv'
<1> DEFINE o == Other(s)
           n == Depth(s)
           rest == SubSeq(calls[s], 1, n - 1)
<1>1. /\ Types /\ Waiting /\ Lending /\ Nested(s) /\ Nested(o) /\ Windows(s) /\ Windows(o)
      /\ MayRun(s) /\ ~InKernel(o) /\ n > 0 /\ Top(s).pc = "closed" /\ Top(s) \in Call
  BY SlotType, Alone, Zenon DEF IInv, Report, At
<1>2. /\ o \in Slots /\ o # s /\ Other(o) = s /\ n \in Nat /\ Depth(o) \in Nat
      /\ calls \in [Slots -> Seq(Call)] /\ \A d \in 1 .. n : calls[s][d] \in Call
      /\ \A t \in Slots : t = s \/ t = o
  BY <1>1, SlotType, Zenon DEF Slots, Other, Types
<1>3. /\ rest \in Seq(Call) /\ Len(rest) = n - 1
      /\ \A d \in 1 .. n - 1 : rest[d] = calls[s][d]
  BY <1>1, <1>2
<1>4. /\ UNCHANGED <<free, loan, refused, shared_held, astray, windows_open, window_starts, awaiting>>
      /\ quarantined' = quarantined + Top(s).held /\ leaked' = leaked + Top(s).spill
      /\ detached' = IF s = 1 /\ n = 1 THEN "finished" ELSE detached
      /\ calls' = [calls EXCEPT ![s] = rest]
  BY Zenon DEF Report, Return
<1> HIDE DEF rest
<1>5. calls' \in [Slots -> Seq(Call)] /\ calls'[s] = rest /\ calls'[o] = calls[o]
  BY <1>2, <1>3, <1>4, Zenon
<1>6. /\ Depth(s)' = n - 1 /\ Depth(o)' = Depth(o)
      /\ Depth(o) > 0 => Top(o)' = Top(o)
  BY <1>3, <1>5, Zenon DEF Depth, Top
<1>7. \A d \in 1 .. n - 1 : calls'[s][d] = calls[s][d] /\ calls'[s][d].pc = "running"
  BY <1>1, <1>3, <1>5, Zenon DEF Nested
<1>8. n - 1 > 0 => Top(s)'.pc = "running"
  <2>1. ASSUME n - 1 > 0 PROVE n - 1 \in 1 .. n - 1
    BY <1>2, <2>1
  <2> QED
    BY <1>6, <1>7, <2>1, Zenon DEF Top
<1>9. ~InKernel(s)' /\ ~InKernel(o)'
  BY <1>1, <1>6, <1>8, Zenon DEF InKernel
<1>10. Types'
  <2>1. quarantined' \in Int /\ leaked' \in Int
    <3>1. quarantined \in Int /\ leaked \in Int
      BY <1>1, Zenon DEF Types
    <3>2. Top(s).held \in Int /\ Top(s).spill \in Int
      BY <1>1, Zenon DEF Call
    <3> QED
      BY <1>4, <3>1, <3>2
  <2>2. detached' \in {"none", "started", "finished"}
    BY <1>1, <1>4, Zenon DEF Types
  <2> QED
    BY <1>1, <1>4, <1>5, <2>1, <2>2, Zenon DEF Types
<1>11. Nested(s)' /\ Nested(o)'
  <2>1. Nested(s)'
    <3>1. ASSUME NEW d \in 1 .. n - 1 - 1
          PROVE  calls'[s][d].pc = "running"
      <4>1. d \in 1 .. n - 1
        BY <1>2, SMTT(30)
      <4> QED
        BY <1>7, <4>1, Zenon
    <3> QED
      BY <1>6, <1>9, <3>1, Zenon DEF Nested
  <2>2. Nested(o)'
    BY <1>1, <1>5, <1>6, <1>9, Zenon DEF Nested
  <2> QED
    BY <2>1, <2>2, Zenon
<1>12. Waiting'
  <2>1. CASE s = 0
    BY <1>1, <1>2, <1>4, <1>6, <2>1, SMTT(30) DEF Waiting, MayRun, Other
  <2>2. CASE s = 1
    <3>1. detached = "started" /\ (detached' = "started" <=> n # 1)
      BY <1>1, <1>2, <1>4, <2>2 DEF Waiting
    <3>2. Depth(1)' = n - 1 /\ Depth(0)' = Depth(0) /\ (Depth(0) > 0 => Top(0)' = Top(0))
      BY <1>6, <2>2 DEF Other
    <3> QED
      BY <1>1, <1>2, <1>4, <3>1, <3>2 DEF Waiting
  <2> QED
    BY <2>1, <2>2, Zenon DEF Slots
<1>13. Lending'
  <2>1. ~loan
    BY <1>1, NotLent, Zenon
  <2>2. ~\E t \in Slots : Depth(t)' > 0 /\ Top(t)'.pc = "loading"
    BY <1>2, <1>9, Zenon DEF InKernel
  <2>3. ~(InKernel(0)' /\ InKernel(1)')
    BY <1>2, <1>9, Zenon DEF Slots
  <2> QED
    BY <1>1, <1>4, <2>1, <2>2, <2>3, Zenon DEF Lending
<1>14. Windows(s)'
  <2>1. windows_open'[s] = OpenNow(s)'
    BY <1>1, <1>2, <1>4, <1>6, <1>8, Zenon DEF Windows, OpenNow
  <2>2. ASSUME NEW d \in 1 .. n - 1
        PROVE  Knows(calls'[s][d], window_starts'[o], windows_open'[o])
    <3>1. d \in 1 .. n
      BY <1>2, SMTT(30)
    <3> QED
      BY <1>1, <1>4, <1>7, <3>1, Zenon DEF Windows
  <2> QED
    BY <1>6, <2>1, <2>2, Zenon DEF Windows
<1>15. Windows(o)'
  <2>1. windows_open'[o] = OpenNow(o)'
    BY <1>1, <1>4, <1>6, Zenon DEF Windows, OpenNow
  <2> QED
    BY <1>1, <1>2, <1>4, <1>5, <1>6, <2>1, Zenon DEF Windows
<1> QED
  BY <1>2, <1>10, <1>11, <1>12, <1>13, <1>14, <1>15, Zenon DEF IInv

\* A descriptor in flight changes counts only.
LEMMA SameKeeps ==
    ASSUME IInv, calls' \in [Slots -> Seq(Call)],
           \A t \in Slots : Depth(t)' = Depth(t),
           \A t \in Slots : \A d \in 1 .. Depth(t) : Same(calls'[t][d], calls[t][d]),
           UNCHANGED <<free, loan, refused, shared_held, quarantined, leaked, astray, windows_open,
                       window_starts, detached, awaiting>>
    PROVE  IInv'
<1>1. /\ Types /\ Waiting /\ Lending /\ 0 \in Slots /\ 1 \in Slots
      /\ \A t \in Slots : Nested(t) /\ Windows(t) /\ Depth(t) \in Nat /\ Other(t) \in Slots
  BY SlotType, Zenon DEF IInv, Slots
<1>2. ASSUME NEW t \in Slots, Depth(t) > 0
      PROVE  Top(t)'.pc = Top(t).pc /\ Top(t)'.masked = Top(t).masked
  <2>1. Depth(t) \in 1 .. Depth(t)
    BY <1>1, <1>2, SlotType, Zenon
  <2> QED
    BY <2>1 DEF Top, Same
<1>3. \A t \in Slots : InKernel(t)' <=> InKernel(t)
  BY <1>2, Zenon DEF InKernel
<1>4. Types' /\ Waiting'
  <2>1. Types'
    BY <1>1, Zenon DEF Types
  <2>2. Waiting'
    BY <1>1, <1>2, Zenon DEF Waiting
  <2> QED
    BY <2>1, <2>2, Zenon
<1>5. Lending'
  BY <1>1, <1>2, <1>3, Zenon DEF Lending
<1>6. ASSUME NEW t \in Slots
      PROVE  Nested(t)' /\ Windows(t)'
  <2>1. ASSUME NEW d \in 1 .. Depth(t) - 1
        PROVE  calls'[t][d].pc = "running"
    <3>1. d \in 1 .. Depth(t)
      BY <1>1, SMTT(30)
    <3>2. calls[t][d].pc = "running"
      BY <1>1, Zenon DEF Nested
    <3> QED
      BY <3>1, <3>2, Zenon DEF Same
  <2>2. Nested(t)'
    BY <1>1, <1>2, <1>3, <2>1, Zenon DEF Nested, InKernel
  <2>3. windows_open'[t] = OpenNow(t)'
    BY <1>1, <1>2, Zenon DEF Windows, OpenNow
  <2>4. ASSUME NEW d \in 1 .. Depth(t)
        PROVE  Knows(calls'[t][d], window_starts'[Other(t)], windows_open'[Other(t)])
    <3>1. Knows(calls[t][d], window_starts[Other(t)], windows_open[Other(t)])
      BY <1>1, Zenon DEF Windows
    <3> DEFINE e == calls'[t][d]
               c == calls[t][d]
    <3>2. Same(e, c) /\ window_starts' = window_starts /\ windows_open' = windows_open
      BY Zenon
    <3>3. /\ e.window = c.window /\ e.met = c.met /\ e.pc = c.pc /\ e.crossed = c.crossed
          /\ Knows(c, window_starts[Other(t)], windows_open[Other(t)])
      BY <3>1, <3>2, Zenon DEF Same
    <3> HIDE DEF e, c
    <3>4. Knows(e, window_starts[Other(t)], windows_open[Other(t)])
      BY <3>3 DEF Knows, Overlapped
    <3> QED
      BY <3>2, <3>4, Zenon DEF e
  <2> QED
    BY <2>2, <2>3, <2>4, Zenon DEF Windows
<1> QED
  BY <1>4, <1>5, <1>6, Zenon DEF IInv

\* One count of one call.
Put(f, t, d, e) == [f EXCEPT ![t][d] = e]

LEMMA EntryChanges ==
    ASSUME NEW f \in [Slots -> Seq(Call)], NEW t \in Slots, NEW d \in 1 .. Len(f[t]),
           NEW e, Same(e, f[t][d])
    PROVE  /\ Put(f, t, d, e) \in [Slots -> Seq(Call)]
           /\ \A u \in Slots : Len(Put(f, t, d, e)[u]) = Len(f[u])
           /\ \A u \in Slots : \A k \in 1 .. Len(f[u]) : Same(Put(f, t, d, e)[u][k], f[u][k])
<1> DEFINE new == [f[t] EXCEPT ![d] = e]
           g == Put(f, t, d, e)
<1>1. f[t] \in Seq(Call) /\ e \in Call
  BY Zenon DEF Same
<1>2. /\ new \in Seq(Call) /\ Len(new) = Len(f[t])
      /\ \A k \in 1 .. Len(f[t]) : new[k] = IF k = d THEN e ELSE f[t][k]
  BY <1>1
<1>3. g = [f EXCEPT ![t] = new]
  BY Zenon DEF Put
<1> HIDE DEF g
<1> HIDE DEF new
<1>4. /\ g \in [Slots -> Seq(Call)] /\ g[t] = new
      /\ \A u \in Slots : u # t => g[u] = f[u]
  BY <1>2, <1>3, Zenon
<1>5. ASSUME NEW u \in Slots, NEW k \in 1 .. Len(f[u])
      PROVE  Same(g[u][k], f[u][k])
  <2>1. f[u][k] \in Call
    OBVIOUS
  <2>2. CASE u = t /\ k = d
    BY <1>2, <1>4, <2>2, Zenon
  <2>3. CASE u # t \/ k # d
    <3>1. g[u][k] = f[u][k]
      BY <1>2, <1>4, <2>3, Zenon
    <3> QED
      BY <2>1, <3>1, Zenon DEF Same
  <2> QED
    BY <2>2, <2>3, Zenon
<1>6. \A u \in Slots : Len(g[u]) = Len(f[u])
  BY <1>2, <1>4, Zenon
<1> QED
  BY <1>4, <1>5, <1>6, Zenon DEF g

LEMMA SendStep ==
    ASSUME IInv, NEW s \in Slots, SendShm(s)
    PROVE  IInv'
<1>1. Types /\ calls \in [Slots -> Seq(Call)] /\ Depth(s) > 0 /\ Top(s) \in Call
      /\ Depth(s) \in 1 .. Len(calls[s])
  BY SlotType, Zenon DEF IInv, Types, SendShm, Calls, At, Depth
<1>2. PICK t \in Slots : \E d \in 1 .. Depth(t) :
          calls' = [calls EXCEPT ![s][Depth(s)].fds = @ - 1, ![t][d].inbox = @ + 1]
  BY Zenon DEF SendShm
<1>3. PICK d \in 1 .. Depth(t) :
          calls' = [calls EXCEPT ![s][Depth(s)].fds = @ - 1, ![t][d].inbox = @ + 1]
  BY <1>2, Zenon
<1> DEFINE n == Depth(s)
           sent == [calls[s][n] EXCEPT !.fds = @ - 1]
           f == Put(calls, s, n, sent)
           got == [f[t][d] EXCEPT !.inbox = @ + 1]
           g == Put(f, t, d, got)
<1>4. calls' = g
  BY <1>3, Zenon DEF Put
<1>5. Same(sent, calls[s][n])
  <2>1. calls[s][n] \in Call
    BY <1>1, Zenon DEF Top
  <2> QED
    BY <2>1 DEF Same, Call
<1> HIDE DEF sent
<1>6. /\ f \in [Slots -> Seq(Call)] /\ \A u \in Slots : Len(f[u]) = Len(calls[u])
      /\ \A u \in Slots : \A k \in 1 .. Len(calls[u]) : Same(f[u][k], calls[u][k])
  BY <1>1, <1>5, EntryChanges, SMTT(30)
<1> HIDE DEF f
<1>7. Same(got, f[t][d])
  <2>1. f[t][d] \in Call
    BY <1>6, Zenon DEF Same, Depth
  <2> QED
    BY <2>1 DEF Same, Call
<1> HIDE DEF got
<1>8. /\ g \in [Slots -> Seq(Call)] /\ \A u \in Slots : Len(g[u]) = Len(f[u])
      /\ \A u \in Slots : \A k \in 1 .. Len(f[u]) : Same(g[u][k], f[u][k])
  <2>1. d \in 1 .. Len(f[t])
    BY <1>6, Zenon DEF Depth
  <2>2. f \in [Slots -> Seq(Call)]
    BY <1>6, Zenon
  <2> QED
    BY <1>7, <2>1, <2>2, EntryChanges, SMTT(30)
<1> HIDE DEF g
<1>9. /\ calls' \in [Slots -> Seq(Call)] /\ \A u \in Slots : Depth(u)' = Depth(u)
      /\ \A u \in Slots : \A k \in 1 .. Depth(u) : Same(calls'[u][k], calls[u][k])
  <2>1. calls' \in [Slots -> Seq(Call)] /\ \A u \in Slots : Depth(u)' = Depth(u)
    BY <1>4, <1>6, <1>8, Zenon DEF Depth
  <2>2. ASSUME NEW u \in Slots, NEW k \in 1 .. Depth(u)
        PROVE  Same(calls'[u][k], calls[u][k])
    <3>1. Same(g[u][k], f[u][k]) /\ Same(f[u][k], calls[u][k])
      BY <1>6, <1>8, Zenon DEF Depth
    <3> QED
      BY <1>4, <3>1, Zenon DEF Same
  <2> QED
    BY <2>1, <2>2, Zenon
<1> QED
  BY <1>9, SameKeeps, Zenon DEF SendShm, Calls

----------------------------------------------------------------------------
\* The three steps by which slot 0 starts the detached task, sees it enter Ring 3 and
\* collects it move no call.
LEMMA DetachStep ==
    ASSUME IInv, SpawnDetached \/ ChildHasEntered \/ WaitChild
    PROVE  IInv'
<1>1. /\ Types /\ Waiting /\ Lending /\ Nested(0) /\ Nested(1) /\ Windows(0) /\ Windows(1)
      /\ Depth(0) \in Nat /\ Depth(1) \in Nat
  BY SlotType, Zenon DEF IInv, Slots
<1>2. /\ UNCHANGED <<calls, windows_open, window_starts>> /\ UNCHANGED <<loan, refused>>
      /\ UNCHANGED <<free, shared_held, quarantined, leaked, astray>>
  BY Zenon DEF SpawnDetached, ChildHasEntered, WaitChild, Calls
<1>3. /\ Depth(0)' = Depth(0) /\ Depth(1)' = Depth(1) /\ Top(0)' = Top(0) /\ Top(1)' = Top(1)
      /\ InKernel(0)' = InKernel(0) /\ InKernel(1)' = InKernel(1)
  BY <1>2, Zenon DEF Depth, Top, InKernel
<1>4. Types'
  <2>1. awaiting' \in BOOLEAN /\ detached' \in {"none", "started", "finished"}
    BY <1>1, Zenon DEF Types, SpawnDetached, ChildHasEntered, WaitChild
  <2> QED
    BY <1>1, <1>2, <2>1, Zenon DEF Types
<1>5. Lending' /\ Windows(0)' /\ Windows(1)'
  <2>1. Lending'
    BY <1>1, <1>2, <1>3, Zenon DEF Lending, Slots
  <2>2. Windows(0)' /\ Windows(1)'
    BY <1>1, <1>2, <1>3, Zenon DEF Windows, OpenNow
  <2> QED
    BY <2>1, <2>2, Zenon
<1>6. Nested(0)'
  BY <1>1, <1>2, <1>3 DEF Nested
<1>7. CASE SpawnDetached
  <2>1. /\ detached = "none" /\ detached' = "started" /\ awaiting' = TRUE
        /\ Depth(0) > 0 /\ Top(0).pc = "running"
    BY <1>7, Zenon DEF SpawnDetached, Calls, At
  <2>2. Waiting' /\ Nested(1)'
    BY <1>1, <1>2, <1>3, <2>1, Zenon DEF Waiting, Nested
  <2> QED
    BY <1>4, <1>5, <1>6, <2>2, Zenon DEF IInv, Slots
<1>8. CASE ChildHasEntered
  <2>1. /\ detached' = detached /\ awaiting' = FALSE
        /\ detached = "finished" \/ \E d \in 1 .. Depth(1) : calls[1][d].pc = "running"
    BY <1>8, Zenon DEF ChildHasEntered
  <2>2. ~(InKernel(1) /\ ~Top(1).masked)
    BY <1>1, <2>1 DEF Waiting, Nested, InKernel, Top
  <2>3. ~(detached = "started" /\ Depth(1) = 0)
    BY <1>1, <2>1, SMTT(30)
  <2>4. Waiting' /\ Nested(1)'
    BY <1>1, <1>2, <1>3, <2>1, <2>2, <2>3, Zenon DEF Waiting, Nested
  <2> QED
    BY <1>4, <1>5, <1>6, <2>4, Zenon DEF IInv, Slots
<1>9. CASE WaitChild
  <2>1. detached = "finished" /\ detached' = "none" /\ awaiting' = awaiting
    BY <1>9, Zenon DEF WaitChild
  <2>2. Waiting' /\ Nested(1)'
    BY <1>1, <1>2, <1>3, <2>1, Zenon DEF Waiting, Nested
  <2> QED
    BY <1>4, <1>5, <1>6, <2>2, Zenon DEF IInv, Slots
<1> QED
  BY <1>7, <1>8, <1>9, Zenon

LEMMA InitHolds == Init => IInv
<1> SUFFICES ASSUME Init PROVE IInv
  BY Zenon
<1>1. calls = [s \in Slots |-> <<>>] /\ <<>> \in Seq(Call)
  BY DEF Init
<1>2. \A s \in Slots : Depth(s) = 0
  BY <1>1, Zenon DEF Depth
<1>3. Types
  <2>1. {free, shared_held, quarantined, leaked, astray} \subseteq Int
    BY BoundsAssumption DEF Init
  <2>2. windows_open \in [Slots -> Int] /\ window_starts \in [Slots -> Int]
    BY DEF Init
  <2>3. calls \in [Slots -> Seq(Call)]
    BY <1>1, Zenon
  <2> QED
    BY <2>1, <2>2, <2>3, Zenon DEF Init, Types
<1>4. Waiting /\ Lending
  BY <1>2 DEF Init, Waiting, Lending, InKernel, Slots
<1>5. \A s \in Slots : Nested(s) /\ Windows(s)
  BY <1>2 DEF Init, Nested, Windows, InKernel, OpenNow
<1> QED
  BY <1>3, <1>4, <1>5, Zenon DEF IInv

LEMMA StepKeeps == IInv /\ [Next]_vars => IInv'
<1> SUFFICES ASSUME IInv, [Next]_vars PROVE IInv'
  BY Zenon
<1>1. CASE UNCHANGED vars
  BY <1>1, Zenon DEF vars, IInv, Types, Waiting, Lending, Nested, Windows, InKernel, OpenNow, Depth, Top
<1>2. ASSUME NEW s \in Slots,
             \/ CountBefore(s) \/ BeginLoad(s) \/ Load(s) \/ LoadFailsHalfway(s)
             \/ LoadLosesPage(s) \/ LoadFails(s)
             \/ LeaveExcursion(s) \/ Destroy(s) \/ CountAfter(s) \/ BrkGrows(s) \/ BrkShrinks(s)
             \/ SetSize(s) \/ Mmap(s) \/ CloseShm(s) \/ ReceiveShm(s)
      PROVE  IInv'
  BY <1>2, TouchStep, Zenon
<1>3. ASSUME NEW s \in Slots, OpenSpawnWindow(s) PROVE IInv'
  BY <1>3, OpenStep, Zenon
<1>4. ASSUME NEW s \in Slots, CloseSpawnWindow(s) PROVE IInv'
  BY <1>4, CloseStep, Zenon
<1>5. ASSUME NEW s \in Slots, Report(s) PROVE IInv'
  BY <1>5, ReportStep, Zenon
<1>6. ASSUME NEW s \in Slots, SendShm(s) PROVE IInv'
  BY <1>6, SendStep, Zenon
<1>7. CASE SpawnDetached \/ ChildHasEntered \/ WaitChild
  BY <1>7, DetachStep, Zenon
<1> QED
  BY <1>1, <1>2, <1>3, <1>4, <1>5, <1>6, <1>7, Zenon DEF Next

\* The inductive invariant holds.
THEOREM SpawnInvariant == Spec => []IInv
  BY InitHolds, StepKeeps, PTL DEF Spec

\* Nobody ever asks for the frame allocator while it is on loan, whatever the number of
\* frames, of windows and of nested calls.
THEOREM NeverRefused == Spec => []NobodyRefused
<1>1. IInv => NobodyRefused
  BY Zenon  DEF IInv, Lending, NobodyRefused
<1> QED
  BY <1>1, SpawnInvariant, PTL

\* The judgement of close_spawn_window is exact: a window counts as crossed if and only
\* if a window of the other slot was open at some moment of it.
THEOREM CrossedExactly == Spec => []CrossedIsOverlap
<1>1. IInv => CrossedIsOverlap
  <2> SUFFICES ASSUME IInv, NEW s \in Slots, Depth(s) > 0, Top(s).pc = "closed"
               PROVE  Top(s).crossed = Top(s).met
    BY Zenon  DEF CrossedIsOverlap, Closed
  <2>1. Depth(s) \in 1 .. Depth(s) /\ Windows(s)
    BY SlotType, Zenon DEF IInv
  <2> QED
    BY <2>1, Zenon DEF Windows, Knows, Top
<1> QED
  BY <1>1, SpawnInvariant, PTL
=============================================================================
