-------------------------- MODULE SpawnLedgerProofs --------------------------
(***************************************************************************)
(* The accounts of spawn: the difference of an uncrossed window is its own *)
(* child's, and every space is collected, for every number of frames,      *)
(* windows and levels.  SpawnAccountingProofs says when a call can move    *)
(* and what it has met; the ledger kept here says where the frames are.    *)
(* First the steps within a call keep it, then the steps between calls: a  *)
(* call opens, a call returns to its caller, a descriptor changes hands.   *)
(***************************************************************************)
EXTENDS SpawnAccountingProofs

\* The accounts.  Frames only move between the allocator, the shared objects, the spaces
\* and the quarantine, so their sum does not change.

Done == {"gone", "closing", "closed"}

\* The frames of a call's child: those of its space, or those its destruction collected.
Own(c) == IF c.pc \in Done THEN c.held + c.spill ELSE c.tables + c.leaves

\* The frames outside the spaces, now and when a call counted them.
Total == free + shared_held + quarantined + leaked + astray
Before(c) == (IF c.pc = "opened" THEN free ELSE c.free) + c.shared + c.children + c.lost + c.strays

\* As long as the space grows its counts agree with what is linked into it: those of the
\* loader, and those of brk and mmap, in which brk finds the pages it gives back.  So a
\* call whose child is gone has collected all its child took.
Whole(c) ==
    /\ c.tables \in Nat /\ c.leaves \in Nat /\ c.heap \in Nat /\ c.counted \in Nat /\ c.post \in Nat
    /\ c.counted + c.post = c.tables + c.leaves /\ c.heap <= c.post /\ c.heap <= c.leaves
    /\ c.fds \in Nat /\ c.inbox \in Nat /\ c.held \in Nat /\ c.spill \in Nat
    /\ c.children <= quarantined /\ c.lost <= leaked /\ c.strays <= astray
    /\ c.pc \in {"opened", "counted", "loading"} => c.tables + c.leaves = 0
    /\ c.held + c.spill = c.taken
    /\ c.pc \notin Done => c.taken = 0

\* The difference a call computed is its child's and its child's children's.
Judged(c) ==
    c.pc \in {"closing", "closed"} =>
        c.consumed = (c.held + c.spill)
                     + (((quarantined - c.children) + (leaked - c.lost)) + (astray - c.strays))

\* The innermost call: what was there before is there now but for its child's frames, and
\* kept of the shared frames stay when its child goes.
Innermost(c, kept) ==
    /\ Before(c) = Total + Own(c)
    /\ kept + (c.fds + c.inbox) <= shared_held
    /\ Judged(c)

\* A call that waits for the call e of its child: likewise, with what e counted.
Waits(c, e, kept, left) ==
    /\ ~e.met
    /\ Before(c) = Before(e) + Own(c)
    /\ kept + (c.fds + c.inbox) <= left

\* A call that met no other slot's window.
Account(s, d, v) ==
    /\ Depth(Other(s)) = 0
    /\ calls[s][d].shared <= v[d]
    /\ d < Depth(s) => Waits(calls[s][d], calls[s][d + 1], v[d], v[d + 1])
    /\ d = Depth(s) => Innermost(calls[s][d], v[d])

\* v[d] of the shared frames stay when the calls of s from level d on have ended.
Ledger(s) ==
    /\ \A d \in 1 .. Depth(s) : Whole(calls[s][d])
    /\ \E v \in [1 .. Depth(s) -> Int] :
           \A d \in 1 .. Depth(s) : ~calls[s][d].met => Account(s, d, v)

AInv == \A s \in Slots : Ledger(s)

----------------------------------------------------------------------------
\* The counts of a call are integers.
LEMMA Counts ==
    ASSUME NEW c \in Call
    PROVE  /\ c.children \in Int /\ c.lost \in Int /\ c.strays \in Int /\ c.free \in Int
           /\ c.shared \in Int /\ c.tables \in Int /\ c.leaves \in Int /\ c.heap \in Int
           /\ c.counted \in Int /\ c.post \in Int /\ c.fds \in Int
           /\ c.inbox \in Int /\ c.held \in Int /\ c.spill \in Int /\ c.taken \in Int
           /\ c.consumed \in Int /\ c.met \in BOOLEAN /\ c.pc \in Pcs
  BY Zenon DEF Call

\* So are the totals.
LEMMA Totals ==
    ASSUME Types
    PROVE  /\ free \in Int /\ shared_held \in Int /\ quarantined \in Int /\ leaked \in Int
           /\ astray \in Int
  BY Zenon DEF Types

\* What has been put into the quarantine or lost never shrinks.
Grows == quarantined <= quarantined' /\ leaked <= leaked' /\ astray <= astray'

LEMMA WholeStays ==
    ASSUME Types, Types', NEW c \in Call, Whole(c), Grows
    PROVE  Whole(c)'
<1>1. /\ c.children \in Int /\ c.lost \in Int /\ c.strays \in Int
      /\ quarantined \in Int /\ leaked \in Int /\ quarantined' \in Int /\ leaked' \in Int
      /\ astray \in Int /\ astray' \in Int
  BY Counts, Totals, Zenon DEF Types
<1>2. c.children <= quarantined /\ c.lost <= leaked /\ c.strays <= astray
  BY Zenon DEF Whole
<1>3. c.children <= quarantined' /\ c.lost <= leaked' /\ c.strays <= astray'
  BY <1>1, <1>2 DEF Grows
<1> QED
  BY <1>3, Zenon DEF Whole

\* While a slot has a call, the other slot's calls have all met a window.
LEMMA OtherLedger ==
    ASSUME Types, Types', AInv, NEW s \in Slots, Depth(s) > 0, calls'[Other(s)] = calls[Other(s)], Grows
    PROVE  Ledger(Other(s))'
<1> DEFINE o == Other(s)
<1>1. /\ o \in Slots /\ Other(o) = s /\ Depth(o) \in Nat /\ Depth(s) \in Nat
      /\ \A d \in 1 .. Depth(o) : calls[o][d] \in Call
  BY SlotType, Zenon
<1>2. Depth(o)' = Depth(o)
  BY Zenon DEF Depth
<1>3. PICK v \in [1 .. Depth(o) -> Int] :
          \A d \in 1 .. Depth(o) : ~calls[o][d].met => Account(o, d, v)
  BY <1>1, Zenon DEF AInv, Ledger
<1>4. ASSUME NEW d \in 1 .. Depth(o)
      PROVE  calls[o][d].met
  BY <1>1, <1>3 DEF Account
<1>5. ASSUME NEW d \in 1 .. Depth(o)
      PROVE  Whole(calls[o][d])'
  <2>1. calls[o][d] \in Call /\ Whole(calls[o][d])
    BY <1>1, Zenon DEF AInv, Ledger
  <2> DEFINE c == calls[o][d]
  <2>2. c' = c
    BY Zenon
  <2> HIDE DEF c
  <2> QED
    BY <2>1, <2>2, WholeStays, Zenon DEF c
<1> QED
  BY <1>2, <1>3, <1>4, <1>5, Zenon DEF Ledger

\* The innermost call becomes c, and frames move only between the allocator, the shared
\* objects and the space of its child.
Moves(s, c) ==
    /\ c.met = Top(s).met /\ c.shared = Top(s).shared
    /\ Before(c)' = Before(Top(s))
    /\ Total' + Own(c) = Total + Own(Top(s))
    /\ (c.fds + c.inbox) - shared_held' <= (Top(s).fds + Top(s).inbox) - shared_held

\* The quarantine stays, and only a load that fails loses a page.
Strayed(c) ==
    /\ UNCHANGED <<quarantined, leaked>>
    /\ astray' = astray \/ (c.pc = "left" /\ astray' = astray + 1)

\* A step within the innermost call that moves frames in this way keeps the accounts.
LEMMA InnermostMoves ==
    ASSUME IInv, IInv', AInv, NEW s \in Slots, Depth(s) > 0, NEW c, Becomes(s, c),
           Moves(s, c), Strayed(c), Whole(c), ~c.met => Judged(c)
    PROVE  AInv'
<1> DEFINE o == Other(s)
<1>m. /\ c.met = Top(s).met /\ c.shared = Top(s).shared
      /\ Before(c)' = Before(Top(s)) /\ Total' + Own(c) = Total + Own(Top(s))
      /\ (c.fds + c.inbox) - shared_held' <= (Top(s).fds + Top(s).inbox) - shared_held
  BY Zenon DEF Moves
<1>0. PICK n \in Nat : n = Depth(s)
  BY SlotType, Zenon DEF IInv
<1>1. /\ Types /\ Types' /\ Nested(s)
      /\ o \in Slots /\ o # s /\ Other(o) = s /\ n \in Nat /\ n \in 1 .. n /\ Depth(o) \in Nat
      /\ calls[s] \in Seq(Call) /\ \A d \in 1 .. n : calls[s][d] \in Call
      /\ \A t \in Slots : t = s \/ t = o
  BY <1>0, SlotType, Zenon DEF IInv, Slots, Other
<1>2. /\ calls'[o] = calls[o] /\ calls'[s] = [calls[s] EXCEPT ![n] = c]
      /\ DOMAIN calls[s] = 1 .. n /\ calls'[s] \in Seq(Call)
  BY <1>0, <1>1, SlotType, Zenon DEF Becomes, Types
<1>3. /\ calls'[s][n] = c /\ Depth(s)' = n /\ Depth(o)' = Depth(o)
      /\ \A d \in 1 .. n - 1 : calls'[s][d] = calls[s][d]
  <2>1. calls'[s][n] = c /\ \A d \in 1 .. n - 1 : calls'[s][d] = calls[s][d]
    BY <1>1, <1>2
  <2>2. Len(calls'[s]) \in Nat /\ 1 .. Len(calls'[s]) = 1 .. n
    BY <1>2
  <2>3. Len(calls'[s]) = n
    BY <1>1, <2>2
  <2> QED
    BY <1>2, <2>1, <2>3, Zenon DEF Depth
<1>4. c \in Call
  BY <1>1, <1>2, <1>3 DEF Depth
<1>g. Grows
  <2>1. quarantined \in Int /\ leaked \in Int /\ astray \in Int
    BY <1>1, Totals, Zenon
  <2> QED
    BY <2>1 DEF Strayed, Grows
<1>5. Ledger(o)'
  BY <1>1, <1>2, <1>g, OtherLedger, Zenon
<1>6. ASSUME NEW d \in 1 .. n
      PROVE  Whole(calls[s][d])'
  <2>1. CASE d = n
    <3>1. Whole(c)'
      BY <1>1, <1>4, <1>g, WholeStays, Zenon
    <3> QED
      BY <1>3, <2>1, <3>1, Zenon
  <2>2. CASE d \in 1 .. n - 1
    <3>1. PICK b \in Call : b = calls[s][d]
      BY <1>1, Zenon
    <3>2. Whole(b)
      BY <1>0, <3>1, Zenon DEF AInv, Ledger
    <3>3. Whole(b)'
      BY <1>1, <1>g, <3>2, WholeStays, Zenon
    <3> QED
      BY <1>3, <2>2, <3>1, <3>3, Zenon
  <2> QED
    BY <1>1, <2>1, <2>2
<1>7. PICK v \in [1 .. n -> Int] : \A d \in 1 .. n : ~calls[s][d].met => Account(s, d, v)
  BY <1>0, Zenon DEF AInv, Ledger
<1>8. ASSUME NEW d \in 1 .. n, ~calls'[s][d].met
      PROVE  Account(s, d, v)'
  <2>1. ~calls[s][d].met /\ Account(s, d, v)
    <3>1. CASE d = n
      BY <1>0, <1>3, <1>7, <1>8, <1>m, <3>1, Zenon DEF Top
    <3>2. CASE d \in 1 .. n - 1
      BY <1>3, <1>7, <1>8, <3>2, Zenon
    <3> QED
      BY <1>1, <3>1, <3>2
  <2>2. Depth(o)' = 0
    BY <1>3, <2>1, Zenon DEF Account
  <2>3. CASE d = n
    <3>1. Innermost(Top(s), v[n]) /\ Top(s).shared <= v[n]
      BY <1>0, <2>1, <2>3, Zenon DEF Account, Top
    <3>2. Innermost(c, v[n])'
      <4>1. v[n] \in Int /\ shared_held \in Int /\ shared_held' \in Int
        BY <1>1, <1>7, Totals, Zenon DEF Types
      <4>2. c.fds \in Int /\ c.inbox \in Int /\ Top(s).fds \in Int /\ Top(s).inbox \in Int
        BY <1>0, <1>1, <1>4, Counts, Zenon DEF Top
      <4>3. v[n] + (c.fds + c.inbox) <= shared_held'
        <5> DEFINE a == c.fds + c.inbox
                   b == Top(s).fds + Top(s).inbox
                   w == v[n]
                   x == shared_held
                   y == shared_held'
        <5>1. a \in Int /\ b \in Int /\ w \in Int /\ x \in Int /\ y \in Int
          BY <4>1, <4>2, SMTT(30)
        <5>2. w + b <= x /\ a - y <= b - x
          BY <1>m, <3>1, Zenon DEF Innermost
        <5> HIDE DEF a, b, w, x, y
        <5>3. w + a <= y
          BY <5>1, <5>2
        <5> QED
          BY <5>3, Zenon DEF a, w, y
      <4>4. Before(c)' = Total' + Own(c)
        BY <1>m, <3>1, Zenon DEF Innermost
      <4>5. Judged(c)'
        BY <1>3, <1>8, <2>3, Zenon DEF Judged, Strayed
      <4> QED
        BY <4>3, <4>4, <4>5, Zenon DEF Innermost, Own
    <3> QED
      BY <1>1, <1>3, <1>m, <2>2, <2>3, <3>1, <3>2 DEF Account
  <2>4. CASE d \in 1 .. n - 1
    <3>b. PICK b : b = calls[s][d]
      BY Zenon
    <3>e. PICK e : e = calls[s][d + 1]
      BY Zenon
    <3>1. Waits(b, e, v[d], v[d + 1]) /\ b.shared <= v[d] /\ d + 1 \in 1 .. n /\ d < n
      BY <1>0, <1>1, <2>1, <2>4, <3>b, <3>e DEF Account
    <3>2. b.pc = "running" /\ calls'[s][d] = b
      BY <1>0, <1>1, <1>3, <2>4, <3>b, Zenon DEF Nested
    <3>3. Before(b) = b.free + b.shared + b.children + b.lost + b.strays
      BY <3>2, Zenon DEF Before
    <3>4. Before(b)' = Before(b) /\ Own(b)' = Own(b)
      BY <3>2, <3>3, Zenon DEF Before, Own
    <3>5. Waits(calls[s][d], calls[s][d + 1], v[d], v[d + 1])'
      <4>1. CASE d + 1 = n
        <5>1. calls'[s][d + 1] = c /\ e = Top(s)
          BY <1>0, <1>3, <3>e, <4>1, Zenon DEF Top
        <5>2. (Before(b)' = Before(c)' + Own(b)) /\ ~c.met
          BY <1>m, <3>1, <3>4, <5>1, Zenon DEF Waits
        <5>3. (Waits(b, c, v[d], v[d + 1]))'
          BY <3>1, <5>2, Zenon DEF Waits
        <5> QED
          BY <3>2, <5>1, <5>3, Zenon
      <4>2. CASE d + 1 \in 1 .. n - 1
        <5>1. calls'[s][d + 1] = e /\ e.pc = "running"
          BY <1>0, <1>1, <1>3, <3>e, <4>2, Zenon DEF Nested
        <5>2. Before(e)' = Before(e)
          BY <5>1, Zenon DEF Before
        <5> QED
          BY <3>1, <3>2, <3>4, <5>1, <5>2, Zenon DEF Waits
      <4> QED
        BY <1>1, <3>1, <4>1, <4>2
    <3> QED
      BY <1>3, <2>2, <3>1, <3>2, <3>5 DEF Account
  <2> QED
    BY <1>1, <2>3, <2>4
<1>9. Ledger(s)'
  BY <1>3, <1>6, <1>7, <1>8, Zenon DEF Ledger
<1> QED
  BY <1>1, <1>5, <1>9, Zenon DEF AInv

\* What the accounts say of the innermost call.
LEMMA WholeTop ==
    ASSUME Types, AInv, NEW s \in Slots, Depth(s) > 0
    PROVE  /\ Whole(Top(s)) /\ Top(s).pc \in Pcs
           /\ ~Top(s).met => \E kept \in Int : Innermost(Top(s), kept) /\ Top(s).shared <= kept
<1>1. Depth(s) \in 1 .. Depth(s) /\ Top(s) \in Call /\ Ledger(s)
  BY SlotType, Zenon DEF AInv
<1>2. Whole(Top(s)) /\ Top(s).pc \in Pcs
  BY <1>1, Zenon DEF Ledger, Top, Call
<1>3. PICK v \in [1 .. Depth(s) -> Int] :
          \A d \in 1 .. Depth(s) : ~calls[s][d].met => Account(s, d, v)
  BY <1>1, Zenon DEF Ledger
<1>4. ASSUME ~Top(s).met
      PROVE  Innermost(Top(s), v[Depth(s)]) /\ Top(s).shared <= v[Depth(s)]
  BY <1>1, <1>3, <1>4, Zenon DEF Account, Top
<1>5. v[Depth(s)] \in Int
  BY <1>1, <1>3, Zenon
<1> QED
  BY <1>2, <1>4, <1>5, Zenon

\* What a step within a call leaves as it was: all but the space, the descriptors and the
\* counts of the window itself.
Fixed(c, r) ==
    /\ c.met = r.met /\ c.shared = r.shared
    /\ c.children = r.children /\ c.lost = r.lost /\ c.strays = r.strays
    /\ c.held = r.held /\ c.spill = r.spill /\ c.taken = r.taken
SameSpace(c, r) ==
    /\ c.tables = r.tables /\ c.leaves = r.leaves /\ c.heap = r.heap
    /\ c.counted = r.counted /\ c.post = r.post
SameFds(c, r) == c.fds = r.fds /\ c.inbox = r.inbox

\* No frame moves.
LEMMA QuietMoves ==
    ASSUME Types, NEW s \in Slots, NEW r \in Call, r = Top(s), NEW c, Fixed(c, r), SameFds(c, r),
           Own(c) = Own(r), Before(c)' = Before(r),
           UNCHANGED <<free, shared_held, quarantined, leaked, astray>>
    PROVE  Moves(s, c)
<1>1. r.fds \in Int /\ r.inbox \in Int /\ shared_held \in Int
  BY Counts, Totals, Zenon
<1>2. (r.fds + r.inbox) - shared_held <= (r.fds + r.inbox) - shared_held
  BY <1>1
<1>3. Total' = Total
  BY Zenon DEF Total
<1> QED
  BY <1>2, <1>3, Zenon DEF Moves, Fixed, SameFds

\* What the space and the shared objects gain the allocator loses, but for a page that is lost.
LEMMA SpaceMoves ==
    ASSUME Types, Types', NEW s \in Slots, NEW r \in Call, NEW c, r = Top(s),
           r.pc \in {"loading", "running"}, c.pc \in {"running", "left"}, c.free = r.free,
           Fixed(c, r), UNCHANGED <<quarantined, leaked>>, c.tables + c.leaves \in Int,
           (free' + shared_held' + astray') + (c.tables + c.leaves)
               = (free + shared_held + astray) + (r.tables + r.leaves),
           (c.fds + c.inbox) - shared_held' <= (r.fds + r.inbox) - shared_held
    PROVE  Moves(s, c)
<1>1. Before(c)' = Before(r)
  BY Zenon DEF Before, Fixed
<1>2. Own(c) = c.tables + c.leaves /\ Own(r) = r.tables + r.leaves
  BY Zenon DEF Own, Done
<1>3. PICK f \in Int, h \in Int, a \in Int, f1 \in Int, h1 \in Int, a1 \in Int, q \in Int, l \in Int :
          /\ f = free /\ h = shared_held /\ a = astray /\ f1 = free' /\ h1 = shared_held'
          /\ a1 = astray' /\ q = quarantined /\ l = leaked
  BY Zenon DEF Types
<1>4. PICK x \in Int, y \in Int : x = c.tables + c.leaves /\ y = r.tables + r.leaves
  BY Counts
<1>5. (f1 + h1 + a1) + x = (f + h + a) + y
  BY <1>3, <1>4, Zenon
<1>6. ((f1 + h1 + q + l + a1) + x) = ((f + h + q + l + a) + y)
  BY <1>5
<1>7. Total' + Own(c) = Total + Own(r)
  BY <1>2, <1>3, <1>4, <1>6, Zenon DEF Total
<1> QED
  BY <1>1, <1>7, Zenon DEF Moves, Fixed

\* The space stays as it was counted, and nothing of it is collected yet.
LEMMA SpaceWhole ==
    ASSUME NEW r, NEW c, Whole(r), r.pc \in {"loading", "running"}, c.pc \in {"running", "left"},
           Fixed(c, r), c.fds \in Nat, c.inbox \in Nat,
           c.tables \in Nat, c.leaves \in Nat, c.heap \in Nat, c.counted \in Nat, c.post \in Nat,
           c.counted + c.post = c.tables + c.leaves, c.heap <= c.post, c.heap <= c.leaves
    PROVE  Whole(c) /\ (~c.met => Judged(c))
  BY Zenon DEF Whole, Judged, Done, Fixed

\* What the loader mapped it has counted.
Maps(c, r, t, p, pc) ==
    /\ c.pc = pc /\ c.free = r.free /\ Fixed(c, r) /\ SameFds(c, r)
    /\ c.tables = r.tables + t /\ c.leaves = r.leaves + p /\ c.heap = r.heap
    /\ c.counted = r.counted + t + p /\ c.post = r.post

LEMMA MappedIs ==
    ASSUME NEW r \in Call, NEW t \in Int, NEW p \in Int, NEW pc, NEW c, c = [Mapped(r, t, p) EXCEPT !.pc = pc]
    PROVE  Maps(c, r, t, p, pc)
<1>1. PICK m : m = Mapped(r, t, p)
  BY Zenon
<1>2. /\ m.free = r.free /\ Fixed(m, r) /\ SameFds(m, r)
      /\ m.tables = r.tables + t /\ m.leaves = r.leaves + p /\ m.heap = r.heap
      /\ m.counted = r.counted + t + p /\ m.post = r.post
  BY <1>1, Zenon DEF Mapped, Fixed, SameFds, Call
<1>3. c = [m EXCEPT !.pc = pc] /\ m \in Call
  BY <1>1, MappedSame, Zenon DEF Same
<1>4. /\ c.pc = pc /\ c.free = m.free /\ Fixed(c, m) /\ SameFds(c, m) /\ SameSpace(c, m)
  BY <1>3, Zenon DEF Call, Fixed, SameFds, SameSpace
<1> QED
  BY <1>2, <1>4, Zenon DEF Maps, Fixed, SameFds, SameSpace

\* The loader maps some tables and pages, and may lose a page.
LEMMA MappedAccounts ==
    ASSUME IInv, IInv', AInv, NEW s \in Slots, At(s, "loading"), NEW t \in Nat, NEW p \in Nat,
           NEW pc \in {"running", "left"}, Becomes(s, [Mapped(Top(s), t, p) EXCEPT !.pc = pc]),
           UNCHANGED <<shared_held, quarantined, leaked>>,
           astray' = astray \/ (pc = "left" /\ astray' = astray + 1),
           (free' + astray') + (t + p) = free + astray
    PROVE  AInv'
<1>1. Types /\ Types' /\ Depth(s) > 0 /\ Top(s).pc = "loading"
  BY Zenon DEF IInv, At
<1>2. PICK r \in Call : r = Top(s) /\ r.pc = "loading"
  BY <1>1, SlotType, Zenon
<1>3. Whole(r)
  BY <1>1, <1>2, WholeTop, Zenon
<1>4. /\ r.tables \in Nat /\ r.leaves \in Nat /\ r.heap \in Nat /\ r.counted \in Nat /\ r.post \in Nat
      /\ r.counted + r.post = r.tables + r.leaves /\ r.heap <= r.post /\ r.heap <= r.leaves
      /\ r.fds \in Nat /\ r.inbox \in Nat
  BY <1>3, Zenon DEF Whole
<1>5. PICK c : c = [Mapped(r, t, p) EXCEPT !.pc = pc]
  BY Zenon
<1>6. /\ c.pc = pc /\ c.free = r.free /\ Fixed(c, r) /\ SameFds(c, r)
      /\ c.tables = r.tables + t /\ c.leaves = r.leaves + p /\ c.heap = r.heap
      /\ c.counted = r.counted + t + p /\ c.post = r.post
  <2>1. t \in Int /\ p \in Int
    OBVIOUS
  <2>2. Maps(c, r, t, p, pc)
    BY <1>5, <2>1, MappedIs, Zenon
  <2> QED
    BY <2>2, Zenon DEF Maps
<1>7. Whole(c) /\ (~c.met => Judged(c))
  <2>1. /\ c.tables \in Nat /\ c.leaves \in Nat /\ c.counted \in Nat
        /\ c.counted + c.post = c.tables + c.leaves /\ c.heap <= c.leaves
    BY <1>4, <1>6
  <2> QED
    BY <1>2, <1>3, <1>4, <1>6, <2>1, SpaceWhole, Zenon DEF SameFds
<1>8. Moves(s, c)
  <2>1. /\ free \in Int /\ shared_held \in Int /\ astray \in Int /\ free' \in Int /\ astray' \in Int
    BY <1>1, Zenon DEF Types
  <2>2. /\ c.tables + c.leaves \in Int
        /\ (free' + shared_held' + astray') + (c.tables + c.leaves)
               = (free + shared_held + astray) + (r.tables + r.leaves)
    BY <1>4, <1>6, <2>1
  <2>3. (c.fds + c.inbox) - shared_held' <= (r.fds + r.inbox) - shared_held
    BY <1>4, <1>6, <2>1 DEF SameFds
  <2> QED
    BY <1>1, <1>2, <1>6, <2>2, <2>3, SpaceMoves, Zenon
<1>9. Becomes(s, c) /\ Strayed(c)
  BY <1>2, <1>5, <1>6, Zenon DEF Strayed
<1> QED
  BY <1>1, <1>7, <1>8, <1>9, InnermostMoves, Zenon

\* The ends of a load.
LEMMA LoadAccounts ==
    ASSUME IInv, IInv', AInv, NEW s \in Slots, Load(s) \/ LoadFailsHalfway(s) \/ LoadLosesPage(s)
    PROVE  AInv'
<1>1. free \in Int /\ astray \in Int /\ {0, 1, 2} \subseteq Nat
  BY Totals DEF IInv
<1>2. CASE Load(s)
  <2>1. free' = free - 3 /\ astray' = astray
    BY <1>2, Zenon DEF Load
  <2>2. (free' + astray') + (2 + 1) = free + astray
    BY <1>1, <2>1
  <2> QED
    BY <1>1, <1>2, <2>2, MappedAccounts, Zenon DEF Load
<1>3. CASE LoadFailsHalfway(s)
  <2>1. PICK t \in 1 .. 2, p \in 0 .. 1 :
          free' = free - (t + p) /\ Becomes(s, [Mapped(Top(s), t, p) EXCEPT !.pc = "left"])
    BY <1>3, Zenon DEF LoadFailsHalfway
  <2>2. astray' = astray
    BY <1>3, Zenon DEF LoadFailsHalfway
  <2>3. t \in Nat /\ p \in Nat /\ (free' + astray') + (t + p) = free + astray
    BY <1>1, <2>1, <2>2
  <2> QED
    BY <1>3, <2>1, <2>3, MappedAccounts, Zenon DEF LoadFailsHalfway
<1>4. CASE LoadLosesPage(s)
  <2>1. free' = free - 2 /\ astray' = astray + 1
    BY <1>4, Zenon DEF LoadLosesPage
  <2>2. (free' + astray') + (1 + 0) = free + astray
    BY <1>1, <2>1
  <2> QED
    BY <1>1, <1>4, <2>1, <2>2, MappedAccounts, Zenon DEF LoadLosesPage
<1> QED
  BY <1>2, <1>3, <1>4, Zenon

\* The other steps within a call, one by one: what leaves the allocator goes to the space of
\* the child or to a shared object, and back.
LEMMA TouchAccounts ==
    ASSUME IInv, IInv', AInv, NEW s \in Slots,
           \/ CountBefore(s) \/ BeginLoad(s) \/ LoadFails(s)
           \/ LeaveExcursion(s) \/ BrkGrows(s) \/ BrkShrinks(s) \/ SetSize(s) \/ Mmap(s)
           \/ CloseShm(s) \/ ReceiveShm(s)
    PROVE  AInv'
<1>1. Types /\ Types' /\ Depth(s) > 0 /\ MayRun(s)
  BY Zenon DEF IInv, CountBefore, BeginLoad, LoadFails, LeaveExcursion, BrkGrows,
         BrkShrinks, SetSize, Mmap, CloseShm, ReceiveShm, Calls, At
<1>2. PICK r \in Call : r = Top(s)
  BY <1>1, SlotType, Zenon
<1>3. Whole(r)
  BY <1>1, <1>2, WholeTop, Zenon
<1>4. /\ r.tables \in Nat /\ r.leaves \in Nat /\ r.heap \in Nat /\ r.counted \in Nat /\ r.post \in Nat
      /\ r.counted + r.post = r.tables + r.leaves /\ r.heap <= r.post /\ r.heap <= r.leaves
      /\ r.fds \in Nat /\ r.inbox \in Nat
  BY <1>3, Zenon DEF Whole
<1>5. free \in Int /\ shared_held \in Int /\ astray \in Int
  BY <1>1, Totals, Zenon
<1>6. Top(s).pc # "loading" => ~loan
  BY <1>1, NotLent, Zenon
<1>7. CASE CountBefore(s)
  <2>1. PICK c : c = [r EXCEPT !.pc = "counted", !.free = free]
    BY Zenon
  <2>2. r.pc = "opened"
    BY <1>2, <1>7, Zenon DEF CountBefore, At
  <2>3. Becomes(s, c) /\ UNCHANGED <<free, shared_held, quarantined, leaked, astray>>
    BY <1>2, <1>6, <1>7, <2>1, <2>2, Zenon DEF CountBefore, Borrowing
  <2>4. /\ c.pc = "counted" /\ c.free = free
        /\ Fixed(c, r) /\ SameSpace(c, r) /\ SameFds(c, r)
    BY <2>1, Zenon DEF Call, Fixed, SameSpace, SameFds
  <2>5. Whole(c) /\ (~c.met => Judged(c))
    BY <1>3, <2>2, <2>4, Zenon DEF Whole, Judged, Done, Fixed, SameSpace, SameFds
  <2>6. Own(c) = Own(r) /\ Before(c)' = Before(r)
    BY <1>3, <2>2, <2>4, Zenon DEF Own, Done, Before, Whole, Fixed, SameSpace
  <2>7. Moves(s, c)
    BY <1>1, <1>2, <2>3, <2>4, <2>6, QuietMoves, Zenon
  <2> QED
    BY <1>1, <2>3, <2>5, <2>7, InnermostMoves, Zenon DEF Strayed
<1>8. CASE BeginLoad(s)
  <2>1. PICK c : c = [r EXCEPT !.pc = "loading"]
    BY Zenon
  <2>2. r.pc = "counted"
    BY <1>2, <1>8, Zenon DEF BeginLoad, At
  <2>3. Becomes(s, c) /\ UNCHANGED <<free, shared_held, quarantined, leaked, astray>>
    BY <1>2, <1>6, <1>8, <2>1, <2>2, Zenon DEF BeginLoad, Borrowing
  <2>4. /\ c.pc = "loading" /\ c.free = r.free
        /\ Fixed(c, r) /\ SameSpace(c, r) /\ SameFds(c, r)
    BY <2>1, Zenon DEF Call, Fixed, SameSpace, SameFds
  <2>5. Whole(c) /\ (~c.met => Judged(c))
    BY <1>3, <2>2, <2>4, Zenon DEF Whole, Judged, Done, Fixed, SameSpace, SameFds
  <2>6. Own(c) = Own(r) /\ Before(c)' = Before(r)
    BY <1>3, <2>2, <2>4, Zenon DEF Own, Done, Before, Whole, Fixed, SameSpace
  <2>7. Moves(s, c)
    BY <1>1, <1>2, <2>3, <2>4, <2>6, QuietMoves, Zenon
  <2> QED
    BY <1>1, <2>3, <2>5, <2>7, InnermostMoves, Zenon DEF Strayed
<1>11. CASE LoadFails(s)
  <2>1. PICK c : c = [r EXCEPT !.pc = "gone"]
    BY Zenon
  <2>2. r.pc = "loading"
    BY <1>2, <1>11, Zenon DEF LoadFails, At
  <2>3. Becomes(s, c) /\ UNCHANGED <<free, shared_held, quarantined, leaked, astray>>
    BY <1>2, <1>11, <2>1, <2>2, Zenon DEF LoadFails
  <2>4. /\ c.pc = "gone" /\ c.free = r.free
        /\ Fixed(c, r) /\ SameSpace(c, r) /\ SameFds(c, r)
    BY <2>1, Zenon DEF Call, Fixed, SameSpace, SameFds
  <2>5. Whole(c) /\ (~c.met => Judged(c))
    BY <1>3, <2>2, <2>4, Zenon DEF Whole, Judged, Done, Fixed, SameSpace, SameFds
  <2>6. Own(c) = Own(r) /\ Before(c)' = Before(r)
    BY <1>3, <2>2, <2>4, Zenon DEF Own, Done, Before, Whole, Fixed, SameSpace
  <2>7. Moves(s, c)
    BY <1>1, <1>2, <2>3, <2>4, <2>6, QuietMoves, Zenon
  <2> QED
    BY <1>1, <2>3, <2>5, <2>7, InnermostMoves, Zenon DEF Strayed
<1>12. CASE LeaveExcursion(s)
  <2>1. PICK c : c = [r EXCEPT !.pc = "left", !.masked = TRUE]
    BY Zenon
  <2>2. r.pc = "running"
    BY <1>2, <1>12, Zenon DEF LeaveExcursion, At
  <2>3. Becomes(s, c) /\ UNCHANGED <<free, shared_held, quarantined, leaked, astray>>
    BY <1>2, <1>12, <2>1, <2>2, Zenon DEF LeaveExcursion
  <2>4. /\ c.pc = "left" /\ c.free = r.free
        /\ Fixed(c, r) /\ SameSpace(c, r) /\ SameFds(c, r)
    BY <2>1, Zenon DEF Call, Fixed, SameSpace, SameFds
  <2>5. Whole(c) /\ (~c.met => Judged(c))
    BY <1>3, <2>2, <2>4, Zenon DEF Whole, Judged, Done, Fixed, SameSpace, SameFds
  <2>6. Own(c) = Own(r) /\ Before(c)' = Before(r)
    BY <1>3, <2>2, <2>4, Zenon DEF Own, Done, Before, Whole, Fixed, SameSpace
  <2>7. Moves(s, c)
    BY <1>1, <1>2, <2>3, <2>4, <2>6, QuietMoves, Zenon
  <2> QED
    BY <1>1, <2>3, <2>5, <2>7, InnermostMoves, Zenon DEF Strayed
<1>13. CASE BrkGrows(s)
  <2>2. r.pc = "running"
    BY <1>2, <1>13, Zenon DEF BrkGrows, Calls, At
  <2>a. PICK p \in 0 .. 1, t \in 0 .. 1 :
          free' = free - (p + t) /\ Becomes(s, Noted(Grown(r, p, t), free, free'))
    BY <1>2, <1>6, <1>13, <2>2, Zenon DEF BrkGrows, Borrowing, Grown
  <2>b. p \in Nat /\ t \in Nat /\ Minus(free, free') = p + t
    BY <1>5, <2>a DEF Minus
  <2>1. PICK c : c = Noted(Grown(r, p, t), free, free')
    BY Zenon
  <2>3. /\ Becomes(s, c) /\ free' = free - (p + t) /\ shared_held' = shared_held
        /\ UNCHANGED <<quarantined, leaked, astray>>
    BY <1>13, <2>1, <2>a, Zenon DEF BrkGrows, Calls
  <2>4. /\ c.pc = "running" /\ c.free = r.free /\ Fixed(c, r)
        /\ c.tables = r.tables + t /\ c.leaves = r.leaves + p /\ c.heap = r.heap + p
        /\ c.counted = r.counted /\ c.post = r.post + (p + t) /\ SameFds(c, r)
    <3>1. PICK g : g = Grown(r, p, t)
      BY Zenon
    <3>2. /\ g.pc = r.pc /\ g.free = r.free /\ Fixed(g, r) /\ SameFds(g, r)
          /\ g.tables = r.tables + t /\ g.leaves = r.leaves + p /\ g.heap = r.heap + p
          /\ g.counted = r.counted /\ g.post = r.post
      BY <3>1, Zenon DEF Grown, Call, Fixed, SameFds
    <3>3. g \in Call
      <4>1. p \in Int /\ t \in Int
        BY <2>b
      <4> QED
        BY <3>1, <4>1, GrownSame, Zenon DEF Same
    <3>4. c = [g EXCEPT !.post = @ + Minus(free, free')]
      BY <2>1, <3>1, Zenon DEF Noted
    <3>5. /\ c.pc = g.pc /\ c.free = g.free /\ Fixed(c, g) /\ SameFds(c, g) /\ c.tables = g.tables
          /\ c.leaves = g.leaves /\ c.heap = g.heap /\ c.counted = g.counted
          /\ c.post = g.post + Minus(free, free')
      BY <3>3, <3>4, Zenon DEF Call, Fixed, SameFds
    <3> QED
      BY <2>2, <2>b, <3>2, <3>5, Zenon DEF Fixed, SameFds
  <2>5. Whole(c) /\ (~c.met => Judged(c))
    <3>1. /\ c.tables \in Nat /\ c.leaves \in Nat /\ c.heap \in Nat /\ c.counted \in Nat /\ c.post \in Nat
          /\ c.counted + c.post = c.tables + c.leaves /\ c.heap <= c.post /\ c.heap <= c.leaves
          /\ c.fds \in Nat /\ c.inbox \in Nat
      BY <1>4, <2>2, <2>4, <2>b DEF SameSpace, SameFds
    <3> QED
      BY <1>3, <2>2, <2>4, <3>1, SpaceWhole, Zenon
  <2>6. Moves(s, c)
    <3>1. /\ c.tables + c.leaves \in Int
          /\ (free' + shared_held' + astray') + (c.tables + c.leaves)
                 = (free + shared_held + astray) + (r.tables + r.leaves)
      BY <1>4, <1>5, <2>2, <2>3, <2>4, <2>b DEF SameSpace
    <3>2. (c.fds + c.inbox) - shared_held' <= (r.fds + r.inbox) - shared_held
      BY <1>4, <1>5, <2>2, <2>3, <2>4 DEF SameFds
    <3> QED
      BY <1>1, <1>2, <2>2, <2>3, <2>4, <3>1, <3>2, SpaceMoves, Zenon
  <2> QED
    BY <1>1, <2>3, <2>5, <2>6, InnermostMoves, Zenon DEF Strayed
<1>14. CASE BrkShrinks(s)
  <2>1. PICK c : c = [r EXCEPT !.leaves = @ - 1, !.heap = @ - 1, !.post = Minus(@, 1)]
    BY Zenon
  <2>2. r.pc = "running" /\ r.heap > 0
    BY <1>2, <1>14, Zenon DEF BrkShrinks, Calls, At
  <2>3. /\ Becomes(s, c) /\ free' = free + 1 /\ shared_held' = shared_held
        /\ UNCHANGED <<quarantined, leaked, astray>>
    BY <1>2, <1>6, <1>14, <2>1, <2>2, Zenon DEF BrkShrinks, Calls, Borrowing
  <2>4. /\ c.pc = "running" /\ c.free = r.free /\ Fixed(c, r)
        /\ c.tables = r.tables /\ c.leaves = r.leaves - 1 /\ c.heap = r.heap - 1
        /\ c.counted = r.counted /\ c.post = Minus(r.post, 1) /\ SameFds(c, r)
    BY <2>1, <2>2, Zenon DEF Call, Fixed, SameSpace, SameFds
  <2>a. Minus(r.post, 1) = r.post - 1
    BY <1>4, <2>2 DEF Minus
  <2>5. Whole(c) /\ (~c.met => Judged(c))
    <3>1. /\ c.tables \in Nat /\ c.leaves \in Nat /\ c.heap \in Nat /\ c.counted \in Nat /\ c.post \in Nat
          /\ c.counted + c.post = c.tables + c.leaves /\ c.heap <= c.post /\ c.heap <= c.leaves
          /\ c.fds \in Nat /\ c.inbox \in Nat
      BY <1>4, <2>2, <2>4, <2>a DEF SameSpace, SameFds
    <3> QED
      BY <1>3, <2>2, <2>4, <3>1, SpaceWhole, Zenon
  <2>6. Moves(s, c)
    <3>1. /\ c.tables + c.leaves \in Int
          /\ (free' + shared_held' + astray') + (c.tables + c.leaves)
                 = (free + shared_held + astray) + (r.tables + r.leaves)
      BY <1>4, <1>5, <2>2, <2>3, <2>4 DEF SameSpace
    <3>2. (c.fds + c.inbox) - shared_held' <= (r.fds + r.inbox) - shared_held
      BY <1>4, <1>5, <2>2, <2>3, <2>4 DEF SameFds
    <3> QED
      BY <1>1, <1>2, <2>2, <2>3, <2>4, <3>1, <3>2, SpaceMoves, Zenon
  <2> QED
    BY <1>1, <2>3, <2>5, <2>6, InnermostMoves, Zenon DEF Strayed
<1>15. CASE SetSize(s)
  <2>1. PICK c : c = [r EXCEPT !.fds = @ + 1]
    BY Zenon
  <2>2. r.pc = "running"
    BY <1>2, <1>15, Zenon DEF SetSize, Calls, At
  <2>3. /\ Becomes(s, c) /\ free' = free - 1 /\ shared_held' = shared_held + 1
        /\ UNCHANGED <<quarantined, leaked, astray>>
    BY <1>2, <1>6, <1>15, <2>1, <2>2, Zenon DEF SetSize, Calls, Borrowing
  <2>4. /\ c.pc = "running" /\ c.free = r.free /\ Fixed(c, r)
        /\ SameSpace(c, r) /\ c.fds = r.fds + 1 /\ c.inbox = r.inbox
    BY <2>1, <2>2, Zenon DEF Call, Fixed, SameSpace, SameFds
  <2>5. Whole(c) /\ (~c.met => Judged(c))
    <3>1. /\ c.tables \in Nat /\ c.leaves \in Nat /\ c.heap \in Nat /\ c.counted \in Nat /\ c.post \in Nat
          /\ c.counted + c.post = c.tables + c.leaves /\ c.heap <= c.post /\ c.heap <= c.leaves
          /\ c.fds \in Nat /\ c.inbox \in Nat
      BY <1>4, <2>2, <2>4 DEF SameSpace, SameFds
    <3> QED
      BY <1>3, <2>2, <2>4, <3>1, SpaceWhole, Zenon
  <2>6. Moves(s, c)
    <3>1. /\ c.tables + c.leaves \in Int
          /\ (free' + shared_held' + astray') + (c.tables + c.leaves)
                 = (free + shared_held + astray) + (r.tables + r.leaves)
      BY <1>4, <1>5, <2>2, <2>3, <2>4 DEF SameSpace
    <3>2. (c.fds + c.inbox) - shared_held' <= (r.fds + r.inbox) - shared_held
      BY <1>4, <1>5, <2>2, <2>3, <2>4 DEF SameFds
    <3> QED
      BY <1>1, <1>2, <2>2, <2>3, <2>4, <3>1, <3>2, SpaceMoves, Zenon
  <2> QED
    BY <1>1, <2>3, <2>5, <2>6, InnermostMoves, Zenon DEF Strayed
<1>16. CASE Mmap(s)
  <2>2. r.pc = "running"
    BY <1>2, <1>16, Zenon DEF Mmap, Calls, At
  <2>1. PICK c : c = Noted([r EXCEPT !.tables = @ + 1], free, free')
    BY Zenon
  <2>3. /\ Becomes(s, c) /\ free' = free - 1 /\ shared_held' = shared_held
        /\ UNCHANGED <<quarantined, leaked, astray>>
    BY <1>2, <1>6, <1>16, <2>1, <2>2, Zenon DEF Mmap, Calls, Borrowing
  <2>b. Minus(free, free') = 1
    BY <1>5, <2>3 DEF Minus
  <2>4. /\ c.pc = "running" /\ c.free = r.free /\ Fixed(c, r)
        /\ c.tables = r.tables + 1 /\ c.leaves = r.leaves /\ c.heap = r.heap
        /\ c.counted = r.counted /\ c.post = r.post + 1 /\ SameFds(c, r)
    <3>1. PICK g : g = [r EXCEPT !.tables = @ + 1]
      BY Zenon
    <3>2. /\ g.pc = r.pc /\ g.free = r.free /\ Fixed(g, r) /\ SameFds(g, r)
          /\ g.tables = r.tables + 1 /\ g.leaves = r.leaves /\ g.heap = r.heap
          /\ g.counted = r.counted /\ g.post = r.post
      BY <3>1, Zenon DEF Call, Fixed, SameFds
    <3>3. g \in Call
      <4>1. r.tables + 1 \in Int
        BY <1>4
      <4> QED
        BY <3>1, <4>1, Zenon DEF Call
    <3>4. c = [g EXCEPT !.post = @ + Minus(free, free')]
      BY <2>1, <3>1, Zenon DEF Noted
    <3>5. /\ c.pc = g.pc /\ c.free = g.free /\ Fixed(c, g) /\ SameFds(c, g) /\ c.tables = g.tables
          /\ c.leaves = g.leaves /\ c.heap = g.heap /\ c.counted = g.counted
          /\ c.post = g.post + Minus(free, free')
      BY <3>3, <3>4, Zenon DEF Call, Fixed, SameFds
    <3> QED
      BY <2>2, <2>b, <3>2, <3>5, Zenon DEF Fixed, SameFds
  <2>5. Whole(c) /\ (~c.met => Judged(c))
    <3>1. /\ c.tables \in Nat /\ c.leaves \in Nat /\ c.heap \in Nat /\ c.counted \in Nat /\ c.post \in Nat
          /\ c.counted + c.post = c.tables + c.leaves /\ c.heap <= c.post /\ c.heap <= c.leaves
          /\ c.fds \in Nat /\ c.inbox \in Nat
      BY <1>4, <2>2, <2>4 DEF SameSpace, SameFds
    <3> QED
      BY <1>3, <2>2, <2>4, <3>1, SpaceWhole, Zenon
  <2>6. Moves(s, c)
    <3>1. /\ c.tables + c.leaves \in Int
          /\ (free' + shared_held' + astray') + (c.tables + c.leaves)
                 = (free + shared_held + astray) + (r.tables + r.leaves)
      BY <1>4, <1>5, <2>2, <2>3, <2>4 DEF SameSpace
    <3>2. (c.fds + c.inbox) - shared_held' <= (r.fds + r.inbox) - shared_held
      BY <1>4, <1>5, <2>2, <2>3, <2>4 DEF SameFds
    <3> QED
      BY <1>1, <1>2, <2>2, <2>3, <2>4, <3>1, <3>2, SpaceMoves, Zenon
  <2> QED
    BY <1>1, <2>3, <2>5, <2>6, InnermostMoves, Zenon DEF Strayed
<1>17. CASE CloseShm(s)
  <2>1. PICK c : c = [r EXCEPT !.fds = @ - 1]
    BY Zenon
  <2>2. r.pc = "running" /\ r.fds > 0
    BY <1>2, <1>17, Zenon DEF CloseShm, Calls, At
  <2>3. /\ Becomes(s, c) /\ free' = free + 1 /\ shared_held' = shared_held - 1
        /\ UNCHANGED <<quarantined, leaked, astray>>
    BY <1>2, <1>6, <1>17, <2>1, <2>2, Zenon DEF CloseShm, Calls, Borrowing
  <2>4. /\ c.pc = "running" /\ c.free = r.free /\ Fixed(c, r)
        /\ SameSpace(c, r) /\ c.fds = r.fds - 1 /\ c.inbox = r.inbox
    BY <2>1, <2>2, Zenon DEF Call, Fixed, SameSpace, SameFds
  <2>5. Whole(c) /\ (~c.met => Judged(c))
    <3>1. /\ c.tables \in Nat /\ c.leaves \in Nat /\ c.heap \in Nat /\ c.counted \in Nat /\ c.post \in Nat
          /\ c.counted + c.post = c.tables + c.leaves /\ c.heap <= c.post /\ c.heap <= c.leaves
          /\ c.fds \in Nat /\ c.inbox \in Nat
      BY <1>4, <2>2, <2>4 DEF SameSpace, SameFds
    <3> QED
      BY <1>3, <2>2, <2>4, <3>1, SpaceWhole, Zenon
  <2>6. Moves(s, c)
    <3>1. /\ c.tables + c.leaves \in Int
          /\ (free' + shared_held' + astray') + (c.tables + c.leaves)
                 = (free + shared_held + astray) + (r.tables + r.leaves)
      BY <1>4, <1>5, <2>2, <2>3, <2>4 DEF SameSpace
    <3>2. (c.fds + c.inbox) - shared_held' <= (r.fds + r.inbox) - shared_held
      BY <1>4, <1>5, <2>2, <2>3, <2>4 DEF SameFds
    <3> QED
      BY <1>1, <1>2, <2>2, <2>3, <2>4, <3>1, <3>2, SpaceMoves, Zenon
  <2> QED
    BY <1>1, <2>3, <2>5, <2>6, InnermostMoves, Zenon DEF Strayed
<1>18. CASE ReceiveShm(s)
  <2>1. PICK c : c = [r EXCEPT !.inbox = @ - 1, !.fds = @ + 1]
    BY Zenon
  <2>2. r.pc = "running" /\ r.inbox > 0
    BY <1>2, <1>18, Zenon DEF ReceiveShm, Calls, At
  <2>3. /\ Becomes(s, c) /\ free' = free /\ shared_held' = shared_held
        /\ UNCHANGED <<quarantined, leaked, astray>>
    BY <1>2, <1>6, <1>18, <2>1, <2>2, Zenon DEF ReceiveShm, Calls
  <2>4. /\ c.pc = "running" /\ c.free = r.free /\ Fixed(c, r)
        /\ SameSpace(c, r) /\ c.fds = r.fds + 1 /\ c.inbox = r.inbox - 1
    BY <2>1, <2>2, Zenon DEF Call, Fixed, SameSpace, SameFds
  <2>5. Whole(c) /\ (~c.met => Judged(c))
    <3>1. /\ c.tables \in Nat /\ c.leaves \in Nat /\ c.heap \in Nat /\ c.counted \in Nat /\ c.post \in Nat
          /\ c.counted + c.post = c.tables + c.leaves /\ c.heap <= c.post /\ c.heap <= c.leaves
          /\ c.fds \in Nat /\ c.inbox \in Nat
      BY <1>4, <2>2, <2>4 DEF SameSpace, SameFds
    <3> QED
      BY <1>3, <2>2, <2>4, <3>1, SpaceWhole, Zenon
  <2>6. Moves(s, c)
    <3>1. /\ c.tables + c.leaves \in Int
          /\ (free' + shared_held' + astray') + (c.tables + c.leaves)
                 = (free + shared_held + astray) + (r.tables + r.leaves)
      BY <1>4, <1>5, <2>2, <2>3, <2>4 DEF SameSpace
    <3>2. (c.fds + c.inbox) - shared_held' <= (r.fds + r.inbox) - shared_held
      BY <1>4, <1>5, <2>2, <2>3, <2>4 DEF SameFds
    <3> QED
      BY <1>1, <1>2, <2>2, <2>3, <2>4, <3>1, <3>2, SpaceMoves, Zenon
  <2> QED
    BY <1>1, <2>3, <2>5, <2>6, InnermostMoves, Zenon DEF Strayed
<1> QED
  BY <1>7, <1>8, <1>11, <1>12, <1>13, <1>14, <1>15, <1>16, <1>17, <1>18, Zenon

\* Destroying the space: what it holds becomes what was collected, and the descriptors that
\* go with the process give their shared frames back.
LEMMA DestroyAccounts ==
    ASSUME IInv, IInv', AInv, NEW s \in Slots, Destroy(s)
    PROVE  AInv'
<1>1. Types /\ Types' /\ Depth(s) > 0 /\ MayRun(s) /\ Top(s).pc = "left"
  BY Zenon DEF IInv, Destroy, At
<1>2. PICK r \in Call : r = Top(s)
  BY <1>1, SlotType, Zenon
<1>3. Whole(r)
  BY <1>1, <1>2, WholeTop, Zenon
<1>4. /\ r.tables \in Nat /\ r.leaves \in Nat /\ r.fds \in Nat /\ r.inbox \in Nat
      /\ r.counted + r.post = r.tables + r.leaves
  BY <1>3, Zenon DEF Whole
<1>5. free \in Int /\ shared_held \in Int /\ quarantined \in Int /\ leaked \in Int /\ astray \in Int
  BY <1>1, Totals, Zenon
<1>6. ~loan
  BY <1>1, NotLent, Zenon
<1>7. PICK collected \in Nat : collected = r.tables + r.leaves
  BY <1>4
<1>8. PICK spill : spill = Minus(collected, Capacity)
  BY Zenon
<1>9. spill \in Nat /\ collected - spill \in Nat /\ (collected - spill) + spill = collected
  BY <1>8, BoundsAssumption DEF Minus
\* What was counted is what the walk meets.
<1>t. Collected(r) = collected /\ Taken(r) = collected
  BY <1>4, <1>7, Zenon DEF Collected, Taken
<1>10. PICK c : c = [r EXCEPT !.pc = "gone", !.taken = collected, !.spill = spill,
                              !.held = collected - spill, !.fds = 0]
  BY Zenon
<1>11. /\ Becomes(s, c) /\ free' = free + r.fds /\ shared_held' = shared_held - r.fds
       /\ UNCHANGED <<quarantined, leaked, astray>>
  BY <1>2, <1>6, <1>8, <1>10, <1>t, Zenon DEF Destroy, Borrowing
<1>12. /\ c.pc = "gone" /\ c.met = r.met /\ c.children = r.children /\ c.lost = r.lost
       /\ c.strays = r.strays /\ c.free = r.free /\ c.shared = r.shared /\ SameSpace(c, r)
       /\ c.fds = 0 /\ c.inbox = r.inbox /\ c.held = collected - spill
       /\ c.spill = spill /\ c.taken = collected
  BY <1>9, <1>10, Zenon DEF Call, SameSpace
<1>13. Whole(c) /\ (~c.met => Judged(c))
  <2>1. 0 \in Nat
    OBVIOUS
  <2> QED
    BY <1>3, <1>4, <1>9, <1>12, <2>1, Zenon DEF Whole, Judged, Done, SameSpace
<1>14. Own(c) = collected /\ Own(r) = collected
  BY <1>1, <1>2, <1>7, <1>9, <1>12, Zenon DEF Own, Done
<1>15. Moves(s, c)
  <2>1. Total' = Total
    <3>1. (free + r.fds) + (shared_held - r.fds) = free + shared_held
      BY <1>4, <1>5
    <3> QED
      BY <1>11, <3>1, Zenon DEF Total
  <2>2. Before(c)' = Before(r)
    BY <1>1, <1>2, <1>12, Zenon DEF Before
  <2>3. (c.fds + c.inbox) - shared_held' <= (r.fds + r.inbox) - shared_held
    BY <1>4, <1>5, <1>11, <1>12
  <2> QED
    BY <1>2, <1>12, <1>14, <2>1, <2>2, <2>3, Zenon DEF Moves
<1> QED
  BY <1>1, <1>11, <1>13, <1>15, InnermostMoves, Zenon DEF Strayed

\* The difference: the shared frames of before are all still held, so that nothing is cut
\* off by the subtractions.
LEMMA DifferenceIs ==
    ASSUME NEW r \in Call, Types, Whole(r), r.pc = "gone", NEW kept \in Int,
           Innermost(r, kept), r.shared <= kept
    PROVE  Consumed(r, free) =
               (r.held + r.spill)
               + (((quarantined - r.children) + (leaked - r.lost)) + (astray - r.strays))
<1>1. PICK f \in Int, h \in Int, q \in Int, l \in Int, a \in Int :
          f = free /\ h = shared_held /\ q = quarantined /\ l = leaked /\ a = astray
  BY Totals, Zenon
<1>2. PICK own \in Nat, out \in Nat : own = r.held + r.spill /\ out = r.fds + r.inbox
  <2>1. r.held \in Nat /\ r.spill \in Nat /\ r.fds \in Nat /\ r.inbox \in Nat
    BY Zenon DEF Whole
  <2>2. r.held + r.spill \in Nat /\ r.fds + r.inbox \in Nat
    BY <2>1
  <2> QED
    BY <2>2, Zenon
<1>a. PICK cf \in Int, cs \in Int, cc \in Int, cl \in Int, ca \in Int :
          cf = r.free /\ cs = r.shared /\ cc = r.children /\ cl = r.lost /\ ca = r.strays
  BY Counts, Zenon
<1>3. cc <= q /\ cl <= l /\ ca <= a /\ cs <= kept /\ kept + out <= h
  BY <1>1, <1>2, <1>a, Zenon DEF Whole, Innermost
<1> DEFINE gone == ((q - cc) + (l - cl)) + (a - ca)
<1>b. gone \in Nat
  BY <1>3
<1>4. cf - f = (own + gone) + (h - cs)
  <2>1. cf + cs + cc + cl + ca = (f + h + q + l + a) + own
    BY <1>1, <1>2, <1>a, Zenon DEF Innermost, Before, Total, Own, Done
  <2> QED
    BY <2>1
<1> HIDE DEF gone
<1>5. cs <= h
  BY <1>3
<1>7. Minus(h, cs) = h - cs
  BY <1>5, Zenon DEF Minus
<1>8. Minus(cf, f) = (own + gone) + (h - cs)
  BY <1>4, <1>5, <1>b DEF Minus
<1>9. Minus(Minus(cf, f), Minus(h, cs)) = own + gone
  BY <1>5, <1>7, <1>8, <1>b DEF Minus
<1> QED
  BY <1>1, <1>2, <1>9, <1>a, Zenon DEF Consumed, gone

\* The count after the child, and the end of the window.
LEMMA JudgeAccounts ==
    ASSUME IInv, IInv', AInv, NEW s \in Slots, CountAfter(s) \/ CloseSpawnWindow(s)
    PROVE  AInv'
<1>1. Types /\ Types' /\ Depth(s) > 0 /\ MayRun(s)
  BY Zenon DEF IInv, CountAfter, CloseSpawnWindow, At
<1>2. PICK r \in Call : r = Top(s)
  BY <1>1, SlotType, Zenon
<1>3. Whole(r) /\ (~r.met => \E kept \in Int : Innermost(r, kept) /\ r.shared <= kept)
  BY <1>1, <1>2, WholeTop, Zenon
<1>6. CASE CountAfter(s)
  <2>1. PICK x : x = Consumed(r, free)
    BY Zenon
  <2>2. PICK c : c = [r EXCEPT !.pc = "closing", !.consumed = x]
    BY Zenon
  <2>3. r.pc = "gone" /\ ~loan
    BY <1>1, <1>2, <1>6, NotLent, Zenon DEF CountAfter, At
  <2>4. Becomes(s, c) /\ UNCHANGED <<free, shared_held, quarantined, leaked, astray>>
    BY <1>2, <1>6, <2>1, <2>2, <2>3, Zenon DEF CountAfter, Borrowing
  <2>5. /\ c.pc = "closing" /\ Fixed(c, r) /\ SameSpace(c, r) /\ SameFds(c, r)
        /\ c.free = r.free /\ c.consumed = x
    BY <2>2, Zenon DEF Call, Fixed, SameSpace, SameFds
  <2>6. Whole(c)
    BY <1>3, <2>3, <2>5, Zenon DEF Whole, Done, Fixed, SameSpace, SameFds
  <2>7. ~c.met => Judged(c)
    BY <1>1, <1>3, <2>1, <2>3, <2>5, DifferenceIs, Zenon DEF Judged, Fixed
  <2>8. Own(c) = Own(r) /\ Before(c)' = Before(r)
    BY <2>3, <2>5, Zenon DEF Own, Done, Before, Fixed
  <2>9. Moves(s, c)
    BY <1>1, <1>2, <2>4, <2>5, <2>8, QuietMoves, Zenon
  <2> QED
    BY <1>1, <2>4, <2>6, <2>7, <2>9, InnermostMoves, Zenon DEF Strayed
<1>7. CASE CloseSpawnWindow(s)
  <2>1. PICK x : x = Crossed(s, r.window)
    BY Zenon
  <2>2. PICK c : c = [r EXCEPT !.pc = "closed", !.crossed = x]
    BY Zenon
  <2>3. r.pc = "closing"
    BY <1>2, <1>7, Zenon DEF CloseSpawnWindow, At
  <2>4. Becomes(s, c) /\ UNCHANGED <<free, shared_held, quarantined, leaked, astray>>
    BY <1>2, <1>7, <2>1, <2>2, Zenon DEF CloseSpawnWindow
  <2>5. /\ c.pc = "closed" /\ Fixed(c, r) /\ SameSpace(c, r) /\ SameFds(c, r)
        /\ c.free = r.free /\ c.consumed = r.consumed
    BY <2>2, Zenon DEF Call, Fixed, SameSpace, SameFds
  <2>6. Whole(c)
    BY <1>3, <2>3, <2>5, Zenon DEF Whole, Done, Fixed, SameSpace, SameFds
  <2>7. ~c.met => Judged(c)
    BY <1>3, <2>3, <2>5, Zenon DEF Judged, Innermost, Fixed
  <2>8. Own(c) = Own(r) /\ Before(c)' = Before(r)
    BY <2>3, <2>5, Zenon DEF Own, Done, Before, Fixed
  <2>9. Moves(s, c)
    BY <1>1, <1>2, <2>4, <2>5, <2>8, QuietMoves, Zenon
  <2> QED
    BY <1>1, <2>4, <2>6, <2>7, <2>9, InnermostMoves, Zenon DEF Strayed
<1> QED
  BY <1>6, <1>7, Zenon

----------------------------------------------------------------------------
(* The steps between calls *)

\* A call with other descriptors, and nothing else.
Alike(e, c) ==
    /\ e.pc = c.pc /\ e.met = c.met /\ e.children = c.children /\ e.lost = c.lost
    /\ e.strays = c.strays /\ e.free = c.free /\ e.shared = c.shared
    /\ e.tables = c.tables /\ e.leaves = c.leaves /\ e.heap = c.heap
    /\ e.counted = c.counted /\ e.post = c.post
    /\ e.held = c.held /\ e.spill = c.spill /\ e.taken = c.taken

\* One entry of a slot's calls is replaced.
LEMMA EntryIs ==
    ASSUME NEW f \in [Slots -> Seq(Call)], NEW t \in Slots, NEW d \in 1 .. Len(f[t]), NEW e
    PROVE  \A u \in Slots : \A k \in 1 .. Len(f[u]) :
               Put(f, t, d, e)[u][k] = IF u = t /\ k = d THEN e ELSE f[u][k]
<1> TAKE u \in Slots
<1> TAKE k \in 1 .. Len(f[u])
<1>1. f[u] \in Seq(Call) /\ DOMAIN f[u] = 1 .. Len(f[u])
  OBVIOUS
<1>2. PICK x, y : x = f[t] /\ y = [x EXCEPT ![d] = e]
  BY ZenonT(60)
<1>3. Put(f, t, d, e)[u] = IF u = t THEN y ELSE f[u]
  BY <1>2, Zenon DEF Put
<1>4. u = t => y[k] = IF k = d THEN e ELSE f[u][k]
  BY <1>1, <1>2, Zenon
<1> QED
  BY <1>3, <1>4, Zenon

Sends(s, t, d) == calls' = [calls EXCEPT ![s][Depth(s)].fds = @ - 1, ![t][d].inbox = @ + 1]

\* A sent descriptor: the sender has one less, the receiver will have one more.
LEMMA SentIs ==
    ASSUME Types, NEW s \in Slots, Depth(s) > 0, NEW n \in Nat, n = Depth(s),
           NEW t \in Slots, NEW d \in 1 .. Depth(t), Sends(s, t, d)
    PROVE  \A u \in Slots : \A k \in 1 .. Depth(u) :
               /\ Alike(calls'[u][k], calls[u][k])
               /\ calls'[u][k].fds = IF u = s /\ k = n THEN calls[u][k].fds - 1 ELSE calls[u][k].fds
               /\ calls'[u][k].inbox = IF u = t /\ k = d THEN calls[u][k].inbox + 1
                                                         ELSE calls[u][k].inbox
<1>1. /\ calls \in [Slots -> Seq(Call)] /\ n \in 1 .. Len(calls[s]) /\ calls[s][n] \in Call
      /\ \A u \in Slots : Depth(u) = Len(calls[u]) /\ \A k \in 1 .. Depth(u) : calls[u][k] \in Call
  BY SlotType, Zenon DEF Types, Depth
<1>2. PICK sent : sent = [calls[s][n] EXCEPT !.fds = @ - 1]
  BY Zenon
<1>3. /\ Alike(sent, calls[s][n]) /\ sent.fds = calls[s][n].fds - 1
      /\ sent.inbox = calls[s][n].inbox /\ Same(sent, calls[s][n])
  <2>1. PICK c \in Call : c = calls[s][n]
    BY <1>1, Zenon
  <2>2. Alike(sent, c) /\ sent.fds = c.fds - 1 /\ sent.inbox = c.inbox
    BY <1>2, <2>1, Zenon DEF Alike, Call
  <2>3. Same(sent, c)
    BY <1>2, <2>1 DEF Same, Call
  <2> QED
    BY <2>1, <2>2, <2>3, Zenon
<1>4. PICK f : f = Put(calls, s, n, sent)
  BY Zenon
<1>5. f \in [Slots -> Seq(Call)] /\ \A u \in Slots : Len(f[u]) = Depth(u)
  <2>0. calls \in [Slots -> Seq(Call)] /\ n \in 1 .. Len(calls[s]) /\ Same(sent, calls[s][n])
    BY <1>1, <1>3, Zenon
  <2>1. /\ Put(calls, s, n, sent) \in [Slots -> Seq(Call)]
        /\ \A u \in Slots : Len(Put(calls, s, n, sent)[u]) = Len(calls[u])
    BY <2>0, EntryChanges
  <2> QED
    BY <1>1, <1>4, <2>1, Zenon
<1>6. \A u \in Slots : \A k \in 1 .. Depth(u) :
          f[u][k] = IF u = s /\ k = n THEN sent ELSE calls[u][k]
  BY <1>1, <1>4, EntryIs, SMTT(30)
<1>7. PICK got : got = [f[t][d] EXCEPT !.inbox = @ + 1]
  BY Zenon
<1>8. Alike(got, f[t][d]) /\ got.inbox = f[t][d].inbox + 1 /\ got.fds = f[t][d].fds
  <2>1. PICK c \in Call : c = f[t][d]
    BY <1>5
  <2> QED
    BY <1>7, <2>1, Zenon DEF Alike, Call
<1>9. calls' = Put(f, t, d, got)
  BY <1>2, <1>4, <1>7, ZenonT(60) DEF Put, Sends
<1>10. \A u \in Slots : \A k \in 1 .. Depth(u) :
           calls'[u][k] = IF u = t /\ k = d THEN got ELSE f[u][k]
  <2>1. f \in [Slots -> Seq(Call)] /\ d \in 1 .. Len(f[t])
    BY <1>5, Zenon
  <2>2. \A u \in Slots : \A k \in 1 .. Len(f[u]) :
            Put(f, t, d, got)[u][k] = IF u = t /\ k = d THEN got ELSE f[u][k]
    BY <2>1, EntryIs, SMTT(30)
  <2> QED
    BY <1>5, <1>9, <2>2, Zenon
<1> TAKE u \in Slots
<1> TAKE k \in 1 .. Depth(u)
<1>11. /\ Alike(f[u][k], calls[u][k]) /\ f[u][k].inbox = calls[u][k].inbox
       /\ f[u][k].fds = IF u = s /\ k = n THEN calls[u][k].fds - 1 ELSE calls[u][k].fds
  BY <1>3, <1>6, ZenonT(60) DEF Alike
<1>12. CASE u = t /\ k = d
  <2>1. calls'[u][k] = got /\ Alike(got, f[u][k]) /\ got.fds = f[u][k].fds
        /\ got.inbox = f[u][k].inbox + 1
    BY <1>8, <1>10, <1>12, Zenon
  <2>2. Alike(got, calls[u][k])
    BY <1>11, <2>1, Zenon DEF Alike
  <2> QED
    BY <1>11, <1>12, <2>1, <2>2, Zenon
<1>13. CASE ~(u = t /\ k = d)
  BY <1>10, <1>11, <1>13, Zenon
<1> QED
  BY <1>12, <1>13, Zenon

\* A descriptor in flight: the frames of its object stay with the receiver, so that the
\* calls below the receiver's in the same slot leave one more of them behind.
LEMMA SendAccounts ==
    ASSUME IInv, IInv', AInv, NEW s \in Slots, SendShm(s)
    PROVE  AInv'
<1> DEFINE o == Other(s)
<1>0. PICK n \in Nat : n = Depth(s) /\ n > 0
  BY SlotType, Zenon DEF IInv, SendShm, Calls, At
<1>1. /\ Types /\ Types' /\ Nested(s) /\ Depth(s) > 0 /\ n \in 1 .. n
      /\ o \in Slots /\ o # s /\ Other(o) = s /\ Depth(o) \in Nat
      /\ (\A u \in Slots : \A d \in 1 .. Depth(u) : calls[u][d] \in Call)
      /\ \A u \in Slots : u = s \/ u = o
  BY <1>0, SlotType, Zenon DEF IInv, Slots, Other
<1>a. PICK t \in Slots : \E d \in 1 .. Depth(t) : Sends(s, t, d)
  BY Zenon DEF SendShm, Sends
<1>2. PICK d \in 1 .. Depth(t) : Sends(s, t, d)
  BY <1>a, Zenon
<1>3. \A u \in Slots : \A k \in 1 .. Depth(u) :
          /\ Alike(calls'[u][k], calls[u][k])
          /\ calls'[u][k].fds = IF u = s /\ k = n THEN calls[u][k].fds - 1 ELSE calls[u][k].fds
          /\ calls'[u][k].inbox = IF u = t /\ k = d THEN calls[u][k].inbox + 1
                                                    ELSE calls[u][k].inbox
  <2>1. Types /\ Depth(s) > 0 /\ n = Depth(s)
    BY <1>0, <1>1, Zenon
  <2> QED
    BY <1>2, <2>1, SentIs, SMTT(30)
<1>4. /\ UNCHANGED <<free, shared_held, quarantined, leaked, astray>>
      /\ calls[s][n].pc = "running" /\ calls[s][n].fds > 0
  BY <1>0, Zenon DEF SendShm, Calls, At, Top
<1>5. \A u \in Slots : Depth(u)' = Depth(u)
  <2> TAKE u \in Slots
  <2>1. calls'[u] \in Seq(Call) /\ Depth(u) \in Nat /\ DOMAIN calls[u] = 1 .. Depth(u)
    BY <1>1, SlotType, Zenon DEF Types
  <2>2. DOMAIN calls'[u] = DOMAIN calls[u]
    BY <1>1, <1>2, Zenon DEF Types, Sends
  <2>3. Len(calls'[u]) \in Nat /\ 1 .. Len(calls'[u]) = 1 .. Depth(u)
    BY <2>1, <2>2
  <2>4. Len(calls'[u]) = Depth(u)
    BY <2>1, <2>3
  <2> QED
    BY <2>4, Zenon DEF Depth
<1>6. ASSUME NEW u \in Slots, NEW k \in 1 .. Depth(u)
      PROVE  Whole(calls[u][k])'
  <2>0. PICK e : e = calls'[u][k]
    BY Zenon
  <2>1. PICK c \in Call : c = calls[u][k] /\ e = calls'[u][k]
    BY <1>1, <2>0, Zenon
  <2>2. Whole(c) /\ Alike(e, c)
    BY <1>3, <2>1, Zenon DEF AInv, Ledger
  <2>3. e.fds \in Nat /\ e.inbox \in Nat
    <3>1. c.fds \in Nat /\ c.inbox \in Nat
      BY <2>2, Zenon DEF Whole
    <3>2. (e.fds = c.fds \/ (e.fds = c.fds - 1 /\ c.fds > 0)) /\ (e.inbox = c.inbox \/ e.inbox = c.inbox + 1)
      BY <1>3, <1>4, <2>1
    <3> QED
      BY <3>1, <3>2
  <2>4. Whole(e)'
    BY <1>4, <2>2, <2>3, Zenon DEF Whole, Alike
  <2> QED
    BY <2>1, <2>4, Zenon
<1>7. PICK v \in [1 .. n -> Int] : \A k \in 1 .. n : ~calls[s][k].met => Account(s, k, v)
  BY <1>0, Zenon DEF AInv, Ledger
<1>8. Ledger(o)'
  <2>1. PICK x \in [1 .. Depth(o) -> Int] :
            \A k \in 1 .. Depth(o) : ~calls[o][k].met => Account(o, k, x)
    BY <1>1, Zenon DEF AInv, Ledger
  <2>2. \A k \in 1 .. Depth(o) : calls[o][k].met
    <3>1. Depth(s) # 0
      BY <1>0
    <3> QED
      BY <1>1, <2>1, <3>1, Zenon DEF Account
  <2>3. \A k \in 1 .. Depth(o) : calls'[o][k].met
    BY <1>1, <1>3, <2>2, ZenonT(60) DEF Alike
  <2> QED
    BY <1>1, <1>5, <1>6, <2>1, <2>3, Zenon DEF Ledger
<1>9. PICK w : w = [k \in 1 .. n |-> IF d < k THEN v[k] + 1 ELSE v[k]]
  BY Zenon
<1>10. /\ w \in [1 .. n -> Int]
       /\ \A k \in 1 .. n : w[k] = IF d < k THEN v[k] + 1 ELSE v[k]
  BY <1>7, <1>9
<1>11. \A k \in 1 .. n : calls[s][k].pc = "running"
  BY <1>0, <1>1, <1>4 DEF Nested
<1>12. ASSUME NEW k \in 1 .. n, ~calls'[s][k].met
       PROVE  Account(s, k, w)'
  <2>0. PICK g : g = calls'[s][k]
    BY Zenon
  <2>1. PICK b \in Call : b = calls[s][k] /\ g = calls'[s][k]
    BY <1>0, <1>1, <2>0, Zenon
  <2>2. /\ Alike(g, b) /\ ~b.met /\ ~g.met /\ d \in Nat
        /\ g.fds = IF k = n THEN b.fds - 1 ELSE b.fds
        /\ g.inbox = IF s = t /\ k = d THEN b.inbox + 1 ELSE b.inbox
    <3>1. k \in 1 .. Depth(s) /\ d \in Nat
      BY <1>0
    <3>2. /\ Alike(g, b) /\ g.fds = IF s = s /\ k = n THEN b.fds - 1 ELSE b.fds
          /\ g.inbox = IF s = t /\ k = d THEN b.inbox + 1 ELSE b.inbox
      BY <1>3, <2>1, <3>1, Zenon
    <3> QED
      BY <1>12, <2>1, <3>1, <3>2, Zenon DEF Alike
  <2>3. Account(s, k, v) /\ Depth(o) = 0 /\ b.shared <= v[k]
    BY <1>7, <2>1, <2>2, ZenonT(60) DEF Account
  <2>4. t = s
    BY <1>1, <2>3, SMTT(30)
  <2>5. b.pc = "running"
    BY <1>11, <2>1, Zenon
  <2>6. Before(g)' = Before(b) /\ Own(g)' = Own(b) /\ Total' = Total
    BY <1>4, <2>2, <2>5, Zenon DEF Before, Own, Done, Alike, Total
  <2>7. v[k] \in Int /\ w[k] = IF d < k THEN v[k] + 1 ELSE v[k]
    BY <1>7, <1>10, Zenon
  <2>8. g.shared <= w[k]
    <3>1. g.shared = b.shared /\ b.shared \in Int
      BY <2>2, Counts, Zenon DEF Alike
    <3> QED
      BY <2>3, <2>7, <3>1
  <2>9. b.fds \in Int /\ b.inbox \in Int /\ shared_held \in Int
    BY <1>1, <2>1, Counts, Totals, Zenon
  <2>10. CASE k = n
    <3>1. Innermost(b, v[k])
      BY <1>0, <2>1, <2>3, <2>10, Zenon DEF Account
    <3>2. w[k] + (g.fds + g.inbox) <= shared_held
      <4>1. PICK p \in Int, q \in Int, x \in Int, h \in Int :
                p = b.fds /\ q = b.inbox /\ x = v[k] /\ h = shared_held
        BY <2>7, <2>9, Zenon
      <4>2. x + (p + q) <= h
        BY <3>1, <4>1, Zenon DEF Innermost
      <4>3. d <= n
        BY <1>0, <2>4
      <4>4. CASE d < k
        <5>1. w[k] = x + 1 /\ g.fds = p - 1 /\ g.inbox = q
          BY <2>2, <2>7, <2>10, <4>1, <4>4
        <5>2. (x + 1) + ((p - 1) + q) <= h
          BY <4>2
        <5> QED
          BY <4>1, <5>1, <5>2, Zenon
      <4>5. CASE d = k
        <5>1. w[k] = x /\ g.fds = p - 1 /\ g.inbox = q + 1
          BY <2>2, <2>4, <2>7, <2>10, <4>1, <4>5
        <5>2. x + ((p - 1) + (q + 1)) <= h
          BY <4>2, SMTT(30)
        <5> QED
          BY <4>1, <5>1, <5>2, Zenon
      <4> QED
        BY <2>2, <2>10, <4>3, <4>4, <4>5
    <3>3. Innermost(g, w[k])'
      BY <1>4, <2>2, <2>5, <2>6, <3>1, <3>2, Zenon DEF Innermost, Judged, Alike
    <3> QED
      BY <1>0, <1>1, <1>5, <2>1, <2>3, <2>8, <2>10, <3>3, SMTT(30) DEF Account
  <2>11. CASE k + 1 \in 1 .. n
    <3>0. PICK f : f = calls'[s][k + 1]
      BY Zenon
    <3>1. PICK e \in Call : e = calls[s][k + 1] /\ f = calls'[s][k + 1]
      BY <1>0, <1>1, <2>11, <3>0, Zenon
    <3>2. Alike(f, e)
      BY <1>0, <1>3, <2>11, <3>1, Zenon
    <3>3. e.pc = "running"
      BY <1>11, <2>11, <3>1, Zenon
    <3>4. Before(f)' = Before(e)
      BY <3>2, <3>3, Zenon DEF Before, Alike
    <3>5. Waits(b, e, v[k], v[k + 1])
      BY <1>0, <2>1, <2>3, <2>11, <3>1 DEF Account
    <3>6. w[k] + (g.fds + g.inbox) <= w[k + 1]
      <4>1. v[k + 1] \in Int /\ w[k + 1] = IF d < k + 1 THEN v[k + 1] + 1 ELSE v[k + 1]
        BY <1>7, <1>10, <2>11, Zenon
      <4>2. PICK p \in Int, q \in Int, x \in Int, y \in Int :
                p = b.fds /\ q = b.inbox /\ x = v[k] /\ y = v[k + 1]
        BY <2>7, <2>9, <4>1, Zenon
      <4>3. x + (p + q) <= y /\ g.fds = p /\ k # n
        BY <2>2, <2>11, <3>5, <4>2 DEF Waits
      <4>4. CASE k < d
        BY <2>2, <2>7, <4>1, <4>2, <4>3, <4>4
      <4>5. CASE k = d
        <5>1. w[k] = x /\ g.inbox = q + 1 /\ w[k + 1] = y + 1
          BY <2>2, <2>4, <2>7, <4>1, <4>2, <4>5
        <5>2. x + (p + (q + 1)) <= y + 1
          BY <4>3
        <5> QED
          BY <4>3, <5>1, <5>2, Zenon
      <4>6. CASE d < k
        <5>1. w[k] = x + 1 /\ g.inbox = q /\ w[k + 1] = y + 1
          BY <2>2, <2>7, <4>1, <4>2, <4>6
        <5>2. (x + 1) + (p + q) <= y + 1
          BY <4>3
        <5> QED
          BY <4>3, <5>1, <5>2, Zenon
      <4> QED
        BY <2>2, <4>4, <4>5, <4>6
    <3>7. Waits(g, f, w[k], w[k + 1])'
      BY <2>6, <3>2, <3>4, <3>5, <3>6, Zenon DEF Waits, Alike
    <3>8. k # Depth(s)'
      BY <1>0, <1>5, <2>11, SMTT(30)
    <3> QED
      BY <1>1, <1>5, <2>1, <2>3, <2>8, <3>1, <3>7, <3>8, ZenonT(60) DEF Account
  <2> QED
    BY <1>0, <2>10, <2>11
<1>13. Ledger(s)'
  BY <1>0, <1>5, <1>6, <1>10, <1>12, Zenon DEF Ledger
<1> QED
  BY <1>1, <1>8, <1>13, Zenon DEF AInv

\* A call that returns hands its frames over to its caller, for which they are its child's
\* child's.
LEMMA ReportAccounts ==
    ASSUME IInv, IInv', AInv, NEW s \in Slots, Report(s)
    PROVE  AInv'
<1> DEFINE o == Other(s)
<1>0. PICK n \in Nat : n = Depth(s) /\ n > 0
  BY SlotType, Zenon DEF IInv, Report, At
<1>1. /\ Types /\ Types' /\ Nested(s) /\ Depth(s) > 0
      /\ o \in Slots /\ o # s /\ calls \in [Slots -> Seq(Call)]
      /\ calls[s] \in Seq(Call) /\ (\A d \in 1 .. n : calls[s][d] \in Call)
      /\ \A t \in Slots : t = s \/ t = o
  BY <1>0, SlotType, Zenon DEF IInv, Slots, Other, Types
<1>2. PICK r \in Call : r = Top(s) /\ r = calls[s][n] /\ r.pc = "closed"
  BY <1>0, <1>1, SlotType, Zenon DEF Report, At, Top
<1>3. PICK rest : rest = SubSeq(calls[s], 1, n - 1)
  BY Zenon
<1>4. /\ rest \in Seq(Call) /\ Len(rest) = n - 1
      /\ \A d \in 1 .. n - 1 : rest[d] = calls[s][d]
  BY <1>0, <1>1, <1>3
<1>5. /\ UNCHANGED <<free, shared_held, astray>> /\ calls' = [calls EXCEPT ![s] = rest]
      /\ quarantined' = quarantined + r.held /\ leaked' = leaked + r.spill
  BY <1>0, <1>2, <1>3, Zenon DEF Report, Return
<1>6. /\ calls'[s] = rest /\ calls'[o] = calls[o] /\ Depth(s)' = n - 1 /\ Depth(o)' = Depth(o)
      /\ \A d \in 1 .. n - 1 : calls'[s][d] = calls[s][d] /\ calls[s][d].pc = "running"
  <2>1. calls'[s] = rest /\ calls'[o] = calls[o]
    BY <1>1, <1>5, Zenon
  <2>2. Depth(s)' = n - 1 /\ Depth(o)' = Depth(o)
    BY <1>4, <2>1, Zenon DEF Depth
  <2>3. \A d \in 1 .. n - 1 : calls[s][d].pc = "running"
    BY <1>0, <1>1, Zenon DEF Nested
  <2> QED
    BY <1>4, <2>1, <2>2, <2>3, Zenon
<1>7. Whole(r) /\ r.held \in Nat /\ r.spill \in Nat /\ r.fds \in Nat /\ r.inbox \in Nat
  <2>1. Whole(r)
    BY <1>1, <1>2, WholeTop, Zenon
  <2> QED
    BY <2>1, Zenon DEF Whole
<1>8. /\ free \in Int /\ shared_held \in Int /\ quarantined \in Int /\ leaked \in Int
      /\ astray \in Int
  BY <1>1, Totals, Zenon
<1>9. Grows
  BY <1>5, <1>7, <1>8, SMTT(30) DEF Grows
<1>10. Ledger(o)'
  BY <1>1, <1>6, <1>9, OtherLedger, Zenon
<1>11. ASSUME NEW d \in 1 .. n - 1
       PROVE  Whole(calls[s][d])'
  <2>1. d \in 1 .. n
    BY <1>0
  <2>2. PICK c \in Call : c = calls[s][d]
    BY <1>1, <2>1, Zenon
  <2>3. Whole(c)
    BY <1>0, <2>1, <2>2, Zenon DEF AInv, Ledger
  <2>4. Whole(c)'
    BY <1>1, <1>9, <2>3, WholeStays, Zenon
  <2> QED
    BY <1>6, <2>2, <2>4, Zenon
<1>12. PICK v \in [1 .. n -> Int] : \A d \in 1 .. n : ~calls[s][d].met => Account(s, d, v)
  BY <1>0, Zenon DEF AInv, Ledger
<1>13. PICK w : w = [d \in 1 .. n - 1 |-> v[d]]
  BY Zenon
<1>14. w \in [1 .. n - 1 -> Int] /\ \A d \in 1 .. n - 1 : w[d] = v[d]
  BY <1>0, <1>12, <1>13
<1>15. ASSUME NEW d \in 1 .. n - 1, ~calls'[s][d].met
       PROVE  Account(s, d, w)'
  <2>1. d \in 1 .. n /\ d < n /\ d + 1 \in 1 .. n
    BY <1>0
  <2>2. PICK b \in Call, e \in Call : b = calls[s][d] /\ e = calls[s][d + 1]
    BY <1>1, <2>1, Zenon
  <2>3. b.pc = "running" /\ calls'[s][d] = b /\ ~b.met
    BY <1>6, <1>15, <2>2, Zenon
  <2>4. Account(s, d, v)
    BY <1>12, <2>1, <2>2, <2>3, Zenon
  <2>5. Depth(o) = 0 /\ b.shared <= v[d] /\ Waits(b, e, v[d], v[d + 1])
    BY <1>0, <2>1, <2>2, <2>4, Zenon DEF Account
  <2>6. Before(b)' = Before(b) /\ Own(b)' = Own(b)
    BY <2>3, Zenon DEF Before, Own
  <2>7. CASE d + 1 = n
    <3>1. e = r /\ ~r.met
      BY <1>2, <2>2, <2>5, <2>7, Zenon DEF Waits
    <3>2. Innermost(r, v[n])
      BY <1>0, <1>2, <1>12, <3>1 DEF Account
    <3>3. PICK x \in Int, y \in Int, z \in Int, q \in Nat, p \in Nat :
              x = v[d] /\ y = v[n] /\ z = shared_held /\ q = b.fds + b.inbox /\ p = r.fds + r.inbox
      <4>1. b.fds + b.inbox \in Nat /\ r.fds + r.inbox \in Nat
        <5>1. Whole(b)
          BY <1>0, <2>1, <2>2, Zenon DEF AInv, Ledger
        <5>2. b.fds \in Nat /\ b.inbox \in Nat
          BY <5>1, Zenon DEF Whole
        <5> QED
          BY <1>7, <5>2, SMTT(30)
      <4>2. v[d] \in Int /\ v[n] \in Int
        BY <1>0, <1>12, <2>1
      <4> QED
        BY <1>8, <4>1, <4>2, Zenon
    <3>4. x + q <= z
      <4>1. x + q <= y /\ y + p <= z
        BY <2>5, <2>7, <3>2, <3>3, Zenon DEF Waits, Innermost
      <4> QED
        BY <4>1
    <3>5. Total' = Total + Own(r)
      <4>1. Own(r) = r.held + r.spill
        BY <1>2, Zenon DEF Own, Done
      <4>2. PICK k \in Nat, l \in Nat : k = r.held /\ l = r.spill
        BY <1>7, Zenon
      <4>3. Total' = free + shared_held + (quarantined + k) + (leaked + l) + astray
        BY <1>5, <4>2, Zenon DEF Total
      <4>4. Total = free + shared_held + quarantined + leaked + astray
        BY Zenon DEF Total
      <4>5. PICK f \in Int, h \in Int, u \in Int, m \in Int, a \in Int :
                f = free /\ h = shared_held /\ u = quarantined /\ m = leaked /\ a = astray
        BY <1>8, Zenon
      <4>6. f + h + (u + k) + (m + l) + a = (f + h + u + m + a) + (k + l)
        OBVIOUS
      <4> QED
        BY <4>1, <4>2, <4>3, <4>4, <4>5, <4>6, Zenon
    <3>6. Before(b) = Total' + Own(b)
      BY <2>5, <3>1, <3>2, <3>5, Zenon DEF Waits, Innermost
    <3>7. Innermost(b, v[d])'
      BY <1>5, <2>3, <2>6, <3>3, <3>4, <3>6, Zenon DEF Innermost, Judged
    <3>8. Depth(s)' = d
      BY <1>0, <1>6, <2>7, SMTT(30)
    <3> QED
      BY <1>6, <1>14, <2>3, <2>5, <3>7, <3>8, SMTT(30) DEF Account
  <2>8. CASE d + 1 \in 1 .. n - 1
    <3>1. e.pc = "running" /\ calls'[s][d + 1] = e
      BY <1>6, <2>2, <2>8, Zenon
    <3>2. Before(e)' = Before(e)
      BY <3>1, Zenon DEF Before
    <3>3. Waits(b, e, v[d], v[d + 1])'
      BY <2>5, <2>6, <3>2, Zenon DEF Waits
    <3>4. w[d] = v[d] /\ w[d + 1] = v[d + 1] /\ d # Depth(s)'
      BY <1>0, <1>6, <1>14, <2>8, SMTT(30)
    <3> QED
      BY <1>6, <2>3, <2>5, <3>1, <3>3, <3>4, ZenonT(60) DEF Account
  <2> QED
    BY <1>0, <2>1, <2>7, <2>8
<1>16. Ledger(s)'
  BY <1>6, <1>11, <1>14, <1>15, Zenon DEF Ledger
<1> QED
  BY <1>1, <1>10, <1>16, Zenon DEF AInv

\* A new window counts what there is; the windows of the other slot are met, and have no
\* account to keep any more.
LEMMA OpenAccounts ==
    ASSUME IInv, IInv', AInv, NEW s \in Slots, OpenSpawnWindow(s)
    PROVE  AInv'
<1> DEFINE o == Other(s)
<1>0. PICK n \in Nat : n = Depth(s)
  BY SlotType, Zenon DEF IInv
<1>1. /\ Types /\ Types' /\ Nested(s)
      /\ o \in Slots /\ o # s /\ calls \in [Slots -> Seq(Call)] /\ Depth(o) \in Nat
      /\ DOMAIN calls[o] = 1 .. Depth(o) /\ calls[s] \in Seq(Call) /\ Len(calls[s]) = n
      /\ (\A d \in 1 .. n : calls[s][d] \in Call) /\ (\A d \in 1 .. Depth(o) : calls[o][d] \in Call)
      /\ \A t \in Slots : t = s \/ t = o
  BY <1>0, SlotType, Zenon DEF IInv, Slots, Other, Types, Depth
<1> DEFINE met == Depth(o) > 0
<1>2. met <=> Depth(o) # 0
  BY <1>1
<1> HIDE DEF met
<1>3. PICK c : c =
          [pc |-> "opened", masked |-> s = 0 \/ Depth(s) > 0,
           window |-> OpenWindow(s), met |-> met,
           children |-> quarantined, lost |-> leaked, strays |-> astray,
           free |-> 0, shared |-> shared_held,
           tables |-> 0, leaves |-> 0, heap |-> 0, counted |-> 0, post |-> 0,
           fds |-> 0, inbox |-> 0,
           held |-> 0, spill |-> 0, taken |-> 0, consumed |-> 0, crossed |-> FALSE]
  BY Zenon
<1>4. /\ c.pc = "opened" /\ c.met = met /\ c.children = quarantined /\ c.lost = leaked
      /\ c.strays = astray /\ c.shared = shared_held /\ c.tables = 0 /\ c.leaves = 0
      /\ c.heap = 0 /\ c.counted = 0 /\ c.post = 0 /\ c.fds = 0
      /\ c.inbox = 0 /\ c.held = 0 /\ c.spill = 0 /\ c.taken = 0
  BY <1>3, Zenon
<1>5. PICK theirs : theirs = [d \in DOMAIN calls[o] |-> [calls[o][d] EXCEPT !.met = TRUE]]
  BY Zenon
<1>6. /\ UNCHANGED <<free, shared_held, quarantined, leaked, astray>>
      /\ calls'[s] = Append(calls[s], c) /\ calls'[o] = theirs
      /\ \A d \in 1 .. n : calls[s][d].pc = "running"
  <2>1. /\ UNCHANGED <<free, shared_held, quarantined, leaked, astray>>
        /\ calls'[s] = Append(calls[s], c) /\ calls'[o] = theirs
    BY <1>1, <1>3, <1>5, ZenonT(60) DEF OpenSpawnWindow, met
  <2>2. n > 0 => calls[s][n].pc = "running"
    BY <1>0, SMTT(30) DEF OpenSpawnWindow, Runs, Top
  <2>3. \A d \in 1 .. n - 1 : calls[s][d].pc = "running"
    BY <1>0, <1>1, Zenon DEF Nested
  <2> QED
    BY <2>1, <2>2, <2>3
<1>7. /\ Depth(s)' = n + 1 /\ calls'[s][n + 1] = c
      /\ \A d \in 1 .. n : calls'[s][d] = calls[s][d]
  BY <1>0, <1>1, <1>6 DEF Depth
<1>8. Depth(o)' = Depth(o)
  <2>1. /\ calls'[o] \in Seq(Call) /\ DOMAIN calls'[o] = 1 .. Depth(o)
    BY <1>1, <1>5, <1>6, Zenon DEF Types
  <2>2. Len(calls'[o]) \in Nat /\ 1 .. Len(calls'[o]) = 1 .. Depth(o)
    BY <2>1
  <2>3. Len(calls'[o]) = Depth(o)
    BY <1>1, <2>2
  <2> QED
    BY <2>3, Zenon DEF Depth
<1>9. /\ free \in Int /\ shared_held \in Int /\ quarantined \in Int /\ leaked \in Int
      /\ astray \in Int
  BY <1>1, Totals, Zenon
<1>10. Ledger(o)'
  <2>1. ASSUME NEW d \in 1 .. Depth(o)
        PROVE  calls'[o][d].met /\ Whole(calls[o][d])'
    <3>1. PICK e \in Call : e = calls[o][d]
      BY <1>1, Zenon
    <3>2. Whole(e)
      BY <1>1, <3>1, Zenon DEF AInv, Ledger
    <3>3. PICK f : f = [e EXCEPT !.met = TRUE]
      BY Zenon
    <3>4. /\ f.met = TRUE /\ f.pc = e.pc /\ f.children = e.children /\ f.lost = e.lost
          /\ f.strays = e.strays /\ f.tables = e.tables /\ f.leaves = e.leaves
          /\ f.heap = e.heap /\ f.counted = e.counted /\ f.post = e.post /\ f.fds = e.fds
          /\ f.inbox = e.inbox /\ f.held = e.held /\ f.spill = e.spill /\ f.taken = e.taken
      BY <3>3, Zenon DEF Call
    <3>5. Whole(f)'
      BY <1>6, <3>2, <3>4, Zenon DEF Whole
    <3>6. calls'[o][d] = f
      BY <1>1, <1>5, <1>6, <3>1, <3>3, Zenon
    <3> QED
      BY <3>4, <3>5, <3>6, Zenon
  <2>2. [d \in 1 .. Depth(o) |-> 0] \in [1 .. Depth(o) -> Int]
    OBVIOUS
  <2> QED
    BY <1>8, <2>1, <2>2, Zenon DEF Ledger
<1>11. ASSUME NEW d \in 1 .. n + 1
       PROVE  Whole(calls[s][d])'
  <2>1. CASE d = n + 1
    <3>1. c.children <= quarantined /\ c.lost <= leaked /\ c.strays <= astray
      BY <1>4, <1>9
    <3>2. Whole(c)
      BY <1>4, <3>1, SMTT(30) DEF Whole, Done
    <3>3. Whole(c)'
      BY <1>6, <3>2, Zenon DEF Whole
    <3> QED
      BY <1>7, <2>1, <3>3, Zenon
  <2>2. CASE d \in 1 .. n
    <3>1. Whole(calls[s][d])
      BY <1>0, <2>2, Zenon DEF AInv, Ledger
    <3> QED
      BY <1>6, <1>7, <2>2, <3>1, Zenon DEF Whole
  <2> QED
    BY <1>0, <2>1, <2>2
<1>12. PICK v \in [1 .. n -> Int] : \A d \in 1 .. n : ~calls[s][d].met => Account(s, d, v)
  BY <1>0, Zenon DEF AInv, Ledger
<1>13. PICK w : w = [d \in 1 .. n + 1 |-> IF d = n + 1 THEN shared_held ELSE v[d]]
  BY ZenonT(60)
<1>14. /\ w \in [1 .. n + 1 -> Int] /\ w[n + 1] = shared_held /\ \A d \in 1 .. n : w[d] = v[d]
  BY <1>0, <1>9, <1>12, <1>13, SMTT(30)
<1>15. Before(c)' = Total /\ Total' = Total /\ Own(c)' = 0
  BY <1>4, <1>6 DEF Before, Total, Own, Done
<1>16. ASSUME NEW d \in 1 .. n + 1, ~calls'[s][d].met
       PROVE  Account(s, d, w)'
  <2>1. CASE d = n + 1
    <3>1. Depth(o) = 0
      BY <1>2, <1>4, <1>7, <1>16, <2>1, Zenon
    <3>2. Innermost(c, w[d])'
      <4>1. Before(c)' = Total' + Own(c)'
        BY <1>9, <1>15 DEF Total
      <4>2. w[d] + (c.fds + c.inbox) <= shared_held'
        BY <1>4, <1>6, <1>9, <1>14, <2>1
      <4> QED
        BY <1>4, <4>1, <4>2, Zenon DEF Innermost, Judged
    <3>3. c.shared <= w[d]
      BY <1>4, <1>9, <1>14, <2>1, SMTT(30)
    <3> QED
      BY <1>0, <1>7, <1>8, <2>1, <3>1, <3>2, <3>3, SMTT(30) DEF Account
  <2>2. CASE d \in 1 .. n
    <3>1. PICK b \in Call : b = calls[s][d]
      BY <1>1, <2>2, Zenon
    <3>2. b.pc = "running" /\ calls'[s][d] = b /\ ~b.met
      BY <1>6, <1>7, <1>16, <2>2, <3>1, Zenon
    <3>3. Account(s, d, v) /\ Depth(o) = 0 /\ b.shared <= v[d]
      BY <1>12, <2>2, <3>1, <3>2, Zenon DEF Account
    <3>4. Before(b)' = Before(b) /\ Own(b)' = Own(b) /\ w[d] = v[d]
      BY <1>14, <2>2, <3>2, Zenon DEF Before, Own
    <3>5. Waits(calls[s][d], calls[s][d + 1], w[d], w[d + 1])'
      <4>1. CASE d = n
        <5>1. Innermost(b, v[d])
          BY <1>0, <3>1, <3>3, <4>1, Zenon DEF Account
        <5>2. ~c.met
          BY <1>2, <1>4, <3>3, Zenon
        <5>3. Waits(b, c, w[d], w[d + 1])'
          BY <1>14, <1>15, <3>4, <4>1, <5>1, <5>2, Zenon DEF Waits, Innermost
        <5> QED
          BY <1>7, <3>2, <4>1, <5>3, Zenon
      <4>2. CASE d + 1 \in 1 .. n
        <5>1. PICK e \in Call : e = calls[s][d + 1]
          BY <1>1, <4>2, Zenon
        <5>2. e.pc = "running" /\ calls'[s][d + 1] = e /\ w[d + 1] = v[d + 1]
          BY <1>6, <1>7, <1>14, <4>2, <5>1, Zenon
        <5>3. Waits(b, e, v[d], v[d + 1])
          BY <1>0, <3>1, <3>3, <4>2, <5>1, SMTT(30) DEF Account
        <5>4. Before(e)' = Before(e)
          BY <5>2, Zenon DEF Before
        <5> QED
          BY <3>2, <3>4, <5>2, <5>3, <5>4, Zenon DEF Waits
      <4> QED
        BY <1>0, <2>2, <4>1, <4>2, SMTT(30)
    <3>6. d # Depth(s)'
      BY <1>0, <1>7, <2>2, SMTT(30)
    <3> QED
      BY <1>8, <3>2, <3>3, <3>4, <3>5, <3>6, Zenon DEF Account
  <2> QED
    BY <1>0, <2>1, <2>2, SMTT(30)
<1>17. Ledger(s)'
  BY <1>7, <1>11, <1>14, <1>16, Zenon DEF Ledger
<1> QED
  BY <1>1, <1>10, <1>17, Zenon DEF AInv

\* A step that moves neither frames nor calls.
LEMMA NothingMoves ==
    ASSUME AInv, UNCHANGED <<free, shared_held, quarantined, leaked, astray, calls>>
    PROVE  AInv'
<1>1. ASSUME NEW s \in Slots
      PROVE  Ledger(s)'
  <2>1. Ledger(s)
    BY Zenon DEF AInv
  <2>2. \A c : Whole(c)' <=> Whole(c)
    BY Zenon DEF Whole
  <2>3. \A c : Before(c)' = Before(c) /\ Own(c)' = Own(c)
    BY Zenon DEF Before, Own
  <2>4. \A c, k : Innermost(c, k)' <=> Innermost(c, k)
    BY <2>3, Zenon DEF Innermost, Judged, Total
  <2>5. \A c, e, k, l : Waits(c, e, k, l)' <=> Waits(c, e, k, l)
    BY <2>3, Zenon DEF Waits
  <2>6. \A u : Depth(u)' = Depth(u)
    BY Zenon  DEF Depth
  <2>7. \A d, v : Account(s, d, v)' <=> Account(s, d, v)
    BY <2>4, <2>5, <2>6 DEF Account
  <2> QED
    BY <2>1, <2>2, <2>6, <2>7, Zenon DEF Ledger
<1> QED
  BY <1>1, Zenon DEF AInv

\* Nothing has moved yet.
LEMMA AccountsStart == Init => AInv
<1> SUFFICES ASSUME Init, NEW s \in Slots
             PROVE  Ledger(s)
  BY Zenon DEF AInv
<1>1. Depth(s) = 0
  BY Zenon DEF Init, Depth
<1>2. [d \in 1 .. 0 |-> 0] \in [1 .. 0 -> Int]
  OBVIOUS
<1>3. \A d \in 1 .. 0 : FALSE
  OBVIOUS
<1> QED
  BY <1>1, <1>2, <1>3, ZenonT(60) DEF Ledger

\* Every step keeps the accounts.
LEMMA AccountsKept == IInv /\ IInv' /\ AInv /\ [Next]_vars => AInv'
<1> SUFFICES ASSUME IInv, IInv', AInv, [Next]_vars
             PROVE  AInv'
  BY Zenon
<1>1. CASE UNCHANGED vars
  BY <1>1, NothingMoves, Zenon DEF vars
<1>2. CASE SpawnDetached \/ ChildHasEntered \/ WaitChild
  <2>1. UNCHANGED <<free, shared_held, quarantined, leaked, astray, calls>>
    BY <1>2, Zenon DEF SpawnDetached, ChildHasEntered, WaitChild, Calls
  <2> QED
    BY <2>1, NothingMoves, Zenon
<1>3. ASSUME NEW s \in Slots,
             \/ OpenSpawnWindow(s) \/ CountBefore(s) \/ BeginLoad(s)
             \/ Load(s) \/ LoadFailsHalfway(s) \/ LoadLosesPage(s) \/ LoadFails(s)
             \/ LeaveExcursion(s) \/ Destroy(s)
             \/ CountAfter(s) \/ CloseSpawnWindow(s) \/ Report(s)
             \/ BrkGrows(s) \/ BrkShrinks(s)
             \/ SetSize(s) \/ Mmap(s) \/ CloseShm(s) \/ SendShm(s) \/ ReceiveShm(s)
      PROVE  AInv'
  <2>1. CASE OpenSpawnWindow(s)
    BY <2>1, OpenAccounts, Zenon
  <2>2. CASE Destroy(s)
    BY <2>2, DestroyAccounts, Zenon
  <2>3. CASE CountAfter(s) \/ CloseSpawnWindow(s)
    BY <2>3, JudgeAccounts, Zenon
  <2>4. CASE Report(s)
    BY <2>4, ReportAccounts, Zenon
  <2>5. CASE SendShm(s)
    BY <2>5, SendAccounts, Zenon
  <2>6. CASE \/ CountBefore(s) \/ BeginLoad(s) \/ LoadFails(s)
             \/ LeaveExcursion(s) \/ BrkGrows(s) \/ BrkShrinks(s) \/ SetSize(s) \/ Mmap(s)
             \/ CloseShm(s) \/ ReceiveShm(s)
    BY <2>6, TouchAccounts, Zenon
  <2>7. CASE Load(s) \/ LoadFailsHalfway(s) \/ LoadLosesPage(s)
    BY <2>7, LoadAccounts, Zenon
  <2> QED
    BY <1>3, <2>1, <2>2, <2>3, <2>4, <2>5, <2>6, <2>7, Zenon
<1> QED
  BY <1>1, <1>2, <1>3, Zenon DEF Next

\* The accounts of every call that met no other slot's window balance, in every state.
THEOREM AccountsBalance == Spec => []AInv
<1>1. IInv /\ IInv' /\ AInv /\ [Next]_vars => AInv'
  BY AccountsKept, Zenon
<1> QED
  BY <1>1, AccountsStart, SpawnInvariant, PTL DEF Spec

\* The space of every child is collected to the last frame, for every number of frames,
\* pages and tables: the walk of retire_address_space meets as many frames as the loader,
\* brk and mmap counted one by one while the space grew and brk counted back.
THEOREM SpaceCollected == Spec => []SpaceIsCollected
<1>1. IInv /\ AInv => SpaceIsCollected
  <2> SUFFICES ASSUME IInv, AInv, NEW c \in Closed
               PROVE  c.held + c.spill = c.taken
    BY Zenon DEF SpaceIsCollected
  <2>1. PICK s \in Slots : Depth(s) > 0 /\ c = Top(s)
    BY Zenon DEF Closed
  <2> QED
    BY <2>1, WholeTop, Zenon DEF IInv, Whole
<1> QED
  BY <1>1, SpawnInvariant, AccountsBalance, PTL

\* An uncrossed window judges exactly its own child, for every number of frames, capacity
\* of the quarantine, nesting and number of windows: what left the allocator between its
\* two counts, without what shared memory kept, is what its child and its child's children
\* put into quarantine or leaked, and the pages their loads lost.
THEOREM DifferenceExact == Spec => []DifferenceIsOwn
<1>1. IInv /\ AInv => DifferenceIsOwn
  <2> SUFFICES ASSUME IInv, AInv, NEW c \in Closed, ~c.crossed
               PROVE  c.consumed = Quarantined(c) + AllLeaked(c) + (astray - c.strays)
    BY Zenon DEF DifferenceIsOwn
  <2>1. PICK s \in Slots : Depth(s) > 0 /\ c = Top(s) /\ c.pc = "closed"
    BY Zenon  DEF Closed
  <2>2. Types /\ Windows(s) /\ Depth(s) \in 1 .. Depth(s) /\ c \in Call
    BY <2>1, SlotType, Zenon DEF IInv
  <2>3. ~c.met
    BY <2>1, <2>2, Zenon DEF Windows, Knows, Top
  <2>4. Whole(c) /\ Judged(c)
    BY <2>1, <2>2, <2>3, WholeTop, Zenon DEF Innermost
  <2>5. c.consumed = (c.held + c.spill)
                     + (((quarantined - c.children) + (leaked - c.lost)) + (astray - c.strays))
    BY <2>1, <2>4, Zenon DEF Judged
  <2>6. PICK q \in Int, l \in Int, cc \in Int, cl \in Int, h \in Int, p \in Int, a \in Int, ca \in Int :
            /\ q = quarantined /\ l = leaked /\ cc = c.children /\ cl = c.lost
            /\ h = c.held /\ p = c.spill /\ a = astray /\ ca = c.strays
    BY <2>2, Counts, Totals, Zenon
  <2>7. cc <= q /\ cl <= l
    BY <2>4, <2>6, Zenon DEF Whole
  <2>8. Quarantined(c) = h + (q - cc) /\ AllLeaked(c) = p + (l - cl)
    BY <2>6, <2>7, Zenon DEF Quarantined, AllLeaked, Minus
  <2>9. (h + p) + (((q - cc) + (l - cl)) + (a - ca)) = (h + (q - cc)) + (p + (l - cl)) + (a - ca)
    OBVIOUS
  <2> QED
    BY <2>5, <2>6, <2>8, <2>9, Zenon
<1> QED
  BY <1>1, SpawnInvariant, AccountsBalance, PTL
=============================================================================
