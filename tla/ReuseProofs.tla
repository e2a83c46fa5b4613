---------------------------- MODULE ReuseProofs ----------------------------
(***************************************************************************)
(* Handing things out again.  Frames: for any number of cores, frames and  *)
(* quarantine slots, a frame that the allocator may hand out is cached by  *)
(* no core (TlbQuarantine).  Blocks and inodes: taking and giving them     *)
(* back keeps the bitmaps and their counts in agreement, for images of     *)
(* every size and every division into groups (Ext2Bitmap).                 *)
(***************************************************************************)
EXTENDS TlbQuarantine, Ext2Bitmap, FiniteSetTheorems, WellFoundedInduction, TLAPS

(* Frames in quarantine *)

\* The three properties of the quarantine are inductive together.
IInv == TypeOK /\ NoStaleFree /\ FlushDiscipline

\* At boot no core caches anything and every frame is free.
LEMMA InitIInv == Init => IInv
  BY CpuAssumption
  DEF Init, IInv, TypeOK, NoStaleFree, FlushDiscipline, Places, InPlace, Participating

\* Every step of a core, of its page walker, of a destruction (quarantine.rs
\* retire_address_space) and of release_retired preserves the invariant.
LEMMA NextIInv == IInv /\ [Next]_vars => IInv'
<1> SUFFICES ASSUME IInv, [Next]_vars PROVE IInv'
  BY Zenon
<1> USE CpuAssumption, BoundsAssumption
    DEF IInv, TypeOK, NoStaleFree, FlushDiscipline, Places, InPlace, Participating
<1>1. ASSUME NEW c \in Cpus, StartAp(c) PROVE IInv'
  BY <1>1, Zenon DEF StartAp
<1>2. ASSUME NEW c \in Cpus, Acquire(c) PROVE IInv'
  <2>1. CASE seen[c] = generation
    BY <1>2, <2>1, Zenon DEF Acquire, Flushed
  <2>2. CASE seen[c] # generation
    BY <1>2, <2>2 DEF Acquire, Flushed
  <2> QED BY <2>1, <2>2, Zenon
<1>3. ASSUME NEW c \in Cpus, Release(c) PROVE IInv'
  BY <1>3, Zenon DEF Release
<1>4. ASSUME NEW c \in Cpus, NoteMappingChanged(c) PROVE IInv'
  BY <1>4 DEF NoteMappingChanged
<1>5. ASSUME NEW c \in Cpus, NEW f \in Frames, Walk(c, f) PROVE IInv'
  BY <1>5, Zenon DEF Walk
<1>6. ASSUME NEW c \in Cpus, NEW space \in SUBSET Frames, NEW drop_held \in BOOLEAN,
             NEW collected \in SUBSET space, Detach(c, space, collected, drop_held)
      PROVE IInv'
  BY <1>6, Zenon DEF Detach
<1>7. ASSUME NEW c \in Cpus, NEW kept \in SUBSET Frames, PushAll(c, kept) PROVE IInv'
  BY <1>7 DEF PushAll
<1>8. ASSUME NEW f \in Frames, Map(f) PROVE IInv'
  BY <1>8, Zenon DEF Map
<1>9. ASSUME NEW accepted \in SUBSET Frames, ReleaseRetired(accepted) PROVE IInv'
  BY <1>9, Zenon DEF ReleaseRetired, generation_is_retired
<1>10. CASE UNCHANGED vars
  BY <1>10, Zenon DEF vars
<1> HIDE DEF IInv
<1> QED
  BY <1>1, <1>2, <1>3, <1>4, <1>5, <1>6, <1>7, <1>8, <1>9, <1>10 DEF Next

\* The variables of the lock, the TLB generation and the quarantine keep their types,
\* and no core's SEEN_GENERATION runs ahead of TLB_GENERATION.
THEOREM TypeCorrect == Spec => []TypeOK
  BY InitIInv, NextIInv, PTL DEF Spec, IInv

\* ADR-0027's addendum: the quarantine never returns a frame that some core, however
\* late it started, can still reach through its TLB.
THEOREM NoStaleFreeCorrect == Spec => []NoStaleFree
  BY InitIInv, NextIInv, PTL DEF Spec, IInv

\* Why it never does: a core that is not running caches nothing, and one that has seen the
\* generation of a quarantined frame no longer caches the frame (flush_if_generation_is_stale
\* clears the TLB whenever it advances SEEN_GENERATION).
THEOREM FlushDisciplineCorrect == Spec => []FlushDiscipline
  BY InitIInv, NextIInv, PTL DEF Spec, IInv

----------------------------------------------------------------------------
(* Blocks and inodes *)

\* A bitmap over the numbers All whose counts say what its bits say.
Sound(bm, All, group, Groups) ==
    /\ bm \in [used : SUBSET All, bg : [Groups -> Nat], s : Nat]
    /\ CountsMatch(bm, All, group)

SoundBlocks(bm) == Sound(bm, Blocks, BlockGroup, BlockGroups)
SoundInodes(bm) == Sound(bm, Inodes, InodeGroup, InodeGroups)

\* A set of numbers that is not empty has a least member, which the search of the
\* bitmaps finds.
LEMMA LeastIsMember ==
    ASSUME NEW S \in SUBSET Nat, S # {}
    PROVE  Least(S) \in S
<1> DEFINE Below == OpToRel(<, Nat)
<1>1. IsWellFoundedOn(Below, Nat)
  BY NatLessThanWellFounded, Zenon
<1>2. \A x, y \in Nat : x < y => <<x, y>> \in Below
  BY Zenon DEF OpToRel
<1> HIDE DEF Below
<1>3. PICK x \in S : \A y \in S : ~(<<y, x>> \in Below)
  BY <1>1, WFMin, Zenon
<1>4. ASSUME NEW y \in S
      PROVE  x <= y
  <2>1. x \in Nat /\ y \in Nat
    BY Zenon
  <2>2. ~(y < x)
    BY <1>2, <1>3, <2>1, Zenon
  <2> QED
    BY <2>1, <2>2
<1> QED
  BY <1>3, <1>4, Zenon DEF Least

\* The clear bits of a finite bitmap, and those of one of its groups, can be counted.
LEMMA FreeOfGroup ==
    ASSUME NEW All, IsFiniteSet(All), NEW group, NEW used, NEW g
    PROVE  /\ IsFiniteSet(All \ used) /\ IsFiniteSet({x \in All \ used : group[x] = g})
           /\ Cardinality(All \ used) \in Nat
           /\ Cardinality({x \in All \ used : group[x] = g}) \in Nat
<1>1. All \ used \in SUBSET All /\ {x \in All \ used : group[x] = g} \in SUBSET All
  BY Zenon
<1>2. IsFiniteSet(All \ used) /\ IsFiniteSet({x \in All \ used : group[x] = g})
  BY <1>1, FS_Subset, Zenon
<1> QED
  BY <1>2, FS_CardinalityType, Zenon

\* A clear bit has a count of at least 1 beside it, in its group and in all.
LEMMA ClearBitIsCounted ==
    ASSUME NEW All, IsFiniteSet(All), NEW group, NEW Groups, NEW bm,
           Sound(bm, All, group, Groups), NEW n \in All \ bm.used, group[n] \in Groups
    PROVE  bm.s # 0 /\ bm.bg[group[n]] # 0
<1> DEFINE In == {x \in All \ bm.used : group[x] = group[n]}
<1>1. n \in In /\ In # {} /\ All \ bm.used # {}
  BY Zenon
<1>2. IsFiniteSet(All \ bm.used) /\ IsFiniteSet(In)
  <2>1. In \in SUBSET All /\ All \ bm.used \in SUBSET All
    BY Zenon
  <2> HIDE DEF In
  <2> QED
    BY <2>1, FS_Subset, Zenon
<1>3. Cardinality(In) # 0 /\ Cardinality(All \ bm.used) # 0
  <2> HIDE DEF In
  <2> QED
    BY <1>1, <1>2, FS_EmptySet, Zenon
<1>4. DOMAIN bm.bg = Groups
  BY Zenon DEF Sound
<1> QED
  BY <1>3, <1>4, Zenon DEF Sound, CountsMatch

\* Setting a clear bit and lowering both counts keeps bits and counts in agreement.
LEMMA TakenIsSound ==
    ASSUME NEW All, IsFiniteSet(All), NEW group, NEW Groups, NEW bm,
           Sound(bm, All, group, Groups), NEW n \in All \ bm.used, group[n] \in Groups
    PROVE  Sound(Taken(bm, n, group[n]), All, group, Groups)
<1> DEFINE new == Taken(bm, n, group[n])
           Free(g) == {x \in All \ bm.used : group[x] = g}
           FreeNow(g) == {x \in All \ new.used : group[x] = g}
<1>1. bm.s \in Nat \ {0} /\ bm.bg[group[n]] \in Nat \ {0}
  BY ClearBitIsCounted, Zenon DEF Sound
<1>2. new \in [used : SUBSET All, bg : [Groups -> Nat], s : Nat]
  BY <1>1 DEF Taken, Sound
<1>3. new.s = Cardinality(All \ new.used)
  <2>1. All \ new.used = (All \ bm.used) \ {n}
    BY Zenon DEF Taken
  <2>2. Cardinality((All \ bm.used) \ {n}) = Cardinality(All \ bm.used) - 1
    BY FreeOfGroup, FS_RemoveElement, Zenon
  <2> QED
    BY <2>1, <2>2, Zenon DEF Taken, Sound, CountsMatch
<1>4. ASSUME NEW g \in Groups
      PROVE  new.bg[g] = Cardinality(FreeNow(g))
  <2>1. bm.bg[g] = Cardinality(Free(g)) /\ bm.bg \in [Groups -> Nat]
    BY Zenon DEF Sound, CountsMatch
  <2>2. CASE g = group[n]
    <3>1. FreeNow(g) = Free(g) \ {n} /\ n \in Free(g)
      BY <2>2, Zenon DEF Taken
    <3>2. IsFiniteSet(Free(g))
      <4>1. Free(g) \in SUBSET All
        BY Zenon
      <4> HIDE DEF Free
      <4> QED
        BY <4>1, FS_Subset, Zenon
    <3>3. Cardinality(Free(g) \ {n}) = Cardinality(Free(g)) - 1
      <4> HIDE DEF Free
      <4> QED
        BY <3>1, <3>2, FS_RemoveElement, Zenon
    <3>4. new.bg[g] = bm.bg[g] - 1
      BY <2>1, <2>2, Zenon DEF Taken
    <3> QED
      BY <2>1, <3>1, <3>3, <3>4, Zenon
  <2>3. CASE g # group[n]
    <3>1. FreeNow(g) = Free(g)
      BY <2>3, Zenon DEF Taken
    <3>2. new.bg[g] = bm.bg[g]
      BY <2>1, <2>3, Zenon DEF Taken
    <3> QED
      BY <2>1, <3>1, <3>2, Zenon
  <2> QED
    BY <2>2, <2>3, Zenon
<1>5. DOMAIN new.bg = Groups
  BY <1>2, Zenon
<1> QED
  BY <1>2, <1>3, <1>4, <1>5, Zenon DEF Sound, CountsMatch

\* Clearing a set bit and raising both counts keeps bits and counts in agreement.
LEMMA ReturnedIsSound ==
    ASSUME NEW All, IsFiniteSet(All), NEW group, NEW Groups, NEW bm,
           Sound(bm, All, group, Groups), NEW n \in bm.used, group[n] \in Groups
    PROVE  Sound(Returned(bm, n, group[n]), All, group, Groups)
<1> DEFINE new == Returned(bm, n, group[n])
           Free(g) == {x \in All \ bm.used : group[x] = g}
           FreeNow(g) == {x \in All \ new.used : group[x] = g}
<1>1. n \in All /\ bm.used \in SUBSET All
  BY Zenon DEF Sound
<1>2. new \in [used : SUBSET All, bg : [Groups -> Nat], s : Nat]
  BY DEF Returned, Sound
<1>3. new.s = Cardinality(All \ new.used)
  <2>1. All \ new.used = (All \ bm.used) \cup {n} /\ n \notin All \ bm.used
    BY <1>1, Zenon DEF Returned
  <2>2. Cardinality((All \ bm.used) \cup {n}) = Cardinality(All \ bm.used) + 1
    BY <2>1, FreeOfGroup, FS_AddElement, Zenon
  <2> QED
    BY <2>1, <2>2, Zenon DEF Returned, Sound, CountsMatch
<1>4. ASSUME NEW g \in Groups
      PROVE  new.bg[g] = Cardinality(FreeNow(g))
  <2>1. bm.bg[g] = Cardinality(Free(g)) /\ bm.bg \in [Groups -> Nat]
    BY Zenon DEF Sound, CountsMatch
  <2>2. CASE g = group[n]
    <3>1. FreeNow(g) = Free(g) \cup {n} /\ n \notin Free(g)
      BY <1>1, <2>2, Zenon DEF Returned
    <3>2. IsFiniteSet(Free(g))
      <4>1. Free(g) \in SUBSET All
        BY Zenon
      <4> HIDE DEF Free
      <4> QED
        BY <4>1, FS_Subset, Zenon
    <3>3. Cardinality(Free(g) \cup {n}) = Cardinality(Free(g)) + 1
      <4> HIDE DEF Free
      <4> QED
        BY <3>1, <3>2, FS_AddElement, Zenon
    <3>4. new.bg[g] = bm.bg[g] + 1
      BY <2>1, <2>2, Zenon DEF Returned
    <3> QED
      BY <2>1, <3>1, <3>3, <3>4, Zenon
  <2>3. CASE g # group[n]
    <3>1. FreeNow(g) = Free(g)
      BY <2>3, Zenon DEF Returned
    <3>2. new.bg[g] = bm.bg[g]
      BY <2>1, <2>3, Zenon DEF Returned
    <3> QED
      BY <2>1, <3>1, <3>2, Zenon
  <2> QED
    BY <2>2, <2>3, Zenon
<1>5. DOMAIN new.bg = Groups
  BY <1>2, Zenon
<1> QED
  BY <1>2, <1>3, <1>4, <1>5, Zenon DEF Sound, CountsMatch

\* Giving back what was just taken leaves the bitmap and every count as before.
LEMMA TakenAndReturned ==
    ASSUME NEW All, NEW group, NEW Groups, NEW bm,
           Sound(bm, All, group, Groups), NEW n \in All \ bm.used, group[n] \in Groups
    PROVE  Returned(Taken(bm, n, group[n]), n, group[n]) = bm
<1> DEFINE g == group[n]
           taken == Taken(bm, n, g)
<1>1. bm = [used |-> bm.used, bg |-> bm.bg, s |-> bm.s]
      /\ bm.bg \in [Groups -> Nat] /\ bm.s \in Nat
  BY Zenon DEF Sound
<1>2. (bm.used \cup {n}) \ {n} = bm.used /\ (bm.s - 1) + 1 = bm.s
  BY <1>1
<1>3. [[bm.bg EXCEPT ![g] = @ - 1] EXCEPT ![g] = @ + 1] = bm.bg
  <2> DEFINE less == [bm.bg EXCEPT ![g] = @ - 1]
             more == [less EXCEPT ![g] = @ + 1]
  <2>1. less = [h \in Groups |-> IF h = g THEN bm.bg[h] - 1 ELSE bm.bg[h]] /\ g \in Groups
    BY <1>1, Zenon
  <2>2. more = [h \in Groups |-> IF h = g THEN less[h] + 1 ELSE less[h]]
    BY <2>1, Zenon
  <2>3. \A h \in Groups : more[h] = bm.bg[h]
    <3> HIDE DEF less, more
    <3>1. \A h \in Groups : less[h] = IF h = g THEN bm.bg[h] - 1 ELSE bm.bg[h]
      BY <2>1, Zenon
    <3>2. \A h \in Groups : more[h] = IF h = g THEN less[h] + 1 ELSE less[h]
      BY <2>2, Zenon
    <3>3. \A h \in Groups : bm.bg[h] \in Nat
      BY <1>1, Zenon
    <3> QED
      BY <3>1, <3>2, <3>3
  <2>4. more = [h \in Groups |-> more[h]] /\ bm.bg = [h \in Groups |-> bm.bg[h]]
    <3> HIDE DEF less
    <3> QED
      BY <1>1, <2>2, Zenon
  <2> HIDE DEF more
  <2>5. more = bm.bg
    BY <2>3, <2>4, Zenon
  <2> QED
    BY <2>5, Zenon DEF more
<1> QED
  BY <1>1, <1>2, <1>3, Zenon DEF Taken, Returned

\* Blocks and inodes are finitely many numbers, each in one of the groups.
LEMMA Numbers ==
    /\ IsFiniteSet(Blocks) /\ Blocks \in SUBSET Nat /\ \A b \in Blocks : BlockGroup[b] \in BlockGroups
    /\ IsFiniteSet(Inodes) /\ Inodes \in SUBSET Nat /\ \A i \in Inodes : InodeGroup[i] \in InodeGroups
<1>1. BlocksCount \in Nat /\ InodesCount \in Nat
  BY LayoutAssumption, Zenon
<1>2. IsFiniteSet(1..BlocksCount) /\ IsFiniteSet(1..InodesCount)
  BY <1>1, FS_Interval
<1> QED
  BY <1>1, <1>2 DEF Blocks, Inodes, BlockGroups, InodeGroups

\* allocate_block on an image whose counts are right: it never finds them
\* wrong, it fails only when every bit is set, and otherwise hands out a block
\* whose bit was clear and leaves the counts right.
THEOREM AllocateBlockIsSound ==
    ASSUME NEW bm, SoundBlocks(bm)
    PROVE  LET a == allocate_block(bm)
           IN  \/ a.err = "Full" /\ a.bm = bm /\ bm.used = Blocks
               \/ a.err = "ok" /\ a.n \in Blocks \ bm.used /\ SoundBlocks(a.bm)
                  /\ a.bm.used = bm.used \cup {a.n}
<1> DEFINE free == Blocks \ bm.used
           b == Least(free)
<1>1. bm.used \in SUBSET Blocks
  BY Zenon DEF SoundBlocks, Sound
<1>2. CASE free = {}
  BY <1>1, <1>2, Zenon DEF allocate_block, Answer
<1>3. CASE free # {}
  <2>1. b \in free /\ BlockGroup[b] \in BlockGroups
    BY <1>3, Numbers, LeastIsMember, Zenon
  <2>2. bm.s # 0 /\ bm.bg[BlockGroup[b]] # 0
    BY <2>1, Numbers, ClearBitIsCounted, Zenon DEF SoundBlocks
  <2>3. SoundBlocks(Taken(bm, b, BlockGroup[b]))
    BY <2>1, Numbers, TakenIsSound, Zenon DEF SoundBlocks
  <2>4. allocate_block(bm) = Answer("ok", Taken(bm, b, BlockGroup[b]), b)
    BY <1>3, <2>2, Zenon DEF allocate_block
  <2>5. /\ allocate_block(bm).err = "ok" /\ allocate_block(bm).n = b
        /\ allocate_block(bm).bm = Taken(bm, b, BlockGroup[b])
    BY <2>4 DEF Answer
  <2>6. Taken(bm, b, BlockGroup[b]).used = bm.used \cup {b}
    BY Zenon DEF Taken
  <2> HIDE DEF b
  <2> QED
    BY <2>1, <2>3, <2>5, <2>6, Zenon
<1> QED
  BY <1>2, <1>3, Zenon

\* free_block leaves the counts right, and refuses a block that is not taken.
THEOREM FreeBlockIsSound ==
    ASSUME NEW bm, SoundBlocks(bm), NEW b
    PROVE  /\ SoundBlocks(free_block(bm, b).bm)
           /\ free_block(bm, b).err = "ok" <=> b \in bm.used
<1>1. bm.used \in SUBSET Blocks
  BY Zenon DEF SoundBlocks, Sound
<1>2. CASE b \in bm.used
  <2>1. SoundBlocks(Returned(bm, b, BlockGroup[b]))
    BY <1>1, <1>2, Numbers, ReturnedIsSound, Zenon DEF SoundBlocks
  <2> QED
    BY <1>1, <1>2, <2>1, Zenon DEF free_block, Answer
<1>3. CASE b \notin bm.used
  BY <1>3, Zenon DEF free_block, Answer
<1> QED
  BY <1>2, <1>3, Zenon

\* free_block is "exactly the reverse" of allocate_block: every bit and count
\* is as it was.
THEOREM BlockRoundTrip ==
    ASSUME NEW bm, SoundBlocks(bm), allocate_block(bm).err = "ok"
    PROVE  LET a == allocate_block(bm)
           IN  free_block(a.bm, a.n).err = "ok" /\ free_block(a.bm, a.n).bm = bm
<1> DEFINE free == Blocks \ bm.used
           b == Least(free)
<1>1. free # {}
  BY Zenon DEF allocate_block, Answer
<1>2. b \in free /\ BlockGroup[b] \in BlockGroups
  BY <1>1, Numbers, LeastIsMember, Zenon
<1>3. allocate_block(bm) = Answer("ok", Taken(bm, b, BlockGroup[b]), b)
  BY <1>1, Zenon DEF allocate_block, Answer
<1>4. Returned(Taken(bm, b, BlockGroup[b]), b, BlockGroup[b]) = bm
  BY <1>2, TakenAndReturned, Zenon DEF SoundBlocks
<1>5. b \in Taken(bm, b, BlockGroup[b]).used /\ b \in Blocks
  BY <1>2, Zenon DEF Taken
<1> QED
  BY <1>3, <1>4, <1>5 DEF free_block, Answer

\* allocate_inode and free_inode on an image whose counts are right: no
\* reserved number is handed out, none that is in use, the counts stay right,
\* and giving the inode back restores every bit and count.
THEOREM InodeRoundTrip ==
    ASSUME NEW bm, SoundInodes(bm)
    PROVE  LET a == allocate_inode(bm)
           IN  \/ a.err = "Full" /\ a.bm = bm /\ \A i \in Inodes \ bm.used : ~(i >= FirstInode)
               \/ /\ a.err = "ok" /\ a.n \in Inodes \ bm.used /\ a.n >= FirstInode
                  /\ SoundInodes(a.bm)
                  /\ free_inode(a.bm, a.n).err = "ok" /\ free_inode(a.bm, a.n).bm = bm
<1> DEFINE free == {i \in Inodes \ bm.used : i >= FirstInode}
           n == Least(free)
<1>1. CASE free = {}
  BY <1>1, Zenon DEF allocate_inode, Answer
<1>2. CASE free # {}
  <2>1. n \in free /\ n \in Inodes \ bm.used /\ n >= FirstInode /\ InodeGroup[n] \in InodeGroups
    <3>1. free \in SUBSET Nat
      BY Numbers, Zenon
    <3>2. n \in free
      BY <1>2, <3>1, LeastIsMember, Zenon
    <3> QED
      BY <3>2, Numbers, Zenon
  <2>2. bm.s # 0 /\ bm.bg[InodeGroup[n]] # 0
    BY <2>1, Numbers, ClearBitIsCounted, Zenon DEF SoundInodes
  <2>3. SoundInodes(Taken(bm, n, InodeGroup[n]))
    BY <2>1, Numbers, TakenIsSound, Zenon DEF SoundInodes
  <2>4. allocate_inode(bm) = Answer("ok", Taken(bm, n, InodeGroup[n]), n)
    BY <1>2, <2>2, Zenon DEF allocate_inode
  <2>5. Returned(Taken(bm, n, InodeGroup[n]), n, InodeGroup[n]) = bm
    BY <2>1, TakenAndReturned DEF SoundInodes
  <2>6. n \in Taken(bm, n, InodeGroup[n]).used
    BY Zenon DEF Taken
  <2> QED
    BY <2>1, <2>3, <2>4, <2>5, <2>6 DEF free_inode, Answer
<1> QED
  BY <1>1, <1>2, Zenon

============================================================================
