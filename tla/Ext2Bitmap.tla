---------------------------- MODULE Ext2Bitmap ----------------------------
(***************************************************************************)
(* The two bitmaps of an ext2 image and the counts kept beside them        *)
(* (common/src/ext2.rs): a bit per block or inode, a free count per block  *)
(* group and one in the superblock.  A bitmap is a record                  *)
(*   used: the numbers whose bit is set,                                   *)
(*   bg:   the free count of each group's descriptor,                      *)
(*   s:    the free count of the superblock.                               *)
(***************************************************************************)
EXTENDS Integers, FiniteSets

CONSTANTS
    BlocksCount, BlocksPerGroup,           \* blocks are 1..BlocksCount
    InodesCount, InodesPerGroup,           \* inodes are 1..InodesCount
    FirstInode                             \* s_first_ino: the least number given out

ASSUME LayoutAssumption ==
    /\ {BlocksCount, BlocksPerGroup, InodesCount, InodesPerGroup} \subseteq Nat \ {0}
    /\ FirstInode \in Nat

Blocks == 1..BlocksCount
Inodes == 1..InodesCount
BlockGroup == [b \in Blocks |-> (b - 1) \div BlocksPerGroup]
InodeGroup == [i \in Inodes |-> (i - 1) \div InodesPerGroup]
BlockGroups == {BlockGroup[b] : b \in Blocks}
InodeGroups == {InodeGroup[i] : i \in Inodes}

Least(S) == CHOOSE x \in S : \A y \in S : x <= y

Taken(bm, n, group) ==
    [used |-> bm.used \cup {n}, bg |-> [bm.bg EXCEPT ![group] = @ - 1], s |-> bm.s - 1]

Returned(bm, n, group) ==
    [used |-> bm.used \ {n}, bg |-> [bm.bg EXCEPT ![group] = @ + 1], s |-> bm.s + 1]

\* An operation answers with an error or "ok", the bitmap it leaves, and a number.
Answer(err, bm, n) == [err |-> err, bm |-> bm, n |-> n]

\* The groups are searched in order and each from its start: the lowest free
\* number.  A count of 0 beside a clear bit is refused before the bit is set.
allocate_block(bm) ==
    LET free == Blocks \ bm.used
        b == Least(free)
    IN  IF free = {} THEN Answer("Full", bm, 0)
        ELSE IF bm.bg[BlockGroup[b]] = 0 \/ bm.s = 0
             THEN Answer("FreeCountInconsistent", bm, 0)
             ELSE Answer("ok", Taken(bm, b, BlockGroup[b]), b)

free_block(bm, b) ==
    IF b \notin Blocks THEN Answer("BlockOutOfRange", bm, b)
    ELSE IF b \notin bm.used THEN Answer("NotAllocated", bm, b)
    ELSE Answer("ok", Returned(bm, b, BlockGroup[b]), b)

\* As allocate_block, past the reserved numbers; here the bit is set first.
allocate_inode(bm) ==
    LET free == {i \in Inodes \ bm.used : i >= FirstInode}
        i == Least(free)
    IN  IF free = {} THEN Answer("Full", bm, 0)
        ELSE IF bm.bg[InodeGroup[i]] = 0 \/ bm.s = 0
             THEN Answer("FreeCountInconsistent", [bm EXCEPT !.used = @ \cup {i}], 0)
             ELSE Answer("ok", Taken(bm, i, InodeGroup[i]), i)

free_inode(bm, i) ==
    IF i \notin Inodes THEN Answer("InodeOutOfRange", bm, i)
    ELSE IF i \notin bm.used THEN Answer("NotAllocated", bm, i)
    ELSE Answer("ok", Returned(bm, i, InodeGroup[i]), i)

\* The counts say what the bits say, for the numbers All, each in a group.
CountsMatch(bm, All, group) ==
    /\ bm.s = Cardinality(All \ bm.used)
    /\ \A g \in DOMAIN bm.bg : bm.bg[g] = Cardinality({x \in All \ bm.used : group[x] = g})

BlockCountsMatch(bm) == CountsMatch(bm, Blocks, BlockGroup)
InodeCountsMatch(bm) == CountsMatch(bm, Inodes, InodeGroup)
=============================================================================
