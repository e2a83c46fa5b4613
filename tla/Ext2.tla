------------------------------- MODULE Ext2 -------------------------------
(***************************************************************************)
(* Writing to an ext2 image (common/src/ext2.rs): appending to a file,     *)
(* cutting it, and making and removing files and directories.  Each        *)
(* function of the source is an operator from the image and its arguments  *)
(* to [err, img, n]: the error or "ok", the image it leaves (an error may  *)
(* leave a changed one), and the number it returns.                        *)
(*                                                                         *)
(* An image is a record: the two bitmaps, used_dirs per group, the inodes, *)
(* and per block its contents: units of bytes, the block numbers of a      *)
(* single indirect table, or the entries of a directory.  Lengths of       *)
(* entries are counted in the length of the shortest one.  A directory has *)
(* one block: nothing in the source makes one longer.                      *)
(*                                                                         *)
(* The inode table is a row of words, since truncate_to walks it by the    *)
(* size of a file and not by the length of i_block.  Words that are 0 in   *)
(* every inode are left out, so an inode is shorter than its 64 words:     *)
(*   mode, size, links, blocks, i_block, extra.                            *)
(* Blocks that hold the bitmaps and tables themselves are left out too.    *)
(***************************************************************************)
EXTENDS Ext2Bitmap, Sequences, SequencesExt

CONSTANTS
    BlockSize,      \* units in a block
    Direct,         \* DIRECT_BLOCK_COUNT
    TableSize,      \* block_size / INDIRECT_ENTRY_SIZE
    SectorsPerBlock,
    ExtraSize,      \* s_want_extra_isize
    DirSpan,        \* the length of a directory's block
    Span            \* dirent_span of each name

ASSUME Ext2Assumption ==
    /\ {BlockSize, Direct, TableSize, SectorsPerBlock, DirSpan} \subseteq Nat \ {0}
    /\ ExtraSize \in Nat
    /\ {".", ".."} \subseteq DOMAIN Span
    /\ Span["."] + Span[".."] <= DirSpan

Root == 2
DotNames == {".", ".."}
Slots == 1..(Direct + 1)           \* i_block: the direct slots and the single indirect one
NoUnits == [u \in 1..BlockSize |-> 0]
ZeroBlock == [units |-> NoUnits, table |-> [e \in 1..TableSize |-> 0], entries |-> <<>>]
ZeroInode ==
    [mode |-> "none", size |-> 0, links |-> 0, blocks |-> 0, i_block |-> [s \in Slots |-> 0],
     extra |-> 0]

\* div_ceil(block_size).
BlocksFor(size) == (size + BlockSize - 1) \div BlockSize

Ok(img, n) == [err |-> "ok", img |-> img, n |-> n]
Err(err, img) == [err |-> err, img |-> img, n |-> 0]

\* The ? operator: go on with what a step left, or stop with its error.
Then(r, Step(_, _)) == IF r.err = "ok" THEN Step(r.img, r.n) ELSE r

\* An operation on one of the bitmaps as one on the image.
OnBlocks(img, a) == [err |-> a.err, img |-> [img EXCEPT !.block_bitmap = a.bm], n |-> a.n]
OnInodes(img, a) == [err |-> a.err, img |-> [img EXCEPT !.inode_bitmap = a.bm], n |-> a.n]

----------------------------------------------------------------------------
(* The contents of files *)

\* Mutant: the room in the last block is not looked at.
AppendAlwaysAllocates(ino, r, unit) ==
    LET size == r.n
        slot == size \div BlockSize + 1
        at == (size % BlockSize) + 1
    IN  IF r.err # "ok" THEN r
        ELSE IF slot > Direct THEN Err("Full", r.img)
        ELSE Then(OnBlocks(r.img, allocate_block(r.img.block_bitmap)), LAMBDA img, b :
                Ok([img EXCEPT !.inodes[ino].i_block[slot] = b,
                               !.body[b].units[at] = unit],
                   size + 1))

\* One unit of append_to_file: a unit at the start of a block allocates and
\* links the block first.  The size is in r.n until the end.
AppendUnit(ino, r, unit) ==
    LET size == r.n
        slot == size \div BlockSize + 1
        at == (size % BlockSize) + 1
        got == IF at = 1 THEN OnBlocks(r.img, allocate_block(r.img.block_bitmap))
                         ELSE Ok(r.img, r.img.inodes[ino].i_block[slot])
    IN  IF r.err # "ok" THEN r
        ELSE IF slot > Direct THEN Err("Full", r.img)
        ELSE Then(got, LAMBDA img, b :
                Ok([img EXCEPT !.inodes[ino].i_block[slot] = b,
                               !.body[b].units[at] = unit],
                   size + 1))

\* Size and blocks change only when everything fitted.
append_to_file(img0, ino, data) ==
    Then(FoldLeft(LAMBDA r, unit : AppendUnit(ino, r, unit),
                  Ok(img0, img0.inodes[ino].size), data),
         LAMBDA img, size :
            Ok([img EXCEPT !.inodes[ino].size = size,
                           !.inodes[ino].blocks = BlocksFor(size)], 0))

\* The words of an inode, read as block numbers.  A mode, and a link count in
\* the upper half of its word, is more than the blocks of the image; i_blocks
\* counts sectors (in the record of the inode, blocks).
Header == 4
Words == Header + (Direct + 1) + 1
TooLarge == BlocksCount + 1
WordsOf(node) ==
    <<IF node.mode = "none" THEN 0 ELSE TooLarge, node.size,
      IF node.links = 0 THEN 0 ELSE TooLarge, node.blocks * SectorsPerBlock>>
        \o node.i_block \o <<node.extra>>

ZeroWord(node, w) ==
    CASE w = 1     -> [node EXCEPT !.mode = "none"]
      [] w = 2     -> [node EXCEPT !.size = 0]
      [] w = 3     -> [node EXCEPT !.links = 0]
      [] w = 4     -> [node EXCEPT !.blocks = 0]
      [] w = Words -> [node EXCEPT !.extra = 0]
      [] OTHER     -> [node EXCEPT !.i_block[w - Header] = 0]

\* i_block_slot: the inode and the word at an index, which is i_block's as long
\* as the index is inside it, and then whatever follows in the inode table.
i_block_slot(ino, index) ==
    [ino |-> ino + (Header + index) \div Words, word |-> ((Header + index) % Words) + 1]

\* read_u32 at a slot.
ReadSlot(img, slot) == WordsOf(img.inodes[slot.ino])[slot.word]

\* Mutant: the block keeps what was written to it.
FreeSlotUnwiped(ino, r, index) ==
    LET slot == i_block_slot(ino, index)
        b == ReadSlot(r.img, slot)
    IN  IF r.err # "ok" \/ b = 0 THEN r
        ELSE LET img == [r.img EXCEPT !.inodes[slot.ino] = ZeroWord(@, slot.word)]
             IN  OnBlocks(img, free_block(img.block_bitmap, b))

\* Give the block back that an index leads to, wiped.  At the single indirect
\* slot the table goes and what it lists does not; further on, the number read
\* is no block of the file.
FreeSlot(ino, r, index) ==
    LET slot == i_block_slot(ino, index)
        b == ReadSlot(r.img, slot)
    IN  IF r.err # "ok" \/ b = 0 THEN r
        ELSE LET img == [r.img EXCEPT
                            !.body = [k \in Blocks |-> IF k = b THEN ZeroBlock ELSE @[k]],
                            !.inodes[slot.ino] = ZeroWord(@, slot.word)]
             IN  OnBlocks(img, free_block(img.block_bitmap, b))

truncate_to(img0, ino, target) ==
    LET size == img0.inodes[ino].size
        keep == BlocksFor(target)
        tail == target % BlockSize
        Wiped(img) ==
            LET b == IF keep = 0 THEN 0 ELSE ReadSlot(img, i_block_slot(ino, keep - 1))
            IN  IF b \notin Blocks \/ tail = 0 THEN img
                ELSE [img EXCEPT !.body[b].units =
                        [u \in 1..BlockSize |-> IF u > tail THEN 0 ELSE @[u]]]
    IN  IF target > size THEN Err("NotAllocated", img0)
        ELSE Then(FoldLeft(LAMBDA r, index : FreeSlot(ino, r, index), Ok(img0, 0),
                           Reverse([k \in 1..(BlocksFor(size) - keep) |-> keep + k - 1])),
                  LAMBDA img, n :
                    Ok([Wiped(img) EXCEPT !.inodes[ino].size = target,
                                          !.inodes[ino].blocks = keep], 0))

\* The contents of a block; a hole, number 0, reads as zeros.
Body(img, b) == IF b = 0 THEN ZeroBlock ELSE img.body[b]

\* Reading a file: the units below its size, through the table where needed.
BlockNumberOf(img, ino, slot) ==
    IF slot <= Direct THEN img.inodes[ino].i_block[slot]
    ELSE Body(img, img.inodes[ino].i_block[Direct + 1]).table[slot - Direct]

Contents(img, ino) ==
    [k \in 1..img.inodes[ino].size |->
        Body(img, BlockNumberOf(img, ino, (k - 1) \div BlockSize + 1))
            .units[((k - 1) % BlockSize) + 1]]

----------------------------------------------------------------------------
(* Directories *)

DirBlock(img, dir) == img.inodes[dir].i_block[1]
Entries(img, dir) == Body(img, DirBlock(img, dir)).entries
Entry(ino, name, rec_len) == [ino |-> ino, name |-> name, rec_len |-> rec_len]

\* The lengths lead from entry to entry to the end of the block, and every
\* entry has room for its name.
Parses(entries) ==
    /\ MapThenSumSet(LAMBDA k : entries[k].rec_len, DOMAIN entries) = DirSpan
    /\ \A k \in DOMAIN entries : entries[k].rec_len >= Span[entries[k].name]

\* Where the name is, and the first entry with want to spare; 0 for nowhere.
Found(entries, name) == SelectInSeq(entries, LAMBDA e : e.name = name)

scan_directory(img, dir, name, want) ==
    LET entries == Entries(img, dir)
    IN  [err |-> IF img.inodes[dir].mode # "directory" THEN "NotADirectory"
                 ELSE IF DirBlock(img, dir) # 0 /\ ~Parses(entries) THEN "DirectoryCorrupt"
                 ELSE "ok",
         found |-> Found(entries, name),
         room |-> SelectInSeq(entries, LAMBDA e : e.rec_len - Span[e.name] >= want)]

\* The entry at position k is cut to its own length; the new one takes the rest.
insert_dirent(img, dir, k, ino, name) ==
    LET e == Entries(img, dir)
        own == Span[e[k].name]
    IN  [img EXCEPT !.body[DirBlock(img, dir)].entries =
            InsertAt([e EXCEPT ![k].rec_len = own], k + 1, Entry(ino, name, e[k].rec_len - own))]

\* The entry before takes the gap.
remove_dirent(img, dir, k) ==
    LET e == Entries(img, dir)
    IN  [img EXCEPT !.body[DirBlock(img, dir)].entries =
            RemoveAt([e EXCEPT ![k - 1].rec_len = @ + e[k].rec_len], k)]

\* How create_file and create_directory begin: the entry to put the name behind.
PlaceFor(img, dir, name) ==
    LET scan == scan_directory(img, dir, name, Span[name])
    IN  IF name \in DotNames THEN Err("BadName", img)
        ELSE IF scan.err # "ok" THEN Err(scan.err, img)
        ELSE IF scan.found # 0 THEN Err("NameTaken", img)
        ELSE IF scan.room = 0 THEN Err("NoRoomInDirectory", img)
        ELSE Ok(img, scan.room)

\* How unlink_file and remove_directory begin: the entry of the name.
PlaceOf(img, dir, name, mode, wrong) ==
    LET scan == scan_directory(img, dir, name, DirSpan + 1)
    IN  IF scan.err # "ok" THEN Err(scan.err, img)
        ELSE IF scan.found = 0 THEN Err("NoSuchEntry", img)
        ELSE IF scan.found = 1 THEN Err("NoPreviousEntry", img)
        ELSE IF img.inodes[Entries(img, dir)[scan.found].ino].mode # mode THEN Err(wrong, img)
        ELSE Ok(img, scan.found)

create_file(img0, dir, name) ==
    Then(PlaceFor(img0, dir, name), LAMBDA img1, k :
    Then(OnInodes(img1, allocate_inode(img1.inode_bitmap)), LAMBDA img2, ino :
        Ok(insert_dirent([img2 EXCEPT !.inodes[ino] =
                            [ZeroInode EXCEPT !.mode = "regular", !.links = 1,
                                              !.extra = ExtraSize]],
                         dir, k, ino, name),
           ino)))

bump_links(img, ino, delta) ==
    IF img.inodes[ino].links + delta < 0 THEN Err("DirectoryCorrupt", img)
    ELSE Ok([img EXCEPT !.inodes[ino].links = @ + delta], 0)

bump_used_dirs(img, ino, delta) ==
    IF img.used_dirs[InodeGroup[ino]] + delta < 0 THEN Err("FreeCountInconsistent", img)
    ELSE Ok([img EXCEPT !.used_dirs[InodeGroup[ino]] = @ + delta], 0)

\* The inode is taken before the block: without a free block it stays taken.
create_directory(img0, parent, name) ==
    LET Made(img, ino, b) ==
            [img EXCEPT !.inodes[ino] =
                [mode |-> "directory", size |-> BlockSize, links |-> 2, blocks |-> 1,
                 i_block |-> [ZeroInode.i_block EXCEPT ![1] = b], extra |-> ExtraSize],
             !.body[b] = [ZeroBlock EXCEPT !.entries =
                <<Entry(ino, ".", Span["."]), Entry(parent, "..", DirSpan - Span["."])>>]]
    IN  Then(PlaceFor(img0, parent, name), LAMBDA img1, k :
        Then(OnInodes(img1, allocate_inode(img1.inode_bitmap)), LAMBDA img2, ino :
        Then(OnBlocks(img2, allocate_block(img2.block_bitmap)), LAMBDA img3, b :
        Then(bump_links(insert_dirent(Made(img3, ino, b), parent, k, ino, name), parent, 1),
             LAMBDA img4, n :
        Then(bump_used_dirs(img4, ino, 1), LAMBDA img5, m : Ok(img5, ino))))))

\* Mutant: only the first two entries are looked at.
LooksEmptyAtFirst(img, ino) ==
    DirBlock(img, ino) = 0 \/ \A k \in 1..2 : Entries(img, ino)[k].name \in DotNames

directory_is_empty(img, ino) ==
    \/ DirBlock(img, ino) = 0
    \/ \A k \in DOMAIN Entries(img, ino) : Entries(img, ino)[k].name \in DotNames

\* Mutant: the inode is wiped before its blocks are given back.
ReleasedInodeFirst(img0, ino) ==
    LET wiped == [img0 EXCEPT !.inodes[ino] = ZeroInode]
    IN  Then(OnInodes(wiped, free_inode(wiped.inode_bitmap, ino)), LAMBDA img, n :
            truncate_to(img, ino, 0))

\* Blocks first, then the inode: truncate_to reads i_block.
Released(img0, ino) ==
    Then(truncate_to(img0, ino, 0), LAMBDA img, n :
        LET wiped == [img EXCEPT !.inodes[ino] = ZeroInode]
        IN  OnInodes(wiped, free_inode(wiped.inode_bitmap, ino)))

unlink_file(img0, dir, name) ==
    Then(PlaceOf(img0, dir, name, "regular", "NotARegularFile"), LAMBDA img1, k :
    Then(Released(img1, Entries(img1, dir)[k].ino), LAMBDA img2, n :
        Ok(remove_dirent(img2, dir, k), 0)))

remove_directory(img0, parent, name) ==
    Then(PlaceOf(img0, parent, name, "directory", "NotADirectory"), LAMBDA img1, k :
        LET ino == Entries(img1, parent)[k].ino
        IN  IF ~directory_is_empty(img1, ino) THEN Err("DirectoryNotEmpty", img1)
            ELSE Then(Released(img1, ino), LAMBDA img2, n2 :
                 Then(bump_used_dirs(img2, ino, -1), LAMBDA img3, n3 :
                 Then(bump_links(img3, parent, -1), LAMBDA img4, n4 :
                    Ok(remove_dirent(img4, parent, k), 0)))))

----------------------------------------------------------------------------
(* Paths: sequences of names, from the root *)

lookup_in(img, r, name) ==
    LET k == Found(Entries(img, r.n), name)
    IN  IF r.err # "ok" THEN r
        ELSE IF img.inodes[r.n].mode # "directory" THEN Err("NotADirectory", img)
        ELSE IF k # 0 THEN Ok(img, Entries(img, r.n)[k].ino)
        ELSE Err(IF Parses(Entries(img, r.n)) THEN "NotFound" ELSE "DirectoryCorrupt", img)

lookup(img, path) == FoldLeft(LAMBDA r, name : lookup_in(img, r, name), Ok(img, Root), path)
=============================================================================
