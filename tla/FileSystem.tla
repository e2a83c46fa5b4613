---------------------------- MODULE FileSystem ----------------------------
(***************************************************************************)
(* The system calls that write to the root file system (syscall.rs open,   *)
(* write, unlink, mkdir, rmdir; close as far as it gives the descriptor    *)
(* back) over the image of module Ext2.  A system call runs under the      *)
(* kernel lock and waits for nothing, so each is one action; what several  *)
(* programs interleave is their calls.  Errors are returned to the caller  *)
(* and only matter here for the image they leave.                          *)
(*                                                                         *)
(* The image is followed up to its first misuse: a write through a         *)
(* descriptor whose file has been removed, or the removal of the root by   *)
(* its own "..".  From then on damaged is TRUE and the model stops.        *)
(***************************************************************************)
EXTENDS Ext2

CONSTANTS
    Programs,       \* numbers, so that a program's number is the unit it writes
    Seeds,          \* the files of the first image: their names and units, in order
    Paths,          \* the paths programs name
    Writes          \* what one write call brings: the sizes of its chunks

VARIABLES
    img,
    fd,             \* per program: the inode its one descriptor is open on for writing, or 0
    gone,           \* history: the programs whose open file has been removed
    text,           \* history: what has been written to each inode since it was cut
    stranded,       \* history: inodes taken by a mkdir that then found no block
    damaged         \* history: the image has been misused

vars == <<img, fd, gone, text, stranded, damaged>>

Mode(ino) == img.inodes[ino].mode
Parent(path) == lookup(img, Front(path))
Name(path) == Last(path)

\* The image mke2fs leaves: the root, and the seeds in it.  The blocks of a file
\* follow each other, the table comes behind the direct ones, and a block of
\* zeros is a hole.
Chunk(units, k) ==
    [u \in 1..BlockSize |->
        LET at == (k - 1) * BlockSize + u IN IF at <= Len(units) THEN units[at] ELSE 0]
Filled(units) == {k \in 1..BlocksFor(Len(units)) : Chunk(units, k) # NoUnits}
Behind(units) == {k \in Filled(units) : k > Direct}

Place(base, units, k) ==
    IF k \notin Filled(units) THEN 0
    ELSE base + Cardinality({j \in Filled(units) : j < k}) + (IF k > Direct THEN 1 ELSE 0)
TablePlace(base, units) ==
    IF Behind(units) = {} THEN 0 ELSE base + Cardinality(Filled(units) \ Behind(units))

Bitmap(All, used, group, Groups) ==
    [used |-> used,
     bg |-> [g \in Groups |-> Cardinality({x \in All \ used : group[x] = g})],
     s |-> Cardinality(All \ used)]

WithUsed(i, blocks, inodes) ==
    [i EXCEPT !.block_bitmap = Bitmap(Blocks, 1..blocks, BlockGroup, BlockGroups),
              !.inode_bitmap = Bitmap(Inodes, 1..inodes, InodeGroup, InodeGroups)]

WithSeed(i, seed) ==
    LET units == seed.units
        base == Cardinality(i.block_bitmap.used) + 1
        ino == Cardinality(i.inode_bitmap.used) + 1
        count == Cardinality(Filled(units)) + (IF Behind(units) = {} THEN 0 ELSE 1)
        table == TablePlace(base, units)
        Data(b) ==
            IF b = table
            THEN [ZeroBlock EXCEPT !.table = [e \in 1..TableSize |-> Place(base, units, Direct + e)]]
            ELSE [ZeroBlock EXCEPT !.units =
                    Chunk(units, CHOOSE k \in Filled(units) : Place(base, units, k) = b)]
        filled == [i EXCEPT
            !.body = [b \in Blocks |-> IF b \in base..(base + count - 1) THEN Data(b) ELSE @[b]],
            !.inodes[ino] = [mode |-> "regular", size |-> Len(units), links |-> 1,
                blocks |-> count, extra |-> ExtraSize,
                i_block |-> [s \in Slots |-> IF s > Direct THEN table ELSE Place(base, units, s)]]]
    IN  WithUsed(insert_dirent(filled, Root, Len(Entries(i, Root)), ino, seed.name),
                 base + count - 1, ino)

RootOnly ==
    WithUsed([block_bitmap |-> {}, inode_bitmap |-> {},
              used_dirs |-> [g \in InodeGroups |-> IF g = InodeGroup[Root] THEN 1 ELSE 0],
              inodes |-> [i \in Inodes |->
                IF i # Root THEN ZeroInode
                ELSE [mode |-> "directory", size |-> BlockSize, links |-> 2, blocks |-> 1,
                      i_block |-> [ZeroInode.i_block EXCEPT ![1] = 1], extra |-> ExtraSize]],
              body |-> [b \in Blocks |->
                IF b # 1 THEN ZeroBlock
                ELSE [ZeroBlock EXCEPT !.entries =
                        <<Entry(Root, ".", Span["."]), Entry(Root, "..", DirSpan - Span["."])>>]]],
             1, FirstInode - 1)

SeedInode(k) == FirstInode + k - 1

\* No seed is so long that cutting it leads out of the inode table.
ASSUME SeedsAssumption ==
    \A k \in DOMAIN Seeds :
        LET last == i_block_slot(SeedInode(k), BlocksFor(Len(Seeds[k].units)) - 1).ino
        IN  last \in Inodes /\ InodeGroup[last] = InodeGroup[SeedInode(k)]

Init ==
    /\ img = FoldLeft(WithSeed, RootOnly, Seeds)
    /\ fd = [p \in Programs |-> 0]
    /\ gone = {}
    /\ text = [i \in Inodes |->
                IF \E k \in DOMAIN Seeds : SeedInode(k) = i
                THEN Seeds[i - FirstInode + 1].units ELSE <<>>]
    /\ stranded = {} /\ damaged = FALSE

----------------------------------------------------------------------------
(* System calls *)

\* create_and_lookup, for a path that was not found.
create_and_lookup(path) ==
    LET dir == Parent(path)
    IN  IF dir.err # "ok" THEN dir
        ELSE IF Mode(dir.n) # "directory" THEN Err("NotADirectory", img)
        ELSE create_file(img, dir.n, Name(path))

\* open with O_WRONLY | O_CREAT | O_TRUNC; without O_CREAT it differs only in
\* refusing a path that is not there.  The descriptor comes last: without
\* room for it the file is made and cut all the same.
sys_open(p, path) ==
    LET there == lookup(img, path)
        file == IF there.err = "NotFound" THEN create_and_lookup(path) ELSE there
        ino == file.n
        cut == truncate_to(file.img, ino, 0)
    IN  /\ ~damaged
        /\ IF file.err # "ok" \/ file.img.inodes[ino].mode # "regular"
           THEN img' = file.img /\ UNCHANGED <<fd, text>>
           ELSE /\ img' = cut.img
                /\ text' = IF cut.err = "ok" THEN [text EXCEPT ![ino] = <<>>] ELSE text
                /\ fd' = IF cut.err = "ok" /\ fd[p] = 0 THEN [fd EXCEPT ![p] = ino] ELSE fd
        /\ UNCHANGED <<gone, stranded, damaged>>

\* sys_write_to_file: chunk by chunk, up to the first that does not fit.
WriteChunk(p, r, size) ==
    LET data == [k \in 1..size |-> p]
        done == append_to_file(r.img, fd[p], data)
    IN  IF r.err # "ok" THEN r
        ELSE [err |-> done.err, img |-> done.img,
              n |-> IF done.err = "ok" THEN r.n + size ELSE r.n]

sys_write(p, chunks) ==
    LET r == FoldLeft(LAMBDA s, size : WriteChunk(p, s, size), Ok(img, 0), chunks)
    IN  /\ ~damaged /\ fd[p] # 0
        /\ img' = r.img
        /\ text' = [text EXCEPT ![fd[p]] = @ \o [k \in 1..r.n |-> p]]
        /\ damaged' = (p \in gone)
        /\ UNCHANGED <<fd, gone, stranded>>

sys_close(p) ==
    /\ ~damaged /\ fd[p] # 0
    /\ fd' = [fd EXCEPT ![p] = 0]
    /\ gone' = gone \ {p}
    /\ UNCHANGED <<img, text, stranded, damaged>>

\* The inode a path's last name has in the directory dir, or 0.
Named(dir, name) ==
    LET k == Found(Entries(img, dir), name)
    IN  IF k = 0 THEN 0 ELSE Entries(img, dir)[k].ino

\* Open descriptors are not looked at.
sys_unlink(path) ==
    LET dir == Parent(path)
        r == unlink_file(img, dir.n, Name(path))
        removed == IF r.err = "ok" THEN {Named(dir.n, Name(path))} ELSE {}
    IN  /\ ~damaged
        /\ dir.err = "ok" /\ Mode(dir.n) = "directory"
        /\ img' = r.img
        /\ text' = [i \in Inodes |-> IF i \in removed THEN <<>> ELSE text[i]]
        /\ gone' = gone \cup {p \in Programs : fd[p] \in removed}
        /\ UNCHANGED <<fd, stranded, damaged>>

\* sys_directory with DirectoryOp::Create.
sys_mkdir(path) ==
    LET dir == Parent(path)
        r == create_directory(img, dir.n, Name(path))
    IN  /\ ~damaged
        /\ dir.err = "ok" /\ Mode(dir.n) = "directory"
        /\ img' = r.img
        /\ stranded' = IF r.err = "ok" THEN stranded
                       ELSE stranded \cup (r.img.inode_bitmap.used \ img.inode_bitmap.used)
        /\ UNCHANGED <<fd, gone, text, damaged>>

\* sys_directory with DirectoryOp::Remove.
sys_rmdir(path) ==
    LET dir == Parent(path)
        r == remove_directory(img, dir.n, Name(path))
    IN  /\ ~damaged
        /\ dir.err = "ok" /\ Mode(dir.n) = "directory"
        /\ img' = r.img
        /\ damaged' = (img'.inodes[Root].mode # "directory")
        /\ UNCHANGED <<fd, gone, text, stranded>>

Next ==
    \/ \E p \in Programs, path \in Paths : sys_open(p, path)
    \/ \E p \in Programs, chunks \in Writes : sys_write(p, chunks)
    \/ \E p \in Programs : sys_close(p)
    \/ \E path \in Paths : sys_unlink(path) \/ sys_mkdir(path) \/ sys_rmdir(path)

Spec == Init /\ [][Next]_vars

----------------------------------------------------------------------------
(* Properties *)

Live == {i \in Inodes : Mode(i) # "none"}
Dirs == {i \in Live : Mode(i) = "directory"}
Table(i) == IF img.inodes[i].size > Direct * BlockSize THEN img.inodes[i].i_block[Direct + 1] ELSE 0

\* Every slot, and every line of a table, that refers to a block.
References ==
    {<<i, s>> \in Live \X Slots : img.inodes[i].i_block[s] # 0}
Refers(ref) == img.inodes[ref[1]].i_block[ref[2]]
InTables == UNION {Range(Body(img, Table(i)).table) : i \in Live} \ {0}
ReferredTo == {Refers(ref) : ref \in References} \cup InTables

\* The bitmaps, the counts and the references agree, as e2fsck demands: a block
\* is taken exactly if an inode refers to it, never by two slots, the blocks of
\* an inode are those its size needs, and the free counts of groups and
\* superblock count the clear bits.  That holds of images whose files fit their
\* direct slots, as every file does that append_to_file wrote.
BlocksAccounted ==
    ~damaged =>
        /\ BlockCountsMatch(img.block_bitmap) /\ InodeCountsMatch(img.inode_bitmap)
        /\ img.block_bitmap.used = ReferredTo
        /\ \A a, b \in References : Refers(a) = Refers(b) => a = b
        /\ \A i \in Live :
              LET own == {ref \in References : ref[1] = i}
              IN  /\ img.inodes[i].blocks = Cardinality(own)
                  /\ \A ref \in own : ref[2] <= BlocksFor(img.inodes[i].size)

\* The inode to which an entry other than . and .. of a directory refers.
Names ==
    {<<d, k>> \in Dirs \X (1..DirSpan) :
        k \in DOMAIN Entries(img, d) /\ Entries(img, d)[k].name \notin DotNames}
Child(n) == Entries(img, n[1])[n[2]].ino
Subdirs(d) == {n \in Names : n[1] = d /\ Mode(Child(n)) = "directory"}

RECURSIVE Reach(_)
Reach(S) ==
    LET more == S \cup {Child(n) : n \in {m \in Names : m[1] \in S}}
    IN  IF more = S THEN S ELSE Reach(more)

\* The directories form a tree whose leaves are the files: every inode in use
\* has exactly one name and is reached from the root, .. names the directory
\* that holds the name, no name occurs twice in a directory, link counts count
\* the entries that refer to an inode, and used_dirs the directories of a
\* group.  Only a mkdir without a free block leaves an inode without a name.
TreeOK ==
    ~damaged =>
        /\ Reach({Root}) = Live
        /\ img.inode_bitmap.used = Live \cup stranded \cup 1..(FirstInode - 1)
        /\ \A m, n \in Names : Child(m) = Child(n) => m = n
        /\ \A d \in Dirs :
             LET e == Entries(img, d)
             IN  /\ Parses(e) /\ IsInjective([k \in DOMAIN e |-> e[k].name])
                 /\ e[1].name = "." /\ e[1].ino = d /\ e[2].name = ".."
                 /\ \A n \in Names : Child(n) = d => e[2].ino = n[1]
                 /\ img.inodes[d].links = 2 + Cardinality(Subdirs(d))
        /\ \A i \in Live \ Dirs : img.inodes[i].links = 1
        /\ \A g \in InodeGroups :
             img.used_dirs[g] = Cardinality({d \in Dirs : InodeGroup[d] = g})

\* A file holds what was written to it since it was last opened for writing,
\* in order and nothing else, whichever blocks it was given and whatever was
\* done to other files (append_to_file, truncate_to, sys_open), as long as those
\* fit their direct slots.
FilesKeepTheirText ==
    ~damaged => \A i \in Live \ Dirs : Contents(img, i) = text[i]

\* What unlink_file says of truncate_to, "the blocks of the contents (truncate_to
\* gives them back)": no block stays taken that no inode refers to.
NothingIsLost == img.block_bitmap.used \subseteq ReferredTo

\* What truncate_to says of the slots its loop meets beyond the file, "the slots
\* outside the file are 0, so the loop passes over them": a cut reaches nothing
\* of another file, and every file holds what was put into it.
OthersAreUntouched == \A i \in Live \ Dirs : Contents(img, i) = text[i]

\* At least one of the two is true.  A behaviour that breaks this breaks both.
CutsAreClean == NothingIsLost \/ OthersAreUntouched

Leftover(i) ==
    LET at == img.inodes[i].size % BlockSize
    IN  IF at = 0 THEN NoUnits
        ELSE [u \in 1..BlockSize |-> IF u <= at THEN 0
              ELSE img.body[img.inodes[i].i_block[BlocksFor(img.inodes[i].size)]].units[u]]

\* Undoing restores the image to the last unit, in every state programs can
\* bring it to: a file made and removed, a directory made and removed, and an
\* append cut off again, as the docs of unlink_file, remove_directory and
\* truncate_to say.  (An append cut off also wipes what an append that failed
\* half-way left behind the end of the file.)
UndoneIsUntouched ==
    ~damaged =>
        /\ \A d \in Dirs, name \in {Name(path) : path \in Paths} :
             LET file == create_file(img, d, name)
                 dir == create_directory(img, d, name)
             IN  /\ file.err = "ok" => unlink_file(file.img, d, name).img = img
                 /\ dir.err = "ok" => remove_directory(dir.img, d, name).img = img
        /\ \A i \in Live \ Dirs, n \in 1..BlockSize :
             LET r == append_to_file(img, i, [k \in 1..n |-> 1])
             IN  r.err = "ok" /\ Leftover(i) = NoUnits =>
                    truncate_to(r.img, i, img.inodes[i].size).img = img
=============================================================================
