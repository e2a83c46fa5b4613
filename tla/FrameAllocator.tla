---------------------------- MODULE FrameAllocator ----------------------------
(***************************************************************************)
(* The physical frame allocator (frame_allocator.rs): a fixed table of     *)
(* free ranges, sorted by address and merged, filled from the firmware's   *)
(* memory map at boot and then shared by every user of physical memory.    *)
(* Callers keep what they got and return it frame by frame; most of them   *)
(* ignore a refused return (shm.rs, brk, address_space.rs), the quarantine *)
(* keeps the frame and tries again.                                        *)
(***************************************************************************)
EXTENDS Naturals, Sequences, FiniteSetsExt

CONSTANTS
    CAP,            \* capacity of the range table
    MemoryMaps,     \* memory maps the firmware may hand over
    FrameNumbers,   \* the frame numbers those maps speak about
    Counts,         \* lengths of contiguous allocations
    Alignments      \* their alignments in frames, powers of two

ASSUME CapacityAssumption == CAP \in Nat \ {0}

\* A request for no frames, or for an alignment that is no power of two, is refused
\* at once and changes nothing.
ASSUME RequestsAssumption == Counts \subseteq Nat \ {0} /\ Alignments \subseteq Nat \ {0}

\* What the firmware guarantees: no frame belongs to two free entries.
Entries == [free : BOOLEAN, start : Nat, count : Nat]
FramesOf(r) == r.start .. r.start + r.count - 1
ASSUME MemoryMapsAssumption ==
    /\ FrameNumbers \subseteq Nat
    /\ \A map \in MemoryMaps :
          /\ map \in Seq(Entries)
          /\ \A i \in 1 .. Len(map) : FramesOf(map[i]) \subseteq FrameNumbers
          /\ \A i, j \in 1 .. Len(map) :
                i # j /\ map[i].free /\ map[j].free => FramesOf(map[i]) \cap FramesOf(map[j]) = {}

VARIABLES
    memory_map,     \* entries build has not looked at yet
    phase,          \* "building", "built" or "failed" (the boot stops)
    ranges,         \* ranges[..range_count]
    high_first,     \* HIGH_FIRST
    held,           \* frames the callers have
    lost,           \* frames whose return was refused and ignored
    answer          \* the first frame of the last allocation, or None

vars == <<memory_map, phase, ranges, high_first, held, lost, answer>>

None == 0           \* frame 0 is never handed out
FrameRange(start, count) == [start |-> start, count |-> count]
end_frame(r) == r.start + r.count

----------------------------------------------------------------------------
\* The table.  Every operation answers the table it leaves behind.

\* The ranges lo .. hi replaced by others; those behind move up or down.
Splice(rs, lo, hi, others) == SubSeq(rs, 1, lo - 1) \o others \o SubSeq(rs, hi + 1, Len(rs))

\* Mutant: an extended range is not joined with the one behind it.
NoMergeForward(rs, i) == rs

\* The extended range i may have grown into the one behind it.
try_merge_forward(rs, i) ==
    IF i < Len(rs) /\ end_frame(rs[i]) >= rs[i + 1].start
    THEN Splice(rs, i, i + 1, <<FrameRange(rs[i].start,
                    Max({end_frame(rs[i]), end_frame(rs[i + 1])}) - rs[i].start)>>)
    ELSE rs

\* The position behind the last range that starts at or before start.
Position(rs, start) ==
    LET later == {i \in 1 .. Len(rs) : rs[i].start > start}
    IN  IF later = {} THEN Len(rs) + 1 ELSE Min(later)

\* The neighbours a new range can be joined with.
Touches(rs, start, count) ==
    LET at == Position(rs, start)
    IN  [previous |-> at > 1 /\ end_frame(rs[at - 1]) >= start,
         next |-> at <= Len(rs) /\ start + count >= rs[at].start]

\* A range of its own, and no room for one.
CapacityExceeded(rs, start, count) ==
    /\ count > 0
    /\ ~Touches(rs, start, count).previous /\ ~Touches(rs, start, count).next
    /\ Len(rs) >= CAP

insert_free_range(rs, start, count) ==
    LET at == Position(rs, start)
        touches == Touches(rs, start, count)
        new_end == start + count
    IN  IF count = 0 \/ CapacityExceeded(rs, start, count) THEN rs
        ELSE IF touches.previous
        THEN try_merge_forward(
                 [rs EXCEPT ![at - 1].count =
                     Max({end_frame(rs[at - 1]), new_end}) - rs[at - 1].start], at - 1)
        ELSE IF touches.next
        THEN LET first == Min({start, rs[at].start})
             IN  [rs EXCEPT ![at] = FrameRange(first, Max({new_end, end_frame(rs[at])}) - first)]
        ELSE Splice(rs, at, at - 1, <<FrameRange(start, count)>>)

\* What is left on one side of a cut, unless it is empty.
Rest(r) == IF r.count > 0 THEN <<r>> ELSE <<>>

\* Mutant: off by one, the rest behind the cut starts with its last frame.
CutOverlapping(rs, i, aligned, count) ==
    LET leading == FrameRange(rs[i].start, aligned - rs[i].start)
        trailing == FrameRange(aligned + count - 1, end_frame(rs[i]) - (aligned + count - 1))
    IN  Splice(rs, i, i, Rest(leading) \o Rest(trailing))

\* Range i without the count frames from aligned on.
Cut(rs, i, aligned, count) ==
    LET leading == FrameRange(rs[i].start, aligned - rs[i].start)
        trailing == FrameRange(aligned + count, end_frame(rs[i]) - (aligned + count))
    IN  Splice(rs, i, i, Rest(leading) \o Rest(trailing))

\* The first frame at which count frames would start in range r.
AlignedLow(r, count, align) == ((r.start + align - 1) \div align) * align
AlignedHigh(r, count, align) ==
    LET highest == end_frame(r) - count IN highest - (highest % align)
Fits(r, aligned, count) == r.start <= aligned /\ aligned + count <= end_frame(r)

\* Mutant: the search from below stops at the first range whether it fits or not.
FirstRangeOnly(rs, count, align, high) ==
    IF rs = <<>> \/ ~Fits(rs[1], AlignedLow(rs[1], count, align), count) THEN 0 ELSE 1

\* The range that allocate_contiguous_aligned (or its variant from above) takes from.
Chosen(rs, count, align, high) ==
    LET Fitting == {i \in 1 .. Len(rs) :
                       IF high
                       THEN rs[i].count >= count /\ Fits(rs[i], AlignedHigh(rs[i], count, align), count)
                       ELSE Fits(rs[i], AlignedLow(rs[i], count, align), count)}
    IN  IF Fitting = {} THEN 0 ELSE IF high THEN Max(Fitting) ELSE Min(Fitting)

\* The frame to answer and the table left behind; the table cannot take a split when full.
allocate_contiguous_aligned(rs, count, align, high) ==
    LET i == Chosen(rs, count, align, high)
        aligned == IF high THEN AlignedHigh(rs[i], count, align)
                   ELSE AlignedLow(rs[i], count, align)
    IN  IF i = 0 \/ Len(Cut(rs, i, aligned, count)) > CAP
        THEN [frame |-> None, ranges |-> rs]
        ELSE [frame |-> aligned, ranges |-> Cut(rs, i, aligned, count)]

----------------------------------------------------------------------------
\* build: one step per entry of the memory map.

Init ==
    /\ memory_map \in MemoryMaps
    /\ phase = "building"
    /\ ranges = <<>>
    /\ high_first = FALSE
    /\ held = {} /\ lost = {} /\ answer = None

Building == phase = "building" /\ UNCHANGED <<high_first, held, lost, answer>>

\* An entry with no pages, or whose type is not Free.
SkipEntry ==
    /\ Building /\ memory_map # <<>>
    /\ ~Head(memory_map).free \/ Head(memory_map).count = 0
    /\ memory_map' = Tail(memory_map)
    /\ UNCHANGED <<phase, ranges>>

\* A free entry, without the page at address 0.
WithoutNullPage(entry) ==
    IF entry.start = 0 THEN FrameRange(1, entry.count - 1)
    ELSE FrameRange(entry.start, entry.count)

InsertEntry ==
    /\ Building /\ memory_map # <<>>
    /\ Head(memory_map).free /\ Head(memory_map).count > 0
    /\ LET range == WithoutNullPage(Head(memory_map))
       IN  IF CapacityExceeded(ranges, range.start, range.count)
           THEN phase' = "failed" /\ UNCHANGED <<memory_map, ranges>>
           ELSE /\ ranges' = insert_free_range(ranges, range.start, range.count)
                /\ memory_map' = Tail(memory_map)
                /\ UNCHANGED phase

BuildEnds ==
    /\ Building /\ memory_map = <<>>
    /\ phase' = "built"
    /\ UNCHANGED <<memory_map, ranges>>

----------------------------------------------------------------------------
\* Use.

Allocated(count, align) ==
    /\ phase = "built"
    /\ LET result == allocate_contiguous_aligned(ranges, count, align, high_first)
       IN  /\ answer' = result.frame
           /\ ranges' = result.ranges
           /\ held' = IF result.frame = None THEN held
                      ELSE held \cup result.frame .. result.frame + count - 1
    /\ UNCHANGED <<memory_map, phase, high_first, lost>>

\* allocate_frame takes the lowest frame of the first range, or, from above,
\* the highest frame: the aligned search for one frame.
AllocateFrame == Allocated(1, 1)
AllocateContiguous(count) == Allocated(count, 1)
AllocateContiguousAligned(count, align) == Allocated(count, align)

\* deallocate_frame by a caller that ignores the answer.
DeallocateFrame(frame) ==
    /\ phase = "built" /\ frame \in held
    /\ held' = held \ {frame}
    /\ ranges' = insert_free_range(ranges, frame, 1)
    /\ lost' = IF CapacityExceeded(ranges, frame, 1) THEN lost \cup {frame} ELSE lost
    /\ UNCHANGED <<memory_map, phase, high_first, answer>>

\* deallocate_frame by release_retired, which keeps a frame that was refused.
ReleaseRetired(frame) ==
    /\ phase = "built" /\ frame \in held
    /\ ~CapacityExceeded(ranges, frame, 1)
    /\ held' = held \ {frame}
    /\ ranges' = insert_free_range(ranges, frame, 1)
    /\ UNCHANGED <<memory_map, phase, high_first, lost, answer>>

\* hand_out_high_first_from_now, once the kernel runs on its own page tables.
HandOutHighFirstFromNow ==
    /\ phase = "built" /\ ~high_first
    /\ high_first' = TRUE
    /\ UNCHANGED <<memory_map, phase, ranges, held, lost, answer>>

Next ==
    \/ SkipEntry \/ InsertEntry \/ BuildEnds
    \/ AllocateFrame
    \/ \E count \in Counts : AllocateContiguous(count)
    \/ \E count \in Counts, align \in Alignments : AllocateContiguousAligned(count, align)
    \/ \E frame \in held : DeallocateFrame(frame) \/ ReleaseRetired(frame)
    \/ HandOutHighFirstFromNow

Spec == Init /\ [][Next]_vars

----------------------------------------------------------------------------
Free == UNION {FramesOf(ranges[i]) : i \in 1 .. Len(ranges)}

\* The table never outgrows its capacity and stays sorted and merged: no range is empty, and
\* between two ranges there is at least one frame that is not free.  free_frame_count and
\* the first fit both rest on it ("ソート済み・隣接結合済み").
RangesAreMerged ==
    /\ Len(ranges) <= CAP
    /\ \A i \in 1 .. Len(ranges) : ranges[i].count > 0
    /\ \A i \in 1 .. Len(ranges) - 1 : end_frame(ranges[i]) < ranges[i + 1].start

\* A frame is free, in the hands of one caller or lost, never two of these, and
\* the page at address 0 is none: allocating never answers a frame that is in
\* use, and returning never makes one free twice.
OneOwnerPerFrame ==
    /\ Free \cap held = {} /\ Free \cap lost = {} /\ held \cap lost = {}
    /\ 0 \notin Free \cup held \cup lost

\* The range table implements the set of free frames: every allocation that some
\* run of free frames could serve is served, by the lowest (or highest) one, and
\* frames get lost only when the table is full.
Pool == INSTANCE FramePool WITH
    Frames <- FrameNumbers, NoFrame <- None, free <- Free, high <- high_first,
    full <- Len(ranges) = CAP
PoolOK == Pool!Spec
=============================================================================
