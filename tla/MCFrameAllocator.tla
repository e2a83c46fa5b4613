--------------------------- MODULE MCFrameAllocator ---------------------------
(* The frame allocator on nine frames and a table of three ranges. *)
EXTENDS FrameAllocator

Entry(free, start, count) == [free |-> free, start |-> start, count |-> count]

\* Out of order with a null page, neighbours that merge, an empty entry and a
\* hole; entries that fill a gap; more pieces than the table has room for.
MCMemoryMaps == {
    <<Entry(TRUE, 6, 3), Entry(FALSE, 2, 1), Entry(TRUE, 0, 2), Entry(TRUE, 3, 0),
      Entry(TRUE, 3, 2)>>,
    <<Entry(TRUE, 5, 3), Entry(TRUE, 1, 2), Entry(TRUE, 3, 2)>>,
    <<Entry(TRUE, 0, 1), Entry(TRUE, 1, 1), Entry(TRUE, 3, 1), Entry(TRUE, 5, 1),
      Entry(TRUE, 7, 1)>>}

MCFrameNumbers == 0 .. 8
=============================================================================
