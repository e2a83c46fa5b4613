--------------------------- MODULE MCFileSystem ---------------------------
(* TLC instances of FileSystem. *)
EXTENDS FileSystem

MCSpan == [n \in {".", "..", "a", "b", "big", "next"} |-> IF n = "b" THEN 2 ELSE 1]
MCPaths == {<<"a">>, <<"b">>, <<"big">>, <<"a", "b">>, <<"a", "..">>, <<"..">>}
MCWrites == {<<1, 2>>}

\* A file that fills its direct slots, the first of them a hole.
MCSeeds == <<[name |-> "big", units |-> <<0, 0, -3, -4>>]>>

\* A file that reaches the i_block of the next inode, that inode's file, and one
\* with a block behind a table.
MCLongSeeds ==
    <<[name |-> "big", units |-> [k \in 1..(Words + 1) |-> 0 - k]],
      [name |-> "next", units |-> <<-1>>],
      [name |-> "a", units |-> [k \in 1..(Direct + 1) |-> 0 - k]]>>
MCLongPaths == {<<"a">>, <<"big">>, <<"next">>}
=============================================================================
