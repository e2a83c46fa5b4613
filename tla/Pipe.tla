-------------------------------- MODULE Pipe --------------------------------
(***************************************************************************)
(* One pipe slot of pipe.rs as a record, and its operations as functions   *)
(* on it.  Whom an operation wakes is given by an operator beside it.      *)
(***************************************************************************)
EXTENDS Ring

EmptyPipe == [ring |-> EmptyRing, readers |-> 0, writers |-> 0,
              reserved_reader |-> FALSE, in_use |-> FALSE]

release_if_unused(p) ==
    IF p.readers = 0 /\ p.writers = 0 /\ ~p.reserved_reader THEN EmptyPipe ELSE p

\* create: the slot must be free; it comes back with one write end.
create(reserve_reader) ==
    [EmptyPipe EXCEPT !.in_use = TRUE, !.writers = 1, !.reserved_reader = reserve_reader]

HasReservation(p) == p.in_use /\ p.reserved_reader

\* claim_reserved_reader, for a pipe that has its reservation.
claim_reserved_reader(p) == [p EXCEPT !.reserved_reader = FALSE, !.readers = @ + 1]

\* drop_reservation; it wakes the writers when there was one.
drop_reservation(p) ==
    IF HasReservation(p) THEN release_if_unused([p EXCEPT !.reserved_reader = FALSE]) ELSE p

\* read_into: what the caller is told.  "Bytes" wakes the writers.
\* Mutant: an empty pipe reads as end of file.
EmptyReadsAsEof(p) == IF p.ring.len # 0 THEN "Bytes" ELSE "Eof"

ReadOutcome(p) ==
    IF p.ring.len # 0 THEN "Bytes" ELSE IF p.writers = 0 THEN "Eof" ELSE "Empty"

\* write_from: what the caller is told.  "Bytes" wakes the readers.
WriteOutcome(p) ==
    IF p.readers = 0 /\ ~p.reserved_reader THEN "NoReader"
    ELSE IF room(p.ring) = 0 THEN "Full" ELSE "Bytes"

close_read_end(p) ==
    IF p.in_use /\ p.readers > 0 THEN release_if_unused([p EXCEPT !.readers = @ - 1]) ELSE p

\* Mutant: looks at the count after it was already zero.
NoReaderWasLeft(p) == p.in_use /\ p.readers = 0
LastReaderCloses(p) == p.in_use /\ p.readers = 1

close_write_end(p) ==
    IF p.in_use /\ p.writers > 0 THEN release_if_unused([p EXCEPT !.writers = @ - 1]) ELSE p

\* Mutant: looks at the count after it was already zero.
NoWriterWasLeft(p) == p.in_use /\ p.writers = 0
LastWriterCloses(p) == p.in_use /\ p.writers = 1
=============================================================================
