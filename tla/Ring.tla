-------------------------------- MODULE Ring --------------------------------
(***************************************************************************)
(* The fixed-size byte ring that pipes and stream sockets share (ring.rs): *)
(* an array, the position of the next byte to read, and a length.          *)
(***************************************************************************)
EXTENDS Integers, Sequences, FiniteSetsExt

CONSTANT RingSize   \* N, the const parameter of Ring<N>

ASSUME RingSizeAssumption == RingSize \in Nat \ {0}

EmptyRing == [buf |-> [i \in 0 .. RingSize - 1 |-> 0], head |-> 0, len |-> 0]

\* The bytes of the ring in the order in which they will be read.
Contents(r) == [k \in 1 .. r.len |-> r.buf[(r.head + k - 1) % RingSize]]

room(r) == RingSize - r.len

\* How many bytes one take into a buffer of n bytes moves, and one put of src.
TakeCount(r, n) == Min({n, r.len})
PutCount(r, src) == Min({Len(src), room(r)})

\* Ring::take: the bytes moved out, and the ring afterwards.
Taken(r, n) == SubSeq(Contents(r), 1, TakeCount(r, n))
take(r, n) == [r EXCEPT !.head = (@ + TakeCount(r, n)) % RingSize, !.len = @ - TakeCount(r, n)]

\* Ring::put: byte k of src goes k-1 places behind the last byte.
put(r, src) ==
    LET behind(i) == (i - r.head - r.len) % RingSize    \* how far cell i is from the end
    IN  [r EXCEPT !.buf = [i \in DOMAIN r.buf |->
                              IF behind(i) < PutCount(r, src) THEN src[behind(i) + 1] ELSE @[i]],
                  !.len = @ + PutCount(r, src)]
=============================================================================
