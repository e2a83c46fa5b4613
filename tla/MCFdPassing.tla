---------------------------- MODULE MCFdPassing ----------------------------
(* TLC instances of FdPassing. *)
EXTENDS FdPassing

CONSTANTS t1, t2, f1, f2, none

\* Programs are arbitrary, so the two tasks are interchangeable.
Symmetry == Permutations({t1, t2})

\* The bound on what happens together: several connections, or shared memory, of which an
\* object is sent without frames or with all of them.
OneConcern ==
    /\ \/ \A c \in Conns \ {0} : ~kernel.conn[c].in_use
       \/ messages = 0 /\ \A s \in Shms : ~kernel.shm[s].in_use
    /\ messages = 0 \/ kernel.free \in {{}, ShmFrames}
============================================================================
