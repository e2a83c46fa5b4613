-------------------------------- MODULE Shm --------------------------------
(***************************************************************************)
(* Shared memory objects (shm.rs): frames taken from the allocator, held   *)
(* by as many references as descriptors name the object.  Each operation   *)
(* is a function of the kernel record k, of which it uses the fields shm,  *)
(* free and held.                                                          *)
(***************************************************************************)
EXTENDS Integers, FiniteSetsExt

CONSTANTS
    Shms,           \* object slots, 0 .. MAX_SHM - 1
    ShmFrames       \* frames the allocator can hand out

ASSUME ShmAssumption == Shms \subseteq Nat /\ IsFiniteSet(ShmFrames)

EmptyShm == [in_use |-> FALSE, frames |-> {}, refs |-> 0]

CanCreate(k) == \E s \in Shms : ~k.shm[s].in_use
\* The slot create takes: the first free one.
CreateSlot(k) == Min({s \in Shms : ~k.shm[s].in_use})
create(k) == [k EXCEPT !.shm[CreateSlot(k)] = [EmptyShm EXCEPT !.in_use = TRUE, !.refs = 1]]

\* Mutant: an object that has its size may be given another.
CanSetSizeAgain(k, s, got) == k.shm[s].in_use /\ got \subseteq k.free

\* set_size: only once, and only when the allocator has all the frames; else nothing changes.
CanSetSize(k, s, got) == k.shm[s].in_use /\ k.shm[s].frames = {} /\ got \subseteq k.free
set_size(k, s, got) ==
    [k EXCEPT !.shm[s].frames = got, !.free = @ \ got, !.held = @ + Cardinality(got)]

\* Mutant: the sender's reference is handed over instead of being doubled.
attach_nothing(k, s) == k

attach(k, s) == IF k.shm[s].in_use THEN [k EXCEPT !.shm[s].refs = @ + 1] ELSE k

\* detach: the last reference returns the frames to the allocator.
detach(k, s) ==
    IF ~k.shm[s].in_use THEN k
    ELSE IF k.shm[s].refs > 1 THEN [k EXCEPT !.shm[s].refs = @ - 1]
    ELSE [k EXCEPT !.shm[s] = EmptyShm, !.free = @ \union k.shm[s].frames,
                   !.held = @ - Cardinality(k.shm[s].frames)]
=============================================================================
