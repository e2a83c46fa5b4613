--------------------------- MODULE TlbQuarantine ---------------------------
(***************************************************************************)
(* The life of a physical frame across the destruction of the address      *)
(* space that maps it, while other cores may still cache its translation.  *)
(*                                                                         *)
(* The big kernel lock (bkl.rs) carries a generation: a core that changes  *)
(* a mapping raises TLB_GENERATION while it holds the lock, and every core *)
(* that wins the lock flushes its TLB when the generation moved since its  *)
(* own last flush.  quarantine.rs keeps the frames of a destroyed space,   *)
(* stamped with the generation, until every participating core has seen    *)
(* that generation.  Only then do they go back to the allocator.           *)
(*                                                                         *)
(* Which page-table root a core has loaded is abstracted away: a running   *)
(* core may cache the translation of any frame that is mapped somewhere.   *)
(* This allows every cached translation the machine allows, and more.      *)
(***************************************************************************)
EXTENDS Integers, FiniteSets

CONSTANTS
    Cpus,           \* the processor slots, 0 .. MAX_CPUS - 1
    Bsp,            \* the bootstrap processor
    NoCpu,          \* NO_HOLDER
    Frames,         \* physical frames the allocator hands out
    Capacity,       \* QUARANTINE_CAPACITY
    MaxGeneration   \* bound on the model: how often mappings change

ASSUME CpuAssumption == Bsp \in Cpus /\ NoCpu \notin Cpus
ASSUME BoundsAssumption == Capacity \in Nat /\ MaxGeneration \in Nat
ASSUME FramesAssumption == IsFiniteSet(Frames)

VARIABLES
    holder,         \* BKL.holder_cpu
    started,        \* application processors counted by AP_STARTED
    generation,     \* TLB_GENERATION
    seen,           \* SEEN_GENERATION, one per core
    tlb,            \* per core: frames whose translation it may still cache
    place,          \* where each frame is (see Places)
    stamp,          \* Held.generation of a quarantined frame
    retiring        \* the destroying core's progress through retire_address_space

vars == <<holder, started, generation, seen, tlb, place, stamp, retiring>>

\* "free": in the allocator.  "mapped": in a live address space.  "detached": collected
\* by AddressSpace::detach in RETIRING_FRAMES.  "held": in the quarantine.  "lost":
\* belongs to nobody any more (overflow, or a quarantine reset before its release).
Places == {"free", "mapped", "detached", "held", "lost"}

InPlace(p) == {f \in Frames : place[f] = p}

\* The cores generation_is_retired looks at: 0 .. started_ap_count().
Participating == {Bsp} \union started

----------------------------------------------------------------------------
Init ==
    /\ holder = NoCpu
    /\ started = {}
    /\ generation = 0
    /\ seen = [c \in Cpus |-> 0]
    /\ tlb = [c \in Cpus |-> {}]
    /\ place = [f \in Frames |-> "free"]
    /\ stamp = [f \in Frames |-> 0]
    /\ retiring = "no"

\* An application processor signs in: it has just loaded its own CR3, so it caches
\* nothing yet.  Its SEEN_GENERATION is still zero.  (wake_application_processors and
\* the AP's entry; the bootstrap processor waits for it and destroys nothing meanwhile.)
StartAp(c) ==
    /\ c \notin Participating
    /\ holder # Bsp
    /\ started' = started \union {c}
    /\ UNCHANGED <<holder, generation, seen, tlb, place, stamp, retiring>>

\* Mutant: the core records the generation after the one it flushed for.
FlushedAhead(c) ==
    IF seen[c] = generation
    THEN UNCHANGED <<seen, tlb>>
    ELSE /\ seen' = [seen EXCEPT ![c] = generation + 1]
         /\ tlb' = [tlb EXCEPT ![c] = {}]

\* flush_if_generation_is_stale: reload CR3 unless the generation has been seen.
Flushed(c) ==
    IF seen[c] = generation
    THEN UNCHANGED <<seen, tlb>>
    ELSE /\ seen' = [seen EXCEPT ![c] = generation]
         /\ tlb' = [tlb EXCEPT ![c] = {}]

\* bkl::acquire: one successful swap, the diagnostics, then the flush.
Acquire(c) ==
    /\ c \in Participating
    /\ holder = NoCpu
    /\ holder' = c
    /\ Flushed(c)
    /\ UNCHANGED <<started, generation, place, stamp, retiring>>

\* BklGuard::drop.
Release(c) ==
    /\ holder = c
    /\ retiring = "no"
    /\ holder' = NoCpu
    /\ UNCHANGED <<started, generation, seen, tlb, place, stamp, retiring>>

\* The hardware walker of a running core caches a live translation.
Walk(c, f) ==
    /\ c \in Participating
    /\ place[f] = "mapped"
    /\ f \notin tlb[c]
    /\ tlb' = [tlb EXCEPT ![c] = @ \union {f}]
    /\ UNCHANGED <<holder, started, generation, seen, place, stamp, retiring>>

\* A frame is allocated and mapped into an address space under construction.
Map(f) ==
    /\ place[f] = "free"
    /\ place' = [place EXCEPT ![f] = "mapped"]
    /\ UNCHANGED <<holder, started, generation, seen, tlb, stamp, retiring>>

\* AddressSpace::detach: the mappings of the space are gone and at most Capacity of its
\* frames are collected; the rest belongs to nobody.  The destroy path of userland.rs
\* empties its quarantine first (drop_held); the boot exercise in main.rs does not.
Detach(c, space, collected, drop_held) ==
    /\ holder = c
    /\ retiring = "no"
    /\ generation < MaxGeneration
    /\ space # {} /\ space \subseteq InPlace("mapped")
    /\ collected \subseteq space
    /\ Cardinality(collected) <= Capacity
    /\ collected # space => Cardinality(collected) = Capacity
    /\ place' = [f \in Frames |->
                    IF f \in collected THEN "detached"
                    ELSE IF f \in space THEN "lost"
                    ELSE IF drop_held /\ place[f] = "held" THEN "lost"
                    ELSE place[f]]
    /\ retiring' = "detached"
    /\ UNCHANGED <<holder, started, generation, seen, tlb, stamp>>

\* bkl::note_mapping_changed, called after the mappings are gone.
NoteMappingChanged(c) ==
    /\ holder = c
    /\ retiring = "detached"
    /\ generation' = generation + 1
    /\ retiring' = "noted"
    /\ UNCHANGED <<holder, started, seen, tlb, place, stamp>>

\* Quarantine::push of every collected frame: a free slot takes it with the current
\* generation; when no slot is left the frame belongs to nobody.
PushAll(c, kept) ==
    /\ holder = c
    /\ retiring = "noted"
    /\ kept \subseteq InPlace("detached")
    /\ Cardinality(kept) + Cardinality(InPlace("held")) <= Capacity
    /\ kept # InPlace("detached") =>
          Cardinality(kept) + Cardinality(InPlace("held")) = Capacity
    /\ place' = [f \in Frames |->
                    IF f \in kept THEN "held"
                    ELSE IF place[f] = "detached" THEN "lost"
                    ELSE place[f]]
    /\ stamp' = [f \in Frames |-> IF f \in kept THEN generation ELSE stamp[f]]
    /\ retiring' = "no"
    /\ UNCHANGED <<holder, started, generation, seen, tlb>>

\* Mutant: the application processors are not asked.
generation_is_retired_bsp_only(g) == seen[Bsp] >= g

\* Mutant: the comparison the code's comment warns of, which never retires the last change.
generation_is_retired_strictly(g) == \A c \in Participating : seen[c] > g

\* bkl::generation_is_retired.
generation_is_retired(g) == \A c \in Participating : seen[c] >= g

\* Quarantine::release_retired.  The allocator may refuse a frame (its range table is
\* full), and then the frame stays.  The callers do not hold the lock.
ReleaseRetired(accepted) ==
    /\ accepted # {}
    /\ \A f \in accepted : place[f] = "held" /\ generation_is_retired(stamp[f])
    /\ place' = [f \in Frames |-> IF f \in accepted THEN "free" ELSE place[f]]
    /\ UNCHANGED <<holder, started, generation, seen, tlb, stamp, retiring>>

Next ==
    \/ \E c \in Cpus :
          \/ StartAp(c) \/ Acquire(c) \/ Release(c) \/ NoteMappingChanged(c)
          \/ \E f \in Frames : Walk(c, f)
          \/ \E space \in SUBSET Frames, drop_held \in BOOLEAN :
                \E collected \in SUBSET space : Detach(c, space, collected, drop_held)
          \/ \E kept \in SUBSET Frames : PushAll(c, kept)
    \/ \E f \in Frames : Map(f)
    \/ \E accepted \in SUBSET Frames : ReleaseRetired(accepted)

Spec == Init /\ [][Next]_vars

\* Every running core takes the lock on each of its timer ticks, and a holder always
\* lets go.  The lock is a test-and-set spin without a queue, so a waiter is owed strong
\* fairness; one that starves past WAIT_TIMEOUT_CYCLES stops the machine.
Fairness ==
    /\ \A c \in Cpus : SF_vars(Acquire(c)) /\ WF_vars(Release(c))
    /\ \A c \in Cpus : WF_vars(NoteMappingChanged(c))
    /\ \A c \in Cpus : WF_vars(\E kept \in SUBSET Frames : PushAll(c, kept))

LiveSpec == Spec /\ Fairness

----------------------------------------------------------------------------
\* Every variable has its type; a core never claims a generation that does not exist.
TypeOK ==
    /\ holder \in Cpus \union {NoCpu}
    /\ started \in SUBSET Cpus
    /\ generation \in Nat
    /\ seen \in [Cpus -> Nat]
    /\ tlb \in [Cpus -> SUBSET Frames]
    /\ place \in [Frames -> Places]
    /\ stamp \in [Frames -> Nat]
    /\ retiring \in {"no", "detached", "noted"}
    /\ \A c \in Cpus : seen[c] <= generation

\* The invariant of ADR-0027's addendum in terms of what it is for: a frame the
\* allocator may hand out is cached by no core, started early or late.
NoStaleFree == \A c \in Cpus : InPlace("free") \intersect tlb[c] = {}

\* A quarantined frame can always come back: every running core passes the frame's
\* generation unless the frame leaves the quarantine first (generation_is_retired
\* compares with >=, so no further mapping change is needed).
HeldIsRetired ==
    \A f \in Frames :
        place[f] = "held" ~> (place[f] # "held" \/ generation_is_retired(stamp[f]))

\* Why NoStaleFree holds, in an inductive form (flush_if_generation_is_stale clears the
\* TLB whenever it advances SEEN_GENERATION).  A core that is not running caches nothing.
\* A core that has seen a quarantined frame's generation no longer caches the frame.
\* While a destruction is between its steps its core holds the lock, and after the new
\* generation is announced nobody has seen it yet.
FlushDiscipline ==
    /\ \A c \in Cpus \ Participating : tlb[c] = {}
    /\ \A c \in Cpus, f \in Frames :
          place[f] = "held" /\ seen[c] >= stamp[f] => f \notin tlb[c]
    /\ retiring # "no" => holder \in Cpus
    /\ retiring = "noted" => \A c \in Cpus : seen[c] < generation
============================================================================
