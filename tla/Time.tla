-------------------------------- MODULE Time --------------------------------
(***************************************************************************)
(* Ticks of the timer and times in seconds and nanoseconds: the            *)
(* conversions of common/src/time.rs, which clock_gettime and nanosleep    *)
(* use.  The frequency is a parameter there and a constant here.           *)
(***************************************************************************)
EXTENDS Integers

CONSTANTS
    HZ,                 \* ticks in a second
    NANOS_PER_SECOND,
    U64_MAX

ASSUME TimeAssumption ==
    /\ NANOS_PER_SECOND \in Nat /\ HZ \in 1 .. NANOS_PER_SECOND /\ U64_MAX \in Nat

InvalidTimespec == -1

NanosPerTick == NANOS_PER_SECOND \div HZ

timespec_from_ticks(ticks) == [sec |-> ticks \div HZ, nsec |-> (ticks % HZ) * NanosPerTick]

div_ceil(a, b) == (a + (b - 1)) \div b

InRange(time) == time.sec >= 0 /\ time.nsec >= 0 /\ time.nsec < NANOS_PER_SECOND

ticks_for_duration(time) ==
    LET ticks == time.sec * HZ + div_ceil(time.nsec, NanosPerTick)
    IN  IF InRange(time) /\ ticks <= U64_MAX THEN ticks ELSE InvalidTimespec
=============================================================================
