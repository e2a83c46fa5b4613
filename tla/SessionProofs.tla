--------------------------- MODULE SessionProofs ---------------------------
(***************************************************************************)
(* Three promises of the session, for every set of keys, of read sizes and *)
(* of times, every size of the scancode ring and every depth of nesting,   *)
(* and the conversions of Time, for every frequency and every time.        *)
(*                                                                         *)
(* The argument rests on two things.  What read_bytes makes of the ring is *)
(* found by induction over its loop: it consumes codes from the front, its *)
(* decoder has been fed just those, and when it returns nothing it has     *)
(* used up the ring and the bytes left over.  And the invariant Inv says,  *)
(* beside the promises, that the running task waits for nothing, and where *)
(* in a key's codes decoder and look-out both are.                         *)
(***************************************************************************)
EXTENDS Session, WellFoundedInduction, TLAPS

(* Time *)

\* What quotient and remainder are.
LEMMA Remainder ==
    ASSUME NEW a \in Nat, NEW b \in Nat \ {0}
    PROVE  a % b \in 0 .. b - 1 /\ a = b * (a \div b) + (a % b)
OBVIOUS

\* The quotient is the most whole parts that fit.
LEMMA Whole ==
    ASSUME NEW a \in Nat, NEW b \in Nat \ {0}
    PROVE  a \div b \in Nat /\ b * (a \div b) <= a /\ a < b * (a \div b) + b
OBVIOUS

\* A remainder does not change the quotient.
LEMMA Quotient ==
    ASSUME NEW b \in Nat \ {0}, NEW q \in Nat, NEW r \in 0 .. b - 1
    PROVE  (b * q + r) \div b = q
OBVIOUS

\* Multiplying keeps the order.
LEMMA Times ==
    ASSUME NEW a \in Nat, NEW b \in Nat, NEW c \in Nat, a <= b
    PROVE  a * c <= b * c /\ c * a <= c * b
OBVIOUS

\* A tick is some whole nanoseconds long, rounded down.
LEMMA TickLength ==
    NanosPerTick \in Nat \ {0} /\ HZ * NanosPerTick <= NANOS_PER_SECOND
<1>1. HZ \in Nat \ {0} /\ NANOS_PER_SECOND \in Nat /\ HZ <= NANOS_PER_SECOND
  BY TimeAssumption
<1>2. NanosPerTick \in Nat /\ HZ * NanosPerTick <= NANOS_PER_SECOND
      /\ NANOS_PER_SECOND < HZ * NanosPerTick + HZ
  BY <1>1, Whole, Zenon DEF NanosPerTick
<1>3. NanosPerTick # 0
  BY <1>1, <1>2
<1> QED
  BY <1>2, <1>3, Zenon

\* div_ceil is the least number of parts that cover the whole.
LEMMA Ceiling ==
    ASSUME NEW a \in Nat, NEW b \in Nat \ {0}
    PROVE  /\ div_ceil(a, b) \in Nat
           /\ a <= b * div_ceil(a, b) /\ b * div_ceil(a, b) < a + b
<1>1. a + (b - 1) \in Nat
  OBVIOUS
<1>2. /\ div_ceil(a, b) \in Nat /\ b * div_ceil(a, b) <= a + (b - 1)
      /\ a + (b - 1) < b * div_ceil(a, b) + b
  BY <1>1, Whole, Zenon DEF div_ceil
<1>3. b * div_ceil(a, b) \in Nat
  BY <1>2
<1> QED
  BY <1>2, <1>3

\* "A sleep must not be shorter than what was asked for": the ticks that ticks_for_duration
\* answers, each 1/HZ of a second long, cover the time, for every frequency, also one that
\* does not divide the second.  (How many of those ticks have begun already when the sleep
\* starts is nanosleep's matter.)
THEOREM TicksCoverTheDuration ==
    ASSUME NEW sec \in Nat, NEW nsec \in Nat, NEW ticks,
           ticks = ticks_for_duration([sec |-> sec, nsec |-> nsec]), ticks # InvalidTimespec
    PROVE  ticks \in Nat /\ HZ * (sec * NANOS_PER_SECOND + nsec) <= ticks * NANOS_PER_SECOND
<1> DEFINE parts == div_ceil(nsec, NanosPerTick)
<1>1. HZ \in Nat \ {0} /\ NANOS_PER_SECOND \in Nat
  BY TimeAssumption
<1>2. parts \in Nat /\ nsec <= NanosPerTick * parts
  BY TickLength, Ceiling, Zenon
<1>3. ticks = sec * HZ + parts
  BY Zenon DEF ticks_for_duration
<1> HIDE DEF parts
<1>4. HZ * nsec <= HZ * (NanosPerTick * parts)
  BY <1>1, <1>2, TickLength, Times
<1>5. HZ * (NanosPerTick * parts) = (HZ * NanosPerTick) * parts
  BY <1>1, <1>2, TickLength
<1>6. (HZ * NanosPerTick) * parts <= NANOS_PER_SECOND * parts
  BY <1>1, <1>2, TickLength, Times
<1>7. HZ * nsec <= NANOS_PER_SECOND * parts
  BY <1>1, <1>2, <1>4, <1>5, <1>6, TickLength
<1>8. HZ * (sec * NANOS_PER_SECOND + nsec) = (sec * HZ) * NANOS_PER_SECOND + HZ * nsec
  BY <1>1
<1>9. ticks * NANOS_PER_SECOND = (sec * HZ) * NANOS_PER_SECOND + NANOS_PER_SECOND * parts
  BY <1>1, <1>2, <1>3
<1> QED
  BY <1>1, <1>2, <1>3, <1>7, <1>8, <1>9

\* Where a tick is a whole number of nanoseconds, the answer is also the least one: a tick
\* less would not cover the time.
THEOREM TicksAreTheFewest ==
    ASSUME NEW sec \in Nat, NEW nsec \in Nat, NEW ticks, HZ * NanosPerTick = NANOS_PER_SECOND,
           ticks = ticks_for_duration([sec |-> sec, nsec |-> nsec]), ticks # InvalidTimespec
    PROVE  NanosPerTick * ticks < sec * NANOS_PER_SECOND + nsec + NanosPerTick
<1> DEFINE parts == div_ceil(nsec, NanosPerTick)
<1>1. HZ \in Nat \ {0}
  BY TimeAssumption
<1>2. parts \in Nat /\ NanosPerTick * parts < nsec + NanosPerTick
  BY TickLength, Ceiling, Zenon
<1>3. ticks = sec * HZ + parts
  BY Zenon DEF ticks_for_duration
<1> HIDE DEF parts
<1>4. NanosPerTick * ticks = sec * (HZ * NanosPerTick) + NanosPerTick * parts
  BY <1>1, <1>2, <1>3, TickLength
<1> QED
  BY <1>1, <1>2, <1>4, TickLength

\* Reading the clock and sleeping that long are inverse: a time that timespec_from_ticks
\* makes is in range and stands for the ticks it was made from.
THEOREM TimesKeepTheirTicks ==
    ASSUME NEW ticks \in 0 .. U64_MAX
    PROVE  /\ InRange(timespec_from_ticks(ticks))
           /\ ticks_for_duration(timespec_from_ticks(ticks)) = ticks
<1> DEFINE sec == ticks \div HZ
           rest == ticks % HZ
           nsec == rest * NanosPerTick
<1>1. HZ \in Nat \ {0} /\ NANOS_PER_SECOND \in Nat /\ U64_MAX \in Nat /\ ticks \in Nat
  BY TimeAssumption
<1>2. sec \in Nat /\ rest \in 0 .. HZ - 1 /\ ticks = HZ * sec + rest
  BY <1>1, Remainder, Whole, Zenon
<1>3. timespec_from_ticks(ticks) = [sec |-> sec, nsec |-> nsec]
  BY Zenon DEF timespec_from_ticks
<1> HIDE DEF sec, rest
<1>4. nsec \in Nat /\ nsec < NANOS_PER_SECOND
  <2>1. rest * NanosPerTick <= (HZ - 1) * NanosPerTick
    BY <1>1, <1>2, TickLength, Times
  <2>2. (HZ - 1) * NanosPerTick = HZ * NanosPerTick - NanosPerTick
    BY <1>1, TickLength
  <2> QED
    BY <1>1, <1>2, <2>1, <2>2, TickLength
<1>5. div_ceil(nsec, NanosPerTick) = rest
  <2>1. NanosPerTick - 1 \in 0 .. NanosPerTick - 1
    BY TickLength
  <2>2. nsec + (NanosPerTick - 1) = NanosPerTick * rest + (NanosPerTick - 1)
    BY <1>1, <1>2, TickLength
  <2> QED
    BY <1>1, <1>2, <2>1, <2>2, TickLength, Quotient DEF div_ceil
<1>6. InRange([sec |-> sec, nsec |-> nsec])
  BY <1>2, <1>4 DEF InRange
<1>7. sec * HZ + rest = ticks
  BY <1>1, <1>2
<1> QED
  BY <1>3, <1>5, <1>6, <1>7 DEF ticks_for_duration

\* A sleep that is not over at once has a deadline ahead.
LEMMA SleepIsPositive ==
    ASSUME NEW time \in Durations, NEW ticks, ticks = ticks_for_duration(time),
           ticks # InvalidTimespec, ticks # 0
    PROVE  ticks \in Int /\ ticks > 0
<1>1. time.sec \in Int /\ time.nsec \in Int /\ time = [sec |-> time.sec, nsec |-> time.nsec]
  BY SessionAssumption, Zenon
<1>2. InRange(time)
  BY Zenon DEF ticks_for_duration
<1>3. time.sec \in Nat /\ time.nsec \in Nat
  BY <1>1, <1>2 DEF InRange
<1>4. ticks \in Nat
  BY <1>1, <1>3, TicksCoverTheDuration, Zenon
<1> QED
  BY <1>4

----------------------------------------------------------------------------
(* Induction *)

\* A set of numbers that has 0 and every successor has them all.
LEMMA Induction ==
    ASSUME NEW S, 0 \in S, \A i \in Nat : i \in S => i + 1 \in S
    PROVE  Nat \subseteq S
<1> DEFINE Below == OpToRel(<, Nat)
           Missing == {i \in Nat : i \notin S}
<1>1. IsWellFoundedOn(Below, Nat)
  BY NatLessThanWellFounded, Zenon
<1>2. \A x, y \in Nat : x < y => <<x, y>> \in Below
  BY Zenon DEF OpToRel
<1> HIDE DEF Below
<1>3. SUFFICES ASSUME Missing # {} PROVE FALSE
  BY Zenon
<1>4. PICK x \in Missing : \A y \in Missing : ~(<<y, x>> \in Below)
  <2>1. Missing \in SUBSET Nat
    BY Zenon
  <2> HIDE DEF Missing
  <2> QED
    BY <1>1, <1>3, <2>1, WFMin, Zenon
<1>5. x \in Nat /\ x # 0 /\ x \notin S
  BY Zenon
<1>6. x - 1 \in Nat /\ x - 1 < x /\ (x - 1) + 1 = x
  BY <1>5
<1>7. x - 1 \notin Missing
  BY <1>2, <1>4, <1>5, <1>6, Zenon
<1> QED
  BY <1>5, <1>6, <1>7, Zenon

----------------------------------------------------------------------------
(* Decoding *)

\* The decoder after each of the codes, and what FedAll answers.
IsRun(f, d, codes) ==
    f = [i \in 0 .. Len(codes) |-> IF i = 0 THEN d ELSE Fed(f[i - 1], codes[i])]

\* There is such a run: it is built code by code.
LEMMA RunExists ==
    ASSUME NEW d, NEW codes \in Seq(STRING)
    PROVE  \E f : IsRun(f, d, codes)
<1> DEFINE P(f, m) == f = [i \in 0 .. m |-> IF i = 0 THEN d ELSE Fed(f[i - 1], codes[i])]
           S == {m \in Nat : \E f : P(f, m)}
<1>1. 0 \in S
  <2>1. P([i \in 0 .. 0 |-> d], 0)
    OBVIOUS
  <2> QED
    BY <2>1, Zenon
<1>2. ASSUME NEW m \in Nat, m \in S
      PROVE  m + 1 \in S
  <2>1. PICK g : P(g, m)
    BY <1>2, Zenon
  <2> DEFINE f == [i \in 0 .. m + 1 |-> IF i = m + 1 THEN Fed(g[m], codes[m + 1]) ELSE g[i]]
  <2>2. ASSUME NEW i \in 0 .. m + 1
        PROVE  f[i] = IF i = 0 THEN d ELSE Fed(f[i - 1], codes[i])
    <3>1. CASE i = m + 1
      <4>1. f[i] = Fed(g[m], codes[m + 1]) /\ f[m] = g[m] /\ i - 1 = m /\ i # 0
        BY <3>1
      <4> QED
        BY <3>1, <4>1, Zenon
    <3>2. CASE i # m + 1
      <4>1. i \in 0 .. m /\ f[i] = g[i] /\ (i # 0 => i - 1 \in 0 .. m /\ f[i - 1] = g[i - 1])
        BY <3>2
      <4>2. g[i] = IF i = 0 THEN d ELSE Fed(g[i - 1], codes[i])
        BY <2>1, <4>1, Zenon
      <4> QED
        BY <4>1, <4>2, Zenon
    <3> QED
      BY <3>1, <3>2, Zenon
  <2>3. f = [i \in 0 .. m + 1 |-> f[i]]
    BY Zenon
  <2> HIDE DEF f
  <2>4. [i \in 0 .. m + 1 |-> f[i]]
        = [i \in 0 .. m + 1 |-> IF i = 0 THEN d ELSE Fed(f[i - 1], codes[i])]
    BY <2>2, Zenon
  <2>5. P(f, m + 1)
    BY <2>3, <2>4, Zenon
  <2>6. m + 1 \in Nat
    OBVIOUS
  <2> HIDE DEF P
  <2> QED
    BY <2>5, <2>6, Zenon
<1> HIDE DEF S
<1>3. Len(codes) \in S
  BY <1>1, <1>2, Induction
<1> QED
  BY <1>3, Zenon DEF S, IsRun

\* There is one run only.
LEMMA RunIsFedAll ==
    ASSUME NEW d, NEW codes \in Seq(STRING), NEW f, IsRun(f, d, codes)
    PROVE  FedAll(d, codes) = f[Len(codes)]
<1> DEFINE g == CHOOSE g : IsRun(g, d, codes)
           S == {i \in Nat : i <= Len(codes) => f[i] = g[i]}
<1>1. IsRun(g, d, codes)
  BY RunExists, Zenon
<1>2. FedAll(d, codes) = g[Len(codes)]
  BY Zenon DEF FedAll, IsRun
<1>3. \A i \in 0 .. Len(codes) :
          /\ f[i] = IF i = 0 THEN d ELSE Fed(f[i - 1], codes[i])
          /\ g[i] = IF i = 0 THEN d ELSE Fed(g[i - 1], codes[i])
  <2> HIDE DEF g
  <2> QED
    BY <1>1, Zenon DEF IsRun
<1> HIDE DEF g
<1>4. 0 \in S
  BY <1>3
<1>5. ASSUME NEW i \in Nat, i \in S
      PROVE  i + 1 \in S
  <2>1. CASE i + 1 <= Len(codes)
    <3>1. i + 1 \in 0 .. Len(codes) /\ i + 1 # 0 /\ (i + 1) - 1 = i
      BY <2>1
    <3>2. f[i + 1] = Fed(f[i], codes[i + 1]) /\ g[i + 1] = Fed(g[i], codes[i + 1])
      BY <1>3, <3>1, Zenon
    <3>3. f[i] = g[i]
      BY <1>5, <2>1
    <3> QED
      BY <3>2, <3>3
  <2>2. CASE ~(i + 1 <= Len(codes))
    BY <2>2
  <2> QED
    BY <2>1, <2>2, Zenon
<1> HIDE DEF S
<1>6. Len(codes) \in S
  BY <1>4, <1>5, Induction
<1> QED
  BY <1>2, <1>6 DEF S

\* Append adds one element behind the others.
OneLonger(m, s, e) ==
    Len(m) = Len(s) + 1 /\ m[Len(s) + 1] = e /\ \A i \in 1 .. Len(s) : m[i] = s[i]

LEMMA AppendIs ==
    ASSUME NEW S, NEW s \in Seq(S), NEW e \in S
    PROVE  Append(s, e) \in Seq(S) /\ Len(s) \in Nat /\ OneLonger(Append(s, e), s, e)
  BY DEF OneLonger

\* One code more.
LEMMA FedOneMore ==
    ASSUME NEW d, NEW codes \in Seq(STRING), NEW code \in STRING
    PROVE  FedAll(d, Append(codes, code)) = Fed(FedAll(d, codes), code)
<1> DEFINE more == Append(codes, code)
           n == Len(codes)
<1>1. /\ more \in Seq(STRING) /\ Len(more) = n + 1 /\ n \in Nat
      /\ more[n + 1] = code /\ \A i \in 1 .. n : more[i] = codes[i]
  <2>1. more \in Seq(STRING) /\ n \in Nat /\ OneLonger(more, codes, code)
    BY AppendIs, Zenon
  <2> HIDE DEF more
  <2> QED
    BY <2>1, Zenon DEF OneLonger
<1> HIDE DEF more
<1>2. PICK f : IsRun(f, d, more)
  BY <1>1, RunExists, Zenon
<1>3. \A i \in 0 .. n + 1 : f[i] = IF i = 0 THEN d ELSE Fed(f[i - 1], more[i])
  BY <1>1, <1>2, Zenon DEF IsRun
<1> DEFINE g == [i \in 0 .. n |-> f[i]]
<1>4. IsRun(g, d, codes)
  <2>1. ASSUME NEW i \in 0 .. n
        PROVE  g[i] = IF i = 0 THEN d ELSE Fed(g[i - 1], codes[i])
    <3>1. g[i] = f[i] /\ (i # 0 => g[i - 1] = f[i - 1] /\ i \in 1 .. n)
      OBVIOUS
    <3>2. f[i] = IF i = 0 THEN d ELSE Fed(f[i - 1], more[i])
      BY <1>1, <1>3
    <3> QED
      BY <1>1, <3>1, <3>2, Zenon
  <2>2. g = [i \in 0 .. n |-> g[i]]
    BY Zenon
  <2> HIDE DEF g
  <2>3. [i \in 0 .. n |-> g[i]] = [i \in 0 .. n |-> IF i = 0 THEN d ELSE Fed(g[i - 1], codes[i])]
    BY <2>1, Zenon
  <2> QED
    BY <2>2, <2>3, Zenon DEF IsRun
<1>5. FedAll(d, codes) = f[n]
  <2>1. g[n] = f[n]
    BY <1>1
  <2> HIDE DEF g
  <2> QED
    BY <1>4, <2>1, RunIsFedAll, Zenon
<1>6. FedAll(d, more) = f[n + 1]
  BY <1>1, <1>2, RunIsFedAll, Zenon
<1>7. f[n + 1] = Fed(f[n], code)
  <2>1. n + 1 \in 0 .. n + 1 /\ n + 1 # 0 /\ (n + 1) - 1 = n
    BY <1>1
  <2> QED
    BY <1>1, <1>3, <2>1, Zenon
<1> QED
  BY <1>5, <1>6, <1>7, Zenon DEF more

\* A decoder that has had some of the codes makes the same of the others.
LEMMA FedTheRest ==
    ASSUME NEW d, NEW codes \in Seq(STRING), NEW f, IsRun(f, d, codes), NEW c \in 0 .. Len(codes)
    PROVE  FedAll(f[c], SubSeq(codes, c + 1, Len(codes))) = FedAll(d, codes)
<1> DEFINE rest == SubSeq(codes, c + 1, Len(codes))
           n == Len(codes)
<1>1. /\ rest \in Seq(STRING) /\ Len(rest) = n - c /\ n \in Nat /\ c \in Nat /\ c <= n
      /\ \A i \in 1 .. n - c : rest[i] = codes[i + c]
  OBVIOUS
<1> HIDE DEF rest
<1>2. \A i \in 0 .. n : f[i] = IF i = 0 THEN d ELSE Fed(f[i - 1], codes[i])
  BY Zenon DEF IsRun
<1> DEFINE g == [i \in 0 .. n - c |-> f[i + c]]
<1>3. IsRun(g, f[c], rest)
  <2>1. ASSUME NEW i \in 0 .. n - c
        PROVE  g[i] = IF i = 0 THEN f[c] ELSE Fed(g[i - 1], rest[i])
    <3>1. CASE i = 0
      BY <1>1, <3>1
    <3>2. CASE i # 0
      <4>1. i + c \in 0 .. n /\ i + c # 0 /\ (i + c) - 1 = (i - 1) + c /\ i \in 1 .. n - c
        BY <1>1, <3>2
      <4>2. g[i] = f[i + c] /\ g[i - 1] = f[(i - 1) + c] /\ rest[i] = codes[i + c]
        BY <1>1, <3>2
      <4>3. f[i + c] = Fed(f[(i - 1) + c], codes[i + c])
        BY <1>2, <4>1, Zenon
      <4> QED
        BY <3>2, <4>2, <4>3, Zenon
    <3> QED
      BY <3>1, <3>2, Zenon
  <2>2. g = [i \in 0 .. n - c |-> g[i]]
    BY Zenon
  <2> HIDE DEF g
  <2>3. [i \in 0 .. n - c |-> g[i]]
        = [i \in 0 .. n - c |-> IF i = 0 THEN f[c] ELSE Fed(g[i - 1], rest[i])]
    BY <2>1, Zenon
  <2> QED
    BY <1>1, <2>2, <2>3, Zenon DEF IsRun
<1>4. g[n - c] = f[n]
  BY <1>1
<1> HIDE DEF g
<1>5. FedAll(f[c], rest) = g[n - c]
  BY <1>1, <1>3, RunIsFedAll
<1>6. FedAll(d, codes) = f[n]
  BY RunIsFedAll, Zenon
<1> QED
  BY <1>4, <1>5, <1>6, Zenon DEF rest

\* The loop of read_bytes after each code.
Start(n, d, bytes) ==
    [dec |-> d, out |-> SubSeq(bytes, 1, Min({n, Len(bytes)})),
     pending |-> SubSeq(bytes, Min({n, Len(bytes)}) + 1, Len(bytes)), consumed |-> 0]
IsLoop(f, n, codes, start) ==
    f = [i \in 0 .. Len(codes) |-> IF i = 0 THEN start ELSE Decode(n, f[i - 1], codes[i])]

\* The loop can be followed code by code as well.
LEMMA LoopExists ==
    ASSUME NEW n, NEW start, NEW codes \in Seq(STRING)
    PROVE  \E f : IsLoop(f, n, codes, start)
<1> DEFINE P(f, m) == f = [i \in 0 .. m |-> IF i = 0 THEN start ELSE Decode(n, f[i - 1], codes[i])]
           S == {m \in Nat : \E f : P(f, m)}
<1>1. 0 \in S
  <2>1. P([i \in 0 .. 0 |-> start], 0)
    OBVIOUS
  <2> QED
    BY <2>1, Zenon
<1>2. ASSUME NEW m \in Nat, m \in S
      PROVE  m + 1 \in S
  <2>1. PICK g : P(g, m)
    BY <1>2, Zenon
  <2> DEFINE f == [i \in 0 .. m + 1 |-> IF i = m + 1 THEN Decode(n, g[m], codes[m + 1]) ELSE g[i]]
  <2>2. ASSUME NEW i \in 0 .. m + 1
        PROVE  f[i] = IF i = 0 THEN start ELSE Decode(n, f[i - 1], codes[i])
    <3>1. CASE i = m + 1
      <4>1. f[i] = Decode(n, g[m], codes[m + 1]) /\ f[m] = g[m] /\ i - 1 = m /\ i # 0
        BY <3>1
      <4> QED
        BY <3>1, <4>1, Zenon
    <3>2. CASE i # m + 1
      <4>1. i \in 0 .. m /\ f[i] = g[i] /\ (i # 0 => i - 1 \in 0 .. m /\ f[i - 1] = g[i - 1])
        BY <3>2
      <4>2. g[i] = IF i = 0 THEN start ELSE Decode(n, g[i - 1], codes[i])
        BY <2>1, <4>1, Zenon
      <4> QED
        BY <4>1, <4>2, Zenon
    <3> QED
      BY <3>1, <3>2, Zenon
  <2>3. f = [i \in 0 .. m + 1 |-> f[i]]
    BY Zenon
  <2> HIDE DEF f
  <2>4. [i \in 0 .. m + 1 |-> f[i]]
        = [i \in 0 .. m + 1 |-> IF i = 0 THEN start ELSE Decode(n, f[i - 1], codes[i])]
    BY <2>2, Zenon
  <2>5. P(f, m + 1)
    BY <2>3, <2>4, Zenon
  <2>6. m + 1 \in Nat
    OBVIOUS
  <2> HIDE DEF P
  <2> QED
    BY <2>5, <2>6, Zenon
<1> HIDE DEF S
<1>3. Len(codes) \in S
  BY <1>1, <1>2, Induction
<1> QED
  BY <1>3, Zenon DEF S, IsLoop

\* The bytes that the decoder's events stand for.
Byte == {"^C", "c", "esc", "[", "D"}

\* Sequences of one and of three members, one more member, and what is left of a sequence.
LEMMA OneLong ==
    ASSUME NEW S, NEW x \in S
    PROVE  <<x>> \in Seq(S)
OBVIOUS

LEMMA CutIs ==
    ASSUME NEW S, NEW s \in Seq(S), NEW c \in 0 .. Len(s)
    PROVE  /\ SubSeq(s, c + 1, Len(s)) \in Seq(S)
           /\ s = <<>> \/ c = Len(s) => SubSeq(s, c + 1, Len(s)) = <<>>
OBVIOUS

LEMMA RestIs ==
    ASSUME NEW S, NEW s \in Seq(S), NEW n \in Nat
    PROVE  /\ SubSeq(s, n + 1, Len(s)) \in Seq(S)
           /\ s = <<>> => SubSeq(s, n + 1, Len(s)) = <<>>
OBVIOUS

LEMMA ThreeLong ==
    ASSUME NEW S, NEW x \in S, NEW y \in S, NEW z \in S
    PROVE  <<x, y, z>> \in Seq(S)
OBVIOUS

\* The decoder reports sequences of bytes.
LEMMA BytesOf ==
    ASSUME NEW d, NEW code
    PROVE  EventBytes(d, code) \in Seq(Byte)
<1>0. "^C" \in Byte /\ "c" \in Byte /\ "esc" \in Byte /\ "[" \in Byte /\ "D" \in Byte
  BY Zenon DEF Byte
<1>1. <<"^C">> \in Seq(Byte) /\ <<"c">> \in Seq(Byte)
  BY <1>0, OneLong, Zenon
<1>2. <<"esc", "[", "D">> \in Seq(Byte)
  BY <1>0, ThreeLong, Zenon
<1>3. <<>> \in Seq(Byte)
  OBVIOUS
<1>4. EventBytes(d, code) \in {<<"^C">>, <<"c">>, <<>>, <<"esc", "[", "D">>}
  BY Zenon DEF EventBytes
<1> QED
  BY <1>1, <1>2, <1>3, <1>4, Zenon

\* Where the loop stands after i codes: until the read is full every code is used and
\* nothing is left over, and the decoder is the one that was fed the codes used.
Stands(a, i, n, run) ==
    /\ a.consumed \in 0 .. i /\ a.out \in Seq(Byte) /\ a.pending \in Seq(Byte)
    /\ Len(a.out) <= n /\ a.dec = run[a.consumed]
    /\ Len(a.out) # n => a.consumed = i /\ a.pending = <<>>

\* Min of two numbers.
LEMMA SmallerOfTwo ==
    ASSUME NEW a \in Int, NEW b \in Int
    PROVE  Min({a, b}) = IF a <= b THEN a ELSE b
BY DEF Min

\* It stands there before the first code, with what was pending,
LEMMA StandsAtStart ==
    ASSUME NEW n \in Nat, NEW bytes \in Seq(Byte), NEW d, NEW run, run[0] = d
    PROVE  Stands(Start(n, d, bytes), 0, n, run)
<1> DEFINE first == Min({n, Len(bytes)})
<1>1. first \in Nat /\ first <= n /\ first <= Len(bytes) /\ (first # n => first = Len(bytes))
  BY SmallerOfTwo
<1>2. PICK a : a = Start(n, d, bytes)
  BY Zenon
<1>3. /\ a.consumed = 0 /\ a.dec = d /\ a.out = SubSeq(bytes, 1, first)
      /\ a.pending = SubSeq(bytes, first + 1, Len(bytes))
  BY <1>2, Zenon DEF Start
<1> HIDE DEF first
<1>4. a.out \in Seq(Byte) /\ Len(a.out) = first /\ a.pending \in Seq(Byte)
      /\ Len(a.pending) = Len(bytes) - first
  BY <1>1, <1>3
<1>5. Stands(a, 0, n, run)
  BY <1>1, <1>3, <1>4 DEF Stands
<1> QED
  BY <1>2, <1>5, Zenon

\* and a turn of the loop takes it from one code to the next.
LEMMA StandsOn ==
    ASSUME NEW n \in Nat, NEW a, NEW i \in Nat, NEW run, Stands(a, i, n, run), NEW code,
           run[i + 1] = Fed(run[i], code)
    PROVE  Stands(Decode(n, a, code), i + 1, n, run)
<1>1. CASE Len(a.out) = n
  BY <1>1 DEF Stands, Decode
<1>2. CASE Len(a.out) # n
  <2> DEFINE bytes == a.out \o EventBytes(a.dec, code)
             fits == Min({n, Len(bytes)})
  <2>1. bytes \in Seq(Byte) /\ Len(bytes) \in Nat
    <3>1. PICK e : e = EventBytes(a.dec, code)
      BY Zenon
    <3>2. e \in Seq(Byte) /\ a.out \in Seq(Byte)
      BY <3>1, BytesOf, Zenon DEF Stands
    <3>3. a.out \o e \in Seq(Byte) /\ Len(a.out \o e) \in Nat
      BY <3>2
    <3> QED
      BY <3>1, <3>3, Zenon
  <2> HIDE DEF bytes
  <2>2. fits \in Nat /\ fits <= n /\ fits <= Len(bytes) /\ (fits # n => fits = Len(bytes))
    BY <2>1, SmallerOfTwo
  <2>3. PICK b : b = Decode(n, a, code)
    BY Zenon
  <2>4. /\ b.consumed = a.consumed + 1 /\ b.dec = Fed(a.dec, code)
        /\ b.out = SubSeq(bytes, 1, fits)
        /\ b.pending = a.pending \o SubSeq(bytes, fits + 1, Len(bytes))
    BY <1>2, <2>3, Zenon DEF Decode, bytes
  <2> HIDE DEF fits
  <2>5. a.consumed = i /\ a.pending = <<>> /\ a.dec = run[i]
    BY <1>2, Zenon DEF Stands
  <2>6. PICK rest : rest = SubSeq(bytes, fits + 1, Len(bytes))
    BY Zenon
  <2>7. rest \in Seq(Byte) /\ Len(rest) = Len(bytes) - fits
    BY <2>1, <2>2, <2>6
  <2>8. b.pending = rest
    BY <2>4, <2>5, <2>6, <2>7
  <2>9. b.out \in Seq(Byte) /\ Len(b.out) = fits
    BY <2>1, <2>2, <2>4
  <2>10. fits # n => rest = <<>>
    BY <2>2, <2>7
  <2>11. b.consumed = i + 1 /\ i + 1 \in 0 .. i + 1
    BY <2>4, <2>5
  <2>12. b.dec = run[b.consumed]
    BY <2>4, <2>5, <2>11, Zenon
  <2>13. Stands(b, i + 1, n, run)
    BY <2>2, <2>7, <2>8, <2>9, <2>10, <2>11, <2>12, Zenon DEF Stands
  <2> QED
    BY <2>3, <2>13, Zenon
<1> QED
  BY <1>1, <1>2, Zenon

\* What read_bytes answers: it consumes codes from the front, its decoder has had just
\* those, and when it returns nothing it has used up everything.
LEMMA ReadBytesIs ==
    ASSUME NEW n \in Nat \ {0}, NEW codes \in Seq(STRING), NEW bytes \in Seq(Byte), NEW d,
           NEW run, IsRun(run, d, codes), NEW r, r = read_bytes(n, codes, d, bytes)
    PROVE  /\ r.consumed \in 0 .. Len(codes) /\ r.pending \in Seq(Byte)
           /\ r.dec = run[r.consumed]
           /\ r.out = <<>> => r.consumed = Len(codes) /\ r.pending = <<>>
           /\ codes = <<>> /\ bytes = <<>> => r.out = <<>>
<1> DEFINE start == Start(n, d, bytes)
           f == CHOOSE f : IsLoop(f, n, codes, start)
           S == {i \in Nat : i <= Len(codes) => Stands(f[i], i, n, run)}
<1>1. IsLoop(f, n, codes, start)
  BY LoopExists, Zenon
<1>2. r = f[Len(codes)]
  BY Zenon DEF read_bytes, IsLoop, Start
<1> HIDE DEF f
<1>3. \A i \in 0 .. Len(codes) : f[i] = IF i = 0 THEN start ELSE Decode(n, f[i - 1], codes[i])
  BY <1>1, Zenon DEF IsLoop
<1>4. \A i \in 0 .. Len(codes) : run[i] = IF i = 0 THEN d ELSE Fed(run[i - 1], codes[i])
  BY Zenon DEF IsRun
<1>5. 0 \in 0 .. Len(codes) /\ Len(codes) \in Nat
  OBVIOUS
<1>6. f[0] = start /\ run[0] = d
  BY <1>3, <1>4, <1>5, Zenon
<1> HIDE DEF start
<1>7. 0 \in S
  <2>1. Stands(start, 0, n, run)
    BY <1>6, StandsAtStart, Zenon DEF start
  <2> QED
    BY <1>6, <2>1, Zenon
<1>8. ASSUME NEW i \in Nat, i \in S
      PROVE  i + 1 \in S
  <2>1. CASE i + 1 <= Len(codes)
    <3>1. i + 1 \in 0 .. Len(codes) /\ i + 1 # 0 /\ (i + 1) - 1 = i /\ i <= Len(codes)
      BY <2>1
    <3>2. f[i + 1] = Decode(n, f[i], codes[i + 1]) /\ run[i + 1] = Fed(run[i], codes[i + 1])
      BY <1>3, <1>4, <3>1, Zenon
    <3>3. Stands(f[i], i, n, run)
      BY <1>8, <3>1, Zenon
    <3>4. Stands(f[i + 1], i + 1, n, run)
      BY <3>2, <3>3, StandsOn, Zenon
    <3> QED
      BY <3>4
  <2>2. CASE ~(i + 1 <= Len(codes))
    BY <2>2
  <2> QED
    BY <2>1, <2>2, Zenon
<1> HIDE DEF S
<1>9. Len(codes) \in S
  BY <1>5, <1>7, <1>8, Induction, Zenon
<1>10. Stands(r, Len(codes), n, run)
  BY <1>2, <1>5, <1>9 DEF S
<1>11. codes = <<>> /\ bytes = <<>> => r.out = <<>>
  <2> SUFFICES ASSUME codes = <<>>, bytes = <<>> PROVE r.out = <<>>
    BY Zenon
  <2>1. r = start
    BY <1>2, <1>6, Zenon
  <2>2. Len(bytes) = 0
    BY Zenon
  <2>3. Min({n, Len(bytes)}) = 0
    BY <2>2, SmallerOfTwo
  <2>4. PICK o : o = SubSeq(bytes, 1, 0)
    BY Zenon
  <2>5. o \in Seq(Byte) /\ Len(o) = 0
    BY <2>4
  <2>6. start.out = o
    BY <2>3, <2>4 DEF start, Start
  <2> QED
    BY <2>1, <2>5, <2>6
<1>12. r.out = <<>> => Len(r.out) # n
  BY Zenon
<1> QED
  BY <1>10, <1>11, <1>12, Zenon DEF Stands

----------------------------------------------------------------------------
(* The invariant *)

\* What a task can wait for, and where it can be.
Reasons == {Keyboard, Timer, SocketReadable}
Points == {"user", "init", "none", "entry", "loading", "reading", "events", "polling", "sleeping"}

\* The types the argument uses, and that a read which waits has asked for something.
Types ==
    /\ running \in {"main", "child", "idle"} /\ pc \in [Tasks -> Points]
    /\ waits \in [Tasks -> SUBSET Reasons] /\ left \in [Tasks -> Int] /\ want \in [Tasks -> Nat]
    /\ depth \in [Tasks -> Int] /\ pressed \in [Tasks -> Int] /\ mail \in Nat
    /\ ring \in Seq(STRING) /\ pending \in Seq(Byte) /\ wire \in Seq(STRING)
    /\ \A t \in Tasks : pc[t] = "reading" => want[t] # 0

\* The task that has the processor waits for nothing.
RunnerIsReady == running \in Tasks => waits[running] = {}

\* A decoder and the look-out in the same place of the same sequence.
Alike(a, k) ==
    /\ DOMAIN a = {"ctrl", "sequence", "remaining"} /\ DOMAIN k = {"ctrl", "pause"}
    /\ a.ctrl = k.ctrl /\ a.remaining = k.pause /\ k.pause \in Nat
    /\ a.sequence \in {"Idle", "Extended", "Pause"} /\ (a.sequence = "Pause" <=> a.remaining # 0)

\* The code that follows a prefix is still to come from the same key.
Follows(a, w) == a.sequence = "Extended" => w # <<>> /\ Head(w) # "E1"

\* Unless codes went past the decoder, it is where the look-out is once the ring is decoded.
Decoding ==
    /\ Prefixed(wire)
    /\ lost \/ (Alike(FedAll(dec, ring), trk) /\ Follows(FedAll(dec, ring), wire))

\* The inductive invariant.
Inv ==
    /\ Types /\ RunnerIsReady /\ SleepersHaveNothingToWakeFor
    /\ RequestIsForThoseRunning /\ Decoding

\* The decoder and the look-out make the same of a code, unless it is the beginning of
\* Pause after a prefix.
LEMMA CodeAgrees ==
    ASSUME NEW a, NEW k, Alike(a, k), NEW code, a.sequence = "Extended" => code # "E1"
    PROVE  Alike(Fed(a, code), Tracked(k, code))
           /\ (Fed(a, code).sequence = "Extended" => code = "E0")
<1> USE KeyboardAssumption DEF Alike
<1>1. CASE a.sequence = "Pause"
  <2>1. Tracked(k, code) = [k EXCEPT !.pause = @ - 1]
    BY <1>1 DEF Tracked
  <2>2. CASE a.remaining = 1
    <3>1. Fed(a, code) = [a EXCEPT !.sequence = "Idle", !.remaining = 0]
      BY <1>1, <2>2, Zenon DEF Fed
    <3> QED
      BY <1>1, <2>1, <2>2, <3>1
  <2>3. CASE a.remaining # 1
    <3>1. Fed(a, code) = [a EXCEPT !.remaining = @ - 1]
      BY <1>1, <2>3, Zenon DEF Fed
    <3> QED
      BY <1>1, <2>1, <2>3, <3>1
  <2> QED
    BY <2>2, <2>3, Zenon
<1>2. CASE a.sequence # "Pause" /\ IsCtrl(code)
  <2>1. Fed(a, code) = [a EXCEPT !.sequence = "Idle", !.ctrl = (code = "ctrl+")]
    BY <1>2, Zenon DEF Fed
  <2>2. Tracked(k, code) = [k EXCEPT !.ctrl = (code = "ctrl+")]
    BY <1>2 DEF Tracked, IsCtrl
  <2> QED
    BY <1>2, <2>1, <2>2
<1>3. CASE a.sequence = "Extended" /\ ~IsCtrl(code)
  <2>1. Fed(a, code) = [a EXCEPT !.sequence = "Idle"]
    BY <1>3, Zenon DEF Fed
  <2>2. Tracked(k, code) = k
    BY <1>3, SMTT(30) DEF Tracked
  <2> QED
    BY <1>3, <2>1, <2>2, Zenon
<1>4. CASE a.sequence = "Idle" /\ ~IsCtrl(code)
  <2>1. CASE code = "E0"
    <3>1. Fed(a, code) = [a EXCEPT !.sequence = "Extended"] /\ Tracked(k, code) = k
      BY <1>4, <2>1 DEF Fed, Tracked
    <3> QED
      BY <1>4, <2>1, <3>1, Zenon
  <2>2. CASE code = "E1"
    <3>1. Fed(a, code) = [a EXCEPT !.sequence = "Pause", !.remaining = PAUSE_TRAILING_BYTES]
      BY <1>4, <2>2, Zenon DEF Fed
    <3>2. Tracked(k, code) = [k EXCEPT !.pause = PAUSE_TRAILING_BYTES]
      BY <1>4, <2>2 DEF Tracked
    <3> QED
      BY <1>4, <2>2, <3>1, <3>2, Zenon
  <2>3. CASE code # "E0" /\ code # "E1"
    <3>1. Fed(a, code) = a /\ Tracked(k, code) = k
      BY <1>4, <2>3 DEF Fed, Tracked
    <3> QED
      BY <1>4, <2>3, <3>1, Zenon
  <2> QED
    BY <2>1, <2>2, <2>3, Zenon
<1> QED
  BY <1>1, <1>2, <1>3, <1>4, Zenon

\* A turn of the terminal's read loop: the decoder and the ring go on together, and the
\* reader waits only when both ring and left-over bytes are used up.
Turn(t, n) ==
    /\ ring' \in Seq(STRING) /\ pending' \in Seq(Byte)
    /\ FedAll(dec', ring') = FedAll(dec, ring)
    /\ ring = <<>> => ring' = <<>>
    /\ ring = <<>> /\ pending = <<>> => pending' = <<>>
    /\ \/ Return(t) /\ want' = [want EXCEPT ![t] = 0]
       \/ /\ Wait(t, {Keyboard}, "reading") /\ want' = [want EXCEPT ![t] = n]
          /\ ring' = <<>> /\ pending' = <<>>
    /\ UNCHANGED <<left, depth, foreground, requested, trk, wire, lost, mail, pressed>>

\* What the read loop does is such a turn.
LEMMA LoopIsTurn ==
    ASSUME Types, NEW t \in Tasks, NEW n \in Nat \ {0}, ReadLoop(t, n)
    PROVE  Turn(t, n)
<1>1. ring \in Seq(STRING) /\ pending \in Seq(Byte)
  BY Zenon DEF Types
<1>2. PICK run : IsRun(run, dec, ring)
  BY <1>1, RunExists, Zenon
<1>3. PICK r : r = read_bytes(n, ring, dec, pending)
  BY Zenon
<1>4. /\ ring' = SubSeq(ring, r.consumed + 1, Len(ring)) /\ dec' = r.dec /\ pending' = r.pending
      /\ \/ r.out # <<>> /\ Return(t) /\ want' = [want EXCEPT ![t] = 0]
         \/ r.out = <<>> /\ Wait(t, {Keyboard}, "reading") /\ want' = [want EXCEPT ![t] = n]
      /\ UNCHANGED <<left, depth, foreground, requested, trk, wire, lost, mail, pressed>>
  BY <1>3, Zenon DEF ReadLoop
<1>5. /\ r.consumed \in 0 .. Len(ring) /\ r.pending \in Seq(Byte)
      /\ r.dec = run[r.consumed]
      /\ r.out = <<>> => r.consumed = Len(ring) /\ r.pending = <<>>
      /\ ring = <<>> /\ pending = <<>> => r.out = <<>>
  BY <1>1, <1>2, <1>3, ReadBytesIs, SMTT(30)
<1>6. ring' \in Seq(STRING) /\ (ring = <<>> \/ r.consumed = Len(ring) => ring' = <<>>)
  BY <1>1, <1>4, <1>5, CutIs, Zenon
<1>7. FedAll(dec', ring') = FedAll(dec, ring)
  <2>1. FedAll(run[r.consumed], SubSeq(ring, r.consumed + 1, Len(ring))) = FedAll(dec, ring)
    BY <1>1, <1>2, <1>5, FedTheRest
  <2> QED
    BY <1>4, <1>5, <2>1, Zenon
<1> QED
  BY <1>4, <1>5, <1>6, <1>7, Zenon DEF Turn

\* The keyboard interrupt brings the next code of a key, of which the rest is as it should be.
LEMMA CodeComes ==
    ASSUME Types, Prefixed(wire), KeyCode
    PROVE  \E code \in STRING :
               /\ KeyboardInterrupt(code) /\ wire' \in Seq(STRING) /\ Prefixed(wire')
               /\ code = "E0" => wire' # <<>> /\ Head(wire') # "E1"
               /\ wire # <<>> => code = Head(wire)
<1>1. PICK codes : /\ codes \in IF wire = <<>> THEN Keys ELSE {wire}
                   /\ wire' = Tail(codes) /\ KeyboardInterrupt(Head(codes))
  BY Zenon DEF KeyCode
<1>2. codes \in Seq(STRING) /\ codes # <<>> /\ Prefixed(codes) /\ (wire # <<>> => codes = wire)
  BY <1>1, KeysAssumption, Zenon DEF Types
<1>3. /\ Len(codes) \in Nat \ {0} /\ Head(codes) = codes[1] /\ Head(codes) \in STRING
      /\ wire' \in Seq(STRING) /\ Len(wire') = Len(codes) - 1
      /\ \A i \in 1 .. Len(wire') : wire'[i] = codes[i + 1]
  BY <1>1, <1>2
<1>4. Prefixed(wire')
  <2> SUFFICES ASSUME NEW i \in 1 .. Len(wire'), wire'[i] = "E0"
               PROVE  i < Len(wire') /\ wire'[i + 1] # "E1"
    BY Zenon DEF Prefixed
  <2>1. i + 1 \in 1 .. Len(codes) /\ codes[i + 1] = "E0"
    BY <1>3
  <2>2. i + 1 < Len(codes) /\ codes[(i + 1) + 1] # "E1"
    BY <1>2, <2>1, Zenon DEF Prefixed
  <2>3. i + 1 \in 1 .. Len(wire')
    BY <1>3, <2>2
  <2> QED
    BY <1>3, <2>2, <2>3
<1>5. ASSUME Head(codes) = "E0"
      PROVE  wire' # <<>> /\ Head(wire') # "E1"
  <2>1. 1 \in 1 .. Len(codes) /\ codes[1] = "E0"
    BY <1>3, <1>5
  <2>2. 1 < Len(codes) /\ codes[1 + 1] # "E1"
    BY <1>2, <2>1, Zenon DEF Prefixed
  <2>3. 1 \in 1 .. Len(wire') /\ wire' # <<>> /\ Head(wire') = wire'[1]
    BY <1>3, <2>2
  <2> QED
    BY <1>3, <2>2, <2>3, Zenon
<1> QED
  BY <1>1, <1>2, <1>3, <1>4, <1>5, Zenon

\* The scheduler switches to a task that waits for nothing, or to the idle task.
LEMMA YieldsToReady ==
    ASSUME Yield
    PROVE  running' \in {"main", "child", "idle"} /\ RunnerIsReady'
<1> DEFINE ready == [t \in Tasks |-> waits'[t] = {} /\ pc'[t] # "none"]
<1>1. (ready["main"] => waits'["main"] = {}) /\ (ready["child"] => waits'["child"] = {})
  BY Zenon DEF Tasks
<1>2. running' = pick_next(running, ready)
  BY Zenon DEF Yield
<1> HIDE DEF ready
<1> QED
  BY <1>1, <1>2, Zenon DEF pick_next, RunnerIsReady, Tasks

\* What is decoded stays when neither the ring nor a decoder is touched.
LEMMA DecodingKept ==
    ASSUME Decoding, UNCHANGED <<trk, ring, dec, wire>>, lost => lost'
    PROVE  Decoding'
BY Zenon DEF Decoding, Prefixed, Alike, Follows

\* Short names.
Sleepers == SleepersHaveNothingToWakeFor
Request == RequestIsForThoseRunning

\* A program is entered: by init, by spawn, or in the detached task.
LEMMA EnterStep ==
    ASSUME Types, RunnerIsReady, Sleepers, Request, NEW t \in Tasks, Enter(t),
           UNCHANGED <<running, waits, left, want, input, mail>>
    PROVE  Types' /\ RunnerIsReady' /\ Sleepers' /\ Request'
<1> USE DEF Enter, ClearRequest, input
<1>1. Types'
  BY DEF Types, Points
<1>2. RunnerIsReady'
  BY Zenon DEF RunnerIsReady
<1>3. Sleepers'
  BY Zenon DEF Types, Sleepers, SleepersHaveNothingToWakeFor
<1>4. Request'
  BY Zenon DEF Request, RequestIsForThoseRunning
<1> QED
  BY <1>1, <1>2, <1>3, <1>4, Zenon

\* A call returns, or waits and gives the processor away; the rest of the step is given.
LEMMA MoveStep ==
    ASSUME Types, RunnerIsReady, Sleepers, NEW t \in Tasks,
           \/ Return(t)
           \/ \E reasons \in SUBSET Reasons, at \in Points : Wait(t, reasons, at)
    PROVE  /\ running' \in {"main", "child", "idle"} /\ pc' \in [Tasks -> Points]
           /\ waits' \in [Tasks -> SUBSET Reasons] /\ RunnerIsReady'
<1>1. CASE Return(t)
  BY <1>1, Zenon DEF Return, Types, RunnerIsReady, Points
<1>2. ASSUME NEW reasons \in SUBSET Reasons, NEW at \in Points, Wait(t, reasons, at)
      PROVE  /\ running' \in {"main", "child", "idle"} /\ pc' \in [Tasks -> Points]
             /\ waits' \in [Tasks -> SUBSET Reasons] /\ RunnerIsReady'
  <2>1. Yield
    BY <1>2, Zenon DEF Wait
  <2>2. pc' \in [Tasks -> Points] /\ waits' \in [Tasks -> SUBSET Reasons]
    BY <1>2, Zenon DEF Wait, Types
  <2> QED
    BY <2>1, <2>2, YieldsToReady, Zenon
<1> QED
  BY <1>1, <1>2, Zenon

\* init starts a shell, a program spawns one, the detached program is entered.
LEMMA StartStep ==
    ASSUME Inv, StartShell \/ EnterDetached \/ \E t \in Tasks : Spawn(t)
    PROVE  Inv'
<1>1. PICK t \in Tasks : Enter(t) /\ UNCHANGED <<running, waits, left, want, input, mail>>
  BY Zenon DEF StartShell, EnterDetached, Spawn, Tasks
<1>2. Types' /\ RunnerIsReady' /\ Sleepers' /\ Request'
  BY <1>1, EnterStep, Zenon DEF Inv, Sleepers, Request
<1>3. Decoding'
  BY <1>1, DecodingKept, Zenon DEF Inv, input
<1> QED
  BY <1>2, <1>3, Zenon DEF Inv, Sleepers, Request

\* spawn_detached makes the child ready and waits for its entry.
LEMMA DetachStep ==
    ASSUME Inv, SpawnDetached \/ AwaitEntry
    PROVE  Inv'
<1> USE DEF Inv
<1>1. CASE SpawnDetached
  <2> USE <1>1 DEF SpawnDetached, InUser, input
  <2>1. Types'
    BY Zenon DEF Types, Points, Tasks
  <2>2. RunnerIsReady'
    BY Zenon DEF RunnerIsReady
  <2>3. Sleepers'
    BY Zenon  DEF Types, Sleepers, SleepersHaveNothingToWakeFor
  <2>4. Request'
    BY Zenon DEF Request, RequestIsForThoseRunning
  <2>5. Decoding'
    BY DecodingKept, Zenon
  <2> QED
    BY <2>1, <2>2, <2>3, <2>4, <2>5, Zenon DEF Sleepers, Request
<1>2. CASE AwaitEntry
  <2>1. /\ Return("main") \/ (UNCHANGED <<pc, waits>> /\ Yield)
        /\ UNCHANGED <<left, want, depth, foreground, requested, input, mail, pressed>>
    BY <1>2, Zenon DEF AwaitEntry
  <2>2. /\ running' \in {"main", "child", "idle"} /\ pc' \in [Tasks -> Points]
        /\ waits' \in [Tasks -> SUBSET Reasons] /\ RunnerIsReady'
    <3>1. CASE Return("main")
      BY <3>1, MoveStep, Zenon DEF Tasks, Sleepers
    <3>2. CASE UNCHANGED <<pc, waits>> /\ Yield
      BY <3>2, YieldsToReady, Zenon DEF Types
    <3> QED
      BY <2>1, <3>1, <3>2, Zenon
  <2>3. \A t \in Tasks : (pc'[t] = pc[t] \/ pc'[t] = "user") /\ waits'[t] = waits[t]
    BY <2>1, Zenon DEF Return, Types
  <2>4. Types'
    BY <2>1, <2>2, <2>3, Zenon DEF Types, input
  <2>5. Sleepers'
    BY <2>1, <2>3, Zenon DEF Sleepers, SleepersHaveNothingToWakeFor, input
  <2>6. Request'
    BY <2>1, Zenon DEF Request, RequestIsForThoseRunning
  <2>7. Decoding'
    BY <2>1, DecodingKept, Zenon DEF input
  <2> QED
    BY <2>2, <2>4, <2>5, <2>6, <2>7, Zenon DEF Sleepers, Request
<1> QED
  BY <1>1, <1>2, Zenon

\* A program ends by itself.
LEMMA ExitStep ==
    ASSUME Inv, NEW t \in Tasks, Exit(t)
    PROVE  Inv'
<1> USE DEF Inv
<1>1. /\ running = t /\ Leave(t)
      /\ pending' = pending \/ pending' = <<>>
      /\ pressed' = [pressed EXCEPT ![t] = Min({@, depth[t] - 1})]
      /\ Yield \/ UNCHANGED running
      /\ UNCHANGED <<waits, left, want, requested, trk, ring, dec, wire, lost, mail>>
  BY Zenon DEF Exit, InUser
<1>2. /\ pc' \in [Tasks -> Points] /\ depth' = [depth EXCEPT ![t] = @ - 1]
      /\ \A u \in Tasks : pc'[u] # "reading" \/ pc'[u] = pc[u]
  BY <1>1, Zenon DEF Leave, Types, Points
<1>3. running' \in {"main", "child", "idle"} /\ RunnerIsReady'
  <2>1. CASE Yield
    BY <2>1, YieldsToReady, Zenon
  <2>2. CASE UNCHANGED running
    BY <1>1, <2>2, Zenon DEF Types, RunnerIsReady
  <2> QED
    BY <1>1, <2>1, <2>2, Zenon
<1>4. PICK p, d : p = pressed[t] /\ d = depth[t] /\ p \in Int /\ d \in Int
  BY Zenon DEF Types
<1>5. Min({p, d - 1}) \in Int /\ (d <= p => d - 1 <= Min({p, d - 1}))
  <2>1. d - 1 \in Int
    BY <1>4
  <2> QED
    BY <1>4, <2>1, SmallerOfTwo
<1>6. Types'
  <2>1. pressed' \in [Tasks -> Int] /\ depth' \in [Tasks -> Int]
    BY <1>1, <1>2, <1>4, <1>5 DEF Types
  <2>2. <<>> \in Seq(Byte)
    OBVIOUS
  <2>3. pending' \in Seq(Byte)
    BY <1>1, <2>2, Zenon DEF Types
  <2> QED
    BY <1>1, <1>2, <1>3, <2>1, <2>3, Zenon DEF Types
<1>7. Sleepers'
  BY <1>1, <1>2, Zenon DEF Sleepers, SleepersHaveNothingToWakeFor
<1>8. Request'
  BY <1>1, <1>2, <1>4, <1>5, Zenon DEF Request, RequestIsForThoseRunning, Types
<1>9. Decoding'
  BY <1>1, DecodingKept, Zenon
<1> QED
  BY <1>3, <1>6, <1>7, <1>8, <1>9, Zenon DEF Sleepers, Request

\* Waking those who wait for something takes waits away and adds none.
LEMMA WakingIs ==
    ASSUME waits \in [Tasks -> SUBSET Reasons], NEW on, waits' = Woken(on)
    PROVE  /\ waits' \in [Tasks -> SUBSET Reasons]
           /\ \A t \in Tasks : on \notin waits'[t] /\ waits'[t] \in {{}, waits[t]}
BY Zenon DEF Woken, waits_on

\* A code arrives.
LEMMA KeyStep ==
    ASSUME Inv, KeyCode
    PROVE  Inv'
<1> USE DEF Inv
<1>1. Prefixed(wire)
  BY Zenon DEF Decoding
<1>2. PICK code \in STRING :
          /\ KeyboardInterrupt(code) /\ wire' \in Seq(STRING) /\ Prefixed(wire')
          /\ code = "E0" => wire' # <<>> /\ Head(wire') # "E1"
          /\ wire # <<>> => code = Head(wire)
  BY <1>1, CodeComes, Zenon
<1>3. /\ trk' = Tracked(trk, code) /\ ring' = push(ring, code) /\ lost' = (lost \/ ring' = ring)
      /\ \/ requested' = TRUE /\ pressed' = depth
         \/ UNCHANGED <<requested, pressed>>
      /\ waits' = Woken(Keyboard)
      /\ UNCHANGED <<running, pc, left, want, depth, foreground, dec, pending, mail>>
  BY <1>2, Zenon DEF KeyboardInterrupt
<1>4. /\ waits' \in [Tasks -> SUBSET Reasons]
      /\ \A t \in Tasks : Keyboard \notin waits'[t] /\ waits'[t] \in {{}, waits[t]}
  BY <1>3, WakingIs, Zenon DEF Types
<1>5. ring' \in Seq(STRING)
  <2>1. ring' \in {ring, Append(ring, code)} /\ ring \in Seq(STRING)
    BY <1>3, Zenon DEF push, Types
  <2> QED
    BY <1>2, <2>1, AppendIs, Zenon
<1>6. Types'
  BY <1>2, <1>3, <1>4, <1>5, Zenon DEF Types
<1>7. RunnerIsReady'
  BY <1>3, <1>4, ZenonT(60) DEF RunnerIsReady
<1>8. Sleepers'
  BY <1>3, <1>4, Zenon DEF Sleepers, SleepersHaveNothingToWakeFor
<1>9. Request'
  <2>1. \A t \in Tasks : depth[t] <= depth[t]
    BY DEF Types
  <2> QED
    BY <1>3, <2>1, Zenon DEF Request, RequestIsForThoseRunning
<1>10. Decoding'
  <2>1. CASE lost'
    BY <1>2, <2>1, Zenon DEF Decoding, Prefixed
  <2>2. CASE ~lost'
    <3> DEFINE a == FedAll(dec, ring)
    <3>1. ~lost /\ ring' = Append(ring, code)
      BY <1>3, <2>2, Zenon DEF push
    <3>2. FedAll(dec', ring') = Fed(a, code)
      BY <1>3, <3>1, FedOneMore, Zenon DEF Types
    <3>3. Alike(a, trk) /\ Follows(a, wire)
      BY <3>1, Zenon DEF Decoding
    <3> HIDE DEF a
    <3>4. a.sequence = "Extended" => code # "E1"
      BY <1>2, <3>3, Zenon DEF Follows
    <3>5. Alike(Fed(a, code), trk') /\ (Fed(a, code).sequence = "Extended" => code = "E0")
      BY <1>3, <3>3, <3>4, CodeAgrees, Zenon
    <3>6. Follows(Fed(a, code), wire')
      BY <1>2, <3>5, Zenon DEF Follows
    <3> QED
      BY <1>2, <3>2, <3>5, <3>6, Zenon DEF Decoding, Prefixed, Alike, Follows
  <2> QED
    BY <2>1, <2>2, Zenon
<1> QED
  BY <1>6, <1>7, <1>8, <1>9, <1>10, Zenon DEF Sleepers, Request

\* The timer ticks.
LEMMA TickStep ==
    ASSUME Inv, Tick
    PROVE  Inv'
<1> USE DEF Inv
<1>1. /\ left' = [t \in Tasks |-> IF Timer \in waits[t] THEN left[t] - 1 ELSE left[t]]
      /\ waits' = [t \in Tasks |-> IF Timer \in waits[t] /\ left'[t] <= 0 THEN {} ELSE waits[t]]
  BY Zenon DEF Tick, AdvanceClock, Expired
<1>2. /\ left' \in [Tasks -> Int] /\ waits' \in [Tasks -> SUBSET Reasons]
      /\ \A t \in Tasks : waits'[t] \in {{}, waits[t]} /\ (Timer \in waits'[t] => left'[t] > 0)
  BY <1>1 DEF Types
<1>3. UNCHANGED <<want, trk, dec, wire, mail>>
  BY Zenon DEF Tick
<1>4. /\ running' \in {"main", "child", "idle"} /\ RunnerIsReady'
  <2>1. Yield \/ UNCHANGED running
    BY Zenon DEF Tick
  <2>2. CASE Yield
    BY <2>2, YieldsToReady, Zenon
  <2>3. CASE UNCHANGED running
    BY <1>2, <2>3, Zenon DEF Types, RunnerIsReady
  <2> QED
    BY <2>1, <2>2, <2>3, Zenon
<1>5. CASE ShouldFold
  <2>1. PICK t \in Tasks : t = running
    BY <1>5, Zenon DEF ShouldFold
  <2>2. /\ Leave(t) /\ ClearRequest
        /\ ring' = <<>> /\ pending' = <<>> /\ lost' = (lost \/ ring # <<>>)
    BY <1>5, <2>1, Zenon DEF Tick
  <2>3. /\ pc' \in [Tasks -> Points] /\ depth' \in [Tasks -> Int]
        /\ \A u \in Tasks : pc'[u] # "reading" \/ pc'[u] = pc[u]
    BY <2>2 DEF Leave, Types, Points
  <2>4. ring' \in Seq(STRING) /\ pending' \in Seq(Byte)
    BY <2>2
  <2>5. pressed' \in [Tasks -> Int] /\ ~requested'
    BY <2>2 DEF ClearRequest
  <2>6. Types'
    BY <1>2, <1>3, <1>4, <2>3, <2>4, <2>5, Zenon DEF Types
  <2>7. Sleepers'
    BY <1>2, <1>3, <2>2, Zenon DEF Sleepers, SleepersHaveNothingToWakeFor
  <2>8. Request'
    BY <2>5, Zenon DEF Request, RequestIsForThoseRunning
  <2>9. Decoding'
    <3>1. CASE ring = <<>>
      BY <1>3, <2>2, <3>1, DecodingKept, Zenon
    <3>2. CASE ring # <<>>
      BY <1>3, <2>2, <3>2, Zenon DEF Decoding, Prefixed
    <3> QED
      BY <3>1, <3>2, Zenon
  <2> QED
    BY <1>4, <2>6, <2>7, <2>8, <2>9, Zenon DEF Sleepers, Request
<1>6. CASE ~ShouldFold
  <2>1. UNCHANGED <<pc, depth, foreground, requested, pressed, ring, pending, lost>>
    BY <1>6, Zenon DEF Tick
  <2>2. Types'
    BY <1>2, <1>3, <1>4, <2>1, Zenon DEF Types
  <2>3. Sleepers'
    BY <1>2, <1>3, <2>1, Zenon DEF Sleepers, SleepersHaveNothingToWakeFor
  <2>4. Request'
    BY <2>1, Zenon DEF Request, RequestIsForThoseRunning
  <2>5. Decoding'
    BY <1>3, <2>1, DecodingKept, Zenon
  <2> QED
    BY <1>4, <2>2, <2>3, <2>4, <2>5, Zenon DEF Sleepers, Request
<1> QED
  BY <1>5, <1>6, Zenon

\* A turn of the terminal's read loop.
LEMMA TurnStep ==
    ASSUME Inv, NEW t \in Tasks, NEW n \in Nat \ {0}, ReadLoop(t, n)
    PROVE  Inv'
<1> USE DEF Inv
<1>1. Turn(t, n)
  BY LoopIsTurn, Zenon
<1>2. /\ ring' \in Seq(STRING) /\ pending' \in Seq(Byte)
      /\ ring = <<>> => ring' = <<>>
      /\ ring = <<>> /\ pending = <<>> => pending' = <<>>
      /\ UNCHANGED <<left, depth, foreground, requested, trk, wire, lost, mail, pressed>>
  BY <1>1, Zenon DEF Turn
<1>3. \/ Return(t) /\ want' = [want EXCEPT ![t] = 0]
      \/ /\ Wait(t, {Keyboard}, "reading") /\ want' = [want EXCEPT ![t] = n]
         /\ ring' = <<>> /\ pending' = <<>>
  BY <1>1, Zenon DEF Turn
<1>4. /\ running' \in {"main", "child", "idle"} /\ pc' \in [Tasks -> Points]
      /\ waits' \in [Tasks -> SUBSET Reasons] /\ RunnerIsReady'
  <2>1. {Keyboard} \in SUBSET Reasons /\ "reading" \in Points
    BY Zenon DEF Reasons, Points
  <2> QED
    BY <1>3, <2>1, MoveStep, Zenon DEF Sleepers
<1>5. Types'
  <2>1. want' \in [Tasks -> Nat] /\ \A u \in Tasks : pc'[u] = "reading" => want'[u] # 0
    <3>1. CASE Return(t) /\ want' = [want EXCEPT ![t] = 0]
      BY <3>1, Zenon DEF Return, Types
    <3>2. CASE Wait(t, {Keyboard}, "reading") /\ want' = [want EXCEPT ![t] = n]
      BY <3>2, Zenon DEF Wait, Types
    <3> QED
      BY <1>3, <3>1, <3>2, Zenon
  <2> QED
    BY <1>2, <1>4, <2>1, Zenon DEF Types
<1>6. Sleepers'
  <2>1. CASE Return(t)
    BY <1>2, <2>1, Zenon DEF Return, Types, Sleepers, SleepersHaveNothingToWakeFor
  <2>2. CASE Wait(t, {Keyboard}, "reading") /\ ring' = <<>> /\ pending' = <<>>
    BY <1>2, <2>2, Zenon DEF Wait, Types, Sleepers, SleepersHaveNothingToWakeFor,
                      Keyboard, Timer, SocketReadable
  <2> QED
    BY <1>3, <2>1, <2>2, Zenon
<1>7. Request'
  BY <1>2, Zenon DEF Request, RequestIsForThoseRunning
<1>8. Decoding'
  <2>1. FedAll(dec', ring') = FedAll(dec, ring)
    BY <1>1, Zenon DEF Turn
  <2> QED
    BY <1>2, <2>1, Zenon DEF Decoding, Prefixed, Alike, Follows
<1> QED
  BY <1>4, <1>5, <1>6, <1>7, <1>8, Zenon DEF Sleepers, Request

\* read on the terminal, from its entry and after a wait.
LEMMA ReadStep ==
    ASSUME Inv, NEW t \in Tasks, ReadGoesOn(t) \/ \E n \in ReadSizes : ReadTerminal(t, n)
    PROVE  Inv'
<1>1. ASSUME NEW n \in ReadSizes, ReadTerminal(t, n)
      PROVE  Inv'
  <2>1. n \in Nat \ {0} /\ ReadLoop(t, n)
    BY <1>1, SessionAssumption, Zenon DEF ReadTerminal
  <2> QED
    BY <2>1, TurnStep, Zenon
<1>2. CASE running = t /\ pc[t] = "reading" /\ ReadLoop(t, want[t])
  <2>1. want[t] \in Nat \ {0}
    BY <1>2, Zenon DEF Inv, Types
  <2> QED
    BY <1>2, <2>1, TurnStep, Zenon
<1>3. CASE /\ Return(t) /\ want' = [want EXCEPT ![t] = 0]
           /\ UNCHANGED <<left, depth, foreground, requested, input, mail, pressed>>
  <2> USE DEF Inv
  <2>1. /\ running' \in {"main", "child", "idle"} /\ pc' \in [Tasks -> Points]
        /\ waits' \in [Tasks -> SUBSET Reasons] /\ RunnerIsReady'
    BY <1>3, MoveStep, Zenon DEF Sleepers
  <2>2. Types'
    <3>1. want' \in [Tasks -> Nat] /\ \A u \in Tasks : pc'[u] = "reading" => want'[u] # 0
      BY <1>3, Zenon DEF Return, Types
    <3> QED
      BY <1>3, <2>1, <3>1, Zenon DEF Types, input
  <2>3. Sleepers'
    BY <1>3, Zenon DEF Return, Types, Sleepers, SleepersHaveNothingToWakeFor, input
  <2>4. Request'
    BY <1>3, Zenon DEF Request, RequestIsForThoseRunning
  <2>5. Decoding'
    BY <1>3, DecodingKept, Zenon DEF input
  <2> QED
    BY <2>1, <2>2, <2>3, <2>4, <2>5, Zenon DEF Sleepers, Request
<1> QED
  BY <1>1, <1>2, <1>3, Zenon DEF ReadGoesOn

\* read on the input device, which takes codes past the decoder.
LEMMA EventsStep ==
    ASSUME Inv, NEW n \in ReadSizes, ReadEvents(n)
    PROVE  Inv'
<1> USE DEF Inv
<1>1. /\ ring' = SubSeq(ring, n + 1, Len(ring))
      /\ UNCHANGED <<left, depth, foreground, requested, trk, dec, pending, wire, mail, pressed>>
      /\ lost \/ ring # <<>> => lost'
  BY Zenon DEF ReadEvents
<1>2. \/ Return("main") /\ want' = [want EXCEPT !["main"] = 0]
      \/ /\ Wait("main", {Keyboard}, "events") /\ want' = [want EXCEPT !["main"] = n]
         /\ ring = <<>>
  BY Zenon DEF ReadEvents
<1>3. "main" \in Tasks /\ {Keyboard} \in SUBSET Reasons /\ "events" \in Points
  BY Zenon DEF Tasks, Reasons, Points
<1>4. n \in Nat \ {0}
  BY SessionAssumption, Zenon
<1>5. ring' \in Seq(STRING) /\ (ring = <<>> => ring' = <<>>)
  <2>1. ring \in Seq(STRING)
    BY Zenon DEF Types
  <2> QED
    BY <1>1, <1>4, <2>1, RestIs, Zenon
<1>6. /\ running' \in {"main", "child", "idle"} /\ pc' \in [Tasks -> Points]
      /\ waits' \in [Tasks -> SUBSET Reasons] /\ RunnerIsReady'
  BY <1>2, <1>3, MoveStep, Zenon DEF Sleepers
<1>7. Types'
  <2>1. want' \in [Tasks -> Nat] /\ \A u \in Tasks : pc'[u] = "reading" => want'[u] # 0
    <3>1. CASE Return("main") /\ want' = [want EXCEPT !["main"] = 0]
      BY <1>3, <3>1, Zenon DEF Return, Types
    <3>2. CASE Wait("main", {Keyboard}, "events") /\ want' = [want EXCEPT !["main"] = n]
      BY <1>3, <1>4, <3>2, Zenon DEF Wait, Types
    <3> QED
      BY <1>2, <3>1, <3>2, Zenon
  <2> QED
    BY <1>1, <1>5, <1>6, <2>1, Zenon DEF Types
<1>8. Sleepers'
  <2>1. CASE Return("main")
    BY <1>1, <1>3, <1>5, <2>1, Zenon DEF Return, Types, Sleepers, SleepersHaveNothingToWakeFor
  <2>2. CASE Wait("main", {Keyboard}, "events") /\ ring = <<>>
    BY <1>1, <1>3, <1>5, <2>2, Zenon DEF Wait, Types, Sleepers, SleepersHaveNothingToWakeFor,
                                  Keyboard, Timer, SocketReadable
  <2> QED
    BY <1>2, <2>1, <2>2, Zenon
<1>9. Request'
  BY <1>1, Zenon DEF Request, RequestIsForThoseRunning
<1>10. Decoding'
  <2>1. CASE ring = <<>>
    BY <1>1, <1>5, <2>1, DecodingKept, Zenon
  <2>2. CASE ring # <<>>
    BY <1>1, <2>2, Zenon DEF Decoding, Prefixed
  <2> QED
    BY <2>1, <2>2, Zenon
<1> QED
  BY <1>6, <1>7, <1>8, <1>9, <1>10, Zenon DEF Sleepers, Request

\* poll on the input device and the socket.
LEMMA PollStep ==
    ASSUME Inv, Poll
    PROVE  Inv'
<1> USE DEF Inv
<1>1. UNCHANGED <<left, want, depth, foreground, requested, input, mail, pressed>>
  BY Zenon DEF Poll
<1>2. \/ Return("main")
      \/ /\ Wait("main", {Keyboard, SocketReadable}, "polling")
         /\ ~poll_is_ready(Keyboard) /\ ~poll_is_ready(SocketReadable)
  BY Zenon DEF Poll
<1>3. "main" \in Tasks /\ {Keyboard, SocketReadable} \in SUBSET Reasons /\ "polling" \in Points
  BY Zenon DEF Tasks, Reasons, Points
<1>4. /\ running' \in {"main", "child", "idle"} /\ pc' \in [Tasks -> Points]
      /\ waits' \in [Tasks -> SUBSET Reasons] /\ RunnerIsReady'
  BY <1>2, <1>3, MoveStep, Zenon DEF Sleepers
<1>5. Types'
  <2>1. \A u \in Tasks : pc'[u] = "reading" => pc[u] = "reading"
    BY <1>2, <1>3, Zenon DEF Return, Wait, Types
  <2> QED
    BY <1>1, <1>4, <2>1, Zenon DEF Types, input
<1>6. Sleepers'
  <2>1. CASE Return("main")
    BY <1>1, <1>3, <2>1, Zenon DEF Return, Types, Sleepers, SleepersHaveNothingToWakeFor, input
  <2>2. CASE /\ Wait("main", {Keyboard, SocketReadable}, "polling")
             /\ ~poll_is_ready(Keyboard) /\ ~poll_is_ready(SocketReadable)
    <3>1. ring = <<>> /\ mail = 0
      <4>1. ring = <<>> /\ ~(mail > 0)
        BY <2>2, Zenon DEF poll_is_ready, Keyboard, SocketReadable
      <4>2. mail \in Nat
        BY Zenon DEF Types
      <4> QED
        BY <4>1, <4>2
    <3> QED
      BY <1>1, <1>3, <2>2, <3>1, Zenon DEF Wait, Types, Sleepers, SleepersHaveNothingToWakeFor, input,
                                    Keyboard, Timer, SocketReadable
  <2> QED
    BY <1>2, <2>1, <2>2, Zenon
<1>7. Request'
  BY <1>1, Zenon DEF Request, RequestIsForThoseRunning
<1>8. Decoding'
  BY <1>1, DecodingKept, Zenon DEF input
<1> QED
  BY <1>4, <1>5, <1>6, <1>7, <1>8, Zenon DEF Sleepers, Request

\* The byte in the socket is sent or received.
LEMMA MailStep ==
    ASSUME Inv, SendMail \/ ReceiveMail
    PROVE  Inv'
<1> USE DEF Inv
<1>1. /\ UNCHANGED <<running, pc, left, want, depth, foreground, requested, input, pressed>>
      /\ mail' \in {0, 1}
      /\ waits' = Woken(SocketReadable) \/ (UNCHANGED waits /\ mail' = 0)
  BY Zenon DEF SendMail, ReceiveMail
<1>2. /\ waits' \in [Tasks -> SUBSET Reasons]
      /\ \A t \in Tasks : waits'[t] \in {{}, waits[t]} /\ (SocketReadable \in waits'[t] => mail' = 0)
  <2>1. CASE waits' = Woken(SocketReadable)
    BY <2>1, WakingIs, Zenon DEF Types
  <2>2. CASE UNCHANGED waits /\ mail' = 0
    BY <2>2, Zenon DEF Types
  <2> QED
    BY <1>1, <2>1, <2>2, Zenon
<1>3. Types'
  <2>1. mail' \in Nat
    BY <1>1
  <2> QED
    BY <1>1, <1>2, <2>1, Zenon DEF Types, input
<1>4. RunnerIsReady'
  BY <1>1, <1>2, Zenon DEF RunnerIsReady
<1>5. Sleepers'
  BY <1>1, <1>2, Zenon DEF Sleepers, SleepersHaveNothingToWakeFor, input
<1>6. Request'
  BY <1>1, Zenon DEF Request, RequestIsForThoseRunning
<1>7. Decoding'
  BY <1>1, DecodingKept, Zenon DEF input
<1> QED
  BY <1>3, <1>4, <1>5, <1>6, <1>7, Zenon DEF Sleepers, Request

\* nanosleep, from its entry and after a wait.
LEMMA SleepStep ==
    ASSUME Inv, NEW t \in Tasks, SleepGoesOn(t) \/ \E time \in Durations : Nanosleep(t, time)
    PROVE  Inv'
<1> USE DEF Inv
<1>1. /\ running = t /\ UNCHANGED <<want, depth, foreground, requested, input, mail, pressed>>
      /\ \/ Return(t) /\ (UNCHANGED left \/ left' = [left EXCEPT ![t] = 0])
         \/ /\ Wait(t, {Timer}, "sleeping")
            /\ \E ticks \in Int : ticks > 0 /\ left' = [left EXCEPT ![t] = ticks]
  <2>1. CASE SleepGoesOn(t)
    <3>1. /\ running = t /\ UNCHANGED <<want, depth, foreground, requested, input, mail, pressed>>
          /\ \/ Return(t) /\ left' = [left EXCEPT ![t] = 0]
             \/ Wait(t, {Timer}, "sleeping") /\ left[t] > 0 /\ UNCHANGED left
      BY <2>1, Zenon DEF SleepGoesOn
    <3>2. left[t] \in Int /\ left = [left EXCEPT ![t] = left[t]]
      BY Zenon DEF Types
    <3> QED
      BY <3>1, <3>2, Zenon
  <2>2. ASSUME NEW time \in Durations, Nanosleep(t, time)
        PROVE  /\ running = t
               /\ UNCHANGED <<want, depth, foreground, requested, input, mail, pressed>>
               /\ \/ Return(t) /\ UNCHANGED left
                  \/ /\ Wait(t, {Timer}, "sleeping")
                     /\ \E ticks \in Int : ticks > 0 /\ left' = [left EXCEPT ![t] = ticks]
    <3> DEFINE ticks == ticks_for_duration(time)
    <3>1. /\ running = t /\ UNCHANGED <<want, depth, foreground, requested, input, mail, pressed>>
          /\ \/ Return(t) /\ UNCHANGED left
             \/ /\ ticks # InvalidTimespec /\ ticks # 0
                /\ Wait(t, {Timer}, "sleeping") /\ left' = [left EXCEPT ![t] = ticks]
      BY <2>2, Zenon DEF Nanosleep, InUser
    <3>2. ticks # InvalidTimespec /\ ticks # 0 => ticks \in Int /\ ticks > 0
      BY SleepIsPositive, Zenon
    <3> HIDE DEF ticks
    <3> QED
      BY <3>1, <3>2, Zenon
  <2> QED
    BY <2>1, <2>2, Zenon
<1>2. {Timer} \in SUBSET Reasons /\ "sleeping" \in Points
  BY Zenon DEF Reasons, Points
<1>3. /\ running' \in {"main", "child", "idle"} /\ pc' \in [Tasks -> Points]
      /\ waits' \in [Tasks -> SUBSET Reasons] /\ RunnerIsReady'
  BY <1>1, <1>2, MoveStep, Zenon DEF Sleepers
<1>4. Types'
  <2>1. \A u \in Tasks : pc'[u] = "reading" => pc[u] = "reading"
    BY <1>1, Zenon DEF Return, Wait, Types
  <2>2. left' \in [Tasks -> Int]
    BY <1>1, SMTT(30) DEF Types
  <2> QED
    BY <1>1, <1>3, <2>1, <2>2, Zenon DEF Types, input
<1>5. Sleepers'
  <2>1. waits[t] = {}
    BY <1>1, Zenon DEF RunnerIsReady
  <2>2. CASE Return(t) /\ (UNCHANGED left \/ left' = [left EXCEPT ![t] = 0])
    BY <1>1, <2>1, <2>2, Zenon DEF Return, Types, Sleepers, SleepersHaveNothingToWakeFor, input
  <2>3. ASSUME NEW ticks \in Int, ticks > 0, left' = [left EXCEPT ![t] = ticks],
               Wait(t, {Timer}, "sleeping")
        PROVE  Sleepers'
    BY <1>1, <2>3, Zenon DEF Wait, Types, Sleepers, SleepersHaveNothingToWakeFor, input,
                      Keyboard, Timer, SocketReadable
  <2> QED
    BY <1>1, <2>2, <2>3, Zenon
<1>6. Request'
  BY <1>1, Zenon DEF Request, RequestIsForThoseRunning
<1>7. Decoding'
  BY <1>1, DecodingKept, Zenon DEF input
<1> QED
  BY <1>3, <1>4, <1>5, <1>6, <1>7, Zenon DEF Sleepers, Request

----------------------------------------------------------------------------
\* The session starts at the prompt, with nothing typed.
LEMMA InitInv == Init => Inv
<1> SUFFICES ASSUME Init PROVE Inv
  BY Zenon
<1>1. Types
  BY DEF Init, Types, Tasks, Points, Reasons
<1>2. RunnerIsReady
  BY Zenon DEF Init, RunnerIsReady
<1>3. SleepersHaveNothingToWakeFor
  BY Zenon DEF Init, SleepersHaveNothingToWakeFor
<1>4. RequestIsForThoseRunning
  BY Zenon DEF Init, RequestIsForThoseRunning
<1>5. Decoding
  <2>1. Prefixed(wire)
    BY DEF Init, Prefixed
  <2>2. FedAll(Released, <<>>) = Released
    <3>1. <<>> \in Seq(STRING) /\ Len(<<>>) = 0
      OBVIOUS
    <3>2. PICK f : IsRun(f, Released, <<>>)
      BY <3>1, RunExists, Zenon
    <3>3. f[0] = Released
      BY <3>1, <3>2 DEF IsRun
    <3> QED
      BY <3>1, <3>2, <3>3, RunIsFedAll, Zenon
  <2>3. Alike(Released, Untracked) /\ Released.sequence # "Extended"
    BY Zenon DEF Alike, Released, Untracked
  <2> QED
    BY <2>1, <2>2, <2>3, Zenon DEF Init, Decoding, Follows
<1> QED
  BY <1>1, <1>2, <1>3, <1>4, <1>5, Zenon DEF Inv

\* Every step keeps the invariant.
LEMMA NextInv == Inv /\ [Next]_vars => Inv'
<1> SUFFICES ASSUME Inv, [Next]_vars PROVE Inv'
  BY Zenon
<1>1. CASE StartShell \/ EnterDetached \/ \E t \in Tasks : Spawn(t)
  BY <1>1, StartStep, Zenon
<1>2. CASE SpawnDetached \/ AwaitEntry
  BY <1>2, DetachStep, Zenon
<1>3. CASE \E t \in Tasks : Exit(t)
  BY <1>3, ExitStep, Zenon
<1>4. CASE KeyCode
  BY <1>4, KeyStep, Zenon
<1>5. CASE Tick
  BY <1>5, TickStep, Zenon
<1>6. CASE \E t \in Tasks : ReadGoesOn(t) \/ \E n \in ReadSizes : ReadTerminal(t, n)
  BY <1>6, ReadStep, Zenon
<1>7. CASE \E n \in ReadSizes : ReadEvents(n)
  BY <1>7, EventsStep, Zenon
<1>8. CASE Poll
  BY <1>8, PollStep, Zenon
<1>9. CASE SendMail \/ ReceiveMail
  BY <1>9, MailStep, Zenon
<1>10. CASE \E t \in Tasks : SleepGoesOn(t) \/ \E time \in Durations : Nanosleep(t, time)
  BY <1>10, SleepStep, Zenon
<1>11. CASE UNCHANGED vars
  <2> USE <1>11 DEF vars, input, Inv
  <2>1. Types' /\ RunnerIsReady'
    BY Zenon DEF Types, RunnerIsReady
  <2>2. SleepersHaveNothingToWakeFor' /\ RequestIsForThoseRunning'
    BY Zenon DEF SleepersHaveNothingToWakeFor, RequestIsForThoseRunning
  <2>3. Decoding'
    BY DecodingKept, Zenon
  <2> QED
    BY <2>1, <2>2, <2>3, Zenon
<1> QED
  BY <1>1, <1>2, <1>3, <1>4, <1>5, <1>6, <1>7, <1>8, <1>9, <1>10, <1>11, Zenon
  DEF Next, KernelStep, Call

\* The invariant holds throughout.
LEMMA SessionInvariant == Spec => []Inv
  BY InitInv, NextInv, PTL DEF Spec

\* No reader, poller or sleeper ever sleeps over what it waits for, however keys, ticks,
\* the other task's reads and the end of a program by Ctrl+C fall between its look and its
\* sleep, for every set of keys, sizes and times.
THEOREM NobodyOversleeps == Spec => []SleepersHaveNothingToWakeFor
<1>1. Inv => SleepersHaveNothingToWakeFor
  BY Zenon DEF Inv
<1> QED
  BY <1>1, SessionInvariant, PTL

\* A Ctrl+C is never carried over to a program that was started after it, at any depth of
\* nesting and in either slot.
THEOREM RequestsAreNotCarriedOver == Spec => []RequestIsForThoseRunning
<1>1. Inv => RequestIsForThoseRunning
  BY Zenon DEF Inv
<1> QED
  BY <1>1, SessionInvariant, PTL

\* The handler's look-out and the readers' decoder agree on Ctrl and on Pause for every
\* keyboard that sends no Pause right after a prefix, every size of the ring and every
\* length of the Pause sequence, unless a code went past the decoder.
THEOREM LookOutAndDecoderAgree == Spec => []DecodersAgree
<1>1. Inv => DecodersAgree
  BY Zenon DEF Inv, Decoding, Alike, DecodersAgree
<1> QED
  BY <1>1, SessionInvariant, PTL
============================================================================
