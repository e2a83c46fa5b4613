------------------------- MODULE FrameAllocatorProofs -------------------------
(***************************************************************************)
(* The range table for every capacity, every memory map without overlaps   *)
(* and every request: it stays sorted and merged, no frame has two owners, *)
(* and what it does is what FramePool promises of a set of free frames.    *)
(***************************************************************************)
EXTENDS FrameAllocator, Integers, TLAPS

Ranges == [start : Nat, count : Nat \ {0}]

\* RangesAreMerged between any two ranges rather than neighbours.
Sorted(rs) ==
    /\ rs \in Seq(Ranges)
    /\ \A i, j \in 1 .. Len(rs) : i < j => end_frame(rs[i]) < rs[j].start

\* The frames of a table: Free is Covered(ranges).
Covered(rs) == UNION {FramesOf(rs[i]) : i \in 1 .. Len(rs)}

\* A frame is covered by a table if it lies in one of its ranges.
LEMMA InCovered ==
    ASSUME NEW rs, NEW f
    PROVE  f \in Covered(rs) <=> \E i \in 1 .. Len(rs) : f \in FramesOf(rs[i])
  BY Zenon DEF Covered

\* The bounds of a range and the frames between them.
LEMMA InRange ==
    ASSUME NEW r \in Ranges, NEW f
    PROVE  /\ r.start \in Nat /\ r.count \in Nat /\ r.count > 0
           /\ end_frame(r) \in Nat /\ r.start < end_frame(r)
           /\ f \in FramesOf(r) <=> f \in Nat /\ r.start <= f /\ f < end_frame(r)
  BY DEF Ranges, FramesOf, end_frame

----------------------------------------------------------------------------
\* Splicing.

\* Two tables one after the other.
LEMMA Concatenation ==
    ASSUME NEW a \in Seq(Ranges), NEW b \in Seq(Ranges)
    PROVE  /\ a \o b \in Seq(Ranges) /\ Len(a \o b) = Len(a) + Len(b)
           /\ \A k \in 1 .. Len(a) + Len(b) :
                  (a \o b)[k] = IF k <= Len(a) THEN a[k] ELSE b[k - Len(a)]
OBVIOUS

\* A table is its entries.
LEMMA SameTable ==
    ASSUME NEW a \in Seq(Ranges), NEW b \in Seq(Ranges), Len(a) = Len(b),
           \A k \in 1 .. Len(a) : a[k] = b[k]
    PROVE  a = b
OBVIOUS


\* What Splice keeps of the table, and where.
LEMMA SpliceShape ==
    ASSUME NEW rs \in Seq(Ranges), NEW mid \in Seq(Ranges),
           NEW lo \in 1 .. Len(rs) + 1, NEW hi \in lo - 1 .. Len(rs)
    PROVE  /\ Splice(rs, lo, hi, mid) \in Seq(Ranges)
           /\ Len(Splice(rs, lo, hi, mid)) = lo - 1 + Len(mid) + Len(rs) - hi
           /\ \A k \in 1 .. lo - 1 : Splice(rs, lo, hi, mid)[k] = rs[k]
           /\ \A k \in 1 .. Len(mid) : Splice(rs, lo, hi, mid)[lo - 1 + k] = mid[k]
           /\ \A k \in hi + 1 .. Len(rs) :
                 Splice(rs, lo, hi, mid)[k + (lo - 1 + Len(mid) - hi)] = rs[k]
<1> DEFINE a == SubSeq(rs, 1, lo - 1)
           b == SubSeq(rs, hi + 1, Len(rs))
           am == a \o mid
           new == am \o b
<1>1. Len(rs) \in Nat /\ Len(mid) \in Nat /\ \A k \in 1 .. Len(rs) : rs[k] \in Ranges
  OBVIOUS
<1>2. lo \in Nat /\ hi \in Nat /\ lo >= 1 /\ lo - 1 <= hi /\ hi <= Len(rs)
  BY <1>1
<1>3. a \in Seq(Ranges) /\ Len(a) = lo - 1 /\ \A k \in 1 .. lo - 1 : a[k] = rs[k]
  <2>1. \A k \in 1 .. lo - 1 : rs[k] \in Ranges
    BY <1>1, <1>2
  <2> QED
    BY <1>1, <1>2, <2>1
<1>4. /\ b \in Seq(Ranges) /\ Len(b) = Len(rs) - hi
      /\ \A k \in 1 .. Len(rs) - hi : b[k] = rs[hi + k]
  <2>1. \A k \in hi + 1 .. Len(rs) : rs[k] \in Ranges
    BY <1>1, <1>2
  <2> QED
    BY <1>1, <1>2, <2>1
<1> HIDE DEF a, b
<1>5. /\ am \in Seq(Ranges) /\ Len(am) = Len(a) + Len(mid)
      /\ \A k \in 1 .. Len(a) + Len(mid) : am[k] = IF k <= Len(a) THEN a[k] ELSE mid[k - Len(a)]
  BY <1>3, Concatenation, Zenon
<1> HIDE DEF am
<1>6. /\ new \in Seq(Ranges) /\ Len(new) = Len(am) + Len(b)
      /\ \A k \in 1 .. Len(am) + Len(b) :
            new[k] = IF k <= Len(am) THEN am[k] ELSE b[k - Len(am)]
  <2>1. am \in Seq(Ranges) /\ b \in Seq(Ranges)
    BY <1>4, <1>5, Zenon
  <2> QED
    BY <2>1
<1> HIDE DEF new
<1>7. ASSUME NEW k \in 1 .. lo - 1
      PROVE  new[k] = rs[k]
  <2>1. am[k] = a[k] /\ k <= Len(am) /\ k \in 1 .. Len(am) + Len(b)
    BY <1>1, <1>2, <1>3, <1>4, <1>5, SMTT(30)
  <2> QED
    BY <1>3, <1>6, <2>1, Zenon
<1>8. ASSUME NEW k \in 1 .. Len(mid)
      PROVE  new[lo - 1 + k] = mid[k]
  <2> DEFINE n == lo - 1 + k
  <2>1. /\ n \in 1 .. Len(am) + Len(b) /\ n <= Len(am)
        /\ n \in 1 .. Len(a) + Len(mid) /\ ~(n <= Len(a)) /\ n - Len(a) = k
    BY <1>1, <1>2, <1>3, <1>4, <1>5
  <2> HIDE DEF n
  <2>2. new[n] = am[n]
    BY <1>6, <2>1, Zenon
  <2>3. am[n] = mid[n - Len(a)]
    BY <1>5, <2>1, Zenon
  <2> QED
    BY <2>1, <2>2, <2>3, Zenon DEF n
<1>9. ASSUME NEW k \in hi + 1 .. Len(rs)
      PROVE  new[k + (lo - 1 + Len(mid) - hi)] = rs[k]
  <2> DEFINE n == k + (lo - 1 + Len(mid) - hi)
  <2>1. /\ n \in 1 .. Len(am) + Len(b) /\ ~(n <= Len(am))
        /\ n - Len(am) = k - hi /\ k - hi \in 1 .. Len(rs) - hi /\ hi + (k - hi) = k
    BY <1>1, <1>2, <1>3, <1>4, <1>5
  <2> HIDE DEF n
  <2>2. new[n] = b[k - hi]
    BY <1>6, <2>1, Zenon
  <2>3. b[k - hi] = rs[k]
    BY <1>4, <2>1, Zenon
  <2> QED
    BY <2>2, <2>3, Zenon DEF n
<1>10. Splice(rs, lo, hi, mid) = new
  BY Zenon DEF Splice, new, am, a, b
<1>11. Len(new) = lo - 1 + Len(mid) + Len(rs) - hi
  BY <1>1, <1>2, <1>3, <1>4, <1>5, <1>6, Zenon
<1> QED
  BY <1>6, <1>7, <1>8, <1>9, <1>10, <1>11, Zenon

\* A table of which a stretch was replaced by ranges that keep clear of the others.
LEMMA SpliceSorted ==
    ASSUME NEW rs \in Seq(Ranges), NEW mid, Sorted(mid),
           NEW lo \in 1 .. Len(rs) + 1, NEW hi \in lo - 1 .. Len(rs),
           \A i, j \in 1 .. Len(rs) :
               i < j /\ i \notin lo .. hi /\ j \notin lo .. hi => end_frame(rs[i]) < rs[j].start,
           \A k \in 1 .. lo - 1, m \in 1 .. Len(mid) : end_frame(rs[k]) < mid[m].start,
           \A k \in hi + 1 .. Len(rs), m \in 1 .. Len(mid) : end_frame(mid[m]) < rs[k].start
    PROVE  /\ Sorted(Splice(rs, lo, hi, mid))
           /\ Len(Splice(rs, lo, hi, mid)) = lo - 1 + Len(mid) + Len(rs) - hi
           /\ \A f : f \in Covered(Splice(rs, lo, hi, mid)) <=>
                       \/ f \in Covered(mid)
                       \/ \E k \in 1 .. Len(rs) : (k < lo \/ k > hi) /\ f \in FramesOf(rs[k])
<1> DEFINE new == Splice(rs, lo, hi, mid)
           d == lo - 1 + Len(mid) - hi
<1>1. /\ rs \in Seq(Ranges) /\ mid \in Seq(Ranges) /\ Len(rs) \in Nat /\ Len(mid) \in Nat
      /\ lo \in Nat /\ hi \in Nat /\ lo >= 1 /\ lo - 1 <= hi /\ hi <= Len(rs) /\ d \in Int
  BY DEF Sorted
<1>2. /\ new \in Seq(Ranges) /\ Len(new) = lo - 1 + Len(mid) + Len(rs) - hi
      /\ \A k \in 1 .. lo - 1 : new[k] = rs[k]
      /\ \A k \in 1 .. Len(mid) : new[lo - 1 + k] = mid[k]
      /\ \A k \in hi + 1 .. Len(rs) : new[k + d] = rs[k]
  BY <1>1, SpliceShape, Zenon
<1> HIDE DEF new
<1>3. ASSUME NEW i \in 1 .. Len(new)
      PROVE  \/ i \in 1 .. lo - 1 /\ new[i] = rs[i]
             \/ i - (lo - 1) \in 1 .. Len(mid) /\ new[i] = mid[i - (lo - 1)]
             \/ i - d \in hi + 1 .. Len(rs) /\ new[i] = rs[i - d]
  <2>1. CASE i <= lo - 1
    BY <1>1, <1>2, <2>1
  <2>2. CASE lo - 1 < i /\ i <= lo - 1 + Len(mid)
    <3>1. i - (lo - 1) \in 1 .. Len(mid) /\ lo - 1 + (i - (lo - 1)) = i
      BY <1>1, <2>2
    <3> QED
      BY <1>2, <3>1, Zenon
  <2>3. CASE lo - 1 + Len(mid) < i
    <3>1. i - d \in hi + 1 .. Len(rs) /\ (i - d) + d = i
      <4>1. i \in Nat /\ i <= lo - 1 + Len(mid) + Len(rs) - hi
        BY <1>1, <1>2
      <4>2. d = lo - 1 + Len(mid) - hi /\ d \in Int
        BY <1>1, Zenon
      <4> HIDE DEF d
      <4> QED
        BY <1>1, <2>3, <4>1, <4>2
    <3> QED
      BY <1>2, <3>1, Zenon
  <2> QED
    BY <1>1, <1>2, <2>1, <2>2, <2>3
<1>4. ASSUME NEW i \in 1 .. Len(new), NEW j \in 1 .. Len(new), i < j
      PROVE  end_frame(new[i]) < new[j].start
  <2>0. d = lo - 1 + Len(mid) - hi
    BY Zenon
  <2> HIDE DEF d
  <2>1. CASE i \in 1 .. lo - 1 /\ new[i] = rs[i]
    <3>1. CASE j \in 1 .. lo - 1 /\ new[j] = rs[j]
      <4>1. /\ i \in 1 .. Len(rs) /\ j \in 1 .. Len(rs)
            /\ i \notin lo .. hi /\ j \notin lo .. hi
        BY <1>1, <2>1, <3>1
      <4> QED
        BY <1>4, <2>1, <3>1, <4>1, Zenon
    <3>2. CASE j - (lo - 1) \in 1 .. Len(mid) /\ new[j] = mid[j - (lo - 1)]
      BY <2>1, <3>2, Zenon
    <3>3. CASE j - d \in hi + 1 .. Len(rs) /\ new[j] = rs[j - d]
      <4>1. /\ i \in 1 .. Len(rs) /\ j - d \in 1 .. Len(rs) /\ i < j - d
            /\ i \notin lo .. hi /\ j - d \notin lo .. hi
        BY <1>1, <2>1, <3>3
      <4> QED
        BY <2>1, <3>3, <4>1, Zenon
    <3> QED
      BY <1>3, <3>1, <3>2, <3>3, Zenon
  <2>2. CASE i - (lo - 1) \in 1 .. Len(mid) /\ new[i] = mid[i - (lo - 1)]
    <3>1. CASE j \in 1 .. lo - 1
      BY <1>1, <1>4, <2>2, <3>1
    <3>2. CASE j - (lo - 1) \in 1 .. Len(mid) /\ new[j] = mid[j - (lo - 1)]
      <4>1. i - (lo - 1) < j - (lo - 1)
        BY <1>1, <1>4
      <4> QED
        BY <2>2, <3>2, <4>1, Zenon DEF Sorted
    <3>3. CASE j - d \in hi + 1 .. Len(rs) /\ new[j] = rs[j - d]
      BY <2>2, <3>3, Zenon
    <3> QED
      BY <1>3, <3>1, <3>2, <3>3, Zenon
  <2>3. CASE i - d \in hi + 1 .. Len(rs) /\ new[i] = rs[i - d]
    <3>1. j - d \in hi + 1 .. Len(rs) /\ new[j] = rs[j - d]
      BY <1>1, <1>3, <1>4, <2>0, <2>3, SMTT(30)
    <3>2. /\ i - d \in 1 .. Len(rs) /\ j - d \in 1 .. Len(rs) /\ i - d < j - d
          /\ i - d \notin lo .. hi /\ j - d \notin lo .. hi
      BY <1>1, <1>4, <2>3, <3>1, SMTT(30)
    <3> QED
      BY <2>3, <3>1, <3>2, Zenon
  <2> QED
    BY <1>3, <2>1, <2>2, <2>3, Zenon
<1>5. ASSUME NEW f
      PROVE  f \in Covered(new) <=>
                 \/ f \in Covered(mid)
                 \/ \E k \in 1 .. Len(rs) : (k < lo \/ k > hi) /\ f \in FramesOf(rs[k])
  <2>0. d = lo - 1 + Len(mid) - hi
    BY Zenon
  <2> HIDE DEF d
  <2>1. ASSUME NEW i \in 1 .. Len(new), f \in FramesOf(new[i])
        PROVE  \/ f \in Covered(mid)
               \/ \E k \in 1 .. Len(rs) : (k < lo \/ k > hi) /\ f \in FramesOf(rs[k])
    <3>1. CASE i \in 1 .. lo - 1 /\ new[i] = rs[i]
      BY <1>1, <2>1, <3>1
    <3>2. CASE i - (lo - 1) \in 1 .. Len(mid) /\ new[i] = mid[i - (lo - 1)]
      BY <2>1, <3>2, InCovered, Zenon
    <3>3. CASE i - d \in hi + 1 .. Len(rs) /\ new[i] = rs[i - d]
      BY <1>1, <2>1, <3>3
    <3> QED
      BY <1>3, <3>1, <3>2, <3>3, Zenon
  <2>2. ASSUME NEW k \in 1 .. Len(mid), f \in FramesOf(mid[k])
        PROVE  f \in Covered(new)
    <3>1. lo - 1 + k \in 1 .. Len(new) /\ new[lo - 1 + k] = mid[k]
      BY <1>1, <1>2
    <3> QED
      BY <2>2, <3>1, InCovered, Zenon
  <2>3. ASSUME NEW k \in 1 .. Len(rs), k < lo \/ k > hi, f \in FramesOf(rs[k])
        PROVE  f \in Covered(new)
    <3>1. CASE k < lo
      <4>1. k \in 1 .. Len(new) /\ new[k] = rs[k]
        BY <1>1, <1>2, <3>1
      <4> QED
        BY <2>3, <4>1, InCovered, Zenon
    <3>2. CASE k > hi
      <4>1. k + d \in 1 .. Len(new) /\ new[k + d] = rs[k]
        BY <1>1, <1>2, <2>0, <3>2
      <4> QED
        BY <2>3, <4>1, InCovered, Zenon
    <3> QED
      BY <2>3, <3>1, <3>2, Zenon
  <2> QED
    BY <2>1, <2>2, <2>3, InCovered, Zenon
<1> QED
  BY <1>2, <1>4, <1>5, Zenon DEF Sorted, new

\* The tables of no, one and two ranges.
LEMMA SmallTables ==
    /\ Sorted(<<>>) /\ Len(<<>>) = 0 /\ Covered(<<>>) = {}
    /\ \A r \in Ranges : Sorted(<<r>>) /\ Len(<<r>>) = 1 /\ <<r>>[1] = r
                           /\ Covered(<<r>>) = FramesOf(r)
    /\ \A r, q \in Ranges : end_frame(r) < q.start =>
           /\ Sorted(<<r, q>>) /\ Len(<<r, q>>) = 2 /\ <<r, q>>[1] = r /\ <<r, q>>[2] = q
           /\ Covered(<<r, q>>) = FramesOf(r) \cup FramesOf(q)
<1>1. Sorted(<<>>) /\ Len(<<>>) = 0 /\ Covered(<<>>) = {}
  BY DEF Sorted, Covered
<1>2. ASSUME NEW r \in Ranges
      PROVE  /\ Sorted(<<r>>) /\ Len(<<r>>) = 1 /\ <<r>>[1] = r
             /\ Covered(<<r>>) = FramesOf(r)
  BY DEF Sorted, Covered
<1>3. ASSUME NEW r \in Ranges, NEW q \in Ranges, end_frame(r) < q.start
      PROVE  /\ Sorted(<<r, q>>) /\ Len(<<r, q>>) = 2 /\ <<r, q>>[1] = r /\ <<r, q>>[2] = q
             /\ Covered(<<r, q>>) = FramesOf(r) \cup FramesOf(q)
  BY <1>3 DEF Sorted, Covered
<1> QED
  BY <1>1, <1>2, <1>3, Zenon

\* One range where there were ranges lo .. hi, with the frames run besides theirs.
LEMMA SpliceOne ==
    ASSUME NEW rs, Sorted(rs), NEW r \in Ranges, NEW run,
           NEW lo \in 1 .. Len(rs) + 1, NEW hi \in lo - 1 .. Len(rs),
           \A k \in 1 .. lo - 1 : end_frame(rs[k]) < r.start,
           \A k \in hi + 1 .. Len(rs) : end_frame(r) < rs[k].start,
           \A f : f \in FramesOf(r) <=> f \in run \/ \E k \in lo .. hi : f \in FramesOf(rs[k])
    PROVE  /\ Sorted(Splice(rs, lo, hi, <<r>>))
           /\ Len(Splice(rs, lo, hi, <<r>>)) = Len(rs) + lo - hi
           /\ Covered(Splice(rs, lo, hi, <<r>>)) = Covered(rs) \cup run
<1> DEFINE new == Splice(rs, lo, hi, <<r>>)
           mid == <<r>>
<1>1. Sorted(mid) /\ Len(mid) = 1 /\ mid[1] = r /\ Covered(mid) = FramesOf(r)
  BY SmallTables, Zenon
<1>2. rs \in Seq(Ranges) /\ Len(rs) \in Nat
  BY DEF Sorted
<1> HIDE DEF mid
<1>3. /\ \A k \in 1 .. lo - 1, m \in 1 .. Len(mid) : end_frame(rs[k]) < mid[m].start
      /\ \A k \in hi + 1 .. Len(rs), m \in 1 .. Len(mid) : end_frame(mid[m]) < rs[k].start
  BY <1>1
<1>4. \A i, j \in 1 .. Len(rs) :
          i < j /\ i \notin lo .. hi /\ j \notin lo .. hi => end_frame(rs[i]) < rs[j].start
  BY Zenon DEF Sorted
<1>5. /\ Sorted(Splice(rs, lo, hi, mid))
      /\ Len(Splice(rs, lo, hi, mid)) = lo - 1 + Len(mid) + Len(rs) - hi
      /\ \A f : f \in Covered(Splice(rs, lo, hi, mid)) <=>
                   \/ f \in Covered(mid)
                   \/ \E k \in 1 .. Len(rs) : (k < lo \/ k > hi) /\ f \in FramesOf(rs[k])
  BY <1>1, <1>2, <1>3, <1>4, SpliceSorted, Zenon
<1>6. Splice(rs, lo, hi, mid) = new
  BY Zenon DEF mid
<1> HIDE DEF new
<1>7. Len(new) = Len(rs) + lo - hi
  BY <1>1, <1>2, <1>5, <1>6
<1>8. ASSUME NEW f
      PROVE  f \in Covered(new) <=> f \in Covered(rs) \cup run
  <2>1. f \in Covered(rs) <=> \/ \E k \in lo .. hi : f \in FramesOf(rs[k])
                              \/ \E k \in 1 .. Len(rs) : (k < lo \/ k > hi) /\ f \in FramesOf(rs[k])
    BY <1>2, InCovered
  <2> QED
    BY <1>1, <1>5, <1>6, <2>1, Zenon
<1> QED
  BY <1>5, <1>6, <1>7, <1>8, Zenon DEF new

\* An assignment to one range.
LEMMA ReplaceIsSplice ==
    ASSUME NEW rs \in Seq(Ranges), NEW i \in 1 .. Len(rs), NEW r \in Ranges
    PROVE  [rs EXCEPT ![i] = r] = Splice(rs, i, i, <<r>>)
<1> DEFINE new == Splice(rs, i, i, <<r>>)
           exc == [rs EXCEPT ![i] = r]
<1>1. Len(rs) \in Nat /\ i \in 1 .. Len(rs) + 1 /\ i \in i - 1 .. Len(rs)
  OBVIOUS
<1>2. <<r>> \in Seq(Ranges) /\ Len(<<r>>) = 1 /\ <<r>>[1] = r
  BY SmallTables, Zenon DEF Sorted
<1>3. /\ new \in Seq(Ranges) /\ Len(new) = i - 1 + Len(<<r>>) + Len(rs) - i
      /\ \A k \in 1 .. i - 1 : new[k] = rs[k]
      /\ \A k \in 1 .. Len(<<r>>) : new[i - 1 + k] = <<r>>[k]
      /\ \A k \in i + 1 .. Len(rs) : new[k + (i - 1 + Len(<<r>>) - i)] = rs[k]
  BY <1>1, <1>2, SpliceShape, ZenonT(60)
<1> HIDE DEF new
<1>4. Len(new) = Len(rs) /\ new[i] = r
  <2>1. new[i - 1 + 1] = <<r>>[1]
    BY <1>2, <1>3
  <2> QED
    BY <1>1, <1>2, <1>3, <2>1
<1>5. \A k \in i + 1 .. Len(rs) : new[k] = rs[k]
  BY <1>1, <1>2, <1>3
<1>6. /\ exc \in Seq(Ranges) /\ Len(exc) = Len(rs)
      /\ \A k \in 1 .. Len(rs) : exc[k] = IF k = i THEN r ELSE rs[k]
  OBVIOUS
<1> HIDE DEF exc
<1>7. \A k \in 1 .. Len(rs) : exc[k] = new[k]
  BY <1>1, <1>3, <1>4, <1>5, <1>6
<1> QED
  BY <1>3, <1>4, <1>6, <1>7, SameTable, Zenon DEF new, exc

----------------------------------------------------------------------------
\* Numbers.

\* Every set of numbers has a least one.  The lemmas assume it; it is proved at the end, where
\* the theory of well-founded relations comes in.
WellOrdered == \A S \in SUBSET Nat : S # {} => \E x \in S : \A y \in S : x <= y

\* Min answers the least number.
LEMMA LeastNumber ==
    ASSUME WellOrdered, NEW S \in SUBSET Nat, S # {}
    PROVE  Min(S) \in S /\ \A y \in S : Min(S) <= y
  BY Zenon DEF WellOrdered, Min

\* A bounded set of numbers has a greatest one, which Max answers.
LEMMA GreatestNumber ==
    ASSUME WellOrdered, NEW n \in Nat, NEW S \in SUBSET (0 .. n), S # {}
    PROVE  Max(S) \in S /\ \A y \in S : y <= Max(S)
<1> DEFINE T == {n - x : x \in S}
<1>1. T \in SUBSET Nat /\ T # {}
  <2>1. \A x \in S : x \in 0 .. n /\ n - x \in Nat
    OBVIOUS
  <2> QED
    BY <2>1, Zenon
<1>2. Min(T) \in T /\ \A y \in T : Min(T) <= y
  BY <1>1, LeastNumber, Zenon
<1>3. PICK x \in S : Min(T) = n - x
  BY <1>2, Zenon
<1>4. \A y \in S : n - y \in T
  BY Zenon
<1> HIDE DEF T
<1>5. \A y \in S : x >= y
  BY <1>2, <1>3, <1>4
<1> QED
  BY <1>5, Zenon DEF Max

\* The bounds are the only numbers that are members and bounds.
LEMMA BoundsAre ==
    ASSUME NEW S \in SUBSET Nat, NEW x \in S
    PROVE  /\ (\A y \in S : x <= y) => Min(S) = x
           /\ (\A y \in S : y <= x) => Max(S) = x
<1>1. ASSUME \A y \in S : x <= y
      PROVE  Min(S) = x
  <2>1. Min(S) \in S /\ \A y \in S : Min(S) <= y
    BY <1>1, Zenon DEF Min
  <2>2. x \in Nat /\ Min(S) \in Nat
    BY <2>1, Zenon
  <2> HIDE DEF Min
  <2> QED
    BY <1>1, <2>1, <2>2
<1>2. ASSUME \A y \in S : y <= x
      PROVE  Max(S) = x
  <2>1. Max(S) \in S /\ \A y \in S : Max(S) >= y
    BY <1>2, Zenon DEF Max
  <2>2. x \in Nat /\ Max(S) \in Nat
    BY <2>1, Zenon
  <2> HIDE DEF Max
  <2> QED
    BY <1>2, <2>1, <2>2
<1> QED
  BY <1>1, <1>2, Zenon

\* Division with remainder, and multiples.
LEMMA Multiples ==
    ASSUME NEW m \in Nat \ {0}, NEW a \in Nat
    PROVE  /\ a % m \in 0 .. m - 1 /\ a \div m \in Nat /\ a = m * (a \div m) + (a % m)
           /\ (m * a) % m = 0
<1>1. a % m \in 0 .. m - 1 /\ a \div m \in Nat /\ a = m * (a \div m) + (a % m)
  BY SMT
<1>2. (m * a) % m = 0
  BY SMT
<1> QED
  BY <1>1, <1>2, Zenon

\* Two multiples of m are m apart at least.
LEMMA NoMultipleBetween ==
    ASSUME NEW m \in Nat \ {0}, NEW k \in Nat, NEW q \in Nat, m * k < m * q
    PROVE  m * k + m <= m * q
  BY SMT

----------------------------------------------------------------------------
\* Insertion.

\* The position divides the table at start.
LEMMA PositionIs ==
    ASSUME WellOrdered, NEW rs, Sorted(rs), NEW start \in Nat
    PROVE  /\ Position(rs, start) \in 1 .. Len(rs) + 1
           /\ \A k \in 1 .. Position(rs, start) - 1 : rs[k].start <= start
           /\ \A k \in Position(rs, start) .. Len(rs) : rs[k].start > start
<1> DEFINE later == {i \in 1 .. Len(rs) : rs[i].start > start}
           at == Position(rs, start)
<1>1. Len(rs) \in Nat /\ \A k \in 1 .. Len(rs) : rs[k] \in Ranges
  BY DEF Sorted
<1>2. \A k \in 1 .. Len(rs) : rs[k].start \in Nat /\ rs[k].start < end_frame(rs[k])
                               /\ end_frame(rs[k]) \in Nat
  BY <1>1, InRange, Zenon
<1>3. CASE later = {}
  <2>1. at = Len(rs) + 1
    BY <1>3, Zenon DEF Position
  <2>2. \A k \in 1 .. Len(rs) : rs[k].start <= start
    BY <1>2, <1>3
  <2> HIDE DEF at
  <2> QED
    BY <1>1, <2>1, <2>2 DEF at
<1>4. CASE later # {}
  <2>1. at = Min(later)
    BY <1>4, Zenon DEF Position
  <2>2. later \in SUBSET Nat
    OBVIOUS
  <2>3. at \in later /\ \A k \in later : at <= k
    BY <1>4, <2>1, <2>2, LeastNumber, Zenon
  <2> HIDE DEF at
  <2>4. at \in 1 .. Len(rs) /\ rs[at].start > start
    BY <2>3, Zenon
  <2>5. ASSUME NEW k \in 1 .. at - 1
        PROVE  rs[k].start <= start
    <3>1. k \in 1 .. Len(rs) /\ k < at
      BY <1>1, <2>4
    <3>2. k \notin later
      BY <2>3, <2>4, <3>1
    <3> QED
      BY <1>2, <3>1, <3>2
  <2>6. ASSUME NEW k \in at .. Len(rs)
        PROVE  rs[k].start > start
    <3>1. CASE k = at
      BY <2>4, <3>1, Zenon
    <3>2. CASE k # at
      <4>1. k \in 1 .. Len(rs) /\ at < k
        BY <1>1, <2>4, <3>2
      <4>2. end_frame(rs[at]) < rs[k].start
        BY <2>4, <4>1, Zenon DEF Sorted
      <4> QED
        BY <1>2, <2>4, <4>1, <4>2
    <3> QED
      BY <3>1, <3>2, Zenon
  <2> QED
    BY <1>1, <2>4, <2>5, <2>6 DEF at
<1> QED
  BY <1>3, <1>4, Zenon

\* Nothing free is inserted: a new range starts no earlier than those before it end, and
\* ends no later than those behind it start.
LEMMA NewIsBetween ==
    ASSUME WellOrdered, NEW rs, Sorted(rs), NEW start \in Nat, NEW count \in Nat \ {0},
           (start .. start + count - 1) \cap Covered(rs) = {}
    PROVE  /\ \A k \in 1 .. Position(rs, start) - 1 : end_frame(rs[k]) <= start
           /\ \A k \in Position(rs, start) .. Len(rs) : start + count <= rs[k].start
<1> DEFINE at == Position(rs, start)
<1>1. /\ at \in 1 .. Len(rs) + 1
      /\ \A k \in 1 .. at - 1 : rs[k].start <= start
      /\ \A k \in at .. Len(rs) : rs[k].start > start
  BY PositionIs, Zenon
<1>2. Len(rs) \in Nat /\ \A k \in 1 .. Len(rs) : rs[k] \in Ranges
  BY DEF Sorted
<1> HIDE DEF at
<1>3. ASSUME NEW k \in 1 .. at - 1
      PROVE  end_frame(rs[k]) <= start
  <2>1. k \in 1 .. Len(rs) /\ rs[k] \in Ranges /\ rs[k].start <= start
    BY <1>1, <1>2
  <2>2. start \notin FramesOf(rs[k])
    <3>1. start \in start .. start + count - 1
      OBVIOUS
    <3>2. start \notin Covered(rs)
      BY <3>1, Zenon
    <3> QED
      BY <2>1, <3>2, InCovered, Zenon
  <2> QED
    BY <2>1, <2>2, InRange
<1>4. ASSUME NEW k \in at .. Len(rs)
      PROVE  start + count <= rs[k].start
  <2>1. k \in 1 .. Len(rs) /\ rs[k] \in Ranges /\ rs[k].start > start
    BY <1>1, <1>2
  <2>2. rs[k].start \in FramesOf(rs[k]) /\ rs[k].start \in Nat
    BY <2>1, InRange
  <2>3. rs[k].start \in Covered(rs)
    BY <2>1, <2>2, InCovered, Zenon
  <2>4. rs[k].start \notin start .. start + count - 1
    BY <2>3, Zenon
  <2> QED
    BY <2>1, <2>2, <2>4
<1> QED
  BY <1>3, <1>4, Zenon DEF at

\* Inserting frames of which none is free makes them free, and keeps the table sorted,
\* merged and within its capacity.
LEMMA InsertKeeps ==
    ASSUME WellOrdered, NEW rs, Sorted(rs), Len(rs) <= CAP, NEW start \in Nat, NEW count \in Nat,
           (start .. start + count - 1) \cap Covered(rs) = {},
           ~CapacityExceeded(rs, start, count)
    PROVE  /\ Sorted(insert_free_range(rs, start, count))
           /\ Len(insert_free_range(rs, start, count)) <= CAP
           /\ Covered(insert_free_range(rs, start, count))
                = Covered(rs) \cup (start .. start + count - 1)
<1> DEFINE at == Position(rs, start)
           run == start .. start + count - 1
           new == insert_free_range(rs, start, count)
<1> USE CapacityAssumption
<1>1. CASE count = 0
  <2>1. new = rs /\ run = {}
    BY <1>1 DEF insert_free_range
  <2> HIDE DEF new, run
  <2>2. Covered(new) = Covered(rs) \cup run
    BY <2>1, Zenon
  <2> QED
    BY <2>1, <2>2, Zenon DEF new, run
<1>2. CASE count # 0
  <2>1. /\ \A k \in 1 .. at - 1 : end_frame(rs[k]) <= start
        /\ \A k \in at .. Len(rs) : start + count <= rs[k].start
    BY <1>2, NewIsBetween, Zenon
  <2>2. at \in 1 .. Len(rs) + 1
    BY PositionIs, Zenon
  <2>3. rs \in Seq(Ranges) /\ Len(rs) \in Nat /\ \A k \in 1 .. Len(rs) : rs[k] \in Ranges
    BY DEF Sorted
  <2>4. \A k \in 1 .. Len(rs) :
           /\ rs[k].start \in Nat /\ rs[k].count \in Nat /\ end_frame(rs[k]) \in Nat
           /\ rs[k].start < end_frame(rs[k])
           /\ end_frame(rs[k]) = rs[k].start + rs[k].count
    BY <2>3, InRange, Zenon DEF end_frame
  <2> DEFINE touches == Touches(rs, start, count)
             previous == at > 1 /\ end_frame(rs[at - 1]) >= start
             next == at <= Len(rs) /\ start + count >= rs[at].start
  <2>5. touches.previous = previous /\ touches.next = next
    BY Zenon DEF Touches
  <2>6. ~previous /\ ~next => Len(rs) < CAP
    <3> SUFFICES ASSUME ~previous /\ ~next
                 PROVE  Len(rs) < CAP
      BY Zenon
    <3>1. count > 0
      BY <1>2
    <3>2. ~touches.previous /\ ~touches.next
      BY <2>5, Zenon
    <3>3. ~(Len(rs) >= CAP)
      BY <3>1, <3>2, Zenon DEF CapacityExceeded
    <3> QED
      BY <2>3, <3>3
  <2>7. previous => end_frame(rs[at - 1]) = start /\ at - 1 \in 1 .. Len(rs)
    <3> SUFFICES ASSUME previous
                 PROVE  end_frame(rs[at - 1]) = start /\ at - 1 \in 1 .. Len(rs)
      BY Zenon
    <3> HIDE DEF at
    <3>1. at - 1 \in 1 .. at - 1 /\ at - 1 \in 1 .. Len(rs)
      BY <2>2, <2>3
    <3>2. end_frame(rs[at - 1]) <= start /\ end_frame(rs[at - 1]) >= start
      BY <2>1, <3>1, Zenon
    <3> QED
      BY <2>4, <3>1, <3>2
  <2>8. next => start + count = rs[at].start /\ at \in 1 .. Len(rs)
    <3> SUFFICES ASSUME next
                 PROVE  start + count = rs[at].start /\ at \in 1 .. Len(rs)
      BY Zenon
    <3> HIDE DEF at
    <3>1. at \in at .. Len(rs) /\ at \in 1 .. Len(rs)
      BY <2>2, <2>3
    <3>2. start + count <= rs[at].start /\ start + count >= rs[at].start
      BY <2>1, <3>1, Zenon
    <3>3. rs[at].start \in Nat
      BY <2>4, <3>1, Zenon
    <3> QED
      BY <3>1, <3>2, <3>3
  <2>9. new = IF previous
              THEN try_merge_forward(
                       [rs EXCEPT ![at - 1].count =
                           Max({end_frame(rs[at - 1]), start + count}) - rs[at - 1].start], at - 1)
              ELSE IF next
              THEN [rs EXCEPT ![at] = FrameRange(Min({start, rs[at].start}),
                        Max({start + count, end_frame(rs[at])}) - Min({start, rs[at].start}))]
              ELSE Splice(rs, at, at - 1, <<FrameRange(start, count)>>)
    BY <1>2, <2>5, Zenon DEF insert_free_range
  <2> HIDE DEF new, touches, at
  <2>10. CASE previous
    <3> DEFINE p == rs[at - 1]
               grown == FrameRange(p.start, (start + count) - p.start)
    <3>1. at - 1 \in 1 .. Len(rs) /\ end_frame(p) = start /\ p \in Ranges /\ p.start \in Nat
          /\ p.start < start
      BY <2>3, <2>4, <2>7, <2>10, Zenon
    <3>2. Max({end_frame(p), start + count}) = start + count
      <4> DEFINE S == {start, start + count}
      <4>1. S \in SUBSET Nat /\ start + count \in S /\ \A y \in S : y <= start + count
        OBVIOUS
      <4> HIDE DEF S
      <4>2. Max(S) = start + count
        BY <4>1, BoundsAre, Zenon
      <4> QED
        BY <3>1, <4>2, Zenon DEF S
    <3>3. grown \in Ranges /\ grown.start = p.start /\ end_frame(grown) = start + count
      BY <1>2, <3>1, SMTT(30) DEF Ranges, FrameRange, end_frame
    <3>4. [p EXCEPT !.count = (start + count) - p.start] = grown
      BY <3>1 DEF Ranges, FrameRange
    <3>5. [rs EXCEPT ![at - 1].count = Max({end_frame(rs[at - 1]), start + count}) - rs[at - 1].start]
            = [rs EXCEPT ![at - 1] = grown]
      <4> DEFINE m == Max({end_frame(rs[at - 1]), start + count}) - rs[at - 1].start
      <4>1. m = (start + count) - p.start
        BY <3>2, Zenon
      <4> HIDE DEF m
      <4>2. [rs EXCEPT ![at - 1].count = m] = [rs EXCEPT ![at - 1] = grown]
        BY <2>3, <3>1, <3>4, <4>1, Zenon
      <4> QED
        BY <4>2, Zenon DEF m
    <3> DEFINE longer == [rs EXCEPT ![at - 1] = grown]
    <3>6. /\ longer \in Seq(Ranges) /\ Len(longer) = Len(rs)
          /\ \A k \in 1 .. Len(rs) : longer[k] = IF k = at - 1 THEN grown ELSE rs[k]
      BY <2>3, <3>1, <3>3
    <3>7. new = try_merge_forward(longer, at - 1)
      BY <2>9, <2>10, <3>5, Zenon
    <3>8. longer = Splice(rs, at - 1, at - 1, <<grown>>)
      BY <2>3, <3>1, <3>3, ReplaceIsSplice
    <3> HIDE DEF longer
    <3>9. ASSUME NEW k \in 1 .. at - 2
          PROVE  end_frame(rs[k]) < p.start
      <4>1. k \in 1 .. Len(rs) /\ k < at - 1
        BY <2>2, <2>3
      <4> QED
        BY <3>1, <4>1, Zenon DEF Sorted
    <3>10. CASE ~next
      <4>1. new = longer
        <5>1. at - 1 < Len(longer) => longer[at - 1 + 1].start = rs[at].start /\ at <= Len(rs)
          BY <2>2, <2>3, <3>1, <3>6, SMTT(30)
        <5>2. longer[at - 1] = grown
          BY <3>1, <3>6, Zenon
        <5>3. ~(at - 1 < Len(longer) /\ end_frame(longer[at - 1]) >= longer[at - 1 + 1].start)
          BY <3>3, <3>10, <5>1, <5>2, Zenon
        <5> QED
          BY <3>7, <5>3, Zenon DEF try_merge_forward
      <4>2. \A k \in 1 .. (at - 1) - 1 : end_frame(rs[k]) < grown.start
        BY <2>2, <2>3, <3>3, <3>9
      <4>3. ASSUME NEW k \in at - 1 + 1 .. Len(rs)
            PROVE  end_frame(grown) < rs[k].start
        <5>1. k \in at .. Len(rs) /\ k \in 1 .. Len(rs) /\ at \in 1 .. Len(rs)
          BY <2>2, <2>3
        <5>2. start + count < rs[at].start
          BY <2>1, <2>4, <3>10, <5>1, SMTT(30)
        <5>3. k # at => rs[at].start < rs[k].start
          <6> SUFFICES ASSUME k # at PROVE rs[at].start < rs[k].start
            BY Zenon
          <6>1. end_frame(rs[at]) < rs[k].start
            BY <5>1, SMTT(30) DEF Sorted
          <6> QED
            BY <2>4, <5>1, <6>1, SMTT(30)
        <5> QED
          BY <2>4, <3>3, <5>1, <5>2, <5>3, SMTT(30)
      <4>4. ASSUME NEW f
            PROVE  f \in FramesOf(grown) <=> f \in run \/ \E k \in at - 1 .. at - 1 : f \in FramesOf(rs[k])
        <5>1. (\E k \in at - 1 .. at - 1 : f \in FramesOf(rs[k])) <=> f \in FramesOf(p)
          BY <3>1
        <5> QED
          BY <1>2, <3>1, <3>3, <5>1, InRange, SMTT(30)
      <4>5. at - 1 \in 1 .. Len(rs) + 1 /\ at - 1 \in (at - 1) - 1 .. Len(rs)
        BY <2>3, <3>1
      <4> HIDE DEF run, grown
      <4>6. /\ Sorted(Splice(rs, at - 1, at - 1, <<grown>>))
            /\ Covered(Splice(rs, at - 1, at - 1, <<grown>>)) = Covered(rs) \cup run
        BY <3>3, <4>2, <4>3, <4>4, <4>5, SpliceOne, ZenonT(60)
      <4> QED
        BY <3>6, <3>8, <4>1, <4>6, Zenon DEF new, run
    <3>11. CASE next
      <4> DEFINE n == rs[at]
                 joined == FrameRange(p.start, end_frame(n) - p.start)
      <4>1. /\ at \in 1 .. Len(rs) /\ n \in Ranges /\ start + count = n.start /\ end_frame(n) \in Nat
            /\ n.start \in Nat /\ n.start < end_frame(n)
        BY <2>3, <2>4, <2>8, <3>11, Zenon
      <4>2. /\ at - 1 < Len(longer) /\ longer[at - 1] = grown /\ longer[at - 1 + 1] = n
            /\ at - 1 + 1 = at /\ longer[at] = n
        BY <2>2, <2>3, <3>1, <3>6, <4>1, SMTT(30)
      <4>3. Max({end_frame(grown), end_frame(n)}) = end_frame(n)
        <5> DEFINE S == {start + count, end_frame(n)}
        <5>1. S \in SUBSET Nat /\ end_frame(n) \in S /\ \A y \in S : y <= end_frame(n)
          BY <4>1
        <5> HIDE DEF S
        <5>2. Max(S) = end_frame(n)
          BY <5>1, BoundsAre, Zenon
        <5> QED
          BY <3>3, <5>2, Zenon DEF S
      <4>4. joined \in Ranges /\ joined.start = p.start /\ end_frame(joined) = end_frame(n)
        <5> DEFINE e == end_frame(n)
                   b == p.start
        <5>1. e \in Nat /\ b \in Nat /\ b < e
          BY <3>1, <4>1
        <5> HIDE DEF e, b
        <5>2. FrameRange(b, e - b) \in Ranges
          BY <5>1 DEF Ranges, FrameRange
        <5>3. FrameRange(b, e - b).start = b /\ FrameRange(b, e - b).count = e - b
          BY Zenon DEF FrameRange
        <5>4. end_frame(FrameRange(b, e - b)) = e
          BY <5>1, <5>3 DEF end_frame
        <5> QED
          BY <5>2, <5>3, <5>4, Zenon DEF e, b
      <4>5. new = Splice(longer, at - 1, at, <<joined>>)
        <5>1. end_frame(longer[at - 1]) >= longer[at - 1 + 1].start
          BY <3>3, <4>1, <4>2
        <5>2. try_merge_forward(longer, at - 1) =
                Splice(longer, at - 1, at - 1 + 1, <<FrameRange(longer[at - 1].start,
                    Max({end_frame(longer[at - 1]), end_frame(longer[at - 1 + 1])}) - longer[at - 1].start)>>)
          BY <4>2, <5>1, Zenon DEF try_merge_forward
        <5>3. FrameRange(longer[at - 1].start,
                    Max({end_frame(longer[at - 1]), end_frame(longer[at - 1 + 1])}) - longer[at - 1].start)
               = joined
          BY <3>3, <4>2, <4>3, Zenon
        <5> QED
          BY <3>7, <4>2, <5>2, <5>3, Zenon
      <4>6. /\ at - 1 \in 1 .. Len(longer) + 1 /\ at \in (at - 1) - 1 .. Len(longer)
            /\ <<joined>> \in Seq(Ranges) /\ Sorted(<<joined>>) /\ Len(<<joined>>) = 1
            /\ <<joined>>[1] = joined /\ Covered(<<joined>>) = FramesOf(joined)
        <5>1. at - 1 \in 1 .. Len(longer) + 1 /\ at \in (at - 1) - 1 .. Len(longer)
          BY <2>3, <3>1, <3>6, <4>1
        <5> QED
          BY <4>4, <5>1, SmallTables, Zenon DEF Sorted
      <4> DEFINE mid == <<joined>>
      <4> HIDE DEF mid, joined
      <4>7. \A k \in 1 .. Len(rs) : k \notin at - 1 .. at => longer[k] = rs[k]
        BY <2>3, <3>6, <4>1
      <4>8. \A i, j \in 1 .. Len(longer) :
               i < j /\ i \notin at - 1 .. at /\ j \notin at - 1 .. at
                   => end_frame(longer[i]) < longer[j].start
        BY <3>6, <4>7, Zenon DEF Sorted
      <4>9. \A k \in 1 .. (at - 1) - 1, m \in 1 .. Len(mid) : end_frame(longer[k]) < mid[m].start
        <5>1. \A k \in 1 .. at - 2 : longer[k] = rs[k]
          BY <2>3, <4>1, <4>7
        <5>2. (at - 1) - 1 = at - 2
          BY <4>1
        <5>3. \A m \in 1 .. Len(mid) : mid[m] = joined
          BY <4>6 DEF mid
        <5> QED
          BY <3>9, <4>4, <5>1, <5>2, <5>3, Zenon
      <4>10. ASSUME NEW k \in at + 1 .. Len(longer), NEW m \in 1 .. Len(mid)
             PROVE  end_frame(mid[m]) < longer[k].start
        <5>1. longer[k] = rs[k] /\ k \in 1 .. Len(rs) /\ at < k
          BY <2>3, <3>6, <4>1, <4>7
        <5>2. end_frame(n) < rs[k].start
          BY <4>1, <5>1, Zenon DEF Sorted
        <5>3. mid[m] = joined
          BY <4>6 DEF mid
        <5> QED
          BY <4>4, <5>1, <5>2, <5>3, Zenon
      <4> DEFINE sp == Splice(longer, at - 1, at, mid)
      <4>11. /\ Sorted(sp)
             /\ Len(sp) = (at - 1) - 1 + Len(mid) + Len(longer) - at
             /\ \A f : f \in Covered(sp) <=>
                       \/ f \in Covered(mid)
                       \/ \E k \in 1 .. Len(longer) : (k < at - 1 \/ k > at) /\ f \in FramesOf(longer[k])
        <5>1. Sorted(mid)
          BY <4>6, Zenon DEF mid
        <5> QED
          BY <3>6, <4>6, <4>8, <4>9, <4>10, <5>1, SpliceSorted, Zenon
      <4> HIDE DEF sp
      <4>12. new = sp
        BY <4>5, Zenon DEF sp, mid
      <4>13. Len(sp) <= CAP
        BY <2>3, <3>6, <4>1, <4>6, <4>11 DEF mid
      <4>14. ASSUME NEW f
             PROVE  f \in Covered(sp) <=> f \in Covered(rs) \cup run
        <5>1. f \in Covered(rs) <=>
                 \/ f \in FramesOf(p) \/ f \in FramesOf(n)
                 \/ \E k \in 1 .. Len(rs) : (k < at - 1 \/ k > at) /\ f \in FramesOf(rs[k])
          <6>1. \A k \in 1 .. Len(rs) : k = at - 1 \/ k = at \/ k < at - 1 \/ k > at
            BY <4>1
          <6>2. f \in Covered(rs) <=> \E k \in 1 .. Len(rs) : f \in FramesOf(rs[k])
            BY InCovered, Zenon
          <6> QED
            BY <3>1, <4>1, <6>1, <6>2, Zenon
        <5>2. \A k \in 1 .. Len(rs) : (k < at - 1 \/ k > at) => longer[k] = rs[k]
          BY <4>1, <4>7
        <5>3. f \in FramesOf(joined) <=> f \in run \/ f \in FramesOf(p) \/ f \in FramesOf(n)
          <6>1. f \in FramesOf(joined) <=> f \in Nat /\ p.start <= f /\ f < end_frame(n)
            BY <4>4, InRange, Zenon
          <6>2. f \in FramesOf(p) <=> f \in Nat /\ p.start <= f /\ f < start
            BY <3>1, InRange, Zenon
          <6>3. f \in FramesOf(n) <=> f \in Nat /\ start + count <= f /\ f < end_frame(n)
            BY <4>1, InRange, Zenon
          <6>4. f \in run <=> f \in Nat /\ start <= f /\ f < start + count
            OBVIOUS
          <6>5. f \in Nat => f < start \/ start <= f
            OBVIOUS
          <6> HIDE DEF run
          <6> QED
            BY <3>1, <4>1, <6>1, <6>2, <6>3, <6>4, SMTT(30)
        <5>4. f \in Covered(sp) <=>
                 \/ f \in FramesOf(joined)
                 \/ \E k \in 1 .. Len(rs) : (k < at - 1 \/ k > at) /\ f \in FramesOf(rs[k])
          BY <3>6, <4>6, <4>11, <5>2, Zenon DEF mid
        <5> QED
          BY <5>1, <5>3, <5>4, Zenon
      <4>15. Covered(sp) = Covered(rs) \cup run
        BY <4>14, Zenon
      <4> QED
        BY <4>11, <4>12, <4>13, <4>15, Zenon DEF new, run
    <3> QED
      BY <3>10, <3>11, Zenon
  <2>11. CASE ~previous /\ next
    <3> DEFINE n == rs[at]
               grown == FrameRange(start, end_frame(n) - start)
    <3>1. /\ at \in 1 .. Len(rs) /\ n \in Ranges /\ start + count = n.start /\ end_frame(n) \in Nat
          /\ n.start \in Nat /\ n.start < end_frame(n)
      BY <2>3, <2>4, <2>8, <2>11, Zenon
    <3>2. Min({start, n.start}) = start /\ Max({start + count, end_frame(n)}) = end_frame(n)
      <4> DEFINE S == {start, n.start}
                 T == {start + count, end_frame(n)}
      <4>1. S \in SUBSET Nat /\ start \in S /\ \A y \in S : start <= y
        BY <3>1
      <4>2. T \in SUBSET Nat /\ end_frame(n) \in T /\ \A y \in T : y <= end_frame(n)
        BY <3>1
      <4> HIDE DEF S, T
      <4>3. Min(S) = start /\ Max(T) = end_frame(n)
        BY <4>1, <4>2, BoundsAre, Zenon
      <4> QED
        BY <4>3, Zenon DEF S, T
    <3>3. grown \in Ranges /\ grown.start = start /\ end_frame(grown) = end_frame(n)
      BY <1>2, <3>1, SMTT(30) DEF Ranges, FrameRange, end_frame
    <3>4. new = Splice(rs, at, at, <<grown>>)
      <4>1. new = [rs EXCEPT ![at] = grown]
        BY <2>9, <2>11, <3>2, Zenon
      <4> QED
        BY <2>3, <3>1, <3>3, <4>1, ReplaceIsSplice, Zenon
    <3>5. \A k \in 1 .. at - 1 : end_frame(rs[k]) < grown.start
      <4>1. \A k \in 1 .. at - 1 : k # at - 1 => end_frame(rs[k]) < rs[at - 1].start
        BY <2>3, <3>1, SMTT(30) DEF Sorted
      <4> QED
        <5> SUFFICES ASSUME NEW k \in 1 .. at - 1
                     PROVE  end_frame(rs[k]) < start
          BY <3>3, Zenon
        <5>1. at - 1 \in 1 .. Len(rs) /\ k \in 1 .. Len(rs) /\ at > 1
          BY <2>3, <3>1
        <5>2. end_frame(rs[at - 1]) < start
          BY <2>4, <2>11, <5>1, SMTT(30)
        <5> QED
          <6>1. CASE k = at - 1
            BY <5>2, <6>1, Zenon
          <6>2. CASE k # at - 1
            <7>1. PICK x \in Nat, y \in Nat, z \in Nat :
                      x = end_frame(rs[k]) /\ y = rs[at - 1].start /\ z = end_frame(rs[at - 1])
              BY <2>4, <5>1, Zenon
            <7>2. x < y /\ y < z /\ z < start
              BY <2>4, <4>1, <5>1, <5>2, <6>2, <7>1, Zenon
            <7> QED
              BY <7>1, <7>2
          <6> QED
            BY <6>1, <6>2, Zenon
    <3>6. \A k \in at + 1 .. Len(rs) : end_frame(grown) < rs[k].start
      BY <2>3, <3>1, <3>3 DEF Sorted
    <3>7. ASSUME NEW f
          PROVE  f \in FramesOf(grown) <=> f \in run \/ \E k \in at .. at : f \in FramesOf(rs[k])
      <4>1. (\E k \in at .. at : f \in FramesOf(rs[k])) <=> f \in FramesOf(n)
        BY <3>1
      <4> QED
        BY <1>2, <3>1, <3>3, <4>1, InRange, SMTT(30)
    <3>8. at \in 1 .. Len(rs) + 1 /\ at \in at - 1 .. Len(rs)
      BY <2>3, <3>1
    <3> HIDE DEF run, grown
    <3>9. /\ Sorted(Splice(rs, at, at, <<grown>>))
          /\ Len(Splice(rs, at, at, <<grown>>)) = Len(rs) + at - at
          /\ Covered(Splice(rs, at, at, <<grown>>)) = Covered(rs) \cup run
      BY <3>3, <3>5, <3>6, <3>7, <3>8, SpliceOne, ZenonT(60)
    <3>10. Len(new) <= CAP
      BY <2>3, <3>1, <3>4, <3>9
    <3> QED
      BY <3>4, <3>9, <3>10, Zenon DEF new, run
  <2>12. CASE ~previous /\ ~next
    <3> DEFINE own == FrameRange(start, count)
    <3>1. own \in Ranges /\ own.start = start /\ end_frame(own) = start + count
      BY <1>2, Zenon DEF Ranges, FrameRange, end_frame
    <3>2. new = Splice(rs, at, at - 1, <<own>>)
      BY <2>9, <2>12, Zenon
    <3>3. ASSUME NEW k \in 1 .. at - 1
          PROVE  end_frame(rs[k]) < own.start
      <4>1. k \in 1 .. Len(rs) /\ at - 1 \in 1 .. Len(rs) /\ at > 1
        BY <2>2, <2>3
      <4>2. end_frame(rs[at - 1]) < start
        BY <2>4, <2>12, <4>1
      <4>3. k # at - 1 => end_frame(rs[k]) < rs[at - 1].start
        BY <4>1 DEF Sorted
      <4> QED
        BY <2>4, <3>1, <4>1, <4>2, <4>3, SMTT(30)
    <3>4. ASSUME NEW k \in at - 1 + 1 .. Len(rs)
          PROVE  end_frame(own) < rs[k].start
      <4>1. k \in 1 .. Len(rs) /\ at \in 1 .. Len(rs) /\ at <= k
        BY <2>2, <2>3
      <4>2. start + count < rs[at].start
        BY <2>4, <2>12, <4>1, SMTT(30)
      <4>3. k # at => end_frame(rs[at]) < rs[k].start
        BY <4>1 DEF Sorted
      <4> QED
        BY <2>4, <3>1, <4>1, <4>2, <4>3, SMTT(30)
    <3>5. ASSUME NEW f
          PROVE  f \in FramesOf(own) <=> f \in run \/ \E k \in at .. at - 1 : f \in FramesOf(rs[k])
      <4>1. ~\E k \in at .. at - 1 : f \in FramesOf(rs[k])
        BY <2>2, <2>3
      <4> QED
        BY <3>1, <4>1, InRange
    <3>6. at \in 1 .. Len(rs) + 1 /\ at - 1 \in at - 1 .. Len(rs)
      BY <2>2, <2>3
    <3> HIDE DEF run, own
    <3>7. /\ Sorted(Splice(rs, at, at - 1, <<own>>))
          /\ Len(Splice(rs, at, at - 1, <<own>>)) = Len(rs) + at - (at - 1)
          /\ Covered(Splice(rs, at, at - 1, <<own>>)) = Covered(rs) \cup run
      BY <3>1, <3>3, <3>4, <3>5, <3>6, SpliceOne, ZenonT(60)
    <3>8. Len(new) <= CAP
      BY <2>2, <2>3, <2>6, <2>12, <3>2, <3>7
    <3> QED
      BY <3>2, <3>7, <3>8, Zenon DEF new, run
  <2> QED
    BY <2>10, <2>11, <2>12, Zenon
<1> QED
  BY <1>1, <1>2, Zenon

----------------------------------------------------------------------------
\* Allocation.

\* What is left of a range on both sides of a cut.
LEMMA RestsAre ==
    ASSUME NEW a \in Nat, NEW m \in Nat, NEW b \in Nat, NEW n \in Nat, a + m < b
    PROVE  LET mid == Rest(FrameRange(a, m)) \o Rest(FrameRange(b, n))
           IN  /\ Sorted(mid)
               /\ Len(mid) \in 0 .. 2 /\ (m = 0 \/ n = 0 => Len(mid) <= 1)
               /\ \A k \in 1 .. Len(mid) : a <= mid[k].start /\ end_frame(mid[k]) <= b + n
               /\ \A f : f \in Covered(mid) <=> f \in Nat /\ ((a <= f /\ f < a + m) \/ (b <= f /\ f < b + n))
<1> DEFINE r == FrameRange(a, m)
           q == FrameRange(b, n)
           mid == Rest(r) \o Rest(q)
<1>1. /\ r.start = a /\ r.count = m /\ end_frame(r) = a + m
      /\ q.start = b /\ q.count = n /\ end_frame(q) = b + n
  BY Zenon DEF FrameRange, end_frame
<1>2. /\ m > 0 => r \in Ranges
      /\ n > 0 => q \in Ranges
  BY DEF FrameRange, Ranges
<1>3. /\ Rest(r) = IF m > 0 THEN <<r>> ELSE <<>>
      /\ Rest(q) = IF n > 0 THEN <<q>> ELSE <<>>
  BY <1>1, Zenon DEF Rest
<1> HIDE DEF r, q
<1>4. CASE m = 0 /\ n = 0
  <2>1. mid = <<>>
    BY <1>3, <1>4
  <2> HIDE DEF mid
  <2>2. Sorted(mid) /\ Len(mid) = 0 /\ Covered(mid) = {}
    BY <2>1, SmallTables, Zenon
  <2> QED
    BY <1>4, <2>2 DEF mid, r, q
<1>5. CASE m > 0 /\ n = 0
  <2>1. mid = <<r>>
    BY <1>3, <1>5
  <2> HIDE DEF mid
  <2>2. Sorted(mid) /\ Len(mid) = 1 /\ mid[1] = r /\ Covered(mid) = FramesOf(r)
    BY <1>2, <1>5, <2>1, SmallTables, Zenon
  <2>3. \A f : f \in FramesOf(r) <=> f \in Nat /\ a <= f /\ f < a + m
    BY <1>1, <1>2, <1>5, InRange, Zenon
  <2>4. \A k \in 1 .. Len(mid) : a <= mid[k].start /\ end_frame(mid[k]) <= b + n
    BY <1>1, <2>2
  <2>5. \A f : f \in Covered(mid) <=> f \in Nat /\ ((a <= f /\ f < a + m) \/ (b <= f /\ f < b + n))
    BY <1>5, <2>2, <2>3
  <2> QED
    BY <2>2, <2>4, <2>5 DEF mid, r, q
<1>6. CASE m = 0 /\ n > 0
  <2>1. mid = <<q>>
    BY <1>3, <1>6
  <2> HIDE DEF mid
  <2>2. Sorted(mid) /\ Len(mid) = 1 /\ mid[1] = q /\ Covered(mid) = FramesOf(q)
    BY <1>2, <1>6, <2>1, SmallTables, Zenon
  <2>3. \A f : f \in FramesOf(q) <=> f \in Nat /\ b <= f /\ f < b + n
    BY <1>1, <1>2, <1>6, InRange, Zenon
  <2>4. \A k \in 1 .. Len(mid) : a <= mid[k].start /\ end_frame(mid[k]) <= b + n
    BY <1>1, <2>2
  <2>5. \A f : f \in Covered(mid) <=> f \in Nat /\ ((a <= f /\ f < a + m) \/ (b <= f /\ f < b + n))
    BY <1>6, <2>2, <2>3
  <2> QED
    BY <2>2, <2>4, <2>5 DEF mid, r, q
<1>7. CASE m > 0 /\ n > 0
  <2>1. mid = <<r, q>>
    <3>1. mid = <<r>> \o <<q>>
      BY <1>3, <1>7, Zenon
    <3>2. Append(<<r>>, q) = <<r>> \o <<q>>
      <4>1. <<r>> \in Seq(Ranges)
        BY <1>2, <1>7
      <4> QED
        BY <1>2, <1>7, <4>1
    <3>3. Append(<<r>>, q) = <<r, q>>
      <4> DEFINE s == Append(<<r>>, q)
                 t == <<r, q>>
      <4>1. r \in Ranges /\ q \in Ranges
        BY <1>2, <1>7, Zenon
      <4>2. s \in Seq(Ranges) /\ Len(s) = 2 /\ s[1] = r /\ s[2] = q
        BY <4>1
      <4>3. t \in Seq(Ranges) /\ Len(t) = 2 /\ t[1] = r /\ t[2] = q
        BY <4>1
      <4> HIDE DEF s, t
      <4>4. \A k \in 1 .. Len(s) : s[k] = t[k]
        BY <4>2, <4>3
      <4>5. s = t
        BY <4>2, <4>3, <4>4
      <4> QED
        BY <4>5, Zenon DEF s, t
    <3> QED
      BY <3>1, <3>2, <3>3, Zenon
  <2> HIDE DEF mid
  <2>2. /\ Sorted(mid) /\ Len(mid) = 2 /\ mid[1] = r /\ mid[2] = q
        /\ Covered(mid) = FramesOf(r) \cup FramesOf(q)
    BY <1>1, <1>2, <1>7, <2>1, SmallTables
  <2>3. /\ \A f : f \in FramesOf(r) <=> f \in Nat /\ a <= f /\ f < a + m
        /\ \A f : f \in FramesOf(q) <=> f \in Nat /\ b <= f /\ f < b + n
    BY <1>1, <1>2, <1>7, InRange, Zenon
  <2>4. \A k \in 1 .. Len(mid) : a <= mid[k].start /\ end_frame(mid[k]) <= b + n
    BY <1>1, <2>2
  <2>5. \A f : f \in Covered(mid) <=> f \in Nat /\ ((a <= f /\ f < a + m) \/ (b <= f /\ f < b + n))
    BY <2>2, <2>3, Zenon
  <2> QED
    BY <1>7, <2>2, <2>4, <2>5 DEF mid, r, q
<1> QED
  BY <1>4, <1>5, <1>6, <1>7

\* A cut takes exactly its frames out of the table, which stays sorted and merged, and grows
\* by a range only if frames are left on both sides.
LEMMA CutKeeps ==
    ASSUME NEW rs, Sorted(rs), NEW i \in 1 .. Len(rs), NEW aligned \in Nat,
           NEW count \in Nat \ {0}, Fits(rs[i], aligned, count)
    PROVE  /\ Sorted(Cut(rs, i, aligned, count))
           /\ Covered(Cut(rs, i, aligned, count)) = Covered(rs) \ (aligned .. aligned + count - 1)
           /\ Len(Cut(rs, i, aligned, count)) \in 0 .. Len(rs) + 1
           /\ (aligned = rs[i].start \/ aligned + count = end_frame(rs[i])) =>
                  Len(Cut(rs, i, aligned, count)) <= Len(rs)
<1> DEFINE r == rs[i]
           a == r.start
           e == end_frame(r)
           m == aligned - a
           b == aligned + count
           n == e - b
           mid == Rest(FrameRange(a, m)) \o Rest(FrameRange(b, n))
           new == Splice(rs, i, i, mid)
           run == aligned .. aligned + count - 1
<1>1. rs \in Seq(Ranges) /\ Len(rs) \in Nat /\ \A k \in 1 .. Len(rs) : rs[k] \in Ranges
  BY DEF Sorted
<1>2. /\ a \in Nat /\ e \in Nat /\ a < e /\ a <= aligned /\ b <= e
      /\ \A f : f \in FramesOf(r) <=> f \in Nat /\ a <= f /\ f < e
  BY <1>1, InRange, Zenon DEF Fits
<1>3. Cut(rs, i, aligned, count) = new
  BY Zenon DEF Cut
<1> HIDE DEF a, e, new
<1>4. m \in Nat /\ b \in Nat /\ n \in Nat /\ a + m < b /\ a + m = aligned /\ b + n = e
  BY <1>2
<1>5. /\ Sorted(mid)
      /\ Len(mid) \in 0 .. 2 /\ (m = 0 \/ n = 0 => Len(mid) <= 1)
      /\ \A k \in 1 .. Len(mid) : a <= mid[k].start /\ end_frame(mid[k]) <= b + n
      /\ \A f : f \in Covered(mid) <=> f \in Nat /\ ((a <= f /\ f < a + m) \/ (b <= f /\ f < b + n))
  <2> HIDE DEF m, b, n
  <2> QED
    BY <1>2, <1>4, RestsAre, Zenon
<1> HIDE DEF mid
<1>5a. \A k \in 1 .. Len(mid) : a <= mid[k].start /\ end_frame(mid[k]) <= b + n
  BY <1>5, Zenon
<1>5b. Len(mid) \in 0 .. 2
  BY <1>5, Zenon
<1>5c. m = 0 \/ n = 0 => Len(mid) <= 1
  BY <1>5, Zenon
<1>6. /\ \A k \in 1 .. Len(mid) : mid[k].start \in Nat /\ end_frame(mid[k]) \in Nat
      /\ \A k \in 1 .. Len(rs) : rs[k].start \in Nat /\ end_frame(rs[k]) \in Nat
  <2>1. \A k \in 1 .. Len(mid) : mid[k] \in Ranges
    BY <1>5 DEF Sorted
  <2> QED
    BY <1>1, <2>1, InRange, Zenon
<1>7. ASSUME NEW k \in 1 .. i - 1, NEW l \in 1 .. Len(mid)
      PROVE  end_frame(rs[k]) < mid[l].start
  <2>1. k \in 1 .. Len(rs) /\ end_frame(rs[k]) < a
    BY <1>1 DEF Sorted, a
  <2> QED
    BY <1>2, <1>6, <1>5a, <2>1, SMTT(30)
<1>8. ASSUME NEW k \in i + 1 .. Len(rs), NEW l \in 1 .. Len(mid)
      PROVE  end_frame(mid[l]) < rs[k].start
  <2>1. k \in 1 .. Len(rs) /\ e < rs[k].start
    BY <1>1 DEF Sorted, e
  <2>2. end_frame(mid[l]) <= e
    BY <1>4, <1>5a, Zenon
  <2> QED
    BY <1>2, <1>6, <2>1, <2>2, SMTT(30)
<1>9. i \in 1 .. Len(rs) + 1 /\ i \in i - 1 .. Len(rs)
  BY <1>1
<1>10. \A j, k \in 1 .. Len(rs) :
          j < k /\ j \notin i .. i /\ k \notin i .. i => end_frame(rs[j]) < rs[k].start
  BY Zenon DEF Sorted
<1>11. /\ Sorted(new) /\ Len(new) = i - 1 + Len(mid) + Len(rs) - i
       /\ \A f : f \in Covered(new) <=>
                   \/ f \in Covered(mid)
                   \/ \E k \in 1 .. Len(rs) : (k < i \/ k > i) /\ f \in FramesOf(rs[k])
  BY <1>1, <1>5, <1>7, <1>8, <1>9, <1>10, SpliceSorted, Zenon DEF new
<1>12. Len(new) \in 0 .. Len(rs) + 1 /\ (m = 0 \/ n = 0 => Len(new) <= Len(rs))
  <2> DEFINE k == Len(mid)
             x == Len(new)
             y == Len(rs)
  <2>1. k \in 0 .. 2 /\ x = i - 1 + k + y - i /\ y \in Nat /\ i \in 1 .. y
    BY <1>1, <1>11, <1>5b, Zenon
  <2> HIDE DEF m, n, k, x, y
  <2>2. x \in 0 .. y + 1 /\ (k <= 1 => x <= y)
    BY <2>1
  <2> QED
    BY <1>5c, <2>2, Zenon DEF k, x, y
<1>13. aligned = a \/ b = e => m = 0 \/ n = 0
  BY <1>2
<1>14. ASSUME NEW f
       PROVE  f \in Covered(new) <=> f \in Covered(rs) /\ f \notin run
  <2>1. f \in Covered(mid) <=> f \in FramesOf(r) /\ f \notin run
    <3>1. f \in run <=> f \in Nat /\ aligned <= f /\ f < b
      OBVIOUS
    <3>2. f \in Covered(mid) <=> f \in Nat /\ ((a <= f /\ f < aligned) \/ (b <= f /\ f < e))
      BY <1>4, <1>5, Zenon
    <3> HIDE DEF run, b
    <3> QED
      BY <1>2, <1>4, <3>1, <3>2
  <2>2. ASSUME NEW k \in 1 .. Len(rs), k < i \/ k > i, f \in FramesOf(rs[k])
        PROVE  f \notin run
    <3>1. f \in Nat /\ rs[k].start <= f /\ f < end_frame(rs[k])
      BY <1>1, <2>2, InRange, Zenon
    <3>2. end_frame(rs[k]) < a \/ e < rs[k].start
      BY <2>2, Zenon DEF Sorted, a, e
    <3> QED
      BY <1>2, <1>6, <3>1, <3>2
  <2>3. f \in Covered(rs) <=> \/ f \in FramesOf(r)
                              \/ \E k \in 1 .. Len(rs) : (k < i \/ k > i) /\ f \in FramesOf(rs[k])
    BY <1>1, InCovered
  <2> HIDE DEF run
  <2> QED
    BY <1>11, <2>1, <2>2, <2>3, Zenon
<1>15. Covered(new) = Covered(rs) \ run
  BY <1>14, Zenon
<1> QED
  BY <1>3, <1>11, <1>12, <1>13, <1>15, Zenon DEF a, e

\* Frames that are free in a row lie in one range, since the ranges are merged.
LEMMA RunInOneRange ==
    ASSUME NEW rs, Sorted(rs), NEW f \in Nat, NEW count \in Nat \ {0},
           (f .. f + count - 1) \subseteq Covered(rs)
    PROVE  \E j \in 1 .. Len(rs) : rs[j].start <= f /\ f + count <= end_frame(rs[j])
<1>1. Len(rs) \in Nat /\ \A k \in 1 .. Len(rs) : rs[k] \in Ranges
  BY DEF Sorted
<1>2. f \in Covered(rs)
  BY f \in f .. f + count - 1, Zenon
<1>3. PICK j \in 1 .. Len(rs) : f \in FramesOf(rs[j])
  BY <1>2, InCovered, Zenon
<1>4. rs[j].start \in Nat /\ end_frame(rs[j]) \in Nat /\ rs[j].start <= f /\ f < end_frame(rs[j])
  BY <1>1, <1>3, InRange, Zenon
<1>5. ASSUME end_frame(rs[j]) < f + count
      PROVE  FALSE
  <2> DEFINE e == end_frame(rs[j])
  <2>1. e \in f .. f + count - 1
    BY <1>4, <1>5
  <2>2. e \in Covered(rs)
    BY <2>1, Zenon
  <2>3. PICK k \in 1 .. Len(rs) : e \in FramesOf(rs[k])
    BY <2>2, InCovered, Zenon
  <2>4. /\ rs[k].start \in Nat /\ end_frame(rs[k]) \in Nat
        /\ rs[k].start <= e /\ e < end_frame(rs[k])
    BY <1>1, <2>3, InRange, Zenon
  <2>5. k # j
    BY <2>4
  <2>6. end_frame(rs[k]) < rs[j].start \/ e < rs[k].start
    BY <2>5 DEF Sorted
  <2> QED
    BY <1>4, <2>4, <2>6
<1> QED
  BY <1>4, <1>5

\* The search from below tries the first multiple in a range, the one from above the last.
LEMMA AlignedLowIs ==
    ASSUME NEW r \in Ranges, NEW count \in Nat \ {0}, NEW align \in Nat \ {0}
    PROVE  LET a == AlignedLow(r, count, align)
           IN  /\ a \in Nat /\ r.start <= a /\ a % align = 0
               /\ \A f \in Nat : r.start <= f /\ f % align = 0 => a <= f
<1> DEFINE s == r.start
           q == (s + align - 1) \div align
           a == AlignedLow(r, count, align)
<1>1. s \in Nat
  BY InRange, Zenon
<1> HIDE DEF s
<1>2. q \in Nat /\ align * q <= s + align - 1 /\ s + align - 1 < align * q + align
  <2> DEFINE t == s + align - 1
  <2>1. t \in Nat
    BY <1>1
  <2> HIDE DEF t
  <2>2. t % align \in 0 .. align - 1 /\ t \div align \in Nat /\ t = align * (t \div align) + (t % align)
    BY <2>1, Multiples, Zenon
  <2>3. align * (t \div align) \in Nat
    BY <2>2
  <2>4. t \div align \in Nat /\ align * (t \div align) <= t /\ t < align * (t \div align) + align
    BY <2>1, <2>2, <2>3
  <2> QED
    BY <2>4, Zenon DEF t
<1>3. a = align * q
  <2>1. a = q * align
    BY Zenon DEF AlignedLow, s
  <2> HIDE DEF q
  <2> QED
    BY <1>2, <2>1
<1> HIDE DEF q, a
<1>4. a % align = 0
  BY <1>2, <1>3, Multiples, Zenon
<1>5. align * q \in Nat
  BY <1>2
<1>6. s <= a
  BY <1>1, <1>2, <1>3, <1>5
<1>7. ASSUME NEW f \in Nat, s <= f, f % align = 0, ~(a <= f)
      PROVE  FALSE
  <2> DEFINE k == f \div align
  <2>1. k \in Nat /\ f = align * k
    <3>1. k \in Nat /\ f = align * k + (f % align)
      BY Multiples, Zenon
    <3> HIDE DEF k
    <3> QED
      BY <1>7, <3>1
  <2> HIDE DEF k
  <2>2. align * k < align * q
    BY <1>3, <1>5, <1>7, <2>1
  <2>3. align * k + align <= align * q
    BY <1>2, <2>1, <2>2, NoMultipleBetween, Zenon
  <2>4. f + align <= a /\ a <= s + align - 1
    BY <1>2, <1>3, <2>1, <2>3, Zenon
  <2> QED
    BY <1>1, <1>3, <1>5, <1>7, <2>4
<1> QED
  BY <1>3, <1>4, <1>5, <1>6, <1>7, Zenon DEF a, s

\* The search from above, in a range that is long enough.
LEMMA AlignedHighIs ==
    ASSUME NEW r \in Ranges, NEW count \in Nat \ {0}, NEW align \in Nat \ {0}, count <= r.count
    PROVE  LET a == AlignedHigh(r, count, align)
           IN  /\ a \in Nat /\ a + count <= end_frame(r) /\ a % align = 0
               /\ \A f \in Nat : f + count <= end_frame(r) /\ f % align = 0 => f <= a
<1> DEFINE h == end_frame(r) - count
           q == h \div align
           a == AlignedHigh(r, count, align)
<1>1. h \in Nat /\ end_frame(r) \in Nat
  <2>1. r.start \in Nat /\ r.count \in Nat /\ end_frame(r) = r.start + r.count
    BY InRange, Zenon DEF end_frame
  <2> QED
    BY <2>1
<1>2. a = h - (h % align)
  BY Zenon DEF AlignedHigh
<1>3. \A f \in Nat : f + count <= end_frame(r) => f <= h
  BY <1>1
<1>4. \A f \in Nat : f <= h => f + count <= end_frame(r)
  BY <1>1
<1> HIDE DEF h, a
<1>5. q \in Nat /\ h % align \in 0 .. align - 1 /\ h = align * q + (h % align)
  BY <1>1, Multiples, Zenon
<1> HIDE DEF q
<1>6. align * q \in Nat
  BY <1>5
<1>7. a = align * q /\ a <= h /\ h < a + align
  BY <1>1, <1>2, <1>5, <1>6
<1>8. a % align = 0
  BY <1>5, <1>7, Multiples, Zenon
<1>9. ASSUME NEW f \in Nat, f <= h, f % align = 0, ~(f <= a)
      PROVE  FALSE
  <2> DEFINE k == f \div align
  <2>1. k \in Nat /\ f = align * k
    <3>1. k \in Nat /\ f = align * k + (f % align)
      BY Multiples, Zenon
    <3> HIDE DEF k
    <3> QED
      BY <1>9, <3>1
  <2> HIDE DEF k
  <2>2. align * q < align * k
    BY <1>6, <1>7, <1>9, <2>1
  <2>3. align * q + align <= align * k
    BY <1>5, <2>1, <2>2, NoMultipleBetween, Zenon
  <2> QED
    BY <1>1, <1>6, <1>7, <1>9, <2>1, <2>3
<1> QED
  BY <1>3, <1>4, <1>6, <1>7, <1>8, <1>9, Zenon DEF a

\* The frame an allocation from range r would answer.
AlignedIn(r, count, align, high) ==
    IF high THEN AlignedHigh(r, count, align) ELSE AlignedLow(r, count, align)

\* The search answers a range that fits, at the lowest (highest) run of free frames there is,
\* and none only if there is no run.
LEMMA ChosenIs ==
    ASSUME WellOrdered, NEW rs, Sorted(rs), NEW count \in Nat \ {0}, NEW align \in Nat \ {0}, NEW high \in BOOLEAN
    PROVE  LET i == Chosen(rs, count, align, high)
               a == AlignedIn(rs[i], count, align, high)
           IN  /\ i # 0 => /\ i \in 1 .. Len(rs) /\ a \in Nat /\ Fits(rs[i], a, count)
                           /\ a % align = 0
                           /\ align = 1 => a = rs[i].start \/ a + count = end_frame(rs[i])
               /\ \A f \in Nat : f % align = 0 /\ (f .. f + count - 1) \subseteq Covered(rs)
                     => i # 0 /\ (IF high THEN f <= a ELSE a <= f)
<1> DEFINE A(j) == AlignedIn(rs[j], count, align, high)
           Fitting == {j \in 1 .. Len(rs) :
                       IF high
                       THEN rs[j].count >= count /\ Fits(rs[j], AlignedHigh(rs[j], count, align), count)
                       ELSE Fits(rs[j], AlignedLow(rs[j], count, align), count)}
           i == Chosen(rs, count, align, high)
<1>1. rs \in Seq(Ranges) /\ Len(rs) \in Nat /\ \A k \in 1 .. Len(rs) : rs[k] \in Ranges
  BY DEF Sorted
<1>2. \A k \in 1 .. Len(rs) :
         /\ rs[k].start \in Nat /\ rs[k].count \in Nat
         /\ end_frame(rs[k]) \in Nat /\ end_frame(rs[k]) = rs[k].start + rs[k].count
  BY <1>1, InRange, Zenon DEF end_frame
<1>3. /\ Fitting \in SUBSET (0 .. Len(rs)) /\ Fitting \in SUBSET Nat
      /\ \A j \in Fitting : j \in 1 .. Len(rs)
  BY <1>1
<1>4. i = IF Fitting = {} THEN 0 ELSE IF high THEN Max(Fitting) ELSE Min(Fitting)
  BY Zenon DEF Chosen
<1>5. ASSUME NEW j \in Fitting
      PROVE  /\ A(j) \in Nat /\ Fits(rs[j], A(j), count) /\ A(j) % align = 0
             /\ align = 1 => A(j) = rs[j].start \/ A(j) + count = end_frame(rs[j])
             /\ \A f \in Nat : /\ rs[j].start <= f /\ f + count <= end_frame(rs[j])
                               /\ f % align = 0
                               => IF high THEN f <= A(j) ELSE A(j) <= f
  <2> DEFINE s == rs[j].start
             e == end_frame(rs[j])
  <2>1. j \in 1 .. Len(rs) /\ rs[j] \in Ranges
    BY <1>1, <1>3, Zenon
  <2>2. s \in Nat /\ e \in Nat /\ rs[j].count \in Nat /\ e = s + rs[j].count
    BY <1>2, <2>1, Zenon
  <2>3. \A f \in Nat : align = 1 => f % align = 0
    <3>1. \A f \in Nat : f % 1 = 0
      OBVIOUS
    <3> QED
      BY <3>1, Zenon
  <2>4. CASE high
    <3>1. A(j) = AlignedHigh(rs[j], count, align)
      BY <2>4, Zenon DEF AlignedIn
    <3>2. count <= rs[j].count /\ Fits(rs[j], A(j), count)
      BY <2>2, <2>4, <3>1, Zenon
    <3>3. /\ A(j) \in Nat /\ A(j) + count <= e /\ A(j) % align = 0
          /\ \A f \in Nat : f + count <= e /\ f % align = 0 => f <= A(j)
      BY <2>1, <3>1, <3>2, AlignedHighIs, ZenonT(60)
    <3> HIDE DEF A
    <3>4. ASSUME align = 1
          PROVE  A(j) + count = e
      <4>1. e - count \in Nat /\ (e - count) + count = e
        BY <2>2, <3>2, SMTT(30)
      <4>2. e - count <= A(j)
        BY <2>2, <2>3, <3>3, <3>4, <4>1, SMTT(30)
      <4> QED
        BY <2>2, <3>3, <4>1, <4>2
    <3> QED
      BY <2>4, <3>2, <3>3, <3>4, Zenon
  <2>5. CASE ~high
    <3>1. A(j) = AlignedLow(rs[j], count, align)
      BY <2>5, Zenon DEF AlignedIn
    <3>2. Fits(rs[j], A(j), count)
      BY <2>5, <3>1, Zenon
    <3>3. /\ A(j) \in Nat /\ s <= A(j) /\ A(j) % align = 0
          /\ \A f \in Nat : s <= f /\ f % align = 0 => A(j) <= f
      BY <2>1, <3>1, AlignedLowIs, ZenonT(60)
    <3> HIDE DEF A
    <3>4. ASSUME align = 1
          PROVE  A(j) = s
      <4>1. A(j) <= s
        BY <2>2, <2>3, <3>3, <3>4
      <4> QED
        BY <2>2, <3>3, <4>1
    <3> QED
      BY <2>5, <3>2, <3>3, <3>4, Zenon
  <2> QED
    BY <2>4, <2>5, Zenon
<1>6. ASSUME NEW j \in 1 .. Len(rs), NEW f \in Nat, f % align = 0,
             rs[j].start <= f, f + count <= end_frame(rs[j])
      PROVE  j \in Fitting
  <2>1. rs[j] \in Ranges /\ rs[j].start \in Nat /\ end_frame(rs[j]) \in Nat /\ rs[j].count \in Nat
        /\ end_frame(rs[j]) = rs[j].start + rs[j].count
    BY <1>1, <1>2, Zenon
  <2>2. rs[j].count >= count
    BY <1>6, <2>1
  <2>3. CASE high
    <3> DEFINE a == AlignedHigh(rs[j], count, align)
    <3>1. /\ a \in Nat /\ a + count <= end_frame(rs[j])
          /\ \A g \in Nat : g + count <= end_frame(rs[j]) /\ g % align = 0 => g <= a
      BY <2>1, <2>2, AlignedHighIs, Zenon
    <3> HIDE DEF a
    <3>2. Fits(rs[j], a, count)
      <4>1. f <= a
        BY <1>6, <3>1, Zenon
      <4> QED
        BY <1>6, <2>1, <3>1, <4>1, SMTT(30) DEF Fits
    <3> QED
      BY <2>2, <2>3, <3>2, Zenon DEF a
  <2>4. CASE ~high
    <3> DEFINE a == AlignedLow(rs[j], count, align)
    <3>1. /\ a \in Nat /\ rs[j].start <= a
          /\ \A g \in Nat : rs[j].start <= g /\ g % align = 0 => a <= g
      BY <2>1, AlignedLowIs, Zenon
    <3> HIDE DEF a
    <3>2. Fits(rs[j], a, count)
      <4>1. a <= f
        BY <1>6, <3>1, Zenon
      <4> QED
        BY <1>6, <2>1, <3>1, <4>1, SMTT(30) DEF Fits
    <3> QED
      BY <2>4, <3>2, Zenon DEF a
  <2> QED
    BY <2>3, <2>4, Zenon
<1> HIDE DEF Fitting, A, i
<1>7. ASSUME Fitting # {}
      PROVE  /\ i \in Fitting /\ i # 0
             /\ \A j \in Fitting : IF high THEN j <= i ELSE i <= j
  <2>1. CASE high
    <3>1. Max(Fitting) \in Fitting /\ \A j \in Fitting : j <= Max(Fitting)
      BY <1>1, <1>3, <1>7, GreatestNumber, Zenon
    <3> QED
      <4>1. i = Max(Fitting)
        BY <1>4, <1>7, <2>1, Zenon
      <4> QED
        BY <1>3, <2>1, <3>1, <4>1
  <2>2. CASE ~high
    <3>1. Min(Fitting) \in Fitting /\ \A j \in Fitting : Min(Fitting) <= j
      BY <1>3, <1>7, LeastNumber, Zenon
    <3> QED
      <4>1. i = Min(Fitting)
        BY <1>4, <1>7, <2>2, Zenon
      <4> QED
        BY <1>3, <2>2, <3>1, <4>1
  <2> QED
    BY <2>1, <2>2, Zenon
<1>8. ASSUME i # 0
      PROVE  i \in Fitting
  BY <1>4, <1>7, <1>8, Zenon
<1>9. ASSUME NEW f \in Nat, f % align = 0, (f .. f + count - 1) \subseteq Covered(rs)
      PROVE  i # 0 /\ (IF high THEN f <= A(i) ELSE A(i) <= f)
  <2>1. PICK j \in 1 .. Len(rs) : rs[j].start <= f /\ f + count <= end_frame(rs[j])
    BY <1>9, RunInOneRange, Zenon
  <2>2. j \in Fitting
    BY <1>6, <1>9, <2>1, Zenon
  <2>3. i \in Fitting /\ i # 0 /\ (IF high THEN j <= i ELSE i <= j)
    BY <1>7, <2>2, Zenon
  <2>4. i \in 1 .. Len(rs) /\ A(i) \in Nat /\ Fits(rs[i], A(i), count)
    BY <1>3, <1>5, <2>3, Zenon
  <2>5. rs[i].start <= A(i) /\ A(i) + count <= end_frame(rs[i])
    BY <2>4, Zenon DEF Fits
  <2>6. CASE i = j
    BY <1>5, <1>9, <2>1, <2>3, <2>6, Zenon
  <2>7. CASE high /\ i # j
    <3>1. j < i
      BY <2>3, <2>4, <2>7
    <3>2. end_frame(rs[j]) < rs[i].start
      BY <2>4, <3>1, Zenon DEF Sorted
    <3>3. f <= A(i)
      BY <1>2, <2>1, <2>4, <2>5, <3>2, SMTT(30)
    <3> QED
      BY <2>3, <2>7, <3>3, Zenon
  <2>8. CASE ~high /\ i # j
    <3>1. i < j
      BY <2>3, <2>4, <2>8
    <3>2. end_frame(rs[i]) < rs[j].start
      BY <2>4, <3>1, Zenon DEF Sorted
    <3>3. A(i) <= f
      BY <1>2, <2>1, <2>4, <2>5, <3>2, SMTT(30)
    <3> QED
      BY <2>3, <2>8, <3>3, Zenon
  <2> QED
    BY <2>6, <2>7, <2>8, Zenon
<1>10. ASSUME i # 0
       PROVE  /\ i \in 1 .. Len(rs) /\ A(i) \in Nat /\ Fits(rs[i], A(i), count)
              /\ A(i) % align = 0
              /\ align = 1 => A(i) = rs[i].start \/ A(i) + count = end_frame(rs[i])
  BY <1>3, <1>5, <1>8, <1>10, Zenon
<1> QED
  BY <1>9, <1>10, Zenon DEF A, i

\* What an allocation of count aligned frames does to a table of which frame 0 is no part.
LEMMA AllocationIs ==
    ASSUME WellOrdered, NEW rs, Sorted(rs), Len(rs) <= CAP, 0 \notin Covered(rs), NEW count \in Nat \ {0},
           NEW align \in Nat \ {0}, NEW high \in BOOLEAN
    PROVE  LET result == allocate_contiguous_aligned(rs, count, align, high)
               f == result.frame
               run == f .. f + count - 1
               Serves(g) == g % align = 0 /\ (g .. g + count - 1) \subseteq Covered(rs)
           IN  /\ Sorted(result.ranges) /\ Len(result.ranges) <= CAP
               /\ \/ /\ f \in Nat \ {0} /\ Serves(f) /\ Covered(result.ranges) = Covered(rs) \ run
                     /\ \A g \in Nat : Serves(g) => IF high THEN g <= f ELSE f <= g
                  \/ /\ f = None /\ result.ranges = rs
                     /\ (\A g \in Nat : ~Serves(g)) \/ (Len(rs) = CAP /\ align > 1)
<1> DEFINE result == allocate_contiguous_aligned(rs, count, align, high)
           i == Chosen(rs, count, align, high)
           a == AlignedIn(rs[i], count, align, high)
           Serves(g) == g % align = 0 /\ (g .. g + count - 1) \subseteq Covered(rs)
<1>1. result = IF i = 0 \/ Len(Cut(rs, i, a, count)) > CAP
               THEN [frame |-> None, ranges |-> rs]
               ELSE [frame |-> a, ranges |-> Cut(rs, i, a, count)]
  BY Zenon DEF allocate_contiguous_aligned, AlignedIn
<1>2. /\ i # 0 => /\ i \in 1 .. Len(rs) /\ a \in Nat /\ Fits(rs[i], a, count) /\ a % align = 0
                  /\ align = 1 => a = rs[i].start \/ a + count = end_frame(rs[i])
      /\ \A f \in Nat : Serves(f) => i # 0 /\ (IF high THEN f <= a ELSE a <= f)
  <2>1. /\ i # 0 => /\ i \in 1 .. Len(rs) /\ a \in Nat /\ Fits(rs[i], a, count)
                    /\ a % align = 0
                    /\ align = 1 => a = rs[i].start \/ a + count = end_frame(rs[i])
        /\ \A f \in Nat : f % align = 0 /\ (f .. f + count - 1) \subseteq Covered(rs)
              => i # 0 /\ (IF high THEN f <= a ELSE a <= f)
    BY ChosenIs, Zenon
  <2> HIDE DEF i, a
  <2> QED
    BY <2>1, Zenon
<1>3. Len(rs) \in Nat /\ CAP \in Nat
  BY CapacityAssumption DEF Sorted
<1> HIDE DEF result, i, a
<1>4. CASE i = 0
  <2>1. result.frame = None /\ result.ranges = rs
    BY <1>1, <1>4, Zenon
  <2>2. \A g \in Nat : ~Serves(g)
    BY <1>2, <1>4, Zenon
  <2> QED
    BY <2>1, <2>2, Zenon DEF result
<1>5. CASE i # 0
  <2> DEFINE new == Cut(rs, i, a, count)
             run == a .. a + count - 1
  <2>1. /\ Sorted(new) /\ Covered(new) = Covered(rs) \ run
        /\ Len(new) \in 0 .. Len(rs) + 1
        /\ (a = rs[i].start \/ a + count = end_frame(rs[i])) => Len(new) <= Len(rs)
    <3>1. i \in 1 .. Len(rs) /\ a \in Nat /\ Fits(rs[i], a, count)
      BY <1>2, <1>5, Zenon
    <3> QED
      BY <3>1, CutKeeps, SMTT(30)
  <2> HIDE DEF new
  <2>2. CASE Len(new) > CAP
    <3>1. result.frame = None /\ result.ranges = rs
      BY <1>1, <2>2, Zenon DEF new
    <3>2. Len(rs) = CAP
      BY <1>3, <2>1, <2>2
    <3>3. align # 1
      BY <1>2, <1>3, <1>5, <2>1, <2>2
    <3>4. align > 1
      BY <3>3
    <3> QED
      BY <3>1, <3>2, <3>4, Zenon DEF result
  <2>3. CASE ~(Len(new) > CAP)
    <3>1. result.frame = a /\ result.ranges = new
      BY <1>1, <1>5, <2>3, Zenon DEF new
    <3>2. Len(new) <= CAP
      BY <1>3, <2>1, <2>3
    <3>3. run \subseteq Covered(rs)
      <4> SUFFICES ASSUME NEW f \in run
                   PROVE  f \in Covered(rs)
        BY Zenon
      <4>1. rs[i] \in Ranges /\ i \in 1 .. Len(rs) /\ a \in Nat
        BY <1>2, <1>5 DEF Sorted
      <4>2. rs[i].start <= a /\ a + count <= end_frame(rs[i])
        BY <1>2, <1>5, Zenon DEF Fits
      <4>3. f \in Nat /\ rs[i].start <= f /\ f < end_frame(rs[i])
        BY <4>1, <4>2, InRange
      <4> QED
        BY <4>1, <4>3, InRange, InCovered, Zenon
    <3>4. a \in run /\ a \in Nat /\ a # 0
      <4>1. a \in Nat /\ a \in run
        BY <1>2, <1>5
      <4> QED
        BY <3>3, <4>1, Zenon
    <3>5. Serves(a)
      BY <1>2, <1>5, <3>3, Zenon
    <3>6. \A g \in Nat : Serves(g) => IF high THEN g <= a ELSE a <= g
      BY <1>2, Zenon
    <3> HIDE DEF Serves
    <3>7. /\ a \in Nat \ {0} /\ Serves(a) /\ Covered(new) = Covered(rs) \ run
          /\ \A g \in Nat : Serves(g) => IF high THEN g <= a ELSE a <= g
          /\ Sorted(new) /\ Len(new) <= CAP
      BY <2>1, <3>2, <3>4, <3>5, <3>6, Zenon
    <3> QED
      BY <3>1, <3>7, Zenon DEF result, Serves
  <2> QED
    BY <2>2, <2>3, Zenon
<1> QED
  BY <1>4, <1>5, Zenon

----------------------------------------------------------------------------
\* The inductive invariant.  While the table is being built nobody has a frame yet, and the
\* free entries still to come overlap neither each other nor what is free already.
Pending ==
    /\ held = {} /\ lost = {}
    /\ \A i \in 1 .. Len(memory_map) :
          /\ FramesOf(memory_map[i]) \subseteq FrameNumbers
          /\ memory_map[i].free => FramesOf(memory_map[i]) \cap Free = {}
    /\ \A i, j \in 1 .. Len(memory_map) :
          i # j /\ memory_map[i].free /\ memory_map[j].free
              => FramesOf(memory_map[i]) \cap FramesOf(memory_map[j]) = {}

IInv ==
    /\ memory_map \in Seq(Entries)
    /\ Sorted(ranges) /\ Len(ranges) <= CAP
    /\ high_first \in BOOLEAN
    /\ Free \cup held \subseteq FrameNumbers
    /\ OneOwnerPerFrame
    /\ phase = "building" => Pending

\* The free frames are those of the table.
LEMMA FreeIs == Free = Covered(ranges) /\ Free' = Covered(ranges')
  BY Zenon DEF Free, Covered

PoolVars == <<Free, held, lost, high_first, answer>>

\* Before the memory map is read nothing is free and nobody has a frame.
LEMMA InitHolds == Init => IInv /\ Pool!Init
<1> SUFFICES ASSUME Init
             PROVE  IInv /\ Pool!Init
  BY Zenon
<1>1. ranges = <<>> /\ Free = {}
  <2>1. ranges = <<>>
    BY Zenon DEF Init
  <2> QED
    BY <2>1, FreeIs, SmallTables, Zenon
<1>2. Sorted(ranges) /\ Len(ranges) <= CAP
  BY <1>1, SmallTables, CapacityAssumption
<1>3. Pending /\ memory_map \in Seq(Entries)
  BY <1>1, MemoryMapsAssumption, Zenon DEF Init, Pending
<1>4. OneOwnerPerFrame /\ Free \cup held \subseteq FrameNumbers /\ high_first \in BOOLEAN
  BY <1>1, Zenon DEF Init, OneOwnerPerFrame
<1>5. IInv
  BY <1>2, <1>3, <1>4, Zenon DEF IInv
<1>6. Pool!Init
  BY <1>1, Zenon DEF Init, Pool!Init
<1> QED
  BY <1>5, <1>6, Zenon

\* The map without its first entry is still one without overlaps.
LEMMA TailIsPending ==
    ASSUME IInv, Pending, memory_map # <<>>
    PROVE  /\ Head(memory_map) \in Entries /\ Tail(memory_map) \in Seq(Entries)
           /\ FramesOf(Head(memory_map)) \subseteq FrameNumbers
           /\ Head(memory_map).free => FramesOf(Head(memory_map)) \cap Free = {}
           /\ \A i \in 1 .. Len(Tail(memory_map)) :
                 /\ FramesOf(Tail(memory_map)[i]) \subseteq FrameNumbers
                 /\ Tail(memory_map)[i].free =>
                       /\ FramesOf(Tail(memory_map)[i]) \cap Free = {}
                       /\ Head(memory_map).free
                             => FramesOf(Tail(memory_map)[i]) \cap FramesOf(Head(memory_map)) = {}
           /\ \A i, j \in 1 .. Len(Tail(memory_map)) :
                 i # j /\ Tail(memory_map)[i].free /\ Tail(memory_map)[j].free
                     => FramesOf(Tail(memory_map)[i]) \cap FramesOf(Tail(memory_map)[j]) = {}
<1> DEFINE m == memory_map
           t == Tail(memory_map)
<1>1. m \in Seq(Entries) /\ Len(m) \in Nat
  BY DEF IInv
<1>2. /\ Head(m) \in Entries /\ t \in Seq(Entries) /\ Len(t) = Len(m) - 1
      /\ \A i \in 1 .. Len(t) : t[i] = m[i + 1]
  BY <1>1
<1>3. Len(m) >= 1 /\ Head(m) = m[1]
  BY <1>1
<1> HIDE DEF t
<1>4. /\ \A i \in 1 .. Len(t) : i + 1 \in 1 .. Len(m) /\ i + 1 # 1
      /\ 1 \in 1 .. Len(m)
      /\ \A i, j \in 1 .. Len(t) : i # j => i + 1 # j + 1
  BY <1>1, <1>2, <1>3
<1>5. /\ FramesOf(Head(m)) \subseteq FrameNumbers
      /\ Head(m).free => FramesOf(Head(m)) \cap Free = {}
  BY <1>3, <1>4, Zenon DEF Pending
<1>6. \A i \in 1 .. Len(t) :
         /\ FramesOf(t[i]) \subseteq FrameNumbers
         /\ t[i].free => FramesOf(t[i]) \cap Free = {}
         /\ t[i].free /\ Head(m).free => FramesOf(t[i]) \cap FramesOf(Head(m)) = {}
  BY <1>2, <1>3, <1>4, ZenonT(60) DEF Pending
<1>7. \A i, j \in 1 .. Len(t) :
         i # j /\ t[i].free /\ t[j].free => FramesOf(t[i]) \cap FramesOf(t[j]) = {}
  BY <1>2, <1>4, Zenon DEF Pending
<1> QED
  BY <1>2, <1>5, <1>6, <1>7, Zenon DEF t

\* build takes one entry of the map: what it inserts belonged to nobody.
LEMMA BuildDoes ==
    ASSUME WellOrdered, IInv, SkipEntry \/ InsertEntry \/ BuildEnds
    PROVE  IInv' /\ (Pool!Contribute \/ UNCHANGED PoolVars)
<1>0. Pending /\ phase = "building" /\ UNCHANGED <<high_first, held, lost, answer>>
  BY Zenon DEF IInv, SkipEntry, InsertEntry, BuildEnds, Building
<1>1. ASSUME ranges' = ranges, memory_map' \in Seq(Entries),
             phase' = "building" => memory_map' = Tail(memory_map) /\ memory_map # <<>>
      PROVE  IInv' /\ UNCHANGED PoolVars
  <2>1. Free' = Free
    BY <1>1, FreeIs, Zenon
  <2>2. phase' = "building" => Pending'
    <3> SUFFICES ASSUME phase' = "building"
                 PROVE  Pending'
      BY Zenon
    <3>1. memory_map' = Tail(memory_map) /\ memory_map # <<>>
      BY <1>1, Zenon
    <3> QED
      BY <1>0, <2>1, <3>1, TailIsPending, Zenon DEF Pending
  <2>3. IInv'
    BY <1>0, <1>1, <2>1, <2>2, Zenon DEF IInv, OneOwnerPerFrame
  <2> QED
    BY <1>0, <2>1, <2>3, Zenon DEF PoolVars
<1>2. CASE SkipEntry
  <2>1. ranges' = ranges /\ memory_map' = Tail(memory_map) /\ memory_map # <<>>
    BY <1>2, Zenon DEF SkipEntry
  <2> QED
    BY <1>0, <1>1, <2>1, TailIsPending, Zenon
<1>3. CASE BuildEnds
  <2>1. ranges' = ranges /\ memory_map' = memory_map /\ phase' = "built"
    BY <1>3, Zenon DEF BuildEnds
  <2>2. memory_map' \in Seq(Entries) /\ phase' # "building"
    BY <2>1, Zenon DEF IInv
  <2> QED
    BY <1>1, <2>1, <2>2, Zenon
<1>4. CASE InsertEntry
  <2> DEFINE entry == Head(memory_map)
             range == WithoutNullPage(entry)
             run == range.start .. range.start + range.count - 1
  <2>1. memory_map # <<>> /\ entry.free /\ entry.count > 0
    BY <1>4, Zenon DEF InsertEntry
  <2>2. entry \in Entries /\ FramesOf(entry) \subseteq FrameNumbers /\ FramesOf(entry) \cap Free = {}
    BY <1>0, <2>1, TailIsPending, Zenon
  <2>3. /\ range.start \in Nat \ {0} /\ range.count \in Nat
        /\ range.start = IF entry.start = 0 THEN 1 ELSE entry.start
        /\ range.count = IF entry.start = 0 THEN entry.count - 1 ELSE entry.count
    BY <2>1, <2>2 DEF WithoutNullPage, FrameRange, Entries
  <2>4. run \subseteq FramesOf(entry) /\ 0 \notin run
    BY <2>1, <2>2, <2>3 DEF FramesOf, Entries
  <2>5. CASE CapacityExceeded(ranges, range.start, range.count)
    <3>1. phase' = "failed" /\ memory_map' = memory_map /\ ranges' = ranges
      BY <1>4, <2>5, Zenon DEF InsertEntry
    <3>2. memory_map' \in Seq(Entries) /\ phase' # "building"
      BY <3>1, Zenon DEF IInv
    <3> QED
      BY <1>1, <3>1, <3>2, Zenon
  <2>6. CASE ~CapacityExceeded(ranges, range.start, range.count)
    <3>1. /\ ranges' = insert_free_range(ranges, range.start, range.count)
          /\ memory_map' = Tail(memory_map) /\ phase' = "building"
      BY <1>0, <1>4, <2>6, Zenon DEF InsertEntry
    <3>2. /\ Sorted(ranges') /\ Len(ranges') <= CAP
          /\ Covered(ranges') = Covered(ranges) \cup run
      <4>1. Sorted(ranges) /\ Len(ranges) <= CAP
        BY Zenon DEF IInv
      <4>2. run \cap Covered(ranges) = {}
        BY <2>2, <2>4, FreeIs, Zenon
      <4> HIDE DEF range
      <4> QED
        BY <2>3, <2>6, <3>1, <4>1, <4>2, InsertKeeps, ZenonT(60)
    <3>3. Free' = Free \cup run
      BY <3>2, FreeIs, Zenon
    <3> HIDE DEF run, entry
    <3>4. Pending'
      <4> DEFINE t == Tail(memory_map)
      <4>1. /\ \A i \in 1 .. Len(t) : /\ FramesOf(t[i]) \subseteq FrameNumbers
                                      /\ t[i].free => FramesOf(t[i]) \cap (Free \cup run) = {}
            /\ \A i, j \in 1 .. Len(t) :
                  i # j /\ t[i].free /\ t[j].free => FramesOf(t[i]) \cap FramesOf(t[j]) = {}
        BY <1>0, <2>1, <2>4, TailIsPending, Zenon DEF entry
      <4> HIDE DEF t
      <4>2. memory_map' = t /\ held' = {} /\ lost' = {}
        BY <1>0, <3>1, Zenon DEF t, Pending
      <4> QED
        BY <3>3, <4>1, <4>2, Zenon DEF Pending
    <3>5. OneOwnerPerFrame'
      BY <1>0, <2>4, <3>3, Zenon DEF OneOwnerPerFrame, IInv, Pending
    <3>6. Free' \cup held' \subseteq FrameNumbers
      BY <1>0, <2>2, <2>4, <3>3, Zenon DEF IInv
    <3>7. memory_map' \in Seq(Entries)
      BY <1>0, <2>1, <3>1, TailIsPending, Zenon
    <3>8. IInv'
      BY <1>0, <3>1, <3>2, <3>4, <3>5, <3>6, <3>7, Zenon DEF IInv
    <3>9. Pool!Contribute
      BY <1>0, <3>3, <3>5, Zenon DEF Pool!Contribute, Pending, OneOwnerPerFrame
    <3> QED
      BY <3>8, <3>9, Zenon
  <2> QED
    BY <2>5, <2>6, Zenon
<1> QED
  BY <1>2, <1>3, <1>4, Zenon

\* An allocation takes the lowest (highest) run that fits, or fails as FramePool allows it.
LEMMA AllocatedDoes ==
    ASSUME WellOrdered, IInv, NEW count \in Nat \ {0}, NEW align \in Nat \ {0}, Allocated(count, align)
    PROVE  IInv' /\ Pool!Allocate(count, align)
<1> DEFINE result == allocate_contiguous_aligned(ranges, count, align, high_first)
           f == result.frame
           run == f .. f + count - 1
           Serves(g) == g % align = 0 /\ (g .. g + count - 1) \subseteq Free
           F == {g \in FrameNumbers : Serves(g)}
<1>1. /\ phase = "built" /\ answer' = f /\ ranges' = result.ranges
      /\ held' = IF f = None THEN held ELSE held \cup run
      /\ memory_map' = memory_map /\ phase' = phase /\ high_first' = high_first /\ lost' = lost
  BY Zenon DEF Allocated
<1>2. /\ Sorted(result.ranges) /\ Len(result.ranges) <= CAP
      /\ \/ /\ f \in Nat \ {0} /\ Serves(f) /\ Covered(result.ranges) = Free \ run
            /\ \A g \in Nat : Serves(g) => IF high_first THEN g <= f ELSE f <= g
         \/ /\ f = None /\ result.ranges = ranges
            /\ (\A g \in Nat : ~Serves(g)) \/ (Len(ranges) = CAP /\ align > 1)
  <2>1. Sorted(ranges) /\ Len(ranges) <= CAP /\ high_first \in BOOLEAN /\ 0 \notin Covered(ranges)
    BY FreeIs, Zenon DEF IInv, OneOwnerPerFrame
  <2>2. /\ Sorted(result.ranges) /\ Len(result.ranges) <= CAP
        /\ \/ /\ f \in Nat \ {0} /\ f % align = 0 /\ (f .. f + count - 1) \subseteq Covered(ranges)
              /\ Covered(result.ranges) = Covered(ranges) \ run
              /\ \A g \in Nat : g % align = 0 /\ (g .. g + count - 1) \subseteq Covered(ranges)
                     => IF high_first THEN g <= f ELSE f <= g
           \/ /\ f = None /\ result.ranges = ranges
              /\ \/ \A g \in Nat : ~(g % align = 0 /\ (g .. g + count - 1) \subseteq Covered(ranges))
                 \/ Len(ranges) = CAP /\ align > 1
    BY <2>1, AllocationIs, Zenon
  <2> HIDE DEF result
  <2> QED
    BY <2>2, FreeIs, Zenon
<1>3. Pool!Fitting(count, align) = F /\ Pool!Run(f, count) = run
  BY Zenon DEF Pool!Fitting, Pool!Run
<1>4. F \in SUBSET Nat /\ \A g \in F : g \in Nat /\ Serves(g)
  BY MemoryMapsAssumption, Zenon
<1> HIDE DEF result, f
<1>5. CASE f = None /\ result.ranges = ranges
           /\ ((\A g \in Nat : ~Serves(g)) \/ (Len(ranges) = CAP /\ align > 1))
  <2>1. ranges' = ranges /\ held' = held /\ answer' = None
    BY <1>1, <1>5, Zenon
  <2>2. Free' = Free
    BY <2>1, FreeIs, Zenon
  <2>3. IInv'
    BY <1>1, <2>1, <2>2, Zenon DEF IInv, OneOwnerPerFrame
  <2> HIDE DEF Serves
  <2>4. F = {} \/ (Len(ranges) = CAP /\ align > 1)
    BY <1>4, <1>5, Zenon
  <2> HIDE DEF F
  <2>5. Pool!Allocate(count, align)
    BY <1>1, <1>3, <2>1, <2>2, <2>4, Zenon DEF Pool!Allocate
  <2> QED
    BY <2>3, <2>5, Zenon
<1>6. CASE /\ f \in Nat \ {0} /\ Serves(f) /\ Covered(result.ranges) = Free \ run
           /\ \A g \in Nat : Serves(g) => IF high_first THEN g <= f ELSE f <= g
  <2>1. held' = held \cup run /\ answer' = f
    BY <1>1, <1>6, Zenon DEF None
  <2>2. Free' = Free \ run
    BY <1>1, <1>6, FreeIs, Zenon
  <2>3. run \subseteq Free /\ f \in run
    BY <1>6
  <2>4. IInv'
    <3> HIDE DEF run
    <3>1. OneOwnerPerFrame' /\ Free' \cup held' \subseteq FrameNumbers
      BY <1>1, <2>1, <2>2, <2>3, Zenon DEF IInv, OneOwnerPerFrame
    <3> QED
      BY <1>1, <1>2, <3>1, Zenon DEF IInv
  <2>5. f \in F
    BY <1>6, <2>3, Zenon DEF IInv
  <2> HIDE DEF Serves, F, run
  <2>6. f = IF high_first THEN Max(F) ELSE Min(F)
    <3>1. CASE high_first
      <4>1. \A g \in F : g <= f
        BY <1>4, <1>6, <3>1, Zenon
      <4> QED
        BY <1>4, <2>5, <3>1, <4>1, BoundsAre, Zenon
    <3>2. CASE ~high_first
      <4>1. \A g \in F : f <= g
        BY <1>4, <1>6, <3>2, Zenon
      <4> QED
        BY <1>4, <2>5, <3>2, <4>1, BoundsAre, Zenon
    <3> QED
      BY <3>1, <3>2, Zenon
  <2>7. Pool!Allocate(count, align)
    <3>1. F # {} /\ lost' = lost /\ high_first' = high_first
      BY <1>1, <2>5, Zenon
    <3>2. Pool!Run(answer', count) = run
      BY <1>3, <2>1, Zenon
    <3>3. /\ F # {} /\ answer' = IF high_first THEN Max(F) ELSE Min(F)
          /\ Free' = Free \ Pool!Run(answer', count)
          /\ held' = held \cup Pool!Run(answer', count)
      BY <2>1, <2>2, <2>6, <3>1, <3>2, Zenon
    <3>4. Pool!Max(F) = Max(F) /\ Pool!Min(F) = Min(F)
      BY Zenon DEF Pool!Max, Pool!Min, Max, Min
    <3> QED
      BY <1>3, <3>1, <3>3, <3>4, Zenon DEF Pool!Allocate
  <2> QED
    BY <2>4, <2>7, Zenon
<1> QED
  BY <1>2, <1>5, <1>6, Zenon

\* A frame is refused only if the table is full and neither neighbour of the frame is free.
LEMMA RefusedIsAlone ==
    ASSUME WellOrdered, NEW rs, Sorted(rs), Len(rs) <= CAP, NEW f \in Nat \ {0}, f \notin Covered(rs),
           CapacityExceeded(rs, f, 1)
    PROVE  Len(rs) = CAP /\ f - 1 \notin Covered(rs) /\ f + 1 \notin Covered(rs)
<1> DEFINE at == Position(rs, f)
           touches == Touches(rs, f, 1)
           previous == at > 1 /\ end_frame(rs[at - 1]) >= f
           next == at <= Len(rs) /\ f + 1 >= rs[at].start
<1>1. touches.previous = previous /\ touches.next = next
  BY Zenon DEF Touches
<1>2. ~touches.previous /\ ~touches.next /\ Len(rs) >= CAP
  BY Zenon DEF CapacityExceeded
<1>3. /\ at \in 1 .. Len(rs) + 1
      /\ \A k \in 1 .. at - 1 : rs[k].start <= f
      /\ \A k \in at .. Len(rs) : rs[k].start > f
  BY PositionIs, Zenon
<1>4. Len(rs) \in Nat /\ \A k \in 1 .. Len(rs) : rs[k] \in Ranges
  BY SMTT(30) DEF Sorted
<1>5. \A k \in 1 .. Len(rs) : /\ rs[k].start \in Nat /\ end_frame(rs[k]) \in Nat
                              /\ rs[k].start < end_frame(rs[k])
  BY <1>4, InRange, Zenon
<1>6. ~previous /\ ~next
  BY <1>1, <1>2, Zenon
<1> HIDE DEF at
<1>7. Len(rs) = CAP
  BY <1>2, <1>4, CapacityAssumption
<1>8. \A k \in 1 .. Len(rs) : end_frame(rs[k]) <= f \/ f < rs[k].start
  <2> SUFFICES ASSUME NEW k \in 1 .. Len(rs)
               PROVE  end_frame(rs[k]) <= f \/ f < rs[k].start
    BY Zenon
  <2>1. f \notin FramesOf(rs[k])
    BY InCovered, Zenon
  <2> QED
    <3>1. PICK r \in Ranges : r = rs[k]
      BY <1>4, Zenon
    <3>2. PICK x \in Nat, y \in Nat : x = r.start /\ y = end_frame(r)
      BY InRange, Zenon
    <3>3. ~(x <= f /\ f < y)
      BY <2>1, <3>1, <3>2, InRange, Zenon
    <3>4. y <= f \/ f < x
      BY <3>3
    <3> QED
      BY <3>1, <3>2, <3>4, Zenon
<1>9. ASSUME NEW k \in 1 .. Len(rs), f - 1 \in FramesOf(rs[k])
      PROVE  FALSE
  <2>1. rs[k].start <= f - 1 /\ f - 1 < end_frame(rs[k])
    BY <1>4, <1>9, InRange, Zenon
  <2>2. end_frame(rs[k]) = f
    BY <1>5, <1>8, <2>1, SMTT(30)
  <2>3. k \in 1 .. at - 1 /\ at - 1 \in 1 .. Len(rs) /\ at > 1
    BY <1>3, <1>4, <1>5, <2>1
  <2>4. CASE k = at - 1
    BY <1>6, <2>2, <2>3, <2>4
  <2>5. CASE k # at - 1
    <3>1. end_frame(rs[k]) < rs[at - 1].start
      BY <2>3, <2>5 DEF Sorted
    <3>2. rs[at - 1].start <= f
      BY <1>3, <2>3
    <3> QED
      BY <1>5, <2>2, <2>3, <3>1, <3>2
  <2> QED
    BY <2>4, <2>5, Zenon
<1>10. ASSUME NEW k \in 1 .. Len(rs), f + 1 \in FramesOf(rs[k])
       PROVE  FALSE
  <2>1. rs[k].start <= f + 1 /\ f + 1 < end_frame(rs[k])
    BY <1>4, <1>10, InRange, Zenon
  <2>2. rs[k].start = f + 1
    BY <1>5, <1>8, <2>1, SMTT(30)
  <2>3. k \in at .. Len(rs) /\ at \in 1 .. Len(rs)
    <3>1. ~(k \in 1 .. at - 1)
      BY <1>3, <2>2
    <3> QED
      BY <1>3, <1>4, <3>1
  <2>4. CASE k = at
    BY <1>6, <2>2, <2>3, <2>4, SMTT(30)
  <2>5. CASE k # at
    <3>1. end_frame(rs[at]) < rs[k].start
      BY <2>3, <2>5 DEF Sorted
    <3>2. rs[at].start > f
      BY <1>3, <2>3
    <3> QED
      BY <1>5, <2>2, <2>3, <3>1, <3>2, SMTT(30)
  <2> QED
    BY <2>4, <2>5, Zenon
<1> QED
  BY <1>7, <1>9, <1>10, InCovered, Zenon

\* Giving a frame back makes it free, or loses it as FramePool allows it.
LEMMA ReturnedDoes ==
    ASSUME WellOrdered, IInv, NEW frame \in held, DeallocateFrame(frame) \/ ReleaseRetired(frame)
    PROVE  IInv' /\ Pool!Return(frame)
<1>1. /\ phase = "built" /\ held' = held \ {frame} /\ ranges' = insert_free_range(ranges, frame, 1)
      /\ memory_map' = memory_map /\ phase' = phase /\ high_first' = high_first /\ answer' = answer
      /\ lost' = IF CapacityExceeded(ranges, frame, 1) THEN lost \cup {frame} ELSE lost
  BY Zenon DEF DeallocateFrame, ReleaseRetired
<1>2. frame \in FrameNumbers /\ frame \in Nat \ {0} /\ frame \notin Free /\ frame \notin lost
  BY MemoryMapsAssumption, Zenon DEF IInv, OneOwnerPerFrame
<1>3. Sorted(ranges) /\ Len(ranges) <= CAP /\ frame \notin Covered(ranges)
  BY <1>2, FreeIs, Zenon DEF IInv
<1>4. CASE CapacityExceeded(ranges, frame, 1)
  <2>1. ranges' = ranges
    BY <1>1, <1>4, Zenon DEF insert_free_range
  <2>2. Free' = Free
    BY <2>1, FreeIs, Zenon
  <2>3. IInv'
    BY <1>1, <1>2, <1>4, <2>1, <2>2, Zenon DEF IInv, OneOwnerPerFrame
  <2>4. Len(ranges) = CAP /\ {frame - 1, frame + 1} \cap Free = {}
    <3>1. Len(ranges) = CAP /\ frame - 1 \notin Covered(ranges) /\ frame + 1 \notin Covered(ranges)
      BY <1>2, <1>3, <1>4, RefusedIsAlone, Zenon
    <3> QED
      BY <3>1, FreeIs, Zenon
  <2>5. Pool!Return(frame)
    BY <1>1, <1>4, <2>2, <2>4, Zenon DEF Pool!Return
  <2> QED
    BY <2>3, <2>5, Zenon
<1>5. CASE ~CapacityExceeded(ranges, frame, 1)
  <2>1. frame .. frame + 1 - 1 = {frame}
    BY <1>2
  <2>2. /\ Sorted(ranges') /\ Len(ranges') <= CAP
        /\ Covered(ranges') = Covered(ranges) \cup (frame .. frame + 1 - 1)
    <3>1. (frame .. frame + 1 - 1) \cap Covered(ranges) = {}
      BY <1>3, <2>1, Zenon
    <3>2. frame \in Nat /\ 1 \in Nat
      BY <1>2, Zenon
    <3> QED
      BY <1>1, <1>3, <1>5, <3>1, <3>2, InsertKeeps, Zenon
  <2>3. Free' = Free \cup {frame}
    BY <2>1, <2>2, FreeIs, Zenon
  <2>4. OneOwnerPerFrame' /\ Free' \cup held' \subseteq FrameNumbers
    BY <1>1, <1>2, <1>5, <2>3, Zenon DEF IInv, OneOwnerPerFrame
  <2>5. IInv'
    BY <1>1, <2>2, <2>4, Zenon DEF IInv
  <2>6. Pool!Return(frame)
    BY <1>1, <1>5, <2>3, Zenon DEF Pool!Return
  <2> QED
    BY <2>5, <2>6, Zenon
<1> QED
  BY <1>4, <1>5, Zenon

----------------------------------------------------------------------------
\* So does every step.
LEMMA StepDoes == WellOrdered /\ IInv /\ [Next]_vars => IInv' /\ [Pool!Next]_PoolVars
<1> SUFFICES ASSUME WellOrdered, IInv, [Next]_vars
             PROVE  IInv' /\ (Pool!Next \/ UNCHANGED PoolVars)
  BY Zenon
<1>1. CASE SkipEntry \/ InsertEntry \/ BuildEnds
  BY <1>1, BuildDoes, Zenon DEF Pool!Next
<1>2. ASSUME NEW count \in Counts \cup {1}, NEW align \in Alignments \cup {1}, Allocated(count, align)
      PROVE  IInv' /\ Pool!Next
  <2>1. count \in Nat \ {0} /\ align \in Nat \ {0}
    BY RequestsAssumption
  <2>2. IInv' /\ Pool!Allocate(count, align)
    BY <1>2, <2>1, AllocatedDoes, Zenon
  <2> QED
    BY <2>2, Zenon DEF Pool!Next
<1>3. CASE AllocateFrame
  BY <1>2, <1>3, Zenon DEF AllocateFrame
<1>4. CASE \E count \in Counts : AllocateContiguous(count)
  BY <1>2, <1>4, Zenon DEF AllocateContiguous
<1>5. CASE \E count \in Counts, align \in Alignments : AllocateContiguousAligned(count, align)
  BY <1>2, <1>5, Zenon DEF AllocateContiguousAligned
<1>6. CASE \E frame \in held : DeallocateFrame(frame) \/ ReleaseRetired(frame)
  BY <1>6, ReturnedDoes, Zenon DEF Pool!Next
<1>7. CASE HandOutHighFirstFromNow
  <2>1. /\ high_first' = TRUE /\ ~high_first /\ phase = "built"
        /\ UNCHANGED <<memory_map, phase, ranges, held, lost, answer>>
    BY <1>7, Zenon DEF HandOutHighFirstFromNow
  <2>2. Free' = Free
    BY <2>1, FreeIs, Zenon
  <2>3. IInv'
    BY <2>1, <2>2, Zenon DEF IInv, OneOwnerPerFrame
  <2>4. Pool!HandOutHighFirst
    BY <2>1, <2>2, Zenon DEF Pool!HandOutHighFirst
  <2> QED
    BY <2>3, <2>4, Zenon DEF Pool!Next
<1>8. CASE UNCHANGED vars
  <2>1. UNCHANGED <<memory_map, phase, ranges, high_first, held, lost, answer>>
    BY <1>8, Zenon DEF vars
  <2>2. Free' = Free
    BY <2>1, FreeIs, Zenon
  <2>3. IInv'
    BY <2>1, <2>2, Zenon DEF IInv, OneOwnerPerFrame, Pending
  <2> QED
    BY <2>1, <2>2, <2>3, Zenon DEF PoolVars
<1> QED
  BY <1>1, <1>3, <1>4, <1>5, <1>6, <1>7, <1>8, Zenon DEF Next

----------------------------------------------------------------------------
LOCAL INSTANCE NaturalsInduction
LOCAL INSTANCE WellFoundedInduction

\* The least number of a set is the one that none of its members is below.
LEMMA NumbersAreWellOrdered == WellOrdered
<1> SUFFICES ASSUME NEW S \in SUBSET Nat, S # {}
             PROVE  \E x \in S : \A y \in S : x <= y
  BY Zenon DEF WellOrdered
<1> DEFINE Below == OpToRel(<, Nat)
<1>1. IsWellFoundedOn(Below, Nat)
  BY NatLessThanWellFounded, Zenon
<1>2. \A x, y \in Nat : x < y => <<x, y>> \in Below
  BY Zenon DEF OpToRel
<1> HIDE DEF Below
<1>3. PICK x \in S : \A y \in S : ~(<<y, x>> \in Below)
  BY <1>1, WFMin, Zenon
<1>4. ASSUME NEW y \in S
      PROVE  x <= y
  <2>1. x \in Nat /\ y \in Nat
    BY Zenon
  <2>2. ~(y < x)
    BY <1>2, <1>3, <2>1, Zenon
  <2> QED
    BY <2>1, <2>2
<1> QED
  BY <1>3, <1>4, Zenon

\* Every step keeps the invariant and is a step of FramePool.
LEMMA StepHolds == IInv /\ [Next]_vars => IInv' /\ [Pool!Next]_PoolVars
  BY StepDoes, NumbersAreWellOrdered, Zenon

\* The table stays sorted, merged and within its capacity, whatever is allocated and given back.
THEOREM RangesStayMerged == Spec => []RangesAreMerged
<1>1. IInv => RangesAreMerged
  <2> SUFFICES ASSUME IInv
               PROVE  RangesAreMerged
    BY Zenon
  <2>1. Sorted(ranges) /\ Len(ranges) <= CAP /\ Len(ranges) \in Nat
        /\ \A i \in 1 .. Len(ranges) : ranges[i] \in Ranges
    BY DEF IInv, Sorted
  <2>2. \A i \in 1 .. Len(ranges) : ranges[i].count > 0
    BY <2>1, InRange, Zenon
  <2>3. \A i \in 1 .. Len(ranges) - 1 : end_frame(ranges[i]) < ranges[i + 1].start
    BY <2>1 DEF Sorted
  <2> QED
    BY <2>1, <2>2, <2>3, Zenon DEF RangesAreMerged
<1> QED
  BY <1>1, InitHolds, StepHolds, PTL DEF Spec

\* No frame has two owners: allocate answers only frames that nobody has, and a return makes
\* free only a frame that its caller had.
THEOREM FramesHaveOneOwner == Spec => []OneOwnerPerFrame
<1>1. IInv => OneOwnerPerFrame
  BY Zenon DEF IInv
<1> QED
  BY <1>1, InitHolds, StepHolds, PTL DEF Spec

\* The range table implements the set of free frames: the searches over sorted ranges find the
\* lowest (highest) run there is, and refuse only what FramePool lets them refuse.
THEOREM ImplementsFramePool == Spec => PoolOK
  BY InitHolds, StepHolds, PTL DEF Spec, PoolOK, Pool!Spec, PoolVars
=============================================================================
