------------------------- MODULE UploadProofs -------------------------
(***************************************************************************)
(* What is true of every upload, whatever the sizes of the buffers, the    *)
(* target, the client and the file: first what every step of the binary    *)
(* file layer preserves whatever the format (the types, the tiling of the  *)
(* decoded ring by the write chunks, the bounds of the chunks the target   *)
(* owns, what is erased), then what the binary format adds, and last what  *)
(* the Intel HEX format does: every byte reaches the address its line      *)
(* gives.  NordicProofs goes on with the third format.                     *)
(*                                                                         *)
(* The layer has a case for each format, so that the modules of the three  *)
(* are here; the assumption each makes about its files is cited only by    *)
(* the theorems about its own specification, and the empty set of files    *)
(* satisfies it.                                                           *)
(***************************************************************************)
EXTENDS BinaryImage, IhexImage, NordicSpi, TLAPS, SequenceTheorems

-----------------------------------------------------------------------------
(* What the ring arithmetic of include/dfu-internal.h computes, for every  *)
(* size: indices stay in the ring, nothing that is counted wraps past the  *)
(* end of the array, and moving an index moves the counts with it.         *)

\* An index reduced by Mask() is a slot of the ring.
LEMMA MaskInRing ==
  ASSUME NEW size \in Nat \ {0}, NEW x \in Int
  PROVE  Mask(x, size) \in 0 .. size - 1
BY DEF Mask

\* Mask() leaves a slot alone, and takes back at most one lap.
LEMMA MaskOneLap ==
  ASSUME NEW size \in Nat \ {0}, NEW x \in -size .. 2 * size - 1
  PROVE  Mask(x, size) = IF x < 0 THEN x + size
                         ELSE IF x < size THEN x ELSE x - size
<1>1. CASE x < 0
  <2>1. x + size \in 0 .. size - 1
    BY <1>1
  <2>2. x % size = x + size
    BY <1>1, <2>1
  <2> QED
    BY <1>1, <2>2 DEF Mask
<1>2. CASE 0 <= x /\ x < size
  BY <1>2 DEF Mask
<1>3. CASE size <= x
  <2>1. x - size \in 0 .. size - 1
    BY <1>3
  <2>2. x % size = x - size
    BY <1>3, <2>1
  <2> QED
    BY <1>3, <2>2 DEF Mask
<1> QED
  BY <1>1, <1>2, <1>3

\* _count() is the distance from tail to head.
LEMMA CountIsDistance ==
  ASSUME NEW size \in Nat \ {0}, NEW h \in 0 .. size - 1, NEW t \in 0 .. size - 1
  PROVE  /\ RingCount(h, t, size) = IF t <= h THEN h - t ELSE h - t + size
         /\ RingCount(h, t, size) \in 0 .. size - 1
<1>1. h - t \in -size .. 2 * size - 1
  OBVIOUS
<1> QED
  BY <1>1, MaskOneLap DEF RingCount

\* _count() and _space() share out all the slots but one.
LEMMA CountPlusSpace ==
  ASSUME NEW size \in Nat \ {0}, NEW h \in 0 .. size - 1, NEW t \in 0 .. size - 1
  PROVE  /\ RingCount(h, t, size) + RingSpace(h, t, size) = size - 1
         /\ RingSpace(h, t, size) \in 0 .. size - 1
<1>1. t - (h + 1) \in -size .. 2 * size - 1
  OBVIOUS
<1>2. RingSpace(h, t, size) = IF t < h + 1 THEN t - (h + 1) + size ELSE t - (h + 1)
  BY <1>1, MaskOneLap DEF RingSpace
<1> QED
  BY <1>2, CountIsDistance

\* _space_to_end() never exceeds _space(), nor the end of the array, and is
\* not zero unless the ring is full.
LEMMA SpaceToEndFits ==
  ASSUME NEW size \in Nat \ {0}, NEW h \in 0 .. size - 1, NEW t \in 0 .. size - 1
  PROVE  /\ RingSpaceToEnd(h, t, size) \in Nat
         /\ RingSpaceToEnd(h, t, size) <= RingSpace(h, t, size)
         /\ h + RingSpaceToEnd(h, t, size) <= size
         /\ RingSpace(h, t, size) > 0 => RingSpaceToEnd(h, t, size) > 0
<1> DEFINE end == size - 1 - h
<1>1. end + t \in -size .. 2 * size - 1
  OBVIOUS
<1>2. t - (h + 1) \in -size .. 2 * size - 1
  OBVIOUS
<1>3. Mask(end + t, size) = IF end + t < size THEN end + t ELSE end + t - size
  BY <1>1, MaskOneLap
<1>4. RingSpace(h, t, size) = IF t < h + 1 THEN t - (h + 1) + size ELSE t - (h + 1)
  BY <1>2, MaskOneLap DEF RingSpace
<1>5. RingSpaceToEnd(h, t, size) = IF Mask(end + t, size) <= end
                                   THEN Mask(end + t, size) ELSE end + 1
  BY DEF RingSpaceToEnd
<1> QED
  BY <1>3, <1>4, <1>5

\* _count_to_end() never exceeds _count(), nor the end of the array.
LEMMA CountToEndFits ==
  ASSUME NEW size \in Nat \ {0}, NEW h \in 0 .. size - 1, NEW t \in 0 .. size - 1
  PROVE  /\ RingCountToEnd(h, t, size) \in Nat
         /\ RingCountToEnd(h, t, size) <= RingCount(h, t, size)
         /\ t + RingCountToEnd(h, t, size) <= size
<1> DEFINE end == size - t
<1>1. h + end \in -size .. 2 * size - 1
  OBVIOUS
<1>2. Mask(h + end, size) = IF h + end < size THEN h + end ELSE h + end - size
  BY <1>1, MaskOneLap
<1>3. RingCountToEnd(h, t, size) = IF Mask(h + end, size) < end
                                   THEN Mask(h + end, size) ELSE end
  BY DEF RingCountToEnd
<1>4. RingCount(h, t, size) = IF t <= h THEN h - t ELSE h - t + size
  BY CountIsDistance
<1> QED
  BY <1>2, <1>3, <1>4

\* Filling n free slots adds n to the count.
LEMMA CountAfterFilling ==
  ASSUME NEW size \in Nat \ {0}, NEW h \in 0 .. size - 1, NEW t \in 0 .. size - 1,
         NEW n \in Nat, RingCount(h, t, size) + n <= size - 1
  PROVE  RingCount(Mask(h + n, size), t, size) = RingCount(h, t, size) + n
<1>1. n <= size - 1
  BY CountIsDistance
<1>2. h + n \in -size .. 2 * size - 1
  BY <1>1
<1>3. Mask(h + n, size) = IF h + n < size THEN h + n ELSE h + n - size
  BY <1>2, MaskOneLap
<1>4. Mask(h + n, size) \in 0 .. size - 1
  BY MaskInRing
<1>5. RingCount(h, t, size) = IF t <= h THEN h - t ELSE h - t + size
  BY CountIsDistance
<1>6. RingCount(Mask(h + n, size), t, size) =
        IF t <= Mask(h + n, size) THEN Mask(h + n, size) - t
        ELSE Mask(h + n, size) - t + size
  BY <1>4, CountIsDistance
<1> QED
  BY <1>3, <1>5, <1>6

\* Freeing the first n used slots takes n from the count.
LEMMA CountAfterFreeing ==
  ASSUME NEW size \in Nat \ {0}, NEW h \in 0 .. size - 1, NEW t \in 0 .. size - 1,
         NEW n \in Nat, n <= RingCount(h, t, size)
  PROVE  RingCount(h, Mask(t + n, size), size) = RingCount(h, t, size) - n
<1>1. n <= size - 1
  BY CountIsDistance
<1>2. t + n \in -size .. 2 * size - 1
  BY <1>1
<1>3. Mask(t + n, size) = IF t + n < size THEN t + n ELSE t + n - size
  BY <1>2, MaskOneLap
<1>4. Mask(t + n, size) \in 0 .. size - 1
  BY MaskInRing
<1>5. RingCount(h, t, size) = IF t <= h THEN h - t ELSE h - t + size
  BY CountIsDistance
<1>6. RingCount(h, Mask(t + n, size), size) =
        IF Mask(t + n, size) <= h THEN h - Mask(t + n, size)
        ELSE h - Mask(t + n, size) + size
  BY <1>4, CountIsDistance
<1> QED
  BY <1>3, <1>5, <1>6

\* Positions that are whole laps apart have the same slot.
LEMMA MaskLaps ==
  ASSUME NEW size \in Nat \ {0}, NEW q \in Int, NEW r \in 0 .. size - 1
  PROVE  Mask(size * q + r, size) = r
<1> DEFINE x == size * q + r
           d == x \div size
<1>1. x \in Int
  OBVIOUS
<1> HIDE DEF x
<1>2. x = size * d + (x % size) /\ x % size \in 0 .. size - 1 /\ d \in Int
  BY <1>1
<1> HIDE DEF d
<1>3. size * d + (x % size) = size * q + r
  BY <1>2 DEF x
<1>4. ~(d < q)
  <2> SUFFICES ASSUME d + 1 <= q PROVE FALSE
    BY <1>2
  <2>1. size * (d + 1) <= size * q
    BY <1>2
  <2> QED
    BY <1>2, <1>3, <2>1
<1>5. ~(q < d)
  <2> SUFFICES ASSUME q + 1 <= d PROVE FALSE
    BY <1>2
  <2>1. size * (q + 1) <= size * d
    BY <1>2
  <2> QED
    BY <1>2, <1>3, <2>1
<1>6. d = q
  BY <1>2, <1>4, <1>5
<1> QED
  BY <1>2, <1>3, <1>6 DEF x, Mask

\* The slot n positions after a position.
LEMMA MaskSlides ==
  ASSUME NEW size \in Nat \ {0}, NEW x \in Nat, NEW n \in Nat
  PROVE  Mask(Mask(x, size) + n, size) = Mask(x + n, size)
<1> DEFINE p == x \div size
           r == x % size
           m == (r + n) \div size
           s == (r + n) % size
<1>1. x = size * p + r /\ p \in Int /\ r \in 0 .. size - 1
  OBVIOUS
<1>2. r + n = size * m + s /\ m \in Int /\ s \in 0 .. size - 1
  <2> HIDE DEF r
  <2>1. r + n \in Int
    BY <1>1
  <2> QED
    BY <2>1
<1>3. Mask(Mask(x, size) + n, size) = s
  BY DEF Mask
<1> HIDE DEF p, r, m, s
<1>4. x + n = size * (p + m) + s
  BY <1>1, <1>2
<1>5. p + m \in Int
  BY <1>1, <1>2
<1>6. Mask(x + n, size) = s
  BY <1>2, <1>4, <1>5, MaskLaps
<1> QED
  BY <1>3, <1>6

\* Less than a lap apart, positions have slots of their own.
LEMMA MaskApart ==
  ASSUME NEW size \in Nat \ {0}, NEW x \in Nat, NEW n \in 1 .. size - 1
  PROVE  Mask(x + n, size) # Mask(x, size)
<1>1. Mask(x, size) \in 0 .. size - 1
  BY MaskInRing
<1>2. Mask(x + n, size) = Mask(Mask(x, size) + n, size)
  BY MaskSlides
<1>3. Mask(x, size) + n \in -size .. 2 * size - 1
  BY <1>1
<1> QED
  BY <1>1, <1>2, <1>3, MaskOneLap

\* The same, whichever comes first.
LEMMA SlotsApart ==
  ASSUME NEW size \in Nat \ {0}, NEW x \in Nat, NEW y \in Nat,
         x # y, x < y + size, y < x + size
  PROVE  Mask(x, size) # Mask(y, size)
<1>1. CASE x < y
  <2>1. y - x \in 1 .. size - 1 /\ y = x + (y - x)
    BY <1>1
  <2> QED
    BY <2>1, MaskApart
<1>2. CASE y < x
  <2>1. x - y \in 1 .. size - 1 /\ x = y + (x - y)
    BY <1>2
  <2> QED
    BY <2>1, MaskApart
<1> QED
  BY <1>1, <1>2

\* Up to the end of the array, slots follow one another.
LEMMA MaskStraight ==
  ASSUME NEW size \in Nat \ {0}, NEW x \in Nat, NEW n \in Nat,
         Mask(x, size) + n < size
  PROVE  Mask(x + n, size) = Mask(x, size) + n
<1>1. Mask(x, size) \in 0 .. size - 1
  BY MaskInRing
<1>2. Mask(x, size) + n \in -size .. 2 * size - 1
  BY <1>1
<1> QED
  BY <1>1, <1>2, MaskSlides, MaskOneLap

\* What does not fit before the end of the array goes to its beginning.
LEMMA SpaceToEndThenWraps ==
  ASSUME NEW size \in Nat \ {0}, NEW h \in 0 .. size - 1, NEW t \in 0 .. size - 1
  PROVE  \/ RingSpaceToEnd(h, t, size) = RingSpace(h, t, size)
         \/ h + RingSpaceToEnd(h, t, size) = size
<1> DEFINE end == size - 1 - h
<1>1. end + t \in -size .. 2 * size - 1
  OBVIOUS
<1>2. t - (h + 1) \in -size .. 2 * size - 1
  OBVIOUS
<1>3. Mask(end + t, size) = IF end + t < size THEN end + t ELSE end + t - size
  BY <1>1, MaskOneLap
<1>4. RingSpace(h, t, size) = IF t < h + 1 THEN t - (h + 1) + size ELSE t - (h + 1)
  BY <1>2, MaskOneLap DEF RingSpace
<1>5. RingSpaceToEnd(h, t, size) = IF Mask(end + t, size) <= end
                                   THEN Mask(end + t, size) ELSE end + 1
  BY DEF RingSpaceToEnd
<1> QED
  BY <1>3, <1>4, <1>5

\* Two moves along the ring are one.
LEMMA MaskTwice ==
  ASSUME NEW size \in Nat \ {0}, NEW i \in 0 .. size - 1, NEW m \in Nat, NEW n \in Nat,
         m + n <= size - 1
  PROVE  Mask(Mask(i + m, size) + n, size) = Mask(i + m + n, size)
<1>1. i + m \in Nat
  OBVIOUS
<1> QED
  BY <1>1, MaskSlides

\* Filling n1 slots up to the end of the array and n2 more from where that
\* ends never goes past the end of the array.
LEMMA TwoSegments ==
  ASSUME NEW size \in Nat \ {0}, NEW x \in Nat, NEW t \in 0 .. size - 1,
         NEW n1 \in Nat, NEW n2 \in Nat,
         n1 <= RingSpaceToEnd(Mask(x, size), t, size),
         n1 + n2 <= RingSpace(Mask(x, size), t, size),
         n2 > 0 => n1 = RingSpaceToEnd(Mask(x, size), t, size)
  PROVE  /\ Mask(x, size) + n1 <= size
         /\ Mask(x + n1, size) + n2 <= size
         /\ n1 + n2 <= size - 1
<1> DEFINE h == Mask(x, size)
<1>1. h \in 0 .. size - 1
  BY MaskInRing
<1>2. /\ RingSpaceToEnd(h, t, size) \in Nat
      /\ h + RingSpaceToEnd(h, t, size) <= size
      /\ RingSpace(h, t, size) \in 0 .. size - 1
      /\ \/ RingSpaceToEnd(h, t, size) = RingSpace(h, t, size)
         \/ h + RingSpaceToEnd(h, t, size) = size
  <2> HIDE DEF h
  <2> QED
    BY <1>1, SpaceToEndFits, CountPlusSpace, SpaceToEndThenWraps
<1>3. Mask(x + n1, size) \in 0 .. size - 1
  BY MaskInRing
<1>4. n2 > 0 => h + n1 = size
  <2> HIDE DEF h
  <2> QED
    BY <1>1, <1>2 DEF h
<1>5. h + n1 = size => Mask(x + n1, size) = 0
  <2>1. Mask(h + n1, size) = Mask(x + n1, size)
    BY MaskSlides
  <2> HIDE DEF h
  <2>2. h + n1 = size => Mask(h + n1, size) = 0
    <3>1. size \in -size .. 2 * size - 1
      OBVIOUS
    <3> QED
      BY <3>1, MaskOneLap
  <2> QED
    BY <2>1, <2>2
<1> HIDE DEF h
<1>6. h + n1 <= size /\ n1 + n2 <= size - 1
  BY <1>1, <1>2 DEF h
<1>7. Mask(x + n1, size) + n2 <= size
  BY <1>2, <1>3, <1>4, <1>5, <1>6
<1> QED
  BY <1>6, <1>7 DEF h

\* g is f with w[0], w[1], ... copied to n1 slots from that of x on, then to n2
\* slots from that of x + n1 on.
CopiedTwice(f, g, w, x, n1, n2, size) ==
  \A s \in 0 .. size - 1 :
    g[s] = IF s \in Mask(x + n1, size) .. Mask(x + n1, size) + n2 - 1
           THEN w[n1 + (s - Mask(x + n1, size))]
           ELSE IF s \in Mask(x, size) .. Mask(x, size) + n1 - 1
                THEN w[s - Mask(x, size)] ELSE f[s]

\* g is f with w[0], w[1], ... copied to the slots of n positions from x on.
Copied(f, g, w, x, n, size) ==
  /\ \A k \in 0 .. n - 1 : g[Mask(x + k, size)] = w[k]
  /\ \A s \in 0 .. size - 1 :
       (\A k \in 0 .. n - 1 : s # Mask(x + k, size)) => g[s] = f[s]

\* Two copies to a ring, one up to the end of the array and one from there on,
\* are one copy to the slots of n1 + n2 positions from x on; the other slots
\* keep what they had.
LEMMA TwoCopies ==
  ASSUME NEW size \in Nat \ {0}, NEW x \in Nat, NEW n1 \in Nat, NEW n2 \in Nat,
         Mask(x, size) + n1 <= size, Mask(x + n1, size) + n2 <= size,
         n1 + n2 <= size - 1,
         NEW f, NEW g, NEW w, CopiedTwice(f, g, w, x, n1, n2, size)
  PROVE  Copied(f, g, w, x, n1 + n2, size)
<1>1. \A y \in Nat : Mask(y, size) \in 0 .. size - 1
  BY MaskInRing
<1> USE DEF CopiedTwice
<1>2. ASSUME NEW k \in 0 .. n1 - 1
      PROVE  Mask(x + k, size) = Mask(x, size) + k
  <2>1. Mask(x, size) + k < size
    BY <1>1
  <2> QED
    BY <2>1, MaskStraight
<1>3. ASSUME NEW k \in 0 .. n2 - 1
      PROVE  Mask(x + n1 + k, size) = Mask(x + n1, size) + k
  <2>1. Mask(x + n1, size) + k < size
    BY <1>1
  <2> QED
    BY <2>1, MaskStraight
<1>4. ASSUME NEW k \in 0 .. n1 + n2 - 1
      PROVE  g[Mask(x + k, size)] = w[k]
  <2>1. CASE k < n1
    <3>1. Mask(x + k, size) = Mask(x, size) + k
      BY <1>2, <2>1
    <3>2. Mask(x + k, size) \notin Mask(x + n1, size) .. Mask(x + n1, size) + n2 - 1
      <4> SUFFICES ASSUME NEW s \in Mask(x + n1, size) .. Mask(x + n1, size) + n2 - 1
                   PROVE  Mask(x + k, size) # s
        OBVIOUS
      <4> DEFINE j == s - Mask(x + n1, size)
      <4>1. j \in 0 .. n2 - 1 /\ s = Mask(x + n1, size) + j
        BY <1>1
      <4> HIDE DEF j
      <4>2. s = Mask(x + n1 + j, size)
        BY <1>3, <4>1
      <4>3. Mask(x + n1 + j, size) # Mask(x + k, size)
        BY <2>1, <4>1, SlotsApart
      <4> QED
        BY <4>2, <4>3
    <3>3. Mask(x + k, size) - Mask(x, size) = k
      BY <1>1, <3>1
    <3>4. Mask(x + k, size) \in Mask(x, size) .. Mask(x, size) + n1 - 1
      BY <1>1, <2>1, <3>1
    <3> QED
      BY <1>1, <3>2, <3>3, <3>4
  <2>2. CASE n1 <= k
    <3> DEFINE j == k - n1
    <3>1. j \in 0 .. n2 - 1 /\ k = n1 + j
      BY <2>2
    <3> HIDE DEF j
    <3>2. Mask(x + k, size) = Mask(x + n1, size) + j
      BY <1>3, <3>1
    <3>3. /\ Mask(x + k, size) \in Mask(x + n1, size) .. Mask(x + n1, size) + n2 - 1
          /\ Mask(x + k, size) - Mask(x + n1, size) = j
      BY <1>1, <3>1, <3>2
    <3> QED
      BY <1>1, <3>1, <3>3
  <2> QED
    BY <2>1, <2>2
<1>5. ASSUME NEW s \in 0 .. size - 1, \A k \in 0 .. n1 + n2 - 1 : s # Mask(x + k, size)
      PROVE  g[s] = f[s]
  <2>1. s \notin Mask(x, size) .. Mask(x, size) + n1 - 1
    <3> SUFFICES ASSUME s \in Mask(x, size) .. Mask(x, size) + n1 - 1 PROVE FALSE
      OBVIOUS
    <3>1. s - Mask(x, size) \in 0 .. n1 - 1 /\ s = Mask(x, size) + (s - Mask(x, size))
      BY <1>1
    <3>2. s = Mask(x + (s - Mask(x, size)), size)
      BY <1>2, <3>1
    <3> QED
      BY <1>5, <3>1, <3>2
  <2>2. s \notin Mask(x + n1, size) .. Mask(x + n1, size) + n2 - 1
    <3> SUFFICES ASSUME s \in Mask(x + n1, size) .. Mask(x + n1, size) + n2 - 1
                 PROVE FALSE
      OBVIOUS
    <3> DEFINE j == s - Mask(x + n1, size)
    <3>1. j \in 0 .. n2 - 1 /\ s = Mask(x + n1, size) + j
      BY <1>1
    <3> HIDE DEF j
    <3>2. s = Mask(x + n1 + j, size)
      BY <1>3, <3>1
    <3>3. n1 + j \in 0 .. n1 + n2 - 1 /\ x + (n1 + j) = x + n1 + j
      BY <3>1
    <3> QED
      BY <1>5, <3>2, <3>3
  <2> QED
    BY <2>1, <2>2
<1> QED
  BY <1>4, <1>5 DEF Copied

\* Steps of a whole page keep alignment.
LEMMA WholeStep ==
  ASSUME NEW w \in Nat \ {0}, NEW a \in Nat, a % w = 0, NEW k \in Nat
  PROVE  (a + k * w) % w = 0 /\ a + k * w \in Nat
<1> DEFINE p == a \div w
<1>1. a = w * p /\ p \in Int
  OBVIOUS
<1> HIDE DEF p
<1>2. a + k * w = w * (p + k) + 0
  BY <1>1
<1>3. p + k \in Int /\ 0 \in 0 .. w - 1
  BY <1>1
<1>4. Mask(w * (p + k) + 0, w) = 0
  BY <1>3, MaskLaps
<1>5. k * w \in Nat
  OBVIOUS
<1> QED
  BY <1>2, <1>4, <1>5 DEF Mask

\* The next page is aligned, too.
LEMMA NextPage ==
  ASSUME NEW w \in Nat \ {0}, NEW a \in Nat, a % w = 0
  PROVE  (a + w) % w = 0
<1> DEFINE p == a \div w
<1>1. a = w * p /\ p \in Int
  OBVIOUS
<1> HIDE DEF p
<1>2. a + w = w * (p + 1) + 0
  BY <1>1
<1>3. p + 1 \in Int /\ 0 \in 0 .. w - 1
  BY <1>1
<1>4. Mask(w * (p + 1) + 0, w) = 0
  BY <1>3, MaskLaps
<1> QED
  BY <1>2, <1>4 DEF Mask

\* A page that starts at a multiple of the size of pages does not wrap around
\* the end of a ring of whole pages.
LEMMA PageFits ==
  ASSUME NEW size \in Nat \ {0}, NEW w \in Nat \ {0}, size % w = 0,
         NEW a \in Nat, a % w = 0
  PROVE  Mask(a, size) + w <= size
<1> DEFINE m == size \div w
           p == a \div w
           q == a \div size
           r == a % size
<1>1. size = w * m /\ m \in Int
  OBVIOUS
<1>2. a = w * p /\ p \in Int
  OBVIOUS
<1>3. a = size * q + r /\ q \in Int /\ r \in 0 .. size - 1
  OBVIOUS
<1>4. Mask(a, size) = r
  BY DEF Mask
<1> HIDE DEF m, p, q, r
<1>5. m * q \in Int
  BY <1>1, <1>3
<1> DEFINE j == p - m * q
<1>6. j \in Int
  BY <1>2, <1>5
<1>7. r = w * j
  <2>1. size * q = w * (m * q)
    BY <1>1, <1>3
  <2>2. r = w * p - w * (m * q)
    BY <1>2, <1>3, <2>1
  <2>3. w * (p - m * q) = w * p - w * (m * q)
    BY <1>2, <1>5
  <2> QED
    BY <2>2, <2>3
<1> HIDE DEF j
<1>8. j < m
  <2> SUFFICES ASSUME m <= j PROVE FALSE
    BY <1>1, <1>6
  <2>1. w * m <= w * j
    BY <1>1, <1>6
  <2> QED
    BY <1>1, <1>3, <1>7, <2>1
<1>9. w * (j + 1) <= w * m
  <2>1. j + 1 <= m
    BY <1>1, <1>6, <1>8
  <2> QED
    BY <1>1, <1>6, <2>1
<1>10. w * (j + 1) = r + w
  BY <1>6, <1>7
<1> QED
  BY <1>1, <1>4, <1>9, <1>10

-----------------------------------------------------------------------------
(* The steps of the binary file layer *)

\* The sizes the code derives its masks from are positive numbers.
LEMMA Sizes ==
  /\ RawSize \in Nat \ {0} /\ DecodedSize \in Nat \ {0}
  /\ WriteChunkSize \in Nat \ {0} /\ WriteChunkSize < DecodedSize
  /\ MaxChunks \in Nat /\ MaxChunks > 1
<1>1. PowersOfTwo \subseteq Nat \ {0}
  BY DEF PowersOfTwo
<1> QED
  BY <1>1, RingSizes, ChunkDividesBuffer

\* Replacing one element of a queue.
LEMMA SetElement ==
  ASSUME NEW S, NEW q \in Seq(S), NEW n \in 1 .. Len(q), NEW e \in S,
         NEW r, r = [q EXCEPT ![n] = e]
  PROVE  /\ r \in Seq(S)
         /\ Len(r) = Len(q)
         /\ \A i \in 1 .. Len(q) : r[i] = IF i = n THEN e ELSE q[i]
OBVIOUS

\* bf_put_write_chunk() removes the first chunk and leaves the others alone.
LEMMA PutQueue ==
  ASSUME write_chunks \in Seq(Chunk), write_chunks # <<>>, PutWriteChunk
  PROVE  /\ write_chunks' \in Seq(Chunk)
         /\ Len(write_chunks') = Len(write_chunks) - 1
         /\ \A i \in 1 .. Len(write_chunks') : write_chunks'[i] = write_chunks[i + 1]
         /\ decoded_tail' \in DecSlot
<1>1. write_chunks[1] \in Chunk
  BY ElementOfSeq, EmptySeq
<1>2. write_chunks[1].start + write_chunks[1].len \in Int
  BY <1>1, Sizes DEF Chunk, DecSlot, ChunkLen
<1>3. decoded_tail' \in DecSlot
  BY <1>2, Sizes, MaskInRing DEF PutWriteChunk, DecSlot
<1> QED
  BY <1>3, HeadTailProperties DEF PutWriteChunk
-----------------------------------------------------------------------------
(* Types *)

\* The target owns the first chunk of the queue: needed because the chunk that
\* chunk_done() frees is the first one, whichever the target reports.
OwnedIsFirst ==
  owned # NoChunk =>
    /\ write_chunks # <<>>
    /\ write_chunks[1].write_pending
    /\ owned.start = write_chunks[1].start

TypeInv == TypeOK /\ OwnedIsFirst

\* Sectors are numbered from 0.
LEMMA SectorIsNat ==
  ASSUME SectorSize > 0, NEW a \in Nat
  PROVE  Sector(a) \in Nat
BY TargetKind DEF Sector

\* dfu_binary_file_init() leaves everything in range.
LEMMA InitType == Init => TypeInv
<1> SUFFICES ASSUME Init
             PROVE  TypeInv
  OBVIOUS
<1>1. 0 \in RawSlot /\ 0 \in DecSlot
  BY Sizes DEF RawSlot, DecSlot
<1>2. RawTypeOK
  BY <1>1 DEF Init, RawTypeOK
<1>3. DecodedTypeOK
  BY <1>1 DEF Init, DecodedTypeOK
<1>4. ChunksTypeOK
  <2>1. <<>> \in Seq(Chunk) /\ Len(<<>>) < MaxChunks
    BY Sizes
  <2> QED
    BY <2>1 DEF Init, ChunksTypeOK
<1>5. FlagsTypeOK
  BY DEF Init, FlagsTypeOK
<1>6. LoopTypeOK
  BY DEF Init, At, LoopTypeOK
<1>7. TargetTypeOK /\ OwnedIsFirst
  BY DEF Init, TargetTypeOK, OwnedIsFirst
<1> QED
  BY <1>2, <1>3, <1>4, <1>5, <1>6, <1>7 DEF TypeInv, TypeOK

\* What a step leaves alone keeps its type.
LEMMA FramedTypes ==
  /\ RawTypeOK /\ UNCHANGED rawVars => RawTypeOK'
  /\ DecodedTypeOK
       /\ UNCHANGED <<decoded_buf, decoded_head, tailVars, decoded_chunk_size>>
       => DecodedTypeOK'
  /\ ChunksTypeOK /\ UNCHANGED write_chunks => ChunksTypeOK'
  /\ FlagsTypeOK /\ UNCHANGED <<flagVars, rx_timeout>> => FlagsTypeOK'
  /\ LoopTypeOK /\ UNCHANGED <<pc, calling, enq, dfuVars>> => LoopTypeOK'
  /\ TargetTypeOK /\ UNCHANGED targetVars => TargetTypeOK'
  /\ OwnedIsFirst /\ UNCHANGED <<write_chunks, targetVars>> => OwnedIsFirst'
<1>1. RawTypeOK /\ UNCHANGED rawVars => RawTypeOK'
  BY DEF RawTypeOK, rawVars
<1>2. DecodedTypeOK
        /\ UNCHANGED <<decoded_buf, decoded_head, tailVars, decoded_chunk_size>>
        => DecodedTypeOK'
  BY DEF DecodedTypeOK, tailVars
<1>3. ChunksTypeOK /\ UNCHANGED write_chunks => ChunksTypeOK'
  BY DEF ChunksTypeOK
<1>4. FlagsTypeOK /\ UNCHANGED <<flagVars, rx_timeout>> => FlagsTypeOK'
  BY DEF FlagsTypeOK, flagVars
<1>5. LoopTypeOK /\ UNCHANGED <<pc, calling, enq, dfuVars>> => LoopTypeOK'
  BY DEF LoopTypeOK, dfuVars
<1>6. TargetTypeOK /\ UNCHANGED targetVars => TargetTypeOK'
  BY DEF TargetTypeOK, targetVars
<1>7. OwnedIsFirst /\ UNCHANGED <<write_chunks, targetVars>> => OwnedIsFirst'
  BY DEF OwnedIsFirst, targetVars
<1> QED
  BY ONLY <1>1, <1>2, <1>3, <1>4, <1>5, <1>6, <1>7

\* One lemma per step of the layer: it keeps the types.
LEMMA FlushStartType == TypeInv /\ FlushStart => TypeInv'
<1> SUFFICES ASSUME TypeInv, FlushStart
             PROVE  TypeInv'
  OBVIOUS
<1>1. FlagsTypeOK'
  BY DEF FlushStart, TypeInv, TypeOK, FlagsTypeOK, flagVars, rawVars
<1> QED
  BY <1>1, FramedTypes
  DEF FlushStart, TypeInv, TypeOK, decVars

\* dfu_idle() returns or starts an iteration.
LEMMA LoopTopType == TypeInv /\ LoopTop => TypeInv'
<1> SUFFICES ASSUME TypeInv, LoopTop
             PROVE  TypeInv'
  OBVIOUS
<1>1. LoopTypeOK'
  BY DEF LoopTop, TypeInv, TypeOK, LoopTypeOK
<1> QED
  BY <1>1, FramedTypes
  DEF LoopTop, TypeInv, TypeOK, decVars

\* dfu_binary_file_on_idle() starts.
LEMMA OnIdleType == TypeInv /\ OnIdle => TypeInv'
<1> SUFFICES ASSUME TypeInv, OnIdle
             PROVE  TypeInv'
  OBVIOUS
<1>1. LoopTypeOK'
  BY DEF OnIdle, TypeInv, TypeOK, LoopTypeOK, dfuVars
<1> QED
  BY <1>1, FramedTypes
  DEF OnIdle, TypeInv, TypeOK, decVars

\* The host's idle operation returns.
LEMMA HostIdleType == TypeInv /\ HostIdle => TypeInv'
<1> SUFFICES ASSUME TypeInv, HostIdle
             PROVE  TypeInv'
  OBVIOUS
<1>1. LoopTypeOK'
  BY DEF HostIdle, TypeInv, TypeOK, LoopTypeOK, dfuVars
<1> QED
  BY <1>1, FramedTypes
  DEF HostIdle, TypeInv, TypeOK, decVars

\* _bf_do_write() has nothing to do.
LEMMA WriteNothingType == TypeInv /\ WriteNothing => TypeInv'
<1> SUFFICES ASSUME TypeInv, WriteNothing
             PROVE  TypeInv'
  OBVIOUS
<1>1. LoopTypeOK'
  BY DEF WriteNothing, TypeInv, TypeOK, LoopTypeOK, dfuVars
<1> QED
  BY <1>1, FramedTypes
  DEF WriteNothing, TypeInv, TypeOK, decVars

\* chunk_available() returns 0.
LEMMA ChunkAvailableOkType == TypeInv /\ ChunkAvailableOk => TypeInv'
<1> SUFFICES ASSUME TypeInv, ChunkAvailableOk
             PROVE  TypeInv'
  OBVIOUS
<1>1. LoopTypeOK'
  BY DEF ChunkAvailableOk, TypeInv, TypeOK, LoopTypeOK, dfuVars
<1> QED
  BY <1>1, FramedTypes
  DEF ChunkAvailableOk, TypeInv, TypeOK, decVars

\* The target gets busy or idle between two commands.
LEMMA BetweenCommandsType == TypeInv /\ BetweenCommands => TypeInv'
<1> SUFFICES ASSUME TypeInv, BetweenCommands
             PROVE  TypeInv'
  OBVIOUS
<1>1. TargetTypeOK' /\ OwnedIsFirst'
  BY DEF BetweenCommands, TypeInv, TypeOK, TargetTypeOK, OwnedIsFirst
<1> QED
  BY <1>1, FramedTypes
  DEF BetweenCommands, TypeInv, TypeOK, decVars

\* Copying into the raw ring keeps the type of its slots.
LEMMA CopyInType ==
  ASSUME NEW T, NEW b \in [RawSlot -> T], NEW i \in Nat, NEW n \in Nat, NEW f \in Nat,
         \A k \in f .. f + n - 1 : k \in T
  PROVE  CopyIn(b, i, n, f) \in [RawSlot -> T]
<1>1. \A s \in RawSlot : s \in i .. i + n - 1 => f + (s - i) \in f .. f + n - 1
  BY DEF RawSlot
<1>2. DOMAIN b = RawSlot
  OBVIOUS
<1> QED
  BY <1>1, <1>2 DEF CopyIn

\* _bf_append_data() keeps the indices of the raw ring in range.
LEMMA AppendDataType ==
  ASSUME TypeOK, NEW n \in Nat, tot_appended + n <= FileSize, AppendData(n)
  PROVE  /\ buf' \in [RawSlot -> 0 .. FileSize - 1 \cup {NoData}]
         /\ head' \in RawSlot /\ tail' = tail
         /\ tot_appended' = tot_appended + n
<1> DEFINE T  == 0 .. FileSize - 1 \cup {NoData}
           n1 == Min2(RingSpaceToEnd(head, tail, RawSize), n)
           h1 == Mask(head + n1, RawSize)
           n2 == n - n1
           b1 == CopyIn(buf, head, n1, tot_appended)
<1>1. head \in 0 .. RawSize - 1 /\ tail \in 0 .. RawSize - 1 /\ tot_appended \in Nat
  BY DEF TypeOK, RawTypeOK, RawSlot
<1>2. n1 \in Nat /\ n1 <= n
  <2>1. RingSpaceToEnd(head, tail, RawSize) \in Nat
    BY <1>1, Sizes, SpaceToEndFits
  <2> QED
    BY <2>1 DEF Min2
<1>3. n2 \in Nat
  BY <1>2
<1>4. h1 \in 0 .. RawSize - 1
  <2>1. head + n1 \in Int
    BY <1>1, <1>2
  <2> QED
    BY <2>1, Sizes, MaskInRing
<1>5. b1 \in [RawSlot -> T]
  <2>1. buf \in [RawSlot -> T]
    BY DEF TypeOK, RawTypeOK
  <2>2. \A k \in tot_appended .. tot_appended + n1 - 1 : k \in T
    BY <1>1, <1>2, ClientKind
  <2>3. head \in Nat
    BY <1>1
  <2> HIDE DEF T, n1
  <2> QED
    BY ONLY <1>1, <1>2, <2>1, <2>2, <2>3, CopyInType
<1>6. CopyIn(b1, h1, n2, tot_appended + n1) \in [RawSlot -> T]
  <2>1. \A k \in tot_appended + n1 .. tot_appended + n1 + n2 - 1 : k \in T
    BY <1>1, <1>2, ClientKind
  <2>2. h1 \in Nat /\ tot_appended + n1 \in Nat
    BY <1>1, <1>2, <1>4
  <2> HIDE DEF T, n1, h1, n2, b1
  <2> QED
    BY ONLY <1>3, <1>5, <2>1, <2>2, CopyInType
<1>7. Mask(h1 + n2, RawSize) \in RawSlot
  <2>1. h1 + n2 \in Int
    BY <1>3, <1>4
  <2> QED
    BY <2>1, Sizes, MaskInRing DEF RawSlot
<1> QED
  BY <1>6, <1>7 DEF AppendData

\* A file event that changes the raw ring appends a block that fits the file.
LEMMA BlockAppended ==
  ASSUME TypeInv, ClientAppends, ~UNCHANGED rawVars
  PROVE  \E n \in Nat \ {0} : tot_appended + n <= FileSize /\ AppendData(n)
<1>1. AppendsBlock
  BY DEF ClientAppends, AppendsNothing
<1>2. PICK m \in BlockSizes : AppendData(Min2(m, FileSize - tot_appended))
  BY <1>1, Zenon DEF AppendsBlock
<1>3. tot_appended < FileSize
  BY <1>1, Zenon DEF AppendsBlock
<1>4. FileSize - tot_appended \in Nat \ {0} /\ m \in Nat \ {0} /\ tot_appended \in Nat
  BY <1>3, ClientKind DEF TypeInv, TypeOK, RawTypeOK
<1>5. /\ Min2(m, FileSize - tot_appended) \in Nat \ {0}
      /\ tot_appended + Min2(m, FileSize - tot_appended) <= FileSize
  BY <1>4, ClientKind DEF Min2
<1> QED
  BY <1>2, <1>5

\* A file event.
LEMMA ClientAppendsType == TypeInv /\ ClientAppends => TypeInv'
<1> SUFFICES ASSUME TypeInv, ClientAppends
             PROVE  TypeInv'
  OBVIOUS
<1>1. RawTypeOK'
  <2>1. CASE UNCHANGED rawVars
    BY <2>1, FramedTypes DEF TypeInv, TypeOK
  <2>2. CASE ~UNCHANGED rawVars
    <3>1. PICK n \in Nat \ {0} : tot_appended + n <= FileSize /\ AppendData(n)
      BY <2>2, BlockAppended
    <3>2. /\ buf' \in [RawSlot -> 0 .. FileSize - 1 \cup {NoData}]
          /\ head' \in RawSlot /\ tail' = tail
          /\ tot_appended' = tot_appended + n
      BY <3>1, AppendDataType DEF TypeInv
    <3> QED
      BY <3>1, <3>2 DEF RawTypeOK, TypeInv, TypeOK
  <2> QED
    BY <2>1, <2>2
<1>2. UNCHANGED <<really_written, rx_done, flushing, format_ops, rx_timeout>>
  BY Zenon DEF ClientAppends
<1>3. written' \in BOOLEAN /\ early' \in BOOLEAN
  <2>1. written' \in BOOLEAN
    BY DEF ClientAppends, AppendsBlock, AppendsNothing, FlagsTypeOK, TypeInv, TypeOK
  <2>2. early' = (early \/ (written' /\ ~rx_done /\ RawCount' > 0))
    BY Zenon DEF ClientAppends
  <2> QED
    BY <2>1, <2>2
<1>4. FlagsTypeOK'
  BY <1>2, <1>3 DEF FlagsTypeOK, TypeInv, TypeOK
<1> QED
  BY <1>1, <1>4, FramedTypes DEF ClientAppends, TypeInv, TypeOK, decVars

\* The timeout of the binary file expires.
LEMMA RxTimeoutType ==
  ASSUME TypeInv, NEW stuck, RxTimeout(stuck)
  PROVE  TypeInv'
<1>1. /\ error' = TRUE /\ rx_timeout' = FALSE
      /\ UNCHANGED <<rawVars, decVars, tailVars, decoded_chunk_size, write_chunks,
                     flagVars, pc, calling, enq, result, targetVars>>
  BY Zenon DEF RxTimeout
<1>2. FlagsTypeOK' /\ LoopTypeOK'
  BY ONLY TypeInv, <1>1 DEF TypeInv, TypeOK, FlagsTypeOK, LoopTypeOK, flagVars
<1> QED
  BY ONLY TypeInv, <1>1, <1>2, FramedTypes DEF TypeInv, TypeOK, decVars

\* The sectors to erase are those of a chunk.
LEMMA WriteErasesType == TypeInv /\ WriteErases => TypeInv'
<1> SUFFICES ASSUME TypeInv, WriteErases
             PROVE  TypeInv'
  OBVIOUS
<1>1. write_chunks[1] \in Chunk
  BY ElementOfSeq, EmptySeq
  DEF WriteErases, HasNextWriteChunk, TypeInv, TypeOK, ChunksTypeOK
<1>2. SectorSize > 0
  BY DEF WriteErases, MustErase
<1>3. \A a \in write_chunks[1].addr .. write_chunks[1].addr + write_chunks[1].len - 1 :
        a \in Nat
  BY <1>1, Sizes DEF Chunk, ChunkLen
<1>4. ChunkSectors(write_chunks[1]) \subseteq Nat
  BY <1>2, <1>3, SectorIsNat DEF ChunkSectors
<1>5. erasing' \subseteq Nat
  BY <1>4 DEF WriteErases
<1>6. LoopTypeOK'
  BY DEF WriteErases, TypeInv, TypeOK, LoopTypeOK, dfuVars
<1>7. TargetTypeOK' /\ OwnedIsFirst'
  BY <1>5 DEF WriteErases, TypeInv, TypeOK, TargetTypeOK, OwnedIsFirst
<1> QED
  BY <1>6, <1>7, FramedTypes
  DEF WriteErases, TypeInv, TypeOK, decVars

\* The chunk handed over stays in the queue, marked.
LEMMA WriteHandsOverType == TypeInv /\ WriteHandsOver => TypeInv'
<1> SUFFICES ASSUME TypeInv, WriteHandsOver
             PROVE  TypeInv'
  OBVIOUS
<1> DEFINE q == write_chunks
           c == [q[1] EXCEPT !.write_pending = TRUE]
<1>1. q \in Seq(Chunk) /\ 1 \in 1 .. Len(q) /\ q # <<>>
  BY EmptySeq DEF WriteHandsOver, HasNextWriteChunk, TypeInv, TypeOK, ChunksTypeOK
<1>2. q[1] \in Chunk
  BY <1>1, ElementOfSeq
<1>3. c \in Chunk
  BY <1>2 DEF Chunk
<1>4. write_chunks' = [q EXCEPT ![1] = c]
  BY <1>1, LenProperties DEF WriteHandsOver
<1>5. /\ write_chunks' \in Seq(Chunk) /\ Len(write_chunks') = Len(q)
      /\ write_chunks'[1] = c
  <2> HIDE DEF c
  <2> QED
    BY ONLY <1>1, <1>3, <1>4, SetElement
<1>6. ChunksTypeOK' /\ write_chunks' # <<>>
  BY <1>1, <1>5 DEF TypeInv, TypeOK, ChunksTypeOK
<1>7. write_chunks'[1].write_pending /\ write_chunks'[1].start = q[1].start
  BY <1>2, <1>5 DEF Chunk
<1>8. owned' \in HandedOut /\ owned'.start = q[1].start
  BY <1>2 DEF WriteHandsOver, Chunk, HandedOut
<1>9. TargetTypeOK' /\ OwnedIsFirst'
  BY <1>6, <1>7, <1>8 DEF WriteHandsOver, TypeInv, TypeOK, TargetTypeOK, OwnedIsFirst
<1>10. FlagsTypeOK'
  BY DEF WriteHandsOver, TypeInv, TypeOK, FlagsTypeOK, flagVars
<1>11. LoopTypeOK'
  BY DEF WriteHandsOver, TypeInv, TypeOK, LoopTypeOK, dfuVars
<1> QED
  BY <1>6, <1>9, <1>10, <1>11, FramedTypes DEF WriteHandsOver, TypeInv, TypeOK, decVars

\* Freeing the first chunk keeps the queue and decoded_tail in their ranges.
LEMMA AfterPutType ==
  ASSUME TypeInv, write_chunks # <<>>, PutWriteChunk
  PROVE  ChunksTypeOK' /\ decoded_tail' \in DecSlot
<1>1. write_chunks \in Seq(Chunk) /\ Len(write_chunks) < MaxChunks
  BY DEF TypeInv, TypeOK, ChunksTypeOK
<1> QED
  BY <1>1, PutQueue, LenProperties, Sizes DEF ChunksTypeOK

\* chunk_available() returns an error.
LEMMA ChunkAvailableFailsType == TypeInv /\ ChunkAvailableFails => TypeInv'
<1> SUFFICES ASSUME TypeInv, ChunkAvailableFails
             PROVE  TypeInv'
  OBVIOUS
<1>1. ChunksTypeOK' /\ decoded_tail' \in DecSlot
  BY AfterPutType DEF ChunkAvailableFails
<1>2. DecodedTypeOK'
  BY <1>1 DEF ChunkAvailableFails, TypeInv, TypeOK, DecodedTypeOK, decVars
<1>3. LoopTypeOK'
  BY DEF ChunkAvailableFails, TypeInv, TypeOK, LoopTypeOK
<1>4. TargetTypeOK' /\ OwnedIsFirst'
  BY DEF ChunkAvailableFails, TypeInv, TypeOK, TargetTypeOK, OwnedIsFirst
<1> QED
  BY <1>1, <1>2, <1>3, <1>4, FramedTypes
  DEF ChunkAvailableFails, TypeInv, TypeOK

\* What is programmed comes from the decoded buffer.
LEMMA ProgrammedType ==
  ASSUME TypeOK, owned # NoChunk
  PROVE  Programmed(owned) \in [Byte -> Nat \cup {NoData}]
<1>1. \A i : SlotData(i) \in Nat \cup {NoData}
  BY DEF TypeOK, DecodedTypeOK, SlotData
<1>2. \A a \in Byte : flash[a] \in Nat \cup {NoData}
  BY DEF TypeOK, TargetTypeOK
<1> QED
  BY <1>1, <1>2 DEF Programmed

\* The device confirms a chunk, which is the first of the queue.
LEMMA ChunkDoneType == TypeInv /\ ChunkDone => TypeInv'
<1> SUFFICES ASSUME TypeInv, ChunkDone
             PROVE  TypeInv'
  OBVIOUS
<1>1. ChunksTypeOK' /\ decoded_tail' \in DecSlot
  BY AfterPutType DEF ChunkDone, TypeInv, OwnedIsFirst
<1>2. DecodedTypeOK'
  BY <1>1 DEF ChunkDone, TypeInv, TypeOK, DecodedTypeOK, decVars
<1>3. FlagsTypeOK'
  BY DEF ChunkDone, TypeInv, TypeOK, FlagsTypeOK
<1>4. LoopTypeOK'
  BY DEF ChunkDone, TypeInv, TypeOK, LoopTypeOK
<1>5. TargetTypeOK' /\ OwnedIsFirst'
  BY ProgrammedType DEF ChunkDone, TypeInv, TypeOK, TargetTypeOK, OwnedIsFirst
<1> QED
  BY <1>1, <1>2, <1>3, <1>4, <1>5, FramedTypes
  DEF ChunkDone, TypeInv, TypeOK

\* The device refuses a chunk.
LEMMA ChunkFailsType == TypeInv /\ ChunkFails => TypeInv'
<1> SUFFICES ASSUME TypeInv, ChunkFails
             PROVE  TypeInv'
  OBVIOUS
<1>1. LoopTypeOK'
  BY DEF ChunkFails, TypeInv, TypeOK, LoopTypeOK
<1>2. TargetTypeOK' /\ OwnedIsFirst'
  BY DEF ChunkFails, TypeInv, TypeOK, TargetTypeOK, OwnedIsFirst
<1> QED
  BY <1>1, <1>2, FramedTypes
  DEF ChunkFails, TypeInv, TypeOK, decVars

\* The erase command ends.
LEMMA EraseEndsType == TypeInv /\ EraseEnds => TypeInv'
<1> SUFFICES ASSUME TypeInv, EraseEnds
             PROVE  TypeInv'
  OBVIOUS
<1>1. LoopTypeOK'
  BY DEF EraseEnds, TypeInv, TypeOK, LoopTypeOK
<1>2. TargetTypeOK' /\ OwnedIsFirst'
  BY DEF EraseEnds, TypeInv, TypeOK, TargetTypeOK, OwnedIsFirst
<1> QED
  BY <1>1, <1>2, FramedTypes
  DEF EraseEnds, TypeInv, TypeOK, decVars

\* _bf_do_flush() up to decode_chunk(), whatever probe() stores.
LEMMA DoFlushType ==
  ASSUME TypeInv, NEW probed, DoFlush(probed)
  PROVE  TypeInv'
<1>1. /\ format_ops' \in BOOLEAN /\ rx_timeout' \in BOOLEAN
      /\ pc' \in {"host", "decode"}
      /\ UNCHANGED <<rawVars, decoded_buf, decoded_head, tailVars,
                     decoded_chunk_size, write_chunks, written, really_written,
                     rx_done, flushing, early, calling, enq, dfuVars, targetVars>>
  BY DEF DoFlush, TypeInv, TypeOK, FlagsTypeOK
<1>2. FlagsTypeOK'
  BY ONLY TypeInv, <1>1 DEF TypeInv, TypeOK, FlagsTypeOK
<1>3. LoopTypeOK'
  BY ONLY TypeInv, <1>1 DEF TypeInv, TypeOK, LoopTypeOK, dfuVars
<1> QED
  BY ONLY TypeInv, <1>1, <1>2, <1>3, FramedTypes DEF TypeInv, TypeOK

-----------------------------------------------------------------------------
(* Cutting what was decoded into chunks *)

\* A round of the enqueue loop keeps write_tail and the rest to enqueue in range.
LEMMA EnqueuedType ==
  ASSUME TypeInv, NEW n \in Nat, n <= enq.len, Enqueued(n)
  PROVE  /\ write_tail' \in DecSlot
         /\ enq' \in [addr : Nat, len : Nat]
         /\ pc' \in {"host", "enqueue"}
         /\ result' = result
<1>1. enq \in [addr : Nat, len : Nat] /\ write_tail \in 0 .. DecodedSize - 1
  BY DEF TypeInv, TypeOK, LoopTypeOK, DecodedTypeOK, DecSlot
<1>2. write_tail + n \in Int
  BY <1>1
<1>3. Mask(write_tail + n, DecodedSize) \in DecSlot
  BY <1>2, Sizes, MaskInRing DEF DecSlot
<1>4. [addr |-> enq.addr + n, len |-> enq.len - n] \in [addr : Nat, len : Nat]
  BY <1>1
<1> QED
  BY <1>3, <1>4 DEF Enqueued

\* Filling the last chunk changes nothing of it but its length and, when it
\* gets full, its pending flag.
LEMMA FillPendingEffect ==
  ASSUME TypeInv, FillPending
  PROVE  /\ Len(write_chunks) \in 1 .. MaxChunks - 1
         /\ LastChunk.pending
         /\ \E n \in Nat :
              /\ n = Min2(enq.len, WriteChunkSize - LastChunk.len)
              /\ n <= enq.len /\ LastChunk.len + n <= WriteChunkSize
              /\ Enqueued(n)
              /\ write_chunks' \in Seq(Chunk)
              /\ Len(write_chunks') = Len(write_chunks)
              /\ \A i \in 1 .. Len(write_chunks) - 1 : write_chunks'[i] = write_chunks[i]
              /\ write_chunks'[Len(write_chunks)].addr = LastChunk.addr
              /\ write_chunks'[Len(write_chunks)].start = LastChunk.start
              /\ write_chunks'[Len(write_chunks)].len = LastChunk.len + n
              /\ write_chunks'[Len(write_chunks)].pending
                   <=> LastChunk.len + n < WriteChunkSize
              /\ write_chunks'[Len(write_chunks)].write_pending = LastChunk.write_pending
<1> DEFINE q == write_chunks
           k == Len(q)
           n == Min2(enq.len, WriteChunkSize - LastChunk.len)
           l == q[k].len + n
           b == q[k].len + n < WriteChunkSize
           c == [q[k] EXCEPT !.len = l, !.pending = b]
<1>1. /\ q \in Seq(Chunk) /\ k \in 1 .. Len(q) /\ k < MaxChunks
      /\ enq \in [addr : Nat, len : Nat]
  BY EmptySeq, Sizes
  DEF FillPending, HasPendingChunk, TypeInv, TypeOK, ChunksTypeOK, LoopTypeOK
<1>2. q[k] \in Chunk /\ LastChunk = q[k]
  BY <1>1, ElementOfSeq DEF LastChunk
<1>3. n \in Nat /\ n <= enq.len /\ l \in ChunkLen
  BY <1>1, <1>2, Sizes DEF Chunk, ChunkLen, Min2
<1>4. /\ c \in Chunk /\ c.addr = q[k].addr /\ c.pending = b
      /\ c.start = q[k].start /\ c.len = l /\ c.write_pending = q[k].write_pending
  <2>1. b \in BOOLEAN
    OBVIOUS
  <2> DEFINE e == [q[k] EXCEPT !.len = l]
  <2>2. /\ e \in Chunk /\ e.addr = q[k].addr /\ e.start = q[k].start /\ e.len = l
        /\ e.write_pending = q[k].write_pending
    <3> HIDE DEF l, k
    <3> QED
      BY <1>2, <1>3 DEF Chunk
  <2>3. c = [e EXCEPT !.pending = b]
    OBVIOUS
  <2> HIDE DEF c, b, l, k, e
  <2> QED
    BY ONLY <2>1, <2>2, <2>3 DEF Chunk
<1>5. /\ write_chunks' \in Seq(Chunk)
      /\ Len(write_chunks') = Len(q)
      /\ \A i \in 1 .. Len(q) : write_chunks'[i] = IF i = k THEN c ELSE q[i]
  <2>1. q \in [1 .. Len(q) -> Chunk]
    BY <1>1, LenProperties
  <2>2. write_chunks' = [q EXCEPT ![k].len = l, ![k].pending = b]
    BY <1>1, <1>2 DEF FillPending, LastChunk
  <2>3. write_chunks' = [q EXCEPT ![k] = c]
    <3> HIDE DEF n
    <3> QED
      BY <1>1, <1>2, <2>1, <2>2
  <2> HIDE DEF c, k
  <2> QED
    BY ONLY <1>1, <1>4, <2>3, SetElement
<1>6. /\ write_chunks'[k].addr = q[k].addr /\ write_chunks'[k].start = q[k].start
      /\ write_chunks'[k].len = q[k].len + n /\ (write_chunks'[k].pending <=> b)
      /\ write_chunks'[k].write_pending = q[k].write_pending
  <2> HIDE DEF c, b
  <2> QED
    BY <1>1, <1>4, <1>5
<1>7. Enqueued(n) /\ LastChunk.pending
  BY DEF FillPending, HasPendingChunk
<1>8. LastChunk.len + n <= WriteChunkSize
  BY <1>2, <1>3, Sizes DEF ChunkLen
<1>9. \A i \in 1 .. Len(write_chunks) - 1 : write_chunks'[i] = write_chunks[i]
  BY <1>1, <1>5
<1>10. Len(write_chunks) \in 1 .. MaxChunks - 1
  <2> HIDE DEF k
  <2>1. Len(q) \in Nat
    BY <1>1, LenProperties
  <2> QED
    BY <1>1, <2>1, Sizes DEF k
<1>11. write_chunks'[Len(write_chunks)].pending <=> LastChunk.len + n < WriteChunkSize
  <2> HIDE DEF n
  <2> QED
    BY <1>2, <1>6
<1>12. n = Min2(enq.len, WriteChunkSize - LastChunk.len)
  OBVIOUS
<1> HIDE DEF n, b
<1> QED
  BY <1>2, <1>3, <1>5, <1>6, <1>7, <1>8, <1>9, <1>10, <1>11, <1>12

\* Closing the last chunk only resets its pending flag.
LEMMA ClosePendingEffect ==
  ASSUME TypeInv, ClosePending
  PROVE  /\ write_chunks' \in Seq(Chunk)
         /\ Len(write_chunks') = Len(write_chunks)
         /\ \A i \in 1 .. Len(write_chunks) :
              /\ write_chunks'[i].start = write_chunks[i].start
              /\ write_chunks'[i].len = write_chunks[i].len
              /\ write_chunks'[i].write_pending = write_chunks[i].write_pending
              /\ write_chunks'[i].pending => write_chunks[i].pending
         /\ UNCHANGED <<enq, pc, write_tail, result>>
<1> DEFINE q == write_chunks
           k == Len(q)
           c == [q[k] EXCEPT !.pending = FALSE]
<1>1. q \in Seq(Chunk) /\ k \in 1 .. Len(q)
  BY EmptySeq DEF ClosePending, HasPendingChunk, TypeInv, TypeOK, ChunksTypeOK
<1>2. \A i \in 1 .. Len(q) : q[i] \in Chunk
  BY <1>1, ElementOfSeq
<1>3. c \in Chunk
  BY <1>1, <1>2 DEF Chunk
<1>4. write_chunks' = [q EXCEPT ![k] = c]
  BY <1>1, LenProperties DEF ClosePending
<1>5. /\ write_chunks' \in Seq(Chunk) /\ Len(write_chunks') = Len(q)
      /\ \A i \in 1 .. Len(q) : write_chunks'[i] = IF i = k THEN c ELSE q[i]
  <2> HIDE DEF c, k
  <2> QED
    BY ONLY <1>1, <1>3, <1>4, SetElement
<1>6. /\ c.start = q[k].start /\ c.len = q[k].len
      /\ c.write_pending = q[k].write_pending /\ c.pending = FALSE
  BY <1>1, <1>2 DEF Chunk
<1> HIDE DEF c
<1> QED
  BY <1>5, <1>6 DEF ClosePending

\* A new chunk is put last; it starts at write_tail.
LEMMA NewChunkEffect ==
  ASSUME TypeInv, NewChunk
  PROVE  /\ write_chunks' \in Seq(Chunk)
         /\ Len(write_chunks') = Len(write_chunks) + 1
         /\ Len(write_chunks') < MaxChunks
         /\ \A i \in 1 .. Len(write_chunks) : write_chunks'[i] = write_chunks[i]
         /\ write_chunks'[Len(write_chunks')].addr = enq.addr
         /\ write_chunks'[Len(write_chunks')].start = write_tail
         /\ write_chunks'[Len(write_chunks')].len = NewLen
         /\ write_chunks'[Len(write_chunks')].pending
              <=> ~Misaligned /\ ~IgnoreAlignment /\ NewLen < WriteChunkSize
         /\ ~write_chunks'[Len(write_chunks')].write_pending
         /\ IgnoreAlignment => ~write_chunks'[Len(write_chunks')].pending
         /\ NewLen \in ChunkLen /\ NewLen <= enq.len
<1> DEFINE q == write_chunks
           c == [addr |-> enq.addr, start |-> write_tail, len |-> NewLen,
                 pending |-> ~Misaligned /\ ~IgnoreAlignment
                               /\ NewLen < WriteChunkSize,
                 write_pending |-> FALSE]
<1>1. /\ q \in Seq(Chunk) /\ Len(q) < MaxChunks
      /\ enq \in [addr : Nat, len : Nat] /\ write_tail \in DecSlot
  BY DEF TypeInv, TypeOK, ChunksTypeOK, LoopTypeOK, DecodedTypeOK
<1>2. NewLen \in ChunkLen /\ NewLen <= enq.len
  BY <1>1, Sizes DEF NewLen, ChunkLen, Min2, DecSlot
<1>3. c \in Chunk
  BY <1>1, <1>2 DEF Chunk
<1>4. /\ c.addr = enq.addr /\ c.start = write_tail /\ c.len = NewLen
      /\ c.pending <=> ~Misaligned /\ ~IgnoreAlignment /\ NewLen < WriteChunkSize
      /\ c.write_pending = FALSE
      /\ IgnoreAlignment => ~c.pending
  OBVIOUS
<1>5. write_chunks' = Append(q, c) /\ Len(q) + 1 < MaxChunks
  BY <1>1, Sizes, LenProperties DEF NewChunk, ChunkSpace
<1> HIDE DEF c
<1>6. /\ write_chunks' \in Seq(Chunk) /\ Len(write_chunks') = Len(q) + 1
      /\ \A i \in 1 .. Len(q) : write_chunks'[i] = q[i]
      /\ write_chunks'[Len(q) + 1] = c
  BY <1>1, <1>3, <1>5, AppendProperties
<1> QED
  BY <1>2, <1>4, <1>5, <1>6

\* What the steps of the enqueue loop have in common.
LEMMA EnqueueFrameType ==
  ASSUME TypeInv,
         UNCHANGED <<rawVars, decVars, decoded_tail, decoded_chunk_size, flagVars,
                     rx_timeout, calling, error, targetVars>>,
         write_chunks' \in Seq(Chunk), Len(write_chunks') < MaxChunks,
         write_chunks # <<>> =>
           /\ write_chunks' # <<>>
           /\ write_chunks'[1].start = write_chunks[1].start
           /\ write_chunks'[1].write_pending = write_chunks[1].write_pending,
         write_tail' \in DecSlot, enq' \in [addr : Nat, len : Nat],
         pc' \in {"top", "host", "enqueue"}, result' \in {result, "ERROR"}
  PROVE  TypeInv'
<1>1. DecodedTypeOK'
  BY DEF TypeInv, TypeOK, DecodedTypeOK, decVars
<1>2. ChunksTypeOK'
  BY DEF ChunksTypeOK
<1>3. LoopTypeOK'
  BY DEF TypeInv, TypeOK, LoopTypeOK
<1>4. OwnedIsFirst'
  BY DEF TypeInv, OwnedIsFirst, targetVars
<1> QED
  BY <1>1, <1>2, <1>3, <1>4, FramedTypes DEF TypeInv, TypeOK

\* bf_enqueue_for_writing(), one round.
LEMMA EnqueueForWritingType == TypeInv /\ EnqueueForWriting => TypeInv'
<1> SUFFICES ASSUME TypeInv, EnqueueForWriting
             PROVE  TypeInv'
  OBVIOUS
<1>0. UNCHANGED <<rawVars, decVars, decoded_tail, decoded_chunk_size, flagVars,
                  rx_timeout, calling, error, targetVars>>
  BY DEF EnqueueForWriting
<1>1. /\ write_chunks \in Seq(Chunk) /\ Len(write_chunks) < MaxChunks
      /\ write_tail \in DecSlot /\ enq \in [addr : Nat, len : Nat]
      /\ At("enqueue") /\ MaxChunks \in Nat
  BY Sizes DEF EnqueueForWriting, TypeInv, TypeOK, ChunksTypeOK, DecodedTypeOK, LoopTypeOK
<1>2. CASE FillPending
  <2>1. /\ Len(write_chunks) \in 1 .. MaxChunks - 1
        /\ write_chunks' \in Seq(Chunk) /\ Len(write_chunks') = Len(write_chunks)
        /\ \A i \in 1 .. Len(write_chunks) - 1 : write_chunks'[i] = write_chunks[i]
        /\ write_chunks'[Len(write_chunks)].start = LastChunk.start
        /\ write_chunks'[Len(write_chunks)].write_pending = LastChunk.write_pending
    BY <1>2, FillPendingEffect
  <2>2. /\ write_chunks'[1].start = write_chunks[1].start
        /\ write_chunks'[1].write_pending = write_chunks[1].write_pending
    <3>1. CASE Len(write_chunks) = 1
      BY <2>1, <3>1 DEF LastChunk
    <3>2. CASE Len(write_chunks) # 1
      BY <2>1, <3>2
    <3> QED
      BY <3>1, <3>2
  <2>3. write_chunks' # <<>>
    BY <2>1
  <2>4. /\ write_tail' \in DecSlot /\ enq' \in [addr : Nat, len : Nat]
        /\ pc' \in {"host", "enqueue"} /\ result' = result
    BY <1>2, FillPendingEffect, EnqueuedType
  <2> QED
    BY <1>0, <1>1, <2>1, <2>2, <2>3, <2>4, EnqueueFrameType
<1>3. CASE ClosePending
  <2>1. write_chunks # <<>>
    BY <1>3 DEF ClosePending, HasPendingChunk
  <2>2. 1 \in 1 .. Len(write_chunks)
    BY <1>1, <2>1, EmptySeq
  <2>3. /\ write_chunks' \in Seq(Chunk) /\ Len(write_chunks') = Len(write_chunks)
        /\ write_chunks'[1].start = write_chunks[1].start
        /\ write_chunks'[1].write_pending = write_chunks[1].write_pending
        /\ UNCHANGED <<enq, pc, write_tail, result>>
    BY <1>3, <2>2, ClosePendingEffect
  <2>4. write_chunks' # <<>>
    BY <2>2, <2>3
  <2> QED
    BY <1>0, <1>1, <2>3, <2>4, EnqueueFrameType DEF At
<1>4. CASE NewChunk
  <2>1. /\ write_chunks' \in Seq(Chunk) /\ Len(write_chunks') = Len(write_chunks) + 1
        /\ Len(write_chunks') < MaxChunks
        /\ \A i \in 1 .. Len(write_chunks) : write_chunks'[i] = write_chunks[i]
        /\ NewLen \in Nat /\ NewLen <= enq.len
    BY <1>4, NewChunkEffect, Sizes DEF ChunkLen
  <2>2. write_chunks # <<>> =>
          /\ write_chunks' # <<>>
          /\ write_chunks'[1].start = write_chunks[1].start
          /\ write_chunks'[1].write_pending = write_chunks[1].write_pending
    BY <1>1, <2>1, EmptySeq
  <2>3. /\ write_tail' \in DecSlot /\ enq' \in [addr : Nat, len : Nat]
        /\ pc' \in {"top", "host", "enqueue"} /\ result' \in {result, "ERROR"}
    <3>1. CASE Misaligned
      BY <1>1, <1>4, <3>1 DEF NewChunk, IterationFails
    <3>2. CASE ~Misaligned
      BY <1>4, <2>1, <3>2, EnqueuedType DEF NewChunk
    <3> QED
      BY <3>1, <3>2
  <2> QED
    BY <1>0, <2>1, <2>2, <2>3, EnqueueFrameType
<1>5. CASE NoChunkLeft
  BY <1>0, <1>1, <1>5, EnqueueFrameType DEF NoChunkLeft, IterationFails
<1> QED
  BY <1>2, <1>3, <1>4, <1>5 DEF EnqueueForWriting

\* Every step of the layer that does not decode keeps the types.
LEMMA LayerStepType ==
  TypeInv /\ (LoopStep \/ EnvironmentStep) => TypeInv'
BY LoopTopType, OnIdleType, HostIdleType, WriteNothingType, WriteErasesType,
   WriteHandsOverType, EnqueueForWritingType, ClientAppendsType, FlushStartType,
   ChunkAvailableOkType, ChunkAvailableFailsType, ChunkDoneType, ChunkFailsType,
   BetweenCommandsType, EraseEndsType
DEF LoopStep, EnvironmentStep

\* So does taking over the result of decode_chunk().
LEMMA AfterDecodeType ==
  ASSUME TypeInv, NEW stat \in Nat, NEW addr \in Nat, AfterDecode(stat, addr),
         UNCHANGED <<calling, dfuVars>>
  PROVE  LoopTypeOK' /\ decoded_chunk_size' \in Nat
BY DEF TypeInv, TypeOK, LoopTypeOK, DecodedTypeOK, AfterDecode, dfuVars

-----------------------------------------------------------------------------
(* The chunks tile the decoded ring *)

\* Offsets are slots, and so are the starts of chunks.
LEMMA Offsets ==
  ASSUME TypeInv
  PROVE  /\ \A i \in DecSlot : Offset(i) \in 0 .. DecodedSize - 1
         /\ \A i \in 1 .. Len(write_chunks) :
              /\ write_chunks[i] \in Chunk
              /\ write_chunks[i].start \in DecSlot /\ write_chunks[i].len \in ChunkLen
         /\ decoded_tail \in DecSlot /\ decoded_head \in DecSlot /\ write_tail \in DecSlot
         /\ DecCount = Offset(decoded_head) /\ Left \in Nat
         /\ Len(write_chunks) \in Nat
         /\ write_chunks = <<>> <=> Len(write_chunks) = 0
<1>1. decoded_tail \in DecSlot /\ decoded_head \in DecSlot /\ write_tail \in DecSlot
  BY DEF TypeInv, TypeOK, DecodedTypeOK
<1>2. \A i \in DecSlot : Offset(i) \in 0 .. DecodedSize - 1
  BY <1>1, Sizes, CountIsDistance DEF Offset, DecSlot
<1>3. write_chunks \in Seq(Chunk)
  BY DEF TypeInv, TypeOK, ChunksTypeOK
<1>4. \A i \in 1 .. Len(write_chunks) : write_chunks[i] \in Chunk
  BY <1>3, ElementOfSeq
<1>5. \A i \in 1 .. Len(write_chunks) :
        write_chunks[i].start \in DecSlot /\ write_chunks[i].len \in ChunkLen
  BY <1>4 DEF Chunk
<1>6. DecCount = Offset(decoded_head)
  BY DEF DecCount, Offset
<1>7. Left \in Nat
  BY DEF Left, TypeInv, TypeOK, LoopTypeOK
<1>8. Len(write_chunks) \in Nat /\ (write_chunks = <<>> <=> Len(write_chunks) = 0)
  BY <1>3, EmptySeq, LenProperties
<1> QED
  BY <1>1, <1>2, <1>4, <1>5, <1>6, <1>7, <1>8

\* The chunks of the queue.
LEMMA QueueFields ==
  ASSUME TypeInv
  PROVE  /\ Len(write_chunks) \in Nat
         /\ write_chunks = <<>> <=> Len(write_chunks) = 0
         /\ \A i \in 1 .. Len(write_chunks) :
              /\ write_chunks[i].addr \in Nat
              /\ write_chunks[i].start \in 0 .. DecodedSize - 1
              /\ write_chunks[i].len \in Nat /\ write_chunks[i].len <= WriteChunkSize
<1>1. \A i \in 1 .. Len(write_chunks) : write_chunks[i] \in Chunk
  BY Offsets
<1>2. \A c \in Chunk : /\ c.addr \in Nat /\ c.start \in 0 .. DecodedSize - 1
                       /\ c.len \in Nat /\ c.len <= WriteChunkSize
  BY Sizes DEF Chunk, ChunkLen, DecSlot
<1> QED
  BY <1>1, <1>2, Offsets

\* A step that changes no bounds of a chunk and no index of the ring, and has
\* no more to enqueue than before, keeps the tiling.
LEMMA TiledFramed ==
  ASSUME TypeInv, TypeInv', Tiled,
         UNCHANGED <<decoded_head, decoded_tail, write_tail>>,
         Len(write_chunks') = Len(write_chunks),
         \A i \in 1 .. Len(write_chunks) :
           /\ write_chunks'[i].start = write_chunks[i].start
           /\ write_chunks'[i].len = write_chunks[i].len,
         Left' <= Left
  PROVE  Tiled'
<1>1. Len(write_chunks) \in Nat /\ (write_chunks = <<>> <=> Len(write_chunks) = 0)
  BY Offsets
<1>2. write_chunks' = <<>> <=> Len(write_chunks') = 0
  BY EmptySeq DEF TypeInv, TypeOK, ChunksTypeOK
<1>3. Left \in Nat /\ Left' \in Nat
  BY DEF Left, TypeInv, TypeOK, LoopTypeOK
<1>4. /\ Offset(write_tail) \in Int /\ DecCount \in Int
      /\ DecCount' = DecCount /\ Offset(write_tail)' = Offset(write_tail)
  BY Offsets DEF DecCount, Offset
<1>5. Offset(write_tail)' + Left' <= DecCount'
  BY <1>3, <1>4 DEF Tiled
<1>6. IF write_chunks' = <<>> THEN write_tail' = decoded_tail'
      ELSE write_chunks'[1].start = decoded_tail' /\ ChunkEnd(LastChunk)' = write_tail'
  BY <1>1, <1>2 DEF Tiled, LastChunk, ChunkEnd
<1>7. \A i \in 1 .. Len(write_chunks') - 1 :
        Abut(write_chunks[i], write_chunks[i + 1])'
  BY <1>1 DEF Tiled, Abut, ChunkEnd
<1>8. \A i \in 1 .. Len(write_chunks') : EndsBy(write_chunks[i], Offset(write_tail))'
  BY <1>1, <1>4 DEF Tiled, EndsBy, Offset
<1>9. \A i, j \in 1 .. Len(write_chunks') :
        i < j => EndsBy(write_chunks[i], Offset(write_chunks[j].start))'
  BY <1>1 DEF Tiled, EndsBy, Offset
<1> QED
  BY <1>5, <1>6, <1>7, <1>8, <1>9 DEF Tiled

\* Freeing the first chunk takes its length from every offset.
LEMMA TiledAfterPut ==
  ASSUME TypeInv, TypeInv', Tiled, write_chunks # <<>>, PutWriteChunk,
         UNCHANGED <<decoded_head, write_tail>>, Left' = Left
  PROVE  Tiled'
<1> DEFINE n == write_chunks[1].len
           k == Len(write_chunks)
<1>1. /\ k \in Nat /\ k >= 1
      /\ Len(write_chunks') = k - 1
      /\ \A i \in 1 .. k - 1 : write_chunks'[i] = write_chunks[i + 1]
      /\ write_chunks' = <<>> <=> k - 1 = 0
  <2>1. write_chunks \in Seq(Chunk) /\ write_chunks' \in Seq(Chunk)
    BY DEF TypeInv, TypeOK, ChunksTypeOK
  <2> QED
    BY <2>1, PutQueue, EmptySeq, Offsets
<1>2. /\ write_chunks[1].start = decoded_tail /\ n \in Nat
      /\ decoded_tail' = Mask(decoded_tail + n, DecodedSize)
      /\ decoded_tail' = ChunkEnd(write_chunks[1])
  BY <1>1, Offsets, Sizes DEF Tiled, PutWriteChunk, ChunkLen, ChunkEnd
<1>3. Offset(decoded_tail) = 0
  BY Offsets, Sizes, CountIsDistance DEF Offset, DecSlot
<1>4. ASSUME NEW i \in DecSlot, n <= Offset(i)
      PROVE  RingCount(i, decoded_tail', DecodedSize) = Offset(i) - n
  <2>1. i \in 0 .. DecodedSize - 1 /\ decoded_tail \in 0 .. DecodedSize - 1
    BY Offsets DEF DecSlot
  <2> HIDE DEF n
  <2> QED
    BY <1>2, <1>4, <2>1, Sizes, CountAfterFreeing DEF Offset
<1>5. n <= Offset(write_tail) /\ n <= DecCount
  BY <1>1, <1>2, <1>3, Offsets DEF Tiled, EndsBy
<1>6. \A j \in 2 .. k : n <= Offset(write_chunks[j].start)
  BY <1>1, <1>2, <1>3, Offsets DEF Tiled, EndsBy
<1>7. /\ Offset(write_tail)' = Offset(write_tail) - n
      /\ DecCount' = DecCount - n
  BY <1>4, <1>5, Offsets DEF Offset, DecCount
<1>8. \A j \in 2 .. k :
        RingCount(write_chunks[j].start, decoded_tail', DecodedSize)
          = Offset(write_chunks[j].start) - n
  BY <1>1, <1>4, <1>6, Offsets
<1>9. IF write_chunks' = <<>> THEN write_tail' = decoded_tail'
      ELSE write_chunks'[1].start = decoded_tail' /\ ChunkEnd(LastChunk)' = write_tail'
  BY <1>1, <1>2 DEF Tiled, Abut, LastChunk, ChunkEnd
<1>10. \A i \in 1 .. Len(write_chunks') - 1 :
         Abut(write_chunks[i], write_chunks[i + 1])'
  BY <1>1 DEF Tiled, Abut, ChunkEnd
<1>11. \A i \in 1 .. Len(write_chunks') : EndsBy(write_chunks[i], Offset(write_tail))'
  <2> SUFFICES ASSUME NEW i \in 1 .. k - 1
               PROVE  EndsBy(write_chunks[i], Offset(write_tail))'
    BY <1>1
  <2>1. i + 1 \in 2 .. k /\ i + 1 \in 1 .. k
    BY <1>1
  <2>2. EndsBy(write_chunks[i + 1], Offset(write_tail))
    BY <2>1 DEF Tiled
  <2>3. /\ Offset(write_chunks[i + 1].start) \in Int /\ write_chunks[i + 1].len \in Int
        /\ Offset(write_tail) \in Int
    BY <2>1, Offsets, Sizes DEF ChunkLen
  <2> HIDE DEF n, k
  <2> QED
    BY <1>1, <1>2, <1>7, <1>8, <2>1, <2>2, <2>3 DEF EndsBy, Offset
<1>12. \A i, j \in 1 .. Len(write_chunks') :
         i < j => EndsBy(write_chunks[i], Offset(write_chunks[j].start))'
  <2> SUFFICES ASSUME NEW i \in 1 .. k - 1, NEW j \in 1 .. k - 1, i < j
               PROVE  EndsBy(write_chunks[i], Offset(write_chunks[j].start))'
    BY <1>1
  <2>1. /\ i + 1 \in 2 .. k /\ i + 1 \in 1 .. k
        /\ j + 1 \in 2 .. k /\ j + 1 \in 1 .. k /\ i + 1 < j + 1
    BY <1>1
  <2>2. EndsBy(write_chunks[i + 1], Offset(write_chunks[j + 1].start))
    BY <2>1 DEF Tiled
  <2>3. /\ Offset(write_chunks[i + 1].start) \in Int /\ write_chunks[i + 1].len \in Int
        /\ Offset(write_chunks[j + 1].start) \in Int
    BY <2>1, Offsets, Sizes DEF ChunkLen
  <2>4. write_chunks'[i] = write_chunks[i + 1] /\ write_chunks'[j] = write_chunks[j + 1]
    BY <1>1
  <2>5. /\ Offset(write_chunks[i].start)' = Offset(write_chunks[i + 1].start) - n
        /\ Offset(write_chunks[j].start)' = Offset(write_chunks[j + 1].start) - n
    BY <1>8, <2>1, <2>4 DEF Offset
  <2>6. Offset(write_chunks[i + 1].start) + write_chunks[i + 1].len
          <= Offset(write_chunks[j + 1].start)
    BY <2>2 DEF EndsBy
  <2>7. Offset(write_chunks[i].start)' + write_chunks'[i].len
          <= Offset(write_chunks[j].start)'
    <3> HIDE DEF n
    <3> QED
      BY ONLY <1>2, <2>3, <2>4, <2>5, <2>6
  <2> QED
    BY <2>7 DEF EndsBy
<1>13. Offset(write_tail)' + Left' <= DecCount'
  <2>1. Offset(write_tail) \in Int /\ DecCount \in Int /\ Left \in Int
    BY Offsets
  <2> HIDE DEF n
  <2> QED
    BY <1>2, <1>7, <2>1 DEF Tiled
<1> QED
  BY <1>9, <1>10, <1>11, <1>12, <1>13 DEF Tiled

\* One round of the enqueue loop moves write_tail by what it put in a chunk.
LEMMA EnqueuedOffsets ==
  ASSUME TypeInv, TypeInv', Tiled, pc = "enqueue",
         NEW n \in Nat, n <= enq.len, Enqueued(n),
         UNCHANGED <<decoded_head, decoded_tail>>
  PROVE  /\ write_tail' = Mask(write_tail + n, DecodedSize)
         /\ Offset(write_tail)' = Offset(write_tail) + n
         /\ Offset(write_tail)' + Left' <= DecCount'
<1>1. enq \in [addr : Nat, len : Nat]
  BY DEF TypeInv, TypeOK, LoopTypeOK
<1>2. /\ write_tail' = Mask(write_tail + n, DecodedSize)
      /\ enq'.len = enq.len - n /\ pc' = IF enq.len = n THEN "host" ELSE "enqueue"
  BY DEF Enqueued
<1>3. /\ Offset(write_tail) \in Nat /\ DecCount \in Nat /\ DecCount <= DecodedSize - 1
      /\ write_tail \in 0 .. DecodedSize - 1 /\ decoded_tail \in 0 .. DecodedSize - 1
  BY Offsets, Sizes DEF DecSlot
<1>4. Offset(write_tail) + enq.len <= DecCount
  BY DEF Tiled, Left
<1>5. Offset(write_tail) + n <= DecodedSize - 1
  BY <1>1, <1>3, <1>4, Sizes
<1>6. RingCount(Mask(write_tail + n, DecodedSize), decoded_tail, DecodedSize)
        = Offset(write_tail) + n
  BY <1>3, <1>5, Sizes, CountAfterFilling DEF Offset
<1>7. Offset(write_tail)' = Offset(write_tail) + n /\ DecCount' = DecCount
  BY <1>2, <1>6 DEF Offset, DecCount
<1>8. Left' <= enq.len - n
  BY <1>1, <1>2 DEF Left
<1>9. Left' \in Int
  BY <1>1, <1>2 DEF Left
<1> QED
  BY <1>1, <1>2, <1>3, <1>4, <1>7, <1>8, <1>9

\* Filling the last chunk moves its end and write_tail together.
LEMMA TiledAfterFill ==
  ASSUME TypeInv, TypeInv', Tiled, pc = "enqueue", FillPending,
         UNCHANGED <<decoded_head, decoded_tail>>
  PROVE  Tiled'
<1> DEFINE k == Len(write_chunks)
<1>1. PICK n \in Nat :
        /\ n <= enq.len /\ LastChunk.len + n <= WriteChunkSize
        /\ Enqueued(n)
        /\ Len(write_chunks') = k
        /\ \A i \in 1 .. k - 1 : write_chunks'[i] = write_chunks[i]
        /\ write_chunks'[k].start = LastChunk.start
        /\ write_chunks'[k].len = LastChunk.len + n
  BY FillPendingEffect
<1>2. /\ k \in Nat /\ k >= 1 /\ write_chunks # <<>> /\ write_chunks' # <<>>
      /\ LastChunk = write_chunks[k]
  BY <1>1, FillPendingEffect, Sizes, Offsets, EmptySeq
  DEF LastChunk, TypeInv, TypeOK, ChunksTypeOK
<1>3. /\ write_tail' = Mask(write_tail + n, DecodedSize)
      /\ Offset(write_tail)' = Offset(write_tail) + n
      /\ Offset(write_tail)' + Left' <= DecCount'
  BY <1>1, EnqueuedOffsets
<1>4. /\ write_tail = Mask(LastChunk.start + LastChunk.len, DecodedSize)
      /\ LastChunk.start \in 0 .. DecodedSize - 1 /\ LastChunk.len \in Nat
      /\ LastChunk.len + n <= DecodedSize - 1
  <2>1. write_tail = Mask(LastChunk.start + LastChunk.len, DecodedSize)
    BY <1>2 DEF Tiled, ChunkEnd
  <2>2. LastChunk.start \in DecSlot /\ LastChunk.len \in ChunkLen
    BY <1>2, Offsets
  <2> QED
    BY <1>1, <2>1, <2>2, Sizes DEF ChunkLen, DecSlot
<1>5. \A i \in 1 .. k : write_chunks'[i].start = write_chunks[i].start
  BY <1>1, <1>2
<1>6. \A i \in 1 .. k :
        /\ Offset(write_chunks[i].start)' = Offset(write_chunks[i].start)
        /\ Offset(write_chunks[i].start) \in Int /\ write_chunks[i].len \in Int
  BY <1>5, Offsets, Sizes DEF Offset, ChunkLen
<1>7. Offset(write_tail) \in Int
  BY Offsets
<1>8. write_chunks'[1].start = decoded_tail' /\ ChunkEnd(LastChunk)' = write_tail'
  <2>1. Mask(LastChunk.start + (LastChunk.len + n), DecodedSize) = write_tail'
    <3>1. Mask(Mask(LastChunk.start + LastChunk.len, DecodedSize) + n, DecodedSize)
            = Mask(LastChunk.start + LastChunk.len + n, DecodedSize)
      BY ONLY <1>4, Sizes, n \in Nat, MaskTwice
    <3>2. LastChunk.start + LastChunk.len + n = LastChunk.start + (LastChunk.len + n)
      BY <1>4
    <3> QED
      BY <1>3, <1>4, <3>1, <3>2
  <2>2. LastChunk'.start = LastChunk.start /\ LastChunk'.len = LastChunk.len + n
    BY <1>1 DEF LastChunk
  <2>3. write_chunks'[1].start = decoded_tail'
    BY <1>2, <1>5 DEF Tiled
  <2> QED
    BY <2>1, <2>2, <2>3 DEF ChunkEnd
<1>9. \A i \in 1 .. k - 1 : Abut(write_chunks[i], write_chunks[i + 1])'
  <2> SUFFICES ASSUME NEW i \in 1 .. k - 1
               PROVE  Abut(write_chunks[i], write_chunks[i + 1])'
    OBVIOUS
  <2>1. i + 1 \in 1 .. k /\ Abut(write_chunks[i], write_chunks[i + 1])
    BY <1>2 DEF Tiled
  <2>2. /\ write_chunks'[i] = write_chunks[i]
        /\ write_chunks'[i + 1].start = write_chunks[i + 1].start
    BY <1>1, <1>5, <2>1
  <2> QED
    BY <2>1, <2>2 DEF Abut, ChunkEnd
<1>10. \A i \in 1 .. k : EndsBy(write_chunks[i], Offset(write_tail))'
  <2> SUFFICES ASSUME NEW i \in 1 .. k
               PROVE  EndsBy(write_chunks[i], Offset(write_tail))'
    OBVIOUS
  <2>1. Offset(write_chunks[i].start) + write_chunks[i].len <= Offset(write_tail)
    BY DEF Tiled, EndsBy
  <2>2. write_chunks'[i].len <= write_chunks[i].len + n /\ write_chunks'[i].len \in Int
    <3>1. CASE i = k
      BY <1>1, <1>2, <1>6, <3>1
    <3>2. CASE i # k
      <4>1. write_chunks'[i] = write_chunks[i]
        BY <1>1, <1>2, <3>2
      <4>2. write_chunks[i].len \in Int
        BY <1>6
      <4> QED
        BY <4>1, <4>2
    <3> QED
      BY <3>1, <3>2
  <2>3. Offset(write_chunks[i].start)' + write_chunks'[i].len <= Offset(write_tail)'
    BY <1>3, <1>6, <1>7, <2>1, <2>2
  <2> QED
    BY <2>3 DEF EndsBy
<1>11. \A i, j \in 1 .. k :
         i < j => EndsBy(write_chunks[i], Offset(write_chunks[j].start))'
  <2> SUFFICES ASSUME NEW i \in 1 .. k, NEW j \in 1 .. k, i < j
               PROVE  EndsBy(write_chunks[i], Offset(write_chunks[j].start))'
    OBVIOUS
  <2>1. Offset(write_chunks[i].start) + write_chunks[i].len
          <= Offset(write_chunks[j].start)
    BY DEF Tiled, EndsBy
  <2>2. write_chunks'[i] = write_chunks[i]
    BY <1>1, <1>2
  <2>3. Offset(write_chunks[i].start)' + write_chunks'[i].len
          <= Offset(write_chunks[j].start)'
    BY <1>6, <2>1, <2>2
  <2> QED
    BY <2>3 DEF EndsBy
<1> QED
  BY <1>1, <1>2, <1>3, <1>8, <1>9, <1>10, <1>11 DEF Tiled

\* A new chunk starts where the last one ends, at write_tail.
LEMMA TiledAfterNew ==
  ASSUME TypeInv, TypeInv', Tiled, pc = "enqueue", NewChunk, ~Misaligned,
         UNCHANGED <<decoded_head, decoded_tail>>
  PROVE  Tiled'
<1> DEFINE k == Len(write_chunks)
           n == NewLen
<1>1. /\ Len(write_chunks') = k + 1
      /\ \A i \in 1 .. k : write_chunks'[i] = write_chunks[i]
      /\ write_chunks'[k + 1].start = write_tail
      /\ write_chunks'[k + 1].len = n
      /\ n \in Nat /\ n <= enq.len
  BY NewChunkEffect, Sizes DEF ChunkLen
<1>2. k \in Nat /\ (write_chunks = <<>> <=> k = 0) /\ write_chunks' # <<>>
  BY <1>1, Offsets, EmptySeq
<1>3. /\ write_tail' = Mask(write_tail + n, DecodedSize)
      /\ Offset(write_tail)' = Offset(write_tail) + n
      /\ Offset(write_tail)' + Left' <= DecCount'
  <2>1. Enqueued(n)
    BY DEF NewChunk
  <2> HIDE DEF n
  <2> QED
    BY <1>1, <2>1, EnqueuedOffsets
<1> HIDE DEF n
<1>4. \A i \in 1 .. k :
        /\ Offset(write_chunks[i].start)' = Offset(write_chunks[i].start)
        /\ Offset(write_chunks[i].start) \in Int /\ write_chunks[i].len \in Int
  BY <1>1, Offsets, Sizes DEF Offset, ChunkLen
<1>5. /\ Offset(write_tail) \in Int
      /\ RingCount(write_chunks'[k + 1].start, decoded_tail', DecodedSize)
           = Offset(write_tail)
  BY <1>1, Offsets DEF Offset
<1>6. write_chunks'[1].start = decoded_tail' /\ ChunkEnd(LastChunk)' = write_tail'
  <2>1. LastChunk'.start = write_tail /\ LastChunk'.len = n
    BY <1>1 DEF LastChunk
  <2>2. ChunkEnd(LastChunk)' = write_tail'
    BY <1>3, <2>1 DEF ChunkEnd
  <2>3. write_chunks'[1].start = decoded_tail'
    <3>1. CASE k = 0
      BY <1>1, <1>2, <3>1 DEF Tiled
    <3>2. CASE k # 0
      BY <1>1, <1>2, <3>2 DEF Tiled
    <3> QED
      BY <3>1, <3>2
  <2> QED
    BY <2>2, <2>3
<1>7. \A i \in 1 .. k : Abut(write_chunks[i], write_chunks[i + 1])'
  <2> SUFFICES ASSUME NEW i \in 1 .. k
               PROVE  Abut(write_chunks[i], write_chunks[i + 1])'
    OBVIOUS
  <2>1. CASE i = k
    BY <1>1, <1>2, <2>1 DEF Tiled, Abut, ChunkEnd, LastChunk
  <2>2. CASE i # k
    BY <1>1, <1>2, <2>2 DEF Tiled, Abut, ChunkEnd
  <2> QED
    BY <2>1, <2>2
<1>8. \A i \in 1 .. k : Offset(write_chunks[i].start) + write_chunks[i].len
                          <= Offset(write_tail)
  BY DEF Tiled, EndsBy
<1>9. \A i \in 1 .. k + 1 : EndsBy(write_chunks[i], Offset(write_tail))'
  <2> SUFFICES ASSUME NEW i \in 1 .. k + 1
               PROVE  EndsBy(write_chunks[i], Offset(write_tail))'
    OBVIOUS
  <2>1. CASE i = k + 1
    BY <1>1, <1>3, <1>5, <2>1 DEF EndsBy, Offset
  <2>2. CASE i # k + 1
    <3>1. i \in 1 .. k
      BY <1>2, <2>2
    <3>2. Offset(write_chunks[i].start)' + write_chunks'[i].len <= Offset(write_tail)'
      BY <1>1, <1>3, <1>4, <1>5, <1>8, <3>1
    <3> QED
      BY <3>2 DEF EndsBy
  <2> QED
    BY <2>1, <2>2
<1>10. \A i, j \in 1 .. k + 1 :
         i < j => EndsBy(write_chunks[i], Offset(write_chunks[j].start))'
  <2> SUFFICES ASSUME NEW i \in 1 .. k + 1, NEW j \in 1 .. k + 1, i < j
               PROVE  EndsBy(write_chunks[i], Offset(write_chunks[j].start))'
    OBVIOUS
  <2>1. i \in 1 .. k /\ write_chunks'[i] = write_chunks[i]
    BY <1>1, <1>2
  <2>2. CASE j = k + 1
    <3>1. Offset(write_chunks[j].start)' = Offset(write_tail)
      BY <1>5, <2>2 DEF Offset
    <3> QED
      BY <1>4, <1>8, <2>1, <3>1 DEF EndsBy
  <2>3. CASE j # k + 1
    <3>1. j \in 1 .. k
      BY <1>2, <2>3
    <3>2. Offset(write_chunks[i].start) + write_chunks[i].len
            <= Offset(write_chunks[j].start)
      BY <2>1, <3>1 DEF Tiled, EndsBy
    <3> QED
      BY <1>4, <2>1, <3>1, <3>2 DEF EndsBy
  <2> QED
    BY <2>2, <2>3
<1> QED
  BY <1>1, <1>2, <1>3, <1>6, <1>7, <1>9, <1>10 DEF Tiled

\* A target that does not run the loop inside chunk_available() is only called
\* while nothing else goes on, so that an error of the enqueue loop ends the
\* upload.
CalledAtTop == NestedIdle \/ (calling => pc = "top")

\* Tiled, until an error is reported.
Covered == result # "ERROR" => Tiled

TilingInv == Covered /\ CalledAtTop

\* No chunk is refused as misaligned while chunk_available() runs: the loop
\* would go on.
NoneRefused == calling /\ EnqueueForWriting => ~(NewChunk /\ Misaligned)

\* A round of the enqueue loop keeps the tiling, or ends the upload.
LEMMA EnqueueKeepsTiling ==
  ASSUME TypeInv, TypeInv', NoneRefused, TilingInv, EnqueueForWriting
  PROVE  TilingInv'
<1>1. /\ pc = "enqueue" /\ result = "CONTINUE" /\ Tiled
      /\ UNCHANGED <<decoded_head, decoded_tail, calling>>
  BY DEF EnqueueForWriting, At, TilingInv, Covered, decVars
<1>2. NestedIdle \/ ~calling
  BY <1>1 DEF TilingInv, CalledAtTop
<1>3. CalledAtTop'
  BY <1>1, <1>2 DEF CalledAtTop
<1> SUFFICES Covered'
  BY <1>3 DEF TilingInv
<1>4. UNCHANGED <<decoded_head, decoded_tail>>
  BY <1>1
<1>5. ASSUME IterationFails,
             calling => UNCHANGED <<write_tail, write_chunks, enq>>
      PROVE  Covered'
  <2>1. CASE calling
    <3>1. UNCHANGED <<write_tail, write_chunks, enq>>
      BY <1>5, <2>1
    <3>2. Left' <= Left
      BY <1>1, <1>5, <3>1 DEF Left, IterationFails, TypeInv, TypeOK, LoopTypeOK
    <3> QED
      BY <1>1, <3>1, <3>2, TiledFramed DEF Covered
  <2>2. CASE ~calling
    BY <1>5, <2>2 DEF IterationFails, Covered
  <2> QED
    BY <2>1, <2>2
<1>6. CASE FillPending
  <2>1. Tiled'
    BY ONLY <1>1, <1>4, <1>6, TypeInv, TypeInv', TiledAfterFill
  <2> QED
    BY <2>1 DEF Covered
<1>7. CASE ClosePending
  <2>1. UNCHANGED <<write_tail, pc, enq>>
    BY <1>7 DEF ClosePending
  <2>2. Left' <= Left
    BY <2>1, Offsets DEF Left
  <2>3. /\ Len(write_chunks') = Len(write_chunks)
        /\ \A i \in 1 .. Len(write_chunks) :
             /\ write_chunks'[i].start = write_chunks[i].start
             /\ write_chunks'[i].len = write_chunks[i].len
    BY <1>7, ClosePendingEffect
  <2>4. Tiled'
    BY <1>1, <2>1, <2>2, <2>3, TiledFramed
  <2> QED
    BY <2>4 DEF Covered
<1>8. CASE NewChunk
  <2>1. CASE Misaligned
    <3>1. ~calling
      BY <1>8, <2>1 DEF NoneRefused
    <3>2. IterationFails
      BY <1>8, <2>1 DEF NewChunk
    <3> QED
      BY <1>5, <3>1, <3>2
  <2>2. CASE ~Misaligned
    <3>1. Tiled'
      BY ONLY <1>1, <1>4, <1>8, <2>2, TypeInv, TypeInv', TiledAfterNew
    <3> QED
      BY <3>1 DEF Covered
  <2> QED
    BY <2>1, <2>2
<1>9. CASE NoChunkLeft
  BY <1>5, <1>9 DEF NoChunkLeft
<1> QED
  BY <1>6, <1>7, <1>8, <1>9 DEF EnqueueForWriting

\* Steps that leave the ring and the bounds of the chunks alone.
LEMMA TilingFramed ==
  ASSUME TypeInv, TypeInv', Covered, result = "CONTINUE",
         UNCHANGED <<decoded_head, decoded_tail, write_tail, enq>>,
         Len(write_chunks') = Len(write_chunks),
         \A i \in 1 .. Len(write_chunks) :
           /\ write_chunks'[i].start = write_chunks[i].start
           /\ write_chunks'[i].len = write_chunks[i].len,
         pc' = "enqueue" => pc = "enqueue"
  PROVE  Covered'
<1>1. Left' <= Left
  BY DEF Left, TypeInv, TypeOK, LoopTypeOK
<1> QED
  BY <1>1, TiledFramed DEF Covered

\* So does every other step of the layer.
LEMMA LayerKeepsTiling ==
  ASSUME TypeInv, TypeInv', NoneRefused, TilingInv,
         LoopStep \/ EnvironmentStep
  PROVE  TilingInv'
<1>1. Covered /\ CalledAtTop
  BY DEF TilingInv
<1>2. CASE LoopTop
  <2>1. /\ result = "CONTINUE" /\ pc = "top" /\ pc' # "enqueue"
        /\ UNCHANGED <<decoded_head, decoded_tail, write_tail, enq, calling, write_chunks>>
        /\ calling => NestedIdle
    BY <1>2 DEF LoopTop, At, decVars, tailVars
  <2> QED
    BY <1>1, <2>1, TilingFramed DEF TilingInv, CalledAtTop
<1>3. CASE OnIdle \/ HostIdle \/ WriteNothing \/ WriteErases
  <2>1. /\ result = "CONTINUE" /\ pc # "top" /\ pc' # "enqueue"
        /\ UNCHANGED <<decoded_head, decoded_tail, write_tail, enq, calling, write_chunks>>
    BY <1>3 DEF OnIdle, HostIdle, WriteNothing, WriteErases, At, decVars, tailVars
  <2> QED
    BY <1>1, <2>1, TilingFramed DEF TilingInv, CalledAtTop
<1>4. CASE WriteHandsOver
  <2>1. /\ result = "CONTINUE" /\ pc' = "top"
        /\ UNCHANGED <<decoded_head, decoded_tail, write_tail, enq>>
    BY <1>4 DEF WriteHandsOver, At, decVars, tailVars
  <2>2. /\ Len(write_chunks') = Len(write_chunks)
        /\ \A i \in 1 .. Len(write_chunks) :
             /\ write_chunks'[i].start = write_chunks[i].start
             /\ write_chunks'[i].len = write_chunks[i].len
    <3> DEFINE c == [write_chunks[1] EXCEPT !.write_pending = TRUE]
    <3>1. write_chunks \in Seq(Chunk) /\ 1 \in 1 .. Len(write_chunks)
      BY <1>4, EmptySeq
      DEF WriteHandsOver, HasNextWriteChunk, TypeInv, TypeOK, ChunksTypeOK
    <3>2. write_chunks[1] \in Chunk
      BY <3>1, ElementOfSeq
    <3>3. c \in Chunk /\ c.start = write_chunks[1].start /\ c.len = write_chunks[1].len
      BY <3>2 DEF Chunk
    <3>4. write_chunks' = [write_chunks EXCEPT ![1] = c]
      BY <1>4, <3>1, LenProperties DEF WriteHandsOver
    <3> HIDE DEF c
    <3>5. /\ Len(write_chunks') = Len(write_chunks)
          /\ \A i \in 1 .. Len(write_chunks) :
               write_chunks'[i] = IF i = 1 THEN c ELSE write_chunks[i]
      BY ONLY <3>1, <3>3, <3>4, SetElement
    <3> QED
      BY <3>3, <3>5
  <2> QED
    BY <1>1, <2>1, <2>2, TilingFramed DEF TilingInv, CalledAtTop
<1>5. CASE EnqueueForWriting
  BY <1>5, EnqueueKeepsTiling
<1>6. CASE ClientAppends \/ FlushStart \/ ChunkFails \/ BetweenCommands \/ EraseEnds
  <2>1. /\ result = "CONTINUE"
        /\ UNCHANGED <<decoded_head, decoded_tail, write_tail, enq, calling, write_chunks, pc>>
    <3>1. CASE ClientAppends
      BY <3>1 DEF ClientAppends, AtEvents, At, decVars, tailVars
    <3>2. CASE FlushStart
      BY <3>2 DEF FlushStart, At, decVars, tailVars
    <3>3. CASE ChunkFails \/ BetweenCommands \/ EraseEnds
      BY <3>3 DEF ChunkFails, BetweenCommands, EraseEnds, AnswerArrives,
                  InChunkAvailable, AtEvents, At, decVars, tailVars
    <3> QED
      BY <1>6, <3>1, <3>2, <3>3
  <2> QED
    BY <1>1, <2>1, TilingFramed DEF TilingInv, CalledAtTop
<1>7. CASE ChunkAvailableOk
  <2>1. /\ result = "CONTINUE" /\ pc' # "enqueue" /\ calling' = FALSE
        /\ UNCHANGED <<decoded_head, decoded_tail, write_tail, enq, write_chunks>>
    BY <1>7 DEF ChunkAvailableOk, At, decVars, tailVars
  <2> QED
    BY <1>1, <2>1, TilingFramed DEF TilingInv, CalledAtTop
<1>8. CASE ChunkAvailableFails
  BY <1>8 DEF ChunkAvailableFails, TilingInv, Covered, CalledAtTop
<1>9. CASE ChunkDone
  <2>1. /\ result = "CONTINUE" /\ Tiled /\ PutWriteChunk
        /\ UNCHANGED <<decoded_head, write_tail, enq, pc, calling>>
    BY <1>1, <1>9 DEF ChunkDone, AnswerArrives, InChunkAvailable, AtEvents, At,
                      Covered, decVars
  <2>2. write_chunks # <<>>
    BY <1>9 DEF ChunkDone, TypeInv, OwnedIsFirst
  <2>3. Left' = Left
    BY <2>1 DEF Left
  <2>4. Tiled'
    BY <2>1, <2>2, <2>3, TiledAfterPut
  <2> QED
    BY <1>1, <2>1, <2>4 DEF TilingInv, Covered, CalledAtTop
<1> QED
  BY <1>2, <1>3, <1>4, <1>5, <1>6, <1>7, <1>8, <1>9 DEF LoopStep, EnvironmentStep

\* Decoding moves decoded_head by what there is to enqueue.
LEMMA TiledAfterDecode ==
  ASSUME TypeInv, TypeInv', Tiled, pc = "decode",
         NEW n \in Nat, n <= DecSpace, NEW addr, AfterDecode(n, addr),
         decoded_head' = Mask(decoded_head + n, DecodedSize),
         UNCHANGED <<decoded_tail, write_tail, write_chunks>>
  PROVE  Tiled'
<1>1. /\ DecCount \in Nat /\ DecCount + DecSpace = DecodedSize - 1
      /\ DecSpace \in Nat
      /\ decoded_head \in 0 .. DecodedSize - 1 /\ decoded_tail \in 0 .. DecodedSize - 1
  BY Offsets, Sizes, CountPlusSpace DEF DecCount, DecSpace, DecSlot
<1>2. DecCount + n <= DecodedSize - 1
  BY <1>1, Sizes
<1>3. DecCount' = DecCount + n
  BY <1>1, <1>2, Sizes, CountAfterFilling DEF DecCount
<1>4. Left' <= n /\ Left' \in Int
  BY DEF Left, AfterDecode
<1>5. Offset(write_tail) <= DecCount /\ Offset(write_tail) \in Int
  BY Offsets DEF Tiled, Left
<1>6. Offset(write_tail)' = Offset(write_tail)
  BY DEF Offset
<1>7. Offset(write_tail)' + Left' <= DecCount'
  BY <1>1, <1>3, <1>4, <1>5, <1>6
<1>8. \A i, j : EndsBy(write_chunks[i], Offset(write_chunks[j].start))
                  => EndsBy(write_chunks[i], Offset(write_chunks[j].start))'
  BY DEF EndsBy, Offset
<1>9. \A i : EndsBy(write_chunks[i], Offset(write_tail))
               => EndsBy(write_chunks[i], Offset(write_tail))'
  BY <1>6 DEF EndsBy, Offset
<1> QED
  BY <1>7, <1>8, <1>9 DEF Tiled, Abut, ChunkEnd, LastChunk

-----------------------------------------------------------------------------
(* The flags of the file *)

\* What the steps of the layer do to the flags: an end that came early stays so.
LEMMA LayerKeepsFlags ==
  LoopStep \/ EnvironmentStep =>
    /\ UNCHANGED rx_done /\ (written => written') /\ (early => early')
    /\ ~ClientAppends => UNCHANGED <<rawVars, written, early>>
<1>1. ClientAppends => /\ UNCHANGED rx_done /\ (written => written') /\ (early => early')
  <2>1. ClientAppends => UNCHANGED rx_done /\ (early => early')
    BY Zenon DEF ClientAppends
  <2> QED
    BY <2>1 DEF ClientAppends, AppendsBlock, AppendsNothing
<1>2. LoopStep => UNCHANGED <<rx_done, rawVars, written, early>>
  <2>1. LoopStep => UNCHANGED <<rawVars, flagVars>>
    BY DEF LoopStep, LoopTop, OnIdle, HostIdle, WriteNothing, WriteErases, WriteHandsOver,
           EnqueueForWriting
  <2> QED
    BY <2>1 DEF flagVars
<1>3. EnvironmentStep /\ ~ClientAppends => UNCHANGED <<rx_done, rawVars, written, early>>
  BY DEF EnvironmentStep, FlushStart, ChunkAvailableOk, ChunkAvailableFails, ChunkDone,
         ChunkFails, BetweenCommands, EraseEnds, flagVars
<1> QED
  BY <1>1, <1>2, <1>3, Zenon

-----------------------------------------------------------------------------
(* Chunks in flight do not grow *)

\* A chunk that is not full, and may still be filled, has been handed over.
OpenHanded ==
  /\ write_chunks # <<>>
  /\ write_chunks[1].write_pending /\ write_chunks[1].pending

\* Only the first chunk is in flight; if it is not full the file has ended, and
\* nothing is being cut into chunks.
InFlightClosed ==
  /\ \A i \in 1 .. Len(write_chunks) : write_chunks[i].write_pending => i = 1
  /\ ~early => (OpenHanded => written /\ pc # "enqueue")
  /\ ~early => (owned # NoChunk => owned.len = write_chunks[1].len)

\* A step that leaves the queue alone and hands nothing out.
LEMMA InFlightFramed ==
  ASSUME InFlightClosed, UNCHANGED write_chunks, written => written',
         early => early', owned' \in {owned, NoChunk},
         pc' # "enqueue" \/ pc' = pc \/ early \/ ~OpenHanded
  PROVE  InFlightClosed'
BY DEF InFlightClosed, OpenHanded

\* Freeing the first chunk when the target has it no longer.
LEMMA InFlightAfterPut ==
  ASSUME TypeInv, InFlightClosed, write_chunks # <<>>, PutWriteChunk,
         owned' = NoChunk
  PROVE  InFlightClosed'
<1>1. write_chunks \in Seq(Chunk)
  BY DEF TypeInv, TypeOK, ChunksTypeOK
<1>2. /\ Len(write_chunks) \in Nat /\ Len(write_chunks') = Len(write_chunks) - 1
      /\ \A i \in 1 .. Len(write_chunks') : write_chunks'[i] = write_chunks[i + 1]
      /\ write_chunks' \in Seq(Chunk)
  BY <1>1, PutQueue, LenProperties
<1>3. \A i \in 1 .. Len(write_chunks') : i + 1 \in 1 .. Len(write_chunks) /\ i + 1 # 1
  BY <1>2
<1>4. \A i \in 1 .. Len(write_chunks') : ~write_chunks'[i].write_pending
  BY <1>2, <1>3 DEF InFlightClosed
<1>5. write_chunks' # <<>> => 1 \in 1 .. Len(write_chunks')
  BY <1>2, EmptySeq, LenProperties
<1> QED
  BY <1>4, <1>5 DEF InFlightClosed, OpenHanded

\* The chunk that is handed over is full, or the last one of a file that ended.
LEMMA InFlightHandsOver ==
  ASSUME TypeInv, InFlightClosed, WriteHandsOver
  PROVE  InFlightClosed'
<1> DEFINE q == write_chunks
           c == [q[1] EXCEPT !.write_pending = TRUE]
<1>1. q \in Seq(Chunk) /\ 1 \in 1 .. Len(q) /\ q # <<>>
  BY EmptySeq DEF WriteHandsOver, HasNextWriteChunk, TypeInv, TypeOK, ChunksTypeOK
<1>2. q[1] \in Chunk
  BY <1>1, ElementOfSeq
<1>3. c \in Chunk /\ c.len = q[1].len /\ c.pending = q[1].pending
  BY <1>2 DEF Chunk
<1>4. write_chunks' = [q EXCEPT ![1] = c]
  BY <1>1, LenProperties DEF WriteHandsOver
<1>5. q[1].pending => written
  BY <1>1 DEF WriteHandsOver, HasNextWriteChunk, IgnorePending
<1>6. written' = written /\ pc' = "top"
  BY DEF WriteHandsOver, flagVars
<1>7. owned'.len = q[1].len
  BY DEF WriteHandsOver
<1> HIDE DEF c
<1>8. /\ Len(write_chunks') = Len(q)
      /\ \A i \in 1 .. Len(q) : write_chunks'[i] = IF i = 1 THEN c ELSE q[i]
  BY ONLY <1>1, <1>3, <1>4, SetElement
<1>9. \A i \in 1 .. Len(write_chunks') : write_chunks'[i].write_pending => i = 1
  BY <1>1, <1>8 DEF InFlightClosed
<1>10. OpenHanded' => written' /\ pc' # "enqueue"
  BY <1>1, <1>3, <1>5, <1>6, <1>8 DEF OpenHanded
<1>11. owned'.len = write_chunks'[1].len
  BY <1>1, <1>3, <1>7, <1>8
<1> QED
  BY <1>9, <1>10, <1>11 DEF InFlightClosed

\* The enqueue loop only changes chunks that were not handed out.
LEMMA InFlightEnqueue ==
  ASSUME TypeInv, InFlightClosed, EnqueueForWriting
  PROVE  InFlightClosed'
<1> DEFINE k == Len(write_chunks)
<1>1. /\ owned' = owned /\ early' = early /\ pc = "enqueue"
      /\ k \in Nat /\ (write_chunks = <<>> <=> k = 0)
  BY Offsets DEF EnqueueForWriting, At, flagVars, targetVars
<1>2. owned # NoChunk => k # 0 /\ write_chunks[1].write_pending
  BY <1>1 DEF TypeInv, OwnedIsFirst
<1>3. ~early => ~OpenHanded
  BY <1>1 DEF InFlightClosed
<1>4. CASE FillPending
  <2>1. PICK n \in Nat :
        /\ k \in 1 .. MaxChunks - 1 /\ LastChunk.pending
        /\ Len(write_chunks') = k
        /\ \A i \in 1 .. k - 1 : write_chunks'[i] = write_chunks[i]
        /\ write_chunks'[k].write_pending = LastChunk.write_pending
    BY <1>4, FillPendingEffect
  <2>2. LastChunk = write_chunks[k]
    BY DEF LastChunk
  <2>3. \A i \in 1 .. k : write_chunks'[i].write_pending = write_chunks[i].write_pending
    <3>1. \A i \in 1 .. k : i = k \/ i \in 1 .. k - 1
      BY <1>1
    <3> QED
      BY <2>1, <2>2, <3>1
  <2>4. ~early /\ write_chunks[1].write_pending => k # 1
    BY <1>1, <1>3, <2>1, <2>2 DEF OpenHanded
  <2>5. 1 \in 1 .. k /\ (k # 1 => 1 \in 1 .. k - 1)
    BY <1>1, <2>1
  <2>6. ~early /\ write_chunks[1].write_pending => write_chunks'[1] = write_chunks[1]
    BY <2>1, <2>4, <2>5
  <2>7. ~early => ~OpenHanded'
    BY <1>1, <1>3, <2>1, <2>3, <2>5, <2>6 DEF OpenHanded
  <2> QED
    BY <1>1, <1>2, <2>1, <2>3, <2>6, <2>7 DEF InFlightClosed
<1>5. CASE ClosePending
  <2>1. /\ Len(write_chunks') = k
        /\ \A i \in 1 .. k :
             /\ write_chunks'[i].len = write_chunks[i].len
             /\ write_chunks'[i].write_pending = write_chunks[i].write_pending
             /\ write_chunks'[i].pending => write_chunks[i].pending
    BY <1>5, ClosePendingEffect
  <2>2. 1 \in 1 .. k /\ write_chunks # <<>>
    BY <1>1, <1>5 DEF ClosePending, HasPendingChunk
  <2>3. ~early => ~OpenHanded'
    BY <1>3, <2>1, <2>2 DEF OpenHanded
  <2> QED
    BY <1>1, <2>1, <2>2, <2>3 DEF InFlightClosed
<1>6. CASE NewChunk
  <2>1. /\ Len(write_chunks') = k + 1
        /\ \A i \in 1 .. k : write_chunks'[i] = write_chunks[i]
        /\ ~write_chunks'[k + 1].write_pending
    BY <1>6, NewChunkEffect
  <2>2. k # 0 => write_chunks'[1] = write_chunks[1]
    BY <1>1, <2>1
  <2>3. \A i \in 1 .. k + 1 : i \in 1 .. k \/ i = k + 1
    BY <1>1
  <2>4. ~early => ~OpenHanded'
    <3>1. CASE k = 0
      BY <2>1, <3>1 DEF OpenHanded
    <3>2. CASE k # 0
      BY <1>1, <1>3, <2>2, <3>2 DEF OpenHanded
    <3> QED
      BY <3>1, <3>2
  <2> QED
    BY <1>1, <1>2, <2>1, <2>2, <2>3, <2>4 DEF InFlightClosed
<1>7. CASE NoChunkLeft
  <2>1. UNCHANGED write_chunks
    BY <1>7 DEF NoChunkLeft
  <2> QED
    BY <1>1, <1>3, <2>1 DEF InFlightClosed, OpenHanded
<1> QED
  BY <1>4, <1>5, <1>6, <1>7 DEF EnqueueForWriting

\* No step of the layer changes the bounds of a chunk in flight.
LEMMA LayerKeepsInFlight ==
  ASSUME TypeInv, InFlightClosed, LoopStep \/ EnvironmentStep
  PROVE  InFlightClosed'
<1>1. (written => written') /\ (early => early')
  BY LayerKeepsFlags
<1>2. CASE LoopTop \/ OnIdle \/ HostIdle \/ WriteNothing \/ WriteErases
  <2>1. write_chunks' = write_chunks /\ owned' = owned /\ (pc' # "enqueue" \/ pc' = pc)
    BY <1>2
    DEF LoopTop, OnIdle, HostIdle, WriteNothing, WriteErases, targetVars
  <2> QED
    BY <1>1, <2>1, InFlightFramed
<1>3. CASE WriteHandsOver
  BY <1>3, InFlightHandsOver
<1>4. CASE EnqueueForWriting
  BY <1>4, InFlightEnqueue
<1>5. CASE ClientAppends \/ FlushStart \/ ChunkAvailableOk
  <2>1. write_chunks' = write_chunks /\ owned' = owned /\ (pc' # "enqueue" \/ pc' = pc)
    BY <1>5 DEF ClientAppends, FlushStart, ChunkAvailableOk, targetVars
  <2> QED
    BY <1>1, <2>1, InFlightFramed
<1>6. CASE ChunkFails \/ BetweenCommands \/ EraseEnds
  <2>1. UNCHANGED <<write_chunks, pc>> /\ owned' \in {owned, NoChunk}
    BY <1>6 DEF ChunkFails, BetweenCommands, EraseEnds
  <2> QED
    BY <1>1, <2>1, InFlightFramed
<1>7. CASE ChunkAvailableFails
  BY <1>7, InFlightAfterPut DEF ChunkAvailableFails
<1>8. CASE ChunkDone
  BY <1>8, InFlightAfterPut DEF ChunkDone, TypeInv, OwnedIsFirst
<1> QED
  BY <1>2, <1>3, <1>4, <1>5, <1>6, <1>7, <1>8 DEF LoopStep, EnvironmentStep

-----------------------------------------------------------------------------
(* Chunks lie in one piece *)

\* No chunk runs over the end of the decoded buffer.
InOnePiece ==
  \A i \in 1 .. Len(write_chunks) :
    write_chunks[i].start + write_chunks[i].len <= DecodedSize

\* A target that ignores alignment gets chunks that are cut at the end of the
\* decoded buffer and never extended.
LEMMA EnqueueKeepsStraight ==
  ASSUME TypeInv, InOnePiece, EnqueueForWriting, IgnoreAlignment
  PROVE  InOnePiece'
<1>1. ~HasPendingChunk
  BY DEF HasPendingChunk
<1>2. CASE NewChunk
  <2>1. /\ Len(write_chunks') = Len(write_chunks) + 1 /\ Len(write_chunks) \in Nat
        /\ \A i \in 1 .. Len(write_chunks) : write_chunks'[i] = write_chunks[i]
        /\ write_chunks'[Len(write_chunks')].start = write_tail
        /\ write_chunks'[Len(write_chunks')].len = NewLen
    BY <1>2, NewChunkEffect DEF TypeInv, TypeOK, ChunksTypeOK
  <2>2. write_tail + NewLen <= DecodedSize
    <3>1. /\ enq.len \in Nat /\ WriteChunkSize \in Nat /\ DecodedSize \in Nat
          /\ write_tail \in 0 .. DecodedSize - 1
      BY Sizes DEF TypeInv, TypeOK, LoopTypeOK, DecodedTypeOK, DecSlot
    <3>2. NewLen = Min2(Min2(enq.len, WriteChunkSize), DecodedSize - write_tail)
      BY DEF NewLen
    <3> QED
      BY <3>1, <3>2 DEF Min2
  <2> SUFFICES ASSUME NEW i \in 1 .. Len(write_chunks')
               PROVE  write_chunks'[i].start + write_chunks'[i].len <= DecodedSize
    BY DEF InOnePiece
  <2>3. i \in 1 .. Len(write_chunks) \/ i = Len(write_chunks')
    BY <2>1
  <2> QED
    BY <2>1, <2>2, <2>3 DEF InOnePiece
<1>3. CASE NoChunkLeft
  BY <1>3 DEF NoChunkLeft, InOnePiece
<1> QED
  BY <1>1, <1>2, <1>3 DEF EnqueueForWriting, FillPending, ClosePending

\* No step outside of the enqueue loop moves a chunk or makes one longer.
LEMMA LayerKeepsStraight ==
  ASSUME TypeInv, InOnePiece, LoopStep \/ EnvironmentStep, ~EnqueueForWriting
  PROVE  InOnePiece'
<1>1. CASE UNCHANGED write_chunks
  BY <1>1 DEF InOnePiece
<1>2. CASE WriteHandsOver
  <2>1. write_chunks \in Seq(Chunk) /\ 1 \in 1 .. Len(write_chunks)
    BY <1>2, EmptySeq, LenProperties
    DEF WriteHandsOver, HasNextWriteChunk, TypeInv, TypeOK, ChunksTypeOK
  <2>2. /\ Len(write_chunks') = Len(write_chunks)
        /\ \A i \in 1 .. Len(write_chunks) :
             /\ write_chunks'[i].start = write_chunks[i].start
             /\ write_chunks'[i].len = write_chunks[i].len
    <3>1. write_chunks[1] \in Chunk
      BY <2>1, ElementOfSeq
    <3> QED
      BY <1>2, <2>1, <3>1 DEF WriteHandsOver, Chunk
  <2> QED
    BY <2>2 DEF InOnePiece
<1>3. CASE write_chunks # <<>> /\ PutWriteChunk
  <2>1. /\ Len(write_chunks') = Len(write_chunks) - 1 /\ Len(write_chunks) \in Nat
        /\ \A i \in 1 .. Len(write_chunks') : write_chunks'[i] = write_chunks[i + 1]
    BY <1>3, PutQueue DEF TypeInv, TypeOK, ChunksTypeOK
  <2> SUFFICES ASSUME NEW i \in 1 .. Len(write_chunks')
               PROVE  write_chunks'[i].start + write_chunks'[i].len <= DecodedSize
    BY DEF InOnePiece
  <2>2. i + 1 \in 1 .. Len(write_chunks)
    BY <2>1
  <2> QED
    BY <2>1, <2>2 DEF InOnePiece
<1>4. CASE LoopTop \/ OnIdle \/ HostIdle \/ WriteNothing \/ WriteErases
  BY <1>1, <1>4 DEF LoopTop, OnIdle, HostIdle, WriteNothing, WriteErases
<1>5. CASE ClientAppends \/ FlushStart \/ ChunkAvailableOk
  BY <1>1, <1>5 DEF ClientAppends, FlushStart, ChunkAvailableOk
<1>6. CASE ChunkFails \/ BetweenCommands \/ EraseEnds
  BY <1>1, <1>6 DEF ChunkFails, BetweenCommands, EraseEnds
<1>7. CASE ChunkAvailableFails
  BY <1>3, <1>7 DEF ChunkAvailableFails
<1>8. CASE ChunkDone
  <2>1. write_chunks # <<>> /\ PutWriteChunk
    BY <1>8 DEF ChunkDone, TypeInv, OwnedIsFirst
  <2> QED
    BY <1>3, <2>1
<1> QED
  BY <1>2, <1>4, <1>5, <1>6, <1>7, <1>8 DEF LoopStep, EnvironmentStep

-----------------------------------------------------------------------------
(* Sectors *)

\* What the target was given to program lies in sectors that are erased, and
\* none of these is being erased.
ErasedFirst ==
  SectorSize > 0 =>
    /\ erasing \cap erased = {}
    /\ owned # NoChunk => ChunkSectors(owned) \subseteq erased
    /\ \A a \in Byte : flash[a] # NoData => Sector(a) \in erased

\* It is what the property says.
LEMMA ErasedFirstSuffices == ErasedFirst => EraseOnceBeforeProgramming
BY DEF ErasedFirst, EraseOnceBeforeProgramming

\* Steps that do not concern the flash.
LEMMA ErasedFirstFramed ==
  ASSUME ErasedFirst, UNCHANGED <<erasing, erased, flash>>, owned' \in {owned, NoChunk}
  PROVE  ErasedFirst'
BY DEF ErasedFirst, ChunkSectors

\* The steps of the layer.
LEMMA LayerKeepsErased ==
  ASSUME TypeInv, ErasedFirst, LoopStep \/ EnvironmentStep
  PROVE  ErasedFirst'
<1>1. CASE LoopTop \/ OnIdle \/ HostIdle \/ WriteNothing \/ EnqueueForWriting
  <2>1. UNCHANGED targetVars
    BY <1>1 DEF LoopTop, OnIdle, HostIdle, WriteNothing, EnqueueForWriting
  <2> QED
    BY <2>1, ErasedFirstFramed DEF targetVars
<1>2. CASE WriteErases
  <2>1. /\ erasing' = ChunkSectors(write_chunks[1]) \ erased
        /\ UNCHANGED <<owned, erased, flash>>
    BY <1>2 DEF WriteErases
  <2> QED
    BY <2>1 DEF ErasedFirst, ChunkSectors
<1>3. CASE WriteHandsOver
  <2>1. /\ UNCHANGED <<erasing, erased, flash>> /\ ~MustErase
        /\ owned'.addr = write_chunks[1].addr /\ owned'.len = write_chunks[1].len
    BY <1>3 DEF WriteHandsOver
  <2>2. ChunkSectors(owned)' = ChunkSectors(write_chunks[1])
    BY <2>1 DEF ChunkSectors
  <2> QED
    BY <2>1, <2>2 DEF ErasedFirst, MustErase
<1>4. CASE ClientAppends \/ FlushStart \/ ChunkAvailableOk
  <2>1. UNCHANGED targetVars
    BY <1>4 DEF ClientAppends, FlushStart, ChunkAvailableOk
  <2> QED
    BY <2>1, ErasedFirstFramed DEF targetVars
<1>5. CASE ChunkAvailableFails \/ ChunkFails \/ BetweenCommands
  <2>1. UNCHANGED <<erasing, erased, flash>> /\ owned' \in {owned, NoChunk}
    BY <1>5 DEF ChunkAvailableFails, ChunkFails, BetweenCommands
  <2> QED
    BY <2>1, ErasedFirstFramed
<1>6. CASE ChunkDone
  <2>1. /\ UNCHANGED <<erasing, erased>> /\ owned # NoChunk /\ owned' = NoChunk
        /\ flash' = Programmed(owned)
    BY <1>6 DEF ChunkDone
  <2> SUFFICES ASSUME SectorSize > 0, NEW a \in Byte, flash'[a] # NoData
               PROVE  Sector(a) \in erased
    BY <2>1 DEF ErasedFirst
  <2>2. CASE a \in owned.addr .. owned.addr + owned.len - 1
    BY <2>1, <2>2 DEF ErasedFirst, ChunkSectors
  <2>3. CASE a \notin owned.addr .. owned.addr + owned.len - 1
    <3>1. flash'[a] = flash[a]
      BY <2>1, <2>3 DEF Programmed
    <3> QED
      BY <3>1 DEF ErasedFirst
  <2> QED
    BY <2>2, <2>3
<1>7. CASE EraseEnds
  <2>1. /\ erased' \in {erased, erased \cup erasing} /\ erasing' = {}
        /\ UNCHANGED <<owned, flash>>
    BY <1>7 DEF EraseEnds
  <2> QED
    BY <2>1 DEF ErasedFirst, ChunkSectors
<1> QED
  BY <1>1, <1>2, <1>3, <1>4, <1>5, <1>6, <1>7 DEF LoopStep, EnvironmentStep

-----------------------------------------------------------------------------
(* The binary format *)


\* The format's private data is an address from the moment the format is
\* found, which is before anything is decoded.
FormatKnown ==
  /\ format_ops => format_data \in Nat
  /\ pc = "decode" => format_ops

TypeIInv == TypeInv /\ FormatKnown

\* Copying out of the raw ring keeps the type of the decoded slots.
LEMMA SubcopyType ==
  ASSUME TypeOK, NEW T, NEW db \in [DecSlot -> T], NEW d \in Nat, NEW n \in Nat,
         NEW i \in Nat, \A k \in RawSlot : buf[k] \in T
  PROVE  Subcopy(db, d, n, i) \in [DecSlot -> T]
<1>1. ASSUME NEW s \in DecSlot, s \in d .. d + n - 1
      PROVE  Mask(i + (s - d), RawSize) \in RawSlot
  <2>1. i + (s - d) \in Int
    BY <1>1, Sizes DEF DecSlot
  <2> QED
    BY <2>1, Sizes, MaskInRing DEF RawSlot
<1>2. DOMAIN db = DecSlot
  OBVIOUS
<1> QED
  BY <1>1, <1>2 DEF Subcopy

\* What binary_decode_chunk() moves: n1 bytes up to the end of the decoded buffer
\* and n2 from its beginning on, as many as are in the raw ring and fit.
LEMMA DecodeBinaryMoves ==
  ASSUME TypeOK, DecodeBinary
  PROVE  \E n1 \in Nat, n2 \in Nat :
           /\ n1 + n2 <= RawCount /\ n1 + n2 <= DecSpace
           /\ n1 <= RingSpaceToEnd(decoded_head, decoded_tail, DecodedSize)
           /\ n2 > 0 => n1 = RingSpaceToEnd(decoded_head, decoded_tail, DecodedSize)
           /\ decoded_buf' = Subcopy(Subcopy(decoded_buf, decoded_head, n1, tail),
                                     Mask(decoded_head + n1, DecodedSize), n2,
                                     Mask(tail + n1, RawSize))
           /\ decoded_head' = Mask(Mask(decoded_head + n1, DecodedSize) + n2, DecodedSize)
           /\ tail' = Mask(tail + n1 + n2, RawSize)
           /\ format_data' = format_data + n1 + n2
           /\ AfterDecode(n1 + n2, format_data)
<1> DEFINE n1 == Min2(RingSpaceToEnd(decoded_head, decoded_tail, DecodedSize),
                      RawCount)
           d1 == Mask(decoded_head + n1, DecodedSize)
           n2 == Min2(RingSpace(d1, decoded_tail, DecodedSize), RawCount - n1)
<1>1. /\ decoded_head \in 0 .. DecodedSize - 1 /\ decoded_tail \in 0 .. DecodedSize - 1
      /\ head \in 0 .. RawSize - 1 /\ tail \in 0 .. RawSize - 1
      /\ DecodedSize \in Nat \ {0} /\ RawSize \in Nat \ {0}
  BY Sizes DEF TypeOK, DecodedTypeOK, RawTypeOK, DecSlot, RawSlot
<1>2. RawCount \in Nat
  BY <1>1, CountIsDistance DEF RawCount
<1>3. /\ RingSpaceToEnd(decoded_head, decoded_tail, DecodedSize) \in Nat
      /\ RingSpaceToEnd(decoded_head, decoded_tail, DecodedSize) <= DecSpace
      /\ DecCount + DecSpace = DecodedSize - 1 /\ DecSpace \in Nat /\ DecCount \in Nat
  BY <1>1, SpaceToEndFits, CountPlusSpace, CountIsDistance DEF DecSpace, DecCount
<1>4. n1 \in Nat /\ n1 <= RawCount /\ n1 <= DecSpace
  BY <1>2, <1>3 DEF Min2
<1>5. d1 \in 0 .. DecodedSize - 1
  <2> HIDE DEF n1
  <2> QED
    BY <1>1, <1>4, MaskInRing
<1>6. RingSpace(d1, decoded_tail, DecodedSize) = DecSpace - n1
  <2>1. RingCount(d1, decoded_tail, DecodedSize) = DecCount + n1
    <3> HIDE DEF n1
    <3> QED
      BY <1>1, <1>3, <1>4, CountAfterFilling DEF DecCount
  <2>2. /\ RingSpace(d1, decoded_tail, DecodedSize) \in Nat
        /\ RingCount(d1, decoded_tail, DecodedSize)
             + RingSpace(d1, decoded_tail, DecodedSize) = DecodedSize - 1
    <3> HIDE DEF d1
    <3> QED
      BY <1>1, <1>5, CountPlusSpace
  <2> HIDE DEF n1, d1
  <2> QED
    BY <1>1, <1>3, <1>4, <2>1, <2>2
<1>7. n2 \in Nat /\ n1 + n2 <= RawCount /\ n1 + n2 <= DecSpace
  <2> HIDE DEF n1, d1
  <2> QED
    BY <1>2, <1>3, <1>4, <1>6 DEF Min2
<1>8. /\ n1 <= RingSpaceToEnd(decoded_head, decoded_tail, DecodedSize)
      /\ n2 > 0 => n1 = RingSpaceToEnd(decoded_head, decoded_tail, DecodedSize)
  <2>1. \/ n1 = RawCount /\ n1 <= RingSpaceToEnd(decoded_head, decoded_tail, DecodedSize)
        \/ n1 = RingSpaceToEnd(decoded_head, decoded_tail, DecodedSize)
    BY <1>2, <1>3 DEF Min2
  <2> HIDE DEF n1, n2
  <2> QED
    BY <1>2, <1>3, <1>4, <1>7, <2>1
<1>9. /\ decoded_buf' = Subcopy(Subcopy(decoded_buf, decoded_head, n1, tail),
                                d1, n2, Mask(tail + n1, RawSize))
      /\ decoded_head' = Mask(d1 + n2, DecodedSize)
      /\ tail' = Mask(tail + n1 + n2, RawSize)
      /\ format_data' = format_data + n1 + n2
      /\ AfterDecode(n1 + n2, format_data)
  BY Zenon DEF DecodeBinary
<1>10. n1 \in Nat /\ n2 \in Nat
  BY <1>4, <1>7
<1> HIDE DEF n1, n2
<1> QED
  BY <1>7, <1>8, <1>9, <1>10 DEF d1

\* So the indices stay in their rings.
LEMMA DecodeBinaryEffect ==
  ASSUME TypeOK, DecodeBinary
  PROVE  \E n \in Nat :
           /\ n <= RawCount /\ n <= DecSpace
           /\ decoded_head' = Mask(decoded_head + n, DecodedSize)
           /\ tail' \in RawSlot
           /\ decoded_buf' \in [DecSlot -> Nat \cup {NoData}]
           /\ format_data \in Nat => format_data' \in Nat
           /\ AfterDecode(n, format_data)
<1>1. /\ decoded_head \in 0 .. DecodedSize - 1 /\ decoded_tail \in 0 .. DecodedSize - 1
      /\ tail \in 0 .. RawSize - 1
      /\ DecodedSize \in Nat \ {0} /\ RawSize \in Nat \ {0}
  BY Sizes DEF TypeOK, DecodedTypeOK, RawTypeOK, DecSlot, RawSlot
<1>2. PICK n1 \in Nat, n2 \in Nat :
        /\ n1 + n2 <= RawCount /\ n1 + n2 <= DecSpace
        /\ decoded_buf' = Subcopy(Subcopy(decoded_buf, decoded_head, n1, tail),
                                  Mask(decoded_head + n1, DecodedSize), n2,
                                  Mask(tail + n1, RawSize))
        /\ decoded_head' = Mask(Mask(decoded_head + n1, DecodedSize) + n2, DecodedSize)
        /\ tail' = Mask(tail + n1 + n2, RawSize)
        /\ format_data' = format_data + n1 + n2
        /\ AfterDecode(n1 + n2, format_data)
  BY DecodeBinaryMoves
<1> DEFINE d1 == Mask(decoded_head + n1, DecodedSize)
           i2 == Mask(tail + n1, RawSize)
           T  == Nat \cup {NoData}
           b1 == Subcopy(decoded_buf, decoded_head, n1, tail)
<1>3. decoded_head' = Mask(decoded_head + (n1 + n2), DecodedSize)
  <2>1. Mask(Mask(decoded_head + n1, DecodedSize) + n2, DecodedSize)
          = Mask(decoded_head + n1 + n2, DecodedSize)
    <3>1. DecSpace <= DecodedSize - 1 /\ DecSpace \in Nat
      BY <1>1, CountPlusSpace DEF DecSpace
    <3>2. n1 + n2 <= DecodedSize - 1
      BY <1>1, <1>2, <3>1
    <3> QED
      BY ONLY <1>1, <3>2, MaskTwice
  <2>2. decoded_head + n1 + n2 = decoded_head + (n1 + n2)
    BY <1>1
  <2> QED
    BY <1>2, <2>1, <2>2
<1>4. tail' \in RawSlot
  <2>1. tail + n1 + n2 \in Int
    BY <1>1
  <2> QED
    BY <1>1, <1>2, <2>1, MaskInRing DEF RawSlot
<1>5. decoded_buf' \in [DecSlot -> T]
  <2>1. decoded_buf' = Subcopy(b1, d1, n2, i2)
    BY <1>2
  <2>2. decoded_buf \in [DecSlot -> T] /\ \A k \in RawSlot : buf[k] \in T
    BY DEF TypeOK, DecodedTypeOK, RawTypeOK
  <2>3. decoded_head \in Nat /\ tail \in Nat /\ d1 \in Nat /\ i2 \in Nat
    <3>1. decoded_head + n1 \in Int /\ tail + n1 \in Int
      BY <1>1
    <3> QED
      BY <1>1, <3>1, MaskInRing
  <2>4. b1 \in [DecSlot -> T]
    <3> HIDE DEF T
    <3> QED
      BY <2>2, <2>3, SubcopyType
  <2> HIDE DEF d1, b1, i2, T
  <2> QED
    BY <2>1, <2>2, <2>3, <2>4, SubcopyType
<1>6. format_data \in Nat => format_data' \in Nat
  BY <1>2
<1>7. n1 + n2 \in Nat
  OBVIOUS
<1> HIDE DEF d1, b1, i2
<1> QED
  BY <1>2, <1>3, <1>4, <1>5, <1>6, <1>7

\* binary_decode_chunk() keeps every index in its ring.
LEMMA DecodeBinaryType == TypeIInv /\ DecodeBinary => TypeIInv'
<1> SUFFICES ASSUME TypeIInv, DecodeBinary
             PROVE  TypeIInv'
  OBVIOUS
<1>1. TypeInv /\ TypeOK /\ format_ops /\ format_data \in Nat
  BY DEF TypeIInv, TypeInv, FormatKnown, DecodeBinary, At
<1>2. PICK n \in Nat :
           /\ decoded_head' = Mask(decoded_head + n, DecodedSize)
           /\ tail' \in RawSlot
           /\ decoded_buf' \in [DecSlot -> Nat \cup {NoData}]
           /\ format_data' \in Nat
           /\ AfterDecode(n, format_data)
  BY <1>1, DecodeBinaryEffect
<1>3. UNCHANGED <<buf, head, tot_appended, tailVars, write_chunks, flagVars,
                  rx_timeout, calling, dfuVars, targetVars>>
  BY Zenon DEF DecodeBinary
<1>4. decoded_head' \in DecSlot
  <2>1. decoded_head + n \in Int
    BY <1>1, Sizes DEF TypeOK, DecodedTypeOK, DecSlot
  <2> QED
    BY <1>2, <2>1, Sizes, MaskInRing DEF DecSlot
<1>5. RawTypeOK'
  BY ONLY <1>1, <1>2, <1>3 DEF TypeOK, RawTypeOK
<1>6. LoopTypeOK' /\ decoded_chunk_size' \in Nat
  BY ONLY <1>1, <1>2, <1>3, AfterDecodeType
<1>7. DecodedTypeOK'
  BY ONLY <1>1, <1>2, <1>3, <1>4, <1>6 DEF TypeOK, DecodedTypeOK, tailVars
<1>8. FormatKnown'
  BY ONLY <1>1, <1>2, <1>3 DEF FormatKnown, flagVars
<1> QED
  BY ONLY <1>1, <1>3, <1>5, <1>6, <1>7, <1>8, FramedTypes
  DEF TypeIInv, TypeInv, TypeOK

\* Finding the format sets its private data.
LEMMA DoFlushKnown == TypeIInv /\ DoFlush(0) => TypeIInv'
<1> SUFFICES ASSUME TypeIInv, DoFlush(0)
             PROVE  TypeIInv'
  OBVIOUS
<1>1. FormatKnown'
  BY DEF TypeIInv, TypeInv, TypeOK, FlagsTypeOK, FormatKnown, DoFlush
<1> QED
  BY <1>1, DoFlushType DEF TypeIInv

\* No other step changes the private data or enters the decoder.
LEMMA FormatFramed ==
  ASSUME FormatKnown, UNCHANGED <<format_ops, format_data>>,
         pc' = "decode" => pc = "decode"
  PROVE  FormatKnown'
BY DEF FormatKnown

\* The steps of the layer do not touch it.
LEMMA LayerKeepsFormat ==
  LoopStep \/ EnvironmentStep =>
    UNCHANGED <<format_ops, format_data>> /\ (pc' = "decode" => pc = "decode")
<1>1. LoopTop \/ OnIdle \/ HostIdle \/ WriteNothing \/ WriteErases \/ WriteHandsOver =>
        UNCHANGED <<format_ops, format_data>> /\ (pc' = "decode" => pc = "decode")
  BY DEF LoopTop, OnIdle, HostIdle, WriteNothing, WriteErases, WriteHandsOver,
         decVars, flagVars
<1>2. EnqueueForWriting =>
        UNCHANGED <<format_ops, format_data>> /\ (pc' = "decode" => pc = "decode")
  BY DEF EnqueueForWriting, FillPending, ClosePending, NewChunk, NoChunkLeft, Enqueued,
         IterationFails, decVars, flagVars
<1>3. ClientAppends \/ FlushStart \/ ChunkAvailableOk \/ ChunkAvailableFails =>
        UNCHANGED <<format_ops, format_data>> /\ (pc' = "decode" => pc = "decode")
  BY DEF ClientAppends, FlushStart, ChunkAvailableOk, ChunkAvailableFails,
         decVars, flagVars
<1>4. ChunkDone \/ ChunkFails \/ BetweenCommands \/ EraseEnds =>
        UNCHANGED <<format_ops, format_data>> /\ (pc' = "decode" => pc = "decode")
  BY DEF ChunkDone, ChunkFails, BetweenCommands, EraseEnds, decVars, flagVars
<1> QED
  BY <1>1, <1>2, <1>3, <1>4 DEF LoopStep, EnvironmentStep

\* Nor does the timeout.
LEMMA RxTimeoutKeepsFormat ==
  ASSUME NEW stuck, RxTimeout(stuck)
  PROVE  UNCHANGED <<format_ops, format_data, pc>>
BY Zenon DEF RxTimeout, decVars, flagVars

\* The type invariant is inductive.
LEMMA TypeInductive == TypeIInv /\ [Next]_vars => TypeIInv'
<1> SUFFICES ASSUME TypeIInv, [Next]_vars
             PROVE  TypeIInv'
  OBVIOUS
<1>1. CASE LoopStep \/ EnvironmentStep
  BY <1>1, LayerStepType, LayerKeepsFormat, FormatFramed DEF TypeIInv
<1>2. CASE DoFlush(0)
  BY <1>2, DoFlushKnown
<1>3. CASE DecodeBinary
  BY <1>3, DecodeBinaryType
<1>4. CASE RxTimeout(Stuck)
  BY <1>4, RxTimeoutType, RxTimeoutKeepsFormat, FormatFramed DEF TypeIInv
<1>5. CASE UNCHANGED vars
  BY <1>5, FramedTypes, FormatFramed
  DEF TypeIInv, TypeInv, TypeOK, vars, decVars, flagVars
<1> QED
  BY <1>1, <1>2, <1>3, <1>4, <1>5 DEF Next, Terminated

\* It holds initially.
LEMMA TypeInductiveInit == Init => TypeIInv
BY InitType DEF TypeIInv, FormatKnown, Init, At

\* So it always holds.
LEMMA TypeIInvAlways == Spec => []TypeIInv
BY TypeInductiveInit, TypeInductive, PTL DEF Spec

\* Every variable of an upload stays in its range: no index leaves its buffer,
\* no chunk is longer than a page, the pool of write chunks is not overrun.
THEOREM TypeCorrect == Spec => []TypeOK
<1>1. TypeIInv => TypeOK
  BY DEF TypeIInv, TypeInv
<1> QED
  BY <1>1, TypeIInvAlways, PTL

-----------------------------------------------------------------------------
(* What the steps outside of the layer leave alone *)

\* _bf_do_flush() up to decode_chunk() leaves the queue and the indices alone.
LEMMA DoFlushFrame ==
  DoFlush(0) =>
    /\ result = "CONTINUE" /\ pc' # "enqueue" /\ pc # "top"
    /\ UNCHANGED <<decoded_head, decoded_tail, write_tail, enq, calling,
                   write_chunks, written, early, owned>>
BY DEF DoFlush, At, tailVars, targetVars

\* So does the timeout.
LEMMA RxTimeoutFrame ==
  ASSUME NEW stuck, RxTimeout(stuck)
  PROVE  /\ result = "CONTINUE"
         /\ UNCHANGED <<decoded_head, decoded_tail, write_tail, enq, calling, pc,
                        write_chunks, written, early, owned>>
<1>1. UNCHANGED <<decVars, tailVars, enq, calling, pc, write_chunks, flagVars, targetVars>>
  BY Zenon DEF RxTimeout
<1>2. result = "CONTINUE"
  BY Zenon DEF RxTimeout, AtEvents, At
<1> QED
  BY ONLY <1>1, <1>2 DEF decVars, tailVars, flagVars, targetVars

\* binary_decode_chunk() moves decoded_head only.
LEMMA DecodeBinaryFrame ==
  DecodeBinary =>
    /\ result = "CONTINUE" /\ pc = "decode"
    /\ UNCHANGED <<decoded_tail, write_tail, calling, write_chunks, written, early,
                   owned, result>>
<1>1. DecodeBinary =>
        UNCHANGED <<tailVars, write_chunks, flagVars, calling, dfuVars, targetVars>>
  BY Zenon DEF DecodeBinary
<1>2. DecodeBinary => At("decode")
  BY Zenon DEF DecodeBinary
<1> QED
  BY ONLY <1>1, <1>2 DEF At, tailVars, flagVars, dfuVars, targetVars

-----------------------------------------------------------------------------
(* The end of the file *)

\* Once the end has been announced, and not too early, the raw ring is empty and
\* nothing is decoded or cut into chunks any more.
QuietEnd ==
  /\ ~rx_done
  /\ ~early /\ written => RawCount = 0 /\ pc \notin {"decode", "enqueue"}

\* The end stays quiet: a block that comes after it makes it an early one.
LEMMA QuietInductive ==
  ASSUME TypeIInv, TypeIInv', QuietEnd, [Next]_vars
  PROVE  QuietEnd' /\ (early => early')
<1>1. TypeInv /\ RawCount \in Nat /\ RawCount' \in Nat
  <2>1. RawCount \in Nat
    BY Sizes, CountIsDistance DEF RawCount, TypeIInv, TypeInv, TypeOK, RawTypeOK, RawSlot
  <2>2. head' \in 0 .. RawSize - 1 /\ tail' \in 0 .. RawSize - 1
    BY DEF TypeIInv, TypeInv, TypeOK, RawTypeOK, RawSlot
  <2>3. RawCount' \in Nat
    BY <2>2, Sizes, CountIsDistance DEF RawCount
  <2> QED
    BY <2>1, <2>3 DEF TypeIInv
<1>2. CASE ClientAppends
  <2>1. /\ early => early'
        /\ ~early' /\ written' /\ ~rx_done => ~(RawCount' > 0)
        /\ UNCHANGED <<rx_done, pc>> /\ pc \notin {"decode", "enqueue"}
    BY <1>2, Zenon DEF ClientAppends, AtEvents, At
  <2>2. ~(RawCount' > 0) => RawCount' = 0
    BY <1>1
  <2> QED
    BY <2>1, <2>2 DEF QuietEnd
<1>3. CASE (LoopStep \/ EnvironmentStep) /\ ~ClientAppends
  <2>1. UNCHANGED <<rawVars, rx_done, written, early>>
    BY <1>3, LayerKeepsFlags
  <2>2. pc' \in {"decode", "enqueue"} => pc \in {"decode", "enqueue"}
    <3>1. LoopStep => (pc' \in {"decode", "enqueue"} => pc \in {"decode", "enqueue"})
      BY DEF LoopStep, LoopTop, OnIdle, HostIdle, WriteNothing, WriteErases, WriteHandsOver,
             EnqueueForWriting, At
    <3>2. EnvironmentStep => (pc' \in {"decode", "enqueue"} => pc \in {"decode", "enqueue"})
      BY <1>3
      DEF EnvironmentStep, FlushStart, ChunkAvailableOk, ChunkAvailableFails, ChunkDone,
          ChunkFails, BetweenCommands, EraseEnds
    <3> QED
      BY <1>3, <3>1, <3>2
  <2> QED
    BY <2>1, <2>2 DEF QuietEnd, RawCount, rawVars
<1>4. CASE DoFlush(0)
  <2>1. UNCHANGED <<rawVars, rx_done, written, early>>
    BY <1>4 DEF DoFlush
  <2>2. pc' = "host" \/ (pc' = "decode" /\ RawCount > 0)
    BY <1>4 DEF DoFlush
  <2> QED
    BY <1>1, <2>1, <2>2 DEF QuietEnd, RawCount, rawVars
<1>5. CASE DecodeBinary
  <2>1. UNCHANGED flagVars /\ pc = "decode"
    BY <1>5, Zenon DEF DecodeBinary, At
  <2> QED
    BY <2>1 DEF QuietEnd, flagVars
<1>6. CASE RxTimeout(Stuck) \/ UNCHANGED vars
  <2>1. UNCHANGED <<rawVars, flagVars, pc>>
    <3>1. RxTimeout(Stuck) => UNCHANGED <<rawVars, flagVars, pc>>
      BY Zenon DEF RxTimeout
    <3> QED
      BY <1>6, <3>1 DEF vars
  <2> QED
    BY <2>1 DEF QuietEnd, RawCount, rawVars, flagVars
<1> QED
  BY <1>2, <1>3, <1>4, <1>5, <1>6 DEF Next, Terminated, EnvironmentStep

\* Nothing has ended at first.
LEMMA QuietInit == Init => QuietEnd
BY DEF Init, QuietEnd

-----------------------------------------------------------------------------
(* No byte is lost *)

\* When the pool of chunks runs out the upload ends with an error, or it never
\* runs out.
EnoughChunks ==
  ~NestedIdle \/ (~IgnoreAlignment /\ DecodedSize <= (MaxChunks - 1) * WriteChunkSize)

\* The memory of the target that is modelled has room for the file.
FileFits == FileSize <= MaxAddr + 1

\* Addresses of the first byte that is not in a chunk and of the first one in
\* the decoded ring.
End    == Consumed - Left
Oldest == Consumed - DecCount

\* What was appended and is not consumed is in the raw ring, in order.
RawInOrder ==
  /\ Consumed \in Nat /\ tot_appended <= FileSize
  /\ tail = Mask(Consumed, RawSize) /\ head = Mask(tot_appended, RawSize)
  /\ \A a \in Consumed .. tot_appended - 1 : buf[Mask(a, RawSize)] = a

\* What was consumed and is not freed is in the decoded ring, in order.
DecodedInOrder ==
  /\ Oldest \in Nat
  /\ decoded_tail = Mask(Oldest, DecodedSize)
  /\ decoded_head = Mask(Consumed, DecodedSize)
  /\ \A a \in Oldest .. Consumed - 1 : decoded_buf[Mask(a, DecodedSize)] = a

\* The format counts what was consumed.
FormatInStep == IF format_ops THEN format_data = Consumed ELSE Consumed = 0

\* The enqueue loop works on the last bytes consumed.
EnqInOrder ==
  /\ pc = "enqueue" => enq.len > 0 /\ enq.addr + enq.len = Consumed
  /\ Oldest <= End /\ write_tail = Mask(End, DecodedSize)

\* The bytes of a chunk are not freed, and lie in one piece at their slots.
InPlace(c) ==
  /\ Oldest <= c.addr /\ c.addr + c.len <= End
  /\ c.start = Mask(c.addr, DecodedSize)
  /\ c.start + c.len <= DecodedSize

\* The chunks hold every byte between Oldest and End, in order.
QueueInOrder ==
  /\ IF write_chunks = <<>> THEN End = Oldest
     ELSE write_chunks[1].addr = Oldest /\ LastChunk.addr + LastChunk.len = End
  /\ \A i \in 1 .. Len(write_chunks) - 1 :
       write_chunks[i + 1].addr = write_chunks[i].addr + write_chunks[i].len
  /\ \A i, j \in 1 .. Len(write_chunks) :
       i < j => write_chunks[i].addr + write_chunks[i].len <= write_chunks[j].addr
  /\ \A i \in 1 .. Len(write_chunks) : InPlace(write_chunks[i])
  /\ \A a \in Oldest .. End - 1 :
       \E i \in 1 .. Len(write_chunks) :
         a \in write_chunks[i].addr .. write_chunks[i].addr + write_chunks[i].len - 1

\* A target that minds alignment gets pages: only the last may not be full yet,
\* and the end of the file frees it as it is.
Pages ==
  IF IgnoreAlignment
  THEN \A i \in 1 .. Len(write_chunks) : ~write_chunks[i].pending
  ELSE /\ written \/ Oldest % WriteChunkSize = 0
       /\ \A i \in 1 .. Len(write_chunks) :
            /\ write_chunks[i].addr = Oldest + (i - 1) * WriteChunkSize
            /\ IF write_chunks[i].pending
               THEN i = Len(write_chunks) /\ write_chunks[i].len < WriteChunkSize
               ELSE write_chunks[i].len = WriteChunkSize

\* What the target owns is the first chunk, and that chunk is closed or the last
\* one of the file.
FirstHanded ==
  owned # NoChunk =>
    /\ write_chunks # <<>> /\ (write_chunks[1].pending => written)
    /\ owned = [addr  |-> write_chunks[1].addr, start |-> write_chunks[1].start,
                len   |-> write_chunks[1].len]

\* What was freed is in flash.
FreedInFlash == \A a \in Byte : a < Oldest => flash[a] = a

InOrder ==
  /\ RawInOrder /\ DecodedInOrder /\ FormatInStep /\ EnqInOrder
  /\ QueueInOrder /\ Pages /\ FirstHanded /\ FreedInFlash

DataInv ==
  /\ result # "ERROR" /\ ~early => InOrder
  /\ CalledAtTop

\* Positions are numbers.
LEMMA Positions ==
  ASSUME TypeInv
  PROVE  /\ Consumed \in Int /\ RawCount \in Nat /\ RawCount <= RawSize - 1
         /\ DecCount \in Nat /\ DecCount <= DecodedSize - 1
         /\ Oldest = Consumed - DecCount /\ Oldest \in Int
         /\ End = Consumed - Left /\ End \in Int /\ Left \in Nat
         /\ tot_appended \in Nat /\ RawCount = tot_appended - Consumed
<1>1. /\ head \in 0 .. RawSize - 1 /\ tail \in 0 .. RawSize - 1 /\ tot_appended \in Nat
      /\ decoded_head \in 0 .. DecodedSize - 1 /\ decoded_tail \in 0 .. DecodedSize - 1
  BY DEF TypeInv, TypeOK, RawTypeOK, DecodedTypeOK, RawSlot, DecSlot
<1>2. RawCount \in 0 .. RawSize - 1 /\ DecCount \in 0 .. DecodedSize - 1
  BY <1>1, Sizes, CountIsDistance DEF RawCount, DecCount
<1>3. Left \in Nat
  BY Offsets
<1>4. Consumed \in Int /\ Consumed = tot_appended - RawCount
  BY <1>1, <1>2, Sizes DEF Consumed
<1> QED
  BY <1>1, <1>2, <1>3, <1>4, Sizes DEF Oldest, End

\* A chunk in its place holds the bytes of its addresses.
LEMMA ChunkHolds ==
  ASSUME TypeInv, DecodedInOrder, EnqInOrder, NEW i \in 1 .. Len(write_chunks),
         InPlace(write_chunks[i]),
         NEW a \in write_chunks[i].addr .. write_chunks[i].addr + write_chunks[i].len - 1
  PROVE  SlotData(write_chunks[i].start + (a - write_chunks[i].addr)) = a
<1> DEFINE c == write_chunks[i]
           k == a - c.addr
<1>1. c \in Chunk /\ InPlace(c)
  BY Offsets
<1>2. c.addr \in Nat /\ c.len \in Nat /\ c.start \in 0 .. DecodedSize - 1
  BY <1>1, Sizes DEF Chunk, ChunkLen, DecSlot
<1>0. a \in c.addr .. c.addr + c.len - 1
  OBVIOUS
<1> HIDE DEF c
<1>3. /\ Oldest <= c.addr /\ c.addr + c.len <= End
      /\ c.start = Mask(c.addr, DecodedSize) /\ c.start + c.len <= DecodedSize
  BY <1>1 DEF InPlace
<1>4. /\ k \in Nat /\ a = c.addr + k /\ c.start + k < DecodedSize
      /\ a \in Oldest .. Consumed - 1
  <2>1. /\ Oldest \in Int /\ End \in Int /\ Consumed \in Int /\ Left \in Nat
        /\ End = Consumed - Left
    BY Positions
  <2>2. a \in Oldest .. Consumed - 1 /\ a \in Int
    BY ONLY <1>0, <1>2, <1>3, <2>1
  <2>3. k \in Nat /\ a = c.addr + k /\ k < c.len
    BY ONLY <1>0, <1>2, <2>2 DEF k
  <2> HIDE DEF k
  <2> QED
    BY <1>2, <1>3, <2>2, <2>3, Sizes
<1> HIDE DEF k
<1>5. Mask(a, DecodedSize) = c.start + k
  BY ONLY <1>2, <1>3, <1>4, Sizes, MaskStraight
<1>6. c.start + k \in DecSlot
  BY ONLY <1>2, <1>4, Sizes DEF DecSlot
<1>7. SlotData(c.start + k) = a
  BY <1>4, <1>5, <1>6 DEF SlotData, DecodedInOrder
<1> QED
  BY <1>7 DEF c, k

\* Every byte that is in a chunk is in its place.
LEMMA InOrderQueued ==
  ASSUME TypeInv, DecodedInOrder, EnqInOrder, QueueInOrder,
         NEW a \in Oldest .. End - 1
  PROVE  Queued(a)
<1>1. PICK i \in 1 .. Len(write_chunks) :
         a \in write_chunks[i].addr .. write_chunks[i].addr + write_chunks[i].len - 1
  BY DEF QueueInOrder
<1>2. SlotData(write_chunks[i].start + (a - write_chunks[i].addr)) = a
  BY <1>1, ChunkHolds DEF QueueInOrder
<1> QED
  BY <1>1, <1>2 DEF Queued

\* The property that matters follows.
LEMMA InOrderNothingLost ==
  ASSUME TypeInv, InOrder, FileFits
  PROVE  pc # "enqueue" => \A a \in 0 .. Consumed - 1 : flash[a] = a \/ Queued(a)
<1> SUFFICES ASSUME pc # "enqueue", NEW a \in 0 .. Consumed - 1, flash[a] # a
             PROVE  Queued(a)
  OBVIOUS
<1>1. Oldest \in Nat /\ Consumed \in Nat
  BY DEF InOrder, DecodedInOrder, RawInOrder
<1>2. End = Consumed
  BY <1>1 DEF End, Left
<1>3. a \in Byte
  <2>1. Consumed <= tot_appended /\ tot_appended <= FileSize /\ tot_appended \in Nat
    BY Positions DEF InOrder, RawInOrder
  <2> QED
    BY <1>1, <2>1, ClientKind DEF FileFits, Byte
<1>4. a \in Oldest .. End - 1
  BY <1>1, <1>2, <1>3 DEF InOrder, FreedInFlash
<1> QED
  BY <1>4, InOrderQueued DEF InOrder

\* A step outside of the enqueue loop that moves no decoded byte and no chunk.
LEMMA InOrderUndecoded ==
  ASSUME InOrder, pc # "enqueue", pc' # "enqueue", RawInOrder', FormatInStep',
         Consumed' = Consumed, written => written',
         UNCHANGED <<decoded_buf, decoded_head, tailVars, write_chunks, flash>>,
         owned' \in {owned, NoChunk}
  PROVE  InOrder'
<1>1. DecCount' = DecCount
  BY DEF DecCount, tailVars
<1>2. Left' = Left
  BY DEF Left
<1>3. Oldest' = Oldest /\ End' = End
  BY <1>1, <1>2 DEF Oldest, End
<1>4. DecodedInOrder' /\ EnqInOrder' /\ FreedInFlash'
  BY <1>1, <1>3
  DEF InOrder, DecodedInOrder, EnqInOrder, FreedInFlash, tailVars
<1>5. QueueInOrder'
  BY <1>3 DEF InOrder, QueueInOrder, InPlace, LastChunk
<1>6. Pages' /\ FirstHanded'
  BY <1>3 DEF InOrder, Pages, FirstHanded
<1> QED
  BY <1>4, <1>5, <1>6 DEF InOrder

\* A step that leaves the raw ring alone, too.
LEMMA InOrderFramed ==
  ASSUME InOrder, pc # "enqueue", pc' # "enqueue", FormatInStep', written => written',
         UNCHANGED <<rawVars, decoded_buf, decoded_head, tailVars, write_chunks, flash>>,
         owned' \in {owned, NoChunk}
  PROVE  InOrder'
<1>1. Consumed' = Consumed
  BY DEF Consumed, RawCount, rawVars
<1>2. RawInOrder'
  BY <1>1 DEF InOrder, RawInOrder, rawVars
<1> QED
  BY <1>1, <1>2, InOrderUndecoded

\* The target takes over the first chunk, which is closed or the last one.
LEMMA InOrderHandsOver ==
  ASSUME TypeInv, InOrder, WriteHandsOver
  PROVE  InOrder'
<1> DEFINE q == write_chunks
           c == [q[1] EXCEPT !.write_pending = TRUE]
<1>1. q \in Seq(Chunk) /\ 1 \in 1 .. Len(q) /\ q # <<>> /\ Len(q) \in Nat
  BY EmptySeq, LenProperties
  DEF WriteHandsOver, HasNextWriteChunk, TypeInv, TypeOK, ChunksTypeOK
<1>2. q[1] \in Chunk
  BY <1>1, ElementOfSeq
<1>3. /\ c \in Chunk /\ c.addr = q[1].addr /\ c.start = q[1].start /\ c.len = q[1].len
      /\ c.pending = q[1].pending
  BY <1>2 DEF Chunk
<1>4. write_chunks' = [q EXCEPT ![1] = c]
  BY <1>1, LenProperties DEF WriteHandsOver
<1>5. q[1].pending => written
  BY <1>1 DEF WriteHandsOver, HasNextWriteChunk, IgnorePending
<1>6. /\ UNCHANGED <<rawVars, decVars, tailVars, format_ops, written, flash>>
      /\ pc # "enqueue" /\ pc' # "enqueue"
      /\ owned' = [addr |-> q[1].addr, start |-> q[1].start, len |-> q[1].len]
  BY DEF WriteHandsOver, At, flagVars
<1> HIDE DEF c
<1>7. /\ Len(write_chunks') = Len(q) /\ write_chunks' \in Seq(Chunk)
      /\ \A i \in 1 .. Len(q) : write_chunks'[i] = IF i = 1 THEN c ELSE q[i]
  BY ONLY <1>1, <1>3, <1>4, SetElement
<1>8. \A i \in 1 .. Len(q) :
        /\ write_chunks'[i].addr = q[i].addr /\ write_chunks'[i].start = q[i].start
        /\ write_chunks'[i].len = q[i].len /\ write_chunks'[i].pending = q[i].pending
  BY <1>3, <1>7
<1>9. Consumed' = Consumed /\ Left' = Left /\ DecCount' = DecCount
  BY <1>6 DEF Consumed, RawCount, DecCount, Left, rawVars, decVars, tailVars
<1>10. Oldest' = Oldest /\ End' = End
  BY <1>9 DEF Oldest, End
<1>11. RawInOrder' /\ DecodedInOrder' /\ EnqInOrder' /\ FreedInFlash' /\ FormatInStep'
  BY <1>6, <1>9, <1>10
  DEF InOrder, RawInOrder, DecodedInOrder, EnqInOrder, FreedInFlash, FormatInStep,
      rawVars, decVars, tailVars
<1>12. write_chunks' # <<>> /\ LastChunk' = write_chunks'[Len(q)]
  BY <1>1, <1>7 DEF LastChunk
<1>13. QueueInOrder'
  <2>1. \A i \in 1 .. Len(q) - 1 : i \in 1 .. Len(q) /\ i + 1 \in 1 .. Len(q)
    BY <1>1
  <2>2. Len(q) \in 1 .. Len(q)
    BY <1>1
  <2>3. \A i \in 1 .. Len(q) : InPlace(q[i]) => InPlace(write_chunks[i])'
    BY <1>8, <1>10 DEF InPlace
  <2> QED
    BY <1>1, <1>7, <1>8, <1>10, <1>12, <2>1, <2>2, <2>3
    DEF InOrder, QueueInOrder, LastChunk
<1>14. Pages'
  BY <1>6, <1>7, <1>8, <1>10 DEF InOrder, Pages
<1>15. FirstHanded'
  BY <1>1, <1>5, <1>6, <1>8, <1>12 DEF FirstHanded
<1> QED
  BY <1>11, <1>13, <1>14, <1>15 DEF InOrder

\* _bf_append_data() puts the block behind what is in the raw ring.
LEMMA AppendedInOrder ==
  ASSUME TypeInv, RawInOrder, NEW n \in Nat, tot_appended + n <= FileSize, AppendData(n)
  PROVE  RawInOrder' /\ Consumed' = Consumed
<1> DEFINE t  == tot_appended
           n1 == Min2(RingSpaceToEnd(head, tail, RawSize), n)
           n2 == n - n1
           w  == [k \in Nat |-> t + k]
<1>1. /\ head \in 0 .. RawSize - 1 /\ tail \in 0 .. RawSize - 1 /\ t \in Nat
      /\ buf \in [0 .. RawSize - 1 -> 0 .. FileSize - 1 \cup {NoData}]
      /\ RawSize \in Nat \ {0}
  BY Sizes DEF TypeInv, TypeOK, RawTypeOK, RawSlot
<1>2. /\ RingSpaceToEnd(head, tail, RawSize) \in Nat
      /\ RawCount + RawSpace = RawSize - 1 /\ RawSpace \in Nat
  BY <1>1, SpaceToEndFits, CountPlusSpace DEF RawCount, RawSpace
<1>3. /\ n1 \in Nat /\ n2 \in Nat /\ n1 + n2 = n /\ n <= RawSpace
      /\ n1 <= RingSpaceToEnd(head, tail, RawSize)
      /\ n2 > 0 => n1 = RingSpaceToEnd(head, tail, RawSize)
  BY <1>2 DEF Min2, AppendData
<1>4. head = Mask(t, RawSize)
  BY DEF RawInOrder
<1>5. /\ buf' = CopyIn(CopyIn(buf, head, n1, t), Mask(head + n1, RawSize), n2, t + n1)
      /\ head' = Mask(Mask(head + n1, RawSize) + n2, RawSize)
      /\ t' = t + n /\ tail' = tail
  BY DEF AppendData
<1> HIDE DEF n1, n2
<1>6. Mask(head + n1, RawSize) = Mask(t + n1, RawSize)
  BY <1>1, <1>3, <1>4, MaskSlides
<1>7. head' = Mask(t', RawSize)
  <2>1. Mask(Mask(t + n1, RawSize) + n2, RawSize) = Mask(t + n1 + n2, RawSize)
    <3>1. t + n1 \in Nat
      BY <1>1, <1>3
    <3> QED
      BY <1>1, <1>3, <3>1, MaskSlides
  <2>2. t + n1 + n2 = t + n
    BY <1>1, <1>3
  <2> QED
    BY <1>5, <1>6, <2>1, <2>2
<1>8. /\ Mask(t, RawSize) + n1 <= RawSize
      /\ Mask(t + n1, RawSize) + n2 <= RawSize
      /\ n1 + n2 <= RawSize - 1
  BY <1>1, <1>3, <1>4, TwoSegments DEF RawSpace
<1>9. /\ \A k \in 0 .. n - 1 : buf'[Mask(t + k, RawSize)] = w[k]
      /\ \A s \in 0 .. RawSize - 1 :
           (\A k \in 0 .. n - 1 : s # Mask(t + k, RawSize)) => buf'[s] = buf[s]
  <2>1. t + n1 \in Nat /\ Mask(t + n1, RawSize) \in 0 .. RawSize - 1
    <3>1. t + n1 \in Nat
      BY <1>1, <1>3
    <3> QED
      BY <1>1, <3>1, MaskInRing
  <2>2. ASSUME NEW s \in 0 .. RawSize - 1
        PROVE  buf'[s] = IF s \in Mask(t + n1, RawSize) .. Mask(t + n1, RawSize) + n2 - 1
                         THEN w[n1 + (s - Mask(t + n1, RawSize))]
                         ELSE IF s \in Mask(t, RawSize) .. Mask(t, RawSize) + n1 - 1
                              THEN w[s - Mask(t, RawSize)] ELSE buf[s]
    <3> DEFINE h1 == Mask(t + n1, RawSize)
    <3>1. buf'[s] = IF s \in h1 .. h1 + n2 - 1 THEN (t + n1) + (s - h1)
                    ELSE IF s \in head .. head + n1 - 1 THEN t + (s - head) ELSE buf[s]
      BY <1>1, <1>5, <1>6 DEF CopyIn
    <3>2. s \in h1 .. h1 + n2 - 1 =>
            n1 + (s - h1) \in Nat /\ (t + n1) + (s - h1) = t + (n1 + (s - h1))
      <4> HIDE DEF h1
      <4> QED
        BY <1>1, <1>3, <2>1 DEF h1
    <3>3. s \in head .. head + n1 - 1 => s - head \in Nat
      BY <1>1, <1>3
    <3>4. s \in h1 .. h1 + n2 - 1 => w[n1 + (s - h1)] = (t + n1) + (s - h1)
      <4> HIDE DEF h1
      <4> QED
        BY <3>2
    <3>5. s \in head .. head + n1 - 1 => w[s - head] = t + (s - head)
      BY <3>3
    <3> HIDE DEF h1, w
    <3> QED
      BY <1>4, <3>1, <3>4, <3>5 DEF h1
  <2> HIDE DEF w, t
  <2>4. Copied(buf, buf', w, t, n1 + n2, RawSize)
    <3>1. CopiedTwice(buf, buf', w, t, n1, n2, RawSize)
      BY <2>2 DEF CopiedTwice
    <3>2. /\ RawSize \in Nat \ {0} /\ t \in Nat /\ n1 \in Nat /\ n2 \in Nat
          /\ Mask(t, RawSize) + n1 <= RawSize
          /\ Mask(t + n1, RawSize) + n2 <= RawSize
          /\ n1 + n2 <= RawSize - 1
      BY <1>1, <1>3, <1>8 DEF t
    <3> QED
      BY ONLY <3>1, <3>2, TwoCopies, Zenon
  <2>5. n1 + n2 = n
    BY <1>3
  <2> QED
    BY <2>4, <2>5 DEF Copied
<1>10. RawCount' = RawCount + n
  <2>2. RawCount \in Nat /\ RawCount = RingCount(head, tail, RawSize)
    BY Positions DEF RawCount
  <2>1. RawCount + n <= RawSize - 1
    BY ONLY <1>1, <1>2, <1>3, <2>2, n \in Nat
  <2>3. head' = Mask(head + n, RawSize)
    BY <1>1, <1>4, <1>5, <1>7, MaskSlides
  <2>4. RingCount(Mask(head + n, RawSize), tail, RawSize) = RawCount + n
    BY <1>1, <2>1, <2>2, CountAfterFilling
  <2> QED
    BY <1>5, <2>3, <2>4 DEF RawCount
<1>11. Consumed' = Consumed
  <2>1. RawCount \in Nat /\ Consumed = t - RawCount
    BY <1>1, Positions
  <2>2. Consumed' = (t + n) - (RawCount + n)
    BY <1>5, <1>10 DEF Consumed
  <2> QED
    BY ONLY <1>1, <2>1, <2>2, n \in Nat
<1>12. ASSUME NEW a \in Consumed .. t' - 1
       PROVE  buf'[Mask(a, RawSize)] = a
  <2>1. Consumed \in Nat /\ a \in Nat /\ a < t + n /\ t - Consumed = RawCount
    BY <1>1, <1>5, Positions DEF RawInOrder
  <2>2. CASE t <= a
    <3>1. a - t \in 0 .. n - 1 /\ t + (a - t) = a
      BY <1>1, <2>1, <2>2
    <3> QED
      BY <1>9, <3>1
  <2>3. CASE a < t
    <3>1. buf[Mask(a, RawSize)] = a /\ Mask(a, RawSize) \in 0 .. RawSize - 1
      BY <1>1, <2>1, <2>3, MaskInRing DEF RawInOrder
    <3>2. ASSUME NEW k \in 0 .. n - 1
          PROVE  Mask(a, RawSize) # Mask(t + k, RawSize)
      <4>1. a # t + k /\ a < (t + k) + RawSize /\ t + k < a + RawSize /\ t + k \in Nat
        BY <1>1, <1>2, <1>3, <2>1, <2>3, Positions
      <4> QED
        BY <1>1, <2>1, <4>1, SlotsApart
    <3> QED
      BY <1>9, <3>1, <3>2
  <2> QED
    BY <1>1, <2>1, <2>2, <2>3
<1> QED
  BY <1>5, <1>7, <1>11, <1>12 DEF RawInOrder

\* A file event leaves the raw ring in order.
LEMMA ClientKeepsRaw ==
  ASSUME TypeInv, RawInOrder, ClientAppends
  PROVE  RawInOrder' /\ Consumed' = Consumed
<1>1. CASE UNCHANGED rawVars
  BY <1>1 DEF RawInOrder, Consumed, RawCount, rawVars
<1>2. CASE ~UNCHANGED rawVars
  BY <1>2, BlockAppended, AppendedInOrder
<1> QED
  BY <1>1, <1>2

\* A file event.
LEMMA InOrderAppends ==
  ASSUME TypeInv, InOrder, ClientAppends
  PROVE  InOrder'
<1>3. RawInOrder
  BY DEF InOrder
<1>4. RawInOrder' /\ Consumed' = Consumed
  BY <1>3, ClientKeepsRaw
<1>5. UNCHANGED <<decVars, tailVars, write_chunks, format_ops, pc, targetVars>>
  BY Zenon DEF ClientAppends
<1>6. pc # "enqueue" /\ (written => written')
  BY DEF ClientAppends, AppendsBlock, AppendsNothing, AtEvents, At
<1>7. FormatInStep'
  BY <1>4, <1>5 DEF InOrder, FormatInStep, decVars
<1> QED
  BY ONLY <1>4, <1>5, <1>6, <1>7, InOrder, InOrderUndecoded DEF decVars, targetVars

\* What binary_decode_chunk() copies is what comes next in the raw ring.
LEMMA CopiesNextBytes ==
  ASSUME TypeOK, NEW x \in Nat, NEW n1 \in Nat, NEW n2 \in Nat,
         tail = Mask(x, RawSize), decoded_head = Mask(x, DecodedSize),
         Mask(x, DecodedSize) + n1 <= DecodedSize,
         Mask(x + n1, DecodedSize) + n2 <= DecodedSize,
         n1 + n2 <= DecodedSize - 1,
         decoded_buf' = Subcopy(Subcopy(decoded_buf, decoded_head, n1, tail),
                                Mask(decoded_head + n1, DecodedSize), n2,
                                Mask(tail + n1, RawSize)),
         \A k \in 0 .. n1 + n2 - 1 : buf[Mask(x + k, RawSize)] = x + k
  PROVE  Copied(decoded_buf, decoded_buf', [k \in Nat |-> x + k], x, n1 + n2, DecodedSize)
<1> DEFINE w  == [k \in Nat |-> buf[Mask(x + k, RawSize)]]
           d0 == Mask(x, DecodedSize)
           d1 == Mask(x + n1, DecodedSize)
<1>1. RawSize \in Nat \ {0} /\ DecodedSize \in Nat \ {0}
  BY Sizes
<1>2. Mask(decoded_head + n1, DecodedSize) = d1
  BY <1>1, MaskSlides
<1>3. d0 \in 0 .. DecodedSize - 1 /\ d1 \in 0 .. DecodedSize - 1
  <2>1. x + n1 \in Nat
    OBVIOUS
  <2> QED
    BY <1>1, <2>1, MaskInRing
<1>4. \A k \in Nat : w[k] = buf[Mask(x + k, RawSize)]
  OBVIOUS
<1>5. \A k \in Nat : Mask(tail + k, RawSize) = Mask(x + k, RawSize)
  BY <1>1, MaskSlides
<1>6. \A k \in Nat : Mask(Mask(tail + n1, RawSize) + k, RawSize) = Mask(x + (n1 + k), RawSize)
  <2> SUFFICES ASSUME NEW k \in Nat
               PROVE  Mask(Mask(tail + n1, RawSize) + k, RawSize)
                        = Mask(x + (n1 + k), RawSize)
    OBVIOUS
  <2>1. Mask(tail + n1, RawSize) = Mask(x + n1, RawSize) /\ x + n1 \in Nat
    BY <1>5
  <2>2. Mask(Mask(x + n1, RawSize) + k, RawSize) = Mask(x + n1 + k, RawSize)
    BY <1>1, <2>1, MaskSlides
  <2>3. x + n1 + k = x + (n1 + k)
    OBVIOUS
  <2> QED
    BY <2>1, <2>2, <2>3
<1>7. DOMAIN decoded_buf = 0 .. DecodedSize - 1
  BY DEF TypeOK, DecodedTypeOK, DecSlot
<1>8. decoded_buf' = Subcopy(Subcopy(decoded_buf, d0, n1, tail), d1, n2,
                             Mask(tail + n1, RawSize))
  BY <1>2
<1> HIDE DEF w, d0, d1
<1>9. ASSUME NEW s \in 0 .. DecodedSize - 1
      PROVE  decoded_buf'[s] = IF s \in d1 .. d1 + n2 - 1 THEN w[n1 + (s - d1)]
                               ELSE IF s \in d0 .. d0 + n1 - 1 THEN w[s - d0]
                                    ELSE decoded_buf[s]
  <2>1. decoded_buf'[s] =
          IF s \in d1 .. d1 + n2 - 1
          THEN buf[Mask(Mask(tail + n1, RawSize) + (s - d1), RawSize)]
          ELSE IF s \in d0 .. d0 + n1 - 1 THEN buf[Mask(tail + (s - d0), RawSize)]
               ELSE decoded_buf[s]
    BY <1>7, <1>8 DEF Subcopy
  <2>2. s \in d1 .. d1 + n2 - 1 => s - d1 \in Nat /\ n1 + (s - d1) \in Nat
    BY <1>3
  <2>3. s \in d0 .. d0 + n1 - 1 => s - d0 \in Nat
    BY <1>3
  <2> QED
    BY <1>4, <1>5, <1>6, <2>1, <2>2, <2>3
<1>10. CopiedTwice(decoded_buf, decoded_buf', w, x, n1, n2, DecodedSize)
  BY <1>9 DEF CopiedTwice, d0, d1
<1>11. Copied(decoded_buf, decoded_buf', w, x, n1 + n2, DecodedSize)
  <2>1. /\ DecodedSize \in Nat \ {0} /\ x \in Nat /\ n1 \in Nat /\ n2 \in Nat
        /\ Mask(x, DecodedSize) + n1 <= DecodedSize
        /\ Mask(x + n1, DecodedSize) + n2 <= DecodedSize
        /\ n1 + n2 <= DecodedSize - 1
    BY <1>1
  <2> QED
    BY ONLY <1>10, <2>1, TwoCopies, Zenon
<1>12. \A k \in 0 .. n1 + n2 - 1 : w[k] = x + k
  BY <1>4
<1> QED
  BY <1>11, <1>12 DEF Copied

\* binary_decode_chunk().
LEMMA InOrderDecodes ==
  ASSUME TypeIInv, InOrder, DecodeBinary
  PROVE  InOrder'
<1> DEFINE x == Consumed
<1>1. /\ TypeInv /\ TypeOK /\ format_ops /\ pc = "decode"
      /\ RawInOrder /\ DecodedInOrder /\ FormatInStep /\ EnqInOrder
  BY DEF TypeIInv, TypeInv, FormatKnown, DecodeBinary, At, InOrder
<1>2. /\ x \in Nat /\ tail = Mask(x, RawSize) /\ decoded_head = Mask(x, DecodedSize)
      /\ head = Mask(tot_appended, RawSize) /\ format_data = x
      /\ head \in 0 .. RawSize - 1 /\ tail \in 0 .. RawSize - 1
      /\ decoded_head \in 0 .. DecodedSize - 1 /\ decoded_tail \in 0 .. DecodedSize - 1
      /\ RawSize \in Nat \ {0} /\ DecodedSize \in Nat \ {0}
  BY <1>1, Sizes
  DEF RawInOrder, DecodedInOrder, FormatInStep, TypeOK, RawTypeOK, DecodedTypeOK,
      RawSlot, DecSlot
<1>3. PICK n1 \in Nat, n2 \in Nat :
        /\ n1 + n2 <= RawCount /\ n1 + n2 <= DecSpace
        /\ n1 <= RingSpaceToEnd(decoded_head, decoded_tail, DecodedSize)
        /\ n2 > 0 => n1 = RingSpaceToEnd(decoded_head, decoded_tail, DecodedSize)
        /\ decoded_buf' = Subcopy(Subcopy(decoded_buf, decoded_head, n1, tail),
                                  Mask(decoded_head + n1, DecodedSize), n2,
                                  Mask(tail + n1, RawSize))
        /\ decoded_head' = Mask(Mask(decoded_head + n1, DecodedSize) + n2, DecodedSize)
        /\ tail' = Mask(tail + n1 + n2, RawSize)
        /\ format_data' = format_data + n1 + n2
        /\ AfterDecode(n1 + n2, format_data)
  BY <1>1, DecodeBinaryMoves
<1> DEFINE n == n1 + n2
<1>4. UNCHANGED <<buf, head, tot_appended, tailVars, write_chunks, flagVars, targetVars>>
  BY Zenon DEF DecodeBinary
<1>5. n \in Nat /\ n <= RawCount /\ n <= DecSpace
  BY <1>3
<1>6. /\ RawCount \in Nat /\ DecCount \in Nat
      /\ RawCount = RingCount(head, tail, RawSize)
      /\ DecCount = RingCount(decoded_head, decoded_tail, DecodedSize)
      /\ DecCount + DecSpace = DecodedSize - 1 /\ DecSpace \in Nat
      /\ RawCount = tot_appended - x /\ tot_appended \in Nat
      /\ Oldest = x - DecCount
  BY <1>1, <1>2, Positions, CountPlusSpace DEF RawCount, DecCount, DecSpace
<1> HIDE DEF x
<1>7. /\ Mask(x, DecodedSize) + n1 <= DecodedSize
      /\ Mask(x + n1, DecodedSize) + n2 <= DecodedSize
      /\ n1 + n2 <= DecodedSize - 1
  BY ONLY <1>2, <1>3, TwoSegments DEF DecSpace
<1>8. decoded_head' = Mask(x + n, DecodedSize)
  <2>1. Mask(decoded_head + n1, DecodedSize) = Mask(x + n1, DecodedSize) /\ x + n1 \in Nat
    BY <1>2, MaskSlides
  <2>2. Mask(Mask(x + n1, DecodedSize) + n2, DecodedSize) = Mask(x + n1 + n2, DecodedSize)
    BY <1>2, <2>1, MaskSlides
  <2>3. x + n1 + n2 = x + n
    BY <1>2
  <2> QED
    BY <1>3, <2>1, <2>2, <2>3
<1>9. tail' = Mask(x + n, RawSize) /\ tail' = Mask(tail + n, RawSize)
  <2>1. tail + n1 + n2 = tail + n
    BY <1>2
  <2>2. Mask(tail + n, RawSize) = Mask(x + n, RawSize)
    <3> HIDE DEF n
    <3> QED
      BY <1>2, <1>5, MaskSlides
  <2> QED
    BY <1>3, <2>1, <2>2
<1> HIDE DEF n
<1>10. RawCount' = RawCount - n
  BY <1>2, <1>4, <1>5, <1>6, <1>9, CountAfterFreeing DEF RawCount
<1>11. DecCount' = DecCount + n
  <2>1. RingCount(decoded_head, decoded_tail, DecodedSize) + n <= DecodedSize - 1
    BY <1>2, <1>5, <1>6
  <2>2. RingCount(Mask(decoded_head + n, DecodedSize), decoded_tail, DecodedSize)
          = RingCount(decoded_head, decoded_tail, DecodedSize) + n
    BY <1>2, <1>5, <2>1, CountAfterFilling
  <2>3. decoded_head' = Mask(decoded_head + n, DecodedSize)
    BY <1>2, <1>5, <1>8, MaskSlides
  <2> QED
    BY <1>4, <1>6, <2>2, <2>3 DEF DecCount, tailVars
<1>12. Consumed' = x + n
  BY <1>2, <1>4, <1>5, <1>6, <1>10 DEF Consumed
<1>13. Oldest' = Oldest
  BY <1>2, <1>5, <1>6, <1>11, <1>12 DEF Oldest
<1>14. /\ Left = 0 /\ Left' = n
       /\ pc' = "enqueue" => enq' = [addr |-> x, len |-> n] /\ n > 0
  BY <1>1, <1>2, <1>3, <1>5 DEF Left, AfterDecode, n
<1>15. End = x /\ End' = End
  BY <1>2, <1>5, <1>12, <1>14 DEF End, x
<1>16. /\ \A k \in 0 .. n - 1 : decoded_buf'[Mask(x + k, DecodedSize)] = x + k
       /\ \A s \in 0 .. DecodedSize - 1 :
            (\A k \in 0 .. n - 1 : s # Mask(x + k, DecodedSize))
              => decoded_buf'[s] = decoded_buf[s]
  <2>1. \A k \in 0 .. n1 + n2 - 1 : buf[Mask(x + k, RawSize)] = x + k
    <3> SUFFICES ASSUME NEW k \in 0 .. n1 + n2 - 1
                 PROVE  buf[Mask(x + k, RawSize)] = x + k
      OBVIOUS
    <3>1. x + k \in x .. tot_appended - 1
      BY <1>2, <1>3, <1>6
    <3> QED
      BY <1>1, <3>1 DEF RawInOrder, x
  <2>2. Copied(decoded_buf, decoded_buf', [k \in Nat |-> x + k], x, n1 + n2, DecodedSize)
    <3>1. TypeOK /\ x \in Nat /\ tail = Mask(x, RawSize) /\ decoded_head = Mask(x, DecodedSize)
      BY <1>1, <1>2
    <3>2. decoded_buf' = Subcopy(Subcopy(decoded_buf, decoded_head, n1, tail),
                                 Mask(decoded_head + n1, DecodedSize), n2,
                                 Mask(tail + n1, RawSize))
      BY <1>3
    <3> QED
      BY ONLY <1>7, <2>1, <3>1, <3>2, n1 \in Nat, n2 \in Nat, CopiesNextBytes, Zenon
  <2> QED
    BY <1>2, <2>2 DEF Copied, n
<1>17. RawInOrder'
  <2>1. Consumed' \in Nat
    BY <1>2, <1>5, <1>12
  <2>2. ASSUME NEW a \in Consumed' .. tot_appended' - 1
        PROVE  buf'[Mask(a, RawSize)] = a
    <3>1. a \in x .. tot_appended - 1
      BY <1>2, <1>4, <1>5, <1>6, <1>12
    <3> QED
      BY <1>1, <1>4, <3>1 DEF RawInOrder, x
  <2> QED
    BY <1>1, <1>4, <1>9, <1>12, <2>1, <2>2 DEF RawInOrder
<1>18. DecodedInOrder'
  <2>1. ASSUME NEW a \in Oldest .. x + n - 1
        PROVE  decoded_buf'[Mask(a, DecodedSize)] = a
    <3>1. Oldest \in Nat /\ a \in Nat
      BY <1>1 DEF DecodedInOrder
    <3>2. CASE x <= a
      <4>1. a - x \in 0 .. n - 1 /\ x + (a - x) = a
        BY <1>2, <1>5, <3>1, <3>2
      <4> QED
        BY <1>16, <4>1
    <3>3. CASE a < x
      <4>1. decoded_buf[Mask(a, DecodedSize)] = a /\ Mask(a, DecodedSize) \in 0 .. DecodedSize - 1
        BY <1>1, <1>2, <3>1, <3>3, MaskInRing DEF DecodedInOrder, x
      <4>2. ASSUME NEW k \in 0 .. n - 1
            PROVE  Mask(a, DecodedSize) # Mask(x + k, DecodedSize)
        <5>1. /\ a # x + k /\ a < (x + k) + DecodedSize /\ x + k < a + DecodedSize
              /\ x + k \in Nat
          BY <1>2, <1>5, <1>6, <3>1, <3>3
        <5> QED
          BY <1>2, <3>1, <5>1, SlotsApart
      <4> QED
        BY <1>16, <4>1, <4>2
    <3> QED
      BY <1>2, <3>1, <3>2, <3>3
  <2>2. Oldest \in Nat /\ decoded_tail' = Mask(Oldest, DecodedSize)
    BY <1>1, <1>4 DEF DecodedInOrder, tailVars
  <2>3. Oldest' \in Nat /\ decoded_tail' = Mask(Oldest', DecodedSize)
    BY ONLY <1>13, <2>2
  <2>4. decoded_head' = Mask(Consumed', DecodedSize)
    BY ONLY <1>8, <1>12
  <2>5. \A a \in Oldest' .. Consumed' - 1 : decoded_buf'[Mask(a, DecodedSize)] = a
    <3> SUFFICES ASSUME NEW a \in Oldest' .. Consumed' - 1
                 PROVE  decoded_buf'[Mask(a, DecodedSize)] = a
      OBVIOUS
    <3>1. a \in Oldest .. x + n - 1
      BY <1>2, <1>5, <1>12, <1>13, <2>2
    <3> QED
      BY <2>1, <3>1
  <2> QED
    BY ONLY <2>3, <2>4, <2>5 DEF DecodedInOrder
<1>19. FormatInStep'
  BY <1>1, <1>2, <1>3, <1>4, <1>12 DEF FormatInStep, flagVars, n
<1>20. EnqInOrder'
  BY <1>1, <1>2, <1>4, <1>5, <1>12, <1>13, <1>14, <1>15 DEF EnqInOrder, tailVars
<1>21. QueueInOrder' /\ Pages' /\ FirstHanded' /\ FreedInFlash'
  BY <1>4, <1>13, <1>15
  DEF InOrder, QueueInOrder, InPlace, LastChunk, Pages, FirstHanded, FreedInFlash,
      flagVars, targetVars
<1> QED
  BY <1>17, <1>18, <1>19, <1>20, <1>21 DEF InOrder

\* When no chunk is pending, the next page starts at End.
LEMMA ClosedPages ==
  ASSUME TypeInv, InOrder, ~written, ~IgnoreAlignment, ~HasPendingChunk
  PROVE  End = Oldest + Len(write_chunks) * WriteChunkSize /\ End % WriteChunkSize = 0
<1>1. /\ Oldest \in Nat /\ Oldest % WriteChunkSize = 0
      /\ WriteChunkSize \in Nat \ {0} /\ Len(write_chunks) \in Nat
  BY Sizes, QueueFields DEF InOrder, DecodedInOrder, Pages
<1>2. End = Oldest + Len(write_chunks) * WriteChunkSize
  <2>1. CASE write_chunks = <<>>
    <3>1. End = Oldest /\ Len(write_chunks) = 0
      BY <2>1 DEF InOrder, QueueInOrder
    <3>2. 0 * WriteChunkSize = 0
      BY <1>1
    <3> QED
      BY <1>1, <3>1, <3>2
  <2>2. CASE write_chunks # <<>>
    <3> DEFINE l == Len(write_chunks)
    <3>1. l \in 1 .. l /\ l \in Nat
      BY <2>2, QueueFields
    <3>2. /\ End = write_chunks[l].addr + write_chunks[l].len
          /\ ~write_chunks[l].pending
      BY <2>2 DEF InOrder, QueueInOrder, LastChunk, HasPendingChunk
    <3>3. /\ write_chunks[l].addr = Oldest + (l - 1) * WriteChunkSize
          /\ write_chunks[l].len = WriteChunkSize
      BY <3>1, <3>2 DEF InOrder, Pages
    <3> HIDE DEF l
    <3>4. (l - 1) * WriteChunkSize + WriteChunkSize = l * WriteChunkSize
          /\ (l - 1) * WriteChunkSize \in Int
      BY <1>1, <3>1
    <3> QED
      BY <1>1, <3>2, <3>3, <3>4 DEF l
  <2> QED
    BY <2>1, <2>2
<1> QED
  BY ONLY <1>1, <1>2, WholeStep

\* n of the bytes that are left go to a chunk.
LEMMA EndMoves ==
  ASSUME TypeInv, InOrder, pc = "enqueue", NEW n \in Nat, n <= enq.len, Enqueued(n),
         UNCHANGED <<rawVars, decVars, decoded_tail, format_ops>>
  PROVE  /\ Consumed' = Consumed /\ Oldest' = Oldest /\ End' = End + n
         /\ enq.addr = End /\ End' <= Consumed
         /\ RawInOrder' /\ DecodedInOrder' /\ FormatInStep' /\ EnqInOrder'
<1>1. /\ enq.addr \in Nat /\ enq.len \in Nat /\ Left = enq.len
      /\ enq.len > 0 /\ enq.addr + enq.len = Consumed
      /\ Oldest <= End /\ write_tail = Mask(End, DecodedSize)
  BY DEF TypeInv, TypeOK, LoopTypeOK, InOrder, EnqInOrder, Left
<1>2. Consumed \in Nat /\ Oldest \in Nat
  BY DEF InOrder, RawInOrder, DecodedInOrder
<1>3. enq.addr = End /\ End \in Nat
  BY <1>1, <1>2 DEF End
<1>4. Consumed' = Consumed /\ DecCount' = DecCount
  BY DEF Consumed, RawCount, DecCount, rawVars, decVars
<1>5. Oldest' = Oldest
  BY <1>4 DEF Oldest
<1>6. /\ enq' = [addr |-> enq.addr + n, len |-> enq.len - n]
      /\ pc' = IF enq.len = n THEN "host" ELSE "enqueue"
      /\ write_tail' = Mask(write_tail + n, DecodedSize)
  BY DEF Enqueued
<1>7. Left' = enq.len - n
  BY <1>1, <1>6 DEF Left
<1>8. End' = End + n /\ End' <= Consumed
  BY <1>1, <1>2, <1>3, <1>4, <1>7 DEF End
<1>9. write_tail' = Mask(End', DecodedSize)
  BY <1>1, <1>3, <1>6, <1>8, Sizes, MaskSlides
<1>10. pc' = "enqueue" => enq'.len > 0 /\ enq'.addr + enq'.len = Consumed'
  BY <1>1, <1>2, <1>4, <1>6
<1>11. EnqInOrder'
  BY <1>1, <1>2, <1>3, <1>5, <1>8, <1>9, <1>10 DEF EnqInOrder
<1>12. RawInOrder' /\ DecodedInOrder' /\ FormatInStep'
  BY <1>4, <1>5 DEF InOrder, RawInOrder, DecodedInOrder, FormatInStep, rawVars, decVars
<1> QED
  BY <1>3, <1>4, <1>5, <1>8, <1>11, <1>12

\* Chunks that stay as they were stay in their places while End moves on.
LEMMA KeptInPlace ==
  ASSUME TypeInv, QueueInOrder, Oldest' = Oldest, End' \in Int, End <= End',
         NEW i \in 1 .. Len(write_chunks), NEW j, write_chunks'[j] = write_chunks[i]
  PROVE  /\ Oldest <= write_chunks'[j].addr
         /\ write_chunks'[j].addr + write_chunks'[j].len <= End'
         /\ write_chunks'[j].start = Mask(write_chunks'[j].addr, DecodedSize)
         /\ write_chunks'[j].start + write_chunks'[j].len <= DecodedSize
<1> DEFINE c == write_chunks[i]
<1>1. c.addr \in Nat /\ c.len \in Nat
  BY QueueFields
<1>2. /\ Oldest <= c.addr /\ c.addr + c.len <= End
      /\ c.start = Mask(c.addr, DecodedSize) /\ c.start + c.len <= DecodedSize
  BY DEF QueueInOrder, InPlace
<1>3. End \in Int
  BY Positions
<1> HIDE DEF c
<1>4. c.addr + c.len <= End'
  BY <1>1, <1>2, <1>3
<1> QED
  BY <1>2, <1>4 DEF c

\* bf_enqueue_for_writing() fills the last chunk.
LEMMA InOrderFills ==
  ASSUME TypeInv, InOrder, ~written, pc = "enqueue", FillPending,
         UNCHANGED <<rawVars, decVars, decoded_tail, format_ops, targetVars>>
  PROVE  InOrder'
<1> DEFINE q == write_chunks
           l == Len(q)
           c == q[l]
<1>1. l \in Nat /\ l \in 1 .. l /\ q # <<>> /\ c.pending /\ ~IgnoreAlignment
  BY FillPendingEffect, QueueFields DEF LastChunk, FillPending, HasPendingChunk
<1>2. PICK n \in Nat :
        /\ n = Min2(enq.len, WriteChunkSize - c.len)
        /\ n <= enq.len /\ c.len + n <= WriteChunkSize
        /\ Enqueued(n)
        /\ Len(q') = l
        /\ \A i \in 1 .. l - 1 : q'[i] = q[i]
        /\ q'[l].addr = c.addr /\ q'[l].start = c.start /\ q'[l].len = c.len + n
        /\ q'[l].pending <=> c.len + n < WriteChunkSize
  BY FillPendingEffect DEF LastChunk
<1>3. /\ Consumed' = Consumed /\ Oldest' = Oldest /\ End' = End + n
      /\ RawInOrder' /\ DecodedInOrder' /\ FormatInStep' /\ EnqInOrder'
  BY <1>2, EndMoves
<1>4. QueueInOrder /\ Pages /\ FirstHanded /\ FreedInFlash
  BY DEF InOrder
<1>5. /\ \A i \in 1 .. l : q[i].addr \in Nat /\ q[i].len \in Nat
      /\ WriteChunkSize \in Nat \ {0} /\ DecodedSize \in Nat \ {0}
      /\ Oldest \in Nat /\ End \in Int /\ End' \in Int /\ End <= End'
  <2>1. End \in Int /\ Oldest \in Nat
    BY Positions DEF InOrder, DecodedInOrder
  <2>2. End' \in Int /\ End <= End'
    BY ONLY <1>2, <1>3, <2>1
  <2>3. \A i \in 1 .. l : q[i].addr \in Nat /\ q[i].len \in Nat
    BY QueueFields
  <2> QED
    BY <2>1, <2>2, <2>3, Sizes
<1>6. c.addr + c.len = End
  BY <1>1, <1>4 DEF QueueInOrder, LastChunk
<1>7. /\ c.addr = Oldest + (l - 1) * WriteChunkSize
      /\ c.addr % WriteChunkSize = 0
  <2>1. c.addr = Oldest + (l - 1) * WriteChunkSize /\ Oldest % WriteChunkSize = 0
    BY <1>1, <1>4 DEF Pages
  <2>2. l - 1 \in Nat
    BY <1>1
  <2> HIDE DEF l
  <2> QED
    BY ONLY <1>5, <2>1, <2>2, WholeStep
<1>8. c.start = Mask(c.addr, DecodedSize)
  BY <1>1, <1>4 DEF QueueInOrder, InPlace
<1>9. c.start + (c.len + n) <= DecodedSize
  <2>1. Mask(c.addr, DecodedSize) + WriteChunkSize <= DecodedSize
    <3> HIDE DEF c
    <3>1. c.addr \in Nat
      BY <1>1, <1>5 DEF c
    <3> QED
      BY <1>5, <1>7, <3>1, ChunkDividesBuffer, PageFits
  <2>2. Mask(c.addr, DecodedSize) \in 0 .. DecodedSize - 1
    <3>1. c.addr \in Int
      BY <1>1, <1>5
    <3> QED
      BY ONLY <1>5, <3>1, MaskInRing
  <2> QED
    BY <1>1, <1>2, <1>5, <1>8, <2>1, <2>2
<1>10. q'[l].addr + q'[l].len = End'
  BY <1>1, <1>2, <1>3, <1>5, <1>6
<1>11. q' # <<>>
  BY <1>1, <1>2
<1>12. LastChunk' = q'[l]
  BY <1>2 DEF LastChunk
<1> HIDE DEF l, c
<1>13. QueueInOrder'
  <2>1. q'[1].addr = Oldest
    <3>1. q[1].addr = Oldest
      BY <1>1, <1>4 DEF QueueInOrder
    <3>2. q'[1].addr = q[1].addr
      <4>1. CASE l = 1
        BY <1>2, <4>1 DEF c
      <4>2. CASE l # 1
        BY <1>1, <1>2, <4>2
      <4> QED
        BY <4>1, <4>2
    <3> QED
      BY <3>1, <3>2
  <2>2. ASSUME NEW i \in 1 .. l - 1
        PROVE  q'[i + 1].addr = q'[i].addr + q'[i].len
    <3>1. q[i + 1].addr = q[i].addr + q[i].len
      BY <1>4 DEF QueueInOrder, l
    <3>2. q'[i] = q[i]
      BY <1>2
    <3>3. q'[i + 1].addr = q[i + 1].addr
      <4>1. CASE i = l - 1
        BY <1>1, <1>2, <4>1 DEF c
      <4>2. CASE i # l - 1
        BY <1>1, <1>2, <4>2
      <4> QED
        BY <4>1, <4>2
    <3> QED
      BY <3>1, <3>2, <3>3
  <2>5. ASSUME NEW i \in 1 .. l, NEW j \in 1 .. l, i < j
        PROVE  q'[i].addr + q'[i].len <= q'[j].addr
    <3>1. q[i].addr + q[i].len <= q[j].addr
      BY <1>4, <2>5 DEF QueueInOrder, l
    <3>2. q'[i] = q[i]
      BY <1>1, <1>2, <2>5
    <3>3. q'[j].addr = q[j].addr
      <4>1. CASE j = l
        BY <1>2, <4>1 DEF c
      <4>2. CASE j # l
        BY <1>1, <1>2, <4>2
      <4> QED
        BY <4>1, <4>2
    <3> QED
      BY <3>1, <3>2, <3>3
  <2>3. ASSUME NEW i \in 1 .. l
        PROVE  InPlace(write_chunks[i])'
    <3>1. CASE i < l
      <4>1. q'[i] = q[i] /\ i \in 1 .. Len(q)
        BY <1>1, <1>2, <3>1 DEF l
      <4> QED
        BY <1>3, <1>4, <1>5, <4>1, KeptInPlace DEF InPlace
    <3>2. CASE i = l
      <4>1. Oldest <= c.addr
        BY <1>1, <1>4 DEF QueueInOrder, InPlace, l, c
      <4>2. End' <= End'
        BY <1>5
      <4> QED
        BY <1>2, <1>3, <1>8, <1>9, <1>10, <3>2, <4>1, <4>2 DEF InPlace
    <3> QED
      BY <1>1, <3>1, <3>2
  <2>4. ASSUME NEW a \in Oldest .. End' - 1
        PROVE  \E i \in 1 .. l : a \in q'[i].addr .. q'[i].addr + q'[i].len - 1
    <3>1. CASE a < End
      <4>1. PICK i \in 1 .. l : a \in q[i].addr .. q[i].addr + q[i].len - 1
        BY <1>4, <1>5, <3>1 DEF QueueInOrder, l
      <4>2. CASE i < l
        BY <1>1, <1>2, <4>1, <4>2
      <4>3. CASE i = l
        <5>1. a \in c.addr .. c.addr + (c.len + n) - 1
          BY <1>1, <1>5, <4>1, <4>3 DEF c
        <5> QED
          BY <1>1, <1>2, <5>1
      <4> QED
        BY <1>1, <4>2, <4>3
    <3>2. CASE End <= a
      <4>1. c.addr \in Nat /\ c.len \in Nat
        BY <1>1, <1>5 DEF c
      <4>2. a <= End + n - 1 /\ a \in Int
        BY ONLY <1>3, <1>5, <2>4
      <4>3. a \in c.addr .. c.addr + (c.len + n) - 1
        BY ONLY <1>5, <1>6, <3>2, <4>1, <4>2, n \in Nat
      <4> QED
        BY <1>1, <1>2, <4>3
    <3> QED
      BY <1>5, <3>1, <3>2
  <2> QED
    BY ONLY <1>2, <1>3, <1>10, <1>11, <1>12, <2>1, <2>2, <2>3, <2>4, <2>5 DEF QueueInOrder
<1>14. Pages'
  <2>1. ASSUME NEW i \in 1 .. l
        PROVE  /\ q'[i].addr = Oldest + (i - 1) * WriteChunkSize
               /\ IF q'[i].pending
                  THEN i = l /\ q'[i].len < WriteChunkSize
                  ELSE q'[i].len = WriteChunkSize
    <3>1. CASE i < l
      <4>1. q'[i] = q[i]
        BY <1>1, <1>2, <3>1
      <4> QED
        BY <1>1, <1>4, <4>1 DEF Pages, l
    <3>2. CASE i = l
      <4>1. c.len \in Nat /\ c.len + n <= WriteChunkSize
        BY <1>1, <1>2, <1>5 DEF c
      <4>2. q'[i].pending <=> c.len + n < WriteChunkSize
        BY <1>2, <3>2
      <4>3. q'[i].len = c.len + n /\ q'[i].addr = c.addr
        BY <1>2, <3>2
      <4>4. IF q'[i].pending THEN i = l /\ q'[i].len < WriteChunkSize
            ELSE q'[i].len = WriteChunkSize
        BY ONLY <1>5, <3>2, <4>1, <4>2, <4>3, n \in Nat
      <4> QED
        BY ONLY <1>7, <3>2, <4>3, <4>4
    <3> QED
      BY <1>1, <3>1, <3>2
  <2> QED
    BY <1>1, <1>2, <1>3, <1>4, <2>1 DEF Pages
<1>15. FirstHanded'
  <2> SUFFICES ASSUME owned # NoChunk
               PROVE  /\ q' # <<>> /\ (q'[1].pending => written')
                      /\ owned = [addr |-> q'[1].addr, start |-> q'[1].start,
                                  len |-> q'[1].len]
    BY DEF FirstHanded, targetVars
  <2>1. ~q[1].pending
    BY <1>4 DEF FirstHanded
  <2>2. q'[1] = q[1]
    BY <1>1, <1>2, <2>1 DEF c
  <2> QED
    BY <1>4, <1>11, <2>1, <2>2 DEF FirstHanded
<1>16. FreedInFlash'
  BY <1>3, <1>4 DEF FreedInFlash, targetVars
<1> QED
  BY <1>3, <1>13, <1>14, <1>15, <1>16 DEF InOrder

\* Every round of the loop takes something.
LEMMA TakesSome ==
  ASSUME TypeInv, EnqInOrder, pc = "enqueue"
  PROVE  NewLen \in Nat \ {0} /\ (~IgnoreAlignment => NewLen <= WriteChunkSize)
<1>1. enq.len \in Nat \ {0} /\ WriteChunkSize \in Nat \ {0}
  BY Sizes DEF TypeInv, TypeOK, LoopTypeOK, EnqInOrder
<1>2. write_tail \in 0 .. DecodedSize - 1 /\ DecodedSize \in Nat
  BY Sizes DEF TypeInv, TypeOK, DecodedTypeOK, DecSlot
<1> QED
  BY <1>1, <1>2 DEF NewLen, Min2

\* bf_enqueue_for_writing() takes a chunk from the pool.
LEMMA InOrderNew ==
  ASSUME TypeInv, InOrder, ~written, pc = "enqueue", NewChunk, ~Misaligned,
         UNCHANGED <<rawVars, decVars, decoded_tail, format_ops, targetVars>>
  PROVE  InOrder'
<1> DEFINE q == write_chunks
           l == Len(q)
           m == l + 1
           n == NewLen
<1>1. /\ Len(q') = m
      /\ \A i \in 1 .. l : q'[i] = q[i]
      /\ q'[m].addr = enq.addr /\ q'[m].start = write_tail /\ q'[m].len = n
      /\ q'[m].pending <=> ~IgnoreAlignment /\ n < WriteChunkSize
      /\ n <= enq.len
  BY NewChunkEffect
<1>2. n \in Nat \ {0} /\ (~IgnoreAlignment => n <= WriteChunkSize)
  BY TakesSome DEF InOrder
<1>3. Enqueued(n) /\ ~HasPendingChunk
  BY Zenon DEF NewChunk
<1>4. /\ Consumed' = Consumed /\ Oldest' = Oldest /\ End' = End + n /\ enq.addr = End
      /\ RawInOrder' /\ DecodedInOrder' /\ FormatInStep' /\ EnqInOrder'
  BY <1>1, <1>2, <1>3, EndMoves
<1>5. QueueInOrder /\ Pages /\ FirstHanded /\ FreedInFlash /\ EnqInOrder
  BY DEF InOrder
<1>6. /\ \A i \in 1 .. l : q[i].addr \in Nat /\ q[i].len \in Nat
      /\ l \in Nat /\ (q = <<>> <=> l = 0)
      /\ WriteChunkSize \in Nat \ {0} /\ DecodedSize \in Nat \ {0}
  BY QueueFields, Sizes
<1>7. /\ Oldest \in Nat /\ End \in Nat /\ Oldest <= End
  BY <1>5, Positions DEF InOrder, DecodedInOrder, EnqInOrder
<1>8. write_tail = Mask(End, DecodedSize) /\ write_tail \in 0 .. DecodedSize - 1
  BY <1>5 DEF EnqInOrder, TypeInv, TypeOK, DecodedTypeOK, DecSlot
<1>9. write_tail + n <= DecodedSize
  <2>1. CASE IgnoreAlignment
    <3>1. enq.len \in Nat /\ n = Min2(Min2(enq.len, WriteChunkSize), DecodedSize - write_tail)
      BY <2>1 DEF NewLen, TypeInv, TypeOK, LoopTypeOK
    <3> HIDE DEF n
    <3> QED
      BY <1>6, <1>8, <3>1 DEF Min2
  <2>2. CASE ~IgnoreAlignment
    <3>1. End % WriteChunkSize = 0
      BY <1>3, <2>2, ClosedPages
    <3>2. Mask(End, DecodedSize) + WriteChunkSize <= DecodedSize
      BY <1>6, <1>7, <3>1, ChunkDividesBuffer, PageFits
    <3> HIDE DEF n
    <3> QED
      BY <1>2, <1>6, <1>8, <2>2, <3>2
  <2> QED
    BY <2>1, <2>2
<1> HIDE DEF n
<1>10. q' # <<>> /\ LastChunk' = q'[m] /\ q'[m].addr + q'[m].len = End'
  BY <1>1, <1>4, <1>6 DEF LastChunk
<1> HIDE DEF l
<1>11. QueueInOrder'
  <2>1. q'[1].addr = Oldest
    <3>1. CASE q = <<>>
      <4>1. End = Oldest /\ m = 1
        BY <1>5, <1>6, <3>1 DEF QueueInOrder
      <4> QED
        BY <1>1, <1>4, <4>1
    <3>2. CASE q # <<>>
      <4>1. q[1].addr = Oldest /\ 1 \in 1 .. l
        BY <1>5, <1>6, <3>2 DEF QueueInOrder
      <4> QED
        BY <1>1, <4>1
    <3> QED
      BY <3>1, <3>2
  <2>2. ASSUME NEW i \in 1 .. m - 1
        PROVE  q'[i + 1].addr = q'[i].addr + q'[i].len
    <3>0. i \in 1 .. l /\ q'[i] = q[i]
      BY <1>1, <1>6
    <3>1. CASE i < l
      <4>1. q[i + 1].addr = q[i].addr + q[i].len
        BY <1>5, <1>6, <3>1 DEF QueueInOrder, l
      <4>2. q'[i + 1] = q[i + 1]
        BY <1>1, <1>6, <3>1
      <4> QED
        BY <3>0, <4>1, <4>2
    <3>2. CASE i = l
      <4>1. q[l].addr + q[l].len = End
        BY <1>5, <1>6, <3>0 DEF QueueInOrder, LastChunk, l
      <4> QED
        BY <1>1, <1>4, <3>0, <3>2, <4>1
    <3> QED
      BY <1>6, <3>0, <3>1, <3>2
  <2>5. ASSUME NEW i \in 1 .. m, NEW j \in 1 .. m, i < j
        PROVE  q'[i].addr + q'[i].len <= q'[j].addr
    <3>1. i \in 1 .. l /\ q'[i] = q[i]
      BY <1>1, <1>6, <2>5
    <3>2. CASE j <= l
      <4>1. q[i].addr + q[i].len <= q[j].addr
        BY <1>5, <1>6, <2>5, <3>1, <3>2 DEF QueueInOrder, l
      <4>2. q'[j] = q[j]
        BY <1>1, <1>6, <3>2
      <4> QED
        BY <3>1, <4>1, <4>2
    <3>3. CASE j = m
      <4>1. q[i].addr + q[i].len <= End
        BY <1>5, <3>1 DEF QueueInOrder, InPlace, l
      <4> QED
        BY <1>1, <1>4, <3>1, <3>3, <4>1
    <3> QED
      BY <1>6, <3>2, <3>3
  <2>3. ASSUME NEW i \in 1 .. m
        PROVE  InPlace(write_chunks[i])'
    <3>1. CASE i <= l
      <4>1. q'[i] = q[i] /\ i \in 1 .. Len(q)
        BY <1>1, <1>6, <3>1 DEF l
      <4>2. End' \in Int /\ End <= End'
        BY ONLY <1>2, <1>4, <1>7
      <4> QED
        BY <1>4, <1>5, <4>1, <4>2, KeptInPlace DEF InPlace
    <3>2. CASE i = m
      <4>1. End' <= End'
        BY <1>2, <1>4, <1>7
      <4> QED
        BY <1>1, <1>4, <1>7, <1>8, <1>9, <1>10, <3>2, <4>1 DEF InPlace
    <3> QED
      BY <1>6, <3>1, <3>2
  <2>4. ASSUME NEW a \in Oldest .. End' - 1
        PROVE  \E i \in 1 .. m : a \in q'[i].addr .. q'[i].addr + q'[i].len - 1
    <3>1. a <= End + n - 1 /\ a \in Int
      BY ONLY <1>2, <1>4, <1>7, <2>4
    <3>2. CASE a < End
      <4>1. a \in Oldest .. End - 1
        BY <1>7, <3>1, <3>2
      <4>2. PICK i \in 1 .. l : a \in q[i].addr .. q[i].addr + q[i].len - 1
        BY <1>5, <4>1 DEF QueueInOrder, l
      <4>3. i \in 1 .. m /\ q'[i] = q[i]
        BY <1>1, <1>6
      <4> QED
        BY <4>2, <4>3
    <3>3. CASE End <= a
      <4>1. a \in End .. End + n - 1 /\ m \in 1 .. m
        BY <1>2, <1>6, <1>7, <3>1, <3>3
      <4> QED
        BY <1>1, <1>4, <4>1
    <3> QED
      BY <1>7, <3>1, <3>2, <3>3
  <2> QED
    BY ONLY <1>1, <1>4, <1>10, <2>1, <2>2, <2>3, <2>4, <2>5 DEF QueueInOrder
<1>12. Pages'
  <2>1. CASE IgnoreAlignment
    <3>1. \A i \in 1 .. l : ~q[i].pending
      BY <1>5, <2>1 DEF Pages, l
    <3>2. \A i \in 1 .. m : ~q'[i].pending
      <4> SUFFICES ASSUME NEW i \in 1 .. m PROVE ~q'[i].pending
        OBVIOUS
      <4>1. i \in 1 .. l \/ i = m
        BY <1>6
      <4> QED
        BY <1>1, <2>1, <3>1, <4>1
    <3> QED
      BY <1>1, <2>1, <3>2 DEF Pages
  <2>2. CASE ~IgnoreAlignment
    <3>1. End = Oldest + l * WriteChunkSize
      BY <1>3, <2>2, ClosedPages DEF l
    <3>2. ASSUME NEW i \in 1 .. m
          PROVE  /\ q'[i].addr = Oldest + (i - 1) * WriteChunkSize
                 /\ IF q'[i].pending
                    THEN i = m /\ q'[i].len < WriteChunkSize
                    ELSE q'[i].len = WriteChunkSize
      <4>1. CASE i <= l
        <5>1. q'[i] = q[i] /\ i \in 1 .. l
          BY <1>1, <1>6, <4>1
        <5>2. ~q[i].pending
          BY <1>3, <1>5, <1>6, <2>2, <5>1 DEF Pages, HasPendingChunk, LastChunk, l
        <5> QED
          BY <1>5, <2>2, <5>1, <5>2 DEF Pages, l
      <4>2. CASE i = m
        <5>1. i - 1 = l
          BY <1>6, <4>2
        <5>2. q'[i].addr = Oldest + (i - 1) * WriteChunkSize
          BY <1>1, <1>4, <3>1, <4>2, <5>1
        <5>3. (q'[i].pending <=> n < WriteChunkSize) /\ q'[i].len = n
          BY <1>1, <2>2, <4>2
        <5> QED
          BY <1>2, <1>6, <2>2, <4>2, <5>2, <5>3
      <4> QED
        BY <1>6, <4>1, <4>2
    <3> QED
      BY <1>1, <1>4, <1>5, <2>2, <3>2 DEF Pages
  <2> QED
    BY <2>1, <2>2
<1>13. FirstHanded'
  <2> SUFFICES ASSUME owned # NoChunk
               PROVE  /\ q' # <<>> /\ (q'[1].pending => written')
                      /\ owned = [addr |-> q'[1].addr, start |-> q'[1].start,
                                  len |-> q'[1].len]
    BY DEF FirstHanded, targetVars
  <2>1. q # <<>>
    BY <1>5 DEF FirstHanded
  <2>2. q'[1] = q[1]
    BY <1>1, <1>6, <2>1
  <2> QED
    BY <1>5, <1>10, <2>2 DEF FirstHanded
<1>14. FreedInFlash'
  BY <1>4, <1>5 DEF FreedInFlash, targetVars
<1> QED
  BY <1>4, <1>11, <1>12, <1>13, <1>14 DEF InOrder

\* The bytes that are left always follow the last chunk.
LEMMA AlwaysContiguous ==
  ASSUME TypeInv, InOrder, pc = "enqueue", write_chunks # <<>>
  PROVE  Contiguous
<1>1. /\ enq.addr \in Nat /\ enq.len \in Nat /\ Left = enq.len
      /\ enq.addr + enq.len = Consumed /\ Consumed \in Nat
  BY DEF TypeInv, TypeOK, LoopTypeOK, InOrder, EnqInOrder, RawInOrder, Left
<1>2. LastChunk.addr + LastChunk.len = End
  BY DEF InOrder, QueueInOrder
<1>3. enq.addr = End
  BY <1>1 DEF End
<1> QED
  BY <1>2, <1>3 DEF Contiguous

\* A target that runs the loop inside chunk_available() never exhausts the pool.
LEMMA PoolSuffices ==
  ASSUME TypeInv, InOrder, ~written, pc = "enqueue", NoChunkLeft, EnoughChunks
  PROVE  ~NestedIdle
<1> SUFFICES ASSUME NestedIdle PROVE FALSE
  OBVIOUS
<1>1. ~IgnoreAlignment /\ DecodedSize <= (MaxChunks - 1) * WriteChunkSize
  BY DEF EnoughChunks
<1>2. ~HasPendingChunk /\ Len(write_chunks) = MaxChunks - 1
  BY Sizes, QueueFields DEF NoChunkLeft, ChunkSpace
<1>3. End = Oldest + (MaxChunks - 1) * WriteChunkSize
  BY <1>1, <1>2, ClosedPages
<1>4. /\ Consumed \in Nat /\ DecCount \in Nat /\ DecCount <= DecodedSize - 1
      /\ Oldest = Consumed - DecCount /\ End = Consumed - Left /\ Left \in Nat
      /\ DecodedSize \in Nat
  BY Positions, Sizes DEF InOrder, RawInOrder
<1>5. (MaxChunks - 1) * WriteChunkSize \in Int
  BY Sizes
<1> QED
  BY <1>1, <1>3, <1>4, <1>5

\* No chunk is refused as misaligned.
LEMMA AlwaysAligned ==
  ASSUME TypeInv, InOrder, ~written, pc = "enqueue", NewChunk
  PROVE  ~Misaligned
<1> SUFFICES ASSUME Misaligned PROVE FALSE
  OBVIOUS
<1>1. ~IgnoreAlignment /\ enq.addr % WriteChunkSize # 0 /\ ~HasPendingChunk
  BY DEF Misaligned, NewChunk
<1>2. /\ enq.addr \in Nat /\ enq.len \in Nat /\ Left = enq.len
      /\ enq.addr + enq.len = Consumed /\ Consumed \in Nat
  BY DEF TypeInv, TypeOK, LoopTypeOK, InOrder, EnqInOrder, RawInOrder, Left
<1>3. enq.addr = End
  BY <1>2 DEF End
<1> QED
  BY <1>1, <1>3, ClosedPages

\* bf_enqueue_for_writing().
LEMMA InOrderEnqueues ==
  ASSUME TypeInv, InOrder, ~written, EnoughChunks, CalledAtTop, EnqueueForWriting,
         result' # "ERROR"
  PROVE  InOrder'
<1>1. /\ pc = "enqueue" /\ result = "CONTINUE"
      /\ UNCHANGED <<rawVars, decVars, decoded_tail, format_ops, targetVars, calling>>
  BY DEF EnqueueForWriting, At, flagVars
<1>2. CASE FillPending
  BY <1>1, <1>2, InOrderFills
<1>3. CASE ClosePending
  BY <1>1, <1>3, AlwaysContiguous DEF ClosePending, HasPendingChunk
<1>4. CASE NewChunk
  <2>1. ~Misaligned
    BY <1>1, <1>4, AlwaysAligned
  <2> QED
    BY <1>1, <1>4, <2>1, InOrderNew
<1>5. CASE NoChunkLeft
  <2>1. ~NestedIdle
    BY <1>1, <1>5, PoolSuffices
  <2>2. ~calling
    BY <1>1, <2>1 DEF CalledAtTop
  <2> QED
    BY <1>5, <2>2 DEF NoChunkLeft, IterationFails
<1> QED
  BY <1>2, <1>3, <1>4, <1>5 DEF EnqueueForWriting

\* The chunk that is done is freed.
LEMMA InOrderDone ==
  ASSUME TypeInv, InOrder, ChunkDone
  PROVE  InOrder'
<1> DEFINE q == write_chunks
           l == Len(q)
           c == q[1]
<1>1. /\ pc # "enqueue" /\ pc' # "enqueue" /\ owned # NoChunk /\ owned' = NoChunk
      /\ flash' = Programmed(owned) /\ PutWriteChunk
      /\ UNCHANGED <<rawVars, decVars, write_tail, format_ops, written>>
  <2>1. /\ owned # NoChunk /\ owned' = NoChunk /\ flash' = Programmed(owned)
        /\ PutWriteChunk /\ AnswerArrives
        /\ UNCHANGED <<rawVars, decVars, write_tail, format_ops, written, pc>>
    BY Zenon DEF ChunkDone
  <2> QED
    BY ONLY <2>1 DEF AnswerArrives, InChunkAvailable, AtEvents, At
<1>2. /\ RawInOrder /\ DecodedInOrder /\ FormatInStep /\ EnqInOrder
      /\ QueueInOrder /\ Pages /\ FirstHanded /\ FreedInFlash
  BY DEF InOrder
<1>3. /\ q # <<>> /\ (c.pending => written)
      /\ owned = [addr |-> c.addr, start |-> c.start, len |-> c.len]
  BY <1>1, <1>2 DEF FirstHanded
<1>4. /\ Len(q') = l - 1
      /\ \A i \in 1 .. Len(q') : q'[i] = q[i + 1]
      /\ decoded_tail' = Mask(c.start + c.len, DecodedSize)
  BY <1>1, <1>3, PutQueue DEF PutWriteChunk, TypeInv, TypeOK, ChunksTypeOK
<1>5. /\ l \in Nat /\ l >= 1 /\ 1 \in 1 .. l
      /\ \A i \in 1 .. l : q[i].addr \in Nat /\ q[i].len \in Nat
      /\ WriteChunkSize \in Nat \ {0} /\ DecodedSize \in Nat \ {0}
  BY <1>3, QueueFields, Sizes
<1>6. /\ Oldest \in Nat /\ Consumed \in Nat /\ Consumed <= FileSize
      /\ End = Consumed /\ Left = 0 /\ Left' = 0
      /\ DecCount \in Nat /\ DecCount <= DecodedSize - 1 /\ Oldest = Consumed - DecCount
  <2>1. Consumed <= tot_appended /\ tot_appended <= FileSize
    BY <1>2, Positions DEF RawInOrder
  <2>2. Left = 0 /\ Left' = 0
    BY <1>1 DEF Left
  <2> QED
    BY <1>2, <2>1, <2>2, Positions, ClientKind DEF RawInOrder, DecodedInOrder
<1>7. /\ c.addr = Oldest /\ c.addr + c.len <= Consumed /\ c.addr \in Nat /\ c.len \in Nat
      /\ c.start = Mask(Oldest, DecodedSize) /\ InPlace(c)
  BY <1>2, <1>3, <1>5, <1>6 DEF QueueInOrder, InPlace
<1> HIDE DEF c
<1>8. Consumed' = Consumed
  BY <1>1 DEF Consumed, RawCount, rawVars
<1>9. DecCount' = DecCount - c.len
  <2>1. /\ decoded_tail = Mask(Oldest, DecodedSize) /\ decoded_tail \in 0 .. DecodedSize - 1
        /\ decoded_head \in 0 .. DecodedSize - 1 /\ decoded_head' = decoded_head
    BY <1>1, <1>2 DEF DecodedInOrder, TypeInv, TypeOK, DecodedTypeOK, DecSlot, decVars
  <2>2. c.len <= RingCount(decoded_head, decoded_tail, DecodedSize)
    BY <1>6, <1>7 DEF DecCount
  <2>3. decoded_tail' = Mask(decoded_tail + c.len, DecodedSize)
    BY <1>4, <1>7, <2>1
  <2> QED
    BY ONLY <1>5, <1>7, <2>1, <2>2, <2>3, CountAfterFreeing DEF DecCount
<1>10. Oldest' = Oldest + c.len /\ End' = End /\ Oldest' \in Nat
  BY <1>6, <1>7, <1>8, <1>9 DEF Oldest, End
<1>11. RawInOrder' /\ FormatInStep'
  BY <1>1, <1>2, <1>8 DEF RawInOrder, FormatInStep, rawVars, decVars
<1>12. DecodedInOrder'
  <2>1. decoded_tail' = Mask(Oldest', DecodedSize)
    <3>1. Mask(Mask(Oldest, DecodedSize) + c.len, DecodedSize)
            = Mask(Oldest + c.len, DecodedSize)
      BY ONLY <1>5, <1>6, <1>7, MaskSlides
    <3> QED
      BY ONLY <1>4, <1>7, <1>10, <3>1
  <2>2. decoded_head' = decoded_head /\ decoded_buf' = decoded_buf
    BY <1>1 DEF decVars
  <2>3. \A a \in Oldest' .. Consumed' - 1 : decoded_buf[Mask(a, DecodedSize)] = a
    <3> SUFFICES ASSUME NEW a \in Oldest' .. Consumed' - 1
                 PROVE  decoded_buf[Mask(a, DecodedSize)] = a
      OBVIOUS
    <3>1. a \in Oldest .. Consumed - 1
      BY <1>6, <1>7, <1>8, <1>10
    <3> QED
      BY <1>2, <3>1 DEF DecodedInOrder
  <2>4. decoded_head = Mask(Consumed, DecodedSize)
    BY <1>2 DEF DecodedInOrder
  <2> QED
    BY ONLY <1>8, <1>10, <2>1, <2>2, <2>3, <2>4 DEF DecodedInOrder
<1>13. EnqInOrder'
  BY <1>1, <1>2, <1>6, <1>7, <1>10 DEF EnqInOrder
<1>14. QueueInOrder'
  <2>1. IF q' = <<>> THEN End' = Oldest'
        ELSE q'[1].addr = Oldest' /\ LastChunk'.addr + LastChunk'.len = End'
    <3>1. CASE l = 1
      <4>1. q' = <<>>
        BY <1>1, <1>3, <3>1 DEF PutWriteChunk, TypeInv, TypeOK, ChunksTypeOK
      <4>2. c.addr + c.len = End
        BY <1>2, <1>3, <3>1 DEF QueueInOrder, LastChunk, c
      <4> QED
        BY <1>6, <1>7, <1>10, <4>1, <4>2
    <3>2. CASE l > 1
      <4>1. q' # <<>> /\ 1 \in 1 .. Len(q') /\ l - 1 \in 1 .. Len(q') /\ 1 \in 1 .. l - 1
        BY <1>4, <1>5, <3>2
      <4>2. q'[1] = q[2] /\ q'[Len(q')] = q[l]
        BY <1>4, <1>5, <4>1
      <4>3. q[2].addr = c.addr + c.len /\ q[l].addr + q[l].len = End
        <5>1. q[1 + 1].addr = q[1].addr + q[1].len
          BY <1>2, <4>1 DEF QueueInOrder
        <5>2. q[l].addr + q[l].len = End
          BY <1>2, <1>3 DEF QueueInOrder, LastChunk
        <5> QED
          BY <5>1, <5>2 DEF c
      <4> QED
        BY <1>7, <1>10, <4>1, <4>2, <4>3 DEF LastChunk
    <3> HIDE DEF l
    <3> QED
      BY ONLY <1>5, <3>1, <3>2
  <2>2. ASSUME NEW i \in 1 .. Len(q') - 1
        PROVE  q'[i + 1].addr = q'[i].addr + q'[i].len
    <3>1. i \in 1 .. Len(q') /\ i + 1 \in 1 .. Len(q') /\ i + 1 \in 1 .. l - 1
      BY <1>4, <1>5
    <3>2. q[i + 1 + 1].addr = q[i + 1].addr + q[i + 1].len
      BY <1>2, <3>1 DEF QueueInOrder
    <3> QED
      BY <1>4, <3>1, <3>2
  <2>3. ASSUME NEW i \in 1 .. Len(q'), NEW j \in 1 .. Len(q'), i < j
        PROVE  q'[i].addr + q'[i].len <= q'[j].addr
    <3>1. i + 1 \in 1 .. l /\ j + 1 \in 1 .. l /\ i + 1 < j + 1
      BY <1>4, <1>5, <2>3
    <3>2. q[i + 1].addr + q[i + 1].len <= q[j + 1].addr
      BY <1>2, <3>1 DEF QueueInOrder
    <3> QED
      BY <1>4, <3>2
  <2>4. ASSUME NEW i \in 1 .. Len(q')
        PROVE  InPlace(write_chunks[i])'
    <3> DEFINE d == q[i + 1]
    <3>1. i + 1 \in 1 .. l /\ 1 < i + 1 /\ q'[i] = d
      BY <1>4, <1>5
    <3>2. InPlace(d) /\ c.addr + c.len <= d.addr
      BY <1>2, <1>5, <3>1 DEF QueueInOrder, c
    <3> HIDE DEF d
    <3> QED
      BY <1>7, <1>10, <3>1, <3>2 DEF InPlace
  <2>5. ASSUME NEW a \in Oldest' .. End' - 1
        PROVE  \E i \in 1 .. Len(q') : a \in q'[i].addr .. q'[i].addr + q'[i].len - 1
    <3>1. a \in Oldest .. End - 1 /\ a >= c.addr + c.len
      BY <1>6, <1>7, <1>10
    <3>2. PICK i \in 1 .. l : a \in q[i].addr .. q[i].addr + q[i].len - 1
      BY <1>2, <3>1 DEF QueueInOrder
    <3>3. i # 1
      BY <1>7, <3>1, <3>2 DEF c
    <3>4. i - 1 \in 1 .. Len(q') /\ q'[i - 1] = q[i]
      BY <1>4, <1>5, <3>3
    <3> QED
      BY <3>2, <3>4
  <2> QED
    BY ONLY <2>1, <2>2, <2>3, <2>4, <2>5 DEF QueueInOrder
<1>15. Pages'
  <2>1. CASE IgnoreAlignment
    <3>1. \A i \in 1 .. l : ~q[i].pending
      BY <1>2, <2>1 DEF Pages
    <3>2. \A i \in 1 .. Len(q') : ~q'[i].pending
      <4> SUFFICES ASSUME NEW i \in 1 .. Len(q') PROVE ~q'[i].pending
        OBVIOUS
      <4>1. i + 1 \in 1 .. l
        BY <1>4, <1>5
      <4> QED
        BY <1>4, <3>1, <4>1
    <3> QED
      BY <2>1, <3>2 DEF Pages
  <2>2. CASE ~IgnoreAlignment
    <3>1. /\ IF c.pending THEN 1 = l ELSE c.len = WriteChunkSize
          /\ written \/ Oldest % WriteChunkSize = 0
      BY <1>2, <1>5, <2>2 DEF Pages, c
    <3>2. ~c.pending => Oldest' = Oldest + WriteChunkSize
      BY <1>10, <3>1
    <3>3. written' \/ Oldest' % WriteChunkSize = 0
      <4>1. ~c.pending /\ Oldest % WriteChunkSize = 0 => Oldest' % WriteChunkSize = 0
        BY ONLY <1>5, <1>6, <3>2, NextPage
      <4> QED
        BY <1>1, <1>3, <3>1, <4>1
    <3>4. ASSUME NEW i \in 1 .. Len(q')
          PROVE  /\ q'[i].addr = Oldest' + (i - 1) * WriteChunkSize
                 /\ IF q'[i].pending
                    THEN i = Len(q') /\ q'[i].len < WriteChunkSize
                    ELSE q'[i].len = WriteChunkSize
      <4>1. i + 1 \in 1 .. l /\ q'[i] = q[i + 1] /\ (i + 1) - 1 = i
        BY <1>4, <1>5
      <4>5. c.len = WriteChunkSize
        BY <1>5, <3>1, <4>1
      <4>2. /\ q[i + 1].addr = Oldest + i * WriteChunkSize
            /\ IF q[i + 1].pending
               THEN i + 1 = l /\ q[i + 1].len < WriteChunkSize
               ELSE q[i + 1].len = WriteChunkSize
        BY <1>2, <2>2, <4>1 DEF Pages
      <4>3. i * WriteChunkSize = WriteChunkSize + (i - 1) * WriteChunkSize
            /\ (i - 1) * WriteChunkSize \in Int
        BY <1>5
      <4>4. q'[i].addr = Oldest' + (i - 1) * WriteChunkSize
        BY <1>5, <1>6, <1>10, <4>1, <4>2, <4>3, <4>5
      <4> QED
        BY <1>4, <1>5, <4>1, <4>2, <4>4
    <3> QED
      BY <2>2, <3>3, <3>4 DEF Pages
  <2> QED
    BY <2>1, <2>2
<1>16. FirstHanded'
  BY <1>1 DEF FirstHanded
<1>17. FreedInFlash'
  <2> SUFFICES ASSUME NEW a \in Byte, a < Oldest'
               PROVE  flash'[a] = a
    BY DEF FreedInFlash
  <2>1. a \in Byte /\ a \in Nat /\ a < c.addr + c.len
    BY <1>6, <1>7, <1>10 DEF Byte
  <2>2. flash'[a] = IF a \in c.addr .. c.addr + c.len - 1
                    THEN SlotData(c.start + (a - c.addr)) ELSE flash[a]
    BY <1>1, <1>3, <2>1 DEF Programmed
  <2>3. CASE a < c.addr
    BY <1>2, <1>6, <1>7, <2>1, <2>2, <2>3 DEF FreedInFlash
  <2>4. CASE c.addr <= a
    <3>1. a \in c.addr .. c.addr + c.len - 1
      BY <1>7, <2>1, <2>4
    <3>2. SlotData(c.start + (a - c.addr)) = a
      BY <1>2, <1>5, <1>7, <3>1, ChunkHolds DEF c
    <3> QED
      BY <2>2, <3>1, <3>2
  <2> QED
    BY <1>7, <2>1, <2>3, <2>4
<1> QED
  BY <1>11, <1>12, <1>13, <1>14, <1>15, <1>16, <1>17 DEF InOrder

\* The other steps of the layer move no byte and no chunk, or end in an error.
LEMMA InOrderElsewhere ==
  ASSUME InOrder,
         \/ LoopTop \/ OnIdle \/ HostIdle \/ WriteNothing \/ WriteErases
         \/ FlushStart \/ ChunkAvailableOk \/ ChunkAvailableFails
         \/ ChunkFails \/ BetweenCommands \/ EraseEnds,
         result' # "ERROR"
  PROVE  InOrder'
<1> DEFINE Frame ==
             /\ pc # "enqueue" /\ pc' # "enqueue"
             /\ UNCHANGED <<rawVars, decVars, tailVars, write_chunks, format_ops, written,
                            flash>>
             /\ owned' \in {owned, NoChunk}
<1>1. Frame => InOrder'
  <2> SUFFICES ASSUME Frame PROVE InOrder'
    OBVIOUS
  <2>1. FormatInStep'
    BY DEF InOrder, FormatInStep, Consumed, RawCount, rawVars, decVars
  <2> QED
    BY <2>1, InOrderFramed DEF decVars
<1>2. LoopTop \/ OnIdle \/ HostIdle \/ WriteNothing \/ WriteErases => Frame
  BY DEF LoopTop, OnIdle, HostIdle, WriteNothing, WriteErases, At, flagVars, targetVars
<1>3. FlushStart \/ ChunkAvailableOk => Frame
  BY DEF FlushStart, ChunkAvailableOk, At, flagVars, targetVars
<1>4. ~ChunkAvailableFails
  BY DEF ChunkAvailableFails
<1>5. ChunkFails \/ BetweenCommands \/ EraseEnds => Frame
  BY DEF ChunkFails, BetweenCommands, EraseEnds, AnswerArrives, InChunkAvailable,
         AtEvents, At, flagVars, targetVars
<1> HIDE DEF Frame
<1> QED
  BY <1>1, <1>2, <1>3, <1>4, <1>5

\* _bf_do_flush() finds the format before anything is consumed.
LEMMA InOrderFlushes ==
  ASSUME InOrder, DoFlush(0)
  PROVE  InOrder'
<1>1. /\ pc # "enqueue" /\ pc' # "enqueue"
      /\ UNCHANGED <<rawVars, decoded_buf, decoded_head, tailVars, write_chunks, written,
                     targetVars>>
  BY DEF DoFlush, At
<1>2. Consumed' = Consumed
  BY <1>1 DEF Consumed, RawCount, rawVars
<1>3. FormatInStep
  BY DEF InOrder
<1>4. \/ UNCHANGED <<format_ops, format_data>>
      \/ /\ format_ops' /\ format_data' = IF format_ops THEN format_data ELSE 0
  BY DEF DoFlush
<1>5. FormatInStep'
  BY <1>2, <1>3, <1>4 DEF FormatInStep
<1> QED
  BY <1>1, <1>5, InOrderFramed DEF targetVars

\* Neither does the timeout move anything.
LEMMA InOrderTimesOut ==
  ASSUME InOrder, NEW stuck, RxTimeout(stuck)
  PROVE  InOrder'
<1>1. /\ UNCHANGED <<rawVars, decVars, tailVars, write_chunks, flagVars, pc, targetVars>>
      /\ AtEvents
  BY Zenon DEF RxTimeout
<1>2. pc # "enqueue" /\ pc' # "enqueue" /\ written' = written
  BY ONLY <1>1 DEF AtEvents, At, flagVars
<1>3. FormatInStep'
  BY <1>1 DEF InOrder, FormatInStep, Consumed, RawCount, rawVars, decVars, flagVars
<1> QED
  BY ONLY <1>1, <1>2, <1>3, InOrder, InOrderFramed DEF decVars, targetVars

\* What is known of the data is inductive.
LEMMA DataInductive ==
  ASSUME EnoughChunks, TypeIInv, TypeIInv', QuietEnd, DataInv, [Next]_vars
  PROVE  DataInv'
<1>1. TypeInv /\ (result # "ERROR" /\ ~early => InOrder) /\ CalledAtTop
  BY DEF TypeIInv, DataInv
<1>2. early => early'
  BY QuietInductive
<1>3. CalledAtTop'
  <2>1. CASE LoopStep
    BY <1>1, <2>1
    DEF LoopStep, LoopTop, OnIdle, HostIdle, WriteNothing, WriteErases, WriteHandsOver,
        EnqueueForWriting, At, CalledAtTop
  <2>2. CASE EnvironmentStep
    BY <1>1, <2>2
    DEF EnvironmentStep, ClientAppends, FlushStart, ChunkAvailableOk, AtEvents, At,
        ChunkAvailableFails, ChunkDone, ChunkFails, BetweenCommands, EraseEnds, CalledAtTop
  <2>3. CASE DoFlush(0)
    BY <1>1, <2>3, DoFlushFrame DEF CalledAtTop
  <2>4. CASE DecodeBinary
    BY <1>1, <2>4, DecodeBinaryFrame DEF CalledAtTop
  <2>5. CASE RxTimeout(Stuck)
    BY <1>1, <2>5, RxTimeoutFrame DEF CalledAtTop
  <2>6. CASE UNCHANGED vars
    BY <1>1, <2>6 DEF vars, CalledAtTop
  <2> QED
    BY <2>1, <2>2, <2>3, <2>4, <2>5, <2>6 DEF Next, Terminated
<1>4. ASSUME result' # "ERROR", ~early'
      PROVE  InOrder'
  <2>0. ~early
    BY <1>2, <1>4
  <2>1. CASE UNCHANGED vars
    <3>1. InOrder
      BY <1>1, <1>4, <2>0, <2>1 DEF vars, dfuVars
    <3>2. UNCHANGED <<rawVars, decVars, tailVars, write_chunks, format_ops, pc, enq, owned,
                      written, flash>>
      BY <2>1 DEF vars, flagVars, targetVars
    <3>3. Consumed' = Consumed /\ DecCount' = DecCount /\ Left' = Left
      BY <3>2 DEF Consumed, RawCount, DecCount, Left, rawVars, decVars, tailVars
    <3>4. Oldest' = Oldest /\ End' = End
      BY <3>3 DEF Oldest, End
    <3>5. RawInOrder' /\ DecodedInOrder' /\ FormatInStep' /\ EnqInOrder'
      BY <3>1, <3>2, <3>3, <3>4
      DEF InOrder, RawInOrder, DecodedInOrder, FormatInStep, EnqInOrder, rawVars,
          decVars, tailVars
    <3>6. QueueInOrder' /\ Pages' /\ FirstHanded' /\ FreedInFlash'
      BY <3>1, <3>2, <3>4
      DEF InOrder, QueueInOrder, InPlace, LastChunk, Pages, FirstHanded, FreedInFlash
    <3> QED
      BY <3>5, <3>6 DEF InOrder
  <2>2. CASE LoopStep \/ EnvironmentStep
    <3>1. result # "ERROR"
      BY <2>2
      DEF LoopStep, LoopTop, OnIdle, HostIdle, WriteNothing, WriteErases, WriteHandsOver,
          EnqueueForWriting, EnvironmentStep, ClientAppends, FlushStart, ChunkAvailableOk,
          AtEvents, At, ChunkAvailableFails, ChunkDone, ChunkFails, BetweenCommands,
          EraseEnds, AnswerArrives, InChunkAvailable
    <3>2. InOrder
      BY <1>1, <2>0, <3>1
    <3>3. CASE EnqueueForWriting
      <4>1. ~written
        BY <2>0, <3>3 DEF QuietEnd, EnqueueForWriting, At
      <4> QED
        BY <1>1, <1>4, <3>2, <3>3, <4>1, InOrderEnqueues
    <3>4. CASE WriteHandsOver
      BY <1>1, <3>2, <3>4, InOrderHandsOver
    <3>5. CASE ClientAppends
      BY <1>1, <3>2, <3>5, InOrderAppends
    <3>6. CASE ChunkDone
      BY <1>1, <3>2, <3>6, InOrderDone
    <3> QED
      BY <1>4, <2>2, <3>2, <3>3, <3>4, <3>5, <3>6, InOrderElsewhere
      DEF LoopStep, EnvironmentStep
  <2>3. CASE DoFlush(0)
    BY <1>1, <2>0, <2>3, DoFlushFrame, InOrderFlushes
  <2>4. CASE DecodeBinary
    BY <1>1, <2>0, <2>4, DecodeBinaryFrame, InOrderDecodes
  <2>5. CASE RxTimeout(Stuck)
    BY <1>1, <2>0, <2>5, RxTimeoutFrame, InOrderTimesOut
  <2> QED
    BY <2>1, <2>2, <2>3, <2>4, <2>5 DEF Next, Terminated
<1> QED
  BY <1>3, <1>4 DEF DataInv

\* It holds of empty rings.
LEMMA DataInit == Init => DataInv
<1> SUFFICES ASSUME Init
             PROVE  DataInv
  OBVIOUS
<1>1. /\ head = 0 /\ tail = 0 /\ tot_appended = 0 /\ decoded_head = 0 /\ decoded_tail = 0
      /\ write_tail = 0 /\ write_chunks = <<>> /\ pc = "top" /\ calling = FALSE
      /\ ~format_ops /\ owned = NoChunk /\ ~written
  BY DEF Init, At
<1>2. RingCount(0, 0, RawSize) = 0 /\ RingCount(0, 0, DecodedSize) = 0
  BY Sizes, CountIsDistance
<1>3. Consumed = 0 /\ DecCount = 0 /\ Left = 0
  BY <1>1, <1>2 DEF Consumed, RawCount, DecCount, Left
<1>4. Oldest = 0 /\ End = 0
  BY <1>3 DEF Oldest, End
<1>5. Mask(0, RawSize) = 0 /\ Mask(0, DecodedSize) = 0 /\ 0 % WriteChunkSize = 0
  <2>1. \A s \in Nat \ {0} : Mask(0, s) = 0
    <3> SUFFICES ASSUME NEW s \in Nat \ {0} PROVE Mask(0, s) = 0
      OBVIOUS
    <3>1. 0 \in -s .. 2 * s - 1
      OBVIOUS
    <3> QED
      BY <3>1, MaskOneLap
  <2> QED
    BY <2>1, Sizes DEF Mask
<1>6. RawInOrder /\ DecodedInOrder /\ FormatInStep /\ EnqInOrder
  BY <1>1, <1>3, <1>4, <1>5, ClientKind
  DEF RawInOrder, DecodedInOrder, FormatInStep, EnqInOrder
<1>7. QueueInOrder /\ Pages /\ FirstHanded /\ FreedInFlash
  BY <1>1, <1>4, <1>5, ClientKind DEF QueueInOrder, Pages, FirstHanded, FreedInFlash, Byte
<1> QED
  BY <1>1, <1>6, <1>7 DEF DataInv, InOrder, CalledAtTop

\* What is known of the end and of the data always holds.
LEMMA DataAlways ==
  ASSUME EnoughChunks
  PROVE  Spec => [](TypeIInv /\ QuietEnd /\ DataInv)
<1>1. Init => TypeIInv /\ QuietEnd /\ DataInv
  BY TypeInductiveInit, QuietInit, DataInit
<1>2. TypeIInv /\ QuietEnd /\ DataInv /\ [Next]_vars => (TypeIInv /\ QuietEnd /\ DataInv)'
  BY TypeInductive, QuietInductive, DataInductive
<1> QED
  BY <1>1, <1>2, PTL DEF Spec

\* Every byte that _bf_append_data() took from the client stays in the raw ring,
\* goes on to the decoded ring, and leaves it only when it is in flash, for every
\* client, until an error is reported or the end of the file is announced while
\* bytes of it are still to be decoded.  Needed: running out of chunks ends the
\* upload, or does not happen.
THEOREM NothingLost ==
  ASSUME EnoughChunks, FileFits
  PROVE  Spec => []NoByteLost
<1>1. TypeIInv /\ DataInv => NoByteLost
  BY InOrderNothingLost DEF TypeIInv, DataInv, NoByteLost
<1> QED
  BY <1>1, DataAlways, PTL

-----------------------------------------------------------------------------
(* An upload does not get stuck *)

\* The client has a block that fits in the empty raw ring.
SomeBlockFits == \E n \in BlockSizes : n <= RawSize - 1

\* When nobody can go on, less than a page waits and the raw ring is empty.
LEMMA StuckMeansEmpty ==
  ASSUME TypeIInv, InOrder, EstimateFits, SomeBlockFits,
         pc # "enqueue", Stuck, write_chunks = <<>> \/ ~write_chunks[1].write_pending
  PROVE  /\ RawCount = 0 /\ tot_appended = FileSize
         /\ DecCount < WriteChunkSize
         /\ DecCount = 0 \/ Oldest % WriteChunkSize = 0
<1>1. /\ TypeInv /\ QueueInOrder /\ Pages /\ RawInOrder
      /\ Left = 0 /\ End = Consumed /\ Consumed \in Nat /\ Oldest \in Nat
  BY Positions DEF TypeIInv, InOrder, Left, End, RawInOrder, DecodedInOrder
<1>2. /\ RawCount \in Nat /\ DecCount \in Nat /\ Oldest = Consumed - DecCount
      /\ RawCount = tot_appended - Consumed /\ tot_appended \in Nat
  BY <1>1, Positions
<1>3. /\ RawSize \in Nat /\ RawSize > 0 /\ DecodedSize \in Nat
      /\ WriteChunkSize \in Nat \ {0} /\ WriteChunkSize < DecodedSize
  BY Sizes
<1>4. \/ write_chunks = <<>>
      \/ write_chunks # <<>> /\ write_chunks[1].pending
  BY DEF Stuck, HasNextWriteChunk
<1>5. DecCount < WriteChunkSize /\ (DecCount = 0 \/ Oldest % WriteChunkSize = 0)
  <2>1. CASE write_chunks = <<>>
    <3>1. End = Oldest
      BY <1>1, <2>1 DEF QueueInOrder
    <3> QED
      BY <1>1, <1>2, <1>3, <3>1
  <2>2. CASE write_chunks # <<>> /\ write_chunks[1].pending
    <3>1. Len(write_chunks) \in Nat /\ Len(write_chunks) # 0 /\ 1 \in 1 .. Len(write_chunks)
      BY <1>1, <2>2, QueueFields
    <3>2. ~IgnoreAlignment /\ 1 = Len(write_chunks) /\ write_chunks[1].len < WriteChunkSize
      BY <1>1, <2>2, <3>1 DEF Pages
    <3>3. /\ write_chunks[1].addr = Oldest
          /\ write_chunks[1].addr + write_chunks[1].len = End
          /\ write_chunks[1].len \in Nat
      BY <1>1, <2>2, <3>1, <3>2, QueueFields DEF QueueInOrder, LastChunk
    <3>4. ~written
      BY <2>2, <3>2 DEF Stuck, HasNextWriteChunk, IgnorePending
    <3>5. Oldest % WriteChunkSize = 0
      BY <1>1, <3>2, <3>4 DEF Pages
    <3> QED
      BY <1>1, <1>2, <1>3, <3>2, <3>3, <3>5
  <2> QED
    BY <1>4, <2>1, <2>2
<1>6. DecCount + DecSpace = DecodedSize - 1 /\ DecSpace \in Nat
  <2>1. decoded_head \in 0 .. DecodedSize - 1 /\ decoded_tail \in 0 .. DecodedSize - 1
    BY <1>1, Offsets DEF DecSlot
  <2> QED
    BY <2>1, CountPlusSpace, Sizes DEF DecCount, DecSpace
<1>7. decoded_chunk_size \in Nat /\ 2 * decoded_chunk_size <= DecodedSize - WriteChunkSize
  BY <1>1 DEF EstimateFits, TypeInv, TypeOK, DecodedTypeOK
<1>8. RawCount = 0
  <2>1. ~(DecSpace < 2 * decoded_chunk_size) /\ DecSpace # 0
    BY <1>2, <1>3, <1>5, <1>6, <1>7
  <2> QED
    BY <2>1 DEF Stuck
<1>9. RawSpace = RawSize - 1
  <2>1. RawCount + RawSpace = RawSize - 1 /\ RawSpace \in Nat
    BY <1>1, CountPlusSpace, Sizes
    DEF RawCount, RawSpace, TypeInv, TypeOK, RawTypeOK, RawSlot
  <2> QED
    BY <1>3, <1>8, <2>1
<1>10. tot_appended = FileSize
  <2> SUFFICES ASSUME tot_appended # FileSize PROVE FALSE
    OBVIOUS
  <2>1. PICK n \in BlockSizes : n <= RawSize - 1
    BY DEF SomeBlockFits
  <2>2. Min2(n, FileSize - tot_appended) > RawSize - 1
    BY <1>9 DEF Stuck
  <2>3. n \in Nat /\ FileSize - tot_appended \in Nat
    BY <1>1, <1>2, ClientKind DEF RawInOrder
  <2> QED
    BY <1>3, <2>1, <2>2, <2>3 DEF Min2
<1> QED
  BY <1>5, <1>8, <1>10

\* As long as no call of decode_chunk() took so much that twice as much has no room
\* beside a page, flow control is safe for every client and every size of the
\* rings: when binary_file_idle() has nothing it may do and no chunk is being
\* written, the whole file was consumed and all its full pages are in flash.
THEOREM NeverStuck ==
  ASSUME EnoughChunks, FileFits, SomeBlockFits
  PROVE  Spec => []NeverStuckEarly
<1>1. TypeIInv /\ DataInv => NeverStuckEarly
  <2> SUFFICES ASSUME TypeIInv, DataInv, Waits, ~early, EstimateFits
               PROVE  AllTaken
    BY DEF NeverStuckEarly
  <2>1. InOrder /\ TypeInv
    BY DEF DataInv, TypeIInv, Waits
  <2>2. /\ RawCount = 0 /\ tot_appended = FileSize
        /\ DecCount < WriteChunkSize
        /\ DecCount = 0 \/ Oldest % WriteChunkSize = 0
    BY <2>1, StuckMeansEmpty DEF Waits
  <2>3. /\ Consumed = FileSize /\ Oldest = FileSize - DecCount /\ DecCount \in Nat
        /\ Oldest \in Nat /\ FileSize \in Nat /\ WriteChunkSize \in Nat \ {0}
    BY <2>1, <2>2, Positions, Sizes, ClientKind DEF InOrder, RawInOrder, DecodedInOrder
  <2>4. (FileSize \div WriteChunkSize) * WriteChunkSize <= Oldest
    <3> DEFINE p == FileSize \div WriteChunkSize
               r == Oldest \div WriteChunkSize
    <3>1. p \in Int /\ p * WriteChunkSize <= FileSize
      BY <2>3
    <3>2. CASE DecCount = 0
      BY <2>2, <2>3, <3>1, <3>2
    <3>3. CASE Oldest % WriteChunkSize = 0
      <4>1. Oldest = WriteChunkSize * r /\ r \in Int
        BY <2>2, <2>3, <3>3
      <4> HIDE DEF p, r
      <4>2. p <= r
        <5> SUFFICES ASSUME r + 1 <= p PROVE FALSE
          BY <3>1, <4>1
        <5>1. WriteChunkSize * (r + 1) <= WriteChunkSize * p
          BY <2>3, <3>1, <4>1
        <5>2. WriteChunkSize * (r + 1) = Oldest + WriteChunkSize
          BY <2>3, <4>1
        <5> QED
          BY <2>2, <2>3, <3>1, <5>1, <5>2
      <4>3. WriteChunkSize * p <= WriteChunkSize * r
        BY <2>3, <3>1, <4>1, <4>2
      <4> QED
        BY <2>3, <3>1, <4>1, <4>3 DEF p
    <3> QED
      BY <2>2, <3>2, <3>3
  <2>5. ASSUME NEW a \in 0 .. (FileSize \div WriteChunkSize) * WriteChunkSize - 1
        PROVE  flash[a] = a
    <3>1. (FileSize \div WriteChunkSize) * WriteChunkSize \in Int
      BY <2>3
    <3>2. a < Oldest /\ a \in Nat
      BY <2>3, <2>4, <3>1
    <3>3. a \in Byte
      BY <2>3, <3>2, ClientKind DEF FileFits, Byte
    <3> QED
      BY <2>1, <3>2, <3>3 DEF InOrder, FreedInFlash
  <2> QED
    BY <2>3, <2>5 DEF AllTaken
<1> QED
  BY <1>1, DataAlways, PTL

-----------------------------------------------------------------------------
(* The chunks tile the decoded ring *)

\* The tiling is inductive.
LEMMA TilingInductive ==
  ASSUME NoneRefused, TypeIInv, TypeIInv', TilingInv, [Next]_vars
  PROVE  TilingInv'
<1>1. TypeInv /\ TypeInv' /\ Covered /\ CalledAtTop
  BY DEF TypeIInv, TilingInv
<1>2. CASE LoopStep \/ EnvironmentStep
  BY <1>1, <1>2, LayerKeepsTiling
<1>3. CASE DoFlush(0)
  BY <1>1, <1>3, DoFlushFrame, TilingFramed DEF TilingInv, CalledAtTop
<1>4. CASE RxTimeout(Stuck)
  BY <1>1, <1>4, RxTimeoutFrame, TilingFramed DEF TilingInv, CalledAtTop
<1>5. CASE DecodeBinary
  <2>1. PICK n \in Nat :
          /\ n <= DecSpace
          /\ decoded_head' = Mask(decoded_head + n, DecodedSize)
          /\ AfterDecode(n, format_data)
    BY <1>1, <1>5, DecodeBinaryEffect DEF TypeInv
  <2>2. /\ result = "CONTINUE" /\ pc = "decode"
        /\ UNCHANGED <<decoded_tail, write_tail, calling, write_chunks>>
    BY <1>5, DecodeBinaryFrame
  <2>3. Tiled
    BY <1>1, <2>2 DEF Covered
  <2>4. Tiled'
    BY <1>1, <2>1, <2>2, <2>3, TiledAfterDecode
  <2> QED
    BY <1>1, <2>2, <2>4 DEF TilingInv, Covered, CalledAtTop
<1>6. CASE UNCHANGED vars
  <2>1. UNCHANGED <<decoded_head, decoded_tail, write_tail, enq, calling, pc,
                    write_chunks, result>>
    BY <1>6 DEF vars, decVars, tailVars, dfuVars
  <2>2. Left' <= Left
    BY <1>1, <2>1, Offsets DEF Left
  <2>3. Tiled => Tiled'
    BY <1>1, <2>1, <2>2, TiledFramed
  <2> QED
    BY <1>1, <2>1, <2>3 DEF TilingInv, Covered, CalledAtTop
<1> QED
  BY <1>2, <1>3, <1>4, <1>5, <1>6 DEF Next, Terminated

\* Empty rings are tiled by no chunk.
LEMMA TilingInit == Init => TilingInv
<1> SUFFICES ASSUME Init
             PROVE  TilingInv
  OBVIOUS
<1>1. /\ decoded_head = 0 /\ decoded_tail = 0 /\ write_tail = 0
      /\ write_chunks = <<>> /\ pc = "top" /\ calling = FALSE
  BY DEF Init, At
<1>2. RingCount(0, 0, DecodedSize) = 0
  BY Sizes, CountIsDistance
<1>3. Offset(write_tail) + Left <= DecCount
  BY <1>1, <1>2 DEF Offset, Left, DecCount
<1>4. Len(write_chunks) = 0
  BY <1>1
<1>5. Tiled
  BY <1>1, <1>3, <1>4 DEF Tiled
<1> QED
  BY <1>1, <1>5 DEF TilingInv, Covered, CalledAtTop

\* No chunk is refused when the target ignores alignment; when it does not, bytes
\* in order never make a chunk that is misaligned.
LEMMA NothingRefused ==
  ASSUME TypeIInv, QuietEnd, CalledAtTop,
         IgnoreAlignment \/ ~NestedIdle \/ (DataInv /\ ~early)
  PROVE  NoneRefused
<1> SUFFICES ASSUME calling, EnqueueForWriting, NewChunk, Misaligned
             PROVE  FALSE
  BY DEF NoneRefused
<1>1. ~IgnoreAlignment
  BY DEF Misaligned
<1>2. result = "CONTINUE" /\ pc = "enqueue"
  BY DEF EnqueueForWriting, At
<1>3. DataInv /\ ~early
  BY <1>1, <1>2 DEF CalledAtTop
<1>4. InOrder /\ ~written
  BY <1>2, <1>3 DEF DataInv, QuietEnd
<1> QED
  BY <1>2, <1>4, AlwaysAligned DEF TypeIInv

\* The write chunks always tile the decoded ring, whatever the client, the sizes of
\* the rings, of the chunks and of the blocks: bf_put_write_chunk() frees exactly
\* the bytes of the chunk that is done, and binary_decode_chunk() never writes
\* over bytes that are still to be programmed.  A target that runs the loop
\* inside chunk_available() must ignore chunk alignment, or have chunks enough
\* for the decoded ring: otherwise a chunk may be refused as misaligned, and the
\* loop, whose error does not end the upload there, goes on after it.
THEOREM RingTiled ==
  ASSUME IgnoreAlignment \/ EnoughChunks
  PROVE  Spec => []ChunksTileRing
<1>1. Init => TypeIInv /\ QuietEnd /\ TilingInv
  BY TypeInductiveInit, QuietInit, TilingInit
<1>2. CASE IgnoreAlignment \/ ~NestedIdle
  <2>1. TypeIInv /\ QuietEnd /\ TilingInv /\ [Next]_vars
          => (TypeIInv /\ QuietEnd /\ TilingInv)'
    BY <1>2, TypeInductive, QuietInductive, TilingInductive, NothingRefused DEF TilingInv
  <2>2. TilingInv => ChunksTileRing
    BY DEF TilingInv, Covered, ChunksTileRing
  <2> QED
    BY <1>1, <2>1, <2>2, PTL DEF Spec
<1>3. CASE EnoughChunks
  <2> DEFINE J == ~early => TilingInv
  <2>1. TypeIInv /\ TypeIInv' /\ QuietEnd /\ DataInv /\ J /\ [Next]_vars => J'
    BY QuietInductive, TilingInductive, NothingRefused DEF TilingInv
  <2>2. Spec => [](TypeIInv /\ QuietEnd /\ DataInv)
    BY <1>3, DataAlways
  <2>3. J => ChunksTileRing
    BY DEF TilingInv, Covered, ChunksTileRing
  <2>4. Init => J
    BY <1>1
  <2> HIDE DEF J
  <2> QED
    BY <2>1, <2>2, <2>3, <2>4, PTL DEF Spec
<1> QED
  BY <1>2, <1>3

-----------------------------------------------------------------------------
(* Chunks in flight *)

\* What is known of chunks in flight is inductive.
LEMMA InFlightInductive ==
  ASSUME TypeIInv, QuietEnd, InFlightClosed, [Next]_vars
  PROVE  InFlightClosed'
<1>1. TypeInv
  BY DEF TypeIInv
<1>2. CASE LoopStep \/ EnvironmentStep
  BY <1>1, <1>2, LayerKeepsInFlight
<1>3. CASE DoFlush(0)
  BY <1>3, DoFlushFrame, InFlightFramed
<1>4. CASE RxTimeout(Stuck)
  BY <1>4, RxTimeoutFrame, InFlightFramed
<1>5. CASE DecodeBinary
  <2>1. UNCHANGED <<write_chunks, written, early, owned>> /\ pc = "decode"
    BY <1>5, DecodeBinaryFrame
  <2>2. early \/ ~OpenHanded
    BY <2>1 DEF QuietEnd, InFlightClosed
  <2> QED
    BY <2>1, <2>2, InFlightFramed
<1>6. CASE UNCHANGED vars
  BY <1>6, InFlightFramed DEF vars, flagVars, targetVars
<1> QED
  BY <1>2, <1>3, <1>4, <1>5, <1>6 DEF Next, Terminated

\* A chunk the target owns is the first of the queue and keeps its bounds, for
\* every client, also after the end of the file, when _bf_do_write() hands out a
\* chunk that is still pending: nothing is left to decode then, and nothing can
\* extend it.  Only an end that came early is excepted.
THEOREM InFlightKeepsBounds == Spec => []InFlightNotExtended
<1>1. Init => TypeIInv /\ QuietEnd /\ InFlightClosed
  <2>1. Init => InFlightClosed
    BY DEF Init, InFlightClosed, OpenHanded
  <2> QED
    BY <2>1, TypeInductiveInit, QuietInit
<1>2. TypeIInv /\ QuietEnd /\ InFlightClosed /\ [Next]_vars
        => (TypeIInv /\ QuietEnd /\ InFlightClosed)'
  BY TypeInductive, QuietInductive, InFlightInductive
<1>3. TypeIInv /\ InFlightClosed => InFlightNotExtended
  BY DEF TypeIInv, TypeInv, OwnedIsFirst, InFlightClosed, InFlightNotExtended, OwnedIsWhole
<1> QED
  BY <1>1, <1>2, <1>3, PTL DEF Spec

-----------------------------------------------------------------------------
(* Chunks in one piece, sectors erased once *)

\* A chunk handed to chunk_available() is one piece of memory: it never runs over
\* the end of the decoded ring, whatever pieces the bytes were decoded in.  A
\* target that ignores alignment gets this from bf_enqueue_for_writing() cutting
\* at the end; one that takes pages gets it because a page starts at a multiple
\* of its size, which the size of the ring is too.
THEOREM ChunksInOnePiece ==
  ASSUME IgnoreAlignment \/ EnoughChunks
  PROVE  Spec => []NoWrapInChunk
<1>1. CASE IgnoreAlignment
  <2>1. Init => InOnePiece
    BY DEF Init, InOnePiece
  <2>2. TypeIInv /\ InOnePiece /\ [Next]_vars => InOnePiece'
    <3> SUFFICES ASSUME TypeIInv, InOnePiece, [Next]_vars
                 PROVE  InOnePiece'
      OBVIOUS
    <3>1. CASE LoopStep \/ EnvironmentStep
      BY <1>1, <3>1, LayerKeepsStraight, EnqueueKeepsStraight DEF TypeIInv
    <3>2. CASE ~(LoopStep \/ EnvironmentStep)
      <4>1. UNCHANGED write_chunks
        BY <3>2, DoFlushFrame, DecodeBinaryFrame, RxTimeoutFrame DEF Next, Terminated, vars
      <4> QED
        BY <4>1 DEF InOnePiece
    <3> QED
      BY <3>1, <3>2
  <2>3. InOnePiece => NoWrapInChunk
    BY DEF InOnePiece, NoWrapInChunk
  <2> QED
    BY <2>1, <2>2, <2>3, TypeIInvAlways, PTL DEF Spec
<1>2. CASE EnoughChunks
  <2>1. DataInv => NoWrapInChunk
    BY DEF DataInv, InOrder, QueueInOrder, InPlace, NoWrapInChunk
  <2> QED
    BY <1>2, <2>1, DataAlways, PTL
<1> QED
  BY <1>1, <1>2

\* No sector is programmed before it was erased, nor erased again after part of
\* it was programmed, for every map of sectors and every order of blocks,
\* timeouts and completions: _bf_do_write() erases the sectors of a chunk that
\* erase_upto does not cover yet before it hands the chunk over.
THEOREM ErasedOnce == Spec => []EraseOnceBeforeProgramming
<1>1. Init => ErasedFirst
  BY DEF Init, ErasedFirst
<1>2. TypeIInv /\ ErasedFirst /\ [Next]_vars => ErasedFirst'
  <2> SUFFICES ASSUME TypeIInv, ErasedFirst, [Next]_vars
               PROVE  ErasedFirst'
    OBVIOUS
  <2>1. CASE LoopStep \/ EnvironmentStep
    BY <2>1, LayerKeepsErased DEF TypeIInv
  <2>2. CASE DoFlush(0) \/ RxTimeout(Stuck) \/ DecodeBinary \/ UNCHANGED vars
    <3>1. DoFlush(0) => UNCHANGED targetVars
      BY DEF DoFlush
    <3>2. RxTimeout(Stuck) => UNCHANGED targetVars
      BY Zenon DEF RxTimeout
    <3>3. DecodeBinary => UNCHANGED targetVars
      BY Zenon DEF DecodeBinary
    <3>4. UNCHANGED targetVars
      BY <2>2, <3>1, <3>2, <3>3 DEF vars
    <3> QED
      BY <3>4, ErasedFirstFramed DEF targetVars
  <2> QED
    BY <2>1, <2>2 DEF Next, Terminated
<1>3. ErasedFirst => EraseOnceBeforeProgramming
  BY ErasedFirstSuffices
<1> QED
  BY <1>1, <1>2, <1>3, TypeIInvAlways, PTL DEF Spec

-----------------------------------------------------------------------------
(* What the ring and the chunks hold, whatever the format.  A relation R   *)
(* says which byte may be at which slot for which address; what every step *)
(* of the layer preserves is stated for every R, so that each format can   *)
(* say what it puts there.                                                 *)

\* The ring holds at slot i what relation R allows for address a: R has the
\* triples of an address, a slot and the content of that slot.
Good(R, a, i) == <<a, Mask(i, DecodedSize), decoded_buf[Mask(i, DecodedSize)]>> \in R

\* So for n bytes from address a on, from slot i on.
GoodFrom(R, a, i, n) == \A k \in 0 .. n - 1 : Good(R, a + k, i + k)

\* All the write chunks hold what they should.
QueueGood(R) ==
  \A i \in 1 .. Len(write_chunks) :
    GoodFrom(R, write_chunks[i].addr, write_chunks[i].start, write_chunks[i].len)

\* So do the bytes that are still to be cut into chunks.
EnqGood(R) == pc = "enqueue" => GoodFrom(R, enq.addr, write_tail, enq.len)

\* The target owns the beginning of the first chunk.
OwnedPart ==
  owned # NoChunk =>
    /\ write_chunks # <<>>
    /\ owned.addr = write_chunks[1].addr /\ owned.start = write_chunks[1].start
    /\ owned.len <= write_chunks[1].len

\* What is held back for the target.
HeldGood(R) == QueueGood(R) /\ EnqGood(R) /\ OwnedPart

\* A flash cell holds nothing that was not good for its address.
FlashGood(R) ==
  \A a \in Byte : flash[a] # NoData => \E s \in DecSlot : <<a, s, flash[a]>> \in R

\* Nothing but n bytes comes after what is cut or to be cut into chunks.
HeadAfter(n) == decoded_head = Mask(write_tail + Left + n, DecodedSize)

\* bf_enqueue_for_writing() fails in a loop that chunk_available() runs: the
\* failure only ends the nested loop, and the rest of the bytes stays in the
\* decoded ring without a chunk.
RefusedInside == At("enqueue") /\ calling /\ pc' = "top"

\* A slot reached in two moves.
LEMMA GoodSlides ==
  ASSUME NEW R, NEW a \in Nat, NEW i \in Nat, NEW m \in Nat, NEW n \in Nat, NEW b,
         b = a + m, GoodFrom(R, b, Mask(i + m, DecodedSize), n),
         GoodFrom(R, a, i, m)
  PROVE  GoodFrom(R, a, i, m + n)
<1> SUFFICES ASSUME NEW k \in 0 .. m + n - 1
             PROVE  Good(R, a + k, i + k)
  BY DEF GoodFrom
<1>1. CASE k < m
  <2>1. k \in 0 .. m - 1
    BY <1>1
  <2> QED
    BY <2>1 DEF GoodFrom
<1>2. CASE m <= k
  <2>1. k - m \in 0 .. n - 1 /\ k - m \in Nat /\ i + m \in Nat
    BY <1>2
  <2>2. Good(R, b + (k - m), Mask(i + m, DecodedSize) + (k - m))
    BY <2>1 DEF GoodFrom
  <2>3. b + (k - m) = a + k /\ i + m + (k - m) = i + k
    BY <2>1
  <2>4. Mask(Mask(i + m, DecodedSize) + (k - m), DecodedSize) = Mask(i + k, DecodedSize)
    BY <2>1, <2>3, Sizes, MaskSlides
  <2> QED
    BY <2>2, <2>3, <2>4 DEF Good
<1> QED
  BY <1>1, <1>2

\* What is left of a run.
LEMMA GoodRest ==
  ASSUME NEW R, NEW a \in Nat, NEW i \in Nat, NEW m \in Nat, NEW n \in Nat,
         m <= n, GoodFrom(R, a, i, n)
  PROVE  GoodFrom(R, a + m, Mask(i + m, DecodedSize), n - m)
<1> SUFFICES ASSUME NEW k \in 0 .. n - m - 1
             PROVE  Good(R, a + m + k, Mask(i + m, DecodedSize) + k)
  BY DEF GoodFrom
<1>1. m + k \in 0 .. n - 1 /\ i + m \in Nat /\ k \in Nat
  OBVIOUS
<1>2. Good(R, a + (m + k), i + (m + k))
  BY <1>1 DEF GoodFrom
<1>3. a + (m + k) = a + m + k /\ i + (m + k) = i + m + k
  BY <1>1
<1>4. Mask(Mask(i + m, DecodedSize) + k, DecodedSize) = Mask(i + m + k, DecodedSize)
  BY <1>1, Sizes, MaskSlides
<1> QED
  BY <1>2, <1>3, <1>4 DEF Good

\* The first ones of a run.
LEMMA GoodFirst ==
  ASSUME NEW R, NEW a, NEW i, NEW m \in Nat, NEW n \in Nat,
         m <= n, GoodFrom(R, a, i, n)
  PROVE  GoodFrom(R, a, i, m)
BY DEF GoodFrom

\* Bytes stay good as long as nobody writes the ring.
LEMMA GoodFramed ==
  ASSUME NEW R, UNCHANGED decoded_buf, NEW a, NEW i, NEW n, GoodFrom(R, a, i, n)
  PROVE  GoodFrom(R, a, i, n)'
BY DEF GoodFrom, Good

\* Nor do the chunks change when only their flags do.
LEMMA HeldFramed ==
  ASSUME NEW R, HeldGood(R), TypeInv, TypeInv',
         UNCHANGED <<decoded_buf, write_tail, enq>>,
         Len(write_chunks') = Len(write_chunks),
         \A i \in 1 .. Len(write_chunks) :
           /\ write_chunks'[i].addr = write_chunks[i].addr
           /\ write_chunks'[i].start = write_chunks[i].start
           /\ write_chunks'[i].len = write_chunks[i].len,
         pc' = "enqueue" => pc = "enqueue",
         \/ owned' \in {owned, NoChunk}
         \/ /\ write_chunks # <<>>
            /\ owned'.addr = write_chunks[1].addr
            /\ owned'.start = write_chunks[1].start /\ owned'.len = write_chunks[1].len
  PROVE  HeldGood(R)'
<1>0. /\ Len(write_chunks) \in Nat /\ (write_chunks = <<>> <=> Len(write_chunks) = 0)
      /\ (write_chunks' = <<>> <=> Len(write_chunks') = 0)
      /\ \A i \in 1 .. Len(write_chunks) : write_chunks[i].len \in Nat
  BY QueueFields, EmptySeq DEF TypeInv, TypeOK, ChunksTypeOK
<1>1. QueueGood(R)'
  BY DEF HeldGood, QueueGood, GoodFrom, Good
<1>2. EnqGood(R)'
  BY DEF HeldGood, EnqGood, GoodFrom, Good
<1>3. write_chunks # <<>> => 1 \in 1 .. Len(write_chunks)
  BY <1>0
<1>4. OwnedPart'
  <2>1. CASE owned' \in {owned, NoChunk}
    BY <1>0, <1>3, <2>1 DEF HeldGood, OwnedPart
  <2>2. CASE owned' \notin {owned, NoChunk}
    BY <1>0, <1>3, <2>2 DEF OwnedPart
  <2> QED
    BY <2>1, <2>2
<1> QED
  BY <1>1, <1>2, <1>4 DEF HeldGood

\* Freeing the first chunk leaves the others good.
LEMMA HeldAfterPut ==
  ASSUME NEW R, HeldGood(R), TypeInv, write_chunks # <<>>, PutWriteChunk,
         UNCHANGED <<decoded_buf, write_tail, enq, pc>>, owned' = NoChunk
  PROVE  HeldGood(R)'
<1>1. write_chunks \in Seq(Chunk) /\ Len(write_chunks) \in Nat
  BY QueueFields DEF TypeInv, TypeOK, ChunksTypeOK
<1>2. /\ Len(write_chunks') = Len(write_chunks) - 1
      /\ \A i \in 1 .. Len(write_chunks') : write_chunks'[i] = write_chunks[i + 1]
  BY <1>1, PutQueue
<1>3. \A i \in 1 .. Len(write_chunks') : i + 1 \in 1 .. Len(write_chunks)
  BY <1>1, <1>2
<1>4. QueueGood(R)'
  BY <1>2, <1>3 DEF HeldGood, QueueGood, GoodFrom, Good
<1>5. EnqGood(R)' /\ OwnedPart'
  BY DEF HeldGood, EnqGood, OwnedPart, GoodFrom, Good
<1> QED
  BY <1>4, <1>5 DEF HeldGood

\* What is left to enqueue after n bytes is still good.
LEMMA EnqAfterEnqueued ==
  ASSUME NEW R, EnqGood(R), TypeInv, pc = "enqueue",
         NEW n \in Nat, n <= enq.len, Enqueued(n), UNCHANGED decoded_buf
  PROVE  EnqGood(R)' /\ Left' = Left - n
<1>1. enq \in [addr : Nat, len : Nat] /\ write_tail \in Nat
  BY Sizes DEF TypeInv, TypeOK, LoopTypeOK, DecodedTypeOK, DecSlot
<1>2. GoodFrom(R, enq.addr + n, Mask(write_tail + n, DecodedSize), enq.len - n)
  <2>1. enq.addr \in Nat /\ enq.len \in Nat /\ GoodFrom(R, enq.addr, write_tail, enq.len)
    BY <1>1 DEF EnqGood
  <2> QED
    BY <1>1, <2>1, GoodRest
<1>3. /\ enq'.addr = enq.addr + n /\ enq'.len = enq.len - n
      /\ write_tail' = Mask(write_tail + n, DecodedSize)
      /\ pc' = IF enq.len = n THEN "host" ELSE "enqueue"
  BY DEF Enqueued
<1>4. EnqGood(R)'
  BY <1>2, <1>3 DEF EnqGood, GoodFrom, Good
<1>5. Left' = Left - n
  BY <1>1, <1>3 DEF Left
<1> QED
  BY <1>4, <1>5

\* The chunk that is filled goes on with the address and the slot after its last
\* ones.
LEMMA HeldAfterFill ==
  ASSUME NEW R, HeldGood(R), TypeInv, Tiled, pc = "enqueue", FillPending,
         UNCHANGED <<decoded_buf, owned>>
  PROVE  HeldGood(R)'
<1> DEFINE k == Len(write_chunks)
<1>1. PICK n \in Nat :
        /\ n <= enq.len /\ Enqueued(n)
        /\ Len(write_chunks') = k
        /\ \A i \in 1 .. k - 1 : write_chunks'[i] = write_chunks[i]
        /\ write_chunks'[k].addr = LastChunk.addr
        /\ write_chunks'[k].start = LastChunk.start
        /\ write_chunks'[k].len = LastChunk.len + n
  BY FillPendingEffect
<1>2. k \in Nat /\ k >= 1 /\ write_chunks # <<>> /\ LastChunk = write_chunks[k]
  BY FillPendingEffect, Sizes, Offsets DEF LastChunk
<1>3. /\ LastChunk.addr \in Nat /\ LastChunk.start \in Nat /\ LastChunk.len \in Nat
  BY <1>2, QueueFields, Sizes
<1>4. enq \in [addr : Nat, len : Nat]
  BY DEF TypeInv, TypeOK, LoopTypeOK
<1>5. enq.addr = LastChunk.addr + LastChunk.len
  BY DEF FillPending, Contiguous
<1>6. write_tail = Mask(LastChunk.start + LastChunk.len, DecodedSize)
  BY <1>2 DEF Tiled, ChunkEnd
<1>7. GoodFrom(R, LastChunk.addr, LastChunk.start, LastChunk.len + n)
  <2>1. GoodFrom(R, LastChunk.addr, LastChunk.start, LastChunk.len)
    BY <1>2 DEF HeldGood, QueueGood
  <2>2. GoodFrom(R, enq.addr, write_tail, enq.len)
    BY DEF HeldGood, EnqGood
  <2>3. GoodFrom(R, enq.addr, write_tail, n)
    BY <1>1, <1>4, <2>2, GoodFirst
  <2> QED
    BY <1>3, <1>5, <1>6, <2>1, <2>3, GoodSlides
<1>8. /\ write_chunks'[k].addr = write_chunks[k].addr
      /\ write_chunks'[k].start = write_chunks[k].start
      /\ write_chunks'[k].len = write_chunks[k].len + n
  BY <1>1, <1>2
<1>9. GoodFrom(R, write_chunks'[k].addr, write_chunks'[k].start, write_chunks'[k].len)
  BY <1>2, <1>7, <1>8
<1>10. \A i \in 1 .. k :
         GoodFrom(R, write_chunks'[i].addr, write_chunks'[i].start, write_chunks'[i].len)
  <2> SUFFICES ASSUME NEW i \in 1 .. k
               PROVE  GoodFrom(R, write_chunks'[i].addr, write_chunks'[i].start,
                               write_chunks'[i].len)
    OBVIOUS
  <2>1. CASE i = k
    BY <1>9, <2>1
  <2>2. CASE i # k
    <3>1. write_chunks'[i] = write_chunks[i]
      BY <1>1, <1>2, <2>2
    <3>2. GoodFrom(R, write_chunks[i].addr, write_chunks[i].start, write_chunks[i].len)
      BY DEF HeldGood, QueueGood
    <3> QED
      BY <3>1, <3>2
  <2> QED
    BY <2>1, <2>2
<1>11. QueueGood(R)'
  BY <1>1, <1>10 DEF QueueGood, GoodFrom, Good
<1>12. EnqGood(R)'
  BY <1>1, EnqAfterEnqueued DEF HeldGood
<1>13. OwnedPart'
  <2>1. /\ write_chunks'[1].addr = write_chunks[1].addr
        /\ write_chunks'[1].start = write_chunks[1].start
        /\ write_chunks'[1].len >= write_chunks[1].len
        /\ write_chunks'[1].len \in Nat /\ write_chunks[1].len \in Nat
    <3>1. CASE k = 1
      BY <1>2, <1>3, <1>8, <3>1
    <3>2. CASE k # 1
      BY <1>1, <1>2, <3>2, QueueFields
    <3> QED
      BY <3>1, <3>2
  <2>2. write_chunks' # <<>>
    BY <1>1, <1>2
  <2>3. owned # NoChunk => owned.len \in Nat
    BY Sizes DEF TypeInv, TypeOK, TargetTypeOK, HandedOut, ChunkLen
  <2>4. ASSUME owned' # NoChunk
        PROVE  /\ owned'.addr = write_chunks[1].addr /\ owned'.start = write_chunks[1].start
               /\ owned'.len <= write_chunks[1].len /\ owned'.len \in Nat
    BY <2>3, <2>4 DEF HeldGood, OwnedPart
  <2>5. owned' # NoChunk => owned'.len <= write_chunks'[1].len
    BY ONLY <2>1, <2>4
  <2> QED
    BY ONLY <2>1, <2>2, <2>4, <2>5 DEF OwnedPart
<1> QED
  BY <1>11, <1>12, <1>13 DEF HeldGood

\* A new chunk takes the first bytes to be enqueued.
LEMMA HeldAfterNew ==
  ASSUME NEW R, HeldGood(R), TypeInv, pc = "enqueue", NewChunk,
         UNCHANGED <<decoded_buf, owned>>
  PROVE  HeldGood(R)'
<1> DEFINE k == Len(write_chunks)
<1>1. /\ Len(write_chunks') = k + 1
      /\ \A i \in 1 .. k : write_chunks'[i] = write_chunks[i]
      /\ write_chunks'[Len(write_chunks')].addr = enq.addr
      /\ write_chunks'[Len(write_chunks')].start = write_tail
      /\ write_chunks'[Len(write_chunks')].len = NewLen
      /\ NewLen \in Nat /\ NewLen <= enq.len
  BY NewChunkEffect, Sizes DEF ChunkLen
<1>2. k \in Nat /\ (write_chunks = <<>> <=> k = 0) /\ write_chunks' # <<>>
  BY <1>1, Offsets
<1>3. enq \in [addr : Nat, len : Nat]
  BY DEF TypeInv, TypeOK, LoopTypeOK
<1>4. GoodFrom(R, enq.addr, write_tail, NewLen)
  <2>1. GoodFrom(R, enq.addr, write_tail, enq.len)
    BY DEF HeldGood, EnqGood
  <2>2. enq.len \in Nat
    BY <1>3
  <2> QED
    BY <1>1, <2>1, <2>2, GoodFirst
<1>5. \A i \in 1 .. k + 1 :
        GoodFrom(R, write_chunks'[i].addr, write_chunks'[i].start, write_chunks'[i].len)
  <2> SUFFICES ASSUME NEW i \in 1 .. k + 1
               PROVE  GoodFrom(R, write_chunks'[i].addr, write_chunks'[i].start,
                               write_chunks'[i].len)
    OBVIOUS
  <2>1. CASE i = k + 1
    BY <1>1, <1>4, <2>1
  <2>2. CASE i # k + 1
    <3>1. i \in 1 .. k /\ write_chunks'[i] = write_chunks[i]
      BY <1>1, <1>2, <2>2
    <3>2. GoodFrom(R, write_chunks[i].addr, write_chunks[i].start, write_chunks[i].len)
      BY <3>1 DEF HeldGood, QueueGood
    <3> QED
      BY <3>1, <3>2
  <2> QED
    BY <2>1, <2>2
<1>6. QueueGood(R)'
  BY <1>1, <1>5 DEF QueueGood, GoodFrom, Good
<1>7. EnqGood(R)'
  <2>1. CASE Misaligned
    BY <2>1 DEF NewChunk, IterationFails, EnqGood
  <2>2. CASE ~Misaligned
    <3>1. Enqueued(NewLen)
      BY <2>2 DEF NewChunk
    <3> QED
      BY <1>1, <3>1, EnqAfterEnqueued DEF HeldGood
  <2> QED
    BY <2>1, <2>2
<1>8. OwnedPart'
  BY <1>1, <1>2 DEF HeldGood, OwnedPart
<1> QED
  BY <1>6, <1>7, <1>8 DEF HeldGood

\* Closing a chunk changes none of its bytes.
LEMMA HeldAfterClose ==
  ASSUME NEW R, HeldGood(R), TypeInv, TypeInv', ClosePending,
         UNCHANGED <<decoded_buf, owned>>
  PROVE  HeldGood(R)'
<1> DEFINE c == [write_chunks[Len(write_chunks)] EXCEPT !.pending = FALSE]
<1>1. write_chunks \in Seq(Chunk) /\ Len(write_chunks) \in 1 .. Len(write_chunks)
  BY EmptySeq DEF ClosePending, HasPendingChunk, TypeInv, TypeOK, ChunksTypeOK
<1>2. /\ c \in Chunk /\ c.addr = write_chunks[Len(write_chunks)].addr
      /\ c.start = write_chunks[Len(write_chunks)].start
      /\ c.len = write_chunks[Len(write_chunks)].len
  <2>1. write_chunks[Len(write_chunks)] \in Chunk
    BY <1>1, ElementOfSeq
  <2> QED
    BY <2>1 DEF Chunk
<1>3. write_chunks' = [write_chunks EXCEPT ![Len(write_chunks)] = c]
  BY <1>1, LenProperties DEF ClosePending
<1> HIDE DEF c
<1>4. /\ Len(write_chunks') = Len(write_chunks)
      /\ \A i \in 1 .. Len(write_chunks) :
           write_chunks'[i] = IF i = Len(write_chunks) THEN c ELSE write_chunks[i]
  BY ONLY <1>1, <1>2, <1>3, SetElement
<1>5. \A i \in 1 .. Len(write_chunks) :
        /\ write_chunks'[i].addr = write_chunks[i].addr
        /\ write_chunks'[i].start = write_chunks[i].start
        /\ write_chunks'[i].len = write_chunks[i].len
  BY <1>2, <1>4
<1>6. UNCHANGED <<enq, pc, write_tail>>
  BY DEF ClosePending
<1> QED
  BY <1>4, <1>5, <1>6, HeldFramed

\* The target is handed the first chunk.
LEMMA HeldHandsOver ==
  ASSUME NEW R, HeldGood(R), TypeInv, TypeInv', WriteHandsOver
  PROVE  HeldGood(R)'
<1> DEFINE c == [write_chunks[1] EXCEPT !.write_pending = TRUE]
<1>1. write_chunks \in Seq(Chunk) /\ 1 \in 1 .. Len(write_chunks) /\ write_chunks # <<>>
  BY EmptySeq DEF WriteHandsOver, HasNextWriteChunk, TypeInv, TypeOK, ChunksTypeOK
<1>2. /\ c \in Chunk /\ c.addr = write_chunks[1].addr
      /\ c.start = write_chunks[1].start
      /\ c.len = write_chunks[1].len
  <2>1. write_chunks[1] \in Chunk
    BY <1>1, ElementOfSeq
  <2> QED
    BY <2>1 DEF Chunk
<1>3. write_chunks' = [write_chunks EXCEPT ![1] = c]
  BY <1>1, LenProperties DEF WriteHandsOver
<1> HIDE DEF c
<1>4. /\ Len(write_chunks') = Len(write_chunks)
      /\ \A i \in 1 .. Len(write_chunks) :
           write_chunks'[i] = IF i = 1 THEN c ELSE write_chunks[i]
  BY ONLY <1>1, <1>2, <1>3, SetElement
<1>5. \A i \in 1 .. Len(write_chunks) :
        /\ write_chunks'[i].addr = write_chunks[i].addr
        /\ write_chunks'[i].start = write_chunks[i].start
        /\ write_chunks'[i].len = write_chunks[i].len
  BY <1>2, <1>4
<1>6. /\ UNCHANGED <<decoded_buf, write_tail, enq>> /\ pc' = "top"
      /\ owned'.addr = write_chunks[1].addr /\ owned'.start = write_chunks[1].start
      /\ owned'.len = write_chunks[1].len
  BY DEF WriteHandsOver, decVars, tailVars
<1> QED
  BY <1>1, <1>4, <1>5, <1>6, HeldFramed

\* No step of the layer makes a chunk hold the wrong bytes.
LEMMA LayerKeepsHeld ==
  ASSUME NEW R, HeldGood(R), TypeInv, TypeInv', result = "CONTINUE" => Tiled,
         LoopStep \/ EnvironmentStep
  PROVE  HeldGood(R)'
<1>1. CASE \/ LoopTop \/ OnIdle \/ HostIdle \/ WriteNothing \/ WriteErases
  <2>1. /\ UNCHANGED <<decoded_buf, write_tail, enq, write_chunks, owned>>
        /\ pc' # "enqueue"
    BY <1>1 DEF LoopTop, OnIdle, HostIdle, WriteNothing, WriteErases, At,
                decVars, tailVars, targetVars
  <2> QED
    BY <2>1, HeldFramed
<1>2. CASE WriteHandsOver
  BY <1>2, HeldHandsOver
<1>3. CASE EnqueueForWriting
  <2>1. /\ pc = "enqueue" /\ Tiled /\ UNCHANGED <<decoded_buf, owned>>
    BY <1>3 DEF EnqueueForWriting, At, decVars, targetVars
  <2>2. CASE FillPending
    BY <2>1, <2>2, HeldAfterFill
  <2>3. CASE ClosePending
    BY <2>1, <2>3, HeldAfterClose
  <2>4. CASE NewChunk
    BY <2>1, <2>4, HeldAfterNew
  <2>5. CASE NoChunkLeft
    BY <2>1, <2>5, HeldFramed DEF NoChunkLeft, IterationFails
  <2> QED
    BY <1>3, <2>2, <2>3, <2>4, <2>5 DEF EnqueueForWriting
<1>4. CASE ClientAppends \/ FlushStart \/ ChunkFails \/ BetweenCommands \/ EraseEnds
  <2>1. /\ UNCHANGED <<decoded_buf, write_tail, enq, write_chunks, pc>>
        /\ owned' \in {owned, NoChunk}
    BY <1>4 DEF ClientAppends, FlushStart, ChunkFails, BetweenCommands, EraseEnds,
                decVars, tailVars, targetVars
  <2> QED
    BY <2>1, HeldFramed
<1>5. CASE ChunkAvailableOk
  <2>1. /\ UNCHANGED <<decoded_buf, write_tail, enq, write_chunks, owned>>
        /\ pc' # "enqueue"
    BY <1>5 DEF ChunkAvailableOk, decVars, tailVars, targetVars
  <2> QED
    BY <2>1, HeldFramed
<1>6. CASE ChunkAvailableFails \/ ChunkDone
  <2>1. /\ UNCHANGED <<decoded_buf, write_tail, enq, pc>> /\ owned' = NoChunk
        /\ PutWriteChunk /\ write_chunks # <<>>
    BY <1>6 DEF ChunkAvailableFails, ChunkDone, decVars, TypeInv, OwnedIsFirst
  <2> QED
    BY <2>1, HeldAfterPut
<1> QED
  BY <1>1, <1>2, <1>3, <1>4, <1>5, <1>6 DEF LoopStep, EnvironmentStep

\* Programming a good chunk leaves the flash good.
LEMMA FlashGoodDone ==
  ASSUME NEW R, FlashGood(R), HeldGood(R), TypeInv, owned # NoChunk,
         flash' = Programmed(owned)
  PROVE  FlashGood(R)'
<1>1. /\ owned.addr = write_chunks[1].addr /\ owned.start = write_chunks[1].start
      /\ owned.len <= write_chunks[1].len /\ 1 \in 1 .. Len(write_chunks)
  BY Offsets DEF HeldGood, OwnedPart
<1>2. /\ owned.addr \in Nat /\ owned.start \in Nat /\ owned.len \in Nat
      /\ write_chunks[1].len \in Nat
  BY <1>1, QueueFields, Sizes DEF TypeInv, TypeOK, TargetTypeOK, HandedOut, ChunkLen, DecSlot
<1>3. GoodFrom(R, owned.addr, owned.start, owned.len)
  BY <1>1, <1>2, GoodFirst DEF HeldGood, QueueGood
<1> SUFFICES ASSUME NEW a \in Byte, flash'[a] # NoData
             PROVE  \E s \in DecSlot : <<a, s, flash'[a]>> \in R
  BY DEF FlashGood
<1>4. a \in Nat
  BY ClientKind DEF Byte
<1>5. CASE a \in owned.addr .. owned.addr + owned.len - 1
  <2> DEFINE k == a - owned.addr
  <2>1. k \in 0 .. owned.len - 1 /\ owned.addr + k = a
    BY <1>2, <1>4, <1>5
  <2> HIDE DEF k
  <2>2. Good(R, a, owned.start + k)
    BY <1>3, <2>1 DEF GoodFrom
  <2>3. flash'[a] = SlotData(owned.start + k)
    BY <1>5 DEF Programmed, k
  <2>4. owned.start + k \in DecSlot /\ flash'[a] = decoded_buf[owned.start + k]
    BY <2>3 DEF SlotData
  <2>5. Mask(owned.start + k, DecodedSize) = owned.start + k
    BY <2>4, Sizes DEF DecSlot, Mask
  <2> QED
    BY <2>2, <2>4, <2>5 DEF Good
<1>6. CASE a \notin owned.addr .. owned.addr + owned.len - 1
  <2>1. flash'[a] = flash[a]
    BY <1>6 DEF Programmed
  <2> QED
    BY <2>1 DEF FlashGood
<1> QED
  BY <1>5, <1>6

\* So does every other step of the layer.
LEMMA LayerKeepsFlash ==
  ASSUME NEW R, FlashGood(R), HeldGood(R), TypeInv, LoopStep \/ EnvironmentStep
  PROVE  FlashGood(R)'
<1>1. CASE ChunkDone
  BY <1>1, FlashGoodDone DEF ChunkDone
<1>2. CASE ~ChunkDone
  <2>1. UNCHANGED flash
    <3>1. LoopStep => UNCHANGED flash
      BY DEF LoopStep, LoopTop, OnIdle, HostIdle, WriteNothing, WriteErases, WriteHandsOver,
             EnqueueForWriting, targetVars
    <3>2. EnvironmentStep => UNCHANGED flash
      BY <1>2 DEF EnvironmentStep, ClientAppends, FlushStart, ChunkAvailableOk,
             ChunkAvailableFails, ChunkFails, BetweenCommands, EraseEnds, targetVars
    <3> QED
      BY <3>1, <3>2
  <2> QED
    BY <2>1 DEF FlashGood
<1> QED
  BY <1>1, <1>2

\* What EnqueueForWriting moves.
LEMMA HeadKept ==
  ASSUME TypeInv, HeadAfter(0), pc = "enqueue", NEW n \in Nat, n <= enq.len, Enqueued(n),
         UNCHANGED decoded_head
  PROVE  HeadAfter(0)'
<1>1. enq \in [addr : Nat, len : Nat] /\ write_tail \in Nat
  BY Sizes DEF TypeInv, TypeOK, LoopTypeOK, DecodedTypeOK, DecSlot
<1>2. /\ enq'.len = enq.len - n /\ enq.len - n \in Nat
      /\ write_tail' = Mask(write_tail + n, DecodedSize)
      /\ pc' = IF enq.len = n THEN "host" ELSE "enqueue"
  BY <1>1 DEF Enqueued
<1>3. Left' = enq.len - n /\ Left = enq.len
  BY <1>1, <1>2 DEF Left
<1>4. Mask(Mask(write_tail + n, DecodedSize) + (enq.len - n), DecodedSize)
        = Mask(write_tail + n + (enq.len - n), DecodedSize)
  <2>1. write_tail + n \in Nat
    BY <1>1
  <2> QED
    BY <1>2, <2>1, Sizes, MaskSlides
<1>5. write_tail + n + (enq.len - n) = write_tail + Left + 0
  BY <1>1, <1>3
<1>6. write_tail' + Left' + 0 = Mask(write_tail + n, DecodedSize) + (enq.len - n)
  <2>1. write_tail + n \in Nat
    BY <1>1
  <2>2. Mask(write_tail + n, DecodedSize) \in Int
    BY <2>1, Sizes, MaskInRing
  <2>3. Mask(write_tail + n, DecodedSize) + (enq.len - n) + 0
          = Mask(write_tail + n, DecodedSize) + (enq.len - n)
    BY <1>1, <2>2
  <2> QED
    BY <1>2, <1>3, <2>3
<1> QED
  BY <1>4, <1>5, <1>6 DEF HeadAfter

\* Nothing is left behind in the decoded ring, but by a failure in a nested loop.
LEMMA LayerKeepsHead ==
  ASSUME TypeInv, HeadAfter(0), ~RefusedInside, LoopStep \/ EnvironmentStep,
         result' # "ERROR"
  PROVE  HeadAfter(0)'
<1>1. CASE EnqueueForWriting
  <2>1. pc = "enqueue" /\ UNCHANGED <<decoded_head, calling>> /\ At("enqueue")
    BY <1>1 DEF EnqueueForWriting, At, decVars
  <2>2. ~IterationFails
    BY <2>1 DEF IterationFails, RefusedInside
  <2>3. CASE FillPending
    BY <2>1, <2>3, FillPendingEffect, HeadKept
  <2>4. CASE ClosePending
    BY <2>1, <2>4 DEF ClosePending, HeadAfter, Left
  <2>5. CASE NewChunk
    <3>1. Enqueued(NewLen)
      BY <2>2, <2>5 DEF NewChunk
    <3>2. NewLen \in Nat /\ NewLen <= enq.len
      BY <2>5, NewChunkEffect, Sizes DEF ChunkLen
    <3> QED
      BY <2>1, <3>1, <3>2, HeadKept
  <2>6. CASE NoChunkLeft
    BY <2>2, <2>6 DEF NoChunkLeft
  <2> QED
    BY <1>1, <2>3, <2>4, <2>5, <2>6 DEF EnqueueForWriting
<1>2. CASE ~EnqueueForWriting
  <2>1. pc # "enqueue" /\ pc' # "enqueue" /\ UNCHANGED <<decoded_head, write_tail>>
    <3>1. LoopStep => pc # "enqueue" /\ pc' # "enqueue" /\ UNCHANGED <<decoded_head, write_tail>>
      BY <1>2 DEF LoopStep, LoopTop, OnIdle, HostIdle, WriteNothing, WriteErases,
                  WriteHandsOver, At, decVars, tailVars
    <3>2. ClientAppends \/ FlushStart \/ ChunkAvailableOk \/ ChunkAvailableFails =>
            pc # "enqueue" /\ pc' # "enqueue" /\ UNCHANGED <<decoded_head, write_tail>>
      BY DEF ClientAppends, FlushStart, ChunkAvailableOk, ChunkAvailableFails,
             AtEvents, At, decVars, tailVars
    <3>3. ChunkDone \/ ChunkFails \/ BetweenCommands \/ EraseEnds =>
            pc # "enqueue" /\ pc' # "enqueue" /\ UNCHANGED <<decoded_head, write_tail>>
      BY DEF ChunkDone, ChunkFails, BetweenCommands, EraseEnds, AnswerArrives,
             InChunkAvailable, AtEvents, At, decVars, tailVars
    <3> QED
      BY <3>1, <3>2, <3>3 DEF EnvironmentStep
  <2> QED
    BY <2>1 DEF HeadAfter, Left
<1> QED
  BY <1>1, <1>2

-----------------------------------------------------------------------------
(* Intel HEX: types                                                        *)

\* The line whose header is the next one in the raw ring.
CurLine == (Consumed + 1) \div 2 + 1

\* A line.
LineRecord == [type : LineType, addr : Nat, count : Nat]

\* The private data of the format and the locals of ihex_decode_chunk().
FormatRecord == [ok : BOOLEAN, base : Nat, started : BOOLEAN,
                 len : Nat, first : Nat, next : Nat]

\* They are there once the format has been found, and before it decodes.
IhexFormatOK ==
  /\ format_ops => format_data \in FormatRecord
  /\ pc = "decode" => format_ops

\* The types, and that the raw ring holds a piece of the file: the line that
\* decode_chunk() parses is one of the file's.
IhexTypeInv == TypeInv /\ IhexFormatOK /\ RawInOrder /\ lines \in Files

\* Units taken from the raw ring leave the others in order.
LEMMA TailMoves ==
  ASSUME TypeInv, RawInOrder, NEW n \in Nat, n <= RawCount,
         tail' = Mask(tail + n, RawSize), UNCHANGED <<buf, head, tot_appended>>
  PROVE  RawInOrder' /\ Consumed' = Consumed + n /\ tail' \in RawSlot
<1>1. /\ head \in 0 .. RawSize - 1 /\ tail \in 0 .. RawSize - 1 /\ RawSize \in Nat \ {0}
      /\ Consumed \in Nat /\ tot_appended \in Nat /\ RawCount \in Nat
      /\ tail = Mask(Consumed, RawSize) /\ RawCount = tot_appended - Consumed
  BY Sizes, Positions DEF TypeInv, TypeOK, RawTypeOK, RawSlot, RawInOrder
<1>2. RawCount' = RawCount - n
  BY <1>1, CountAfterFreeing DEF RawCount
<1>3. Consumed' = Consumed + n
  BY <1>1, <1>2 DEF Consumed
<1>4. tail' = Mask(Consumed + n, RawSize)
  BY <1>1, MaskSlides
<1>5. tail' \in RawSlot
  BY <1>1, <1>4, MaskInRing DEF RawSlot
<1>6. \A a \in Consumed + n .. tot_appended - 1 : a \in Consumed .. tot_appended - 1
  BY <1>1
<1>7. \A a \in Consumed' .. tot_appended' - 1 : buf'[Mask(a, RawSize)] = a
  BY <1>3, <1>6 DEF RawInOrder
<1>8. Consumed' \in Nat /\ tot_appended' <= FileSize /\ head' = Mask(tot_appended', RawSize)
  BY <1>1, <1>3 DEF RawInOrder
<1> QED
  BY ONLY <1>3, <1>4, <1>5, <1>7, <1>8 DEF RawInOrder

\* What _peek_line_header() finds is the line that comes next in the file.
LEMMA LineRead ==
  ASSUME TypeInv, RawInOrder, lines \in Files, WholeLine
  PROVE  /\ ToHeader \in {0, 1} /\ ToHeader + 2 <= RawCount
         /\ CurLine \in 1 .. Len(lines) /\ Line = lines[CurLine] /\ Line \in LineRecord
         /\ Consumed + ToHeader = 2 * (CurLine - 1)
<1>1. /\ Consumed \in Nat /\ tot_appended \in Nat /\ RawCount \in Nat
      /\ tail = Mask(Consumed, RawSize) /\ RawCount = tot_appended - Consumed
      /\ tot_appended <= FileSize
  BY Positions DEF RawInOrder
<1>2. RawCount > 0 /\ RawCount >= ToHeader + 2
  BY DEF WholeLine
<1>3. Consumed \in Consumed .. tot_appended - 1
  BY <1>1, <1>2
<1>4. buf[tail] = Consumed
  BY <1>1, <1>3 DEF RawInOrder
<1>5. ToHeader \in {0, 1} /\ (Consumed + ToHeader) % 2 = 0
  BY <1>1, <1>4 DEF ToHeader
<1>6. Consumed + ToHeader = 2 * (CurLine - 1) /\ CurLine \in Nat \ {0}
  BY <1>1, <1>5, <1>4 DEF CurLine, ToHeader
<1>7. lines \in Seq(LineRecord) /\ FileSize = 2 * Len(lines) /\ Len(lines) \in Nat
  BY LinesOfFile, LenProperties DEF LineRecord
<1>8. CurLine \in 1 .. Len(lines)
  BY <1>1, <1>2, <1>5, <1>6, <1>7
<1>9. (buf[tail] + ToHeader) \div 2 + 1 = CurLine
  BY <1>4, <1>5, <1>6
<1>10. Line = lines[CurLine]
  BY <1>9 DEF Line
<1>11. Line \in LineRecord
  BY <1>7, <1>8, <1>10, ElementOfSeq
<1> QED
  BY <1>2, <1>5, <1>6, <1>8, <1>10, <1>11

\* Once the tail is past the header the next line is the one after.
LEMMA LineDone ==
  ASSUME TypeInv, RawInOrder, lines \in Files, WholeLine,
         NEW n \in {ToHeader + 1, ToHeader + 2}, GoOn(n),
         UNCHANGED <<buf, head, tot_appended>>
  PROVE  RawInOrder' /\ CurLine' = CurLine + 1 /\ tail' \in RawSlot
         /\ Consumed' # 0
<1>1. /\ ToHeader \in {0, 1} /\ ToHeader + 2 <= RawCount /\ CurLine \in Int
      /\ Consumed + ToHeader = 2 * (CurLine - 1)
  BY LineRead
<1>2. n \in Nat /\ n <= RawCount
  BY <1>1, Positions
<1>3. RawInOrder' /\ Consumed' = Consumed + n /\ tail' \in RawSlot
  BY <1>2, TailMoves DEF GoOn
<1>4. Consumed \in Nat
  BY DEF RawInOrder
<1>5. (Consumed' + 1) \div 2 = CurLine
  BY <1>1, <1>3, <1>4
<1>6. CurLine' = CurLine + 1
  BY <1>5 DEF CurLine
<1> QED
  BY <1>1, <1>3, <1>4, <1>6

\* What every step of decode_chunk() leaves alone.
LEMMA DecodeIhexFrame ==
  ASSUME DecodeIhex
  PROVE  /\ pc = "decode" /\ result = "CONTINUE"
         /\ UNCHANGED <<buf, head, tot_appended, decoded_tail, write_tail, write_chunks,
                        flushing, early, really_written, format_ops, rx_timeout, calling,
                        error, target_busy, owned, erasing, erased, flash, lines>>
<1>1. At("decode")
  BY DEF DecodeIhex, DecodeNoLine, DecodeNoPrivateData, DecodeJump, DecodeNoRoom,
         DecodeData, DecodeEof, DecodeBase, DecodeStart, DecodeSegment, AtLine
<1>2. DecodeUnchanged
  BY Zenon DEF DecodeIhex, DecodeNoLine, DecodeNoPrivateData, DecodeJump, DecodeNoRoom,
         DecodeData, DecodeEof, DecodeBase, DecodeStart, DecodeSegment
<1> QED
  BY <1>1, <1>2 DEF At, DecodeUnchanged, tailVars, targetVars

\* What decode_chunk() returns.
LEMMA ReturnsType ==
  ASSUME TypeInv, format_data \in FormatRecord, NEW stat \in Nat, DecodeReturns(stat)
  PROVE  /\ format_data' \in FormatRecord
         /\ format_data'.base = format_data.base /\ format_data'.len = 0
         /\ ~format_data'.started
         /\ decoded_chunk_size' \in Nat
         /\ enq' \in [addr : Nat, len : Nat]
         /\ pc' = IF stat = 0 THEN "host" ELSE "enqueue"
         /\ stat # 0 => enq'.addr = format_data.first /\ enq'.len = stat
<1>1. format_data.first \in Nat /\ format_data.base \in Nat /\ format_data.ok \in BOOLEAN
  BY DEF FormatRecord
<1>2. format_data' = [ok |-> format_data.ok, base |-> format_data.base,
                      started |-> FALSE, len |-> 0, first |-> 0, next |-> 0]
  BY DEF DecodeReturns, LocalsGo, Probed
<1>3. enq \in [addr : Nat, len : Nat] /\ decoded_chunk_size \in Nat
  BY DEF TypeInv, TypeOK, LoopTypeOK, DecodedTypeOK
<1>4. /\ decoded_chunk_size' \in Nat
      /\ enq' \in [addr : Nat, len : Nat]
      /\ pc' = IF stat = 0 THEN "host" ELSE "enqueue"
      /\ stat # 0 => enq'.addr = format_data.first /\ enq'.len = stat
  BY <1>1, <1>3 DEF DecodeReturns, AfterDecode
<1> QED
  BY <1>1, <1>2, <1>4 DEF FormatRecord

\* What a step of decode_chunk() has to keep.
LEMMA IhexTypeFrame ==
  ASSUME IhexTypeInv, DecodeIhex,
         decoded_buf' \in [DecSlot -> Nat \cup {NoData}], decoded_head' \in DecSlot,
         decoded_chunk_size' \in Nat, format_data' \in FormatRecord,
         rx_done' \in BOOLEAN, written' \in BOOLEAN, enq' \in [addr : Nat, len : Nat],
         pc' \in {"top", "decode", "enqueue", "host"}, result' \in {result, "ERROR", "CRASH"},
         RawInOrder', tail' \in RawSlot
  PROVE  IhexTypeInv'
<1>1. UNCHANGED <<buf, head, tot_appended, decoded_tail, write_tail, write_chunks,
                  flushing, early, really_written, format_ops, rx_timeout, calling, error,
                  target_busy, owned, erasing, erased, flash, lines>>
      /\ pc = "decode"
  BY DecodeIhexFrame
<1>2. RawTypeOK'
  BY <1>1 DEF IhexTypeInv, TypeInv, TypeOK, RawTypeOK
<1>3. DecodedTypeOK'
  BY <1>1 DEF IhexTypeInv, TypeInv, TypeOK, DecodedTypeOK
<1>4. ChunksTypeOK' /\ TargetTypeOK' /\ OwnedIsFirst'
  BY <1>1, FramedTypes DEF IhexTypeInv, TypeInv, TypeOK, targetVars
<1>5. FlagsTypeOK'
  BY <1>1 DEF IhexTypeInv, TypeInv, TypeOK, FlagsTypeOK
<1>6. LoopTypeOK'
  BY <1>1 DEF IhexTypeInv, TypeInv, TypeOK, LoopTypeOK
<1>7. IhexFormatOK'
  BY <1>1 DEF IhexTypeInv, IhexFormatOK
<1> QED
  BY <1>1, <1>2, <1>3, <1>4, <1>5, <1>6, <1>7 DEF IhexTypeInv, TypeInv, TypeOK

\* Every step of decode_chunk() keeps the types.
LEMMA DecodeIhexType == IhexTypeInv /\ DecodeIhex => IhexTypeInv'
<1> SUFFICES ASSUME IhexTypeInv, DecodeIhex
             PROVE  IhexTypeInv'
  OBVIOUS
<1>0. /\ TypeInv /\ RawInOrder /\ lines \in Files /\ format_data \in FormatRecord
      /\ UNCHANGED <<buf, head, tot_appended>>
      /\ pc = "decode" /\ result = "CONTINUE"
  BY DecodeIhexFrame DEF IhexTypeInv, IhexFormatOK
<1>1. /\ decoded_buf \in [DecSlot -> Nat \cup {NoData}] /\ decoded_head \in DecSlot
      /\ decoded_chunk_size \in Nat /\ rx_done \in BOOLEAN /\ written \in BOOLEAN
      /\ enq \in [addr : Nat, len : Nat] /\ tail \in RawSlot
  BY <1>0 DEF TypeInv, TypeOK, RawTypeOK, DecodedTypeOK, FlagsTypeOK, LoopTypeOK
<1>2. format_data.len \in Nat
  BY <1>0 DEF FormatRecord
<1>3. UNCHANGED tail => RawInOrder'
  BY <1>0 DEF RawInOrder, Consumed, RawCount
<1>4. CASE DecodeNoLine
  BY <1>0, <1>1, <1>2, <1>3, <1>4, ReturnsType, IhexTypeFrame DEF DecodeNoLine
<1>5. CASE DecodeNoPrivateData
  BY <1>0, <1>1, <1>3, <1>5, IhexTypeFrame DEF DecodeNoPrivateData, decVars
<1>6. CASE DecodeJump
  BY <1>0, <1>1, <1>2, <1>3, <1>6, ReturnsType, IhexTypeFrame DEF DecodeJump
<1>7. CASE DecodeNoRoom
  <2>1. RawInOrder' /\ tail' \in RawSlot
    BY <1>0, <1>7, LineDone DEF DecodeNoRoom, AtLine
  <2> QED
    BY <1>0, <1>1, <1>7, <2>1, ReturnsType, IhexTypeFrame DEF DecodeNoRoom
<1>8. CASE DecodeData
  <2>1. RawInOrder' /\ tail' \in RawSlot
    BY <1>0, <1>8, LineDone DEF DecodeData, AtLine
  <2>2. Line \in LineRecord
    BY <1>0, <1>8, LineRead DEF DecodeData, AtLine
  <2>3. /\ Line.addr \in Nat /\ Line.count \in Nat
        /\ format_data.base \in Nat /\ format_data.first \in Nat
    BY <1>0, <2>2 DEF LineRecord, FormatRecord
  <2>4. LineAddr \in Nat
    BY <2>3 DEF LineAddr
  <2>5. decoded_buf' \in [DecSlot -> Nat \cup {NoData}]
    <3>1. \A s \in DecSlot : RingCount(s, decoded_head, DecodedSize) \in Nat
      <4> SUFFICES ASSUME NEW s \in DecSlot
                   PROVE  RingCount(s, decoded_head, DecodedSize) \in Nat
        OBVIOUS
      <4>1. s \in 0 .. DecodedSize - 1 /\ decoded_head \in 0 .. DecodedSize - 1
        BY <1>1 DEF DecSlot
      <4>2. RingCount(s, decoded_head, DecodedSize) \in 0 .. DecodedSize - 1
        BY <4>1, Sizes, CountIsDistance
      <4> QED
        BY <4>2, Sizes
    <3>2. decoded_buf' =
            [s \in DecSlot |->
               IF RingCount(s, decoded_head, DecodedSize) < Line.count
               THEN LineAddr + RingCount(s, decoded_head, DecodedSize) ELSE decoded_buf[s]]
      BY <1>8 DEF DecodeData
    <3>3. \A s \in DecSlot : decoded_buf[s] \in Nat \cup {NoData}
      BY <1>1
    <3> QED
      BY <2>4, <3>1, <3>2, <3>3
  <2>6. decoded_head' \in DecSlot
    <3>1. decoded_head + Line.count \in Int
      BY <1>1, <2>3, Sizes DEF DecSlot
    <3> QED
      BY <1>8, <3>1, Sizes, MaskInRing DEF DecodeData, DecSlot
  <2>7. format_data' \in FormatRecord
    <3>1. format_data' = [format_data EXCEPT
                            !.started = TRUE,
                            !.len = format_data.len + Line.count,
                            !.first = IF format_data.started THEN format_data.first ELSE LineAddr,
                            !.next = LineAddr + Line.count]
      BY <1>8 DEF DecodeData
    <3> DEFINE l == format_data.len + Line.count
               f == IF format_data.started THEN format_data.first ELSE LineAddr
               x == LineAddr + Line.count
    <3>2. l \in Nat /\ f \in Nat /\ x \in Nat
      BY <1>2, <2>3, <2>4
    <3>3. format_data' = [format_data EXCEPT !.started = TRUE, !.len = l, !.first = f,
                                            !.next = x]
      BY <3>1
    <3> HIDE DEF l, f, x
    <3> QED
      BY <1>0, <3>2, <3>3 DEF FormatRecord
  <2>8. UNCHANGED <<rx_done, written, result, pc, enq, decoded_chunk_size>>
    BY <1>8 DEF DecodeData
  <2> QED
    BY <1>0, <1>1, <2>1, <2>5, <2>6, <2>7, <2>8, IhexTypeFrame
<1>9. CASE DecodeEof
  <2>1. RawInOrder' /\ tail' \in RawSlot
    BY <1>0, <1>9, LineDone DEF DecodeEof, AtLine
  <2>2. /\ rx_done' \in BOOLEAN /\ written' \in BOOLEAN
        /\ UNCHANGED <<decoded_buf, decoded_head, format_data, result, pc, enq,
                       decoded_chunk_size>>
    BY <1>9 DEF DecodeEof, decVars
  <2> QED
    BY <1>0, <1>1, <2>1, <2>2, IhexTypeFrame
<1>10. CASE DecodeBase
  <2>1. RawInOrder' /\ tail' \in RawSlot
    BY <1>0, <1>10, LineDone DEF DecodeBase, AtLine
  <2>2. Line.addr \in Nat
    BY <1>0, <1>10, LineRead DEF DecodeBase, AtLine, LineRecord
  <2>3. format_data' \in FormatRecord
    BY <1>0, <1>10, <2>2 DEF DecodeBase, FormatRecord
  <2> QED
    BY <1>0, <1>1, <1>10, <2>1, <2>3, IhexTypeFrame DEF DecodeBase
<1>11. CASE DecodeStart
  <2>1. RawInOrder' /\ tail' \in RawSlot
    BY <1>0, <1>11, LineDone DEF DecodeStart, AtLine
  <2> QED
    BY <1>0, <1>1, <1>11, <2>1, IhexTypeFrame DEF DecodeStart, decVars
<1>12. CASE DecodeSegment
  <2>1. format_data' \in FormatRecord
    <3>1. format_data.base \in Nat /\ format_data.ok \in BOOLEAN
      BY <1>0 DEF FormatRecord
    <3>2. format_data' = [ok |-> format_data.ok, base |-> format_data.base,
                      started |-> FALSE, len |-> 0, first |-> 0, next |-> 0]
      BY <1>12 DEF DecodeSegment, LocalsGo, Probed
    <3> QED
      BY <3>1, <3>2 DEF FormatRecord
  <2> QED
    BY <1>0, <1>1, <1>3, <1>12, <2>1, IhexTypeFrame DEF DecodeSegment, IterationFails
<1> QED
  BY <1>4, <1>5, <1>6, <1>7, <1>8, <1>9, <1>10, <1>11, <1>12 DEF DecodeIhex

\* Probed
LEMMA ProbedType ==
  ASSUME TypeInv PROVE Probed \in FormatRecord
BY DEF Probed, FormatRecord

\* So does finding the format.
LEMMA FlushesIhexType == IhexTypeInv /\ DoFlush(Probed) /\ UNCHANGED lines => IhexTypeInv'
<1> SUFFICES ASSUME IhexTypeInv, DoFlush(Probed), UNCHANGED lines
             PROVE  IhexTypeInv'
  OBVIOUS
<1>1. TypeInv'
  BY DoFlushType DEF IhexTypeInv
<1>2. UNCHANGED rawVars
  BY Zenon DEF DoFlush
<1>3. RawInOrder'
  BY <1>2 DEF IhexTypeInv, RawInOrder, Consumed, RawCount, rawVars
<1>4. Probed \in FormatRecord
  BY ProbedType DEF IhexTypeInv
<1> HIDE DEF Probed
<1>5. IhexFormatOK'
  BY <1>4 DEF DoFlush, IhexTypeInv, IhexFormatOK
<1> QED
  BY <1>1, <1>3, <1>5 DEF IhexTypeInv

\* A file of another format only ends the upload.
LEMMA ProbeRefusesFrame ==
  ProbeRefuses =>
    /\ result = "CONTINUE" /\ result' = "OTHER_FORMAT" /\ pc = "flush"
    /\ UNCHANGED <<rawVars, decVars, tailVars, decoded_chunk_size, write_chunks,
                   flagVars, rx_timeout, pc, calling, enq, error, targetVars, lines>>
<1>1. ProbeRefuses => At("flush") /\ result' = "OTHER_FORMAT"
  BY Zenon DEF ProbeRefuses
<1>2. ProbeRefuses =>
        UNCHANGED <<rawVars, decVars, tailVars, decoded_chunk_size, write_chunks,
                    flagVars, rx_timeout, pc, calling, enq, error, targetVars, lines>>
  BY Zenon DEF ProbeRefuses
<1> QED
  BY ONLY <1>1, <1>2 DEF At

\* The raw ring only changes when the client appends.
LEMMA LayerKeepsRaw ==
  ASSUME TypeInv, RawInOrder, LoopStep \/ EnvironmentStep
  PROVE  RawInOrder' /\ Consumed' = Consumed
<1>1. CASE ClientAppends
  BY <1>1, ClientKeepsRaw
<1>2. CASE ~ClientAppends
  <2>1. LoopStep => UNCHANGED rawVars
    BY Zenon DEF LoopStep, LoopTop, OnIdle, HostIdle, WriteNothing, WriteErases,
                 WriteHandsOver, EnqueueForWriting
  <2>2. EnvironmentStep => UNCHANGED rawVars
    BY <1>2, Zenon DEF EnvironmentStep, FlushStart, ChunkAvailableOk, ChunkAvailableFails,
                 ChunkDone, ChunkFails, BetweenCommands, EraseEnds
  <2>3. UNCHANGED rawVars
    BY <2>1, <2>2
  <2> QED
    BY <2>3 DEF RawInOrder, Consumed, RawCount, rawVars
<1> QED
  BY <1>1, <1>2

\* The types are inductive.
LEMMA IhexTypeInductive == IhexTypeInv /\ [IhexNext]_ihexVars => IhexTypeInv'
<1> SUFFICES ASSUME IhexTypeInv, [IhexNext]_ihexVars
             PROVE  IhexTypeInv'
  OBVIOUS
<1>1. CASE (LoopStep \/ EnvironmentStep) /\ UNCHANGED lines
  <2>1. TypeInv' /\ RawInOrder' /\ lines' \in Files
    BY <1>1, LayerStepType, LayerKeepsRaw DEF IhexTypeInv
  <2>2. IhexFormatOK'
    BY <1>1, LayerKeepsFormat DEF IhexTypeInv, IhexFormatOK
  <2> QED
    BY <2>1, <2>2 DEF IhexTypeInv
<1>2. CASE DoFlush(Probed) /\ UNCHANGED lines
  BY <1>2, FlushesIhexType
<1>3. CASE DecodeIhex
  BY <1>3, DecodeIhexType
<1>4. CASE RxTimeout(IhexStuck) /\ UNCHANGED lines
  <2>1. TypeInv'
    BY <1>4, RxTimeoutType DEF IhexTypeInv
  <2>2. UNCHANGED <<rawVars, format_ops, format_data, pc>>
    BY <1>4, RxTimeoutKeepsFormat, Zenon DEF RxTimeout
  <2>3. RawInOrder' /\ IhexFormatOK'
    BY <2>2 DEF IhexTypeInv, RawInOrder, Consumed, RawCount, rawVars, IhexFormatOK
  <2> QED
    BY <1>4, <2>1, <2>3 DEF IhexTypeInv
<1>5. CASE UNCHANGED ihexVars
  <2>1. UNCHANGED vars /\ UNCHANGED lines
    BY <1>5 DEF ihexVars
  <2>2. TypeInv'
    BY <2>1, FramedTypes DEF IhexTypeInv, TypeInv, TypeOK, vars, decVars, flagVars
  <2>3. RawInOrder' /\ IhexFormatOK'
    BY <2>1 DEF IhexTypeInv, RawInOrder, Consumed, RawCount, IhexFormatOK, vars, rawVars,
                decVars, flagVars
  <2> QED
    BY <2>1, <2>2, <2>3 DEF IhexTypeInv
<1>6. CASE ProbeRefuses
  <2>1. UNCHANGED <<rawVars, decVars, tailVars, decoded_chunk_size, write_chunks,
                    flagVars, rx_timeout, pc, calling, enq, error, targetVars, lines>>
        /\ result' = "OTHER_FORMAT"
    BY <1>6, ProbeRefusesFrame
  <2>2. LoopTypeOK'
    BY <2>1 DEF IhexTypeInv, TypeInv, TypeOK, LoopTypeOK
  <2>3. TypeInv'
    BY <2>1, <2>2, FramedTypes DEF IhexTypeInv, TypeInv, TypeOK, decVars
  <2>4. RawInOrder' /\ IhexFormatOK'
    BY <2>1 DEF IhexTypeInv, RawInOrder, Consumed, RawCount, IhexFormatOK, rawVars,
                decVars, flagVars
  <2> QED
    BY <2>1, <2>3, <2>4 DEF IhexTypeInv
<1> QED
  BY <1>1, <1>2, <1>3, <1>4, <1>5, <1>6
  DEF IhexNext, IhexGoesOn, EnvironmentActs, Flushes, IhexTimesOut, IhexTerminated

\* They hold at first.
LEMMA IhexTypeInit == IhexInit => IhexTypeInv
<1> SUFFICES ASSUME Init, lines \in Files
             PROVE  IhexTypeInv
  BY DEF IhexInit
<1>1. TypeInv
  BY InitType
<1>2. IhexFormatOK
  BY DEF Init, At, IhexFormatOK
<1>3. RawCount = 0 /\ Mask(0, RawSize) = 0
  BY Sizes DEF Init, RawCount, RingCount, Mask
<1>4. RawInOrder
  BY <1>3, ClientKind DEF Init, RawInOrder, Consumed
<1> QED
  BY <1>1, <1>2, <1>4 DEF IhexTypeInv

\* An upload of an Intel HEX file keeps every index in its ring, every chunk no
\* longer than the target takes and the pool of chunks within its size, for every
\* file, every size of the buffers and every order of the events.
THEOREM IhexTypeCorrect == IhexSpec => []TypeOK
<1>1. IhexTypeInv => TypeOK
  BY DEF IhexTypeInv, TypeInv
<1> QED
  BY <1>1, IhexTypeInit, IhexTypeInductive, PTL DEF IhexSpec

-----------------------------------------------------------------------------
(* Intel HEX: flash holds what the file says.  The chunks, the bytes to be *)
(* enqueued and those decoded so far hold the bytes of the file for their  *)
(* addresses, and nothing in the decoded ring lies between them.  That is  *)
(* inductive as long as the code forgets nothing there (Forgets).          *)

\* The bytes of the file, in whatever slot.
FileRight == {<<a, s, a>> : a \in FileBytes, s \in DecSlot}

\* What this call of decode_chunk() has put in the decoded ring.
IhexRun == IF pc = "decode" THEN format_data.len ELSE 0

\* curr_addr is the address of the last base record that was read, and the
\* locals are those of a call that begins or has decoded something.
FormatInv ==
  IF ~format_ops THEN Consumed = 0
  ELSE /\ format_data.base = BaseOf(CurLine)
       /\ format_data.started <=> format_data.len > 0
       /\ pc # "decode" => ~format_data.started

\* There is no line of the type between lines i and j.
NoneOf(type, i, j) == \A m \in i + 1 .. j - 1 : lines[m].type # type

\* The address after the last byte of line j.
EndOf(j) == BaseOf(j) + lines[j].addr + lines[j].count

\* What has been decoded ends with data line j, the last one that was read, and
\* next_addr is the address after it, unless a base record has overwritten it.
RunEnds ==
  pc = "decode" /\ format_data.started =>
    \E j \in 1 .. CurLine - 1 :
      /\ lines[j].type = "data" /\ NoneOf("data", j, CurLine)
      /\ format_data.first + format_data.len = EndOf(j)
      /\ format_data.next = IF NoneOf("base", j, CurLine) THEN EndOf(j) ELSE BaseOf(CurLine)

\* What has been decoded is good for its addresses.
RunGood == pc = "decode" => GoodFrom(FileRight, format_data.first, write_tail, format_data.len)

\* What is true until the upload has failed.
IhexLive ==
  /\ HeldGood(FileRight)
  /\ HeadAfter(IhexRun) /\ Offset(write_tail) + IhexRun <= DecCount
  /\ RunEnds /\ RunGood

\* The inductive invariant of FlashHoldsFile.
IhexInv ==
  /\ IhexTypeInv /\ TilingInv /\ FormatInv /\ FlashGood(FileRight)
  /\ result # "ERROR" => IhexLive

\* A base record sets next_addr too (ihex_decode_chunk()): a data line at offset 0
\* right after it passes for the continuation of the line before.  The files are
\* those in which it is one, or whose next line after a base is not at offset 0.
BasesApart ==
  \A k \in 1 .. Len(lines) : \A j \in 1 .. k - 1 :
    /\ lines[j].type = "data" /\ lines[k].type = "data"
    /\ NoneOf("data", j, k) /\ ~NoneOf("base", j, k)
    => lines[k].addr # 0 \/ BaseOf(k) = EndOf(j)

\* decode_chunk() returns 0 or an error in a nested loop after it put bytes in the
\* decoded ring: they stay there and no chunk has them.
DecodedLost ==
  /\ At("decode") /\ format_data.len > 0
  /\ pc' \notin {"decode", "enqueue"} /\ result' = "CONTINUE"

\* The steps that leave bytes in the decoded ring that no chunk will ever have.
Forgets == DecodedLost \/ RefusedInside

\* What the file says does not change.
LEMMA FileKept ==
  ASSUME UNCHANGED lines
  PROVE  /\ \A i : BaseOf(i)' = BaseOf(i)
         /\ \A i : EndOf(i)' = EndOf(i)
         /\ \A i : BytesOf(i)' = BytesOf(i)
         /\ \A type, i, j : NoneOf(type, i, j)' <=> NoneOf(type, i, j)
         /\ FileBytes' = FileBytes /\ FileRight' = FileRight
         /\ BasesApart' <=> BasesApart
<1>1. \A i : BaseOf(i)' = BaseOf(i)
  BY DEF BaseOf
<1>2. \A i : EndOf(i)' = EndOf(i)
  BY <1>1 DEF EndOf
<1>3. \A i : BytesOf(i)' = BytesOf(i)
  BY <1>1 DEF BytesOf
<1>4. \A type, i, j : NoneOf(type, i, j)' <=> NoneOf(type, i, j)
  BY DEF NoneOf
<1>5. FileBytes' = FileBytes
  BY <1>3 DEF FileBytes
<1>6. FileRight' = FileRight
  BY <1>5 DEF FileRight
<1>7. BasesApart' <=> BasesApart
  BY <1>1, <1>2, <1>4 DEF BasesApart
<1> QED
  BY <1>1, <1>2, <1>3, <1>4, <1>5, <1>6, <1>7

\* The base after a line.
LEMMA BaseStep ==
  ASSUME NEW j \in Nat \ {0}
  PROVE  BaseOf(j + 1) = IF lines[j].type = "base" THEN lines[j].addr ELSE BaseOf(j)
<1> DEFINE B(i) == {n \in 1 .. i - 1 : lines[n].type = "base"}
<1>1. CASE lines[j].type = "base"
  <2>1. j \in B(j + 1) /\ \A n \in B(j + 1) : n <= j /\ n \in Int
    BY <1>1
  <2>2. (CHOOSE n \in B(j + 1) : \A m \in B(j + 1) : m <= n) = j
    <3> DEFINE c == CHOOSE n \in B(j + 1) : \A m \in B(j + 1) : m <= n
    <3>1. c \in B(j + 1) /\ \A m \in B(j + 1) : m <= c
      BY <2>1
    <3> HIDE DEF c, B
    <3>2. c = j
      BY <2>1, <3>1
    <3> QED
      BY <3>2 DEF c
  <2>3. B(j + 1) # {}
    BY <2>1
  <2>4. BaseOf(j + 1) = lines[j].addr
    BY <2>2, <2>3 DEF BaseOf
  <2> QED
    BY <1>1, <2>4
<1>2. CASE lines[j].type # "base"
  <2>1. B(j + 1) = B(j)
    BY <1>2
  <2>2. BaseOf(j + 1) = BaseOf(j)
    <3> DEFINE V(S) == IF S = {} THEN 0
                       ELSE lines[CHOOSE n \in S : \A m \in S : m <= n].addr
    <3>1. BaseOf(j) = V(B(j)) /\ BaseOf(j + 1) = V(B(j + 1))
      BY Zenon DEF BaseOf
    <3> HIDE DEF V, B
    <3> QED
      BY <2>1, <3>1
  <2> QED
    BY <1>2, <2>2
<1> QED
  BY <1>1, <1>2

\* No base record comes before the first line.
LEMMA BaseFirst == BaseOf(1) = 0
BY DEF BaseOf

\* Slots in use are not the next free ones.
LEMMA FreeSlots ==
  ASSUME NEW size \in Nat \ {0}, NEW h \in 0 .. size - 1, NEW t \in 0 .. size - 1,
         NEW s \in 0 .. size - 1, NEW n \in Nat,
         RingCount(s, t, size) < RingCount(h, t, size), n <= RingSpace(h, t, size)
  PROVE  ~(RingCount(s, h, size) < n)
<1>1. /\ RingCount(s, t, size) = IF t <= s THEN s - t ELSE s - t + size
      /\ RingCount(h, t, size) = IF t <= h THEN h - t ELSE h - t + size
      /\ RingCount(s, h, size) = IF h <= s THEN s - h ELSE s - h + size
  BY CountIsDistance
<1>2. /\ RingCount(h, t, size) + RingSpace(h, t, size) = size - 1
      /\ RingSpace(h, t, size) \in Nat
  BY CountPlusSpace
<1> QED
  BY <1>1, <1>2

\* A slot m after slot i, when the ring has room for that.
LEMMA SlotAfter ==
  ASSUME NEW size \in Nat \ {0}, NEW i \in 0 .. size - 1, NEW m \in 0 .. size - 1
  PROVE  RingCount(Mask(i + m, size), i, size) = m
<1>1. RingCount(i, i, size) = 0
  BY CountIsDistance
<1> QED
  BY <1>1, CountAfterFilling

\* The tiling stands when only the head of the decoded ring moves on.
LEMMA TiledMoved ==
  ASSUME Tiled, UNCHANGED <<decoded_tail, write_tail, write_chunks>>,
         Offset(write_tail) + Left' <= DecCount'
  PROVE  Tiled'
<1>1. Offset(write_tail)' = Offset(write_tail)
  BY DEF Offset
<1>2. \A i, j : EndsBy(write_chunks[i], Offset(write_chunks[j].start))
                  => EndsBy(write_chunks[i], Offset(write_chunks[j].start))'
  BY DEF EndsBy, Offset
<1>3. \A i : EndsBy(write_chunks[i], Offset(write_tail))
               => EndsBy(write_chunks[i], Offset(write_tail))'
  BY <1>1 DEF EndsBy, Offset
<1> QED
  BY <1>1, <1>2, <1>3 DEF Tiled, Abut, ChunkEnd, LastChunk

\* What is in use keeps its contents.
Untouched(n) ==
  \A s \in DecSlot : RingCount(s, decoded_head, DecodedSize) >= n => decoded_buf'[s] = decoded_buf[s]

\* Bytes in use are good after bytes were decoded to free slots.
LEMMA RunUntouched ==
  ASSUME NEW R, TypeInv, NEW c \in Nat, c <= DecSpace, Untouched(c),
         NEW a, NEW i \in DecSlot, NEW n \in Nat,
         Offset(i) + n <= DecCount, GoodFrom(R, a, i, n)
  PROVE  GoodFrom(R, a, i, n)'
<1> SUFFICES ASSUME NEW k \in 0 .. n - 1
             PROVE  Good(R, a + k, i + k)'
  BY DEF GoodFrom
<1> DEFINE s == Mask(i + k, DecodedSize)
<1>1. /\ decoded_head \in 0 .. DecodedSize - 1 /\ decoded_tail \in 0 .. DecodedSize - 1
      /\ i \in 0 .. DecodedSize - 1
      /\ Offset(i) \in Nat /\ DecCount \in 0 .. DecodedSize - 1 /\ DecCount = Offset(decoded_head)
  BY Offsets, Sizes DEF DecSlot
<1>2. k \in Nat /\ Offset(i) + k < DecCount
  BY <1>1
<1>3. Offset(i) + k <= DecodedSize - 1
  BY <1>1, <1>2, Sizes
<1>4. RingCount(s, decoded_tail, DecodedSize) = Offset(i) + k
  BY <1>1, <1>2, <1>3, Sizes, CountAfterFilling DEF Offset
<1>5. s \in 0 .. DecodedSize - 1
  <2>1. i + k \in Int
    BY <1>1, <1>2
  <2> QED
    BY <2>1, Sizes, MaskInRing
<1> HIDE DEF s
<1>6. RingCount(s, decoded_tail, DecodedSize) < RingCount(decoded_head, decoded_tail, DecodedSize)
  BY <1>1, <1>2, <1>4 DEF DecCount
<1>7. ~(RingCount(s, decoded_head, DecodedSize) < c)
  BY <1>1, <1>5, <1>6, Sizes, FreeSlots DEF DecSpace
<1>8. RingCount(s, decoded_head, DecodedSize) \in Int
  BY <1>1, <1>5, Sizes, CountIsDistance
<1>9. decoded_buf'[s] = decoded_buf[s]
  BY <1>5, <1>7, <1>8, Sizes DEF Untouched, DecSlot
<1>10. Good(R, a + k, i + k)
  BY DEF GoodFrom
<1> QED
  BY <1>9, <1>10 DEF Good, s

\* Decoding leaves what was decoded before alone.
LEMMA HeldAfterDecode ==
  ASSUME NEW R, TypeInv, HeldGood(R), Tiled, NEW c \in Nat, c <= DecSpace, Untouched(c),
         UNCHANGED <<write_chunks, owned>>, pc' # "enqueue"
  PROVE  HeldGood(R)'
<1>1. EnqGood(R)' /\ OwnedPart'
  BY DEF EnqGood, HeldGood, OwnedPart
<1>2. ASSUME NEW i \in 1 .. Len(write_chunks)
      PROVE  GoodFrom(R, write_chunks[i].addr, write_chunks[i].start, write_chunks[i].len)'
  <2> DEFINE a == write_chunks[i].addr
             s == write_chunks[i].start
             n == write_chunks[i].len
  <2>1. /\ s \in DecSlot /\ n \in Nat /\ Offset(s) \in Int
        /\ Offset(write_tail) \in Int /\ DecCount \in Int /\ Left \in Nat
    BY Offsets, QueueFields
  <2>2. Offset(s) + n <= Offset(write_tail) /\ Offset(write_tail) + Left <= DecCount
    BY DEF Tiled, EndsBy
  <2>3. Offset(s) + n <= DecCount
    <3> HIDE DEF s, n
    <3> QED
      BY <2>1, <2>2
  <2>4. GoodFrom(R, a, s, n)
    BY DEF HeldGood, QueueGood
  <2> HIDE DEF a, s, n
  <2>7. UNCHANGED <<a, s, n>>
    BY DEF a, s, n
  <2>5. \A k \in 0 .. n - 1 : Good(R, a + k, s + k)'
    <3>1. PICK aa, ss, nn : aa = a /\ ss = s /\ nn = n
      OBVIOUS
    <3>2. GoodFrom(R, aa, ss, nn)'
      BY <2>1, <2>3, <2>4, <3>1, RunUntouched
    <3> QED
      BY <2>7, <3>1, <3>2 DEF GoodFrom, Good
  <2>6. GoodFrom(R, a, s, n)'
    BY <2>5, <2>7 DEF GoodFrom
  <2> QED
    BY <2>6 DEF a, s, n
<1>3. QueueGood(R)'
  BY <1>2 DEF QueueGood
<1> QED
  BY <1>1, <1>3 DEF HeldGood

\* What the steps of decode_chunk() that return n bytes, or none, leave behind.
LEMMA LiveReturns ==
  ASSUME IhexTypeInv, FormatInv, Tiled, IhexLive, pc = "decode",
         UNCHANGED <<decoded_tail, decoded_head, write_tail, write_chunks, owned, decoded_buf,
                     lines>>,
         pc' # "decode", Left' = format_data.len,
         pc' = "enqueue" => enq'.addr = format_data.first /\ enq'.len = format_data.len
  PROVE  Tiled' /\ IhexLive'
<1>1. IhexRun = format_data.len /\ Left = 0 /\ IhexRun' = 0
  BY DEF IhexRun, Left
<1>2. /\ HeadAfter(format_data.len) /\ Offset(write_tail) + format_data.len <= DecCount
      /\ GoodFrom(FileRight, format_data.first, write_tail, format_data.len)
  BY <1>1 DEF IhexLive, RunGood
<1>3. format_data.len \in Nat /\ write_tail \in Nat
  BY Sizes DEF IhexTypeInv, IhexFormatOK, FormatRecord, TypeInv, TypeOK, DecodedTypeOK, DecSlot
<1>4. DecCount' = DecCount /\ Offset(write_tail)' = Offset(write_tail)
  BY DEF DecCount, Offset
<1>5. Tiled'
  BY <1>2, <1>4, TiledMoved
<1>6. HeadAfter(0)'
  <2>1. write_tail + 0 + format_data.len = write_tail + format_data.len + 0
    BY <1>3
  <2> QED
    BY <1>1, <1>2, <2>1 DEF HeadAfter
<1>7. FileRight' = FileRight
  BY FileKept
<1>8. PICK R : R = FileRight
  OBVIOUS
<1>9. HeldGood(R)'
  <2>1. HeldGood(R) /\ GoodFrom(R, format_data.first, write_tail, format_data.len)
    BY <1>2, <1>8 DEF IhexLive
  <2>2. EnqGood(R)'
    BY <2>1 DEF EnqGood, GoodFrom, Good
  <2>3. QueueGood(R)' /\ OwnedPart'
    BY <2>1 DEF HeldGood, QueueGood, OwnedPart, GoodFrom, Good
  <2> QED
    BY <2>2, <2>3 DEF HeldGood
<1>10. HeldGood(FileRight)'
  BY <1>7, <1>8, <1>9
<1>11. Offset(write_tail)' + 0 <= DecCount'
  <2>1. Offset(write_tail) \in Int /\ DecCount \in Int
    BY Offsets DEF IhexTypeInv
  <2> QED
    BY <1>2, <1>3, <1>4, <2>1
<1>12. RunEnds' /\ RunGood'
  BY DEF RunEnds, RunGood
<1> QED
  BY <1>1, <1>5, <1>6, <1>10, <1>11, <1>12 DEF IhexLive

\* A line that is not data goes by.
LEMMA LivePasses ==
  ASSUME IhexTypeInv, FormatInv, Tiled, IhexLive, pc = "decode", pc' = "decode",
         UNCHANGED <<decoded_tail, decoded_head, write_tail, write_chunks, owned, decoded_buf,
                     enq, lines>>,
         format_data'.len = format_data.len, format_data'.first = format_data.first,
         format_data'.started = format_data.started,
         CurLine \in 1 .. Len(lines), CurLine' = CurLine + 1,
         lines[CurLine].type # "data",
         format_data'.next = IF lines[CurLine].type = "base" THEN lines[CurLine].addr
                             ELSE format_data.next
  PROVE  Tiled' /\ IhexLive'
<1>0. TypeInv /\ CurLine \in Nat \ {0}
  BY DEF IhexTypeInv
<1>1. IhexRun' = IhexRun /\ Left' = Left /\ DecCount' = DecCount
      /\ Offset(write_tail)' = Offset(write_tail)
  BY DEF IhexRun, Left, DecCount, Offset
<1>2. Tiled'
  BY <1>1, TiledMoved DEF Tiled
<1>3. HeadAfter(IhexRun)' /\ (Offset(write_tail) + IhexRun <= DecCount)'
  BY <1>1 DEF IhexLive, HeadAfter
<1>4. FileRight' = FileRight
  BY FileKept
<1>5. PICK R : R = FileRight
  OBVIOUS
<1>6. HeldGood(R)' /\ GoodFrom(R, format_data.first, write_tail, format_data.len)'
  <2>1. HeldGood(R) /\ GoodFrom(R, format_data.first, write_tail, format_data.len)
    BY <1>5 DEF IhexLive, RunGood
  <2>2. EnqGood(R)'
    BY DEF EnqGood
  <2>3. QueueGood(R)' /\ OwnedPart'
    BY <2>1 DEF HeldGood, QueueGood, OwnedPart, GoodFrom, Good
  <2>4. GoodFrom(R, format_data.first, write_tail, format_data.len)'
    BY <2>1 DEF GoodFrom, Good
  <2> QED
    BY <2>2, <2>3, <2>4 DEF HeldGood
<1>7. HeldGood(FileRight)' /\ RunGood'
  BY <1>4, <1>5, <1>6 DEF RunGood
<1>8. RunEnds'
  <2> SUFFICES ASSUME format_data.started
               PROVE  RunEnds'
    BY DEF RunEnds
  <2>1. PICK j \in 1 .. CurLine - 1 :
          /\ lines[j].type = "data" /\ NoneOf("data", j, CurLine)
          /\ format_data.first + format_data.len = EndOf(j)
          /\ format_data.next = IF NoneOf("base", j, CurLine) THEN EndOf(j)
                                ELSE BaseOf(CurLine)
    BY DEF IhexLive, RunEnds
  <2>2. j \in 1 .. CurLine' - 1 /\ j < CurLine /\ j \in Nat
    BY <1>0, <2>1
  <2>3. /\ NoneOf("data", j, CurLine + 1)
        /\ NoneOf("base", j, CurLine + 1)
             <=> NoneOf("base", j, CurLine) /\ lines[CurLine].type # "base"
    BY <1>0, <2>1, <2>2 DEF NoneOf
  <2>4. BaseOf(CurLine + 1) = IF lines[CurLine].type = "base" THEN lines[CurLine].addr
                              ELSE BaseOf(CurLine)
    <3>1. CurLine \in Nat \ {0}
      BY <1>0
    <3> QED
      BY <3>1, BaseStep
  <2>5. format_data'.next = IF NoneOf("base", j, CurLine + 1) THEN EndOf(j)
                            ELSE BaseOf(CurLine + 1)
    BY <2>1, <2>3, <2>4
  <2>6. /\ lines'[j].type = "data" /\ NoneOf("data", j, CurLine)'
        /\ format_data'.first + format_data'.len = EndOf(j)'
        /\ format_data'.next = IF NoneOf("base", j, CurLine)' THEN EndOf(j)'
                               ELSE BaseOf(CurLine)'
    <3>1. /\ NoneOf("data", j, CurLine)' <=> NoneOf("data", j, CurLine + 1)
          /\ NoneOf("base", j, CurLine)' <=> NoneOf("base", j, CurLine + 1)
      BY DEF NoneOf
    <3>2. EndOf(j)' = EndOf(j)
      BY FileKept
    <3>3. BaseOf(CurLine)' = BaseOf(CurLine + 1)
      BY DEF BaseOf
    <3> QED
      BY <2>1, <2>3, <2>5, <3>1, <3>2, <3>3
  <2> QED
    BY <2>2, <2>6 DEF RunEnds
<1> QED
  BY <1>2, <1>3, <1>7, <1>8 DEF IhexLive

\* A data line: where its first byte goes.
LEMMA LineContinues ==
  ASSUME IhexTypeInv, FormatInv, IhexLive, BasesApart, pc = "decode",
         CurLine \in 1 .. Len(lines), lines[CurLine].type = "data", Line = lines[CurLine],
         Line \in LineRecord, format_data.started, ContinuesChunk
  PROVE  format_data.first + format_data.len = LineAddr
<1>1. PICK j \in 1 .. CurLine - 1 :
        /\ lines[j].type = "data" /\ NoneOf("data", j, CurLine)
        /\ format_data.first + format_data.len = EndOf(j)
        /\ format_data.next = IF NoneOf("base", j, CurLine) THEN EndOf(j)
                              ELSE BaseOf(CurLine)
  BY DEF IhexLive, RunEnds
<1>2. LineAddr = format_data.next /\ LineAddr = BaseOf(CurLine) + Line.addr
      /\ BaseOf(CurLine) \in Nat /\ Line.addr \in Nat
  BY DEF ContinuesChunk, LineAddr, FormatInv, IhexTypeInv, IhexFormatOK, FormatRecord, LineRecord
<1>3. CASE NoneOf("base", j, CurLine)
  BY <1>1, <1>2, <1>3
<1>4. CASE ~NoneOf("base", j, CurLine)
  <2>1. Line.addr = 0
    BY <1>1, <1>2, <1>4
  <2>2. lines[CurLine].addr # 0 \/ BaseOf(CurLine) = EndOf(j)
    BY <1>1, <1>4 DEF BasesApart
  <2>3. BaseOf(CurLine) = EndOf(j)
    BY <2>1, <2>2
  <2> QED
    BY <1>1, <1>2, <2>1, <2>3
<1> QED
  BY <1>3, <1>4

\* What DecodeData writes.
LEMMA LineWrites ==
  ASSUME IhexTypeInv, DecodeData
  PROVE  /\ Line.count \in Nat \ {0} /\ Line.count <= DecSpace /\ LineAddr \in Nat
         /\ Untouched(Line.count)
         /\ \A m \in 0 .. Line.count - 1 :
              decoded_buf'[Mask(decoded_head + m, DecodedSize)] = LineAddr + m
         /\ DecCount' = DecCount + Line.count
         /\ decoded_head' = Mask(decoded_head + Line.count, DecodedSize)
<1>1. /\ Line \in LineRecord /\ format_data \in FormatRecord
  BY LineRead DEF IhexTypeInv, IhexFormatOK, DecodeData, AtLine, At
<1>2. /\ Line.count \in Nat /\ LineAddr \in Nat
  BY <1>1 DEF LineRecord, FormatRecord, LineAddr
<1>3. /\ decoded_head \in 0 .. DecodedSize - 1 /\ decoded_tail \in 0 .. DecodedSize - 1
      /\ DecCount + DecSpace = DecodedSize - 1 /\ DecSpace \in Nat /\ DecCount \in Nat
  <2>1. decoded_head \in 0 .. DecodedSize - 1 /\ decoded_tail \in 0 .. DecodedSize - 1
    BY Offsets DEF IhexTypeInv, DecSlot
  <2> QED
    BY <2>1, Sizes, CountPlusSpace, CountIsDistance DEF DecCount, DecSpace
<1>4. /\ Line.count <= DecSpace /\ Line.count > 0
      /\ decoded_head' = Mask(decoded_head + Line.count, DecodedSize)
      /\ decoded_tail' = decoded_tail
  BY <1>2, <1>3 DEF DecodeData, DecodeUnchanged, tailVars
<1>5. decoded_buf' =
       [s \in DecSlot |->
          IF RingCount(s, decoded_head, DecodedSize) < Line.count
          THEN LineAddr + RingCount(s, decoded_head, DecodedSize) ELSE decoded_buf[s]]
  BY DEF DecodeData
<1>6. Untouched(Line.count)
  <2> SUFFICES ASSUME NEW s \in DecSlot, RingCount(s, decoded_head, DecodedSize) >= Line.count
               PROVE  decoded_buf'[s] = decoded_buf[s]
    BY DEF Untouched
  <2>1. s \in 0 .. DecodedSize - 1
    BY DEF DecSlot
  <2>2. RingCount(s, decoded_head, DecodedSize) \in 0 .. DecodedSize - 1
    BY <1>3, <2>1, Sizes, CountIsDistance
  <2>3. ~(RingCount(s, decoded_head, DecodedSize) < Line.count)
    BY <1>2, <2>2, Sizes
  <2> QED
    BY <1>5, <2>3
<1>7. ASSUME NEW m \in 0 .. Line.count - 1
      PROVE  decoded_buf'[Mask(decoded_head + m, DecodedSize)] = LineAddr + m
  <2>1. m \in 0 .. DecodedSize - 1
    BY <1>2, <1>3, <1>4, Sizes
  <2>2. RingCount(Mask(decoded_head + m, DecodedSize), decoded_head, DecodedSize) = m
    BY <1>3, <2>1, Sizes, SlotAfter
  <2>3. Mask(decoded_head + m, DecodedSize) \in DecSlot
    <3>1. decoded_head + m \in Int
      BY <1>3, <2>1
    <3> QED
      BY <3>1, Sizes, MaskInRing DEF DecSlot
  <2>4. m < Line.count
    BY <1>2
  <2> QED
    BY <1>5, <2>2, <2>3, <2>4
<1>8. DecCount' = DecCount + Line.count
  <2>1. DecCount + Line.count <= DecodedSize - 1
    BY <1>2, <1>3, <1>4, Sizes
  <2> QED
    BY <1>2, <1>3, <1>4, <2>1, Sizes, CountAfterFilling DEF DecCount
<1> QED
  BY <1>2, <1>4, <1>6, <1>7, <1>8

\* The bytes of a line that continues those decoded before.
LEMMA RunGrows ==
  ASSUME NEW R, IhexTypeInv, GoodFrom(R, format_data.first, write_tail, format_data.len),
         HeadAfter(format_data.len), Left = 0,
         Offset(write_tail) + format_data.len <= DecCount,
         DecodeData, NEW f \in Nat, f + format_data.len = LineAddr,
         f = format_data.first \/ format_data.len = 0,
         \A m \in 0 .. Line.count - 1 :
           \A s \in DecSlot : <<LineAddr + m, s, LineAddr + m>> \in R
  PROVE  \A k \in 0 .. format_data.len + Line.count - 1 : Good(R, f + k, write_tail + k)'
<1>1. /\ Line.count \in Nat \ {0} /\ Line.count <= DecSpace /\ LineAddr \in Nat
      /\ Untouched(Line.count)
      /\ \A m \in 0 .. Line.count - 1 :
           decoded_buf'[Mask(decoded_head + m, DecodedSize)] = LineAddr + m
  BY LineWrites
<1>2. /\ format_data.len \in Nat /\ write_tail \in 0 .. DecodedSize - 1
      /\ write_tail \in DecSlot /\ TypeInv
  <2>1. format_data \in FormatRecord
    BY DEF IhexTypeInv, IhexFormatOK, DecodeData, AtLine, At
  <2> QED
    BY <2>1, Offsets DEF IhexTypeInv, FormatRecord, DecSlot
<1>3. UNCHANGED write_tail
  BY DEF DecodeData, DecodeUnchanged, tailVars
<1> SUFFICES ASSUME NEW k \in 0 .. format_data.len + Line.count - 1
             PROVE  <<f + k, Mask(write_tail + k, DecodedSize),
                      decoded_buf'[Mask(write_tail + k, DecodedSize)]>> \in R
  BY <1>3 DEF Good
<1>4. CASE k < format_data.len
  <2>1. k \in 0 .. format_data.len - 1 /\ f = format_data.first
    BY <1>2, <1>4
  <2>2. PICK a, i, n : a = format_data.first /\ i = write_tail /\ n = format_data.len
    OBVIOUS
  <2>3. GoodFrom(R, a, i, n)'
    BY <1>1, <1>2, <2>2, RunUntouched
  <2>4. Good(R, a + k, i + k)'
    BY <2>1, <2>2, <2>3 DEF GoodFrom
  <2> QED
    BY <2>1, <2>2, <2>4 DEF Good
<1>5. CASE format_data.len <= k
  <2> DEFINE m == k - format_data.len
  <2>1. m \in 0 .. Line.count - 1 /\ f + k = LineAddr + m /\ m \in Nat
        /\ write_tail + format_data.len \in Nat
        /\ write_tail + format_data.len + m = write_tail + k
    BY <1>1, <1>2, <1>5, Sizes
  <2> HIDE DEF m
  <2>2. decoded_head = Mask(write_tail + format_data.len, DecodedSize)
    <3>1. write_tail + 0 + format_data.len = write_tail + format_data.len
      BY <1>2, Sizes
    <3>2. decoded_head = Mask(write_tail + Left + format_data.len, DecodedSize)
      BY DEF HeadAfter
    <3>3. decoded_head = Mask(write_tail + 0 + format_data.len, DecodedSize)
      BY <3>2
    <3> QED
      BY <3>1, <3>3
  <2>3. Mask(decoded_head + m, DecodedSize) = Mask(write_tail + k, DecodedSize)
    <3>1. Mask(Mask(write_tail + format_data.len, DecodedSize) + m, DecodedSize)
            = Mask(write_tail + format_data.len + m, DecodedSize)
      BY ONLY <2>1, Sizes, MaskSlides
    <3> QED
      BY ONLY <2>1, <2>2, <3>1
  <2>4. decoded_buf'[Mask(write_tail + k, DecodedSize)] = LineAddr + m
    BY <1>1, <2>1, <2>3
  <2>5. Mask(write_tail + k, DecodedSize) \in DecSlot
    <3>1. write_tail + k \in Int
      BY <1>2
    <3> QED
      BY <3>1, Sizes, MaskInRing DEF DecSlot
  <2> QED
    BY <2>1, <2>4, <2>5
<1> QED
  BY <1>2, <1>4, <1>5

\* A data line that is decoded.
LEMMA LiveDecodes ==
  ASSUME IhexTypeInv, FormatInv, Tiled, IhexLive, BasesApart, DecodeData
  PROVE  Tiled' /\ IhexLive'
<1>0. /\ pc = "decode" /\ pc' = "decode" /\ TypeInv /\ format_ops
      /\ UNCHANGED <<decoded_tail, write_tail, write_chunks, owned, lines, enq>>
  BY DecodeIhexFrame DEF DecodeIhex, DecodeData, IhexTypeInv, IhexFormatOK
<1>1. /\ Line.count \in Nat \ {0} /\ Line.count <= DecSpace /\ LineAddr \in Nat
      /\ Untouched(Line.count)
      /\ DecCount' = DecCount + Line.count
      /\ decoded_head' = Mask(decoded_head + Line.count, DecodedSize)
  BY LineWrites
<1>2. /\ CurLine \in 1 .. Len(lines) /\ Line = lines[CurLine] /\ Line \in LineRecord
      /\ lines[CurLine].type = "data" /\ CurLine' = CurLine + 1 /\ CurLine \in Nat \ {0}
  <2>1. WholeLine /\ Line.type = "data" /\ GoOn(ToHeader + 2)
        /\ UNCHANGED <<buf, head, tot_appended>>
    BY DEF DecodeData, AtLine, DecodeUnchanged
  <2>2. CurLine \in 1 .. Len(lines) /\ Line = lines[CurLine] /\ Line \in LineRecord
    BY <2>1, LineRead DEF IhexTypeInv
  <2>3. CurLine' = CurLine + 1
    BY <2>1, LineDone DEF IhexTypeInv
  <2> QED
    BY <2>1, <2>2, <2>3
<1>3. /\ format_data \in FormatRecord
      /\ format_data.len \in Nat /\ format_data.first \in Nat
      /\ (format_data.started <=> format_data.len > 0)
  BY <1>0 DEF IhexTypeInv, IhexFormatOK, FormatInv, FormatRecord
<1>4. /\ format_data'.started = TRUE
      /\ format_data'.len = format_data.len + Line.count
      /\ format_data'.first = IF format_data.started THEN format_data.first ELSE LineAddr
      /\ format_data'.next = LineAddr + Line.count
  BY <1>3 DEF DecodeData, FormatRecord
<1>5. IhexRun = format_data.len /\ Left = 0 /\ Left' = 0
      /\ IhexRun' = format_data.len + Line.count
  BY <1>0, <1>4 DEF IhexRun, Left
<1>6. /\ Offset(write_tail) \in Int /\ DecCount \in Int /\ write_tail \in Nat
      /\ Offset(write_tail)' = Offset(write_tail)
      /\ HeadAfter(format_data.len) /\ Offset(write_tail) + format_data.len <= DecCount
  BY <1>0, <1>5, Offsets, Sizes DEF Offset, IhexLive, DecSlot
<1>7. Tiled'
  <2>1. Offset(write_tail) + Left' <= DecCount'
    BY <1>1, <1>3, <1>5, <1>6
  <2> QED
    BY <1>0, <2>1, TiledMoved
<1>8. HeadAfter(IhexRun)' /\ (Offset(write_tail) + IhexRun <= DecCount)'
  <2>1. (Offset(write_tail) + IhexRun <= DecCount)'
    BY <1>1, <1>3, <1>5, <1>6
  <2>2. Mask(Mask(write_tail + format_data.len, DecodedSize) + Line.count, DecodedSize)
          = Mask(write_tail + format_data.len + Line.count, DecodedSize)
    <3>1. write_tail + format_data.len \in Nat
      BY <1>3, <1>6
    <3> QED
      BY <1>1, <3>1, Sizes, MaskSlides
  <2>3. /\ write_tail + Left + format_data.len = write_tail + format_data.len
        /\ write_tail' + Left' + IhexRun' = write_tail + format_data.len + Line.count
    BY <1>0, <1>1, <1>3, <1>5, <1>6
  <2> QED
    BY <1>1, <1>6, <2>1, <2>2, <2>3 DEF HeadAfter
<1>9. /\ format_data'.first \in Nat
      /\ format_data'.first + format_data.len = LineAddr
      /\ format_data'.first = format_data.first \/ format_data.len = 0
  <2>1. CASE format_data.started
    <3>1. format_data.first + format_data.len = LineAddr
      BY <1>0, <1>2, <2>1, LineContinues DEF DecodeData
    <3> QED
      BY <1>3, <1>4, <2>1, <3>1
  <2>2. CASE ~format_data.started
    BY <1>1, <1>3, <1>4, <2>2
  <2> QED
    BY <2>1, <2>2
<1>10. LineAddr = BaseOf(CurLine) + lines[CurLine].addr
       /\ LineAddr + Line.count = EndOf(CurLine) /\ Line.count = lines[CurLine].count
  BY <1>0, <1>2 DEF LineAddr, FormatInv, EndOf
<1>11. RunEnds'
  <2>1. CurLine \in 1 .. CurLine' - 1
    BY <1>2
  <2>2. /\ lines'[CurLine].type = "data"
        /\ \A type : NoneOf(type, CurLine, CurLine + 1)
    BY <1>0, <1>2 DEF NoneOf
  <2>3. format_data'.first + format_data'.len = EndOf(CurLine)
    BY <1>1, <1>3, <1>4, <1>9, <1>10
  <2>4. PICK j : j = CurLine
    OBVIOUS
  <2>5. /\ lines'[j].type = "data" /\ NoneOf("data", j, CurLine)'
        /\ NoneOf("base", j, CurLine)' /\ EndOf(j)' = EndOf(CurLine)
    <3>1. \A type : NoneOf(type, j, CurLine)' <=> NoneOf(type, j, CurLine + 1)
      BY <1>0, <1>2 DEF NoneOf
    <3>2. EndOf(j)' = EndOf(j)
      BY <1>0, FileKept
    <3> QED
      BY <2>2, <2>4, <3>1, <3>2
  <2>6. /\ format_data'.first + format_data'.len = EndOf(j)'
        /\ format_data'.next = EndOf(j)'
    BY <1>4, <1>10, <2>3, <2>5
  <2> QED
    BY <2>1, <2>4, <2>5, <2>6 DEF RunEnds
<1>12. FileRight' = FileRight
  BY <1>0, FileKept
<1>13. PICK R : R = FileRight
  OBVIOUS
<1>14. \A m \in 0 .. Line.count - 1 :
         \A s \in DecSlot : <<LineAddr + m, s, LineAddr + m>> \in R
  <2> SUFFICES ASSUME NEW m \in 0 .. Line.count - 1
               PROVE  LineAddr + m \in FileBytes
    BY <1>13 DEF FileRight
  <2>1. BytesOf(CurLine) = LineAddr .. LineAddr + Line.count - 1
    BY <1>2, <1>10 DEF BytesOf
  <2>2. LineAddr + m \in BytesOf(CurLine)
    BY <1>1, <2>1
  <2>3. BytesOf(CurLine) \in {BytesOf(i) : i \in 1 .. Len(lines)}
    BY <1>2
  <2> QED
    BY <2>2, <2>3, Zenon DEF FileBytes
<1>15. GoodFrom(R, format_data.first, write_tail, format_data.len)'
  <2>1. GoodFrom(R, format_data.first, write_tail, format_data.len)
    BY <1>0, <1>13 DEF IhexLive, RunGood
  <2>2. PICK f : f = format_data'.first
    OBVIOUS
  <2>3. \A k \in 0 .. format_data.len + Line.count - 1 : Good(R, f + k, write_tail + k)'
    BY <1>5, <1>6, <1>9, <1>14, <2>1, <2>2, RunGrows
  <2>4. format_data'.len = format_data.len + Line.count
    BY <1>4
  <2>5. \A k \in 0 .. format_data.len + Line.count - 1 :
          Good(R, format_data.first + k, write_tail + k)'
    BY <2>2, <2>3 DEF Good
  <2>6. (\A k \in 0 .. format_data.len - 1 : Good(R, format_data.first + k, write_tail + k))'
    BY <1>1, <1>3, <2>4, <2>5
  <2> QED
    BY <2>6 DEF GoodFrom
<1>16. HeldGood(R)'
  <2>1. HeldGood(R) /\ Line.count \in Nat /\ pc' # "enqueue"
    BY <1>0, <1>1, <1>13 DEF IhexLive
  <2>2. PICK c : c = Line.count
    OBVIOUS
  <2>3. c \in Nat /\ c <= DecSpace /\ Untouched(c)
    BY <1>1, <2>1, <2>2
  <2> QED
    BY <1>0, <2>1, <2>3, HeldAfterDecode
<1>17. HeldGood(FileRight)' /\ RunGood'
  BY <1>12, <1>13, <1>15, <1>16 DEF RunGood
<1> QED
  BY <1>7, <1>8, <1>11, <1>17 DEF IhexLive

\* A data, eof, base or start line: what decode_chunk() does with the format's
\* private data.
LEMMA FormatPasses ==
  ASSUME IhexTypeInv, FormatInv, DecodeIhex,
         CurLine \in 1 .. Len(lines), CurLine' = CurLine + 1, Consumed' # 0,
         format_data'.started <=> format_data'.len > 0,
         format_data'.base = IF lines[CurLine].type = "base" THEN lines[CurLine].addr
                             ELSE format_data.base,
         pc' # "decode" => ~format_data'.started
  PROVE  FormatInv'
<1>1. format_ops /\ format_ops' /\ UNCHANGED lines
  BY DecodeIhexFrame DEF IhexTypeInv, IhexFormatOK
<1>2. CurLine \in Nat \ {0}
  BY DEF IhexTypeInv
<1>3. BaseOf(CurLine)' = BaseOf(CurLine + 1)
  BY <1>1 DEF BaseOf
<1>4. format_data'.base = BaseOf(CurLine)'
  BY <1>1, <1>2, <1>3, BaseStep DEF FormatInv
<1> QED
  BY <1>1, <1>4 DEF FormatInv

\* A step of decode_chunk() that stays at its line.
LEMMA FormatStays ==
  ASSUME IhexTypeInv, FormatInv, DecodeIhex, UNCHANGED tail,
         format_data'.started <=> format_data'.len > 0,
         format_data'.base = format_data.base,
         pc' # "decode" => ~format_data'.started
  PROVE  FormatInv'
<1>1. format_ops /\ format_ops' /\ UNCHANGED <<lines, buf, head, tot_appended>>
  BY DecodeIhexFrame DEF IhexTypeInv, IhexFormatOK
<1>2. CurLine' = CurLine
  BY <1>1 DEF CurLine, Consumed, RawCount
<1>3. BaseOf(CurLine)' = BaseOf(CurLine)
  BY <1>1, <1>2 DEF BaseOf
<1> QED
  BY <1>1, <1>3 DEF FormatInv

\* One step of decode_chunk().
LEMMA IhexLiveDecode ==
  ASSUME IhexTypeInv, FormatInv, Tiled, IhexLive, BasesApart, ~DecodedLost, DecodeIhex
  PROVE  FormatInv' /\ (result' # "ERROR" => Tiled' /\ IhexLive')
<1>0. /\ pc = "decode" /\ result = "CONTINUE" /\ format_ops /\ At("decode")
      /\ TypeInv /\ RawInOrder /\ lines \in Files /\ format_data \in FormatRecord
      /\ format_data.len \in Nat
      /\ (format_data.started <=> format_data.len > 0)
      /\ UNCHANGED <<buf, head, tot_appended, decoded_tail, write_tail, write_chunks,
                     owned, lines>>
  BY DecodeIhexFrame DEF IhexTypeInv, IhexFormatOK, FormatInv, FormatRecord, At
<1>1. ASSUME WholeLine, GoOn(ToHeader + 1) \/ GoOn(ToHeader + 2)
      PROVE  /\ CurLine \in 1 .. Len(lines) /\ CurLine' = CurLine + 1 /\ Consumed' # 0
             /\ Line = lines[CurLine]
  BY <1>0, <1>1, LineRead, LineDone
<1>2. ASSUME NEW stat \in {0, format_data.len}, DecodeReturns(stat),
             UNCHANGED <<decoded_buf, decoded_head, result>>
      PROVE  /\ format_data'.base = format_data.base /\ format_data'.len = 0
             /\ ~format_data'.started /\ pc' # "decode"
             /\ Tiled' /\ IhexLive'
  <2>1. /\ format_data'.base = format_data.base /\ format_data'.len = 0
        /\ ~format_data'.started
        /\ pc' = IF stat = 0 THEN "host" ELSE "enqueue"
        /\ stat # 0 => enq'.addr = format_data.first /\ enq'.len = stat
    BY <1>0, <1>2, ReturnsType
  <2>2. stat = format_data.len
    <3>1. CASE stat = 0
      <4>1. pc' \notin {"decode", "enqueue"} /\ result' = "CONTINUE"
        BY <1>0, <1>2, <2>1, <3>1
      <4>2. ~(format_data.len > 0)
        BY <1>0, <4>1 DEF DecodedLost
      <4> QED
        BY <1>0, <3>1, <4>2
    <3> QED
      BY <1>2, <3>1
  <2>3. Left' = format_data.len
    BY <1>0, <2>1, <2>2 DEF Left
  <2>4. pc' # "decode"
    BY <2>1
  <2>5. Tiled' /\ IhexLive'
    BY <1>0, <1>2, <2>1, <2>2, <2>3, <2>4, LiveReturns
  <2> QED
    BY <2>1, <2>4, <2>5
<1>3. CASE DecodeNoLine \/ DecodeJump
  <2>1. DecodeReturns(format_data.len) /\ UNCHANGED <<tail, decoded_buf, decoded_head, result>>
    BY <1>3 DEF DecodeNoLine, DecodeJump
  <2>2. /\ format_data'.base = format_data.base /\ format_data'.len = 0
        /\ ~format_data'.started /\ pc' # "decode" /\ Tiled' /\ IhexLive'
    BY <1>2, <2>1
  <2> QED
    BY <2>1, <2>2, FormatStays
<1>4. CASE DecodeNoPrivateData
  <2>1. UNCHANGED <<tail, decoded_buf, decoded_head, format_data, enq, pc>>
    BY <1>4 DEF DecodeNoPrivateData, decVars
  <2>2. FormatInv'
    BY <1>0, <2>1, FormatStays
  <2>3. Left' = Left /\ IhexRun' = IhexRun /\ DecCount' = DecCount
        /\ Offset(write_tail)' = Offset(write_tail) /\ CurLine' = CurLine
    BY <1>0, <2>1 DEF Left, IhexRun, DecCount, Offset, CurLine, Consumed, RawCount
  <2>4. Tiled'
    BY <1>0, <2>3, TiledMoved DEF Tiled
  <2>5. PICK R : R = FileRight
    OBVIOUS
  <2>6. HeldGood(R)' /\ GoodFrom(R, format_data.first, write_tail, format_data.len)'
    <3>1. HeldGood(R) /\ GoodFrom(R, format_data.first, write_tail, format_data.len)
      BY <1>0, <2>5 DEF IhexLive, RunGood
    <3>2. UNCHANGED <<decoded_buf, write_chunks, write_tail, enq, pc, owned, format_data>>
      BY <1>0, <2>1
    <3> QED
      BY <3>1, <3>2 DEF HeldGood, QueueGood, EnqGood, OwnedPart, GoodFrom, Good
  <2>7. FileRight' = FileRight
    BY <1>0, FileKept
  <2>8. HeldGood(FileRight)' /\ RunGood'
    BY <2>5, <2>6, <2>7 DEF RunGood
  <2>9. RunEnds'
    <3>1. UNCHANGED <<lines, pc, format_data>> /\ CurLine' = CurLine
      BY <1>0, <2>1, <2>3
    <3>2. /\ \A i : EndOf(i)' = EndOf(i)
          /\ BaseOf(CurLine)' = BaseOf(CurLine)
      BY <3>1, FileKept DEF BaseOf
    <3>3. \A type, i : NoneOf(type, i, CurLine)' <=> NoneOf(type, i, CurLine)
      BY <3>1 DEF NoneOf
    <3> QED
      BY <1>0, <3>1, <3>2, <3>3 DEF IhexLive, RunEnds
  <2>10. (HeadAfter(IhexRun) /\ Offset(write_tail) + IhexRun <= DecCount)'
    BY <1>0, <2>1, <2>3 DEF IhexLive, HeadAfter
  <2> QED
    BY <2>2, <2>4, <2>8, <2>9, <2>10 DEF IhexLive
<1>5. CASE DecodeNoRoom
  <2>1. /\ DecodeReturns(0) /\ UNCHANGED <<decoded_buf, decoded_head, result>>
        /\ WholeLine /\ GoOn(ToHeader + 1) /\ Line.type = "data"
    BY <1>5 DEF DecodeNoRoom, AtLine
  <2>2. /\ format_data'.base = format_data.base /\ format_data'.len = 0
        /\ ~format_data'.started /\ pc' # "decode" /\ Tiled' /\ IhexLive'
    BY <1>2, <2>1
  <2>3. /\ CurLine \in 1 .. Len(lines) /\ CurLine' = CurLine + 1 /\ Consumed' # 0
        /\ lines[CurLine].type = "data"
    BY <1>1, <2>1
  <2> QED
    BY <2>2, <2>3, FormatPasses
<1>6. CASE DecodeData
  <2>1. Tiled' /\ IhexLive'
    BY <1>0, <1>6, LiveDecodes
  <2>2. /\ CurLine \in 1 .. Len(lines) /\ CurLine' = CurLine + 1 /\ Consumed' # 0
        /\ lines[CurLine].type = "data" /\ pc' = "decode"
    BY <1>0, <1>1, <1>6 DEF DecodeData, AtLine
  <2>3. Line.count \in Nat \ {0}
    BY <1>6, LineWrites
  <2>4. /\ format_data'.started = TRUE /\ format_data'.base = format_data.base
        /\ format_data'.len = format_data.len + Line.count
    BY <1>0, <1>6 DEF DecodeData, FormatRecord
  <2>5. format_data'.len > 0
    BY <1>0, <2>3, <2>4
  <2> QED
    BY <2>1, <2>2, <2>4, <2>5, FormatPasses
<1>7. CASE DecodeEof \/ DecodeStart
  <2>1. UNCHANGED <<decoded_buf, decoded_head, format_data, enq, pc>>
    BY <1>7 DEF DecodeEof, DecodeStart, decVars
  <2>2. /\ CurLine \in 1 .. Len(lines) /\ CurLine' = CurLine + 1 /\ Consumed' # 0
        /\ lines[CurLine].type \in {"eof", "start"}
    BY <1>1, <1>7 DEF DecodeEof, DecodeStart, AtLine
  <2>3. Tiled' /\ IhexLive'
    BY <1>0, <2>1, <2>2, LivePasses
  <2>4. FormatInv'
    BY <1>0, <2>1, <2>2, FormatPasses
  <2> QED
    BY <2>3, <2>4
<1>8. CASE DecodeBase
  <2>1. /\ UNCHANGED <<decoded_buf, decoded_head, enq, pc>>
        /\ WholeLine /\ GoOn(ToHeader + 2) /\ Line.type = "base"
        /\ format_data' = [format_data EXCEPT !.base = Line.addr, !.next = Line.addr]
    BY <1>8 DEF DecodeBase, AtLine
  <2>2. /\ CurLine \in 1 .. Len(lines) /\ CurLine' = CurLine + 1 /\ Consumed' # 0
        /\ Line = lines[CurLine]
    BY <1>1, <2>1
  <2>3. /\ format_data'.len = format_data.len /\ format_data'.first = format_data.first
        /\ format_data'.started = format_data.started
        /\ format_data'.next = lines[CurLine].addr /\ format_data'.base = lines[CurLine].addr
    BY <1>0, <2>1, <2>2 DEF FormatRecord
  <2>4. Tiled' /\ IhexLive'
    BY <1>0, <2>1, <2>2, <2>3, LivePasses
  <2>5. FormatInv'
    BY <1>0, <2>1, <2>2, <2>3, FormatPasses
  <2> QED
    BY <2>4, <2>5
<1>9. CASE DecodeSegment
  <2>1. /\ UNCHANGED <<tail, decoded_buf, decoded_head, enq>>
        /\ pc' = "top" /\ result' = IF calling THEN result ELSE "ERROR"
    BY <1>9 DEF DecodeSegment, IterationFails
  <2>2. /\ format_data'.len = 0 /\ ~format_data'.started
        /\ format_data'.base = format_data.base
    BY <1>9 DEF DecodeSegment, LocalsGo, Probed
  <2>3. FormatInv'
    BY <2>1, <2>2, FormatStays
  <2>4. ASSUME result' # "ERROR"
        PROVE  Tiled' /\ IhexLive'
    <3>1. result' = "CONTINUE" /\ pc' \notin {"decode", "enqueue"}
      BY <1>0, <2>1, <2>4
    <3>2. format_data.len = 0
      BY <1>0, <3>1 DEF DecodedLost
    <3>3. Left' = 0
      BY <2>1 DEF Left
    <3>4. Left' = format_data.len
      BY <3>2, <3>3
    <3>5. pc' # "decode" /\ pc' # "enqueue"
      BY <2>1
    <3> QED
      BY <1>0, <2>1, <3>4, <3>5, LiveReturns
  <2> QED
    BY <2>3, <2>4
<1> QED
  BY <1>3, <1>4, <1>5, <1>6, <1>7, <1>8, <1>9 DEF DecodeIhex

\* No step of the layer decodes.
LEMMA LayerDoesNotDecode ==
  LoopStep \/ EnvironmentStep => pc # "decode" /\ pc' # "decode" /\ result = "CONTINUE"
<1>1. LoopTop \/ OnIdle \/ HostIdle \/ WriteNothing \/ WriteErases \/ WriteHandsOver
        \/ EnqueueForWriting => pc # "decode" /\ result = "CONTINUE"
  BY DEF LoopTop, OnIdle, HostIdle, WriteNothing, WriteErases, WriteHandsOver,
         EnqueueForWriting, At
<1>2. ClientAppends \/ FlushStart \/ ChunkAvailableOk \/ ChunkAvailableFails
        => pc # "decode" /\ result = "CONTINUE"
  BY DEF ClientAppends, FlushStart, ChunkAvailableOk, ChunkAvailableFails, AtEvents, At
<1>3. ChunkDone \/ ChunkFails \/ BetweenCommands \/ EraseEnds
        => pc # "decode" /\ result = "CONTINUE"
  BY DEF ChunkDone, ChunkFails, BetweenCommands, EraseEnds, AnswerArrives,
         InChunkAvailable, AtEvents, At
<1> QED
  BY <1>1, <1>2, <1>3, LayerKeepsFormat DEF LoopStep, EnvironmentStep

\* Refusals inside chunk_available() include the misaligned chunks.
LEMMA NoneRefusedThen == ~RefusedInside => NoneRefused
<1> SUFFICES ASSUME calling, EnqueueForWriting, NewChunk, Misaligned
             PROVE  RefusedInside
  BY DEF NoneRefused
<1>1. At("enqueue")
  BY DEF EnqueueForWriting
<1>2. pc' = "top"
  BY DEF NewChunk, IterationFails
<1> QED
  BY <1>1, <1>2 DEF RefusedInside

\* The steps of the layer keep the invariant.
LEMMA IhexLayer ==
  ASSUME IhexInv, ~RefusedInside, LoopStep \/ EnvironmentStep, UNCHANGED lines, IhexTypeInv'
  PROVE  IhexInv'
<1>0. /\ TypeInv /\ TypeInv' /\ TilingInv /\ RawInOrder /\ FormatInv
      /\ pc # "decode" /\ pc' # "decode" /\ result = "CONTINUE" /\ Tiled /\ IhexLive
      /\ UNCHANGED <<format_ops, format_data>>
  BY LayerDoesNotDecode, LayerKeepsFormat DEF IhexInv, IhexTypeInv, TilingInv, Covered
<1>1. TilingInv'
  BY <1>0, NoneRefusedThen, LayerKeepsTiling
<1>2. RawInOrder' /\ Consumed' = Consumed
  BY <1>0, LayerKeepsRaw
<1>3. FormatInv'
  <2>1. CurLine' = CurLine
    BY <1>2 DEF CurLine
  <2>2. BaseOf(CurLine)' = BaseOf(CurLine)
    BY <2>1 DEF BaseOf
  <2> QED
    BY <1>0, <1>2, <2>1, <2>2 DEF FormatInv
<1>4. FileRight' = FileRight
  BY FileKept
<1>5. PICK R : R = FileRight
  OBVIOUS
<1>6. HeldGood(R)' /\ FlashGood(R)'
  BY <1>0, <1>5, LayerKeepsHeld, LayerKeepsFlash DEF IhexInv, IhexLive
<1>7. HeldGood(FileRight)' /\ FlashGood(FileRight)'
  BY <1>4, <1>5, <1>6
<1>8. IhexRun = 0 /\ IhexRun' = 0
  BY <1>0 DEF IhexRun
<1>9. result' # "ERROR" => HeadAfter(IhexRun)'
  <2>1. HeadAfter(0)
    BY <1>0, <1>8 DEF IhexLive
  <2> QED
    BY <1>0, <1>8, <2>1, LayerKeepsHead DEF HeadAfter
<1>10. result' # "ERROR" => (Offset(write_tail) + IhexRun <= DecCount)'
  <2> SUFFICES ASSUME result' # "ERROR"
               PROVE  (Offset(write_tail) + 0 <= DecCount)'
    BY <1>8
  <2>1. Tiled'
    BY <1>1 DEF TilingInv, Covered
  <2>2. (Offset(write_tail) + Left <= DecCount)'
    BY <2>1 DEF Tiled
  <2>3. (Offset(write_tail) \in Int /\ DecCount \in Int /\ Left \in Nat)'
    <3>1. Offset(write_tail)' \in Int /\ DecCount' \in Int /\ Left' \in Nat
      <4>1. write_tail' \in 0 .. DecodedSize - 1 /\ decoded_tail' \in 0 .. DecodedSize - 1
            /\ decoded_head' \in 0 .. DecodedSize - 1
        BY <1>0 DEF TypeInv, TypeOK, DecodedTypeOK, DecSlot
      <4>2. Offset(write_tail)' \in 0 .. DecodedSize - 1 /\ DecCount' \in 0 .. DecodedSize - 1
        BY <4>1, Sizes, CountIsDistance DEF Offset, DecCount
      <4>3. Left' \in Nat
        BY <1>0 DEF TypeInv, TypeOK, LoopTypeOK, Left
      <4> QED
        BY <4>2, <4>3, Sizes
    <3> QED
      BY <3>1
  <2> QED
    BY <2>2, <2>3
<1>11. RunEnds' /\ RunGood'
  BY <1>0 DEF RunEnds, RunGood
<1> QED
  BY <1>1, <1>3, <1>7, <1>9, <1>10, <1>11 DEF IhexInv, IhexLive

\* Steps that change none of what the invariant is about.
LEMMA IhexFramed ==
  ASSUME IhexInv, IhexTypeInv', pc # "enqueue" \/ pc' = pc,
         UNCHANGED <<rawVars, decoded_buf, decoded_head, tailVars, write_chunks, calling, enq,
                     owned, flash, lines>>,
         result' # "ERROR" => result # "ERROR", pc' # "enqueue" \/ pc' = pc,
         calling => (pc = "top" /\ pc' = "top") \/ NestedIdle,
         IhexRun' = IhexRun, FormatInv', RunEnds', RunGood'
  PROVE  IhexInv'
<1>1. Left' = Left /\ DecCount' = DecCount /\ Offset(write_tail)' = Offset(write_tail)
  BY DEF Left, DecCount, Offset, tailVars
<1>2. Tiled => Tiled'
  BY <1>1, TiledMoved DEF Tiled, tailVars
<1>3. TilingInv'
  BY <1>2 DEF IhexInv, TilingInv, Covered, CalledAtTop
<1>4. FileRight' = FileRight
  BY FileKept
<1>5. PICK R : R = FileRight
  OBVIOUS
<1>6. FlashGood(R)' /\ (HeldGood(R) => HeldGood(R)')
  <2>1. FlashGood(R)'
    BY <1>5 DEF IhexInv, FlashGood
  <2>2. HeldGood(R) => HeldGood(R)'
    BY DEF HeldGood, QueueGood, EnqGood, OwnedPart, GoodFrom, Good, tailVars
  <2> QED
    BY <2>1, <2>2
<1>7. FlashGood(FileRight)' /\ (HeldGood(FileRight) => HeldGood(FileRight)')
  BY <1>4, <1>5, <1>6
<1>8. (HeadAfter(IhexRun) => HeadAfter(IhexRun)')
      /\ (Offset(write_tail) + IhexRun <= DecCount => (Offset(write_tail) + IhexRun <= DecCount)')
  BY <1>1 DEF HeadAfter, tailVars
<1> QED
  BY <1>3, <1>7, <1>8 DEF IhexInv, IhexLive

\* So does the beginning of the flush step.
LEMMA IhexFlushes ==
  ASSUME IhexInv, IhexTypeInv', DoFlush(Probed), UNCHANGED lines
  PROVE  IhexInv'
<1>1. /\ UNCHANGED <<rawVars, decoded_buf, decoded_head, tailVars, write_chunks, calling, enq,
                     result, owned, flash>>
      /\ pc = "flush" /\ pc' \in {"host", "decode"}
      /\ \/ UNCHANGED <<format_ops, format_data>> /\ pc' = "host"
         \/ format_ops' = TRUE /\ format_data' = IF format_ops THEN format_data ELSE Probed
  <2>1. /\ At("flush")
        /\ UNCHANGED <<rawVars, decoded_buf, decoded_head, tailVars, write_chunks, calling, enq,
                       dfuVars, targetVars>>
    BY Zenon DEF DoFlush
  <2>2. /\ pc' \in {"host", "decode"}
        /\ \/ UNCHANGED <<format_ops, format_data>> /\ pc' = "host"
           \/ format_ops' = TRUE /\ format_data' = IF format_ops THEN format_data ELSE Probed
    BY DEF DoFlush
  <2> QED
    BY <2>1, <2>2 DEF At, dfuVars, targetVars
<1>2. FormatInv /\ IhexTypeInv /\ CurLine' = CurLine /\ Consumed' = Consumed
  BY <1>1 DEF IhexInv, CurLine, Consumed, RawCount, rawVars
<1>3. BaseOf(CurLine)' = BaseOf(CurLine)
  BY <1>2 DEF BaseOf
<1>4. ~format_ops => BaseOf(CurLine) = 0
  <2>1. Consumed = 0 => CurLine = 1
    BY DEF CurLine
  <2> QED
    BY <1>2, <2>1, BaseFirst DEF FormatInv
<1>5. Probed.base = 0 /\ ~Probed.started /\ Probed.len = 0
  BY DEF Probed
<1>6. format_ops' => /\ format_data'.base = BaseOf(CurLine)
                     /\ ~format_data'.started /\ ~(format_data'.len > 0)
  <2>1. CASE format_ops
    <3>1. format_data' = format_data
      BY <1>1, <2>1
    <3>2. format_data.base = BaseOf(CurLine) /\ (format_data.started <=> format_data.len > 0)
          /\ ~format_data.started
      BY <1>1, <1>2, <2>1 DEF FormatInv
    <3> QED
      BY <3>1, <3>2
  <2>2. CASE ~format_ops
    <3>1. format_ops' => format_data' = Probed
      BY <1>1, <2>2
    <3> QED
      BY <1>4, <1>5, <2>2, <3>1
  <2> QED
    BY <2>1, <2>2
<1>7. FormatInv'
  BY <1>1, <1>2, <1>3, <1>6 DEF FormatInv
<1>8. pc' = "decode" => format_ops' /\ format_data'.len = 0
  <2>1. pc' = "decode" => format_ops' /\ format_data' \in FormatRecord
    BY DEF IhexTypeInv, IhexFormatOK
  <2> QED
    BY <1>6, <2>1 DEF FormatRecord
<1>9. IhexRun' = 0 /\ IhexRun = 0
  BY <1>1, <1>8 DEF IhexRun
<1>10. RunEnds' /\ RunGood'
  BY <1>6, <1>8 DEF RunEnds, RunGood, GoodFrom
<1>11. calling => NestedIdle
  BY <1>1 DEF IhexInv, TilingInv, CalledAtTop
<1> QED
  BY <1>1, <1>7, <1>9, <1>10, <1>11, IhexFramed

\* And every step, when nothing is forgotten.
LEMMA IhexInductive ==
  IhexInv /\ BasesApart /\ [IhexNext /\ ~Forgets]_ihexVars => IhexInv' /\ BasesApart'
<1> SUFFICES ASSUME IhexInv, BasesApart, [IhexNext /\ ~Forgets]_ihexVars
             PROVE  IhexInv' /\ BasesApart'
  OBVIOUS
<1>0. IhexTypeInv' /\ UNCHANGED lines
  <2>1. IhexTypeInv'
    BY IhexTypeInductive DEF IhexInv
  <2>2. DecodeIhex => UNCHANGED lines
    BY DecodeIhexFrame
  <2>3. UNCHANGED ihexVars => UNCHANGED lines
    BY DEF ihexVars
  <2>4. IhexNext => UNCHANGED lines
    BY <2>2, <2>3, ProbeRefusesFrame DEF IhexNext, IhexGoesOn, EnvironmentActs, Flushes, IhexTimesOut, IhexTerminated
  <2> QED
    BY <2>1, <2>3, <2>4
<1>1. BasesApart'
  BY <1>0, FileKept, Zenon
<1>2. CASE (LoopStep \/ EnvironmentStep) /\ ~Forgets
  BY <1>0, <1>1, <1>2, IhexLayer DEF Forgets
<1>3. CASE DoFlush(Probed)
  BY <1>0, <1>1, <1>3, IhexFlushes
<1>4. CASE DecodeIhex /\ ~Forgets
  <2>1. /\ pc = "decode" /\ result = "CONTINUE" /\ ~DecodedLost
        /\ IhexTypeInv /\ FormatInv /\ Tiled /\ IhexLive
        /\ UNCHANGED <<flash, calling>>
    BY <1>4, DecodeIhexFrame DEF Forgets, IhexInv, TilingInv, Covered
  <2>2. FormatInv' /\ (result' # "ERROR" => Tiled' /\ IhexLive')
    BY <1>4, <2>1, IhexLiveDecode
  <2>3. FileRight' = FileRight
    BY <1>0, FileKept
  <2>4. FlashGood(FileRight)'
    BY <2>1, <2>3 DEF IhexInv, FlashGood
  <2>5. TilingInv'
    BY <2>1, <2>2 DEF IhexInv, TilingInv, Covered, CalledAtTop
  <2> QED
    BY <1>0, <1>1, <2>2, <2>4, <2>5 DEF IhexInv
<1>5. CASE RxTimeout(IhexStuck) \/ ProbeRefuses \/ UNCHANGED ihexVars
  <2>1. /\ UNCHANGED <<rawVars, decVars, tailVars, write_chunks, pc, calling, enq,
                       targetVars, flagVars>>
        /\ result' = result \/ (result = "CONTINUE" /\ result' = "OTHER_FORMAT")
    <3>1. CASE RxTimeout(IhexStuck)
      BY <3>1, Zenon DEF RxTimeout
    <3>2. CASE UNCHANGED ihexVars
      BY <3>2 DEF ihexVars, vars, dfuVars
    <3>3. CASE ProbeRefuses
      BY <3>3, ProbeRefusesFrame
    <3> QED
      BY <1>5, <3>1, <3>2, <3>3
  <2>2. /\ UNCHANGED <<rawVars, decoded_buf, decoded_head, tailVars, write_chunks, pc, calling,
                       enq, owned, flash, format_data, format_ops, lines>>
        /\ result' # "ERROR" <=> result # "ERROR"
        /\ CurLine' = CurLine /\ Consumed' = Consumed
    BY <1>0, <2>1 DEF decVars, targetVars, flagVars, CurLine, Consumed, RawCount, rawVars
  <2>3. BaseOf(CurLine)' = BaseOf(CurLine)
    BY <2>2 DEF BaseOf
  <2>4. FormatInv' /\ IhexRun' = IhexRun
    BY <2>2, <2>3 DEF IhexInv, FormatInv, IhexRun
  <2>5. ASSUME result # "ERROR"
        PROVE  RunEnds' /\ RunGood'
    <3>1. RunEnds'
      <4>1. \A i : EndOf(i)' = EndOf(i)
        BY <2>2, FileKept
      <4>2. \A type, i : NoneOf(type, i, CurLine)' <=> NoneOf(type, i, CurLine)
        BY <2>2 DEF NoneOf
      <4> QED
        BY <2>2, <2>3, <2>5, <4>1, <4>2 DEF IhexInv, IhexLive, RunEnds
    <3>2. RunGood'
      <4>1. FileRight' = FileRight
        BY <2>2, FileKept
      <4>2. PICK R : R = FileRight
        OBVIOUS
      <4>3. pc = "decode" => GoodFrom(R, format_data.first, write_tail, format_data.len)'
        BY <2>2, <2>5, <4>2 DEF IhexInv, IhexLive, RunGood, GoodFrom, Good, tailVars
      <4> QED
        BY <2>2, <4>1, <4>2, <4>3 DEF RunGood
    <3> QED
      BY <3>1, <3>2
  <2>6. CASE result # "ERROR"
    <3>1. calling => (pc = "top" /\ pc' = "top") \/ NestedIdle
      BY <2>2 DEF IhexInv, TilingInv, CalledAtTop
    <3> QED
      BY <1>0, <1>1, <2>2, <2>4, <2>5, <2>6, <3>1, IhexFramed
  <2>7. CASE result = "ERROR"
    <3>1. TilingInv'
      BY <2>2, <2>7 DEF IhexInv, TilingInv, Covered, CalledAtTop
    <3>2. FileRight' = FileRight
      BY <2>2, FileKept
    <3>3. FlashGood(FileRight)'
      BY <2>2, <3>2 DEF IhexInv, FlashGood
    <3> QED
      BY <1>0, <1>1, <2>2, <2>4, <2>7, <3>1, <3>3 DEF IhexInv
  <2> QED
    BY <2>6, <2>7
<1> QED
  BY <1>2, <1>3, <1>4, <1>5
  DEF IhexNext, IhexGoesOn, EnvironmentActs, Flushes, IhexTimesOut, IhexTerminated

\* It holds at first.
LEMMA IhexInvInit == IhexInit => IhexInv
<1> SUFFICES ASSUME IhexInit
             PROVE  IhexInv
  OBVIOUS
<1>1. IhexTypeInv /\ Init
  BY IhexTypeInit DEF IhexInit
<1>2. TilingInv
  BY <1>1, TilingInit
<1>3. RawCount = 0 /\ Consumed = 0
  BY <1>1, Sizes DEF Init, RawCount, RingCount, Mask, Consumed
<1>4. FormatInv
  BY <1>1, <1>3 DEF Init, FormatInv
<1>5. FlashGood(FileRight)
  BY <1>1 DEF Init, FlashGood
<1>6. HeldGood(FileRight) /\ RunEnds /\ RunGood /\ IhexRun = 0 /\ Left = 0
  <2>1. write_chunks = <<>> /\ pc = "top" /\ owned = NoChunk
    BY <1>1 DEF Init, At
  <2>2. Len(write_chunks) = 0
    BY <2>1
  <2> QED
    BY <2>1, <2>2 DEF HeldGood, QueueGood, EnqGood, OwnedPart, RunEnds, RunGood, IhexRun, Left
<1>7. /\ decoded_head = 0 /\ write_tail = 0 /\ Mask(0, DecodedSize) = 0
      /\ Offset(write_tail) = 0 /\ DecCount = 0
  BY <1>1, Sizes DEF Init, Mask, Offset, DecCount, RingCount
<1>8. HeadAfter(IhexRun) /\ Offset(write_tail) + IhexRun <= DecCount
  BY <1>6, <1>7 DEF HeadAfter
<1> QED
  BY <1>1, <1>2, <1>4, <1>5, <1>6, <1>8 DEF IhexInv, IhexLive

\* It always does.
LEMMA IhexInvAlways ==
  IhexSpec /\ BasesApart /\ [][~Forgets]_ihexVars => [](IhexInv /\ BasesApart)
<1>1. IhexInit => IhexInv
  BY IhexInvInit
<1>2. IhexInv /\ BasesApart /\ [IhexNext]_ihexVars /\ [~Forgets]_ihexVars
        => IhexInv' /\ BasesApart'
  BY IhexInductive
<1> QED
  BY <1>1, <1>2, PTL DEF IhexSpec

\* As long as no decoded byte is forgotten, a flash cell holds nothing but the byte
\* that the file gives for its address, for every file whose base records are not
\* mistaken for a continuation, every size of the buffers and every order of
\* blocks, refusals, timeouts and completions.
THEOREM FlashHoldsFile ==
  IhexSpec /\ BasesApart /\ [][~Forgets]_ihexVars => []FlashIsFile
<1>1. IhexInv => FlashIsFile
  BY DEF IhexInv, FlashGood, FileRight, FlashIsFile
<1> QED
  BY <1>1, IhexInvAlways, PTL

-----------------------------------------------------------------------------
(* Intel HEX: chunks, sectors and the decoded ring, as for a binary file.  *)

\* Outside of the layer the format moves neither chunks nor flash.
LEMMA IhexOther ==
  ASSUME [IhexNext]_ihexVars, ~((LoopStep \/ EnvironmentStep) /\ UNCHANGED lines)
  PROVE  /\ UNCHANGED <<decoded_tail, write_tail, write_chunks, calling,
                        owned, erasing, erased, flash, early>>
         /\ written => written'
<1>1. CASE DoFlush(Probed)
  BY <1>1, Zenon DEF DoFlush, tailVars, targetVars, flagVars
<1>2. CASE RxTimeout(IhexStuck)
  BY <1>2, Zenon DEF RxTimeout, tailVars, targetVars, flagVars
<1>3. CASE DecodeIhex
  <2>1. written' \in {written, TRUE}
    BY <1>3 DEF DecodeIhex, DecodeNoLine, DecodeNoPrivateData, DecodeJump, DecodeNoRoom,
         DecodeData, DecodeEof, DecodeBase, DecodeStart, DecodeSegment
  <2>2. UNCHANGED <<decoded_tail, write_tail, write_chunks, calling, owned, erasing,
                    erased, flash, early>>
    BY <1>3, DecodeIhexFrame
  <2>3. written => written'
    BY <2>1, Zenon
  <2> QED
    BY <2>2, <2>3, Zenon
<1>4. CASE UNCHANGED ihexVars
  BY <1>4 DEF ihexVars, vars, tailVars, targetVars, flagVars
<1>5. CASE ProbeRefuses
  BY <1>5, ProbeRefusesFrame DEF tailVars, targetVars, flagVars
<1> QED
  BY <1>1, <1>2, <1>3, <1>4, <1>5
  DEF IhexNext, IhexGoesOn, EnvironmentActs, Flushes, IhexTimesOut, IhexTerminated

\* No sector is programmed before it was erased, nor erased again after part of
\* it was programmed, wherever the lines of the file lead: _bf_do_write() erases
\* what erase_upto does not cover.
THEOREM IhexErasedOnce == IhexSpec => []EraseOnceBeforeProgramming
<1>1. IhexInit => ErasedFirst
  BY DEF IhexInit, Init, ErasedFirst
<1>2. IhexTypeInv /\ ErasedFirst /\ [IhexNext]_ihexVars => ErasedFirst'
  <2> SUFFICES ASSUME IhexTypeInv, ErasedFirst, [IhexNext]_ihexVars
               PROVE  ErasedFirst'
    OBVIOUS
  <2>1. CASE LoopStep \/ EnvironmentStep
    BY <2>1, LayerKeepsErased DEF IhexTypeInv
  <2>2. CASE ~(LoopStep \/ EnvironmentStep)
    BY <2>2, IhexOther, ErasedFirstFramed
  <2> QED
    BY <2>1, <2>2
<1> QED
  BY <1>1, <1>2, ErasedFirstSuffices, IhexTypeInit, IhexTypeInductive, PTL DEF IhexSpec

\* The end of the file, unless it came early: the end of file record is read
\* after the last line, or nothing is left in the raw ring; what a call decoded
\* before the end was in no chunk yet, and a later call decodes nothing.
IhexQuiet ==
  /\ format_ops /\ pc # "decode" => format_data.len = 0
  /\ ~early /\ written => rx_done \/ RawCount = 0
  /\ ~early /\ OpenHanded /\ pc = "decode" => rx_done /\ format_data.len = 0

\* Then decode_chunk() finds no line.
LEMMA DecodesNoLine ==
  ASSUME DecodeIhex, rx_done \/ RawCount = 0
  PROVE  DecodeNoLine
<1>1. ~(~rx_done /\ WholeLine)
  BY DEF WholeLine
<1> QED
  BY <1>1 DEF DecodeIhex, DecodeNoPrivateData, DecodeJump, DecodeNoRoom, DecodeData,
              DecodeEof, DecodeBase, DecodeStart, DecodeSegment, AtLine

\* The quiet end and the chunks in flight, when a line is decoded.
LEMMA QuietDecode ==
  ASSUME IhexTypeInv, IhexQuiet, InFlightClosed, DecodeIhex
  PROVE  IhexQuiet' /\ InFlightClosed'
<1>1. /\ pc = "decode" /\ format_ops /\ format_data \in FormatRecord /\ TypeInv
      /\ UNCHANGED <<head, write_chunks, early, owned, format_ops>>
  BY DecodeIhexFrame DEF IhexTypeInv, IhexFormatOK
<1>2. OpenHanded' = OpenHanded
  BY <1>1 DEF OpenHanded
<1>3. format_ops /\ pc' # "decode" => format_data'.len = 0
  <2>1. pc' = "decode" \/ LocalsGo
    BY <1>1 DEF DecodeIhex, DecodeNoLine, DecodeNoPrivateData, DecodeJump, DecodeNoRoom,
                DecodeData, DecodeEof, DecodeBase, DecodeStart, DecodeSegment, DecodeReturns
  <2>2. LocalsGo => format_data'.len = 0
    BY DEF LocalsGo, Probed
  <2> QED
    BY <2>1, <2>2
<1>4. CASE rx_done \/ RawCount = 0
  <2>1. DecodeNoLine
    BY <1>4, DecodesNoLine
  <2>2. UNCHANGED <<tail, rx_done, written>> /\ DecodeReturns(format_data.len)
    BY <2>1 DEF DecodeNoLine
  <2>3. format_data.len \in Nat
    BY <1>1 DEF FormatRecord
  <2>4. pc' = IF format_data.len = 0 THEN "host" ELSE "enqueue"
    BY <1>1, <2>2, <2>3, ReturnsType
  <2>5. RawCount' = RawCount
    BY <1>1, <2>2 DEF RawCount
  <2>6. IhexQuiet'
    BY <1>1, <1>3, <2>2, <2>4, <2>5 DEF IhexQuiet
  <2>7. early \/ ~OpenHanded \/ pc' = "host"
    BY <1>1, <2>4 DEF IhexQuiet
  <2> QED
    BY <1>1, <2>2, <2>6, <2>7, InFlightFramed
<1>5. CASE ~rx_done /\ RawCount # 0
  <2>1. early \/ ~written
    BY <1>5 DEF IhexQuiet
  <2>2. early \/ ~OpenHanded
    BY <2>1 DEF InFlightClosed
  <2>3. written' = written \/ (rx_done' = TRUE /\ written' = TRUE)
    BY DEF DecodeIhex, DecodeNoLine, DecodeNoPrivateData, DecodeJump, DecodeNoRoom,
           DecodeData, DecodeEof, DecodeBase, DecodeStart, DecodeSegment
  <2>4. written => written'
    BY <2>3, Zenon
  <2>5. ~early' /\ written' => rx_done'
    BY <1>1, <2>1, <2>3, Zenon
  <2>6. IhexQuiet'
    BY <1>1, <1>2, <1>3, <2>2, <2>5 DEF IhexQuiet
  <2> QED
    BY <1>1, <2>2, <2>4, <2>6, InFlightFramed
<1> QED
  BY <1>4, <1>5

\* Every step keeps them.
LEMMA IhexInFlightInductive ==
  ASSUME IhexTypeInv, IhexTypeInv', IhexQuiet, InFlightClosed, [IhexNext]_ihexVars
  PROVE  IhexQuiet' /\ InFlightClosed'
<1>1. TypeInv /\ TypeInv'
  BY DEF IhexTypeInv
<1>2. CASE LoopStep \/ EnvironmentStep
  <2>1. InFlightClosed'
    BY <1>1, <1>2, LayerKeepsInFlight
  <2>2. pc # "decode" /\ pc' # "decode" /\ UNCHANGED <<format_ops, format_data>>
    BY <1>2, LayerDoesNotDecode, LayerKeepsFormat
  <2>3. ~early' /\ written' => rx_done' \/ RawCount' = 0
    <3>1. CASE ClientAppends
      <4>1. rx_done' = rx_done /\ (~early' /\ written' /\ ~rx_done => ~(RawCount' > 0))
        BY <3>1, Zenon DEF ClientAppends
      <4>2. RawCount' \in Nat
        <5>1. head' \in 0 .. RawSize - 1 /\ tail' \in 0 .. RawSize - 1
          BY <1>1 DEF TypeInv, TypeOK, RawTypeOK, RawSlot
        <5> QED
          BY <5>1, Sizes, CountIsDistance DEF RawCount
      <4> QED
        BY <4>1, <4>2
    <3>2. CASE ~ClientAppends
      <4>1. UNCHANGED <<rawVars, rx_done, written, early>>
        BY <1>2, <3>2, LayerKeepsFlags
      <4> QED
        BY <4>1 DEF IhexQuiet, RawCount, rawVars
    <3> QED
      BY <3>1, <3>2
  <2>4. IhexQuiet'
    BY <2>2, <2>3 DEF IhexQuiet
  <2> QED
    BY <2>1, <2>4
<1>3. CASE DoFlush(Probed)
  <2>1. UNCHANGED <<rawVars, write_chunks, written, rx_done, early, owned>>
    BY <1>3 DEF DoFlush, targetVars
  <2>2. pc = "flush" /\ (pc' = "host" \/ (pc' = "decode" /\ RawCount > 0))
    BY <1>3 DEF DoFlush, At
  <2>3. format_ops' => format_data'.len = 0
    <3>1. \/ UNCHANGED <<format_ops, format_data>>
          \/ format_data' = IF format_ops THEN format_data ELSE Probed
      BY <1>3 DEF DoFlush
    <3>2. format_ops => format_data.len = 0
      BY <2>2 DEF IhexQuiet
    <3>3. Probed.len = 0
      BY DEF Probed
    <3>4. format_ops' => (format_ops /\ format_data' = format_data) \/ format_data' = Probed
      BY <1>3, <3>1 DEF DoFlush
    <3> QED
      BY <3>2, <3>3, <3>4
  <2>4. InFlightClosed'
    BY <2>1, <2>2, InFlightFramed
  <2>5. OpenHanded' = OpenHanded /\ RawCount' = RawCount
    BY <2>1 DEF OpenHanded, RawCount, rawVars
  <2>6. pc' = "decode" => format_ops'
    BY DEF IhexTypeInv, IhexFormatOK
  <2>7. ~early /\ OpenHanded => written
    BY DEF InFlightClosed
  <2>8. RawCount > 0 => RawCount # 0
    OBVIOUS
  <2>9. pc' = "decode" /\ ~early' /\ OpenHanded' => rx_done'
    BY <2>1, <2>2, <2>5, <2>7, <2>8 DEF IhexQuiet
  <2> QED
    BY <2>1, <2>3, <2>4, <2>5, <2>6, <2>9 DEF IhexQuiet
<1>4. CASE DecodeIhex
  BY <1>4, QuietDecode
<1>5. CASE RxTimeout(IhexStuck) \/ ProbeRefuses \/ UNCHANGED ihexVars
  <2>1. UNCHANGED <<rawVars, decVars, write_chunks, pc, flagVars, targetVars>>
    <3>1. CASE RxTimeout(IhexStuck)
      BY <3>1, Zenon DEF RxTimeout
    <3>2. CASE UNCHANGED ihexVars
      BY <3>2 DEF ihexVars, vars
    <3>3. CASE ProbeRefuses
      BY <3>3, ProbeRefusesFrame
    <3> QED
      BY <1>5, <3>1, <3>2, <3>3
  <2>2. UNCHANGED <<write_chunks, pc, written, rx_done, early, owned, format_ops, format_data>>
        /\ RawCount' = RawCount
    BY <2>1 DEF rawVars, decVars, flagVars, targetVars, RawCount
  <2>3. InFlightClosed'
    BY <2>2, InFlightFramed
  <2>4. OpenHanded' = OpenHanded
    BY <2>2 DEF OpenHanded
  <2> QED
    BY <2>2, <2>3, <2>4 DEF IhexQuiet
<1> QED
  BY <1>2, <1>3, <1>4, <1>5
  DEF IhexNext, IhexGoesOn, EnvironmentActs, Flushes, IhexTimesOut, IhexTerminated

\* A chunk the target owns keeps its bounds, for every file and every target, also
\* after the end of file record, when _bf_do_write() hands out a chunk that is
\* still pending: what is decoded with the record is cut into chunks first, and
\* nothing is decoded after it.  Only an end that came early is excepted.
THEOREM IhexInFlightKeepsBounds == IhexSpec => []InFlightNotExtended
<1>1. IhexInit => InFlightClosed /\ IhexQuiet
  BY DEF IhexInit, Init, At, InFlightClosed, IhexQuiet, OpenHanded
<1>2. IhexTypeInv /\ IhexQuiet /\ InFlightClosed /\ [IhexNext]_ihexVars
        => IhexTypeInv' /\ IhexQuiet' /\ InFlightClosed'
  BY IhexTypeInductive, IhexInFlightInductive
<1>3. IhexTypeInv /\ InFlightClosed => InFlightNotExtended
  BY DEF IhexTypeInv, TypeInv, OwnedIsFirst, InFlightClosed, InFlightNotExtended, OwnedIsWhole
<1> QED
  BY <1>1, <1>2, <1>3, IhexTypeInit, PTL DEF IhexSpec

\* What this call of decode_chunk() has decoded lies between the chunks and the
\* head, and nothing has been decoded outside of it.
LenFits ==
  format_ops => IF pc = "decode"
                THEN result # "ERROR" => Offset(write_tail) + format_data.len <= DecCount
                ELSE format_data.len = 0

\* The tiling of the decoded ring, with what makes it inductive.
IhexTiling == TilingInv /\ LenFits

\* What decode_chunk() returns can be enqueued.
LEMMA ReturnKeepsTiling ==
  ASSUME IhexTypeInv, IhexTypeInv', Tiled, NEW stat \in {0, format_data.len},
         format_ops, pc = "decode", Offset(write_tail) + format_data.len <= DecCount,
         DecodeReturns(stat),
         UNCHANGED <<decoded_head, decoded_tail, write_tail, write_chunks>>
  PROVE  Tiled' /\ LenFits'
<1>1. TypeInv /\ TypeInv' /\ format_data \in FormatRecord
  BY DEF IhexTypeInv, IhexFormatOK
<1>2. stat \in Nat /\ format_data.len \in Nat
  BY <1>1 DEF FormatRecord
<1>3. /\ format_data'.len = 0
      /\ pc' = IF stat = 0 THEN "host" ELSE "enqueue"
      /\ stat # 0 => enq'.len = stat
  BY <1>1, <1>2, ReturnsType
<1>4. Left' = stat
  BY <1>3 DEF Left
<1>5. /\ Offset(write_tail) \in Nat /\ DecCount \in Nat /\ DecCount' = DecCount
      /\ Offset(write_tail)' = Offset(write_tail)
  BY <1>1, Offsets, Sizes DEF DecCount, Offset
<1>6. Offset(write_tail) + Left' <= DecCount'
  BY <1>2, <1>4, <1>5
<1> QED
  BY <1>3, <1>6, TiledMoved DEF LenFits

\* A line moves the head within the free room.
LEMMA DecodeKeepsTiling ==
  ASSUME IhexTypeInv, IhexTypeInv', IhexTiling, DecodeIhex
  PROVE  IhexTiling'
<1>1. /\ pc = "decode" /\ result = "CONTINUE" /\ Tiled /\ CalledAtTop /\ format_ops
      /\ UNCHANGED <<decoded_tail, write_tail, write_chunks, calling, format_ops>>
      /\ Offset(write_tail) + format_data.len <= DecCount
      /\ format_data \in FormatRecord /\ TypeInv /\ TypeInv'
  BY DecodeIhexFrame
  DEF IhexTiling, TilingInv, Covered, LenFits, IhexTypeInv, IhexFormatOK
<1>2. CalledAtTop'
  BY <1>1 DEF CalledAtTop
<1>3. /\ Offset(write_tail) \in Nat /\ DecCount \in Nat /\ format_data.len \in Nat
      /\ Offset(write_tail)' = Offset(write_tail)
  BY <1>1, Offsets, Sizes DEF Offset, FormatRecord
<1>4. CASE DecodeNoLine \/ DecodeJump \/ DecodeNoRoom
  <2>1. /\ DecodeReturns(0) \/ DecodeReturns(format_data.len)
        /\ UNCHANGED decoded_head
    BY <1>4 DEF DecodeNoLine, DecodeJump, DecodeNoRoom
  <2>2. Tiled' /\ LenFits'
    BY <1>1, <2>1, ReturnKeepsTiling
  <2> QED
    BY <1>2, <2>2 DEF IhexTiling, TilingInv, Covered
<1>5. CASE DecodeData
  <2>1. /\ Line.count \in Nat /\ DecCount' = DecCount + Line.count
    BY <1>5, LineWrites
  <2>2. pc' = "decode" /\ format_data'.len = format_data.len + Line.count
    BY <1>1, <1>5 DEF DecodeData, FormatRecord
  <2>3. Left' = 0
    BY <2>2 DEF Left
  <2>4. Offset(write_tail) + Left' <= DecCount'
    BY <1>1, <1>3, <2>1, <2>3
  <2>5. Tiled'
    BY <1>1, <2>4, TiledMoved
  <2>6. LenFits'
    BY <1>1, <1>3, <2>1, <2>2 DEF LenFits
  <2> QED
    BY <1>2, <2>5, <2>6 DEF IhexTiling, TilingInv, Covered
<1>6. CASE DecodeEof \/ DecodeBase \/ DecodeStart \/ DecodeNoPrivateData
  <2>1. UNCHANGED <<decoded_head, pc>> /\ format_data'.len = format_data.len
    <3>1. CASE DecodeEof \/ DecodeStart \/ DecodeNoPrivateData
      BY <3>1 DEF DecodeEof, DecodeStart, DecodeNoPrivateData, decVars
    <3>2. CASE DecodeBase
      BY <1>1, <3>2 DEF DecodeBase, FormatRecord
    <3> QED
      BY <1>6, <3>1, <3>2
  <2>2. DecCount' = DecCount /\ Left' = 0
    BY <1>1, <2>1 DEF DecCount, Left
  <2>3. Offset(write_tail) + Left' <= DecCount'
    BY <1>1, <1>3, <2>2
  <2>4. Tiled'
    BY <1>1, <2>3, TiledMoved
  <2>5. LenFits'
    BY <1>1, <1>3, <2>1, <2>2 DEF LenFits
  <2> QED
    BY <1>2, <2>4, <2>5 DEF IhexTiling, TilingInv, Covered
<1>7. CASE DecodeSegment
  <2>1. pc' = "top" /\ format_data'.len = 0 /\ UNCHANGED decoded_head
    BY <1>7 DEF DecodeSegment, IterationFails, LocalsGo, Probed
  <2>2. DecCount' = DecCount /\ Left' = 0
    BY <1>1, <2>1 DEF DecCount, Left
  <2>3. Offset(write_tail) + Left' <= DecCount'
    BY <1>1, <1>3, <2>2
  <2>4. Tiled'
    BY <1>1, <2>3, TiledMoved
  <2>5. LenFits'
    BY <2>1 DEF LenFits
  <2> QED
    BY <1>2, <2>4, <2>5 DEF IhexTiling, TilingInv, Covered
<1> QED
  BY <1>4, <1>5, <1>6, <1>7 DEF DecodeIhex

\* Every step keeps the tiling, unless a chunk is refused in a nested loop.
LEMMA IhexTilingInductive ==
  ASSUME NoneRefused, IhexTypeInv, IhexTypeInv', IhexTiling, [IhexNext]_ihexVars
  PROVE  IhexTiling'
<1>1. TypeInv /\ TypeInv' /\ TilingInv /\ LenFits /\ CalledAtTop
  BY DEF IhexTypeInv, IhexTiling, TilingInv
<1>2. CASE LoopStep \/ EnvironmentStep
  <2>1. TilingInv'
    BY <1>1, <1>2, LayerKeepsTiling
  <2>2. LenFits'
    BY <1>1, <1>2, LayerDoesNotDecode, LayerKeepsFormat DEF LenFits
  <2> QED
    BY <2>1, <2>2 DEF IhexTiling
<1>3. CASE DoFlush(Probed)
  <2>1. /\ UNCHANGED <<decoded_head, decoded_tail, write_tail, write_chunks, calling, enq,
                       result>>
        /\ pc = "flush" /\ pc' \in {"host", "decode"} /\ result = "CONTINUE"
        /\ \/ UNCHANGED <<format_ops, format_data>> /\ pc' = "host"
           \/ format_ops' = TRUE /\ format_data' = IF format_ops THEN format_data ELSE Probed
    <3>1. /\ At("flush")
          /\ UNCHANGED <<decoded_buf, decoded_head, tailVars, write_chunks, calling, enq,
                         dfuVars>>
      BY <1>3, Zenon DEF DoFlush
    <3>2. /\ pc' \in {"host", "decode"}
          /\ \/ UNCHANGED <<format_ops, format_data>> /\ pc' = "host"
             \/ format_ops' = TRUE /\ format_data' = IF format_ops THEN format_data ELSE Probed
      BY <1>3 DEF DoFlush
    <3> QED
      BY <3>1, <3>2 DEF At, tailVars, dfuVars
  <2>2. Tiled /\ Tiled' /\ CalledAtTop'
    <3>1. Tiled /\ Left = 0 /\ Left' = 0
      BY <1>1, <2>1 DEF TilingInv, Covered, Left
    <3>2. Offset(write_tail) + Left' <= DecCount'
      BY <2>1, <3>1 DEF Tiled, DecCount
    <3>3. UNCHANGED <<decoded_tail, write_tail, write_chunks>>
      BY <2>1
    <3>4. Tiled'
      BY <3>1, <3>2, <3>3, TiledMoved
    <3>5. CalledAtTop'
      BY <1>1, <2>1 DEF CalledAtTop
    <3> QED
      BY <3>1, <3>4, <3>5
  <2>3. LenFits'
    <3>1. format_ops' => format_data'.len = 0
      <4>1. format_ops => format_data.len = 0
        BY <1>1, <2>1 DEF LenFits
      <4>2. Probed.len = 0
        BY DEF Probed
      <4> QED
        BY <2>1, <4>1, <4>2
    <3>2. /\ Offset(write_tail) \in Nat /\ DecCount \in Nat /\ Left = 0
          /\ Offset(write_tail)' = Offset(write_tail) /\ DecCount' = DecCount
      BY <1>1, <2>1, Offsets, Sizes DEF Offset, DecCount, Left
    <3>3. Offset(write_tail) <= DecCount
      BY <2>2, <3>2 DEF Tiled
    <3> QED
      BY <3>1, <3>2, <3>3 DEF LenFits
  <2> QED
    BY <2>2, <2>3 DEF IhexTiling, TilingInv, Covered
<1>4. CASE DecodeIhex
  BY <1>4, DecodeKeepsTiling
<1>5. CASE RxTimeout(IhexStuck) \/ ProbeRefuses \/ UNCHANGED ihexVars
  <2>1. /\ UNCHANGED <<decVars, tailVars, write_chunks, pc, calling, enq, flagVars>>
        /\ result' # "ERROR" => result # "ERROR"
    <3>1. CASE RxTimeout(IhexStuck)
      BY <3>1, Zenon DEF RxTimeout
    <3>2. CASE UNCHANGED ihexVars
      BY <3>2 DEF ihexVars, vars, dfuVars
    <3>3. CASE ProbeRefuses
      BY <3>3, ProbeRefusesFrame
    <3> QED
      BY <1>5, <3>1, <3>2, <3>3
  <2>2. /\ UNCHANGED <<decoded_head, decoded_tail, write_tail, write_chunks, pc, calling, enq,
                       format_ops, format_data>>
        /\ result' # "ERROR" => result # "ERROR"
    BY <2>1 DEF decVars, tailVars, flagVars
  <2>3. Offset(write_tail)' = Offset(write_tail) /\ DecCount' = DecCount /\ Left' = Left
    BY <2>2 DEF Offset, DecCount, Left
  <2>4. LenFits' /\ CalledAtTop'
    BY <1>1, <2>2, <2>3 DEF LenFits, CalledAtTop
  <2>5. ASSUME Tiled
        PROVE  Tiled'
    <3>1. Offset(write_tail) + Left' <= DecCount'
      BY <2>3, <2>5 DEF Tiled
    <3> QED
      BY <2>2, <2>5, <3>1, TiledMoved
  <2> QED
    BY <1>1, <2>2, <2>4, <2>5 DEF IhexTiling, TilingInv, Covered
<1> QED
  BY <1>2, <1>3, <1>4, <1>5
  DEF IhexNext, IhexGoesOn, EnvironmentActs, Flushes, IhexTimesOut, IhexTerminated

\* The write chunks of an Intel HEX file tile the decoded ring without holes or
\* overlaps, as long as none is refused as misaligned in a nested loop: freeing a
\* chunk frees its own bytes, and decoding never writes over bytes to be programmed.
THEOREM IhexRingTiled ==
  /\ IhexSpec
  /\ IgnoreAlignment \/ ~NestedIdle \/ [][~RefusedInside]_ihexVars
  => []ChunksTileRing
<1>1. IhexInit => IhexTypeInv /\ IhexTiling
  <2>1. IhexInit => LenFits
    BY DEF IhexInit, Init, LenFits
  <2> QED
    BY <2>1, IhexTypeInit, TilingInit DEF IhexInit, IhexTiling
<1>2. IhexTypeInv /\ IhexTiling /\ [IhexNext]_ihexVars /\ [~RefusedInside]_ihexVars
        => (IhexTypeInv /\ IhexTiling)'
  <2> SUFFICES ASSUME IhexTypeInv, IhexTiling, [IhexNext]_ihexVars, [~RefusedInside]_ihexVars
               PROVE  (IhexTypeInv /\ IhexTiling)'
    OBVIOUS
  <2>1. IhexTypeInv'
    BY IhexTypeInductive
  <2>2. NoneRefused
    <3>1. UNCHANGED ihexVars => ~EnqueueForWriting \/ NoneRefused
      <4> SUFFICES ASSUME UNCHANGED ihexVars, EnqueueForWriting, NewChunk
                   PROVE  ~Misaligned
        BY DEF NoneRefused
      <4>1. pc = "enqueue" /\ pc' = pc
        BY DEF EnqueueForWriting, At, ihexVars, vars
      <4> QED
        BY <4>1 DEF NewChunk, IterationFails
    <3> QED
      BY <3>1, NoneRefusedThen DEF NoneRefused
  <2> QED
    BY <2>1, <2>2, IhexTilingInductive
<1>3. IgnoreAlignment \/ ~NestedIdle =>
        (IhexTypeInv /\ IhexTiling /\ [IhexNext]_ihexVars => (IhexTypeInv /\ IhexTiling)')
  <2> SUFFICES ASSUME IgnoreAlignment \/ ~NestedIdle,
                      IhexTypeInv, IhexTiling, [IhexNext]_ihexVars
               PROVE  (IhexTypeInv /\ IhexTiling)'
    OBVIOUS
  <2>1. IhexTypeInv'
    BY IhexTypeInductive
  <2>2. NoneRefused
    BY DEF NoneRefused, IhexTiling, TilingInv, CalledAtTop, Misaligned, EnqueueForWriting, At
  <2> QED
    BY <2>1, <2>2, IhexTilingInductive
<1>4. IhexTiling => ChunksTileRing
  BY DEF IhexTiling, TilingInv, Covered, ChunksTileRing
<1>5. CASE IgnoreAlignment \/ ~NestedIdle
  BY <1>1, <1>3, <1>4, <1>5, PTL DEF IhexSpec
<1>6. CASE ~(IgnoreAlignment \/ ~NestedIdle)
  BY <1>1, <1>2, <1>4, <1>6, PTL DEF IhexSpec
<1> QED
  BY <1>5, <1>6
=============================================================================
