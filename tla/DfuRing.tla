------------------------------ MODULE DfuRing ------------------------------
(***************************************************************************)
(* Index arithmetic of the circular buffers of libdfu                      *)
(* (include/dfu-internal.h).  The raw file buffer, the decoded buffer and  *)
(* the pool of write chunks are all rings with one slot kept free: head is *)
(* the next slot to fill, tail the next slot to empty.                     *)
(*                                                                         *)
(* The code reduces an index with "& (size - 1)", which is the remainder   *)
(* modulo size because every size is a power of two.                       *)
(***************************************************************************)
EXTENDS Integers

PowersOfTwo == {1, 2, 4, 8, 16, 32, 64, 128, 256, 512, 1024, 2048}

Mask(x, size) == x % size

Min2(a, b) == IF a < b THEN a ELSE b

\* Slots in use between tail and head.
RingCount(head, tail, size) == Mask(head - tail, size)

\* Slots that can still be filled; one slot always stays free.
RingSpace(head, tail, size) == Mask(tail - (head + 1), size)

\* Slots in use that do not wrap past the end of the array.
RingCountToEnd(head, tail, size) ==
  LET end == size - tail
      n   == Mask(head + end, size)
  IN  IF n < end THEN n ELSE end

\* Free slots that do not wrap past the end of the array.
RingSpaceToEnd(head, tail, size) ==
  LET end == size - 1 - head
      n   == Mask(end + tail, size)
  IN  IF n <= end THEN n ELSE end + 1
=============================================================================
