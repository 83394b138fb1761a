---------------------------- MODULE FlashAccess ----------------------------
(***************************************************************************)
(* Byte-wise access to the spi flash of the ESP8266                        *)
(* (src/file-container-esp8266.c).  The flash is read and programmed in    *)
(* words of four bytes at aligned addresses, from and to aligned memory.   *)
(*                                                                         *)
(* An address is an offset in the data of a sector, which starts on a      *)
(* word.  Of a pointer only the alignment counts.  A byte is a tuple:      *)
(* Data(n, k) is byte k of the n-th file that was created.                 *)
(***************************************************************************)
EXTENDS Integers, Sequences

CONSTANT TmpSize  \* TMP_BUF_SIZE

ASSUME TmpSizeOfWords == TmpSize \in Nat /\ TmpSize > 0 /\ TmpSize % 4 = 0

Data(n, k) == <<n, k>>

Erased  == <<0, 0>>  \* 0xff
Unknown == <<0, 1>>  \* neither erased nor what was last programmed

\* Programming clears bits: it changes a byte that was erased, and leaves
\* one that already has the value.
Programmed(old, new) ==
  IF old = Erased \/ old = new THEN new
  ELSE IF new = Erased THEN old ELSE Unknown

Min2(a, b) == IF a < b THEN a ELSE b

AlignPrev(a) == a - (a % 4)
AlignNext(a) == AlignPrev(a + 3)

\* Bytes from address a to its next word.
StartDelta(a) == AlignNext(a) - a

-----------------------------------------------------------------------------
(* Writing.  The operators below give the calls of spi_flash_write() in    *)
(* their order.  A word that is read, partly replaced and written back is  *)
(* a call for the bytes that are replaced, the others do not change.       *)

Call(at, bytes) == [at |-> at, bytes |-> bytes]

\* The contents d of a sector after a call.
Store(d, call) ==
  [a \in DOMAIN d |->
     IF a \in call.at .. call.at + Len(call.bytes) - 1
     THEN Programmed(d[a], call.bytes[a - call.at + 1])
     ELSE d[a]]

\* They are after all of the calls, in their order.
After(d, calls) ==
  LET after[i \in 0 .. Len(calls)] ==
        IF i = 0 THEN d ELSE Store(after[i - 1], calls[i])
  IN  after[Len(calls)]

AlignedWrite(dst, src) ==
  LET aligned_sz == AlignPrev(Len(src))
  IN  <<Call(dst, SubSeq(src, 1, aligned_sz)),
        Call(dst + aligned_sz, SubSeq(src, aligned_sz + 1, Len(src)))>>

\* The first word is read at aligned_dst - 4 and written at aligned_dst.
\* The last one is read and never written.
EquallyUnalignedWrite(d, dst, src) ==
  LET aligned_dst == AlignNext(dst)
      start_delta == StartDelta(dst)
      aligned_sz  == AlignPrev(Len(src) - start_delta)
      v == [i \in 1 .. 4 |-> IF i > 4 - start_delta
                             THEN src[i - 4 + start_delta]
                             ELSE d[aligned_dst - 5 + i]]
  IN  <<Call(aligned_dst,
             SubSeq(src, start_delta + 1, start_delta + aligned_sz)),
        Call(aligned_dst, v)>>

\* Wrong: the bytes after the last whole word are left out.
SlowFlashWrite_NoEnd(dst, src) ==
  LET start_delta == StartDelta(dst)
      aligned_sz  == AlignPrev(Len(src) - start_delta)
  IN  <<Call(AlignNext(dst),
             SubSeq(src, start_delta + 1, start_delta + aligned_sz)),
        Call(dst, SubSeq(src, 1, start_delta)),
        Call(dst, <<>>)>>

\* One turn of the loop: the words that are whole, then the bytes before
\* them and those after them.
SlowFlashWrite(dst, src) ==
  LET start_delta == StartDelta(dst)
      aligned_sz  == AlignPrev(Len(src) - start_delta)
      middle      == start_delta + aligned_sz
  IN  <<Call(AlignNext(dst), SubSeq(src, start_delta + 1, middle)),
        Call(dst, SubSeq(src, 1, start_delta)),
        Call(dst + middle, SubSeq(src, middle + 1, Len(src)))>>

\* Each turn takes what fits in the temporary buffer.
SlowPieces(dst, src) ==
  LET Turn(k) == SlowFlashWrite(dst + k * TmpSize,
                                SubSeq(src, k * TmpSize + 1,
                                       Min2((k + 1) * TmpSize, Len(src))))
  IN  [i \in 1 .. 3 * ((Len(src) + TmpSize - 1) \div TmpSize) |->
         Turn((i - 1) \div 3)[((i - 1) % 3) + 1]]

\* align is the alignment of src, sz its length.
EquallyUnaligned(at, align) == align = at % 4 /\ align # 0

\* The size of the whole words is negative: a call of about 4 GB.
AccessCrashes(at, align, sz) == EquallyUnaligned(at, align) /\ sz < StartDelta(at)

WriteCrashes(dst, align, sz) ==
  \/ AccessCrashes(dst, align, sz)
  \/ /\ align # dst % 4
     /\ sz % TmpSize \in 1 .. StartDelta(dst) - 1

FlashWrite(d, dst, align, src) ==
  IF EquallyUnaligned(dst, align) THEN EquallyUnalignedWrite(d, dst, src)
  ELSE IF align = dst % 4         THEN AlignedWrite(dst, src)
  ELSE SlowPieces(dst, src)

-----------------------------------------------------------------------------
(* Reading *)

\* Wrong: the bytes before src in its word are not skipped.
SlowFlashRead_FromWord(d, src, sz) ==
  [i \in 1 .. sz |-> d[AlignPrev(src) + i - 1]]

\* The slow read does not fetch the word of the last byte when that byte is
\* the first one of its word: it returns what the temporary buffer had.
SlowFlashRead(d, src, sz) ==
  [i \in 1 .. sz |-> IF src + i - 1 < AlignNext(src + sz - 1)
                     THEN d[src + i - 1] ELSE Unknown]

FlashRead(d, src, align, sz) ==
  IF align = src % 4 THEN [i \in 1 .. sz |-> d[src + i - 1]]
  ELSE SlowFlashRead(d, src, sz)
=============================================================================
