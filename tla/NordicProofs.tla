---------------------------- MODULE NordicProofs ----------------------------
(***************************************************************************)
(* Nordic zip packages (NordicZip, NordicSpi): what the target is handed   *)
(* are bytes of the files of the package at their addresses, for every     *)
(* package, size of the buffers, order of events and answer of the device. *)
(*                                                                         *)
(* Two facts bear it.  The parser is in step with the package, or has lost *)
(* a file that the manifest will be found to lack.  Every chunk lies in    *)
(* one page, because the format aligns the decoded ring before a file      *)
(* begins: the bytes of two files are never in one chunk.                  *)
(***************************************************************************)
EXTENDS UploadProofs, WellFoundedInduction

-----------------------------------------------------------------------------
(* The chunks are cut in pages                                             *)

\* n bytes for address a in slots from s on lie in one write chunk's length, and the
\* address starts one.
OnePage(a, s, n) ==
  /\ a % WriteChunkSize = 0
  /\ n \in 1 .. WriteChunkSize /\ (s % WriteChunkSize) + n <= WriteChunkSize

\* So do the chunks, and what is to be cut into one; a full chunk is closed.
OnePages ==
  /\ \A i \in 1 .. Len(write_chunks) :
       LET c == write_chunks[i]
       IN  OnePage(c.addr, c.start, c.len) /\ (c.pending => c.len < WriteChunkSize)
  /\ pc = "enqueue" => OnePage(enq.addr, write_tail, enq.len)

\* When the format decodes there is room in the decoded ring for a chunk that is
\* realigned: decoded_chunk_size is doubled before (_bf_get_decoded_chunk_size()),
\* unless it was large enough at first.
Roomy ==
  /\ pc = "decode" => 2 * decoded_chunk_size <= DecSpace
  /\ \/ WriteChunkSize <= 2 * decoded_chunk_size
     \/ decoded_head = decoded_chunk_size /\ DecCount <= decoded_chunk_size

\* Less than a chunk after an aligned address, no address is.
LEMMA NotAligned ==
  ASSUME NEW w \in Nat \ {0}, NEW a \in Nat, NEW n \in Nat, a % w = 0, 0 < n, n < w
  PROVE  (a + n) % w = n
<1>1. Mask(a, w) + n < w
  BY DEF Mask
<1>2. Mask(a + n, w) = Mask(a, w) + n
  BY <1>1, MaskStraight
<1> QED
  BY <1>2 DEF Mask

\* The largest multiple below a number.
LEMMA PageBelow ==
  ASSUME NEW w \in Nat \ {0}, NEW s \in Nat
  PROVE  s - (s % w) \in Nat /\ (s - (s % w)) % w = 0 /\ s % w < w /\ s % w \in Nat
<1> DEFINE q == s \div w
           r == s % w
<1>1. s = w * q + r /\ q \in Int /\ r \in 0 .. w - 1
  OBVIOUS
<1> HIDE DEF q, r
<1>2. q >= 0
  <2> SUFFICES ASSUME q <= -1 PROVE FALSE
    BY <1>1
  <2>1. w * q <= w * (-1)
    BY <1>1
  <2> QED
    BY <1>1, <2>1
<1>3. w * q \in Nat
  BY <1>1, <1>2
<1>4. 0 \in 0 .. w - 1 /\ q \in Int
  BY <1>1
<1>5. Mask(w * q + 0, w) = 0
  BY ONLY <1>4, w \in Nat \ {0}, MaskLaps
<1>6. s - r \in Nat /\ (s - r) % w = 0
  <2>1. PICK p : p = w * q
    OBVIOUS
  <2>2. s - r = p /\ p + 0 = p /\ p \in Nat
    BY <1>1, <1>3, <2>1
  <2> QED
    BY <1>5, <2>1, <2>2 DEF Mask
<1> QED
  BY <1>1, <1>6 DEF r

\* One chunk's length of slots does not wrap around the end of the ring.
LEMMA OnePieceOfRing ==
  ASSUME NEW s \in DecSlot, NEW n \in Nat, (s % WriteChunkSize) + n <= WriteChunkSize
  PROVE  s + n <= DecodedSize
<1>1. /\ DecodedSize \in Nat \ {0} /\ WriteChunkSize \in Nat \ {0}
      /\ DecodedSize % WriteChunkSize = 0 /\ s \in Nat /\ s < DecodedSize
  BY Sizes, ChunkDividesBuffer DEF DecSlot
<1>2. PICK r : r = s % WriteChunkSize
  OBVIOUS
<1>3. r \in Nat /\ s - r \in Nat /\ (s - r) % WriteChunkSize = 0
  BY <1>1, <1>2, PageBelow
<1>4. Mask(s - r, DecodedSize) + WriteChunkSize <= DecodedSize
  BY <1>1, <1>3, PageFits
<1>5. s - r < DecodedSize
  BY <1>1, <1>3
<1>6. Mask(s - r, DecodedSize) = s - r
  BY <1>1, <1>3, <1>5 DEF Mask
<1>7. r + n <= WriteChunkSize
  BY <1>2
<1> QED
  BY <1>1, <1>3, <1>4, <1>6, <1>7

\* No step of the layer takes the room back.
LEMMA LayerKeepsRoom ==
  ASSUME TypeInv, TypeInv', Roomy, Tiled, LoopStep \/ EnvironmentStep
  PROVE  Roomy' /\ UNCHANGED <<decoded_head, decoded_chunk_size>>
<1>1. pc' # "decode"
  BY LayerDoesNotDecode
<1>2. UNCHANGED <<decoded_head, decoded_chunk_size>>
  <2>1. LoopStep => UNCHANGED <<decoded_head, decoded_chunk_size>>
    BY DEF LoopStep, LoopTop, OnIdle, HostIdle, WriteNothing, WriteErases,
           WriteHandsOver, EnqueueForWriting, decVars
  <2>2. ClientAppends \/ FlushStart \/ ChunkAvailableOk \/ ChunkAvailableFails =>
          UNCHANGED <<decoded_head, decoded_chunk_size>>
    BY DEF ClientAppends, FlushStart, ChunkAvailableOk, ChunkAvailableFails, decVars
  <2>3. ChunkDone \/ ChunkFails \/ BetweenCommands \/ EraseEnds =>
          UNCHANGED <<decoded_head, decoded_chunk_size>>
    BY DEF ChunkDone, ChunkFails, BetweenCommands, EraseEnds, decVars
  <2> QED
    BY <2>1, <2>2, <2>3 DEF EnvironmentStep
<1>3. \/ UNCHANGED decoded_tail
      \/ write_chunks # <<>> /\ PutWriteChunk
  <2>1. LoopStep => UNCHANGED decoded_tail
    BY DEF LoopStep, LoopTop, OnIdle, HostIdle, WriteNothing, WriteErases,
           WriteHandsOver, EnqueueForWriting, tailVars
  <2>2. ClientAppends \/ FlushStart \/ ChunkAvailableOk => UNCHANGED decoded_tail
    BY DEF ClientAppends, FlushStart, ChunkAvailableOk, tailVars
  <2>3. ChunkFails \/ BetweenCommands \/ EraseEnds => UNCHANGED decoded_tail
    BY DEF ChunkFails, BetweenCommands, EraseEnds, tailVars
  <2>4. ChunkAvailableFails => write_chunks # <<>> /\ PutWriteChunk
    BY DEF ChunkAvailableFails
  <2>5. ChunkDone => write_chunks # <<>> /\ PutWriteChunk
    BY DEF ChunkDone, TypeInv, OwnedIsFirst
  <2> QED
    BY <2>1, <2>2, <2>3, <2>4, <2>5 DEF EnvironmentStep
<1>4. DecCount' <= DecCount
  <2>0. DecCount \in Nat
    BY Offsets, Sizes
  <2>1. CASE UNCHANGED decoded_tail
    BY <1>2, <2>0, <2>1 DEF DecCount
  <2>2. CASE write_chunks # <<>> /\ PutWriteChunk
    <3>1. PICK n : n = write_chunks[1].len
      OBVIOUS
    <3>8. 1 \in 1 .. Len(write_chunks)
      BY <2>2, Offsets
    <3>9. n \in Nat
      BY <3>1, <3>8, QueueFields
    <3>10. /\ write_chunks[1].start = decoded_tail
           /\ EndsBy(write_chunks[1], Offset(write_tail))
           /\ Offset(write_tail) + Left <= DecCount
      BY <2>2, <3>8 DEF Tiled
    <3>11. Offset(write_tail) \in Nat /\ Left \in Nat
      BY Offsets, Sizes
    <3>2. /\ n \in Nat
          /\ write_chunks[1].start = decoded_tail
          /\ EndsBy(write_chunks[1], Offset(write_tail))
          /\ Offset(write_tail) + Left <= DecCount
          /\ Offset(write_tail) \in Nat /\ Left \in Nat
      BY <3>9, <3>10, <3>11
    <3>3. Offset(decoded_tail) = 0
      BY Offsets, Sizes DEF Offset, RingCount, Mask, DecSlot
    <3>4. n <= Offset(write_tail)
      BY <3>1, <3>2, <3>3 DEF EndsBy
    <3>5. n <= DecCount
      BY <2>0, <3>2, <3>4
    <3>6. decoded_tail' = Mask(decoded_tail + n, DecodedSize)
      BY <2>2, <3>1, <3>2 DEF PutWriteChunk
    <3>7. DecCount' = DecCount - n
      BY <1>2, <3>2, <3>5, <3>6, Offsets, Sizes, CountAfterFreeing DEF DecCount, DecSlot
    <3> QED
      BY <2>0, <3>2, <3>7
  <2> QED
    BY <1>3, <2>1, <2>2
<1>5. DecCount \in Nat /\ DecCount' \in Nat /\ decoded_chunk_size \in Nat
  <2>1. DecCount \in Nat
    BY Offsets, Sizes
  <2>2. DecCount' \in Nat
    <3>1. decoded_head' \in 0 .. DecodedSize - 1 /\ decoded_tail' \in 0 .. DecodedSize - 1
      BY DEF TypeInv, TypeOK, DecodedTypeOK, DecSlot
    <3> QED
      BY <3>1, CountIsDistance, Sizes DEF DecCount
  <2> QED
    BY <2>1, <2>2 DEF TypeInv, TypeOK, DecodedTypeOK
<1> QED
  BY <1>1, <1>2, <1>4, <1>5 DEF Roomy

\* The chunks still lie in pages when their bounds do not change.
LEMMA PagesFramed ==
  ASSUME OnePages, Len(write_chunks') = Len(write_chunks),
         \A i \in 1 .. Len(write_chunks) :
           /\ write_chunks'[i].addr = write_chunks[i].addr
           /\ write_chunks'[i].start = write_chunks[i].start
           /\ write_chunks'[i].len = write_chunks[i].len
           /\ write_chunks'[i].pending => write_chunks[i].pending,
         pc' = "enqueue" => pc = "enqueue" /\ UNCHANGED <<enq, write_tail>>
  PROVE  OnePages'
BY DEF OnePages, OnePage

\* Cutting bytes into chunks leaves each in its page.
LEMMA EnqueueKeepsPages ==
  ASSUME TypeInv, OnePages, EnqueueForWriting
  PROVE  OnePages'
<1>1. pc = "enqueue" /\ OnePage(enq.addr, write_tail, enq.len)
  BY DEF EnqueueForWriting, At, OnePages
<1>2. /\ enq.addr \in Nat /\ enq.len \in 1 .. WriteChunkSize /\ write_tail \in DecSlot
      /\ enq.addr % WriteChunkSize = 0 /\ enq.len \in Nat
      /\ WriteChunkSize \in Nat \ {0} /\ DecodedSize \in Nat \ {0}
  BY <1>1, Sizes DEF TypeInv, TypeOK, LoopTypeOK, DecodedTypeOK, OnePage
<1>3. CASE FillPending
  <2> DEFINE c == write_chunks[Len(write_chunks)]
  <2>1. Len(write_chunks) \in 1 .. Len(write_chunks) /\ c.pending /\ enq.addr = c.addr + c.len
    BY <1>3, FillPendingEffect, QueueFields
    DEF FillPending, HasPendingChunk, LastChunk, Contiguous
  <2>2. c.addr \in Nat /\ c.len \in Nat
    BY <2>1, QueueFields
  <2>3. c.addr % WriteChunkSize = 0 /\ 0 < c.len /\ c.len < WriteChunkSize
    BY <2>1, <2>2 DEF OnePages, OnePage
  <2> HIDE DEF c
  <2>4. (c.addr + c.len) % WriteChunkSize = c.len
    BY <1>2, <2>2, <2>3, NotAligned
  <2> QED
    BY <1>2, <2>1, <2>3, <2>4
<1>4. CASE ClosePending
  <2> DEFINE c == [write_chunks[Len(write_chunks)] EXCEPT !.pending = FALSE]
  <2>1. write_chunks \in Seq(Chunk) /\ Len(write_chunks) \in 1 .. Len(write_chunks)
    BY <1>4, EmptySeq DEF ClosePending, HasPendingChunk, TypeInv, TypeOK, ChunksTypeOK
  <2>2. /\ c \in Chunk /\ c.addr = write_chunks[Len(write_chunks)].addr
        /\ c.start = write_chunks[Len(write_chunks)].start
        /\ c.len = write_chunks[Len(write_chunks)].len /\ ~c.pending
    <3>1. write_chunks[Len(write_chunks)] \in Chunk
      BY <2>1, ElementOfSeq
    <3> QED
      BY <3>1 DEF Chunk
  <2>3. write_chunks' = [write_chunks EXCEPT ![Len(write_chunks)] = c]
    BY <1>4, <2>1, LenProperties DEF ClosePending
  <2> HIDE DEF c
  <2>4. /\ Len(write_chunks') = Len(write_chunks)
        /\ \A i \in 1 .. Len(write_chunks) :
             write_chunks'[i] = IF i = Len(write_chunks) THEN c ELSE write_chunks[i]
    BY ONLY <2>1, <2>2, <2>3, SetElement
  <2>5. \A i \in 1 .. Len(write_chunks) :
          /\ write_chunks'[i].addr = write_chunks[i].addr
          /\ write_chunks'[i].start = write_chunks[i].start
          /\ write_chunks'[i].len = write_chunks[i].len
          /\ write_chunks'[i].pending => write_chunks[i].pending
    BY <2>2, <2>4
  <2>6. UNCHANGED <<enq, pc, write_tail>>
    BY <1>4 DEF ClosePending
  <2> QED
    BY <2>4, <2>5, <2>6, PagesFramed
<1>5. CASE NewChunk
  <2>1. ~Misaligned
    BY <1>2 DEF Misaligned
  <2>2. NewLen = enq.len
    <3>1. write_tail + enq.len <= DecodedSize
      BY <1>1, <1>2, OnePieceOfRing DEF OnePage
    <3>2. write_tail \in Nat
      BY <1>2 DEF DecSlot
    <3> QED
      BY <1>2, <3>1, <3>2 DEF NewLen, Min2
  <2>3. pc' = "host"
    BY <1>5, <2>1, <2>2 DEF NewChunk, Enqueued
  <2> DEFINE c == write_chunks'[Len(write_chunks')]
  <2>4. /\ Len(write_chunks') = Len(write_chunks) + 1
        /\ \A i \in 1 .. Len(write_chunks) : write_chunks'[i] = write_chunks[i]
        /\ c.addr = enq.addr /\ c.start = write_tail /\ c.len = enq.len
        /\ c.pending => NewLen < WriteChunkSize
    BY <1>5, <2>2, NewChunkEffect
  <2>5. OnePage(c.addr, c.start, c.len) /\ (c.pending => c.len < WriteChunkSize)
    BY <1>1, <2>2, <2>4
  <2>6. Len(write_chunks) \in Nat
    BY QueueFields
  <2>7. ASSUME NEW i \in 1 .. Len(write_chunks')
        PROVE  /\ OnePage(write_chunks'[i].addr, write_chunks'[i].start, write_chunks'[i].len)
               /\ write_chunks'[i].pending => write_chunks'[i].len < WriteChunkSize
    <3>1. CASE i = Len(write_chunks')
      BY <2>5, <3>1
    <3>2. CASE i \in 1 .. Len(write_chunks)
      BY <2>4, <3>2 DEF OnePages
    <3> QED
      BY <2>4, <2>6, <3>1, <3>2
  <2> QED
    BY <2>3, <2>7 DEF OnePages, OnePage
<1>6. CASE NoChunkLeft
  <2>1. UNCHANGED write_chunks /\ pc' = "top"
    BY <1>6 DEF NoChunkLeft, IterationFails
  <2> QED
    BY <2>1 DEF OnePages, OnePage
<1> QED
  BY <1>3, <1>4, <1>5, <1>6 DEF EnqueueForWriting

\* So does every other step of the layer.
LEMMA LayerKeepsPages ==
  ASSUME TypeInv, OnePages, LoopStep \/ EnvironmentStep
  PROVE  OnePages'
<1>1. CASE EnqueueForWriting
  BY <1>1, EnqueueKeepsPages
<1>2. CASE ~EnqueueForWriting
  <2>1. pc' # "enqueue"
    <3>1. LoopStep => pc' # "enqueue"
      BY <1>2 DEF LoopStep, LoopTop, OnIdle, HostIdle, WriteNothing, WriteErases,
                  WriteHandsOver, At
    <3>2. ClientAppends \/ FlushStart \/ ChunkAvailableOk \/ ChunkAvailableFails =>
            pc' # "enqueue"
      BY DEF ClientAppends, FlushStart, ChunkAvailableOk, ChunkAvailableFails, AtEvents, At
    <3>3. ChunkDone \/ ChunkFails \/ BetweenCommands \/ EraseEnds => pc' # "enqueue"
      BY DEF ChunkDone, ChunkFails, BetweenCommands, EraseEnds, AnswerArrives,
             InChunkAvailable, AtEvents, At
    <3> QED
      BY <3>1, <3>2, <3>3 DEF EnvironmentStep
  <2>2. CASE UNCHANGED write_chunks
    BY <2>1, <2>2 DEF OnePages, OnePage
  <2>3. CASE WriteHandsOver
    <3>1. write_chunks \in Seq(Chunk) /\ 1 \in 1 .. Len(write_chunks)
      BY <2>3, EmptySeq, LenProperties
      DEF WriteHandsOver, HasNextWriteChunk, TypeInv, TypeOK, ChunksTypeOK
    <3>2. write_chunks[1] \in Chunk
      BY <3>1, ElementOfSeq
    <3>3. /\ Len(write_chunks') = Len(write_chunks)
          /\ \A i \in 1 .. Len(write_chunks) :
               /\ write_chunks'[i].addr = write_chunks[i].addr
               /\ write_chunks'[i].start = write_chunks[i].start
               /\ write_chunks'[i].len = write_chunks[i].len
               /\ write_chunks'[i].pending => write_chunks[i].pending
      BY <2>3, <3>1, <3>2 DEF WriteHandsOver, Chunk
    <3> QED
      BY <2>1, <3>3, PagesFramed
  <2>4. CASE write_chunks # <<>> /\ PutWriteChunk
    <3>1. /\ Len(write_chunks') = Len(write_chunks) - 1 /\ Len(write_chunks) \in Nat
          /\ \A i \in 1 .. Len(write_chunks') : write_chunks'[i] = write_chunks[i + 1]
      BY <2>4, PutQueue DEF TypeInv, TypeOK, ChunksTypeOK
    <3>2. \A i \in 1 .. Len(write_chunks') : i + 1 \in 1 .. Len(write_chunks)
      BY <3>1
    <3> QED
      BY <2>1, <3>1, <3>2 DEF OnePages, OnePage
  <2>5. LoopTop \/ OnIdle \/ HostIdle \/ WriteNothing \/ WriteErases => UNCHANGED write_chunks
    BY DEF LoopTop, OnIdle, HostIdle, WriteNothing, WriteErases
  <2>6. ClientAppends \/ FlushStart \/ ChunkAvailableOk => UNCHANGED write_chunks
    BY DEF ClientAppends, FlushStart, ChunkAvailableOk
  <2>7. ChunkFails \/ BetweenCommands \/ EraseEnds => UNCHANGED write_chunks
    BY DEF ChunkFails, BetweenCommands, EraseEnds
  <2>8. ChunkAvailableFails => write_chunks # <<>> /\ PutWriteChunk
    BY DEF ChunkAvailableFails
  <2>9. ChunkDone => write_chunks # <<>> /\ PutWriteChunk
    BY DEF ChunkDone, TypeInv, OwnedIsFirst
  <2> QED
    BY <1>2, <2>2, <2>3, <2>4, <2>5, <2>6, <2>7, <2>8, <2>9 DEF LoopStep, EnvironmentStep
<1> QED
  BY <1>1, <1>2

-----------------------------------------------------------------------------
(* The steps of an upload of a package, and the invariant                  *)

\* What the layer does not touch.
zipState == <<package, nzstate, fileVars, image, dropped>>

\* Results of an upload that stops for another reason than an error of the format.
GivenUp == {"HANG", "OTHER_FORMAT"}

\* The file is another format's, or the device waits for good.
GivesUp ==
  /\ result' \in GivenUp
  /\ UNCHANGED <<decoded_buf, owned, dropped>>

\* What an upload of a package may do next: a step of the layer or of the target,
\* one of the format, or nothing any more.
LEMMA NordicSteps ==
  ASSUME [NordicNext]_allVars
  PROVE  \/ (LoopStep \/ EnvironmentStep) /\ UNCHANGED zipState
         \/ DoFlush(0) /\ UNCHANGED zipState
         \/ RxTimeout(NordicStuck) /\ UNCHANGED zipState
         \/ DecodeZip
         \/ UNCHANGED vars /\ UNCHANGED zipState
         \/ GivesUp
<1>0. UNCHANGED zipVars => UNCHANGED zipState
  BY DEF zipVars, zipState, fileVars
<1>1. CASE Appends \/ Starts
  BY <1>0, <1>1, Zenon DEF Appends, Starts, EnvironmentStep
<1>2. CASE NordicTimesOut
  BY <1>0, <1>2, Zenon DEF NordicTimesOut
<1>3. CASE NordicGoesOn \/ IterationStarts
  <2>1. UNCHANGED zipVars
    BY <1>3, Zenon DEF NordicGoesOn, IterationStarts
  <2>2. LoopStep
    BY <1>3, Zenon DEF NordicGoesOn, IterationStarts, LoopStep
  <2> QED
    BY <1>0, <2>1, <2>2
<1>4. CASE HandOver
  <2>1. UNCHANGED zipVars
    BY <1>4 DEF HandOver
  <2>2. LoopStep
    BY <1>4, Zenon DEF HandOver, LoopStep
  <2> QED
    BY <1>0, <2>1, <2>2
<1>5. CASE FormatStep
  <2>1. CASE FlushZip
    BY <1>0, <2>1, Zenon DEF FlushZip
  <2>2. CASE OtherFormat
    BY <2>2 DEF OtherFormat, GivesUp, GivenUp, decVars, targetVars, zipVars
  <2> QED
    BY <1>5, <2>1, <2>2 DEF FormatStep
<1>6. CASE DecodeStep
  BY <1>6, Zenon DEF DecodeStep
<1>7. CASE TargetStep
  <2>1. CASE SyncFails \/ Created
    <3>1. UNCHANGED vars /\ UNCHANGED zipVars
      BY <2>1 DEF SyncFails, Created
    <3> QED
      BY <1>0, <3>1
  <2>2. CASE Accepted
    <3>1. UNCHANGED zipVars
      BY <2>2 DEF Accepted
    <3>2. ChunkAvailableOk
      BY <2>2, Zenon DEF Accepted
    <3> QED
      BY <1>0, <3>1, <3>2, Zenon DEF EnvironmentStep
  <2>3. CASE Rejected
    <3>1. UNCHANGED zipState
      BY <2>3 DEF Rejected, zipState, fileVars
    <3>2. ChunkAvailableFails
      BY <2>3, Zenon DEF Rejected
    <3> QED
      BY <3>1, <3>2, Zenon DEF EnvironmentStep
  <2>4. CASE ChunkSent
    <3>1. UNCHANGED zipState
      BY <2>4 DEF ChunkSent, zipState, fileVars
    <3>2. ChunkDone \/ ChunkFails \/ BetweenCommands
      BY <2>4, Zenon DEF ChunkSent
    <3> QED
      BY <3>1, <3>2, Zenon DEF EnvironmentStep
  <2>5. CASE CalcCrc \/ CrcReceived \/ ExecObj
    <3>1. UNCHANGED zipVars
      BY <2>5 DEF CalcCrc, CrcReceived, ExecObj, OnIdleStarts
    <3>2. BetweenCommands
      BY <2>5, Zenon DEF CalcCrc, CrcReceived, ExecObj, OnIdleStarts
    <3> QED
      BY <1>0, <3>1, <3>2, Zenon DEF EnvironmentStep
  <2>6. CASE Executed \/ ThrownAway
    <3>1. UNCHANGED zipVars
      BY <2>6 DEF Executed, ThrownAway
    <3>2. ChunkDone
      BY <2>6, Zenon DEF Executed, ThrownAway
    <3> QED
      BY <1>0, <3>1, <3>2, Zenon DEF EnvironmentStep
  <2>7. CASE Selected \/ NotSelected
    <3>1. StartSendingFile
      BY <2>7, Zenon DEF Selected, NotSelected
    <3>2. /\ UNCHANGED zipVars
          /\ UNCHANGED <<rawVars, decVars, tailVars, decoded_chunk_size,
                         write_chunks, flagVars, rx_timeout, pc, calling, enq, error,
                         targetVars>>
          /\ result' = "HANG" \/ UNCHANGED result
      BY <3>1 DEF StartSendingFile
    <3>3. CASE result' = "HANG"
      BY <3>2, <3>3 DEF GivesUp, GivenUp, decVars, targetVars, zipVars
    <3>4. CASE UNCHANGED result
      BY <1>0, <3>2, <3>4 DEF vars, dfuVars
    <3> QED
      BY <3>2, <3>3, <3>4
  <2> QED
    BY <1>7, <2>1, <2>2, <2>3, <2>4, <2>5, <2>6, <2>7, Zenon DEF TargetStep
<1>8. CASE UNCHANGED allVars
  <2>1. UNCHANGED vars /\ UNCHANGED zipVars
    BY <1>8 DEF allVars
  <2> QED
    BY <1>0, <2>1
<1> QED
  BY <1>1, <1>2, <1>3, <1>4, <1>5, <1>6, <1>7, <1>8, Zenon DEF NordicNext, NordicTerminated

\* The states in which the package is read.
Parsing == {"IDLE", "STORING_FILE", "IGNORING_FILE"}

\* Unit h of the package is the local header of file f.
IsHeader(f, h) ==
  /\ h \in 1 .. FileSize
  /\ package.content[h].kind = "local" /\ package.content[h].file = f

\* What is stored of file f are the units after its local header, in order.
Complete(f) ==
  \E h \in 1 .. Consumed :
    /\ IsHeader(f, h)
    /\ Len(stored[f]) = package.size[f]
    /\ \A n \in 1 .. package.size[f] : stored[f][n] = h + n

\* A member begins at unit j, or there is none any more.
NextMember(j) ==
  \/ j <= FileSize /\ package.content[j].kind = "local"
  \/ \A i \in j .. FileSize : package.content[i].kind # "local"

\* The units read last are the ones that are stored of file f.
InMember(f) ==
  /\ f \notin package.others /\ f \notin received
  /\ IsHeader(f, Consumed - 1 - done[f])
  /\ stored[f] \in Seq(Nat) /\ Len(stored[f]) = done[f]
  /\ \A n \in 1 .. done[f] : stored[f][n] = Consumed - 1 - done[f] + n

\* The parser knows where in the package it is: between two members, or in the
\* one that it thinks.
InStep ==
  /\ \A f \in received : Complete(f)
  /\ nzstate = "IDLE" => NextMember(Consumed + 1)
  /\ nzstate = "IGNORING_FILE" => \E f \in package.others : IsHeader(f, Consumed - 1)
  /\ nzstate = "STORING_FILE" => InMember(curr_rf)

\* The manifest lists f.
Listed(f) == \E i \in 1 .. Len(Images) : f \in ImageFiles(Images[i])

\* A file that is needed was passed and is not among those received.  The manifest
\* will then be refused (nordic_check_manifest()).
OneLost ==
  \E f \in Members :
    /\ f = package.manifest \/ Listed(f)
    /\ f \notin received
    /\ nzstate = "STORING_FILE" => curr_rf # f
    /\ \E h \in 1 .. Consumed : IsHeader(f, h)

\* Every file of the images is there, and those of the images to come were not
\* begun.
ReadyToSend ==
  /\ \A f \in Members : Listed(f) => Complete(f)
  /\ image \in 1 .. Len(Images)
  /\ nzstate = "SENDING_COMMAND" => image = 1 /\ done[Images[1].bin] = 0
  /\ done[SentFile] \in Nat /\ done[SentFile] < package.size[SentFile]
  /\ done[SentFile] % WriteChunkSize = 0
  /\ \A i \in image + 1 .. Len(Images) : done[Images[i].bin] = 0

\* The types of what the format keeps.
ZipTypeOK ==
  /\ package \in Packages
  /\ nzstate \in Parsing \cup Sending \cup {"ALL_DONE"}
  /\ received \subseteq Members
  /\ DOMAIN stored = Members /\ DOMAIN done = Members
  /\ nzstate = "STORING_FILE" =>
       curr_rf \in Members /\ done[curr_rf] \in 0 .. package.size[curr_rf] - 1

\* The package is read in step or a needed file is lost, and nothing is sent
\* unless all is there.
ZipInv ==
  /\ ZipTypeOK
  /\ nzstate \in Parsing => InStep \/ OneLost
  /\ nzstate \in Sending => ReadyToSend

\* The addresses of the bytes sent only to align the next ones.
Realigning == ThrowAway .. ThrowAway + WriteChunkSize - 1

\* The data units carry their own address; what aligns the ring may be anything.
RightBytes ==
  {<<a, s, a>> : a \in Nat, s \in DecSlot}
    \cup {<<a, s, d>> : a \in Realigning, s \in DecSlot, d \in Nat \cup {NoData}}

\* What is true until the upload has failed.
NordicLive ==
  /\ TypeInv /\ RawInOrder /\ TilingInv
  /\ ZipInv /\ OnePages /\ Roomy /\ HeldGood(RightBytes)
  /\ result # "ERROR" => HeadAfter(0)

\* It is when the format's data do not change.
LEMMA ZipFramed ==
  ASSUME ZipInv, UNCHANGED zipState, UNCHANGED Consumed
  PROVE  ZipInv'
<1>1. UNCHANGED <<package, nzstate, curr_rf, stored, done, received, removed, image>>
  BY DEF zipState, fileVars
<1>2. /\ UNCHANGED <<Members, Images, SentFile>>
      /\ \A f, h : IsHeader(f, h)' = IsHeader(f, h)
      /\ \A f : Listed(f)' = Listed(f)
      /\ \A j : NextMember(j)' = NextMember(j)
  BY <1>1 DEF Members, Images, SentFile, IsHeader, Listed, NextMember
<1>3. \A f : Complete(f)' = Complete(f) /\ InMember(f)' = InMember(f)
  BY <1>1, <1>2 DEF Complete, InMember
<1>4. ReadyToSend' = ReadyToSend
  BY <1>1, <1>2, <1>3 DEF ReadyToSend
<1>5. InStep' = InStep
  BY <1>1, <1>2, <1>3 DEF InStep
<1>6. OneLost' = OneLost
  BY <1>1, <1>2 DEF OneLost
<1>7. ZipTypeOK' = ZipTypeOK
  BY <1>1, <1>2 DEF ZipTypeOK
<1> QED
  BY <1>1, <1>4, <1>5, <1>6, <1>7 DEF ZipInv

\* The steps of the layer and of the target keep the invariant.
LEMMA NordicLayer ==
  ASSUME NordicLive, LoopStep \/ EnvironmentStep, UNCHANGED zipState, ~RefusedInside
  PROVE  NordicLive'
<1>1. /\ TypeInv /\ RawInOrder /\ TilingInv /\ ZipInv /\ OnePages /\ Roomy
      /\ HeldGood(RightBytes)
      /\ result = "CONTINUE" /\ HeadAfter(0) /\ Tiled
  BY LayerDoesNotDecode DEF NordicLive, TilingInv, Covered
<1>2. TypeInv'
  BY <1>1, LayerStepType
<1>3. RawInOrder' /\ Consumed' = Consumed
  BY <1>1, LayerKeepsRaw
<1>4. NoneRefused
  <2>1. pc = "enqueue" => ~Misaligned
    BY <1>1 DEF OnePages, OnePage, Misaligned
  <2> QED
    BY <2>1 DEF NoneRefused, EnqueueForWriting, At
<1>5. TilingInv'
  BY <1>1, <1>2, <1>4, LayerKeepsTiling
<1>6. ZipInv'
  BY <1>1, <1>3, ZipFramed
<1>7. OnePages' /\ Roomy'
  BY <1>1, <1>2, LayerKeepsPages, LayerKeepsRoom
<1>8. HeldGood(RightBytes)'
  <2>1. PICK R : R = RightBytes
    OBVIOUS
  <2>2. HeldGood(R)'
    BY <1>1, <1>2, <2>1, LayerKeepsHeld
  <2>3. RightBytes' = RightBytes
    BY DEF RightBytes, Realigning, DecSlot
  <2> QED
    BY <2>1, <2>2, <2>3
<1>9. result' # "ERROR" => HeadAfter(0)'
  BY <1>1, LayerKeepsHead
<1> QED
  BY <1>2, <1>3, <1>5, <1>6, <1>7, <1>8, <1>9 DEF NordicLive

\* So does a step that leaves the chunks and the decoded ring alone.
LEMMA NordicFramed ==
  ASSUME NordicLive, TypeInv', Consumed' = Consumed, RawInOrder',
         result = "CONTINUE", UNCHANGED zipState,
         UNCHANGED <<decoded_buf, decoded_head, decoded_tail, write_tail, decoded_chunk_size,
                     write_chunks, calling, enq, owned, result>>,
         pc' = "enqueue" => pc = "enqueue",
         pc = "enqueue" => pc' = "enqueue",
         pc = "top" => pc' = "top",
         pc' = "decode" => pc = "decode" \/ 2 * decoded_chunk_size <= DecSpace
  PROVE  NordicLive'
<1>1. /\ TypeInv /\ RawInOrder /\ TilingInv /\ ZipInv /\ OnePages /\ Roomy
      /\ HeldGood(RightBytes) /\ HeadAfter(0) /\ Covered /\ CalledAtTop
  BY DEF NordicLive, TilingInv
<1>2. ZipInv'
  BY <1>1, ZipFramed
<1>3. TilingInv'
  BY <1>1, TilingFramed DEF TilingInv, CalledAtTop
<1>4. OnePages'
  BY <1>1, PagesFramed
<1>5. Roomy'
  BY <1>1 DEF Roomy, DecSpace, DecCount
<1>6. HeldGood(RightBytes)'
  <2>1. PICK R : R = RightBytes
    OBVIOUS
  <2>2. HeldGood(R)'
    BY <1>1, <2>1, HeldFramed
  <2>3. RightBytes' = RightBytes
    BY DEF RightBytes, Realigning, DecSlot
  <2> QED
    BY <2>1, <2>2, <2>3
<1>7. HeadAfter(0)'
  BY <1>1 DEF HeadAfter, Left
<1> QED
  BY <1>2, <1>3, <1>4, <1>5, <1>6, <1>7 DEF NordicLive

\* The flush step and the timeout are such.
LEMMA NordicOthers ==
  ASSUME NordicLive, UNCHANGED zipState,
         DoFlush(0) \/ RxTimeout(NordicStuck)
  PROVE  NordicLive'
<1>1. TypeInv /\ RawInOrder
  BY DEF NordicLive
<1>2. TypeInv'
  BY <1>1, DoFlushType, RxTimeoutType
<1>3. CASE DoFlush(0)
  <2>1. /\ UNCHANGED <<rawVars, decoded_buf, decoded_head, tailVars, decoded_chunk_size,
                       write_chunks, calling, enq, dfuVars, targetVars>>
        /\ At("flush")
    BY <1>3 DEF DoFlush
  <2>2. /\ pc' \in {"host", "decode"}
        /\ pc' = "decode" => ~(DecSpace < 2 * decoded_chunk_size)
    BY <1>3 DEF DoFlush
  <2>3. DecSpace \in Int /\ decoded_chunk_size \in Int
    BY <1>1, Sizes, CountPlusSpace DEF DecSpace, TypeInv, TypeOK, DecodedTypeOK, DecSlot
  <2>4. RawInOrder' /\ Consumed' = Consumed
    BY <1>1, <2>1 DEF rawVars, RawInOrder, Consumed, RawCount
  <2> QED
    BY <1>2, <2>1, <2>2, <2>3, <2>4, NordicFramed
    DEF At, tailVars, dfuVars, targetVars
<1>4. CASE RxTimeout(NordicStuck)
  <2>1. /\ UNCHANGED <<rawVars, decVars, tailVars, decoded_chunk_size,
                       write_chunks, calling, enq, pc, result, targetVars>>
        /\ result = "CONTINUE"
    BY <1>4, RxTimeoutFrame DEF RxTimeout
  <2>2. RawInOrder' /\ Consumed' = Consumed
    BY <1>1, <2>1 DEF rawVars, RawInOrder, Consumed, RawCount
  <2> QED
    BY <1>2, <2>1, <2>2, NordicFramed DEF decVars, tailVars, targetVars
<1> QED
  BY <1>3, <1>4

-----------------------------------------------------------------------------
(* Reading the package                                                     *)

\* A set of numbers that is not empty has a least element.
LEMMA LeastNumber ==
  ASSUME NEW S \in SUBSET Nat, S # {}
  PROVE  \E m \in S : \A k \in S : m <= k
<1> DEFINE R == OpToRel(<, Nat)
<1>1. IsWellFoundedOn(R, Nat)
  BY NatLessThanWellFounded
<1>2. \A x, y \in Nat : x < y <=> <<x, y>> \in R
  BY DEF OpToRel
<1> HIDE DEF R
<1>3. PICK m \in S : \A y \in S : ~(<<y, m>> \in R)
  BY <1>1, WFMin
<1>4. ASSUME NEW k \in S PROVE m <= k
  <2>1. ~(k < m)
    BY <1>2, <1>3
  <2> QED
    BY <2>1
<1> QED
  BY <1>4

\* What is in the raw ring is the piece of the package that comes next.
LEMMA RawUnits ==
  ASSUME TypeInv, RawInOrder
  PROVE  /\ RawCount \in Nat /\ Consumed \in Nat /\ Consumed + RawCount <= FileSize
         /\ FileSize \in Nat
         /\ \A k \in 0 .. RawCount - 1 :
              /\ buf[Mask(tail + k, RawSize)] = Consumed + k
              /\ Consumed + k + 1 \in 1 .. FileSize
              /\ Unit(k) = package.content[Consumed + k + 1]
<1>1. /\ RawCount \in Nat /\ Consumed \in Nat /\ tot_appended \in Nat
      /\ Consumed = tot_appended - RawCount /\ tot_appended <= FileSize
      /\ FileSize \in Nat /\ RawSize \in Nat \ {0}
  <2>1. RawCount \in Nat
    BY Sizes, CountIsDistance DEF RawCount, TypeInv, TypeOK, RawTypeOK, RawSlot
  <2> QED
    BY <2>1, Sizes, ClientKind DEF Consumed, RawInOrder, TypeInv, TypeOK, RawTypeOK
<1>2. ASSUME NEW k \in 0 .. RawCount - 1
      PROVE  buf[Mask(tail + k, RawSize)] = Consumed + k
  <2>1. k \in Nat /\ Consumed + k \in Consumed .. tot_appended - 1
    BY <1>1
  <2>2. Mask(tail + k, RawSize) = Mask(Consumed + k, RawSize)
    BY <1>1, <2>1, MaskSlides DEF RawInOrder
  <2> QED
    BY <2>1, <2>2 DEF RawInOrder
<1>3. ASSUME NEW k \in 0 .. RawCount - 1
      PROVE  /\ Consumed + k + 1 \in 1 .. FileSize
             /\ Unit(k) = package.content[Consumed + k + 1]
  BY <1>1, <1>2 DEF Unit
<1> QED
  BY <1>1, <1>2, <1>3

\* The first header in the raw ring is the first of them all.
LEMMA FirstIsHeader ==
  ASSUME RawCount \in Nat
  PROVE  /\ FirstHeader \in Nat
         /\ IF Headers = {} THEN FirstHeader = RawCount
            ELSE FirstHeader \in Headers /\ \A k \in Headers : FirstHeader <= k
         /\ Headers \in SUBSET (0 .. RawCount - 1)
<1>1. Headers \in SUBSET (0 .. RawCount - 1)
  BY DEF Headers
<1>2. CASE Headers = {}
  BY <1>1, <1>2 DEF FirstHeader
<1>3. CASE Headers # {}
  <2>1. Headers \in SUBSET Nat
    BY <1>1
  <2>2. \E m \in Headers : \A k \in Headers : m <= k
    BY <1>3, <2>1, LeastNumber
  <2> DEFINE f == CHOOSE k \in Headers : \A j \in Headers : k <= j
  <2>3. f \in Headers /\ \A j \in Headers : f <= j
    BY <2>2
  <2>4. FirstHeader = f
    BY <1>3 DEF FirstHeader
  <2> HIDE DEF f
  <2> QED
    BY <1>1, <1>3, <2>1, <2>3, <2>4
<1> QED
  BY <1>2, <1>3

\* What a package is (PackagesOK).
LEMMA PackageIsOne ==
  ASSUME package \in Packages
  PROVE  /\ package.content[1].kind = "local"
         /\ \A i \in 1 .. FileSize : package.content[i].kind = "local" =>
              /\ WholeMember(package, i)
              /\ \A j \in 1 .. FileSize :
                   package.content[j].kind = "local"
                     /\ package.content[j].file = package.content[i].file => j = i
         /\ \A f \in Members : package.size[f] \in 1 .. ThrowAway
         /\ package.manifest \in Members /\ package.others \subseteq Members
         /\ Images \in Seq([dat : Members, bin : Members]) /\ Images # <<>>
         /\ \A i, j \in 1 .. Len(Images) :
              /\ Images[i].dat # Images[i].bin
              /\ i # j => ImageFiles(Images[i]) \cap ImageFiles(Images[j]) = {}
BY PackagesOK DEF Members, Images

\* Its manifest lists at least one image, of its own members.
LEMMA ImagesListed ==
  ASSUME package \in Packages
  PROVE  /\ Len(Images) \in Nat \ {0}
         /\ \A i \in 1 .. Len(Images) : Images[i].dat \in Members /\ Images[i].bin \in Members
<1>1. Images \in Seq([dat : Members, bin : Members]) /\ Images # <<>>
  BY PackageIsOne
<1>2. Len(Images) \in Nat \ {0}
  BY <1>1, EmptySeq, LenProperties
<1>3. ASSUME NEW i \in 1 .. Len(Images)
      PROVE  Images[i].dat \in Members /\ Images[i].bin \in Members
  <2>1. Images[i] \in [dat : Members, bin : Members]
    BY <1>1, ElementOfSeq
  <2> QED
    BY <2>1
<1> QED
  BY <1>2, <1>3

\* The bits of an address are apart (AddressesOK).
LEMMA ThrowAwayApart ==
  /\ DataFlag \in Nat /\ ThrowAway \in Nat /\ ImageSpan \in Nat
  /\ DataFlag % WriteChunkSize = 0 /\ ThrowAway % WriteChunkSize = 0
  /\ ImageSpan % WriteChunkSize = 0
  /\ 0 < ThrowAway /\ ThrowAway < DataFlag /\ DataFlag + ThrowAway <= ImageSpan
BY AddressesOK

\* A step that takes n units from the raw ring and sends none keeps the invariant
\* if it keeps the format's own part.
LEMMA ParseKeeps ==
  ASSUME NordicLive, pc = "decode", result = "CONTINUE",
         NEW n \in Nat, n <= RawCount, tail' = Mask(tail + n, RawSize),
         UNCHANGED <<buf, head, tot_appended, decoded_buf, decoded_head, decoded_tail,
                     write_tail, decoded_chunk_size, write_chunks, flagVars, rx_timeout,
                     calling, enq, error, targetVars>>,
         pc' \in {"decode", "host", "top"}, result' \in {result, "ERROR"}
  PROVE  Consumed' = Consumed + n /\ (ZipInv' => NordicLive')
<1>1. /\ TypeInv /\ RawInOrder /\ ZipInv /\ OnePages /\ Roomy /\ TypeOK
      /\ HeldGood(RightBytes) /\ HeadAfter(0) /\ Tiled /\ CalledAtTop
  BY DEF NordicLive, TilingInv, Covered, TypeInv
<1>2. RawInOrder' /\ Consumed' = Consumed + n /\ tail' \in RawSlot
  BY <1>1, TailMoves
<1>3. TypeInv'
  <2>1. RawTypeOK'
    BY <1>1, <1>2 DEF TypeOK, RawTypeOK
  <2>2. DecodedTypeOK'
    BY <1>1 DEF TypeOK, DecodedTypeOK
  <2>3. ChunksTypeOK' /\ TargetTypeOK' /\ OwnedIsFirst' /\ FlagsTypeOK'
    BY <1>1, FramedTypes DEF TypeInv, TypeOK
  <2>4. LoopTypeOK'
    BY <1>1 DEF TypeOK, LoopTypeOK
  <2> QED
    BY <2>1, <2>2, <2>3, <2>4 DEF TypeInv, TypeOK
<1>4. Left = 0 /\ Left' = 0 /\ DecCount' = DecCount /\ DecSpace' = DecSpace
  BY DEF Left, DecCount, DecSpace
<1>5. Tiled'
  <2>1. Offset(write_tail) + Left' <= DecCount'
    BY <1>1, <1>4 DEF Tiled
  <2> QED
    BY <1>1, <2>1, TiledMoved
<1>6. CalledAtTop'
  BY <1>1 DEF CalledAtTop
<1>7. OnePages' /\ Roomy'
  BY <1>1, <1>4 DEF OnePages, OnePage, Roomy
<1>8. HeldGood(RightBytes)'
  <2>1. PICK R : R = RightBytes
    OBVIOUS
  <2>2. owned' = owned
    BY DEF targetVars
  <2>3. HeldGood(R)'
    BY <1>1, <1>3, <2>1, <2>2, HeldFramed
  <2>4. RightBytes' = RightBytes
    BY DEF RightBytes, Realigning, DecSlot
  <2> QED
    BY <2>1, <2>3, <2>4
<1>9. HeadAfter(0)'
  BY <1>1, <1>4 DEF HeadAfter
<1> QED
  BY <1>2, <1>3, <1>5, <1>6, <1>7, <1>8, <1>9 DEF NordicLive, TilingInv, Covered

\* The steps that send nothing.
Parses ==
  \/ DecodeNothing \/ NameIncomplete \/ LocalHeader \/ CentralHeader \/ EndHeader
  \/ StoreMember \/ StoreFails \/ IgnoreMember \/ SendFails

\* decode_chunk() returns 0 or an error.
LEMMA ReturnsNothing ==
  ASSUME decoded_chunk_size \in Nat, pc = "decode", Returns(0, 0) \/ Fails
  PROVE  /\ pc' \in {"decode", "host", "top"} /\ result' \in {result, "ERROR"}
         /\ UNCHANGED <<enq, decoded_chunk_size>>
<1>1. CASE Returns(0, 0)
  BY <1>1 DEF Returns, AfterDecode
<1>2. CASE Fails
  BY <1>2 DEF Fails, IterationFails
<1> QED
  BY <1>1, <1>2

\* What such a step leaves alone.
LEMMA ParseFrame ==
  ASSUME NordicLive, Parses
  PROVE  /\ pc = "decode" /\ result = "CONTINUE"
         /\ UNCHANGED <<buf, head, tot_appended, decoded_buf, decoded_head, decoded_tail,
                        write_tail, decoded_chunk_size, write_chunks, flagVars, rx_timeout,
                        calling, enq, error, targetVars>>
         /\ pc' \in {"decode", "host", "top"} /\ result' \in {result, "ERROR"}
         /\ package' = package
<1>1. Round
  BY DEF Parses, DecodeNothing, NameIncomplete, LocalHeader, CentralHeader, EndHeader,
     StoreMember, StoreFails, IgnoreMember, SendFails, InState
<1>2. /\ pc = "decode" /\ result = "CONTINUE"
      /\ UNCHANGED <<decoded_tail, write_tail, write_chunks, really_written, flushing, early,
                     format_ops, rx_timeout, calling, error, targetVars, package>>
  BY <1>1 DEF Round, At, tailVars
<1>3. UNCHANGED <<written, rx_done, decoded_buf, decoded_head>>
  <2>1. DecodeNothing \/ NameIncomplete \/ LocalHeader \/ CentralHeader \/ EndHeader
          => UNCHANGED <<written, rx_done>> /\ NothingDecoded
    BY DEF DecodeNothing, NameIncomplete, LocalHeader, CentralHeader, EndHeader
  <2>2. StoreMember \/ StoreFails \/ IgnoreMember \/ SendFails
          => UNCHANGED <<written, rx_done>> /\ NothingDecoded
    BY DEF StoreMember, StoreFails, IgnoreMember, SendFails
  <2> QED
    BY <2>1, <2>2 DEF Parses, NothingDecoded
<1>4. UNCHANGED <<buf, head, tot_appended>>
  <2>1. DecodeNothing \/ NameIncomplete \/ LocalHeader \/ CentralHeader \/ EndHeader
          => UNCHANGED <<buf, head, tot_appended>>
    BY DEF DecodeNothing, NameIncomplete, LocalHeader, CentralHeader, EndHeader, Take, rawVars
  <2>2. StoreMember \/ StoreFails \/ IgnoreMember \/ SendFails
          => UNCHANGED <<buf, head, tot_appended>>
    BY DEF StoreMember, StoreFails, IgnoreMember, SendFails, Take, rawVars
  <2> QED
    BY <2>1, <2>2 DEF Parses
<1>5. Returns(0, 0) \/ Fails
  <2>1. DecodeNothing \/ NameIncomplete \/ LocalHeader \/ CentralHeader \/ EndHeader
          => Returns(0, 0) \/ Fails
    BY Zenon DEF DecodeNothing, NameIncomplete, LocalHeader, CentralHeader, EndHeader
  <2>2. StoreMember \/ StoreFails \/ IgnoreMember \/ SendFails
          => Returns(0, 0) \/ Fails
    BY Zenon DEF StoreMember, StoreFails, IgnoreMember, SendFails
  <2> QED
    BY <2>1, <2>2 DEF Parses
<1>6. decoded_chunk_size \in Nat
  BY DEF NordicLive, TypeInv, TypeOK, DecodedTypeOK
<1>7. /\ pc' \in {"decode", "host", "top"} /\ result' \in {result, "ERROR"}
      /\ UNCHANGED <<enq, decoded_chunk_size>>
  BY <1>2, <1>5, <1>6, ReturnsNothing
<1> QED
  BY <1>2, <1>3, <1>4, <1>7 DEF flagVars

\* So that the format's own part is all that has to be shown.
LEMMA ParseTakes ==
  ASSUME NordicLive, Parses, NEW n \in Nat, n <= RawCount, tail' = Mask(tail + n, RawSize)
  PROVE  Consumed' = Consumed + n /\ (ZipInv' => NordicLive')
BY ParseFrame, ParseKeeps

\* Also when no unit is taken.
LEMMA ParseStays ==
  ASSUME NordicLive, Parses, tail' = tail
  PROVE  Consumed' = Consumed /\ (ZipInv' => NordicLive')
<1>1. /\ tail \in 0 .. RawSize - 1 /\ RawSize \in Nat \ {0}
      /\ RawCount \in Nat /\ Consumed \in Nat
  BY Sizes, RawUnits DEF NordicLive, TypeInv, TypeOK, RawTypeOK, RawSlot
<1>2. tail' = Mask(tail + 0, RawSize) /\ 0 <= RawCount
  BY <1>1 DEF Mask
<1> QED
  BY <1>1, <1>2, ParseTakes

\* Every member is the manifest, or in its list, or of a kind that is ignored.
NothingUnlisted ==
  \A f \in Members \ package.others : f = package.manifest \/ Listed(f)

\* A complete file stays so.
LEMMA CompleteStays ==
  ASSUME NEW f, Complete(f), package' = package, stored'[f] = stored[f],
         Consumed \in Nat, Consumed' \in Nat, Consumed <= Consumed'
  PROVE  Complete(f)'
<1>1. PICK h \in 1 .. Consumed :
        /\ IsHeader(f, h)
        /\ Len(stored[f]) = package.size[f]
        /\ \A n \in 1 .. package.size[f] : stored[f][n] = h + n
  BY DEF Complete
<1>2. h \in 1 .. Consumed'
  OBVIOUS
<1>3. IsHeader(f, h)'
  BY <1>1 DEF IsHeader
<1> QED
  BY <1>1, <1>2, <1>3 DEF Complete

\* A lost file stays lost, unless its header is read.
LEMMA LostStays ==
  ASSUME OneLost, package' = package, Consumed \in Nat, Consumed' \in Nat, Consumed <= Consumed',
         \A f \in received' : f \in received \/ (nzstate = "STORING_FILE" /\ f = curr_rf),
         nzstate' = "STORING_FILE" =>
           \/ nzstate = "STORING_FILE" /\ curr_rf' = curr_rf
           \/ \A h \in 1 .. Consumed : ~IsHeader(curr_rf', h)
  PROVE  OneLost'
<1>1. PICK f \in Members, h \in 1 .. Consumed :
        /\ f = package.manifest \/ Listed(f)
        /\ f \notin received
        /\ nzstate = "STORING_FILE" => curr_rf # f
        /\ IsHeader(f, h)
  BY DEF OneLost
<1>2. h \in 1 .. Consumed' /\ IsHeader(f, h)'
  BY <1>1 DEF IsHeader
<1>3. f \in Members' /\ (f = package.manifest \/ Listed(f))'
  BY <1>1 DEF Members, Images, Listed
<1>4. f \notin received' /\ (nzstate' = "STORING_FILE" => curr_rf' # f)
  BY <1>1
<1> QED
  BY <1>2, <1>3, <1>4 DEF OneLost

\* A member comes once.
LEMMA HeaderOnce ==
  ASSUME package \in Packages, NEW f, NEW h, NEW i, IsHeader(f, h), IsHeader(f, i)
  PROVE  h = i
BY PackageIsOne DEF IsHeader

\* After its header come its name and its data, and then another member.
LEMMA HeaderMember ==
  ASSUME package \in Packages, NEW f, NEW h \in Nat, IsHeader(f, h)
  PROVE  /\ f \in Members /\ package.size[f] \in Nat \ {0}
         /\ h + package.size[f] + 2 <= FileSize
         /\ package.content[h + 2].file = f
         /\ NextMember(h + package.size[f] + 2)
<1>1. /\ WholeMember(package, h) /\ f = package.content[h].file
      /\ \A g \in Members : package.size[g] \in 1 .. ThrowAway
  BY PackageIsOne DEF IsHeader
<1>2. PICK n : n = package.size[f]
  OBVIOUS
<1>3. f \in Members /\ h + n + 2 <= FileSize
  BY <1>1, <1>2 DEF WholeMember, Members
<1>4. n \in Nat \ {0} /\ 1 \in 1 .. n
  BY <1>1, <1>2, <1>3, ThrowAwayApart
<1>5. /\ package.content[h + 1 + 1] = [kind |-> "data", file |-> f, at |-> 1 - 1]
      /\ \/ package.content[h + n + 2].kind = "local"
         \/ \A j \in h + n + 2 .. FileSize : package.content[j].kind # "local"
  BY <1>1, <1>2, <1>4 DEF WholeMember
<1>6. package.content[h + 2].file = f
  BY <1>5
<1> QED
  BY <1>2, <1>3, <1>4, <1>5, <1>6 DEF NextMember

\* A step that changes none of the format's data keeps the invariant.
LEMMA StandsKept ==
  ASSUME NordicLive, Parses, UNCHANGED rawVars, UNCHANGED <<nzstate, fileVars, image>>
  PROVE  NordicLive'
<1>1. /\ ZipInv /\ tail' = tail /\ package' = package
  BY ParseFrame DEF NordicLive, rawVars
<1>2. Consumed' = Consumed
  BY <1>1, ParseStays
<1>3. UNCHANGED <<package, nzstate, curr_rf, stored, done, received, removed, image>>
  BY <1>1 DEF fileVars
<1>4. /\ UNCHANGED <<Members, Images, SentFile>>
      /\ \A f, h : IsHeader(f, h)' = IsHeader(f, h)
      /\ \A f : Listed(f)' = Listed(f)
      /\ \A j : NextMember(j)' = NextMember(j)
  BY <1>3 DEF Members, Images, SentFile, IsHeader, Listed, NextMember
<1>5. \A f : Complete(f)' = Complete(f) /\ InMember(f)' = InMember(f)
  BY <1>2, <1>3, <1>4 DEF Complete, InMember
<1>6. ReadyToSend' = ReadyToSend
  BY <1>3, <1>4, <1>5 DEF ReadyToSend
<1>7. InStep' = InStep
  BY <1>2, <1>3, <1>4, <1>5 DEF InStep
<1>8. OneLost' = OneLost
  BY <1>2, <1>3, <1>4 DEF OneLost
<1>9. ZipTypeOK' = ZipTypeOK
  BY <1>3, <1>4 DEF ZipTypeOK
<1>10. ZipInv'
  BY <1>1, <1>3, <1>6, <1>7, <1>8, <1>9 DEF ZipInv
<1> QED
  BY <1>1, <1>10, ParseStays

\* A header that was found is at the place the parser takes it to be; nothing was
\* skipped if a member is due.
LEMMA HeaderFound ==
  ASSUME NordicLive, NEW kind, Found(kind)
  PROVE  /\ FirstHeader \in Nat /\ FirstHeader < RawCount
         /\ Consumed + FirstHeader + 1 \in 1 .. FileSize
         /\ Unit(FirstHeader) = package.content[Consumed + FirstHeader + 1]
         /\ package.content[Consumed + FirstHeader + 1].kind = kind
         /\ package.content[Consumed + 1].kind = "local" => FirstHeader = 0
<1>1. /\ RawCount \in Nat /\ Consumed \in Nat
      /\ \A k \in 0 .. RawCount - 1 :
           /\ Consumed + k + 1 \in 1 .. FileSize
           /\ Unit(k) = package.content[Consumed + k + 1]
  BY RawUnits DEF NordicLive
<1>2. FirstHeader \in Headers /\ FirstHeader \in 0 .. RawCount - 1
  BY <1>1, FirstIsHeader DEF Found
<1>3. Unit(FirstHeader).kind = kind
  BY DEF Found
<1>4. package.content[Consumed + 1].kind = "local" => FirstHeader = 0
  <2> SUFFICES ASSUME package.content[Consumed + 1].kind = "local" PROVE FirstHeader = 0
    OBVIOUS
  <2>1. 0 \in 0 .. RawCount - 1
    BY <1>1, <1>2
  <2>2. Unit(0) = package.content[Consumed + 1]
    BY <1>1, <2>1
  <2>3. 0 \in Headers
    BY <2>1, <2>2 DEF Headers
  <2>4. FirstHeader <= 0
    BY <1>1, <2>3, FirstIsHeader
  <2> QED
    BY <1>2, <2>4
<1> QED
  BY <1>1, <1>2, <1>3, <1>4

\* The types.
LEMMA TypesOfZip ==
  ASSUME NordicLive
  PROVE  /\ ZipInv /\ ZipTypeOK /\ package \in Packages
         /\ Consumed \in Nat /\ RawCount \in Nat /\ FileSize \in Nat
         /\ Consumed + RawCount <= FileSize
BY RawUnits DEF NordicLive, ZipInv, ZipTypeOK

\* Waiting for more bytes, or failing, changes nothing.
LEMMA DecodeNothingKeeps ==
  ASSUME NordicLive, DecodeNothing \/ NameIncomplete \/ SendFails
  PROVE  NordicLive'
<1>1. Parses
  BY DEF Parses
<1>2. UNCHANGED rawVars /\ UNCHANGED <<nzstate, fileVars, image>>
  BY DEF DecodeNothing, NameIncomplete, SendFails
<1> QED
  BY <1>1, <1>2, StandsKept

\* The types when received and the stored files grow.
LEMMA TypesStay ==
  ASSUME ZipTypeOK, package' = package, received' \subseteq Members,
         DOMAIN stored' = Members, DOMAIN done' = Members,
         nzstate' \in Parsing \cup Sending,
         nzstate' = "STORING_FILE" =>
           curr_rf' \in Members /\ done'[curr_rf'] \in 0 .. package.size[curr_rf'] - 1
  PROVE  ZipTypeOK'
BY DEF ZipTypeOK, Members

\* The central directory begins: a package without its manifest is refused.
LEMMA CentralHeaderKeeps ==
  ASSUME NordicLive, CentralHeader
  PROVE  NordicLive'
<1>1. /\ Found("central") /\ After > 0 /\ nzstate = "IDLE"
      /\ tail' = Mask(tail + 1, RawSize)
      /\ UNCHANGED <<nzstate, curr_rf, stored, done, received, removed, image>>
  BY DEF CentralHeader, InState, Take, fileVars
<1>2. Parses
  BY DEF Parses
<1>3. /\ RawCount \in Nat /\ Consumed \in Nat /\ FirstHeader \in Nat /\ 1 <= RawCount
      /\ FirstHeader < RawCount /\ Consumed + FirstHeader + 1 \in 1 .. FileSize
      /\ FileSize \in Nat
  BY <1>1, HeaderFound, TypesOfZip
<1>4. Consumed' = Consumed + 1 /\ (ZipInv' => NordicLive')
  BY <1>1, <1>2, <1>3, ParseTakes
<1>5. package' = package /\ ZipInv /\ ZipTypeOK
  BY <1>2, ParseFrame, TypesOfZip
<1>6. ZipTypeOK'
  BY <1>1, <1>5, TypesStay DEF ZipTypeOK, Parsing
<1>7. CASE InStep
  <2>1. \A f \in received' : Complete(f)'
    <3> SUFFICES ASSUME NEW f \in received PROVE Complete(f)'
      BY <1>1
    <3>1. Complete(f) /\ stored'[f] = stored[f]
      BY <1>1, <1>7 DEF InStep
    <3> QED
      BY <1>3, <1>4, <1>5, <3>1, CompleteStays
  <2>2. NextMember(Consumed + 1)'
    <3>1. NextMember(Consumed + 1)
      BY <1>1, <1>7 DEF InStep
    <3>2. \A i \in Consumed + 1 .. FileSize : package.content[i].kind # "local"
      <4>1. CASE package.content[Consumed + 1].kind = "local"
        <5>1. FirstHeader = 0 /\ package.content[Consumed + FirstHeader + 1].kind = "central"
          BY <1>1, <4>1, HeaderFound
        <5> QED
          BY <1>3, <4>1, <5>1
      <4>2. CASE package.content[Consumed + 1].kind # "local"
        BY <3>1, <4>2 DEF NextMember
      <4> QED
        BY <4>1, <4>2
    <3> QED
      BY <1>3, <1>4, <1>5, <3>2 DEF NextMember
  <2>3. InStep'
    BY <1>1, <2>1, <2>2 DEF InStep
  <2>4. ZipInv'
    BY <1>1, <1>6, <2>3 DEF ZipInv, Parsing, Sending
  <2> QED
    BY <1>4, <2>4
<1>8. CASE OneLost
  <2>1. OneLost'
    BY <1>1, <1>3, <1>4, <1>5, <1>8, LostStays
  <2> QED
    BY <1>1, <1>4, <1>6, <2>1 DEF ZipInv, Parsing, Sending
<1> QED
  BY <1>1, <1>5, <1>7, <1>8 DEF ZipInv, Parsing

\* The end of the package: sending starts only if all files are there.
LEMMA EndHeaderKeeps ==
  ASSUME NordicLive, EndHeader
  PROVE  NordicLive'
<1>1. /\ Found("end") /\ nzstate = "IDLE"
      /\ UNCHANGED <<curr_rf, stored, received, removed>>
  BY DEF EndHeader, InState
<1>2. Parses
  BY DEF Parses
<1>3. /\ RawCount \in Nat /\ Consumed \in Nat /\ 1 <= RawCount
  BY <1>1, HeaderFound, TypesOfZip
<1>4. package' = package /\ ZipInv /\ ZipTypeOK /\ package \in Packages
  BY <1>2, ParseFrame, TypesOfZip
<1>5. CASE UNCHANGED <<rawVars, nzstate, done, image>>
  BY <1>1, <1>2, <1>5, StandsKept DEF fileVars
<1>6. CASE ~UNCHANGED <<rawVars, nzstate, done, image>>
  <2>1. /\ ManifestOK /\ tail' = Mask(tail + 1, RawSize)
        /\ nzstate' = "SENDING_COMMAND" /\ image' = 1
        /\ done' = [f \in Members |-> IF \E i \in DOMAIN Images : f \in {Images[i].dat, Images[i].bin}
                                      THEN 0 ELSE done[f]]
    BY <1>6 DEF EndHeader, Take
  <2>2. Consumed' = Consumed + 1 /\ (ZipInv' => NordicLive')
    BY <1>2, <1>3, <2>1, ParseTakes
  <2>3. /\ Len(Images) \in Nat \ {0} /\ DOMAIN Images = 1 .. Len(Images)
        /\ \A i \in 1 .. Len(Images) : Images[i].dat \in Members /\ Images[i].bin \in Members
    <3>1. Images \in Seq([dat : Members, bin : Members])
      BY <1>4, PackageIsOne
    <3> QED
      BY <1>4, <3>1, ImagesListed, LenProperties
  <2>4. \A f \in Members : Listed(f) => f \in received
    BY <2>1, <2>3 DEF ManifestOK, Listed, ImageFiles
  <2>5. ~OneLost
    BY <2>1, <2>4 DEF OneLost, ManifestOK
  <2>6. InStep
    BY <1>1, <1>4, <2>5 DEF ZipInv, Parsing
  <2>7. \A f \in Members : Listed(f) => done'[f] = 0
    BY <2>1, <2>3 DEF Listed, ImageFiles
  <2>8. \A f \in Members : Listed(f) => Complete(f)'
    <3> SUFFICES ASSUME NEW f \in Members, Listed(f) PROVE Complete(f)'
      OBVIOUS
    <3>1. Complete(f) /\ stored'[f] = stored[f]
      BY <1>1, <2>4, <2>6 DEF InStep
    <3> QED
      BY <1>3, <1>4, <2>2, <3>1, CompleteStays
  <2>9. UNCHANGED <<Images, Members>> /\ \A f : Listed(f)' = Listed(f)
    BY <1>4 DEF Images, Members, Listed
  <2>10. \A i \in 1 .. Len(Images) :
           /\ Listed(Images[i].dat) /\ Listed(Images[i].bin)
           /\ done'[Images[i].dat] = 0 /\ done'[Images[i].bin] = 0
    BY <2>3, <2>7 DEF Listed, ImageFiles
  <2>11. SentFile' = Images[1].dat
    BY <2>1, <2>9 DEF SentFile
  <2>12. 1 \in 1 .. Len(Images)
    BY <2>3
  <2>13. done'[SentFile'] = 0 /\ 0 < package.size[SentFile'] /\ 0 % WriteChunkSize = 0
    <3>1. package.size[Images[1].dat] \in 1 .. ThrowAway
      BY <1>4, <2>3, <2>12, PackageIsOne
    <3>2. 0 % WriteChunkSize = 0
      <4>1. \A s \in Nat \ {0} : 0 % s = 0
        <5> SUFFICES ASSUME NEW s \in Nat \ {0} PROVE 0 % s = 0
          OBVIOUS
        <5>1. 0 \in -s .. 2 * s - 1
          OBVIOUS
        <5> QED
          BY <5>1, MaskOneLap DEF Mask
      <4> QED
        BY <4>1, Sizes
    <3> QED
      BY <2>10, <2>11, <2>12, <3>1, <3>2, ThrowAwayApart
  <2>14. \A i \in image' + 1 .. Len(Images) : done'[Images[i].bin] = 0
    BY <2>1, <2>3, <2>10
  <2>15. ReadyToSend'
    BY <1>4, <2>1, <2>8, <2>9, <2>10, <2>12, <2>13, <2>14 DEF ReadyToSend
  <2>16. ZipTypeOK'
    BY <1>1, <1>4, <2>1, TypesStay DEF ZipTypeOK, Sending
  <2> QED
    BY <2>1, <2>2, <2>15, <2>16 DEF ZipInv, Parsing
<1> QED
  BY <1>5, <1>6

\* A local header: the file begins to be stored or ignored.
LEMMA LocalHeaderKeeps ==
  ASSUME NordicLive, NothingUnlisted, LocalHeader
  PROVE  NordicLive'
<1>a. PICK c : c = Consumed
  OBVIOUS
<1>b. PICK h : h = Consumed + FirstHeader + 1
  OBVIOUS
<1>c. PICK f : f = Unit(FirstHeader).file
  OBVIOUS
<1>1. /\ Found("local") /\ After > 1 /\ nzstate = "IDLE"
      /\ tail' = Mask(tail + 2, RawSize) /\ UNCHANGED image
  BY DEF LocalHeader, InState, Take
<1>2. Parses
  BY DEF Parses
<1>3. /\ package' = package /\ ZipInv /\ ZipTypeOK /\ package \in Packages
      /\ UNCHANGED <<Members, Images>> /\ \A g : Listed(g)' = Listed(g)
      /\ \A g, i : IsHeader(g, i)' = IsHeader(g, i)
  <2>1. package' = package /\ ZipInv /\ ZipTypeOK /\ package \in Packages
    BY <1>2, ParseFrame, TypesOfZip
  <2> QED
    BY <2>1 DEF Members, Images, Listed, IsHeader
<1>4. /\ RawCount \in Nat /\ Consumed \in Nat /\ FirstHeader \in Nat /\ 2 <= RawCount
      /\ h \in 1 .. FileSize /\ h > c /\ FileSize \in Nat /\ h \in Nat
      /\ package.content[h].kind = "local" /\ IsHeader(f, h)
  <2>1. /\ FirstHeader \in Nat /\ FirstHeader < RawCount /\ h \in 1 .. FileSize
        /\ Unit(FirstHeader) = package.content[h] /\ package.content[h].kind = "local"
    BY <1>1, <1>b, HeaderFound
  <2>2. RawCount \in Nat /\ Consumed \in Nat /\ FileSize \in Nat
    BY TypesOfZip
  <2>3. RawCount - 1 - FirstHeader > 1
    BY <1>1 DEF After
  <2> QED
    BY <1>a, <1>b, <1>c, <2>1, <2>2, <2>3 DEF IsHeader
<1>5. Consumed' = Consumed + 2 /\ (ZipInv' => NordicLive')
  BY <1>1, <1>2, <1>4, ParseTakes
<1>6. f \in Members /\ package.size[f] \in Nat \ {0}
  BY <1>3, <1>4, HeaderMember
<1>7. \A i \in 1 .. c : ~IsHeader(f, i)
  BY <1>a, <1>3, <1>4, HeaderOnce
<1>8. InStep => h = c + 1
  <2> SUFFICES ASSUME InStep PROVE h = c + 1
    OBVIOUS
  <2>1. NextMember(c + 1)
    BY <1>a, <1>1 DEF InStep
  <2>2. package.content[c + 1].kind = "local"
    BY <1>a, <1>4, <2>1 DEF NextMember
  <2>3. FirstHeader = 0
    BY <1>1, <1>a, <2>2, HeaderFound
  <2> QED
    BY <1>a, <1>b, <1>4, <2>3
<1>9. InStep \/ OneLost
  BY <1>1, <1>3 DEF ZipInv, Parsing
<1>10. CASE nzstate' = "IGNORING_FILE"
  <2>1. f \in package.others /\ UNCHANGED <<curr_rf, stored, done, received, removed>>
    BY <1>c, <1>10 DEF LocalHeader, Stores, fileVars, Reset
  <2>2. ZipTypeOK'
    BY <1>3, <1>10, <2>1, TypesStay DEF ZipTypeOK, Parsing
  <2>3. CASE InStep
    <3>1. \A g \in received' : Complete(g)'
      <4> SUFFICES ASSUME NEW g \in received PROVE Complete(g)'
        BY <2>1
      <4>1. Complete(g) /\ stored'[g] = stored[g]
        BY <2>1, <2>3 DEF InStep
      <4> QED
        BY <1>3, <1>4, <1>5, <4>1, CompleteStays
    <3>2. f \in package'.others /\ IsHeader(f, Consumed - 1)'
      BY <1>a, <1>3, <1>4, <1>5, <1>8, <2>1, <2>3 DEF IsHeader
    <3>3. InStep'
      BY <1>10, <3>1, <3>2 DEF InStep
    <3>4. ZipInv'
      BY <1>10, <2>2, <3>3 DEF ZipInv, Parsing, Sending
    <3> QED
      BY <1>5, <3>4
  <2>4. CASE OneLost
    <3>1. OneLost'
      BY <1>3, <1>4, <1>5, <1>10, <2>1, <2>4, LostStays
    <3>2. ZipInv'
      BY <1>10, <2>2, <3>1 DEF ZipInv, Parsing, Sending
    <3> QED
      BY <1>5, <3>2
  <2> QED
    BY <1>9, <2>3, <2>4
<1>11. CASE nzstate' = "STORING_FILE"
  <2>1. /\ f \notin package.others /\ curr_rf' = f
        /\ stored' = [stored EXCEPT ![f] = <<>>] /\ done' = [done EXCEPT ![f] = 0]
        /\ UNCHANGED <<received, removed>>
    BY <1>c, <1>11 DEF LocalHeader, Stores, Reset
  <2>2. /\ DOMAIN stored = Members /\ DOMAIN done = Members
        /\ stored'[f] = <<>> /\ done'[f] = 0
        /\ DOMAIN stored' = Members /\ DOMAIN done' = Members
    BY <1>3, <1>6, <2>1 DEF ZipTypeOK
  <2>3. ZipTypeOK'
    <3>1. received' \subseteq Members
      BY <1>3, <2>1 DEF ZipTypeOK
    <3>2. done'[curr_rf'] \in 0 .. package.size[curr_rf'] - 1
      BY <1>6, <2>1, <2>2
    <3> QED
      BY <1>3, <1>6, <1>11, <2>1, <2>2, <3>1, <3>2, TypesStay DEF Parsing
  <2>4. CASE InStep
    <3>1. \A g \in received : Complete(g)
      BY <2>4 DEF InStep
    <3>2. f \notin received
      BY <1>a, <1>7, <3>1 DEF Complete
    <3>3. \A g \in received' : Complete(g)'
      <4> SUFFICES ASSUME NEW g \in received PROVE Complete(g)'
        BY <2>1
      <4>1. Complete(g) /\ stored'[g] = stored[g]
        <5>1. g # f /\ g \in Members
          BY <1>3, <3>2 DEF ZipTypeOK
        <5> QED
          BY <2>1, <2>2, <3>1, <5>1
      <4> QED
        BY <1>3, <1>4, <1>5, <4>1, CompleteStays
    <3>4. InMember(f)'
      <4>1. f \notin package'.others /\ f \notin received'
        BY <1>3, <2>1, <3>2
      <4>2. IsHeader(f, Consumed - 1 - done[f])'
        <5>1. Consumed' - 1 - done'[f] = h
          BY <1>a, <1>4, <1>5, <1>8, <2>2, <2>4
        <5> QED
          BY <1>3, <1>4, <5>1 DEF IsHeader
      <4>3. stored'[f] \in Seq(Nat) /\ Len(stored'[f]) = done'[f]
        BY <2>2
      <4>4. \A n \in 1 .. done'[f] : stored'[f][n] = Consumed' - 1 - done'[f] + n
        BY <2>2
      <4> QED
        BY <4>1, <4>2, <4>3, <4>4 DEF InMember
    <3>5. InMember(curr_rf)'
      BY <2>1, <3>4 DEF InMember
    <3>6. InStep'
      BY <1>11, <3>3, <3>5 DEF InStep
    <3>7. ZipInv'
      BY <1>11, <2>3, <3>6 DEF ZipInv, Parsing, Sending
    <3> QED
      BY <1>5, <3>7
  <2>5. CASE OneLost
    <3>1. OneLost'
      BY <1>a, <1>1, <1>3, <1>4, <1>5, <1>7, <2>1, <2>5, LostStays
    <3>2. ZipInv'
      BY <1>11, <2>3, <3>1 DEF ZipInv, Parsing, Sending
    <3> QED
      BY <1>5, <3>2
  <2> QED
    BY <1>9, <2>4, <2>5
<1>12. CASE nzstate' = "IDLE"
  <2>1. /\ f \notin package.others /\ Reset
    BY <1>c, <1>12 DEF LocalHeader, Stores
  <2>2. /\ received' = {} /\ DOMAIN stored' = Members /\ DOMAIN done' = Members
    BY <2>1 DEF Reset
  <2>3. ZipTypeOK'
    BY <1>3, <1>12, <2>2, TypesStay DEF Parsing
  <2>4. h \in 1 .. Consumed' \/ OneLost
    BY <1>a, <1>4, <1>5, <1>8, <1>9
  <2>5. OneLost'
    <3>1. CASE h \in 1 .. Consumed'
      <4>1. f = package.manifest \/ Listed(f)
        BY <1>6, <2>1 DEF NothingUnlisted
      <4>2. f \in Members' /\ (f = package.manifest \/ Listed(f))' /\ IsHeader(f, h)'
        BY <1>3, <1>4, <1>6, <4>1
      <4> QED
        BY <1>12, <2>2, <3>1, <4>2 DEF OneLost
    <3>2. CASE OneLost
      BY <1>1, <1>3, <1>4, <1>5, <1>12, <2>2, <3>2, LostStays
    <3> QED
      BY <2>4, <3>1, <3>2
  <2>6. ZipInv'
    BY <1>12, <2>3, <2>5 DEF ZipInv, Parsing, Sending
  <2> QED
    BY <1>5, <2>6
<1> QED
  BY <1>10, <1>11, <1>12 DEF LocalHeader, Reset

\* There is no memory for a file: it is lost, and the package will be refused.
LEMMA StoreFailsKeeps ==
  ASSUME NordicLive, NothingUnlisted, StoreFails
  PROVE  NordicLive'
<1>1. /\ nzstate = "STORING_FILE" /\ nzstate' = "IDLE" /\ received' = {}
      /\ DOMAIN stored' = Members /\ DOMAIN done' = Members /\ tail' = tail
  BY DEF StoreFails, InState, Reset, rawVars
<1>2. Parses
  BY DEF Parses
<1>3. /\ package' = package /\ ZipInv /\ ZipTypeOK /\ Consumed \in Nat
  BY <1>2, ParseFrame, TypesOfZip
<1>4. Consumed' = Consumed /\ (ZipInv' => NordicLive')
  BY <1>1, <1>2, ParseStays
<1>5. ZipTypeOK'
  BY <1>1, <1>3, TypesStay DEF Parsing
<1>6. OneLost'
  <2>1. CASE InStep
    <3>1. PICK f : f = curr_rf
      OBVIOUS
    <3>2. PICK h : h = Consumed - 1 - done[f]
      OBVIOUS
    <3>3. /\ f \in Members /\ f \notin package.others /\ IsHeader(f, h)
          /\ done[f] \in Nat /\ h \in Nat \ {0}
      BY <1>1, <1>3, <2>1, <3>1, <3>2 DEF InStep, InMember, ZipTypeOK, IsHeader
    <3>4. h \in 1 .. Consumed'
      BY <1>3, <1>4, <3>2, <3>3
    <3>5. f = package.manifest \/ Listed(f)
      BY <3>3 DEF NothingUnlisted
    <3>6. f \in Members' /\ (f = package.manifest \/ Listed(f))' /\ IsHeader(f, h)'
      BY <1>3, <3>3, <3>5 DEF Members, Images, Listed, IsHeader
    <3> QED
      BY <1>1, <3>4, <3>6 DEF OneLost
  <2>2. CASE OneLost
    BY <1>1, <1>3, <1>4, <2>2, LostStays
  <2> QED
    BY <1>1, <1>3, <2>1, <2>2 DEF ZipInv, Parsing
<1>7. ZipInv'
  BY <1>1, <1>5, <1>6 DEF ZipInv, Parsing, Sending
<1> QED
  BY <1>4, <1>7

\* The data of a member of another kind are skipped.
LEMMA IgnoreMemberKeeps ==
  ASSUME NordicLive, IgnoreMember, ~dropped'
  PROVE  NordicLive'
<1>1. PICK n : n = RawCount
  OBVIOUS
<1>2. /\ nzstate = "IGNORING_FILE" /\ nzstate' = "IDLE"
      /\ UNCHANGED <<curr_rf, stored, done, received, removed, image>>
      /\ tail' = Mask(tail + n, RawSize)
      /\ \E f \in package.others : (\A k \in 0 .. n - 1 : IsOf(k, f)) /\ n = package.size[f]
  BY <1>1 DEF IgnoreMember, InState, Take, fileVars
<1>3. Parses
  BY DEF Parses
<1>4. /\ package' = package /\ ZipInv /\ ZipTypeOK /\ package \in Packages
      /\ Consumed \in Nat /\ n \in Nat /\ FileSize \in Nat
  BY <1>1, <1>3, ParseFrame, TypesOfZip
<1>5. Consumed' = Consumed + n /\ (ZipInv' => NordicLive')
  BY <1>1, <1>2, <1>3, <1>4, ParseTakes
<1>6. ZipTypeOK'
  BY <1>2, <1>4, TypesStay DEF ZipTypeOK, Parsing
<1>7. CASE InStep
  <2>1. PICK g \in package.others : IsHeader(g, Consumed - 1)
    BY <1>2, <1>7 DEF InStep
  <2>2. PICK f \in package.others : (\A k \in 0 .. n - 1 : IsOf(k, f)) /\ n = package.size[f]
    BY <1>2
  <2>3. Consumed - 1 \in Nat
    BY <2>1 DEF IsHeader
  <2>4. /\ package.size[g] \in Nat \ {0}
        /\ package.content[Consumed - 1 + 2].file = g
        /\ NextMember(Consumed - 1 + package.size[g] + 2)
    BY <1>4, <2>1, <2>3, HeaderMember
  <2>5. f = g
    <3>1. n # 0
      <4>1. f \in Members
        BY <1>4, PackageIsOne
      <4>2. package.size[f] \in 1 .. ThrowAway
        BY <1>4, <4>1, PackageIsOne
      <4> QED
        BY <2>2, <4>2, ThrowAwayApart
    <3>2. 0 \in 0 .. n - 1
      BY <1>4, <3>1
    <3>3. Unit(0) = package.content[Consumed + 0 + 1]
      BY <1>1, <3>2, RawUnits DEF NordicLive
    <3>4. Unit(0).file = f
      BY <2>2, <3>2 DEF IsOf
    <3>5. Consumed + 0 + 1 = Consumed - 1 + 2
      BY <1>4
    <3> QED
      BY <2>4, <3>3, <3>4, <3>5
  <2>6. Consumed' + 1 = Consumed - 1 + package.size[g] + 2
    BY <1>4, <1>5, <2>2, <2>5
  <2>7. NextMember(Consumed + 1)'
    BY <1>4, <2>4, <2>6 DEF NextMember
  <2>8. \A e \in received' : Complete(e)'
    <3> SUFFICES ASSUME NEW e \in received PROVE Complete(e)'
      BY <1>2
    <3>1. Complete(e) /\ stored'[e] = stored[e]
      BY <1>2, <1>7 DEF InStep
    <3> QED
      BY <1>4, <1>5, <3>1, CompleteStays
  <2>9. InStep'
    BY <1>2, <2>7, <2>8 DEF InStep
  <2>10. ZipInv'
    BY <1>2, <1>6, <2>9 DEF ZipInv, Parsing, Sending
  <2> QED
    BY <1>5, <2>10
<1>8. CASE OneLost
  <2>1. OneLost'
    BY <1>2, <1>4, <1>5, <1>8, LostStays
  <2>2. ZipInv'
    BY <1>2, <1>6, <2>1 DEF ZipInv, Parsing, Sending
  <2> QED
    BY <1>5, <2>2
<1> QED
  BY <1>2, <1>4, <1>7, <1>8 DEF ZipInv, Parsing

\* Sequence s counts up from h.
CountsFrom(s, h) == \A k \in 1 .. Len(s) : s[k] = h + k

\* Two such runs make one.
LEMMA RunAppended ==
  ASSUME NEW s \in Seq(Nat), NEW t \in Seq(Nat), NEW h \in Nat,
         CountsFrom(s, h), CountsFrom(t, h + Len(s))
  PROVE  /\ s \o t \in Seq(Nat) /\ Len(s \o t) = Len(s) + Len(t)
         /\ CountsFrom(s \o t, h)
<1>1. Len(s) \in Nat /\ Len(t) \in Nat
  BY LenProperties
<1>2. PICK u : u = s \o t
  OBVIOUS
<1>3. PICK l : l = Len(s)
  OBVIOUS
<1>4. /\ u \in Seq(Nat) /\ Len(u) = l + Len(t) /\ l \in Nat
      /\ \A k \in 1 .. l + Len(t) : u[k] = IF k <= l THEN s[k] ELSE t[k - l]
  BY <1>1, <1>2, <1>3, ConcatProperties
<1>5. ASSUME NEW k \in 1 .. Len(u) PROVE u[k] = h + k
  <2>1. CASE k <= l
    <3>1. k \in 1 .. Len(s)
      BY <1>1, <1>3, <1>4, <2>1
    <3> QED
      BY <1>4, <2>1, <3>1 DEF CountsFrom
  <2>2. CASE ~(k <= l)
    <3>1. k - l \in 1 .. Len(t) /\ k \in Nat
      BY <1>1, <1>4, <2>2
    <3>2. t[k - l] = h + l + (k - l)
      BY <1>3, <3>1 DEF CountsFrom
    <3>3. u[k] = t[k - l]
      BY <1>4, <2>2
    <3> QED
      BY <1>4, <3>1, <3>2, <3>3
  <2> QED
    BY <2>1, <2>2
<1> QED
  BY <1>2, <1>3, <1>4, <1>5 DEF CountsFrom

\* Bytes of a member are stored: its last ones make it complete.
LEMMA StoreMemberKeeps ==
  ASSUME NordicLive, StoreMember
  PROVE  NordicLive'
<1>1. PICK f : f = curr_rf
  OBVIOUS
<1>2. PICK d : d = done[f]
  OBVIOUS
<1>3. PICK z : z = package.size[f]
  OBVIOUS
<1>4. PICK n : n = Min2(RingCountToEnd(head, tail, RawSize), z - d)
  OBVIOUS
<1>5. /\ nzstate = "STORING_FILE" /\ tail' = Mask(tail + n, RawSize)
      /\ stored' = [stored EXCEPT ![f] = @ \o [i \in 1 .. n |-> buf[tail + i - 1]]]
      /\ done' = [done EXCEPT ![f] = @ + n]
      /\ UNCHANGED <<curr_rf, removed, image>>
      /\ IF d + n >= z
         THEN nzstate' = "IDLE" /\ received' = received \cup {f}
         ELSE UNCHANGED <<nzstate, received>>
  BY <1>1, <1>2, <1>3, <1>4 DEF StoreMember, InState, Take
<1>6. Parses
  BY DEF Parses
<1>7. /\ package' = package /\ ZipInv /\ ZipTypeOK /\ package \in Packages
      /\ Consumed \in Nat /\ RawCount \in Nat /\ FileSize \in Nat
  BY <1>6, ParseFrame, TypesOfZip
<1>8. /\ f \in Members /\ z \in Nat /\ d \in 0 .. z - 1
      /\ DOMAIN stored = Members /\ DOMAIN done = Members /\ received \subseteq Members
  <2>1. f \in Members /\ d \in 0 .. z - 1
    BY <1>1, <1>2, <1>3, <1>5, <1>7 DEF ZipTypeOK
  <2>2. z \in Nat
    BY <1>3, <1>7, <2>1, PackageIsOne, ThrowAwayApart
  <2> QED
    BY <1>7, <2>1, <2>2 DEF ZipTypeOK
<1>9. n \in Nat /\ n <= RawCount /\ d + n <= z
      /\ \A k \in 1 .. n : buf[tail + k - 1] = Consumed + k - 1
  <2>1. /\ head \in 0 .. RawSize - 1 /\ tail \in 0 .. RawSize - 1 /\ RawSize \in Nat \ {0}
    BY Sizes DEF NordicLive, TypeInv, TypeOK, RawTypeOK, RawSlot
  <2>2. PICK e : e = RingCountToEnd(head, tail, RawSize)
    OBVIOUS
  <2>3. e \in Nat /\ e <= RawCount /\ tail + e <= RawSize
    BY <2>1, <2>2, CountToEndFits DEF RawCount
  <2>4. n \in Nat /\ n <= e /\ n <= z - d
    BY <1>4, <1>8, <2>2, <2>3 DEF Min2
  <2>5. ASSUME NEW k \in 1 .. n PROVE buf[tail + k - 1] = Consumed + k - 1
    <3>1. k - 1 \in 0 .. RawCount - 1
      BY <1>7, <2>3, <2>4
    <3>2. tail + (k - 1) \in 0 .. RawSize - 1
      BY <2>1, <2>3, <2>4
    <3>3. Mask(tail + (k - 1), RawSize) = tail + (k - 1)
      BY <2>1, <3>2, MaskOneLap
    <3>4. buf[Mask(tail + (k - 1), RawSize)] = Consumed + (k - 1)
      BY <3>1, RawUnits DEF NordicLive
    <3>5. tail + (k - 1) = tail + k - 1 /\ Consumed + (k - 1) = Consumed + k - 1
      BY <1>7, <2>1, <2>4
    <3> QED
      BY <3>3, <3>4, <3>5
  <2> QED
    BY <1>7, <1>8, <2>3, <2>4, <2>5
<1>10. Consumed' = Consumed + n /\ (ZipInv' => NordicLive')
  BY <1>5, <1>6, <1>9, ParseTakes
<1>11. /\ DOMAIN stored' = Members /\ DOMAIN done' = Members
       /\ stored'[f] = stored[f] \o [i \in 1 .. n |-> buf[tail + i - 1]]
       /\ done'[f] = d + n
       /\ \A g \in Members : g # f => stored'[g] = stored[g]
  BY <1>2, <1>5, <1>8
<1>12. ZipTypeOK'
  <2>1. CASE d + n >= z
    BY <1>5, <1>7, <1>8, <1>11, <2>1, TypesStay DEF Parsing
  <2>2. CASE ~(d + n >= z)
    <3>1. curr_rf' = f /\ done'[f] \in 0 .. z - 1
      BY <1>1, <1>5, <1>8, <1>9, <1>11, <2>2
    <3> QED
      BY <1>3, <1>5, <1>7, <1>8, <1>11, <2>2, <3>1, TypesStay DEF Parsing
  <2> QED
    BY <2>1, <2>2
<1>13. CASE InStep
  <2>1. PICK h : h = Consumed - 1 - d
    OBVIOUS
  <2>2. /\ f \notin package.others /\ f \notin received /\ IsHeader(f, h)
        /\ stored[f] \in Seq(Nat) /\ Len(stored[f]) = d
        /\ \A k \in 1 .. d : stored[f][k] = h + k
        /\ h \in 1 .. FileSize /\ h \in Nat
    BY <1>1, <1>2, <1>5, <1>7, <1>13, <2>1 DEF InStep, InMember, IsHeader
  <2>3. PICK b : b = [k \in 1 .. n |-> buf[tail + k - 1]]
    OBVIOUS
  <2>4. /\ b \in Seq(Nat) /\ Len(b) = n
        /\ \A k \in 1 .. n : b[k] = h + Len(stored[f]) + k
    <3>1. \A k \in 1 .. n : b[k] = Consumed + k - 1 /\ b[k] \in Nat
      BY <1>7, <1>9, <2>3
    <3>2. b \in [1 .. n -> Nat]
      BY <2>3, <3>1
    <3>3. b \in Seq(Nat) /\ Len(b) = n
      BY <1>9, <3>2
    <3>4. ASSUME NEW k \in 1 .. n PROVE b[k] = h + Len(stored[f]) + k
      <4>1. k \in Nat /\ Consumed = h + d + 1 /\ d \in Nat
        BY <1>7, <1>8, <1>9, <2>1, <2>2
      <4> QED
        BY <2>2, <3>1, <4>1
    <3> QED
      BY <3>3, <3>4
  <2>5. stored'[f] = stored[f] \o b
    BY <1>11, <2>3
  <2>6. /\ stored'[f] \in Seq(Nat) /\ Len(stored'[f]) = d + n
        /\ \A k \in 1 .. d + n : stored'[f][k] = h + k
    <3>1. PICK s : s = stored[f]
      OBVIOUS
    <3>2. s \in Seq(Nat) /\ Len(s) = d /\ CountsFrom(s, h) /\ CountsFrom(b, h + Len(s))
      BY <2>2, <2>4, <3>1 DEF CountsFrom
    <3>3. PICK u : u = s \o b
      OBVIOUS
    <3>4. u \in Seq(Nat) /\ Len(u) = d + n /\ CountsFrom(u, h)
      BY <2>2, <2>4, <3>2, <3>3, RunAppended
    <3>5. stored'[f] = u
      BY <2>5, <3>1, <3>3
    <3> QED
      BY <3>4, <3>5 DEF CountsFrom
  <2>7. ASSUME NEW g \in received PROVE Complete(g)'
    <3>1. Complete(g) /\ g # f /\ g \in Members
      BY <1>8, <1>13, <2>2 DEF InStep
    <3>2. stored'[g] = stored[g]
      BY <1>11, <3>1
    <3> QED
      BY <1>7, <1>9, <1>10, <3>1, <3>2, CompleteStays
  <2>8. IsHeader(f, h)'
    BY <1>7, <2>2 DEF IsHeader
  <2>9. CASE d + n >= z
    <3>1. d + n = z /\ nzstate' = "IDLE" /\ received' = received \cup {f}
      BY <1>5, <1>8, <1>9, <2>9
    <3>2. Complete(f)'
      <4>1. h \in 1 .. Consumed'
        BY <1>7, <1>8, <1>9, <1>10, <2>1, <2>2
      <4>2. /\ Len(stored'[f]) = package'.size[f]
            /\ \A k \in 1 .. package'.size[f] : stored'[f][k] = h + k
        BY <1>3, <1>7, <2>6, <3>1
      <4> QED
        BY <2>8, <4>1, <4>2 DEF Complete
    <3>3. NextMember(h + package.size[f] + 2)
      BY <1>7, <2>2, HeaderMember
    <3>4. Consumed' + 1 = h + package.size[f] + 2
      BY <1>3, <1>7, <1>8, <1>9, <1>10, <2>1, <3>1
    <3>5. NextMember(Consumed + 1)'
      BY <1>7, <3>3, <3>4 DEF NextMember
    <3>6. InStep'
      BY <2>7, <3>1, <3>2, <3>5 DEF InStep
    <3>7. ZipInv'
      BY <1>12, <3>1, <3>6 DEF ZipInv, Parsing, Sending
    <3> QED
      BY <1>10, <3>7
  <2>10. CASE ~(d + n >= z)
    <3>1. nzstate' = "STORING_FILE" /\ received' = received /\ curr_rf' = f
      BY <1>1, <1>5, <2>10
    <3>2. InMember(f)'
      <4>1. Consumed' - 1 - done'[f] = h
        BY <1>7, <1>8, <1>9, <1>10, <1>11, <2>1
      <4>2. IsHeader(f, Consumed - 1 - done[f])'
        BY <2>8, <4>1
      <4>3. f \notin package'.others /\ f \notin received'
        BY <1>7, <2>2, <3>1
      <4>4. \A k \in 1 .. done'[f] : stored'[f][k] = Consumed' - 1 - done'[f] + k
        BY <1>11, <2>6, <4>1
      <4>5. stored'[f] \in Seq(Nat) /\ Len(stored'[f]) = done'[f]
        BY <1>11, <2>6
      <4> QED
        BY <4>2, <4>3, <4>4, <4>5 DEF InMember
    <3>3. InMember(curr_rf)'
      BY <3>1, <3>2 DEF InMember
    <3>4. InStep'
      BY <2>7, <3>1, <3>3 DEF InStep
    <3>5. ZipInv'
      BY <1>12, <3>1, <3>4 DEF ZipInv, Parsing, Sending
    <3> QED
      BY <1>10, <3>5
  <2> QED
    BY <2>9, <2>10
<1>14. CASE OneLost
  <2>1. OneLost'
    BY <1>1, <1>5, <1>7, <1>9, <1>10, <1>14, LostStays
  <2>2. ZipInv'
    BY <1>5, <1>12, <2>1 DEF ZipInv, Parsing, Sending
  <2> QED
    BY <1>10, <2>2
<1> QED
  BY <1>5, <1>7, <1>13, <1>14 DEF ZipInv, Parsing

-----------------------------------------------------------------------------
(* Sending the files                                                       *)

\* There is room for a chunk when the format decodes.
LEMMA RoomForAPage ==
  ASSUME TypeInv, Roomy, pc = "decode"
  PROVE  /\ WriteChunkSize <= DecSpace /\ DecSpace \in Nat /\ DecCount \in Nat
         /\ DecCount + DecSpace = DecodedSize - 1
<1>1. /\ decoded_head \in 0 .. DecodedSize - 1 /\ decoded_tail \in 0 .. DecodedSize - 1
      /\ DecodedSize \in Nat \ {0} /\ WriteChunkSize \in Nat \ {0}
      /\ WriteChunkSize < DecodedSize /\ DecodedSize % WriteChunkSize = 0
      /\ decoded_chunk_size \in Nat
  BY Sizes, ChunkDividesBuffer DEF TypeInv, TypeOK, DecodedTypeOK, DecSlot
<1>2. /\ DecCount \in 0 .. DecodedSize - 1 /\ DecSpace \in 0 .. DecodedSize - 1
      /\ DecCount + DecSpace = DecodedSize - 1
  <2>1. PICK h, t, size : h = decoded_head /\ t = decoded_tail /\ size = DecodedSize
    OBVIOUS
  <2>2. /\ RingCount(h, t, size) \in 0 .. size - 1 /\ RingSpace(h, t, size) \in 0 .. size - 1
        /\ RingCount(h, t, size) + RingSpace(h, t, size) = size - 1
    <3>1. size \in Nat \ {0} /\ h \in 0 .. size - 1 /\ t \in 0 .. size - 1
      BY <1>1, <2>1
    <3>2. RingCount(h, t, size) \in 0 .. size - 1
      BY <3>1, CountIsDistance
    <3>3. /\ RingSpace(h, t, size) \in 0 .. size - 1
          /\ RingCount(h, t, size) + RingSpace(h, t, size) = size - 1
      BY <3>1, CountPlusSpace
    <3> QED
      BY <3>2, <3>3
  <2> QED
    BY <2>1, <2>2 DEF DecCount, DecSpace
<1>3. 2 * WriteChunkSize <= DecodedSize
  <2>1. WriteChunkSize % WriteChunkSize = 0
    <3>1. PICK w : w = WriteChunkSize
      OBVIOUS
    <3>2. w \in -w .. 2 * w - 1
      BY <1>1, <3>1
    <3>3. Mask(w, w) = 0
      BY <1>1, <3>1, <3>2, MaskOneLap
    <3> QED
      BY <3>1, <3>3 DEF Mask
  <2>2. Mask(WriteChunkSize, DecodedSize) + WriteChunkSize <= DecodedSize
    BY <1>1, <2>1, PageFits
  <2>3. WriteChunkSize \in -DecodedSize .. 2 * DecodedSize - 1
    BY <1>1
  <2>4. Mask(WriteChunkSize, DecodedSize) = WriteChunkSize
    BY <1>1, <2>3, MaskOneLap
  <2> QED
    BY <1>1, <2>2, <2>4
<1>4. CASE WriteChunkSize <= 2 * decoded_chunk_size
  BY <1>1, <1>2, <1>4 DEF Roomy
<1>5. CASE ~(WriteChunkSize <= 2 * decoded_chunk_size)
  <2>1. DecCount <= decoded_chunk_size
    BY <1>5 DEF Roomy
  <2> QED
    BY <1>1, <1>2, <1>3, <1>5, <2>1
<1> QED
  BY <1>2, <1>4, <1>5

\* The room up to the end of the array.
LEMMA SpaceToEndIs ==
  ASSUME NEW size \in Nat \ {0}, NEW h \in 0 .. size - 1, NEW t \in 0 .. size - 1
  PROVE  RingSpaceToEnd(h, t, size) =
           IF RingSpace(h, t, size) < size - h THEN RingSpace(h, t, size) ELSE size - h
<1>1. size - 1 - h + t \in -size .. 2 * size - 1 /\ t - (h + 1) \in -size .. 2 * size - 1
  OBVIOUS
<1>2. Mask(size - 1 - h + t, size) = Mask(t - (h + 1), size)
  BY <1>1, MaskOneLap
<1>3. RingSpace(h, t, size) \in 0 .. size - 1
  BY CountPlusSpace
<1> QED
  BY <1>2, <1>3 DEF RingSpace, RingSpaceToEnd

\* A chunk at an aligned slot does not wrap.
LEMMA AlignedHead ==
  ASSUME NEW s \in DecSlot, s % WriteChunkSize = 0
  PROVE  s + WriteChunkSize <= DecodedSize
<1>1. WriteChunkSize \in Nat
  BY Sizes
<1> QED
  BY <1>1, OnePieceOfRing

\* A sum of multiples is one.
LEMMA AlignedSum ==
  ASSUME NEW w \in Nat \ {0}, NEW a \in Nat, NEW b \in Nat, a % w = 0, b % w = 0
  PROVE  (a + b) % w = 0 /\ a + b \in Nat
<1>1. Mask(Mask(a, w) + b, w) = Mask(a + b, w)
  BY MaskSlides
<1>2. Mask(a, w) + b = b
  BY DEF Mask
<1> QED
  BY <1>1, <1>2 DEF Mask

\* The chunks hold what they held after bytes were decoded to free slots.
LEMMA HeldAfterPage ==
  ASSUME NEW R, TypeInv, HeldGood(R), Tiled, NEW c \in Nat, c <= DecSpace, Untouched(c),
         UNCHANGED <<write_chunks, owned>>
  PROVE  QueueGood(R)' /\ OwnedPart'
<1>1. OwnedPart'
  BY DEF HeldGood, OwnedPart
<1>2. ASSUME NEW i \in 1 .. Len(write_chunks)
      PROVE  GoodFrom(R, write_chunks[i].addr, write_chunks[i].start, write_chunks[i].len)'
  <2>1. PICK a, s, n : a = write_chunks[i].addr /\ s = write_chunks[i].start
                         /\ n = write_chunks[i].len
    OBVIOUS
  <2>2. /\ s \in DecSlot /\ n \in Nat /\ Offset(s) \in Int
        /\ Offset(write_tail) \in Int /\ DecCount \in Int /\ Left \in Nat
    BY <2>1, Offsets, QueueFields
  <2>3. Offset(s) + n <= Offset(write_tail) /\ Offset(write_tail) + Left <= DecCount
    BY <2>1 DEF Tiled, EndsBy
  <2>4. Offset(s) + n <= DecCount
    BY <2>2, <2>3
  <2>5. GoodFrom(R, a, s, n)
    BY <2>1 DEF HeldGood, QueueGood
  <2>6. GoodFrom(R, a, s, n)'
    BY <2>2, <2>4, <2>5, RunUntouched
  <2>7. /\ a = write_chunks'[i].addr /\ s = write_chunks'[i].start /\ n = write_chunks'[i].len
    BY <2>1
  <2> QED
    BY <2>6, <2>7 DEF GoodFrom, Good
<1>3. QueueGood(R)'
  BY <1>2 DEF QueueGood
<1> QED
  BY <1>1, <1>3

\* A step of decode_chunk() that returns bytes of one page keeps the invariant if
\* it keeps the format's own part.
LEMMA PageReturned ==
  ASSUME NordicLive, RawSize = DecodedSize, pc = "decode", result = "CONTINUE",
         NEW n \in 1 .. WriteChunkSize, NEW a \in Nat, a % WriteChunkSize = 0,
         AfterDecode(n, a),
         decoded_head' = Mask(decoded_head + n, RawSize),
         (decoded_head % WriteChunkSize) + n <= WriteChunkSize,
         decoded_head % WriteChunkSize = 0 \/ n = WriteChunkSize - (decoded_head % WriteChunkSize),
         decoded_buf' \in [DecSlot -> Nat \cup {NoData}],
         \A s \in DecSlot : s \notin decoded_head .. decoded_head + n - 1 =>
           decoded_buf'[s] = decoded_buf[s],
         \A k \in 0 .. n - 1 : a + k \in Realigning \/ decoded_buf'[decoded_head + k] = a + k,
         written' \in BOOLEAN, rx_done' \in BOOLEAN,
         UNCHANGED <<rawVars, tailVars, really_written, flushing, early, format_ops, write_chunks,
                     rx_timeout, calling, error, result, targetVars>>
  PROVE  Consumed' = Consumed /\ (ZipInv' => NordicLive')
<1>1. /\ TypeInv /\ RawInOrder /\ ZipInv /\ OnePages /\ Roomy /\ TypeOK
      /\ HeldGood(RightBytes) /\ HeadAfter(0) /\ Tiled /\ CalledAtTop
  BY DEF NordicLive, TilingInv, Covered, TypeInv
<1>2. /\ WriteChunkSize \in Nat \ {0} /\ DecodedSize \in Nat \ {0} /\ WriteChunkSize < DecodedSize
      /\ decoded_head \in DecSlot /\ decoded_chunk_size \in Nat /\ decoded_head \in Nat
      /\ decoded_tail \in DecSlot /\ write_tail \in DecSlot
      /\ n \in Nat
  BY <1>1, Sizes DEF TypeOK, DecodedTypeOK, DecSlot
<1>3. /\ n <= DecSpace /\ DecSpace \in Nat /\ DecCount \in Nat
      /\ DecCount + DecSpace = DecodedSize - 1
  BY <1>1, <1>2, RoomForAPage
<1>4. decoded_head + n <= DecodedSize
  BY <1>2, OnePieceOfRing
<1>5. /\ pc' = "enqueue" /\ enq' = [addr |-> a, len |-> n]
      /\ decoded_chunk_size' = IF n > decoded_chunk_size THEN n ELSE decoded_chunk_size
  BY DEF AfterDecode
<1>6. /\ UNCHANGED <<buf, head, tail, tot_appended, decoded_tail, write_tail>>
  BY DEF rawVars, tailVars
<1>7. RawInOrder' /\ Consumed' = Consumed
  BY <1>1, <1>6 DEF RawInOrder, Consumed, RawCount
<1>8. TypeInv'
  <2>1. RawTypeOK'
    BY <1>1, <1>6 DEF TypeOK, RawTypeOK
  <2>2. LoopTypeOK' /\ decoded_chunk_size' \in Nat
    BY <1>1, <1>2, AfterDecodeType DEF dfuVars
  <2>3. decoded_head' \in DecSlot
    BY <1>2, MaskInRing DEF DecSlot
  <2>4. DecodedTypeOK'
    BY <1>1, <1>6, <2>2, <2>3 DEF TypeOK, DecodedTypeOK
  <2>5. ChunksTypeOK' /\ TargetTypeOK' /\ OwnedIsFirst'
    BY <1>1, FramedTypes DEF TypeInv, TypeOK
  <2>6. FlagsTypeOK'
    BY <1>1 DEF TypeOK, FlagsTypeOK
  <2> QED
    BY <2>1, <2>2, <2>4, <2>5, <2>6 DEF TypeInv, TypeOK
<1>9. decoded_head' = Mask(decoded_head + n, DecodedSize)
  OBVIOUS
<1>10. Tiled' /\ CalledAtTop'
  <2>1. Tiled'
    BY <1>1, <1>2, <1>3, <1>6, <1>8, <1>9, TiledAfterDecode
  <2> QED
    BY <1>1, <2>1 DEF CalledAtTop
<1>11. decoded_head = write_tail
  <2>1. Left = 0
    BY DEF Left
  <2>2. decoded_head = Mask(write_tail + 0 + 0, DecodedSize)
    BY <1>1, <2>1 DEF HeadAfter
  <2>3. write_tail + 0 + 0 = write_tail /\ write_tail \in -DecodedSize .. 2 * DecodedSize - 1
        /\ write_tail \in 0 .. DecodedSize - 1
    BY <1>2 DEF DecSlot
  <2> QED
    BY <1>2, <2>2, <2>3, MaskOneLap
<1>12. HeadAfter(0)'
  <2>1. Left' = n
    BY <1>5 DEF Left
  <2>2. write_tail + n + 0 = write_tail + n
    BY <1>2 DEF DecSlot
  <2> QED
    BY <1>6, <1>9, <1>11, <2>1, <2>2 DEF HeadAfter
<1>13. OnePages'
  BY <1>1, <1>2, <1>5, <1>6, <1>11 DEF OnePages, OnePage
<1>14. DecCount' = DecCount + n
  <2>1. RingCount(Mask(decoded_head + n, DecodedSize), decoded_tail, DecodedSize)
          = RingCount(decoded_head, decoded_tail, DecodedSize) + n
    <3>1. RingCount(decoded_head, decoded_tail, DecodedSize) + n <= DecodedSize - 1
      BY <1>2, <1>3 DEF DecCount
    <3> QED
      BY <1>2, <3>1, CountAfterFilling DEF DecSlot
  <2> QED
    BY <1>6, <1>9, <2>1 DEF DecCount
<1>15. Roomy'
  <2>1. PICK r : r = decoded_head % WriteChunkSize
    OBVIOUS
  <2>2. CASE WriteChunkSize <= 2 * decoded_chunk_size'
    BY <1>5, <2>2 DEF Roomy
  <2>3. CASE ~(WriteChunkSize <= 2 * decoded_chunk_size')
    <3>1. decoded_head = decoded_chunk_size /\ DecCount <= decoded_chunk_size
      BY <1>1, <1>2, <1>5, <2>3 DEF Roomy
    <3>2. r = decoded_head
      <4>1. decoded_head \in -WriteChunkSize .. 2 * WriteChunkSize - 1
            /\ decoded_head < WriteChunkSize /\ ~(decoded_head < 0)
        BY <1>2, <1>5, <2>3, <3>1
      <4> QED
        BY <1>2, <2>1, <4>1, MaskOneLap DEF Mask
    <3>3. decoded_head = 0
      BY <1>2, <1>5, <2>1, <2>3, <3>1, <3>2
    <3>4. decoded_head' = n
      <4>1. n \in -DecodedSize .. 2 * DecodedSize - 1 /\ n < DecodedSize /\ decoded_head + n = n
        BY <1>2, <3>3
      <4> QED
        BY <1>2, <1>9, <4>1, MaskOneLap
    <3>5. decoded_chunk_size' = n /\ DecCount' <= n
      BY <1>2, <1>3, <1>5, <1>14, <3>1, <3>3
    <3> QED
      BY <1>5, <3>4, <3>5 DEF Roomy
  <2> QED
    BY <2>2, <2>3
<1>16. HeldGood(RightBytes)'
  <2>1. PICK R : R = RightBytes
    OBVIOUS
  <2>2. RightBytes' = RightBytes
    BY DEF RightBytes, Realigning, DecSlot
  <2>3. Untouched(n)
    <3> SUFFICES ASSUME NEW s \in DecSlot, RingCount(s, decoded_head, DecodedSize) >= n
                 PROVE  decoded_buf'[s] = decoded_buf[s]
      BY DEF Untouched
    <3>1. s \notin decoded_head .. decoded_head + n - 1
      <4> SUFFICES ASSUME s \in decoded_head .. decoded_head + n - 1 PROVE FALSE
        OBVIOUS
      <4>1. RingCount(s, decoded_head, DecodedSize) = s - decoded_head
        BY <1>2, CountIsDistance DEF DecSlot
      <4> QED
        BY <1>2, <4>1 DEF DecSlot
    <3> QED
      BY <3>1
  <2>4. QueueGood(R)' /\ OwnedPart'
    BY <1>1, <1>2, <1>3, <2>1, <2>3, HeldAfterPage DEF targetVars
  <2>5. ASSUME NEW k \in 0 .. n - 1 PROVE Good(R, a + k, write_tail + k)'
    <3>1. PICK s : s = decoded_head + k
      OBVIOUS
    <3>2. s \in DecSlot /\ s \in -DecodedSize .. 2 * DecodedSize - 1 /\ k \in Nat
          /\ 0 <= s /\ s < DecodedSize
      BY <1>2, <1>4, <3>1 DEF DecSlot
    <3>3. Mask(s, DecodedSize) = s
      BY <1>2, <3>2, MaskOneLap
    <3>4. PICK d : d = decoded_buf'[s]
      OBVIOUS
    <3>5. d \in Nat \cup {NoData} /\ (a + k \in Realigning \/ d = a + k) /\ a + k \in Nat
      BY <3>1, <3>2, <3>4
    <3>6. <<a + k, s, d>> \in RightBytes
      BY <3>2, <3>5 DEF RightBytes
    <3>7. write_tail' + k = s
      BY <1>6, <1>11, <3>1
    <3> QED
      BY <2>1, <3>3, <3>4, <3>6, <3>7 DEF Good
  <2>6. EnqGood(R)'
    <3>1. enq'.addr = a /\ enq'.len = n
      BY <1>5
    <3> QED
      BY <2>5, <3>1 DEF EnqGood, GoodFrom
  <2> QED
    BY <2>1, <2>2, <2>4, <2>6 DEF HeldGood, QueueGood, EnqGood, GoodFrom, Good
<1> QED
  BY <1>7, <1>8, <1>10, <1>12, <1>13, <1>15, <1>16 DEF NordicLive, TilingInv, Covered

\* The bytes sent to align the decoded ring.
LEMMA RealignKeeps ==
  ASSUME NordicLive, RawSize = DecodedSize, Realign
  PROVE  NordicLive'
<1>1. PICK r : r = decoded_head % WriteChunkSize
  OBVIOUS
<1>2. PICK n : n = WriteChunkSize - r
  OBVIOUS
<1>3. /\ Round /\ nzstate \in Sending /\ r # 0
      /\ decoded_head' = Mask(decoded_head + n, RawSize)
      /\ UNCHANGED <<rawVars, decoded_buf, written, rx_done, nzstate, fileVars,
                     image, dropped>>
      /\ Returns(n, ThrowAway)
  BY <1>1, <1>2 DEF Realign, HeadMisaligned
<1>4. /\ pc = "decode" /\ result = "CONTINUE"
      /\ UNCHANGED <<tailVars, format_data, write_chunks, really_written, flushing, early,
                     format_ops, rx_timeout, calling, error, targetVars, package>>
  BY <1>3 DEF Round, At
<1>5. /\ TypeOK /\ decoded_head \in Nat /\ WriteChunkSize \in Nat \ {0} /\ ZipInv
  BY Sizes DEF NordicLive, TypeInv, TypeOK, DecodedTypeOK, DecSlot
<1>6. r \in Nat /\ r < WriteChunkSize
  BY <1>1, <1>5, PageBelow
<1>7. n \in 1 .. WriteChunkSize /\ n # 0
  BY <1>2, <1>3, <1>5, <1>6
<1>8. AfterDecode(n, ThrowAway) /\ UNCHANGED result
  BY <1>3, <1>7 DEF Returns
<1>9. \A k \in 0 .. n - 1 : ThrowAway + k \in Realigning
  BY <1>2, <1>5, <1>6, ThrowAwayApart DEF Realigning
<1>10. ThrowAway \in Nat /\ ThrowAway % WriteChunkSize = 0
  BY ThrowAwayApart
<1>11. decoded_buf' \in [DecSlot -> Nat \cup {NoData}]
  BY <1>3, <1>5 DEF TypeOK, DecodedTypeOK
<1>12. written' \in BOOLEAN /\ rx_done' \in BOOLEAN
  BY <1>3, <1>5 DEF TypeOK, FlagsTypeOK
<1>13. Consumed' = Consumed /\ (ZipInv' => NordicLive')
  <2>1. (decoded_head % WriteChunkSize) + n <= WriteChunkSize
    BY <1>1, <1>2, <1>5, <1>6
  <2>2. n = WriteChunkSize - (decoded_head % WriteChunkSize)
    BY <1>1, <1>2
  <2>3. UNCHANGED <<rawVars, tailVars, really_written, flushing, early, format_ops, write_chunks,
                     rx_timeout, calling, error, result, targetVars, decoded_buf>>
    BY <1>3, <1>4, <1>8
  <2> QED
    BY <1>3, <1>4, <1>7, <1>8, <1>9, <1>10, <1>11, <1>12, <2>1, <2>2, <2>3, PageReturned
<1>14. UNCHANGED zipState
  BY <1>3, <1>4 DEF zipState
<1>15. ZipInv'
  BY <1>5, <1>13, <1>14, ZipFramed
<1> QED
  BY <1>13, <1>15

\* What is stored of a complete file is its data, in order.
LEMMA PieceOfMember ==
  ASSUME package \in Packages, NEW f, Complete(f), NEW m \in 1 .. package.size[f]
  PROVE  /\ stored[f][m] + 1 \in Nat
         /\ package.content[stored[f][m] + 1] = [kind |-> "data", file |-> f, at |-> m - 1]
<1>1. PICK h \in 1 .. Consumed :
        /\ IsHeader(f, h)
        /\ \A n \in 1 .. package.size[f] : stored[f][n] = h + n
  BY DEF Complete
<1>2. WholeMember(package, h) /\ f = package.content[h].file /\ h \in Nat
  BY <1>1, PackageIsOne DEF IsHeader
<1>3. package.content[h + 1 + m] = [kind |-> "data", file |-> f, at |-> m - 1]
  BY <1>2 DEF WholeMember
<1>4. f \in Members /\ package.size[f] \in Nat
  BY <1>1, <1>2, HeaderMember
<1>5. m \in Nat /\ stored[f][m] = h + m
  BY <1>1, <1>4
<1>6. stored[f][m] + 1 = h + 1 + m
  BY <1>2, <1>5
<1> QED
  BY <1>2, <1>3, <1>5, <1>6

\* The address of a data unit: its image, the kind of its file and its offset.
LEMMA AddressIs ==
  ASSUME package \in Packages, NEW i \in 1 .. Len(Images), NEW f \in ImageFiles(Images[i]),
         NEW u, NEW x \in Nat, package.content[u + 1] = [kind |-> "data", file |-> f, at |-> x]
  PROVE  AddressOf(u) =
           x + (i - 1) * ImageSpan + (IF f = Images[i].bin THEN DataFlag ELSE 0)
<1>1. DOMAIN Images = 1 .. Len(Images)
  BY PackageIsOne, LenProperties
<1>2. ASSUME NEW j \in DOMAIN Images PROVE f \in {Images[j].dat, Images[j].bin} <=> j = i
  BY <1>1, PackageIsOne DEF ImageFiles
<1> DEFINE I == {j \in DOMAIN Images : f \in {Images[j].dat, Images[j].bin}}
<1>3. I = {i}
  BY <1>1, <1>2
<1> HIDE DEF I
<1>4. (CHOOSE j \in I : TRUE) = i /\ I # {}
  BY <1>3
<1>5. package.content[u + 1].kind = "data" /\ package.content[u + 1].file = f
      /\ package.content[u + 1].at = x
  OBVIOUS
<1>6. I = {j \in DOMAIN Images : package.content[u + 1].file \in {Images[j].dat, Images[j].bin}}
  BY <1>5 DEF I
<1> QED
  BY <1>4, <1>5, <1>6 DEF AddressOf

\* A multiple of a multiple is one.
LEMMA AlignedTimes ==
  ASSUME NEW w \in Nat \ {0}, NEW a \in Nat, a % w = 0, NEW k \in Nat
  PROVE  (k * a) % w = 0 /\ k * a \in Nat
<1>1. PICK p : p = a \div w
  OBVIOUS
<1>2. a = w * p /\ p \in Int
  BY <1>1
<1>3. PICK q : q = k * p
  OBVIOUS
<1>4. q \in Int /\ k * a = w * q + 0
  BY <1>2, <1>3
<1>5. 0 \in 0 .. w - 1
  OBVIOUS
<1>6. Mask(w * q + 0, w) = 0
  BY <1>4, <1>5, MaskLaps
<1>7. k * a \in Nat
  OBVIOUS
<1> QED
  BY <1>4, <1>6, <1>7 DEF Mask

\* The file that is sent is complete, at an aligned offset before its end.
LEMMA SendingOne ==
  ASSUME ZipInv, nzstate \in Sending
  PROVE  /\ ReadyToSend /\ image \in 1 .. Len(Images) /\ image \in Nat
         /\ SentFile \in Members /\ SentFile \in ImageFiles(Images[image])
         /\ Complete(SentFile) /\ DOMAIN done = Members
         /\ package.size[SentFile] \in Nat /\ done[SentFile] \in Nat
         /\ done[SentFile] < package.size[SentFile] /\ done[SentFile] % WriteChunkSize = 0
         /\ BaseAddress = (IF SentFile = Images[image].bin THEN DataFlag ELSE 0)
                            + (image - 1) * ImageSpan
         /\ BaseAddress \in Nat /\ BaseAddress % WriteChunkSize = 0
<1>1. ReadyToSend /\ package \in Packages /\ DOMAIN done = Members
  BY DEF ZipInv, ZipTypeOK
<1>2. /\ image \in 1 .. Len(Images) /\ Len(Images) \in Nat
      /\ Images[image].dat \in Members /\ Images[image].bin \in Members
      /\ Images[image].dat # Images[image].bin
  BY <1>1, ImagesListed, PackageIsOne DEF ReadyToSend
<1>3. SentFile = IF nzstate = "SENDING_COMMAND" THEN Images[image].dat ELSE Images[image].bin
  BY DEF SentFile
<1>4. SentFile \in Members /\ SentFile \in ImageFiles(Images[image])
  BY <1>2, <1>3 DEF ImageFiles
<1>5. Listed(SentFile)
  BY <1>2, <1>4 DEF Listed
<1>6. Complete(SentFile)
  BY <1>1, <1>4, <1>5 DEF ReadyToSend
<1>7. package.size[SentFile] \in Nat
  BY <1>1, <1>4, PackageIsOne, ThrowAwayApart
<1>8. BaseAddress = (IF SentFile = Images[image].bin THEN DataFlag ELSE 0)
                      + (image - 1) * ImageSpan
  BY <1>2, <1>3 DEF BaseAddress
<1>9. /\ DataFlag \in Nat /\ ImageSpan \in Nat /\ WriteChunkSize \in Nat \ {0}
      /\ DataFlag % WriteChunkSize = 0 /\ ImageSpan % WriteChunkSize = 0
  BY ThrowAwayApart, Sizes
<1>10. PICK p : p = (image - 1) * ImageSpan
  OBVIOUS
<1>11. p \in Nat /\ p % WriteChunkSize = 0
  <2>1. PICK k : k = image - 1
    OBVIOUS
  <2>2. k \in Nat
    BY <1>2, <2>1
  <2>3. p = k * ImageSpan
    BY <1>10, <2>1
  <2> QED
    BY <1>9, <2>2, <2>3, AlignedTimes
<1>12. BaseAddress \in Nat /\ BaseAddress % WriteChunkSize = 0
  <2>1. (DataFlag + p) % WriteChunkSize = 0 /\ DataFlag + p \in Nat
    BY <1>9, <1>11, AlignedSum
  <2>2. 0 + p = p
    BY <1>11
  <2> QED
    BY <1>8, <1>10, <1>11, <2>1, <2>2
<1> QED
  BY <1>1, <1>2, <1>4, <1>6, <1>7, <1>8, <1>12 DEF ReadyToSend

\* After its last bytes the next file is begun, or the next image.
LEMMA NextFileReady ==
  ASSUME ZipInv, nzstate \in Sending, package' = package, UNCHANGED <<stored, received, curr_rf>>,
         Consumed' = Consumed, NEW n \in 1 .. WriteChunkSize,
         done' = [done EXCEPT ![SentFile] = @ + n],
         IF done[SentFile] + n >= package.size[SentFile] THEN NextFile
         ELSE n = WriteChunkSize /\ UNCHANGED <<nzstate, image>>
  PROVE  ZipInv'
<1>1. PICK f : f = SentFile
  OBVIOUS
<1>2. /\ ReadyToSend /\ image \in 1 .. Len(Images) /\ image \in Nat
      /\ f \in Members /\ f \in ImageFiles(Images[image]) /\ DOMAIN done = Members
      /\ package.size[f] \in Nat /\ done[f] \in Nat
      /\ done[f] < package.size[f] /\ done[f] % WriteChunkSize = 0
      /\ package \in Packages /\ WriteChunkSize \in Nat \ {0} /\ n \in Nat
      /\ ZipTypeOK
  BY <1>1, SendingOne, Sizes DEF ZipInv, ZipTypeOK
<1>3. /\ Len(Images) \in Nat
      /\ \A i \in 1 .. Len(Images) :
           /\ Images[i].dat \in Members /\ Images[i].bin \in Members
           /\ Images[i].dat # Images[i].bin
           /\ package.size[Images[i].bin] \in Nat /\ package.size[Images[i].bin] > 0
           /\ i # image => Images[i].bin # f
  <2>1. Len(Images) \in Nat
    BY <1>2, ImagesListed
  <2>2. ASSUME NEW i \in 1 .. Len(Images)
        PROVE  /\ Images[i].dat \in Members /\ Images[i].bin \in Members
               /\ Images[i].dat # Images[i].bin
               /\ package.size[Images[i].bin] \in Nat /\ package.size[Images[i].bin] > 0
               /\ i # image => Images[i].bin # f
    <3>1. Images[i].dat \in Members /\ Images[i].bin \in Members
      BY <1>2, ImagesListed
    <3>2. package.size[Images[i].bin] \in 1 .. ThrowAway
      BY <1>2, <3>1, PackageIsOne
    <3>3. Images[i].dat # Images[i].bin
      BY <1>2, PackageIsOne
    <3>4. i # image => Images[i].bin # f
      BY <1>2, PackageIsOne DEF ImageFiles
    <3> QED
      BY <3>1, <3>2, <3>3, <3>4, ThrowAwayApart
  <2> QED
    BY <2>1, <2>2
<1>4. /\ UNCHANGED <<Members, Images>> /\ \A g : Listed(g)' = Listed(g)
      /\ \A g : Complete(g)' = Complete(g)
  <2>1. UNCHANGED <<Members, Images>>
    BY DEF Members, Images
  <2> QED
    BY <2>1 DEF Listed, Complete, IsHeader
<1>5. DOMAIN done' = Members /\ \A g \in Members : done'[g] = IF g = f THEN done[f] + n ELSE done[g]
  BY <1>1, <1>2
<1>6. \A g \in Members : Listed(g)' => Complete(g)'
  BY <1>2, <1>4 DEF ReadyToSend
<1>7. 0 % WriteChunkSize = 0
  <2>1. 0 \in -WriteChunkSize .. 2 * WriteChunkSize - 1
    BY <1>2
  <2> QED
    BY <1>2, <2>1, MaskOneLap DEF Mask
<1>8. CASE ~(done[f] + n >= package.size[f])
  <2>1. n = WriteChunkSize /\ UNCHANGED <<nzstate, image>>
    BY <1>1, <1>8
  <2>2. SentFile' = f
    BY <1>1, <1>4, <2>1 DEF SentFile
  <2>3. done'[f] \in Nat /\ done'[f] < package.size[f] /\ done'[f] % WriteChunkSize = 0
    <3>1. PICK d, w : d = done[f] /\ w = WriteChunkSize
      OBVIOUS
    <3>2. d \in Nat /\ d % w = 0 /\ w \in Nat \ {0} /\ done'[f] = d + w /\ d + w < package.size[f]
      BY <1>2, <1>5, <1>8, <2>1, <3>1
    <3>3. (d + w) % w = 0
      BY <3>2, NextPage
    <3> QED
      BY <3>1, <3>2, <3>3
  <2>4. nzstate' = "SENDING_COMMAND" => image' = 1 /\ done'[Images[1].bin] = 0
    <3> SUFFICES ASSUME nzstate = "SENDING_COMMAND" PROVE image' = 1 /\ done'[Images[1].bin] = 0
      BY <2>1
    <3>1. image = 1 /\ done[Images[1].bin] = 0
      BY <1>2 DEF ReadyToSend
    <3>2. f = Images[1].dat
      BY <1>1, <3>1 DEF SentFile
    <3> QED
      BY <1>2, <1>3, <1>5, <2>1, <3>1, <3>2
  <2>5. ASSUME NEW i \in image' + 1 .. Len(Images) PROVE done'[Images[i].bin] = 0
    <3>1. i \in 1 .. Len(Images) /\ i # image /\ i \in image + 1 .. Len(Images)
      BY <1>2, <1>3, <2>1
    <3> QED
      BY <1>2, <1>3, <1>5, <3>1 DEF ReadyToSend
  <2>6. ReadyToSend'
    BY <1>2, <1>4, <1>6, <2>1, <2>2, <2>3, <2>4, <2>5 DEF ReadyToSend
  <2>7. ZipTypeOK'
    BY <1>2, <1>4, <1>5, <2>1 DEF ZipTypeOK, Sending
  <2> QED
    BY <2>1, <2>6, <2>7 DEF ZipInv, Parsing, Sending
<1>9. CASE done[f] + n >= package.size[f]
  <2>1. NextFile
    BY <1>1, <1>9
  <2>2. CASE nzstate = "SENDING_COMMAND"
    <3>1. nzstate' = "SENDING_DATA" /\ image' = image /\ image = 1 /\ done[Images[1].bin] = 0
      BY <1>2, <2>1, <2>2 DEF NextFile, ReadyToSend
    <3>2. SentFile' = Images[1].bin
      BY <1>4, <3>1 DEF SentFile
    <3>3. f = Images[1].dat
      BY <1>1, <2>2, <3>1 DEF SentFile
    <3>4. done'[Images[1].bin] = 0
      BY <1>2, <1>3, <1>5, <3>1, <3>3
    <3>5. ASSUME NEW i \in image' + 1 .. Len(Images) PROVE done'[Images[i].bin] = 0
      <4>1. i \in 1 .. Len(Images) /\ i # image /\ i \in image + 1 .. Len(Images)
        BY <1>2, <1>3, <3>1
      <4> QED
        BY <1>2, <1>3, <1>5, <4>1 DEF ReadyToSend
    <3>6. ReadyToSend'
      BY <1>2, <1>3, <1>4, <1>6, <1>7, <3>1, <3>2, <3>4, <3>5 DEF ReadyToSend
    <3>7. ZipTypeOK'
      BY <1>2, <1>4, <1>5, <3>1 DEF ZipTypeOK, Sending
    <3> QED
      BY <3>1, <3>6, <3>7 DEF ZipInv, Parsing, Sending
  <2>3. CASE nzstate = "SENDING_DATA" /\ image = Len(Images)
    <3>1. nzstate' = "ALL_DONE"
      BY <2>1, <2>3 DEF NextFile
    <3>2. ZipTypeOK'
      BY <1>2, <1>4, <1>5, <3>1 DEF ZipTypeOK
    <3> QED
      BY <3>1, <3>2 DEF ZipInv, Parsing, Sending
  <2>4. CASE nzstate = "SENDING_DATA" /\ image # Len(Images)
    <3>1. nzstate' = "SENDING_DATA" /\ image' = image + 1
      BY <2>1, <2>4 DEF NextFile
    <3>2. image + 1 \in 1 .. Len(Images) /\ image + 1 # image
          /\ image + 1 \in image + 1 .. Len(Images)
      BY <1>2, <1>3, <2>4
    <3>3. SentFile' = Images[image + 1].bin
      BY <1>4, <3>1 DEF SentFile
    <3>4. ASSUME NEW i \in image + 1 .. Len(Images) PROVE done'[Images[i].bin] = 0
      <4>1. i \in 1 .. Len(Images) /\ i # image
        BY <1>2, <1>3
      <4> QED
        BY <1>2, <1>3, <1>5, <4>1 DEF ReadyToSend
    <3>5. done'[Images[image + 1].bin] = 0
      BY <3>2, <3>4
    <3>6. ASSUME NEW i \in image' + 1 .. Len(Images) PROVE done'[Images[i].bin] = 0
      <4>1. i \in image + 1 .. Len(Images)
        BY <1>2, <1>3, <3>1
      <4> QED
        BY <3>4, <4>1
    <3>7. ReadyToSend'
      BY <1>2, <1>3, <1>4, <1>6, <1>7, <3>1, <3>2, <3>3, <3>5, <3>6 DEF ReadyToSend
    <3>8. ZipTypeOK'
      BY <1>2, <1>4, <1>5, <3>1 DEF ZipTypeOK, Sending
    <3> QED
      BY <3>1, <3>7, <3>8 DEF ZipInv, Parsing, Sending
  <2> QED
    BY <2>2, <2>3, <2>4 DEF Sending
<1> QED
  BY <1>8, <1>9

\* A piece of a file is sent: its bytes go to their addresses.
LEMMA SendFileChunkKeeps ==
  ASSUME NordicLive, RawSize = DecodedSize, SendFileChunk
  PROVE  NordicLive'
<1>1. PICK f, d, z : f = SentFile /\ d = done[f] /\ z = package.size[f]
  OBVIOUS
<1>2. PICK e : e = RingSpaceToEnd(decoded_head, decoded_tail, DecodedSize)
  OBVIOUS
<1>3. PICK n : n = Min2(Min2(e, z - d), WriteChunkSize)
  OBVIOUS
<1>4. PICK b : b = BaseAddress
  OBVIOUS
<1>5. /\ Round /\ nzstate \in Sending /\ decoded_head % WriteChunkSize = 0
      /\ decoded_buf' = [s \in DecSlot |->
                           IF s \in decoded_head .. decoded_head + n - 1
                           THEN AddressOf(stored[f][d + s - decoded_head + 1])
                           ELSE decoded_buf[s]]
      /\ decoded_head' = Mask(decoded_head + n, RawSize)
      /\ done' = [done EXCEPT ![f] = @ + n]
      /\ IF d + n >= z
         THEN removed' = removed \cup {f} /\ NextFile
         ELSE UNCHANGED <<removed, nzstate, image, rx_done, written>>
      /\ Returns(n, b + d)
      /\ UNCHANGED <<rawVars, curr_rf, stored, received, dropped, failed>>
  BY <1>1, <1>2, <1>3, <1>4 DEF SendFileChunk, HeadMisaligned
<1>6. /\ pc = "decode" /\ result = "CONTINUE"
      /\ UNCHANGED <<tailVars, format_data, write_chunks, really_written, flushing, early,
                     format_ops, rx_timeout, calling, error, targetVars, package>>
  BY <1>5 DEF Round, At
<1>7. /\ TypeInv /\ TypeOK /\ Roomy /\ ZipInv /\ package \in Packages
      /\ decoded_head \in 0 .. DecodedSize - 1 /\ decoded_tail \in 0 .. DecodedSize - 1
      /\ decoded_head \in DecSlot /\ DecodedSize \in Nat \ {0} /\ WriteChunkSize \in Nat \ {0}
  BY TypesOfZip, Sizes DEF NordicLive, TypeInv, TypeOK, DecodedTypeOK, DecSlot
<1>8. /\ image \in 1 .. Len(Images) /\ image \in Nat /\ f \in ImageFiles(Images[image])
      /\ Complete(f) /\ z \in Nat /\ d \in Nat /\ d < z /\ d % WriteChunkSize = 0
      /\ b = (IF f = Images[image].bin THEN DataFlag ELSE 0) + (image - 1) * ImageSpan
      /\ b \in Nat /\ b % WriteChunkSize = 0
  BY <1>1, <1>4, <1>5, <1>7, SendingOne
<1>9. e \in Nat /\ WriteChunkSize <= e
  <2>1. WriteChunkSize <= RingSpace(decoded_head, decoded_tail, DecodedSize)
    BY <1>6, <1>7, RoomForAPage DEF DecSpace
  <2>2. decoded_head + WriteChunkSize <= DecodedSize
    BY <1>5, <1>7, AlignedHead
  <2>3. RingSpace(decoded_head, decoded_tail, DecodedSize) \in 0 .. DecodedSize - 1
    BY <1>7, CountPlusSpace
  <2>4. PICK m : m = RingSpace(decoded_head, decoded_tail, DecodedSize)
    OBVIOUS
  <2>5. e = IF m < DecodedSize - decoded_head THEN m ELSE DecodedSize - decoded_head
    BY <1>2, <1>7, <2>4, SpaceToEndIs
  <2> QED
    BY <1>7, <2>1, <2>2, <2>3, <2>4, <2>5
<1>10. /\ n \in 1 .. WriteChunkSize /\ n # 0 /\ n <= z - d /\ n \in Nat
       /\ ~(d + n >= z) => n = WriteChunkSize
  BY <1>3, <1>7, <1>8, <1>9 DEF Min2
<1>11. ASSUME NEW k \in 0 .. n - 1
       PROVE  AddressOf(stored[f][d + k + 1]) = b + d + k /\ b + d + k \in Nat
  <2>1. PICK m : m = d + k + 1
    OBVIOUS
  <2>2. m \in 1 .. z /\ k \in Nat /\ m - 1 = d + k /\ d + k \in Nat
    BY <1>8, <1>10, <2>1
  <2>3. PICK u : u = stored[f][m]
    OBVIOUS
  <2>4. package.content[u + 1] = [kind |-> "data", file |-> f, at |-> d + k]
    BY <1>1, <1>7, <1>8, <2>2, <2>3, PieceOfMember
  <2>5. PICK x : x = d + k
    OBVIOUS
  <2>6. AddressOf(u) = x + (image - 1) * ImageSpan + (IF f = Images[image].bin THEN DataFlag ELSE 0)
    <3>1. PICK i : i = image
      OBVIOUS
    <3>2. /\ x \in Nat /\ package.content[u + 1] = [kind |-> "data", file |-> f, at |-> x]
          /\ package \in Packages /\ i \in 1 .. Len(Images) /\ f \in ImageFiles(Images[i])
      BY <1>7, <1>8, <2>2, <2>4, <2>5, <3>1
    <3>3. AddressOf(u) = x + (i - 1) * ImageSpan + (IF f = Images[i].bin THEN DataFlag ELSE 0)
      BY ONLY <3>2, AddressIs
    <3> QED
      BY <3>1, <3>3
  <2>7. PICK p : p = (image - 1) * ImageSpan
    OBVIOUS
  <2>8. p \in Int /\ DataFlag \in Nat
    BY <1>8, <2>7, ThrowAwayApart
  <2>9. AddressOf(u) = b + d + k
    <3>1. PICK q : q = IF f = Images[image].bin THEN DataFlag ELSE 0
      OBVIOUS
    <3>2. b = q + p /\ AddressOf(u) = x + p + q /\ q \in Nat
      BY <1>8, <2>6, <2>7, <2>8, <3>1
    <3>3. d \in Nat /\ k \in Nat
      BY <1>8, <2>2
    <3> QED
      BY ONLY <2>2, <2>5, <2>8, <3>2, <3>3
  <2> QED
    BY <1>8, <2>1, <2>2, <2>3, <2>9
<1>12. ASSUME NEW k \in 0 .. n - 1
       PROVE  decoded_head + k \in DecSlot /\ decoded_buf'[decoded_head + k] = b + d + k
  <2>1. decoded_head + WriteChunkSize <= DecodedSize
    BY <1>5, <1>7, AlignedHead
  <2>2. PICK s : s = decoded_head + k
    OBVIOUS
  <2>3. /\ s \in DecSlot /\ s \in decoded_head .. decoded_head + n - 1
        /\ d + s - decoded_head + 1 = d + k + 1
    BY <1>7, <1>8, <1>10, <2>1, <2>2 DEF DecSlot
  <2>4. decoded_buf'[s] = AddressOf(stored[f][d + k + 1])
    BY <1>5, <2>3
  <2> QED
    BY <1>11, <2>2, <2>3, <2>4
<1>13. \A s \in DecSlot : s \notin decoded_head .. decoded_head + n - 1 =>
         decoded_buf'[s] = decoded_buf[s]
  BY <1>5
<1>14. decoded_buf' \in [DecSlot -> Nat \cup {NoData}]
  <2>1. ASSUME NEW s \in DecSlot PROVE decoded_buf'[s] \in Nat \cup {NoData}
    <3>1. CASE s \in decoded_head .. decoded_head + n - 1
      <4>1. PICK k : k = s - decoded_head
        OBVIOUS
      <4>2. k \in 0 .. n - 1 /\ s = decoded_head + k
        BY <1>7, <1>10, <3>1, <4>1 DEF DecSlot
      <4> QED
        BY <1>11, <1>12, <4>2
    <3>2. CASE s \notin decoded_head .. decoded_head + n - 1
      BY <1>7, <1>13, <3>2 DEF TypeOK, DecodedTypeOK
    <3> QED
      BY <3>1, <3>2
  <2>2. PICK g : g = decoded_buf'
    OBVIOUS
  <2>3. DOMAIN g = DecSlot /\ g = [s \in DecSlot |-> g[s]]
    BY <1>5, <2>2
  <2> QED
    BY <2>1, <2>2, <2>3
<1>15. AfterDecode(n, b + d) /\ UNCHANGED result
  BY <1>5, <1>10 DEF Returns
<1>16. written' \in BOOLEAN /\ rx_done' \in BOOLEAN
  BY <1>5, <1>7 DEF TypeOK, FlagsTypeOK, NextFile
<1>17. b + d \in Nat /\ (b + d) % WriteChunkSize = 0
  BY <1>7, <1>8, AlignedSum
<1>18. Consumed' = Consumed /\ (ZipInv' => NordicLive')
  <2>1. (decoded_head % WriteChunkSize) + n <= WriteChunkSize
    BY <1>5, <1>7, <1>10
  <2>2. PICK a : a = b + d
    OBVIOUS
  <2>3. \A k \in 0 .. n - 1 : a + k \in Realigning \/ decoded_buf'[decoded_head + k] = a + k
    BY <1>12, <2>2
  <2>4. a \in Nat /\ a % WriteChunkSize = 0 /\ AfterDecode(n, a)
    BY <1>15, <1>17, <2>2
  <2>5. UNCHANGED <<rawVars, tailVars, really_written, flushing, early, format_ops, write_chunks,
                     rx_timeout, calling, error, result, targetVars>>
    BY <1>5, <1>6, <1>15
  <2> QED
    BY <1>5, <1>6, <1>10, <1>13, <1>14, <1>16, <2>1, <2>3, <2>4, <2>5, PageReturned
<1>19. ZipInv'
  <2>1. done' = [done EXCEPT ![SentFile] = @ + n]
    BY <1>1, <1>5
  <2>2. IF done[SentFile] + n >= package.size[SentFile] THEN NextFile
        ELSE n = WriteChunkSize /\ UNCHANGED <<nzstate, image>>
    BY <1>1, <1>5, <1>10
  <2> QED
    BY <1>5, <1>6, <1>7, <1>10, <1>18, <2>1, <2>2, NextFileReady
<1> QED
  BY <1>18, <1>19

\* So every step of decode_chunk() keeps the invariant, unless ignoring a member
\* took more or less than the member.
LEMMA NordicDecodes ==
  ASSUME NordicLive, NothingUnlisted, RawSize = DecodedSize, DecodeZip, ~dropped'
  PROVE  NordicLive'
BY DecodeNothingKeeps, LocalHeaderKeeps, CentralHeaderKeeps, EndHeaderKeeps, StoreMemberKeeps,
   StoreFailsKeeps, IgnoreMemberKeeps, RealignKeeps, SendFileChunkKeeps DEF DecodeZip

-----------------------------------------------------------------------------
(* The theorem                                                             *)

\* The files of a package that the target stores are the manifest and those it
\* lists.
EveryFileListed ==
  \A p \in Packages : \A f \in DOMAIN p.size \ p.others :
    f = p.manifest \/ \E i \in 1 .. Len(p.images) : f \in ImageFiles(p.images[i])

\* The inductive invariant of HandedOverIntact.
NordicInv ==
  /\ HandedOverIntact
  /\ ~dropped /\ result \notin GivenUp => NordicLive

\* Two multiples differ by at least the step.
LEMMA AlignedApart ==
  ASSUME NEW w \in Nat \ {0}, NEW a \in Nat, NEW b \in Nat, a % w = 0, b % w = 0, a < b
  PROVE  a + w <= b
<1>1. PICK n : n = b - a
  OBVIOUS
<1>2. n \in Nat /\ 0 < n /\ a + n = b
  BY <1>1
<1>3. n < w => (a + n) % w = n
  BY <1>2, NotAligned
<1> QED
  BY <1>1, <1>2, <1>3

\* A chunk that is good for its address and does not leave its page is what
\* HandedOverIntact asks for.
LEMMA LiveIsIntact ==
  ASSUME NordicLive
  PROVE  HandedOverIntact
<1> SUFFICES ASSUME owned # NoChunk, ~IsThrowAway(owned), NEW k \in 0 .. owned.len - 1
             PROVE  SlotData(owned.start + k) = owned.addr + k
  BY DEF HandedOverIntact
<1>1. PICK a, s, n : a = write_chunks[1].addr /\ s = write_chunks[1].start
                       /\ n = write_chunks[1].len
  OBVIOUS
<1>2. /\ TypeInv /\ OnePages /\ HeldGood(RightBytes)
      /\ write_chunks # <<>> /\ owned.addr = a /\ owned.start = s /\ owned.len <= n
  BY <1>1 DEF NordicLive, HeldGood, OwnedPart
<1>3. 1 \in 1 .. Len(write_chunks)
  BY <1>2, QueueFields
<1>4. /\ a \in Nat /\ s \in 0 .. DecodedSize - 1 /\ n \in Nat
      /\ WriteChunkSize \in Nat \ {0} /\ DecodedSize \in Nat \ {0}
  BY <1>1, <1>2, <1>3, QueueFields, Sizes
<1>5. owned.len \in Nat
  BY <1>2 DEF TypeInv, TypeOK, TargetTypeOK, HandedOut, ChunkLen
<1>6. k \in 0 .. n - 1 /\ k \in Nat
  BY <1>2, <1>4, <1>5
<1>7. OnePage(a, s, n)
  BY <1>1, <1>2, <1>3 DEF OnePages
<1>8. s + n <= DecodedSize
  BY <1>4, <1>7, OnePieceOfRing DEF OnePage, DecSlot
<1>9. PICK t : t = s + k
  OBVIOUS
<1>10. t \in DecSlot /\ Mask(t, DecodedSize) = t
  <2>1. t \in DecSlot /\ t \in -DecodedSize .. 2 * DecodedSize - 1 /\ 0 <= t /\ t < DecodedSize
    BY <1>4, <1>6, <1>8, <1>9 DEF DecSlot
  <2> QED
    BY <1>4, <2>1, MaskOneLap
<1>11. Good(RightBytes, a + k, s + k)
  BY <1>1, <1>2, <1>3, <1>6 DEF HeldGood, QueueGood, GoodFrom
<1>12. <<a + k, t, decoded_buf[t]>> \in RightBytes
  BY <1>9, <1>10, <1>11 DEF Good
<1>13. a + k \notin Realigning
  <2>1. /\ ThrowAway \in Nat /\ ThrowAway % WriteChunkSize = 0 /\ a # ThrowAway
        /\ a % WriteChunkSize = 0 /\ k < WriteChunkSize
    BY <1>2, <1>4, <1>6, <1>7, ThrowAwayApart DEF OnePage, IsThrowAway
  <2>2. a < ThrowAway => a + WriteChunkSize <= ThrowAway
    BY <1>4, <2>1, AlignedApart
  <2>3. ThrowAway < a => ThrowAway + WriteChunkSize <= a
    BY <1>4, <2>1, AlignedApart
  <2> QED
    BY <1>4, <1>6, <2>1, <2>2, <2>3 DEF Realigning
<1>14. decoded_buf[t] = a + k
  BY <1>12, <1>13 DEF RightBytes
<1> QED
  BY <1>2, <1>9, <1>10, <1>14 DEF SlotData

\* It holds at first.
LEMMA NordicInvInit ==
  ASSUME NordicInit
  PROVE  NordicInv
<1>1. Init /\ ZipInit
  BY DEF NordicInit
<1>2. TypeInv /\ TilingInv
  BY <1>1, InitType, TilingInit
<1>3. /\ RawCount = 0 /\ Consumed = 0 /\ decoded_head = 0 /\ write_tail = 0 /\ DecCount = 0
      /\ Mask(0, DecodedSize) = 0 /\ Mask(0, RawSize) = 0 /\ tot_appended = 0
      /\ head = 0 /\ tail = 0 /\ decoded_chunk_size = 0
  BY <1>1, Sizes DEF Init, RawCount, RingCount, Mask, Consumed, DecCount
<1>4. /\ write_chunks = <<>> /\ pc = "top" /\ owned = NoChunk /\ Len(write_chunks) = 0
  BY <1>1 DEF Init, At
<1>5. RawInOrder
  BY <1>3, ClientKind DEF RawInOrder
<1>6. OnePages /\ Roomy
  BY <1>3, <1>4 DEF OnePages, Roomy
<1>7. HeldGood(RightBytes) /\ HeadAfter(0)
  BY <1>3, <1>4 DEF HeldGood, QueueGood, EnqGood, OwnedPart, HeadAfter, Left
<1>8. /\ package \in Packages /\ nzstate = "IDLE" /\ received = {}
      /\ DOMAIN stored = Members /\ DOMAIN done = Members
  BY <1>1 DEF ZipInit
<1>9. NextMember(Consumed + 1)
  BY <1>3, <1>8, PackageIsOne, ClientKind DEF NextMember
<1>10. ZipInv
  BY <1>8, <1>9 DEF ZipInv, ZipTypeOK, InStep, Parsing, Sending
<1>11. NordicLive
  BY <1>2, <1>5, <1>6, <1>7, <1>10 DEF NordicLive
<1> QED
  BY <1>11, LiveIsIntact DEF NordicInv

\* The history variable never forgets.
LEMMA DroppedStays ==
  ASSUME DecodeZip, dropped
  PROVE  dropped'
<1>1. DecodeNothing \/ NameIncomplete \/ LocalHeader \/ CentralHeader \/ EndHeader => dropped' = dropped
  BY DEF DecodeNothing, NameIncomplete, LocalHeader, CentralHeader, EndHeader
<1>2. StoreMember \/ StoreFails \/ Realign \/ SendFileChunk \/ SendFails => dropped' = dropped
  BY DEF StoreMember, StoreFails, Realign, SendFileChunk, SendFails
<1>3. IgnoreMember => dropped'
  BY DEF IgnoreMember
<1> QED
  BY <1>1, <1>2, <1>3 DEF DecodeZip

\* Every step keeps it, when no chunk is refused in a nested loop.
LEMMA NordicInductive ==
  ASSUME NordicInv, [NordicNext]_allVars, [~RefusedInside]_allVars,
         RawSize = DecodedSize, EveryFileListed
  PROVE  NordicInv'
<1>1. CASE dropped
  <2>1. dropped' \/ GivesUp
    <3>1. UNCHANGED zipState => dropped' = dropped
      BY DEF zipState
    <3> QED
      BY <1>1, <3>1, NordicSteps, DroppedStays
  <2>2. dropped'
    BY <1>1, <2>1 DEF GivesUp
  <2> QED
    BY <2>2 DEF NordicInv, HandedOverIntact
<1>2. CASE GivesUp
  <2>1. HandedOverIntact'
    BY <1>2 DEF GivesUp, NordicInv, HandedOverIntact, IsThrowAway, SlotData, DecSlot
  <2> QED
    BY <1>2, <2>1 DEF GivesUp, NordicInv
<1>3. CASE UNCHANGED vars /\ UNCHANGED zipState
  <2>1. UNCHANGED <<dropped, result, owned, decoded_buf>>
    BY <1>3 DEF vars, zipState, dfuVars, decVars, targetVars
  <2>2. HandedOverIntact'
    BY <2>1 DEF NordicInv, HandedOverIntact, IsThrowAway, SlotData, DecSlot
  <2>3. NordicLive => NordicLive'
    <3> SUFFICES ASSUME NordicLive PROVE NordicLive'
      OBVIOUS
    <3>1. /\ UNCHANGED <<rawVars, decVars, tailVars, decoded_chunk_size, write_chunks,
                         flagVars, rx_timeout, pc, calling, enq, dfuVars, targetVars>>
      BY <1>3 DEF vars
    <3>2. TypeInv' /\ RawInOrder' /\ Consumed' = Consumed
      <4>1. /\ RawTypeOK' /\ ChunksTypeOK' /\ FlagsTypeOK' /\ LoopTypeOK' /\ TargetTypeOK'
            /\ OwnedIsFirst' /\ DecodedTypeOK'
        BY <3>1, FramedTypes DEF NordicLive, TypeInv, TypeOK, decVars
      <4>2. UNCHANGED <<buf, head, tail, tot_appended>>
        BY <3>1 DEF rawVars
      <4> QED
        BY <4>1, <4>2 DEF TypeInv, TypeOK, NordicLive, RawInOrder, Consumed, RawCount
    <3>3. CASE result = "CONTINUE"
      BY <1>3, <3>1, <3>2, <3>3, NordicFramed DEF decVars, tailVars, dfuVars, targetVars
    <3>4. ZipInv'
      BY <1>3, <3>2, ZipFramed DEF NordicLive
    <3>5. UNCHANGED <<decoded_buf, decoded_head, decoded_tail, write_tail, decoded_chunk_size,
                      write_chunks, calling, enq, owned, result, pc>>
      BY <3>1 DEF decVars, tailVars, dfuVars, targetVars
    <3>6. OnePages' /\ Roomy' /\ TilingInv' /\ (result' # "ERROR" => HeadAfter(0)')
      BY <3>5 DEF NordicLive, OnePages, OnePage, Roomy, DecSpace, DecCount, HeadAfter, Left,
         TilingInv, Covered, CalledAtTop, Tiled, Offset, ChunkEnd, LastChunk, Abut, EndsBy
    <3>7. HeldGood(RightBytes)'
      BY <3>5 DEF NordicLive, HeldGood, QueueGood, EnqGood, GoodFrom, Good, OwnedPart,
         RightBytes, Realigning, DecSlot
    <3> QED
      BY <3>2, <3>4, <3>6, <3>7 DEF NordicLive
  <2> QED
    BY <2>1, <2>2, <2>3 DEF NordicInv
<1>4. CASE ~dropped /\ result = "CONTINUE" /\ ~GivesUp /\ ~(UNCHANGED vars /\ UNCHANGED zipState)
  <2>1. NordicLive
    BY <1>4 DEF NordicInv, GivenUp
  <2>2. ~RefusedInside
    <3>1. UNCHANGED allVars => UNCHANGED vars /\ UNCHANGED zipState
      <4>1. UNCHANGED allVars => UNCHANGED vars /\ UNCHANGED zipVars
        BY DEF allVars
      <4>2. UNCHANGED zipVars => UNCHANGED zipState
        BY DEF zipVars, zipState, fileVars
      <4> QED
        BY <4>1, <4>2
    <3> QED
      BY <1>4, <3>1
  <2>3. NothingUnlisted
    BY <2>1, TypesOfZip DEF EveryFileListed, NothingUnlisted, Listed, Members, Images
  <2>4. ~dropped' => NordicLive'
    <3>1. CASE (LoopStep \/ EnvironmentStep) /\ UNCHANGED zipState
      BY <2>1, <2>2, <3>1, NordicLayer
    <3>2. CASE (DoFlush(0) \/ RxTimeout(NordicStuck)) /\ UNCHANGED zipState
      BY <2>1, <3>2, NordicOthers
    <3>3. CASE DecodeZip
      BY <2>1, <2>3, <3>3, NordicDecodes
    <3> QED
      BY <1>4, <3>1, <3>2, <3>3, NordicSteps
  <2>5. HandedOverIntact'
    <3>1. NordicLive' => HandedOverIntact'
      BY LiveIsIntact, PTL
    <3>2. dropped' => HandedOverIntact'
      BY DEF HandedOverIntact
    <3> QED
      BY <2>4, <3>1, <3>2
  <2> QED
    BY <2>4, <2>5 DEF NordicInv
<1>5. result = "CONTINUE" \/ GivesUp \/ (UNCHANGED vars /\ UNCHANGED zipState)
  <2>1. DoFlush(0) => result = "CONTINUE"
    BY DEF DoFlush, At
  <2>2. RxTimeout(NordicStuck) => result = "CONTINUE"
    BY RxTimeoutFrame
  <2>3. DecodeZip => result = "CONTINUE"
    BY DEF DecodeZip, DecodeNothing, NameIncomplete, LocalHeader, CentralHeader, EndHeader,
       StoreMember, StoreFails, IgnoreMember, Realign, SendFileChunk, SendFails, InState, Round, At
  <2> QED
    BY <2>1, <2>2, <2>3, NordicSteps, LayerDoesNotDecode
<1> QED
  BY <1>1, <1>2, <1>3, <1>4, <1>5

\* The target is never handed a byte of a package under another address than the
\* one of its image, file and offset: every file was received whole before any of
\* it is sent, however the package was cut into blocks, whatever the application's
\* files refuse to store and whatever the device answers, as long as the decoded
\* ring is as large as the raw one (the decoded head is masked with the size of
\* the raw ring), the package has no file that the target stores and the manifest
\* does not list, and no chunk is refused in a nested loop.
THEOREM HandedOver ==
  ASSUME RawSize = DecodedSize, EveryFileListed
  PROVE  NordicSpec /\ [][~RefusedInside]_allVars => []HandedOverIntact
<1>1. NordicInit => NordicInv
  BY NordicInvInit
<1>2. NordicInv /\ [NordicNext]_allVars /\ [~RefusedInside]_allVars => NordicInv'
  BY NordicInductive
<1>3. NordicInv => HandedOverIntact
  BY DEF NordicInv
<1> QED
  BY <1>1, <1>2, <1>3, PTL DEF NordicSpec
=============================================================================
