---------------------------- MODULE BinaryImage -----------------------------
(***************************************************************************)
(* An upload of a raw binary file: the binary file layer with the format   *)
(* of src/binary-format-bin.c.  Byte a of the file goes to address a.      *)
(***************************************************************************)
EXTENDS BinaryFile

\* Once the format is found, format_data is bfdata.curr_addr, the address of
\* the next byte.

\* The raw units of the ring from slot i on, copied to n slots of decoded_buf
\* from slot d on.
Subcopy(db, d, n, i) ==
  [s \in DOMAIN db |-> IF s \in d .. d + n - 1
                       THEN buf[Mask(i + (s - d), RawSize)] ELSE db[s]]

\* binary_decode_chunk(): copy up to the end of the decoded buffer, then from
\* its beginning on, as much as there is room for.
DecodeBinary ==
  LET n1 == Min2(RingSpaceToEnd(decoded_head, decoded_tail, DecodedSize),
                 RawCount)
      d1 == Mask(decoded_head + n1, DecodedSize)
      n2 == Min2(RingSpace(d1, decoded_tail, DecodedSize), RawCount - n1)
  IN  /\ At("decode")
      /\ decoded_buf' = Subcopy(Subcopy(decoded_buf, decoded_head, n1, tail),
                                d1, n2, Mask(tail + n1, RawSize))
      /\ decoded_head' = Mask(d1 + n2, DecodedSize)
      /\ tail' = Mask(tail + n1 + n2, RawSize)
      /\ format_data' = format_data + n1 + n2
      /\ AfterDecode(n1 + n2, format_data)
      /\ UNCHANGED <<buf, head, tot_appended, tailVars, write_chunks, flagVars,
                     rx_timeout, calling, dfuVars, targetVars>>

\* Neither the client, nor the loop, nor the target has anything left to do.
Stuck ==
  /\ flushing /\ owned = NoChunk /\ erasing = {} /\ ~calling
  /\ ~HasNextWriteChunk
  /\ \/ RawCount = 0
     \/ DecSpace < 2 * decoded_chunk_size
     \/ DecSpace = 0
  /\ \/ tot_appended = FileSize
     \/ \A n \in BlockSizes : Min2(n, FileSize - tot_appended) > RawSpace

Terminated == result # "CONTINUE" /\ UNCHANGED vars

Next ==
  \/ LoopStep \/ EnvironmentStep
  \/ DoFlush(0) \/ DecodeBinary
  \/ RxTimeout(Stuck)
  \/ Terminated

Spec == Init /\ [][Next]_vars

FairSpec ==
  /\ Spec
  /\ LayerFairness
  /\ WF_vars(LoopStep \/ DoFlush(0) \/ DecodeBinary)
  /\ SF_vars(RxTimeout(Stuck))

-----------------------------------------------------------------------------

\* Every byte taken out of the raw ring is in flash, where it belongs, or in
\* a write chunk: none is dropped on the way (chunk boundaries, rings that
\* wrap, a target that is busy).  After an early end a chunk may grow while it
\* is written, and what it grew by is freed with it.
NoByteLost ==
  pc # "enqueue" /\ result # "ERROR" /\ ~early =>
    \A a \in 0 .. Consumed - 1 : flash[a] = a \/ Queued(a)

\* "All bytes flushed and target said all bytes written"
\* (struct dfu_binary_file): when really_written is set all that was appended
\* is in flash.
ReallyAll == really_written => \A a \in 0 .. tot_appended - 1 : flash[a] = a

\* ReallyAll, unless the end of the file was announced early: completion looks
\* at the chunks, not at the bytes that still wait in the raw ring.
ReallyWrittenMeansSent == ~early => ReallyAll

\* There is room for what the estimate of _bf_do_flush() asks for beside a page
\* that is not complete: no call of decode_chunk() took half the decoded ring.
EstimateFits == 2 * decoded_chunk_size <= DecodedSize - WriteChunkSize

\* Neither client, nor loop, nor target can go on, though no chunk was refused.
Waits ==
  /\ result = "CONTINUE" /\ pc \notin {"decode", "enqueue"} /\ ~error
  /\ Stuck
  /\ write_chunks = <<>> \/ ~write_chunks[1].write_pending

\* All the file has been taken, and its full pages are in flash.
AllTaken ==
  /\ Consumed = FileSize
  /\ \A a \in 0 .. (FileSize \div WriteChunkSize) * WriteChunkSize - 1 : flash[a] = a

\* Flow control leaves nothing behind, whatever was decoded at once: "safe
\* estimate of decoded chunk's size" (struct dfu_binary_file).
EstimateIsSafe == Waits /\ ~early => AllTaken

\* As long as the estimate leaves room beside a page, the flow control of
\* _bf_do_flush() is safe, and no chunk waits for bytes that do not come: when
\* nobody can go on, all the file has been taken and its pages are in flash.
NeverStuckEarly == Waits /\ ~early /\ EstimateFits => AllTaken
=============================================================================
