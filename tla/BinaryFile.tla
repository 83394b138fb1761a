----------------------------- MODULE BinaryFile -----------------------------
(***************************************************************************)
(* The binary file layer of libdfu (src/binary-file.c) as the idle loop    *)
(* (src/dfu.c) drives it.                                                  *)
(*                                                                         *)
(* A client appends raw bytes to the raw ring.  The flush step asks the    *)
(* file format to decode some of them into the decoded ring and cuts what  *)
(* was decoded into write chunks.  The write step hands the oldest chunk   *)
(* to the target, which reads the bytes from the decoded ring and reports  *)
(* the chunk done in a later iteration of the loop.                        *)
(*                                                                         *)
(* The module holds the state and every step that does not depend on the   *)
(* file format; BinaryImage and IhexImage add a format and a Next action.  *)
(*                                                                         *)
(* pc says how far the current dfu_idle() iteration has got:               *)
(*   "top"      about to start an iteration                                *)
(*   "poll"     interface, file, timeouts and target are polled            *)
(*   "write"    about to run _bf_do_write()                                *)
(*   "flush"    about to run _bf_do_flush()                                *)
(*   "decode"   inside format_ops->decode_chunk()                          *)
(*   "enqueue"  inside the loop of bf_enqueue_for_writing()                *)
(*   "host"     in the host's idle operation, at the end of the iteration  *)
(* The events of the client, the device and the clock are delivered in     *)
(* "poll" and in "host".                                                   *)
(* calling is TRUE while _bf_do_write() is inside chunk_available().  Some *)
(* targets wait for the device in there by running dfu_idle() again, so    *)
(* iterations of the loop may take place before the call returns.          *)
(*                                                                         *)
(* Data is abstract: a decoded byte is the address the file gives it, so   *)
(* flash[a] = a says that the byte at address a was programmed correctly.  *)
(***************************************************************************)
EXTENDS DfuRing, Sequences, FiniteSets

CONSTANTS
  RawSize,         \* CONFIG_BINARY_FILE_BUFSIZE
  DecodedSize,     \* decoded_size, a multiple of WriteChunkSize
  WriteChunkSize,  \* write_chunk_size: the target's get_write_chunk_size()
  MaxChunks,       \* CONFIG_MAX_CHUNKS
  IgnoreAlignment, \* the target's ignore_chunk_alignment()
  NestedIdle,      \* chunk_available() waits by running dfu_idle()
  SectorSize,      \* addresses per erase sector, 0: target has no must_erase()
  TargetMayFail,   \* the target may reject a chunk or fail to program it
  SlowPeers,       \* the 10 s timeout may expire while someone still works
  Client,          \* "file": dfu_new_binary_file(), "http": start_rx() and the
                   \* end left to the format, "http_end": start_rx() and a
                   \* client that may announce the end with an empty block
  BlockSizes,      \* sizes of the blocks the client appends
  FileSize,        \* raw bytes in the file
  MaxAddr,         \* greatest address of the target memory that is modelled
  NoData,          \* content of a slot or flash cell never written
  NoChunk          \* no chunk

ASSUME RingSizes ==
  /\ RawSize \in PowersOfTwo /\ RawSize > 1
  /\ DecodedSize \in PowersOfTwo
  /\ WriteChunkSize \in PowersOfTwo
  /\ MaxChunks \in PowersOfTwo /\ MaxChunks > 1

ASSUME ChunkDividesBuffer ==
  /\ WriteChunkSize < DecodedSize
  /\ DecodedSize % WriteChunkSize = 0

ASSUME TargetKind ==
  /\ IgnoreAlignment \in BOOLEAN
  /\ NestedIdle \in BOOLEAN
  /\ TargetMayFail \in BOOLEAN
  /\ SectorSize \in Nat

ASSUME ClientKind ==
  /\ Client \in {"file", "http", "http_end"}
  /\ BlockSizes \subseteq Nat \ {0}
  /\ FileSize \in Nat \ {0}
  /\ MaxAddr \in Nat
  /\ SlowPeers \in BOOLEAN

VARIABLES
  buf, head, tail, tot_appended,               \* raw ring
  decoded_buf, decoded_head, decoded_tail,     \* decoded ring
  write_tail, decoded_chunk_size,
  format_data,                                 \* private to the file format
  write_chunks,                                \* queue of write chunks
  written, really_written, rx_done, flushing,  \* flags of the binary file
  early,                                       \* history: an end came too early
  format_ops,                                  \* a format has been found
  rx_timeout,                                  \* rx_timeout is in the list
  pc, calling, enq,                            \* control
  error, result,                               \* dfu->error, dfu_idle()
  target_busy, owned, erasing, erased, flash   \* target

rawVars    == <<buf, head, tail, tot_appended>>
decVars    == <<decoded_buf, decoded_head, format_data>>
tailVars   == <<decoded_tail, write_tail>>
flagVars   == <<written, really_written, rx_done, flushing, early, format_ops>>
dfuVars    == <<error, result>>
targetVars == <<target_busy, owned, erasing, erased, flash>>
vars       == <<rawVars, decVars, tailVars, decoded_chunk_size, write_chunks,
                flagVars, rx_timeout, pc, calling, enq, dfuVars, targetVars>>

-----------------------------------------------------------------------------
(* Ring quantities *)

RawCount   == RingCount(head, tail, RawSize)
RawSpace   == RingSpace(head, tail, RawSize)
DecCount   == RingCount(decoded_head, decoded_tail, DecodedSize)
DecSpace   == RingSpace(decoded_head, decoded_tail, DecodedSize)
ChunkSpace == MaxChunks - 1 - Len(write_chunks)

Byte      == 0 .. MaxAddr
RawSlot   == 0 .. RawSize - 1
DecSlot   == 0 .. DecodedSize - 1
ChunkLen  == 0 .. WriteChunkSize

\* addr, start and len of struct dfu_write_chunk, its two flags, and the part
\* of it that is passed to the target.
Chunk     == [addr : Nat, start : DecSlot, len : ChunkLen,
              pending : BOOLEAN, write_pending : BOOLEAN]
HandedOut == [addr : Nat, start : DecSlot, len : ChunkLen]

ASSUME NotAChunk == NoChunk \notin HandedOut

\* The number of raw units taken out of the raw ring since the beginning.
Consumed == tot_appended - RawCount

\* b with units first, first + 1, ... copied to n slots from slot i on.
CopyIn(b, i, n, first) ==
  [s \in DOMAIN b |-> IF s \in i .. i + n - 1 THEN first + (s - i) ELSE b[s]]

Sector(a) == a \div SectorSize

ChunkSectors(c) == {Sector(a) : a \in c.addr .. c.addr + c.len - 1}

\* The loop is still being called and has got to point p.
At(p) == result = "CONTINUE" /\ pc = p

\* Events are delivered.
AtEvents == At("poll") \/ At("host")

-----------------------------------------------------------------------------
(* The queue of write chunks *)

LastChunk == write_chunks[Len(write_chunks)]

\* Wrong: pending chunks are taken like the others.
HasNextWriteChunk_Pending ==
  write_chunks # <<>> /\ ~write_chunks[1].write_pending

\* A pending chunk is taken only when the file ended and it is the last one.
IgnorePending == written /\ Len(write_chunks) = 1

HasNextWriteChunk ==
  /\ write_chunks # <<>>
  /\ ~write_chunks[1].write_pending
  /\ write_chunks[1].pending => IgnorePending

PutWriteChunk ==
  /\ decoded_tail' = Mask(write_chunks[1].start + write_chunks[1].len,
                          DecodedSize)
  /\ write_chunks' = Tail(write_chunks)

-----------------------------------------------------------------------------
(* The client *)

\* Wrong: src is not advanced before the second copy.
AppendData_SameSource(n) ==
  LET n1 == Min2(RingSpaceToEnd(head, tail, RawSize), n)
      h1 == Mask(head + n1, RawSize)
      n2 == n - n1
  IN  /\ n <= RawSpace
      /\ buf' = CopyIn(CopyIn(buf, head, n1, tot_appended),
                       h1, n2, tot_appended)
      /\ head' = Mask(h1 + n2, RawSize)
      /\ tot_appended' = tot_appended + n
      /\ UNCHANGED tail

\* Append n units if they all fit, else leave the ring alone.  The copy may
\* need two segments, one up to the end of the array and one from its start.
AppendData(n) ==
  LET n1 == Min2(RingSpaceToEnd(head, tail, RawSize), n)
      h1 == Mask(head + n1, RawSize)
      n2 == n - n1
  IN  /\ n <= RawSpace
      /\ buf' = CopyIn(CopyIn(buf, head, n1, tot_appended),
                       h1, n2, tot_appended + n1)
      /\ head' = Mask(h1 + n2, RawSize)
      /\ tot_appended' = tot_appended + n
      /\ UNCHANGED tail

\* The client appends its next block.  A file client marks the end of the file
\* as soon as its last block is in.
AppendsBlock ==
  /\ tot_appended < FileSize
  /\ \E n \in BlockSizes : AppendData(Min2(n, FileSize - tot_appended))
  /\ written' = (written \/ (Client = "file" /\ tot_appended' = FileSize))

\* An empty block, as of a POST without a body, is taken for the end of the
\* file at any time, the first bytes of the file or others still to come.
AppendsNothing ==
  /\ Client = "http_end"
  /\ written' = TRUE
  /\ UNCHANGED rawVars

\* A file event.  An end is early when raw bytes that are still to be decoded
\* are in the ring, or come to it later.
ClientAppends ==
  /\ AtEvents
  /\ AppendsBlock \/ AppendsNothing
  /\ early' = (early \/ (written' /\ ~rx_done /\ RawCount' > 0))
  /\ UNCHANGED <<decVars, tailVars, decoded_chunk_size, write_chunks,
                 really_written, rx_done, flushing, format_ops, rx_timeout,
                 pc, calling, enq, dfuVars, targetVars>>

\* The application has reset and probed the target and starts programming.
FlushStart ==
  /\ At("top") /\ ~flushing
  /\ flushing' = TRUE
  /\ UNCHANGED <<rawVars, decVars, tailVars, decoded_chunk_size, write_chunks,
                 written, really_written, rx_done, early, format_ops, rx_timeout,
                 pc, calling, enq, dfuVars, targetVars>>

-----------------------------------------------------------------------------
(* The idle loop *)

\* dfu_idle() returns and is called again.  The loop of a target that waits
\* inside chunk_available() runs until the chunk is handed to the device.
LoopTop ==
  /\ At("top")
  /\ calling => NestedIdle /\ owned # NoChunk /\ ~error
  /\ \/ /\ really_written
        /\ result' = "ALL_DONE" /\ UNCHANGED pc
     \/ /\ ~really_written /\ error
        /\ result' = "ERROR" /\ UNCHANGED pc
     \/ /\ ~really_written /\ ~error
        /\ pc' = "poll" /\ UNCHANGED result
  /\ UNCHANGED <<rawVars, decVars, tailVars, decoded_chunk_size, write_chunks,
                 flagVars, rx_timeout, calling, enq, error, targetVars>>

\* Polling is over, dfu_binary_file_on_idle() starts.
OnIdle ==
  /\ At("poll")
  /\ pc' = "write"
  /\ UNCHANGED <<rawVars, decVars, tailVars, decoded_chunk_size, write_chunks,
                 flagVars, rx_timeout, calling, enq, dfuVars, targetVars>>

\* The host's idle operation returns.
HostIdle ==
  /\ At("host")
  /\ pc' = "top"
  /\ UNCHANGED <<rawVars, decVars, tailVars, decoded_chunk_size, write_chunks,
                 flagVars, rx_timeout, calling, enq, dfuVars, targetVars>>

\* No data came in and no page was written for 10 seconds.  Unless SlowPeers,
\* this happens only when nobody has anything left to do (stuck).
RxTimeout(stuck) ==
  /\ AtEvents /\ rx_timeout
  /\ SlowPeers \/ stuck
  /\ error' = TRUE
  /\ rx_timeout' = FALSE
  /\ UNCHANGED <<rawVars, decVars, tailVars, decoded_chunk_size, write_chunks,
                 flagVars, pc, calling, enq, result, targetVars>>

-----------------------------------------------------------------------------
(* Handing chunks to the target *)

\* The target starts an erase when any sector of the chunk is not erased yet.
MustErase == SectorSize > 0 /\ ~(ChunkSectors(write_chunks[1]) \subseteq erased)

\* _bf_do_write(): the target is busy or there is nothing to write.
WriteNothing ==
  /\ At("write")
  /\ target_busy \/ ~HasNextWriteChunk
  /\ pc' = "flush"
  /\ UNCHANGED <<rawVars, decVars, tailVars, decoded_chunk_size, write_chunks,
                 flagVars, rx_timeout, calling, enq, dfuVars, targetVars>>

\* _bf_do_write(): the target starts erasing the sectors of the chunk, which
\* stays first in the queue.
WriteErases ==
  /\ At("write")
  /\ ~target_busy /\ HasNextWriteChunk /\ MustErase
  /\ erasing' = ChunkSectors(write_chunks[1]) \ erased
  /\ target_busy' = TRUE
  /\ pc' = "flush"
  /\ UNCHANGED <<rawVars, decVars, tailVars, decoded_chunk_size, write_chunks,
                 flagVars, rx_timeout, calling, enq, dfuVars,
                 owned, erased, flash>>

\* Wrong: the timeout is cancelled and not set again.
WriteHandsOver_NoTimeout ==
  /\ At("write")
  /\ ~target_busy /\ HasNextWriteChunk /\ ~MustErase
  /\ write_chunks' = [write_chunks EXCEPT ![1].write_pending = TRUE]
  /\ rx_timeout' = FALSE
  /\ owned' = [addr  |-> write_chunks[1].addr,
               start |-> write_chunks[1].start,
               len   |-> write_chunks[1].len]
  /\ target_busy' = TRUE
  /\ calling' = TRUE
  /\ pc' = "top"
  /\ UNCHANGED <<rawVars, decVars, tailVars, decoded_chunk_size, flagVars,
                 enq, dfuVars, erasing, erased, flash>>

\* _bf_do_write(): the chunk is marked and chunk_available() is called.
WriteHandsOver ==
  /\ At("write")
  /\ ~target_busy /\ HasNextWriteChunk /\ ~MustErase
  /\ write_chunks' = [write_chunks EXCEPT ![1].write_pending = TRUE]
  /\ rx_timeout' = TRUE
  /\ owned' = [addr  |-> write_chunks[1].addr,
               start |-> write_chunks[1].start,
               len   |-> write_chunks[1].len]
  /\ target_busy' = TRUE
  /\ calling' = TRUE
  /\ pc' = "top"
  /\ UNCHANGED <<rawVars, decVars, tailVars, decoded_chunk_size, flagVars,
                 enq, dfuVars, erasing, erased, flash>>

\* chunk_available() returns 0: the outer iteration goes on with the flush.
ChunkAvailableOk ==
  /\ At("top") /\ calling
  /\ calling' = FALSE
  /\ pc' = "flush"
  /\ UNCHANGED <<rawVars, decVars, tailVars, decoded_chunk_size, write_chunks,
                 flagVars, rx_timeout, enq, dfuVars, targetVars>>

\* chunk_available() returns an error: the chunk is thrown away and the
\* iteration ends with DFU_ERROR.
ChunkAvailableFails ==
  /\ At("top") /\ calling /\ TargetMayFail
  /\ write_chunks # <<>> /\ write_chunks[1].write_pending
  /\ PutWriteChunk
  /\ calling' = FALSE
  /\ owned' = NoChunk
  /\ target_busy' = FALSE
  /\ result' = "ERROR"
  /\ UNCHANGED <<rawVars, decVars, write_tail, decoded_chunk_size, flagVars,
                 rx_timeout, pc, enq, error, erasing, erased, flash>>

-----------------------------------------------------------------------------
(* The target.  It runs when the loop polls it and inside chunk_available(). *)

InChunkAvailable == At("top") /\ calling

\* The answer to a chunk arrives with an event, or at once.  A target that
\* waits in a nested loop has not sent the chunk yet.
AnswerArrives == InChunkAvailable \/ (AtEvents /\ ~calling)

\* What the target finds i slots after the beginning of the decoded buffer.
SlotData(i) == IF i \in DecSlot THEN decoded_buf[i] ELSE NoData

Programmed(c) ==
  [a \in Byte |-> IF a \in c.addr .. c.addr + c.len - 1
                  THEN SlotData(c.start + (a - c.addr)) ELSE flash[a]]

\* Wrong: the other chunks are not looked at.
AllDone_Written == written

\* The chunk that is being freed is the last one of a file that ended.
AllDone == written /\ Len(write_chunks) = 1

\* The device confirms the chunk: dfu_binary_file_chunk_done(bf, addr, 0).
\* When it was the last one the upload is complete; completion calls
\* bf->rx_method->ops->done(), and a file client has no rx_method.
ChunkDone ==
  /\ AnswerArrives /\ owned # NoChunk
  /\ flash' = Programmed(owned)
  /\ owned' = NoChunk
  /\ target_busy' = FALSE
  /\ PutWriteChunk
  /\ IF AllDone
     THEN /\ really_written' = TRUE
          /\ rx_timeout' = FALSE
          /\ result' = IF Client = "file" THEN "CRASH" ELSE result
     ELSE UNCHANGED <<really_written, rx_timeout, result>>
  /\ UNCHANGED <<rawVars, decVars, write_tail, decoded_chunk_size, written,
                 rx_done, flushing, early, format_ops, pc, calling, enq, error,
                 erasing, erased>>

\* The device refuses the chunk.  Some targets call dfu_notify_error(), the
\* others only dfu_binary_file_chunk_done(bf, addr, -1), which does nothing.
ChunkFails ==
  /\ AnswerArrives /\ TargetMayFail /\ owned # NoChunk
  /\ owned' = NoChunk
  /\ target_busy' = FALSE
  /\ error' \in {error, TRUE}
  /\ UNCHANGED <<rawVars, decVars, tailVars, decoded_chunk_size, write_chunks,
                 flagVars, rx_timeout, pc, calling, enq, result,
                 erasing, erased, flash>>

\* A chunk may take several commands: the target is not busy between two.
BetweenCommands ==
  /\ AtEvents \/ InChunkAvailable
  /\ owned # NoChunk
  /\ target_busy' = ~target_busy
  /\ UNCHANGED <<rawVars, decVars, tailVars, decoded_chunk_size, write_chunks,
                 flagVars, rx_timeout, pc, calling, enq, dfuVars,
                 owned, erasing, erased, flash>>

\* The erase command ends.
EraseEnds ==
  /\ AtEvents /\ erasing # {}
  /\ \/ erased' = erased \cup erasing /\ UNCHANGED error
     \/ TargetMayFail /\ error' = TRUE /\ UNCHANGED erased
  /\ erasing' = {}
  /\ target_busy' = FALSE
  /\ UNCHANGED <<rawVars, decVars, tailVars, decoded_chunk_size, write_chunks,
                 flagVars, rx_timeout, pc, calling, enq, result,
                 owned, flash>>

-----------------------------------------------------------------------------
(* Decoding and cutting into chunks *)

\* dfu_binary_file_on_idle() fails and dfu_idle() returns DFU_ERROR.  The
\* application gives up; a target waiting inside chunk_available() only
\* stops waiting and goes on.
IterationFails ==
  /\ pc' = "top"
  /\ result' = IF calling THEN result ELSE "ERROR"

\* _bf_do_flush() up to the call of decode_chunk().  Finding the format sets
\* its private data to probed and arms rx_timeout.  No decoding without room
\* for twice the largest chunk the format has ever decoded.
DoFlush(probed) ==
  /\ At("flush")
  /\ \/ /\ ~flushing \/ RawCount = 0
        /\ pc' = "host" /\ UNCHANGED <<format_ops, format_data, rx_timeout>>
     \/ /\ flushing /\ RawCount > 0
        /\ format_ops' = TRUE
        /\ format_data' = IF format_ops THEN format_data ELSE probed
        /\ rx_timeout' = (rx_timeout \/ ~format_ops)
        /\ pc' = IF DecSpace < 2 * decoded_chunk_size THEN "host" ELSE "decode"
  /\ UNCHANGED <<rawVars, decoded_buf, decoded_head, tailVars,
                 decoded_chunk_size, write_chunks, written, really_written,
                 rx_done, flushing, early, calling, enq, dfuVars, targetVars>>

\* What _bf_do_flush() does with the result of decode_chunk(): stat bytes
\* that start at address addr.
AfterDecode(stat, addr) ==
  /\ decoded_chunk_size' = IF stat > decoded_chunk_size THEN stat
                           ELSE decoded_chunk_size
  /\ IF stat = 0
     THEN pc' = "host" /\ UNCHANGED enq
     ELSE pc' = "enqueue" /\ enq' = [addr |-> addr, len |-> stat]

\* Wrong: write_tail moves by all that is left to enqueue.
Enqueued_All(n) ==
  /\ enq' = [addr |-> enq.addr + n, len |-> enq.len - n]
  /\ pc' = IF enq.len = n THEN "host" ELSE "enqueue"
  /\ write_tail' = Mask(write_tail + enq.len, DecodedSize)
  /\ UNCHANGED result

\* One round of the loop of bf_enqueue_for_writing() is over and n bytes are
\* in chunks; the loop ends when none is left.
Enqueued(n) ==
  /\ enq' = [addr |-> enq.addr + n, len |-> enq.len - n]
  /\ pc' = IF enq.len = n THEN "host" ELSE "enqueue"
  /\ write_tail' = Mask(write_tail + n, DecodedSize)
  /\ UNCHANGED result

\* Wrong: the oldest chunk is looked at instead of the youngest.
HasPendingChunk_Oldest ==
  ~IgnoreAlignment /\ write_chunks # <<>> /\ write_chunks[1].pending

HasPendingChunk ==
  ~IgnoreAlignment /\ write_chunks # <<>> /\ LastChunk.pending

Contiguous == enq.addr = LastChunk.addr + LastChunk.len

\* Wrong: a full chunk stays pending.
FillPending_StaysPending ==
  LET n == Min2(enq.len, WriteChunkSize - LastChunk.len)
  IN  /\ HasPendingChunk /\ Contiguous
      /\ write_chunks' =
           [write_chunks EXCEPT
              ![Len(write_chunks)].len = @ + n,
              ![Len(write_chunks)].pending = LastChunk.len + n <= WriteChunkSize]
      /\ Enqueued(n)

\* The last chunk is pending and the bytes come right after it: fill it.
FillPending ==
  LET n == Min2(enq.len, WriteChunkSize - LastChunk.len)
  IN  /\ HasPendingChunk /\ Contiguous
      /\ write_chunks' =
           [write_chunks EXCEPT
              ![Len(write_chunks)].len = @ + n,
              ![Len(write_chunks)].pending = LastChunk.len + n < WriteChunkSize]
      /\ Enqueued(n)

\* The last chunk is pending but the bytes do not follow it: close it.
ClosePending ==
  /\ HasPendingChunk /\ ~Contiguous
  /\ write_chunks' = [write_chunks EXCEPT ![Len(write_chunks)].pending = FALSE]
  /\ UNCHANGED <<enq, pc, write_tail, result>>

NewLen ==
  IF IgnoreAlignment
  THEN Min2(Min2(enq.len, WriteChunkSize), DecodedSize - write_tail)
  ELSE Min2(enq.len, WriteChunkSize)

Misaligned == ~IgnoreAlignment /\ enq.addr % WriteChunkSize # 0

\* A new chunk.  A misaligned one is an error, found after the chunk has been
\* taken from the pool.
NewChunk ==
  LET c == [addr |-> enq.addr, start |-> write_tail, len |-> NewLen,
            pending |-> ~Misaligned /\ ~IgnoreAlignment
                          /\ NewLen < WriteChunkSize,
            write_pending |-> FALSE]
  IN  /\ ~HasPendingChunk /\ ChunkSpace > 0
      /\ write_chunks' = Append(write_chunks, c)
      /\ IF Misaligned THEN IterationFails /\ UNCHANGED <<enq, write_tail>>
         ELSE Enqueued(NewLen)

\* All the write chunks are in use.
NoChunkLeft ==
  /\ ~HasPendingChunk /\ ChunkSpace = 0
  /\ IterationFails
  /\ UNCHANGED <<enq, write_tail, write_chunks>>

EnqueueForWriting ==
  /\ At("enqueue")
  /\ FillPending \/ ClosePending \/ NewChunk \/ NoChunkLeft
  /\ UNCHANGED <<rawVars, decVars, decoded_tail, decoded_chunk_size, flagVars,
                 rx_timeout, calling, error, targetVars>>

-----------------------------------------------------------------------------
(* The whole layer, but for decode_chunk() *)

Init ==
  /\ buf = [i \in RawSlot |-> NoData]
  /\ head = 0 /\ tail = 0 /\ tot_appended = 0
  /\ decoded_buf = [i \in DecSlot |-> NoData]
  /\ decoded_head = 0 /\ decoded_tail = 0 /\ write_tail = 0
  /\ decoded_chunk_size = 0
  /\ write_chunks = <<>>
  /\ written = FALSE /\ really_written = FALSE
  /\ rx_done = FALSE /\ flushing = FALSE /\ early = FALSE
  /\ format_ops = FALSE /\ format_data = NoData
  /\ rx_timeout = FALSE
  /\ At("top") /\ calling = FALSE /\ enq = [addr |-> 0, len |-> 0]
  /\ error = FALSE /\ result = "CONTINUE"
  /\ target_busy = FALSE /\ owned = NoChunk
  /\ erasing = {} /\ erased = {}
  /\ flash = [a \in Byte |-> NoData]

\* The steps of the loop itself that do not depend on the file format.
LoopStep ==
  \/ LoopTop \/ OnIdle \/ HostIdle
  \/ WriteNothing \/ WriteErases \/ WriteHandsOver
  \/ EnqueueForWriting

\* What the client, the device and the clock do.
EnvironmentStep ==
  \/ ClientAppends \/ FlushStart
  \/ ChunkAvailableOk \/ ChunkAvailableFails
  \/ ChunkDone \/ ChunkFails \/ BetweenCommands \/ EraseEnds

\* The application starts programming; chunk_available() does return; a client
\* with room for a block sends it; the device answers.
LayerFairness ==
  /\ SF_vars(FlushStart)
  /\ SF_vars(ChunkAvailableOk \/ ChunkAvailableFails)
  /\ SF_vars(ClientAppends /\ AppendsBlock)
  /\ SF_vars(ChunkDone \/ ChunkFails)
  /\ SF_vars(EraseEnds)

-----------------------------------------------------------------------------
(* Properties common to every file format *)

\* The byte at address a is in a write chunk, in its place.
Queued(a) ==
  \E i \in 1 .. Len(write_chunks) :
    LET c == write_chunks[i]
    IN  a \in c.addr .. c.addr + c.len - 1 /\ SlotData(c.start + (a - c.addr)) = a

RawTypeOK ==
  /\ buf \in [RawSlot -> 0 .. FileSize - 1 \cup {NoData}]
  /\ head \in RawSlot /\ tail \in RawSlot /\ tot_appended \in Nat

DecodedTypeOK ==
  /\ decoded_buf \in [DecSlot -> Nat \cup {NoData}]
  /\ decoded_head \in DecSlot /\ decoded_tail \in DecSlot
  /\ write_tail \in DecSlot /\ decoded_chunk_size \in Nat

ChunksTypeOK ==
  /\ write_chunks \in Seq(Chunk) /\ Len(write_chunks) < MaxChunks

FlagsTypeOK ==
  /\ written \in BOOLEAN /\ really_written \in BOOLEAN
  /\ rx_done \in BOOLEAN /\ flushing \in BOOLEAN /\ early \in BOOLEAN
  /\ format_ops \in BOOLEAN
  /\ rx_timeout \in BOOLEAN

LoopTypeOK ==
  /\ pc \in {"top", "poll", "write", "flush", "decode", "enqueue", "host"}
  /\ calling \in BOOLEAN /\ enq \in [addr : Nat, len : Nat]
  /\ error \in BOOLEAN
  /\ result \in {"CONTINUE", "ALL_DONE", "ERROR", "CRASH", "OTHER_FORMAT"}

TargetTypeOK ==
  /\ target_busy \in BOOLEAN /\ owned \in HandedOut \cup {NoChunk}
  /\ erasing \subseteq Nat /\ erased \subseteq Nat
  /\ flash \in [Byte -> Nat \cup {NoData}]

\* Every variable stays in its range: no ring index leaves its buffer, no
\* chunk is longer than the target accepts, and the pool of write chunks is
\* never overrun.
TypeOK ==
  /\ RawTypeOK /\ DecodedTypeOK /\ ChunksTypeOK
  /\ FlagsTypeOK /\ LoopTypeOK /\ TargetTypeOK

\* How far slot i is from the oldest byte of the decoded ring.
Offset(i)   == RingCount(i, decoded_tail, DecodedSize)
ChunkEnd(c) == Mask(c.start + c.len, DecodedSize)

\* Chunk d starts where chunk c ends.
Abut(c, d) == d.start = ChunkEnd(c)

\* Chunk c ends i slots or less after the oldest byte of the decoded ring.
EndsBy(c, i) == Offset(c.start) + c.len <= i

\* What is left to enqueue.
Left == IF pc = "enqueue" THEN enq.len ELSE 0

Tiled ==
  /\ IF write_chunks = <<>> THEN write_tail = decoded_tail
     ELSE write_chunks[1].start = decoded_tail /\ ChunkEnd(LastChunk) = write_tail
  /\ \A i \in 1 .. Len(write_chunks) - 1 : Abut(write_chunks[i], write_chunks[i + 1])
  /\ \A i \in 1 .. Len(write_chunks) : EndsBy(write_chunks[i], Offset(write_tail))
  /\ \A i, j \in 1 .. Len(write_chunks) :
       i < j => EndsBy(write_chunks[i], Offset(write_chunks[j].start))
  /\ Offset(write_tail) + Left <= DecCount

\* The write chunks, in order, cover the decoded ring from decoded_tail to
\* write_tail without a hole or an overlap, and what is still to be enqueued
\* lies between write_tail and decoded_head: freeing a chunk (decoded_tail
\* jumps to its end) never frees a byte of another one, and decoding, which
\* fills from decoded_head to decoded_tail, never overwrites one.  After an
\* early end a page may be refused in a nested loop, and its chunk stays.
ChunksTileRing == result # "ERROR" /\ ~early => Tiled

\* A chunk the target owns is the first of the queue and has not grown since
\* it was handed over: "be happy with a pending chunk if this is the last
\* one" (_bf_do_write()).
OwnedIsWhole ==
  owned # NoChunk =>
    /\ write_chunks # <<>>
    /\ write_chunks[1].write_pending
    /\ owned.start = write_chunks[1].start
    /\ owned.len = write_chunks[1].len

\* OwnedIsWhole, unless _bf_do_write() was told of the end of the file too
\* early, and the chunk it took for the last one was not.
InFlightNotExtended == ~early => OwnedIsWhole

\* No chunk wraps around the end of the decoded buffer: "we don't want wrap
\* arounds in the middle of a flash page" (_bf_init()).  After an early end the
\* pages no longer begin at addresses of pages, nor do those that are refused.
NoWrapInChunk ==
  result # "ERROR" /\ ~early =>
    \A i \in 1 .. Len(write_chunks) :
      write_chunks[i].start + write_chunks[i].len <= DecodedSize

\* No null pointer is followed: neither format_data, which ihex_probe() sets
\* when it found "a valid line header", nor bf->rx_method, which completion
\* uses to report that the upload is done.
NoCrash == result # "CRASH"

\* An upload does not hang: dfu_idle() ends up reporting something else than
\* DFU_CONTINUE, if only through the 10 s timeout of _set_rx_timeout().
UploadEnds == <>(result # "CONTINUE")

\* A sector that holds programmed bytes is never erased again, and no byte is
\* programmed in a sector that was not erased.
EraseOnceBeforeProgramming ==
  SectorSize > 0 =>
    \A a \in Byte : flash[a] # NoData =>
      Sector(a) \in erased /\ Sector(a) \notin erasing
=============================================================================
