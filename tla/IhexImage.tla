----------------------------- MODULE IhexImage ------------------------------
(***************************************************************************)
(* An upload of an Intel HEX file: the binary file layer with the format   *)
(* of src/binary-format-ihex.c.                                            *)
(*                                                                         *)
(* A line of the file is two raw units: its header (":", count, address    *)
(* and record type) and its body (data and checksum).  Blocks may split a  *)
(* line between the two.  Raw unit p belongs to line p \div 2 + 1.         *)
(***************************************************************************)
EXTENDS BinaryFile

CONSTANT Files  \* the files that may be uploaded: sequences of lines

\* IHEX_DATA, IHEX_EXT_LINEAR_ADDRESS, IHEX_EOF, the two START records and
\* IHEX_EXT_SEG_ADDRESS.
LineType == {"data", "base", "eof", "start", "segment"}

ASSUME LinesOfFile ==
  \A f \in Files :
    /\ f \in Seq([type : LineType, addr : Nat, count : Nat])
    /\ FileSize = 2 * Len(f)

VARIABLE lines  \* the file

ihexVars == <<vars, lines>>

(***************************************************************************)
(* format_data, once the format is found:                                  *)
(*   ok       format_data points to ihdata: ihex_probe() saw a whole line  *)
(*   base     curr_addr, the address of the last "base" record             *)
(* and the locals of ihex_decode_chunk():                                  *)
(*   started  tot # 0: a data line has been decoded in this call           *)
(*   len      decoded_tot                                                  *)
(*   first    *addr, the address of the first byte                         *)
(*   next     next_addr                                                    *)
(***************************************************************************)
Probed ==
  [ok |-> RawCount >= 2, base |-> 0,
   started |-> FALSE, len |-> 0, first |-> 0, next |-> 0]

\* _bf_find_format(): ihex_probe() refuses a block of less than a header, and
\* the next format, raw binary, takes the file; what becomes of it is not
\* followed.  Characters of a unit that is not whole are in the ring unseen.
ProbeRefuses ==
  /\ At("flush") /\ flushing /\ ~format_ops /\ tot_appended = 0
  /\ result' = "OTHER_FORMAT"
  /\ UNCHANGED <<rawVars, decVars, tailVars, decoded_chunk_size, write_chunks,
                 flagVars, rx_timeout, pc, calling, enq, error, targetVars, lines>>

\* Units before the next header: the tail may be in the middle of a line.
ToHeader == IF buf[tail] % 2 = 0 THEN 0 ELSE 1

WholeLine == RawCount > 0 /\ RawCount >= ToHeader + 2

Line == lines[(buf[tail] + ToHeader) \div 2 + 1]

LineAddr == format_data.base + Line.addr

GoOn(n) == tail' = Mask(tail + n, RawSize)

\* The locals of decode_chunk() disappear.
LocalsGo ==
  format_data' = [Probed EXCEPT !.ok = format_data.ok, !.base = format_data.base]

\* decode_chunk() returns stat.
DecodeReturns(stat) == AfterDecode(stat, format_data.first) /\ LocalsGo

DecodeUnchanged ==
  UNCHANGED <<buf, head, tot_appended, tailVars, write_chunks, flushing, early,
              really_written, format_ops, rx_timeout, calling, error,
              targetVars, lines>>

\* End of file seen, or no whole line in the raw ring.
DecodeNoLine ==
  /\ At("decode") /\ (rx_done \/ ~WholeLine)
  /\ DecodeReturns(format_data.len)
  /\ UNCHANGED <<tail, decoded_buf, decoded_head, rx_done, written, result>>
  /\ DecodeUnchanged

AtLine(type) == At("decode") /\ ~rx_done /\ WholeLine /\ Line.type = type

\* format_data is NULL when ihex_probe() did not see a whole line.
DecodeNoPrivateData ==
  /\ At("decode") /\ ~rx_done /\ WholeLine
  /\ Line.type \in {"data", "base"}
  /\ ~format_data.ok
  /\ result' = "CRASH"
  /\ UNCHANGED <<tail, decVars, rx_done, written, decoded_chunk_size, enq, pc>>
  /\ DecodeUnchanged

\* Wrong: the tail passes the header before the jump is noticed.
DecodeJump_TailMoved ==
  /\ AtLine("data") /\ format_data.ok
  /\ format_data.started /\ LineAddr # format_data.next
  /\ GoOn(ToHeader + 1)
  /\ DecodeReturns(format_data.len)
  /\ UNCHANGED <<decoded_buf, decoded_head, rx_done, written, result>>
  /\ DecodeUnchanged

\* A data line that does not continue the previous ones is left for later.
DecodeJump ==
  /\ AtLine("data") /\ format_data.ok
  /\ format_data.started /\ LineAddr # format_data.next
  /\ DecodeReturns(format_data.len)
  /\ UNCHANGED <<tail, decoded_buf, decoded_head, rx_done, written, result>>
  /\ DecodeUnchanged

ContinuesChunk == ~format_data.started \/ LineAddr = format_data.next

\* No room for the line, or nothing in it: the tail is already past its
\* header and decode_chunk() returns 0.
DecodeNoRoom ==
  /\ AtLine("data") /\ format_data.ok /\ ContinuesChunk
  /\ DecSpace < Line.count \/ Line.count = 0
  /\ GoOn(ToHeader + 1)
  /\ DecodeReturns(0)
  /\ UNCHANGED <<decoded_buf, decoded_head, rx_done, written, result>>
  /\ DecodeUnchanged

\* Wrong: *addr is set at every line.
DecodeData_LastAddress ==
  /\ AtLine("data") /\ format_data.ok /\ ContinuesChunk
  /\ DecSpace >= Line.count /\ Line.count > 0
  /\ GoOn(ToHeader + 2)
  /\ decoded_buf' =
       [s \in DecSlot |->
          LET k == RingCount(s, decoded_head, DecodedSize)
          IN  IF k < Line.count THEN LineAddr + k ELSE decoded_buf[s]]
  /\ decoded_head' = Mask(decoded_head + Line.count, DecodedSize)
  /\ format_data' =
       [format_data EXCEPT
          !.started = TRUE,
          !.len = @ + Line.count,
          !.first = LineAddr,
          !.next = LineAddr + Line.count]
  /\ UNCHANGED <<rx_done, written, result, pc, enq, decoded_chunk_size>>
  /\ DecodeUnchanged

DecodeData ==
  /\ AtLine("data") /\ format_data.ok /\ ContinuesChunk
  /\ DecSpace >= Line.count /\ Line.count > 0
  /\ GoOn(ToHeader + 2)
  /\ decoded_buf' =
       [s \in DecSlot |->
          LET k == RingCount(s, decoded_head, DecodedSize)
          IN  IF k < Line.count THEN LineAddr + k ELSE decoded_buf[s]]
  /\ decoded_head' = Mask(decoded_head + Line.count, DecodedSize)
  /\ format_data' =
       [format_data EXCEPT
          !.started = TRUE,
          !.len = @ + Line.count,
          !.first = IF format_data.started THEN @ ELSE LineAddr,
          !.next = LineAddr + Line.count]
  /\ UNCHANGED <<rx_done, written, result, pc, enq, decoded_chunk_size>>
  /\ DecodeUnchanged

\* The end of file record forces the written flag.
DecodeEof ==
  /\ AtLine("eof")
  /\ GoOn(ToHeader + 1)
  /\ rx_done' = TRUE
  /\ written' = TRUE
  /\ UNCHANGED <<decVars, result, pc, enq, decoded_chunk_size>>
  /\ DecodeUnchanged

\* An extended linear address record also sets next_addr.
DecodeBase ==
  /\ AtLine("base") /\ format_data.ok
  /\ GoOn(ToHeader + 2)
  /\ format_data' = [format_data EXCEPT !.base = Line.addr, !.next = Line.addr]
  /\ UNCHANGED <<decoded_buf, decoded_head, rx_done, written, result, pc, enq,
                 decoded_chunk_size>>
  /\ DecodeUnchanged

\* A start record gives the target its entry point.
DecodeStart ==
  /\ AtLine("start")
  /\ GoOn(ToHeader + 2)
  /\ UNCHANGED <<decVars, rx_done, written, result, pc, enq,
                 decoded_chunk_size>>
  /\ DecodeUnchanged

\* Segmented addresses are not supported: decode_chunk() fails.
DecodeSegment ==
  /\ AtLine("segment")
  /\ IterationFails /\ LocalsGo
  /\ UNCHANGED <<tail, decoded_buf, decoded_head, rx_done, written, enq,
                 decoded_chunk_size>>
  /\ DecodeUnchanged

DecodeIhex ==
  \/ DecodeNoLine \/ DecodeNoPrivateData \/ DecodeJump \/ DecodeNoRoom
  \/ DecodeData \/ DecodeEof \/ DecodeBase \/ DecodeStart \/ DecodeSegment

-----------------------------------------------------------------------------

\* Neither the client, nor the loop, nor the target has anything left to do.
IhexStuck ==
  /\ flushing /\ owned = NoChunk /\ erasing = {} /\ ~calling
  /\ ~HasNextWriteChunk
  /\ \/ RawCount = 0 \/ rx_done \/ ~WholeLine
     \/ DecSpace < 2 * decoded_chunk_size
  /\ \/ tot_appended = FileSize
     \/ \A n \in BlockSizes : Min2(n, FileSize - tot_appended) > RawSpace

IhexTerminated == result # "CONTINUE" /\ UNCHANGED ihexVars

IhexInit == Init /\ lines \in Files

IhexGoesOn      == LoopStep /\ UNCHANGED lines
EnvironmentActs == EnvironmentStep /\ UNCHANGED lines
Flushes         == ProbeRefuses \/ (DoFlush(Probed) /\ UNCHANGED lines)
IhexTimesOut    == RxTimeout(IhexStuck) /\ UNCHANGED lines

IhexNext ==
  \/ IhexGoesOn \/ EnvironmentActs
  \/ Flushes \/ DecodeIhex
  \/ IhexTimesOut
  \/ IhexTerminated

IhexSpec == IhexInit /\ [][IhexNext]_ihexVars

IhexFairSpec ==
  /\ IhexSpec
  /\ LayerFairness
  /\ WF_ihexVars(IhexGoesOn \/ Flushes \/ DecodeIhex)
  /\ SF_ihexVars(IhexTimesOut)

-----------------------------------------------------------------------------
(* What the file says *)

\* The address of the last base record before line i.
BaseOf(i) ==
  LET B == {j \in 1 .. i - 1 : lines[j].type = "base"}
  IN  IF B = {} THEN 0 ELSE lines[CHOOSE j \in B : \A k \in B : k <= j].addr

\* The addresses of the bytes of line i.
BytesOf(i) ==
  IF lines[i].type = "data"
  THEN BaseOf(i) + lines[i].addr .. BaseOf(i) + lines[i].addr + lines[i].count - 1
  ELSE {}

FileBytes == UNION {BytesOf(i) : i \in 1 .. Len(lines)}

\* The lines the client has sent are in flash.
AllProgrammed ==
  \A i \in 1 .. tot_appended \div 2 : \A a \in BytesOf(i) : flash[a] = a

-----------------------------------------------------------------------------

\* A flash cell holds nothing but the byte that the file gives for its
\* address: a chunk is contiguous in the file ("output buffer shall contain
\* countiguous data", ihex_decode_chunk()).  After an early end a line may be
\* refused in a nested loop, which leaves its bytes to the next page.
FlashIsFile ==
  ~early => \A a \in Byte : flash[a] # NoData => flash[a] = a /\ a \in FileBytes

\* "All bytes flushed and target said all bytes written"
\* (struct dfu_binary_file): when really_written is set, every line that was sent
\* is in flash, unless the end of the file was announced early.
ReallyWrittenMeansAll == really_written /\ ~early => AllProgrammed
=============================================================================
