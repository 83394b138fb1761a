----------------------------- MODULE NordicZip -----------------------------
(***************************************************************************)
(* The zip format of nRF5 firmware packages                                *)
(* (src/binary-format-nordic-zip.c) over the binary file layer.            *)
(*                                                                         *)
(* The members of the package are first stored in files of the host.  When *)
(* the end of the central directory comes, the manifest says which of them *)
(* are the command (.dat) and the data (.bin) of each image, and these are *)
(* read back and decoded, the command first.                               *)
(*                                                                         *)
(* A raw unit is a part of the package: a header without the name that     *)
(* follows it, a name, or a piece of a member.  Its address is the one its *)
(* byte has on the target: the position in its file, plus DataFlag for     *)
(* data, plus ImageSpan for each image before its own.                     *)
(***************************************************************************)
EXTENDS BinaryFile

CONSTANTS
  Packages,    \* the packages that may be uploaded
  DataFlag,    \* NZ_FWFILE_DATA_FLAG
  ThrowAway,   \* NZ_FWFILE_THROW_AWAY
  ImageSpan,   \* 1 << NZ_FWFILE_IMAGE_SHIFT
  NoFile       \* no member

\* A package: its raw units, the size of each member, which of them is the
\* manifest, which are neither manifest nor .dat nor .bin, and the images the
\* manifest lists.
Kinds == {"local", "name", "data", "central", "end"}

\* The member of package p whose local header is unit i: its name follows, then
\* its data in units, then another member or the central directory.
WholeMember(p, i) ==
  LET f == p.content[i].file
      n == p.size[f]
  IN  /\ f \in DOMAIN p.size /\ i + n + 2 <= FileSize
      /\ p.content[i + 1].kind = "name"
      /\ \A m \in 1 .. n : p.content[i + 1 + m] = [kind |-> "data", file |-> f, at |-> m - 1]
      /\ \/ p.content[i + n + 2].kind = "local"
         \/ \A j \in i + n + 2 .. FileSize : p.content[j].kind # "local"

ImageFiles(x) == {x.dat, x.bin}

\* No member is empty, or too large for its addresses; the package begins with a
\* member and has each once; the images it lists have files of their own.
ASSUME PackagesOK ==
  \A p \in Packages :
    /\ Len(p.content) = FileSize
    /\ \A i \in 1 .. FileSize : p.content[i].kind \in Kinds
    /\ \A f \in DOMAIN p.size : p.size[f] \in 1 .. ThrowAway
    /\ p.manifest \in DOMAIN p.size /\ p.others \subseteq DOMAIN p.size
    /\ p.content[1].kind = "local"
    /\ \A i \in 1 .. FileSize : p.content[i].kind = "local" =>
         /\ WholeMember(p, i)
         /\ \A j \in 1 .. FileSize :
              p.content[j].kind = "local" /\ p.content[j].file = p.content[i].file => j = i
    /\ p.images \in Seq([dat : DOMAIN p.size, bin : DOMAIN p.size]) /\ p.images # <<>>
    /\ \A i, j \in 1 .. Len(p.images) :
         /\ p.images[i].dat # p.images[i].bin
         /\ i # j => ImageFiles(p.images[i]) \cap ImageFiles(p.images[j]) = {}

\* The bits of an address: the image, data or command, and the realignment.
ASSUME AddressesOK ==
  /\ \A a \in {DataFlag, ThrowAway, ImageSpan} : a \in Nat /\ a % WriteChunkSize = 0
  /\ 0 < ThrowAway /\ ThrowAway < DataFlag /\ DataFlag + ThrowAway <= ImageSpan

VARIABLES
  package,     \* the package
  nzstate,     \* priv->state
  curr_rf,     \* priv->curr_rf
  stored,      \* what has been stored of each member: a sequence of raw units
  done,        \* rf->done: units stored, then units sent
  received,    \* members completely stored
  removed,     \* members whose file has been sent and removed
  image,       \* priv->send_image_index, from 1
  dropped,     \* history: ignoring a member took more or less than the member
  failed       \* history: decode_chunk() or the storage failed

zipVars == <<package, nzstate, curr_rf, stored, done, received, removed, image,
             dropped, failed>>
fileVars == <<curr_rf, stored, done, received, removed>>

Sending == {"SENDING_COMMAND", "SENDING_DATA"}

Members == DOMAIN package.size
Images  == package.images

-----------------------------------------------------------------------------
(* The raw ring, seen from its tail *)

Unit(k) == package.content[buf[Mask(tail + k, RawSize)] + 1]

Headers == {k \in 0 .. RawCount - 1 : Unit(k).kind \in {"local", "central", "end"}}

\* _search_signature(): the first header, RawCount if there is none.
FirstHeader == IF Headers = {} THEN RawCount ELSE CHOOSE k \in Headers : \A j \in Headers : k <= j

Found(kind) == Headers # {} /\ Unit(FirstHeader).kind = kind

\* Units after the header.
After == RawCount - 1 - FirstHeader

\* The header is not all there: nothing is consumed.  A local header or one of
\* the central directory counts only when something has come after it.
HeaderIncomplete ==
  \/ Headers = {}
  \/ (Found("local") \/ Found("central")) /\ After = 0

Take(n) ==
  /\ tail' = Mask(tail + n, RawSize)
  /\ UNCHANGED <<buf, head, tot_appended>>

-----------------------------------------------------------------------------
(* nz_decode_chunk() *)

NothingDecoded == UNCHANGED <<decoded_buf, decoded_head>>

\* A step at pc = "decode" is a round of the loop of nz_decode_chunk(): the loop
\* ends when the state stays the same or bytes have been decoded.
Returns(stat, addr) ==
  /\ UNCHANGED result
  /\ IF stat = 0 /\ nzstate' # nzstate
     THEN UNCHANGED <<pc, enq, decoded_chunk_size>>
     ELSE AfterDecode(stat, addr)

Fails == failed' = TRUE /\ IterationFails /\ UNCHANGED <<enq, decoded_chunk_size>>

\* _reset().
Reset ==
  /\ nzstate' = "IDLE" /\ curr_rf' = NoFile
  /\ stored' = [f \in Members |-> <<>>] /\ done' = [f \in Members |-> 0]
  /\ received' = {} /\ removed' = removed

Round ==
  /\ At("decode")
  /\ UNCHANGED <<tailVars, format_data, write_chunks, really_written, flushing, early,
                 format_ops, rx_timeout, calling, error, targetVars, package>>

InState(s) == Round /\ nzstate = s

\* Nothing to do: the header is incomplete, or everything has been sent.
DecodeNothing ==
  /\ \/ InState("IDLE") /\ HeaderIncomplete
     \/ InState("ALL_DONE")
  /\ UNCHANGED <<rawVars, written, rx_done, nzstate, fileVars, image, dropped, failed>>
  /\ Returns(0, 0)
  /\ NothingDecoded

\* _peek_local_file_header(): the header is there but its name is not.
NameIncomplete ==
  /\ InState("IDLE") /\ Found("local") /\ After = 1
  /\ Fails
  /\ UNCHANGED <<rawVars, written, rx_done, nzstate, fileVars, image, dropped>>
  /\ NothingDecoded

\* _get_rx_file(): a member that is neither the manifest nor .bin nor .dat has
\* no struct received_file.
Stores(f) == f \notin package.others

\* _decode_local_header().  The tail moves by the length of the header and of
\* the name, wherever the header began.
LocalHeader ==
  /\ InState("IDLE") /\ Found("local") /\ After > 1
  /\ Take(2)
  /\ LET f == Unit(FirstHeader).file
     IN  \/ /\ ~Stores(f)
            /\ nzstate' = "IGNORING_FILE"
            /\ UNCHANGED <<fileVars, failed>>
         \/ /\ Stores(f)
            /\ nzstate' = "STORING_FILE" /\ curr_rf' = f
            /\ stored' = [stored EXCEPT ![f] = <<>>] /\ done' = [done EXCEPT ![f] = 0]
            /\ UNCHANGED <<received, removed, failed>>
         \/ /\ Stores(f)                            \* dfu_file_open() fails
            /\ Reset /\ failed' = TRUE
  /\ Returns(0, 0)
  /\ UNCHANGED <<written, rx_done, image, dropped>>
  /\ NothingDecoded

\* Wrong: the name is skipped too.
CentralHeader_Whole ==
  /\ InState("IDLE") /\ Found("central") /\ After > 0
  /\ Take(FirstHeader + 2)
  /\ UNCHANGED <<written, rx_done, nzstate, fileVars, image, dropped, failed>>
  /\ Returns(0, 0)
  /\ NothingDecoded

\* _decode_central_header(): only the length of the header is skipped, from
\* wherever the tail is.
CentralHeader ==
  /\ InState("IDLE") /\ Found("central") /\ After > 0
  /\ Take(1)
  /\ UNCHANGED <<written, rx_done, nzstate, fileVars, image, dropped, failed>>
  /\ Returns(0, 0)
  /\ NothingDecoded

\* What the package says member f is, from unit n on.
Piece(f, n) ==
  {i \in 1 .. FileSize : package.content[i].kind = "data"
                           /\ package.content[i].file = f /\ package.content[i].at = n}

Intact(f) ==
  /\ Len(stored[f]) = package.size[f]
  /\ \A n \in DOMAIN stored[f] : stored[f][n] + 1 \in Piece(f, n - 1)

\* _parse_manifest(): it was received, it can be parsed, and all the files it
\* names have been received.
ManifestOK ==
  /\ package.manifest \in received /\ Intact(package.manifest)
  /\ \A i \in DOMAIN Images : {Images[i].dat, Images[i].bin} \subseteq received

\* _decode_end_central_header().
EndHeader ==
  /\ InState("IDLE") /\ Found("end")
  /\ \/ /\ ManifestOK
        /\ Take(1)
        /\ nzstate' = "SENDING_COMMAND" /\ image' = 1
        /\ done' = [f \in Members |-> IF \E i \in DOMAIN Images : f \in {Images[i].dat, Images[i].bin}
                                      THEN 0 ELSE done[f]]
        /\ Returns(0, 0) /\ UNCHANGED failed
     \/ /\ ~ManifestOK
        /\ Fails
        /\ UNCHANGED <<rawVars, nzstate, done, image>>
  /\ UNCHANGED <<written, rx_done, curr_rf, stored, received, removed, dropped>>
  /\ NothingDecoded

\* _do_store(): the units up to the end of the buffer or of the member.
StoreMember ==
  LET f  == curr_rf
      sz == Min2(RingCountToEnd(head, tail, RawSize), package.size[f] - done[f])
  IN  /\ InState("STORING_FILE")
      /\ Take(sz)
      /\ stored' = [stored EXCEPT ![f] = @ \o [i \in 1 .. sz |-> buf[tail + i - 1]]]
      /\ done' = [done EXCEPT ![f] = @ + sz]
      /\ IF done[f] + sz >= package.size[f]
         THEN nzstate' = "IDLE" /\ received' = received \cup {f}
         ELSE UNCHANGED <<nzstate, received>>
      /\ Returns(0, 0)
      /\ UNCHANGED <<written, rx_done, curr_rf, removed, image, dropped, failed>>
      /\ NothingDecoded

\* _do_store(): dfu_file_write() fails.  The manifest is kept in memory.
StoreFails ==
  /\ InState("STORING_FILE") /\ curr_rf # package.manifest
  /\ Reset /\ Fails
  /\ UNCHANGED <<rawVars, written, rx_done, image, dropped>>
  /\ NothingDecoded

IsOf(k, f) == Unit(k).kind = "data" /\ Unit(k).file = f

\* _do_ignore(): whatever is in the buffer is thrown away, and as ignored_size
\* is not set the member counts as received.
IgnoreMember ==
  /\ InState("IGNORING_FILE")
  /\ Take(RawCount)
  /\ nzstate' = "IDLE"
  /\ dropped' = (dropped \/ ~\E f \in package.others :
                              /\ \A k \in 0 .. RawCount - 1 : IsOf(k, f)
                              /\ RawCount = package.size[f])
  /\ Returns(0, 0)
  /\ UNCHANGED <<written, rx_done, fileVars, image, failed>>
  /\ NothingDecoded

-----------------------------------------------------------------------------
(* Sending *)

\* Wrong: a chunk that is misaligned is left alone.
HeadMisaligned_Never == FALSE

HeadMisaligned == decoded_head % WriteChunkSize # 0

\* _realign_decoded_head(): bytes nobody wrote, up to the next chunk.
Realign ==
  LET sz == WriteChunkSize - (decoded_head % WriteChunkSize)
  IN  /\ Round /\ nzstate \in Sending /\ HeadMisaligned
      /\ decoded_head' = Mask(decoded_head + sz, RawSize)
      /\ UNCHANGED <<rawVars, decoded_buf, written, rx_done, nzstate, fileVars,
                     image, dropped, failed>>
      /\ Returns(sz, ThrowAway)

\* The file that is being sent.
SentFile ==
  IF nzstate = "SENDING_COMMAND" THEN Images[image].dat ELSE Images[image].bin

\* _state_to_address().
BaseAddress ==
  (IF nzstate = "SENDING_COMMAND" THEN 0 ELSE DataFlag) + (image - 1) * ImageSpan

\* The address of a raw unit, NoData if the manifest gives it none.
AddressOf(u) ==
  LET x == package.content[u + 1]
      I == {i \in DOMAIN Images : x.file \in {Images[i].dat, Images[i].bin}}
      i == CHOOSE j \in I : TRUE
  IN  IF x.kind # "data" \/ I = {} THEN NoData
      ELSE x.at + (i - 1) * ImageSpan + (IF x.file = Images[i].bin THEN DataFlag ELSE 0)

\* Wrong: the upload ends with the command.
NextFile_CommandOnly ==
  /\ nzstate' = "ALL_DONE" /\ image' = image + 1
  /\ rx_done' = TRUE /\ written' = TRUE

\* _next_file().  After the data of an image the state stays: the command of the
\* next one is not sent.
NextFile ==
  \/ /\ nzstate = "SENDING_COMMAND"
     /\ nzstate' = "SENDING_DATA"
     /\ UNCHANGED <<rx_done, written, image>>
  \/ /\ nzstate = "SENDING_DATA"
     /\ image' = image + 1
     /\ IF image = Len(Images)
        THEN nzstate' = "ALL_DONE" /\ rx_done' = TRUE /\ written' = TRUE
        ELSE UNCHANGED <<nzstate, rx_done, written>>

\* _send_file_chunk(): what fits of the file, up to the end of the decoded
\* buffer and no more than a chunk.
SendFileChunk ==
  LET f  == SentFile
      sz == Min2(Min2(RingSpaceToEnd(decoded_head, decoded_tail, DecodedSize),
                      package.size[f] - done[f]), WriteChunkSize)
  IN  /\ Round /\ nzstate \in Sending /\ ~HeadMisaligned
      /\ decoded_buf' = [s \in DecSlot |->
                           IF s \in decoded_head .. decoded_head + sz - 1
                           THEN AddressOf(stored[f][done[f] + s - decoded_head + 1])
                           ELSE decoded_buf[s]]
      /\ decoded_head' = Mask(decoded_head + sz, RawSize)
      /\ done' = [done EXCEPT ![f] = @ + sz]
      /\ IF done[f] + sz >= package.size[f]
         THEN removed' = removed \cup {f} /\ NextFile
         ELSE UNCHANGED <<removed, nzstate, image, rx_done, written>>
      /\ Returns(sz, BaseAddress + done[f])
      /\ UNCHANGED <<rawVars, curr_rf, stored, received, dropped, failed>>

\* _send_file_chunk(): the file cannot be opened or read.
SendFails ==
  /\ Round /\ nzstate \in Sending /\ ~HeadMisaligned
  /\ Fails
  /\ UNCHANGED <<rawVars, written, rx_done, nzstate, fileVars, image, dropped>>
  /\ NothingDecoded

DecodeZip ==
  \/ DecodeNothing \/ NameIncomplete \/ LocalHeader \/ CentralHeader \/ EndHeader
  \/ StoreMember \/ StoreFails \/ IgnoreMember
  \/ Realign \/ SendFileChunk \/ SendFails

\* nz_probe(): the first header is a local one that has its name.
ProbeFinds == Found("local") /\ After > 1

\* _bf_find_format(): when nz_probe() refuses the first block, the next format
\* takes the file for something else; what becomes of it is not modelled.
OtherFormat ==
  /\ At("flush") /\ flushing /\ RawCount > 0 /\ ~format_ops /\ ~ProbeFinds
  /\ result' = "OTHER_FORMAT"
  /\ UNCHANGED <<rawVars, decVars, tailVars, decoded_chunk_size, write_chunks,
                 flagVars, rx_timeout, pc, calling, enq, error, targetVars, zipVars>>

FlushZip ==
  /\ ~format_ops /\ flushing /\ RawCount > 0 => ProbeFinds
  /\ DoFlush(0)
  /\ UNCHANGED zipVars

ZipInit ==
  /\ package \in Packages
  /\ nzstate = "IDLE" /\ curr_rf = NoFile
  /\ stored = [f \in Members |-> <<>>] /\ done = [f \in Members |-> 0]
  /\ received = {} /\ removed = {} /\ image = 1
  /\ dropped = FALSE /\ failed = FALSE
=============================================================================
