----------------------------- MODULE NordicSpi -----------------------------
(***************************************************************************)
(* The target of nRF5 devices on SPI (src/target/nordic-spi.c), its device *)
(* and the whole upload of a package: the zip format decodes into the      *)
(* ring of the binary file layer, whose chunks the target sends.           *)
(*                                                                         *)
(* An object is what the device takes at a time: the whole command, or a   *)
(* part of the data.  The target selects the kind of object and creates    *)
(* an object from inside chunk_available(), waiting in dfu_idle(); it then *)
(* writes a chunk, and when the object or the file is complete asks for    *)
(* its checksum and has it executed, before it reports the chunk done.     *)
(***************************************************************************)
EXTENDS NordicZip, SequencesExt

CONSTANTS
  MaxSize,    \* the largest object of each kind
  Leftovers   \* bytes of an earlier upload an object on the device may hold

NZ_TYPE == {"command", "data"}

ASSUME DeviceOK ==
  /\ \A t \in NZ_TYPE : MaxSize[t] \in Nat \ {0} /\ MaxSize[t] % WriteChunkSize = 0
  /\ Leftovers \subseteq Nat

VARIABLES
  send_state,  \* priv->send_state
  cmd,         \* the command that runs, "none", or "reject" when
               \* chunk_available() is about to return an error
  stopped,     \* the nested loop has returned DFU_ERROR
  sod,         \* priv->sod: max_size and offset
  send_offset, curr_chunk_size, curr_file_size,
  curr_obj_size, curr_obj_written,
  object,      \* the device's object: its size, and what was written to it
  executed,    \* what the device has executed, in order
  hidden       \* history: something failed and nobody was told

fileSizes == <<send_offset, curr_chunk_size, curr_file_size>>
objSizes  == <<curr_obj_size, curr_obj_written>>
devVars   == <<object, executed, hidden>>
spiVars   == <<send_state, cmd, stopped, sod, fileSizes, objSizes, devVars>>
allVars   == <<vars, zipVars, spiVars>>

SentStates == {"FILE_SENT", "OBJECT_SENT"}
CrcOk      == {"FILE_CRC_OK", "OBJECT_CRC_OK"}

\* nzbf_offset(), nzbf_get_file_type_and_size().
Offset_(a) == a % DataFlag
TypeOf(a)  == IF (a % ImageSpan) >= DataFlag THEN "data" ELSE "command"
FileAt(a)  == LET i == a \div ImageSpan + 1
              IN  IF TypeOf(a) = "data" THEN Images[i].bin ELSE Images[i].dat

IsThrowAway(c) == c.addr = ThrowAway

-----------------------------------------------------------------------------
(* chunk_available() *)

\* How large an object _send_file() creates for the chunk at address a of a file
\* of so many bytes, sent being send_offset.  The difference is unsigned.
ObjectSize(a, size, sent) ==
  LET left == size - (Offset_(sent) + WriteChunkSize)
  IN  IF TypeOf(a) = "command" THEN size
      ELSE IF left < 0 THEN sod'.max_size ELSE Min2(left, sod'.max_size)

\* _send_file() in state SENDING: an object is created where one begins, else
\* the chunk is written.
SendBuffer(c, size, sent) ==
  IF Offset_(c.addr) % sod'.max_size = 0
  THEN /\ cmd' = "create"
       /\ curr_obj_size' = ObjectSize(c.addr, size, sent) /\ curr_obj_written' = 0
       /\ UNCHANGED <<send_offset, curr_chunk_size>>
  ELSE /\ cmd' = "write"
       /\ send_offset' = c.addr /\ curr_chunk_size' = c.len
       /\ UNCHANGED objSizes

\* _bf_do_write() calls nordic_spi_chunk_available(), which does as much as it
\* can before it waits.
HandOver ==
  LET c == write_chunks[1]
  IN  /\ WriteHandsOver
      /\ UNCHANGED <<zipVars, stopped, sod, curr_file_size, devVars>>
      /\ \/ /\ IsThrowAway(c)
            /\ IF send_state = "WAITING"
               THEN send_state' = "THROWING_AWAY" /\ cmd' = "none"
               ELSE cmd' = "reject" /\ UNCHANGED send_state
            /\ UNCHANGED <<send_offset, curr_chunk_size, objSizes>>
         \/ /\ ~IsThrowAway(c) /\ send_state # "SENDING"
            /\ cmd' = IF send_state = "WAITING" THEN "select"
                      ELSE IF send_state \in SentStates THEN "none" ELSE "reject"
            /\ UNCHANGED <<send_state, send_offset, curr_chunk_size, objSizes>>
         \/ /\ ~IsThrowAway(c) /\ send_state = "SENDING"
            /\ SendBuffer(c, curr_file_size, send_offset)
            /\ UNCHANGED send_state

\* An iteration of dfu_idle(), from the application or from dfu_cmd_do_sync().
IterationStarts ==
  /\ calling => cmd \in {"select", "create"} /\ ~stopped
  /\ LoopTop
  /\ UNCHANGED <<zipVars, spiVars>>

Waiting(c) == InChunkAvailable /\ cmd = c

\* The command fails, and chunk_available() with it.
SyncFails ==
  /\ TargetMayFail /\ (Waiting("select") \/ Waiting("create"))
  /\ cmd' = "reject"
  /\ UNCHANGED <<vars, zipVars, send_state, stopped, sod, fileSizes, objSizes, devVars>>

\* _start_sending_file() once the kind of object is selected.  The data that is
\* already on the device is compared with the file: nzbf_calc_crc() does not
\* end then, unless the file cannot be opened because all of it has been read
\* and it was removed.
StartSendingFile ==
  LET f == FileAt(owned.addr)
      size == package.size[f]
      tooLarge == TypeOf(owned.addr) = "command" /\ size > sod'.max_size
      compares == sod'.offset \in 1 .. size /\ f \notin removed
  IN  /\ \/ /\ tooLarge
            /\ cmd' = "reject"
            /\ UNCHANGED <<result, send_state, fileSizes, objSizes>>
         \/ /\ ~tooLarge /\ compares
            /\ result' = "HANG"
            /\ UNCHANGED <<cmd, send_state, fileSizes, objSizes>>
         \/ /\ ~tooLarge /\ ~compares
            /\ send_state' = "SENDING" /\ curr_file_size' = size
            /\ IF Offset_(owned.addr) = 0
               THEN /\ cmd' = "create"
                    /\ curr_obj_size' = ObjectSize(owned.addr, size, 0)
                    /\ curr_obj_written' = 0
               ELSE cmd' = "reject" /\ UNCHANGED objSizes
            /\ send_offset' = 0
            /\ UNCHANGED <<result, curr_chunk_size>>
  /\ UNCHANGED <<zipVars, rawVars, decVars, tailVars, decoded_chunk_size, write_chunks,
                 flagVars, rx_timeout, pc, calling, enq, error, targetVars>>

\* _select_obj() gets its reply.
Selected ==
  /\ Waiting("select")
  /\ \E n \in Leftovers :
       sod' = [max_size |-> MaxSize[TypeOf(owned.addr)], offset |-> n]
  /\ StartSendingFile
  /\ UNCHANGED <<stopped, devVars>>

\* _select_obj() when the nested loop stopped: dfu_cmd_do_sync() returns the
\* status of the command, which is positive, and _start_sending_file() goes on
\* with what it knew.
NotSelected ==
  /\ Waiting("select") /\ (stopped \/ error)
  /\ sod' = sod /\ stopped' = FALSE /\ hidden' = TRUE
  /\ StartSendingFile
  /\ UNCHANGED <<object, executed>>

\* _create_obj() ends, and _send_buffer() starts writing; when the nested loop
\* stopped it goes on as if the object had been created.
Created ==
  /\ Waiting("create")
  /\ \/ /\ object' = [size |-> curr_obj_size, got |-> <<>>]
        /\ UNCHANGED <<stopped, hidden>>
     \/ /\ stopped \/ error
        /\ stopped' = FALSE /\ hidden' = TRUE
        /\ UNCHANGED object
  /\ cmd' = "write"
  /\ send_offset' = owned.addr /\ curr_chunk_size' = owned.len
  /\ UNCHANGED <<vars, zipVars, send_state, sod, curr_file_size, objSizes, executed>>

\* chunk_available() returns 0, or sz.
Accepted ==
  /\ cmd \in {"none", "write"}
  /\ ChunkAvailableOk
  /\ UNCHANGED <<zipVars, spiVars>>

\* chunk_available() returns an error.
Rejected ==
  /\ cmd = "reject" /\ ChunkAvailableFails
  /\ cmd' = "none" /\ failed' = TRUE
  /\ UNCHANGED <<package, nzstate, fileVars, image, dropped, send_state, stopped, sod,
                 fileSizes, objSizes, devVars>>

-----------------------------------------------------------------------------
(* The commands that run while the loop goes on *)

AfterAccepted == AtEvents /\ ~calling /\ ~error

Runs(c) == AfterAccepted /\ cmd = c

FileIsSent   == Offset_(send_offset) + curr_chunk_size >= curr_file_size
ObjectIsSent == curr_obj_written' >= curr_obj_size

\* The bytes of the chunk, as the device gets them.
ChunkBytes == [k \in 1 .. owned.len |-> SlotData(owned.start + k - 1)]

\* Wrong: an object that is full is not executed.
ChunkSent_FileOnly ==
  /\ Runs("write")
  /\ curr_obj_written' = curr_obj_written + curr_chunk_size
  /\ cmd' = "none"
  /\ object' = [object EXCEPT !.got = IF Len(@) + owned.len <= object.size
                                      THEN @ \o ChunkBytes ELSE @]
  /\ \/ FileIsSent /\ send_state' = "FILE_SENT" /\ BetweenCommands
     \/ ~FileIsSent /\ UNCHANGED send_state /\ ChunkDone
  /\ UNCHANGED <<zipVars, hidden, stopped, sod, fileSizes, curr_obj_size, executed>>

\* _chunk_sent(): written or not, the chunk counts.  The device takes no more
\* than the object holds, and does not say so.
ChunkSent ==
  /\ Runs("write")
  /\ curr_obj_written' = curr_obj_written + curr_chunk_size
  /\ cmd' = "none"
  /\ \E ok \in {TRUE, ~TargetMayFail} :
       /\ object' = [object EXCEPT !.got = IF ok /\ Len(@) + owned.len <= object.size
                                           THEN @ \o ChunkBytes ELSE @]
       /\ hidden' = (hidden \/ ~ok)
       /\ \/ /\ FileIsSent \/ ObjectIsSent
             /\ send_state' = IF FileIsSent THEN "FILE_SENT" ELSE "OBJECT_SENT"
             /\ BetweenCommands /\ UNCHANGED failed
          \/ /\ ~FileIsSent /\ ~ObjectIsSent /\ ok
             /\ UNCHANGED send_state
             /\ ChunkDone /\ UNCHANGED failed
          \/ /\ ~FileIsSent /\ ~ObjectIsSent /\ ~ok
             /\ UNCHANGED send_state
             /\ ChunkFails /\ error' = error /\ failed' = TRUE
  /\ UNCHANGED <<package, nzstate, fileVars, image, dropped, stopped, sod, fileSizes,
                 curr_obj_size, executed>>

\* nordic_spi_on_idle(): the checksum is asked for, and the object executed.
OnIdleStarts(states, c) ==
  /\ At("poll") /\ ~calling /\ cmd = "none" /\ send_state \in states
  /\ BetweenCommands
  /\ cmd' = c
  /\ UNCHANGED <<zipVars, stopped, sod, fileSizes, objSizes, devVars>>

CalcCrc ==
  /\ OnIdleStarts(SentStates, "crc")
  /\ send_state' = IF send_state = "FILE_SENT" THEN "FILE_CRC_REQUESTED"
                   ELSE "OBJECT_CRC_REQUESTED"

ExecObj ==
  /\ OnIdleStarts(CrcOk, "exec")
  /\ send_state' = IF send_state = "FILE_CRC_OK" THEN "FILE_EXEC_REQUESTED"
                   ELSE "OBJECT_EXEC_REQUESTED"

\* _crc_ok(): whatever the device answered.
CrcReceived ==
  /\ Runs("crc")
  /\ send_state' = IF send_state = "FILE_CRC_REQUESTED" THEN "FILE_CRC_OK" ELSE "OBJECT_CRC_OK"
  /\ cmd' = "none"
  /\ BetweenCommands
  /\ UNCHANGED <<zipVars, stopped, sod, fileSizes, objSizes, devVars>>

\* Wrong: the target goes on sending after the last object of a file.
Executed_StaysSending ==
  /\ Runs("exec")
  /\ send_state' = "SENDING"
  /\ cmd' = "none"
  /\ executed' = executed \o object.got
  /\ object' = [size |-> 0, got |-> <<>>]
  /\ ChunkDone
  /\ UNCHANGED <<hidden, zipVars, stopped, sod, fileSizes, objSizes>>

\* _chunk_done(): whatever the device answered.  It executes an object that is
\* complete, and refuses another.
Executed ==
  /\ Runs("exec")
  /\ send_state' = IF send_state = "FILE_EXEC_REQUESTED" THEN "WAITING" ELSE "SENDING"
  /\ cmd' = "none"
  /\ \/ /\ Len(object.got) = object.size
        /\ executed' = executed \o object.got
        /\ object' = [size |-> 0, got |-> <<>>]
        /\ UNCHANGED hidden
     \/ /\ TargetMayFail \/ Len(object.got) # object.size
        /\ hidden' = TRUE
        /\ UNCHANGED <<executed, object>>
  /\ ChunkDone
  /\ UNCHANGED <<zipVars, stopped, sod, fileSizes, objSizes>>

\* nordic_spi_on_idle(): a chunk that was only there to be thrown away.
ThrownAway ==
  /\ At("poll") /\ ~calling /\ send_state = "THROWING_AWAY"
  /\ send_state' = "WAITING"
  /\ ChunkDone
  /\ UNCHANGED <<zipVars, cmd, stopped, sod, fileSizes, objSizes, devVars>>

-----------------------------------------------------------------------------
(* The whole upload *)

\* dfu_binary_file_on_idle() fails inside chunk_available(): the nested loop ends.
NestedLoopStops == stopped' = (stopped \/ (calling /\ pc' = "top"))

DecodeStep ==
  /\ DecodeZip
  /\ NestedLoopStops
  /\ UNCHANGED <<send_state, cmd, sod, fileSizes, objSizes, devVars>>

\* Neither the client, nor the loop, nor the target has anything left to do.
NordicStuck ==
  /\ flushing /\ ~calling /\ cmd = "none"
  /\ send_state \notin SentStates \cup CrcOk \cup {"THROWING_AWAY"}
  /\ owned # NoChunk \/ ~HasNextWriteChunk
  /\ \/ RawCount = 0
     \/ DecSpace < 2 * decoded_chunk_size
     \/ nzstate = "IDLE" /\ HeaderIncomplete
     \/ nzstate = "ALL_DONE"
  /\ \/ tot_appended = FileSize
     \/ \A n \in BlockSizes : Min2(n, FileSize - tot_appended) > RawSpace

NordicGoesOn ==
  \/ /\ OnIdle \/ HostIdle \/ WriteNothing
     /\ UNCHANGED <<zipVars, spiVars>>
  \/ /\ EnqueueForWriting
     /\ NestedLoopStops
     /\ UNCHANGED <<zipVars, send_state, cmd, sod, fileSizes, objSizes, devVars>>

Appends == ClientAppends /\ UNCHANGED <<zipVars, spiVars>>
Starts  == FlushStart /\ UNCHANGED <<zipVars, spiVars>>
NordicTimesOut == RxTimeout(NordicStuck) /\ UNCHANGED <<zipVars, spiVars>>

TargetStep ==
  \/ SyncFails \/ Selected \/ NotSelected \/ Created \/ Accepted \/ Rejected
  \/ ChunkSent \/ CalcCrc \/ CrcReceived \/ ExecObj \/ Executed \/ ThrownAway

FormatStep == (FlushZip \/ OtherFormat) /\ UNCHANGED spiVars

NordicTerminated == result # "CONTINUE" /\ UNCHANGED allVars

NordicInit ==
  /\ Init /\ ZipInit
  /\ send_state = "WAITING" /\ cmd = "none" /\ stopped = FALSE
  /\ sod = [max_size |-> 0, offset |-> 0]
  /\ send_offset = 0 /\ curr_chunk_size = 0 /\ curr_file_size = 0
  /\ curr_obj_size = 0 /\ curr_obj_written = 0
  /\ object = [size |-> 0, got |-> <<>>]
  /\ executed = <<>> /\ hidden = FALSE

NordicNext ==
  \/ Appends \/ Starts \/ NordicTimesOut
  \/ NordicGoesOn \/ IterationStarts \/ HandOver
  \/ FormatStep \/ DecodeStep
  \/ TargetStep
  \/ NordicTerminated

NordicSpec == NordicInit /\ [][NordicNext]_allVars

\* The loop goes on; the client sends what there is room for; the application
\* starts programming; a command ends: it has timeouts.
NordicFairSpec ==
  /\ NordicSpec
  /\ WF_allVars(NordicGoesOn \/ IterationStarts \/ HandOver \/ FormatStep \/ DecodeStep)
  /\ SF_allVars(Appends) /\ SF_allVars(Starts) /\ SF_allVars(NordicTimesOut)
  /\ SF_allVars(TargetStep)

-----------------------------------------------------------------------------
(* Properties *)

\* "Force written flag to 1" (_all_done()): a package of one image whose upload
\* ends well has been executed by the device, all of its command and then all
\* of its data.  It need not have been when something failed that
\* nobody reports: hidden, or dropped.
Expected ==
  [n \in 1 .. package.size[Images[1].dat] |-> n - 1]
    \o [n \in 1 .. package.size[Images[1].bin] |-> DataFlag + n - 1]

DoneMeansExecuted ==
  really_written /\ Len(Images) = 1 /\ ~hidden /\ ~dropped => executed = Expected

\* What the device has executed is the beginning of what it is to execute,
\* however reception, decoding, checksums and executions are interleaved.
ExecutedInOrder ==
  ~hidden /\ ~dropped /\ Len(Images) = 1 => IsPrefix(executed, Expected)

\* Bytes that the target is given are those the package has for their address,
\* after they were cut in blocks, stored, read back and put in the ring.
HandedOverIntact ==
  owned # NoChunk /\ ~IsThrowAway(owned) /\ ~dropped =>
    \A k \in 0 .. owned.len - 1 : SlotData(owned.start + k) = owned.addr + k

\* "THROW AWAY CHUNK NOT IN WAITING STATE" (nordic_spi_chunk_available()) never
\* happens, nor is a chunk given to a target that waits for a checksum or an
\* execution: a file whose size is not a multiple of the chunk is followed by
\* the chunk that realigns the ring, and by nothing else.
HandedOverInState ==
  [][owned = NoChunk /\ owned' # NoChunk =>
       send_state \in (IF IsThrowAway(owned') THEN {"WAITING"} ELSE {"WAITING", "SENDING"})]_allVars

\* An upload goes on to its end unless something fails: the raw ring, which is
\* only looked at when it is not empty (_bf_do_flush()), the flow control of
\* the decoded ring and the chunks still pending never hold it up.
CompletesUnlessFailed ==
  <>(really_written \/ failed \/ hidden \/ dropped \/ result \in {"HANG", "OTHER_FORMAT"})
=============================================================================
