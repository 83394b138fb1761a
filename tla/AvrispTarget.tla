---------------------------- MODULE AvrispTarget ----------------------------
(***************************************************************************)
(* The AVR ISP target (src/target/avrisp.c) and its device, on a SPI bus.  *)
(* A page is loaded in the buffer of the device byte by byte, one byte per *)
(* iteration of the loop, then the device is asked to program it and       *)
(* polled until it is ready.                                               *)
(*                                                                         *)
(* Nothing waits on this bus: a transfer is done or fails, and the device  *)
(* may have seen one that failed.  Commands are those of DfuCmd; the one   *)
(* thing of theirs that outlives them is the timer of the exchange of      *)
(* _get_sync(), which stays in the list when the exchange fails (stale)    *)
(* and then ends whatever command runs.                                    *)
(***************************************************************************)
EXTENDS Integers, Sequences

CONSTANTS
  Addr,         \* addresses of the flash of the device
  PageSize,     \* dd->flash->page_size
  ChunkSize,    \* avrisp_get_write_chunk_size()
  Uploads,      \* the uploads: sequences of chunks, of addr and len
  MaxUploads,   \* bound on uploads
  MaxSync,      \* attempts of avrisp_reset_and_sync()
  Old, Blank, Garbage

Bytes(c) == c.addr .. c.addr + c.len - 1

ASSUME ConstantsOK ==
  /\ PageSize \in Nat \ {0} /\ PageSize % 2 = 0
  /\ ChunkSize \in Nat \ {0} /\ PageSize % ChunkSize = 0 /\ ChunkSize % 2 = 0
  /\ MaxUploads \in Nat /\ MaxSync \in Nat \ {0}
  /\ Addr \subseteq Nat /\ {Old, Blank, Garbage} \cap Addr = {}
  /\ Uploads \subseteq Seq([addr : Nat, len : 1 .. ChunkSize]) \ {<<>>}

\* dfu_binary_file_append_buffer() refuses a chunk that is not aligned.
ASSUME ChunksAligned ==
  \A u \in Uploads : \A i \in DOMAIN u :
    u[i].addr % ChunkSize = 0 /\ Bytes(u[i]) \subseteq Addr

VARIABLES
  pc,            \* what the target is doing
  attempts,      \* rounds of avrisp_reset_and_sync()
  curr_written,  \* bytes of the chunk that are loaded
  stale,         \* the timer of a failed exchange is in the list
  upload,        \* the chunks of this upload
  sent,          \* how many of them are done
  error,         \* dfu->error
  uploads,       \* uploads begun
  page_buf,      \* the device: the byte in each place of its page buffer
  writing,       \* the device: the page it programs, -1 if none
  flash,         \* the device
  done           \* history: the addresses reported done

device  == <<page_buf, writing, flash>>
session == <<upload, sent, uploads, done>>
vars == <<pc, attempts, curr_written, stale, session, error, device>>

Chunk   == upload[sent + 1]
Empty   == [i \in 0 .. PageSize - 1 |-> Blank]
NoPage  == -1
Erased  == [a \in Addr |-> Blank]
Loading == {"load", "write", "poll", "refused"}   \* the target has a chunk

-----------------------------------------------------------------------------

Init ==
  /\ pc = "off" /\ attempts = 0 /\ curr_written = 0 /\ stale = FALSE
  /\ upload \in Uploads /\ sent = 0 /\ error = FALSE /\ uploads = 0
  /\ page_buf = Empty /\ writing = NoPage
  /\ flash = [a \in Addr |-> Old] /\ done = {}

\* dfu_target_reset(), from the application.
Start ==
  /\ pc = "off" /\ uploads < MaxUploads
  /\ pc' = "reset" /\ attempts' = 1
  /\ uploads' = uploads + 1 /\ upload' \in Uploads
  /\ UNCHANGED <<curr_written, stale, sent, done, error, device>>

-----------------------------------------------------------------------------
(* avrisp_reset_and_sync() and avrisp_target_erase_all() *)

\* The device is reset, or that fails.
TargetReset ==
  /\ pc = "reset"
  /\ \/ pc' = "sync" /\ page_buf' = Empty /\ writing' = NoPage
     \/ pc' = "over" /\ UNCHANGED <<page_buf, writing>>
  /\ UNCHANGED <<attempts, curr_written, stale, session, error, flash>>

\* _get_sync(): the device echoes 0x53.
Synced ==
  /\ pc = "sync"
  /\ pc' = "erase"
  /\ UNCHANGED <<attempts, curr_written, stale, session, error, device>>

\* Wrong: the attempt is not counted.
NextAttempt_Same ==
  pc' = "reset" /\ UNCHANGED attempts

NextAttempt ==
  IF attempts < MaxSync THEN pc' = "reset" /\ attempts' = attempts + 1
                        ELSE pc' = "over" /\ UNCHANGED attempts

\* A transfer fails, another byte comes back, or a timer left by an attempt
\* before ends the command.
SyncFails ==
  /\ pc = "sync"
  /\ NextAttempt
  /\ stale' \in BOOLEAN
  /\ UNCHANGED <<curr_written, session, error, device>>

\* dfu_target_erase_all(): chip erase and a delay that covers it.
EraseAll ==
  /\ pc = "erase"
  /\ \/ pc' = "ready" /\ flash' = Erased
     \/ pc' = "over" /\ flash' \in {flash, Erased}
  /\ UNCHANGED <<attempts, curr_written, stale, session, error, page_buf, writing>>

-----------------------------------------------------------------------------
(* avrisp_chunk_available() and _load_byte() *)

Offer ==
  /\ pc = "ready" /\ ~error /\ sent < Len(upload)
  /\ pc' = "load" /\ curr_written' = 0
  /\ UNCHANGED <<attempts, stale, session, error, device>>

\* Wrong: low and high bytes of a word are told apart by the address of the word.
LoadedBuffer_WordParity ==
  LET a    == Chunk.addr + curr_written
      word == (a \div 2) % (PageSize \div 2)
  IN  [page_buf EXCEPT ![2 * word + (word % 2)] = a]

\* The page buffer with the next byte: words are addressed within the page,
\* and hi is the parity of curr_written.
LoadedBuffer ==
  LET a    == Chunk.addr + curr_written
      word == (a \div 2) % (PageSize \div 2)
  IN  [page_buf EXCEPT ![2 * word + (curr_written % 2)] = a]

\* The first byte is loaded by chunk_available(), the others by on_idle(); the
\* page is written in the same call as the last one.
LoadByte ==
  /\ pc = "load" /\ ~error
  /\ page_buf' = LoadedBuffer
  /\ curr_written' = curr_written + 1
  /\ pc' = IF curr_written' >= Chunk.len THEN "write" ELSE "load"
  /\ UNCHANGED <<attempts, stale, session, error, writing, flash>>

\* A transfer fails: chunk_available() returns it for the first byte and the
\* chunk is thrown away; for another one the target forgets the chunk and
\* dfu_binary_file_chunk_done() does nothing.
LoadFails ==
  /\ pc = "load" /\ ~error
  /\ page_buf' \in {page_buf, LoadedBuffer}
  /\ pc' = IF curr_written = 0 THEN "over" ELSE "refused"
  /\ UNCHANGED <<attempts, curr_written, stale, session, error, writing, flash>>

-----------------------------------------------------------------------------
(* _write_page() and its polling *)

PageOf(c) == c.addr \div PageSize

\* The device begins to program the page; the transfer may fail all the same.
WritePage ==
  /\ pc = "write"
  /\ \/ pc' = "poll" /\ writing' = PageOf(Chunk)
     \/ pc' = "refused" /\ writing' \in {NoPage, PageOf(Chunk)}
  /\ UNCHANGED <<attempts, curr_written, stale, session, error, page_buf, flash>>

\* It programs what was loaded, and its buffer is empty then.
DeviceWrites ==
  /\ writing # NoPage
  /\ flash' = [a \in Addr |->
       LET b == page_buf[a % PageSize]
       IN  IF a \div PageSize # writing \/ b = Blank THEN flash[a]
           ELSE IF flash[a] = Blank THEN b ELSE Garbage]
  /\ writing' = NoPage /\ page_buf' = Empty
  /\ UNCHANGED <<pc, attempts, curr_written, stale, session, error>>

\* A poll finds the device ready: _chunk_done() with DFU_CMD_STATUS_OK.  One
\* that finds it busy jumps back, and changes nothing.
PageWritten ==
  /\ pc = "poll" /\ ~error /\ writing = NoPage
  /\ sent' = sent + 1 /\ done' = done \cup Bytes(Chunk)
  /\ pc' = IF sent + 1 = Len(upload) THEN "over" ELSE "ready"
  /\ UNCHANGED <<attempts, curr_written, stale, upload, uploads, error, device>>

\* A transfer of a poll fails: dfu_binary_file_chunk_done() does nothing.
PollFails ==
  /\ pc = "poll" /\ ~error
  /\ pc' = "refused"
  /\ UNCHANGED <<attempts, curr_written, stale, session, error, device>>

\* _on_cmd_timeout() of a _get_sync() that is over: the command that polls has
\* the same state, stops, and nobody is told.
StaleTimer ==
  /\ stale /\ ~error
  /\ pc \in {"ready", "poll", "refused"} \/ (pc = "load" /\ curr_written > 0)
  /\ stale' = FALSE
  /\ pc' = IF pc = "poll" THEN "refused" ELSE pc
  /\ UNCHANGED <<attempts, curr_written, session, error, device>>

-----------------------------------------------------------------------------
(* The end of an upload *)

\* The timeout of the upload, set with each chunk; it comes between two
\* iterations of the loop.  What the iteration that fires it does after that is
\* what it would do before.
RxTimeout ==
  /\ ~error
  /\ pc \in {"ready", "poll", "refused"} \/ (pc = "load" /\ curr_written > 0)
  /\ error' = TRUE
  /\ UNCHANGED <<pc, attempts, curr_written, stale, session, device>>

\* dfu_idle() returns DFU_ERROR to the application.
LoopStops ==
  /\ error /\ pc # "over"
  /\ pc' = "over"
  /\ UNCHANGED <<attempts, curr_written, stale, session, error, device>>

\* dfu_fini(), which removes every timer: what is in flash is old then.
Fini ==
  /\ pc = "over"
  /\ pc' = "off" /\ error' = FALSE /\ sent' = 0 /\ done' = {}
  /\ stale' = FALSE /\ writing' = NoPage
  /\ flash' = [a \in Addr |-> IF flash[a] = Blank THEN Blank ELSE Old]
  /\ UNCHANGED <<attempts, curr_written, upload, uploads, page_buf>>

\* The steps of the library; the timeout comes when nothing else ends a chunk.
HostStep ==
  \/ TargetReset \/ Synced \/ SyncFails \/ EraseAll
  \/ Offer \/ LoadByte \/ LoadFails \/ WritePage
  \/ PageWritten \/ PollFails \/ LoopStops
  \/ (pc \in {"poll", "refused"} /\ RxTimeout)

Next ==
  \/ Start \/ TargetReset \/ Synced \/ SyncFails \/ EraseAll
  \/ Offer \/ LoadByte \/ LoadFails \/ WritePage \/ DeviceWrites
  \/ PageWritten \/ PollFails \/ StaleTimer
  \/ RxTimeout \/ LoopStops \/ Fini

Spec == Init /\ [][Next]_vars

FairSpec == Spec /\ WF_vars(HostStep)

-----------------------------------------------------------------------------
(* Properties *)

TypeOK ==
  /\ pc \in {"off", "reset", "sync", "erase", "ready", "over"} \cup Loading
  /\ attempts \in 0 .. MaxSync /\ curr_written \in 0 .. ChunkSize
  /\ stale \in BOOLEAN /\ error \in BOOLEAN
  /\ upload \in Uploads /\ sent \in 0 .. Len(upload) /\ uploads \in 0 .. MaxUploads
  /\ page_buf \in [0 .. PageSize - 1 -> Addr \cup {Blank}]
  /\ writing \in Nat \cup {NoPage}
  /\ flash \in [Addr -> Addr \cup {Old, Blank, Garbage}] /\ done \subseteq Addr

\* The target does what the binary file layer expects: each byte of a chunk
\* gets from the buffer of the device to its own address, over an erased cell,
\* and is there when the chunk is reported done (_check_page_written()).  A
\* chunk that fails, or an upload that stops, keeps its chunk until dfu_fini().
InFlight ==
  IF pc \in Loading \/ (pc = "over" /\ error /\ sent < Len(upload))
  THEN Bytes(Chunk) ELSE {}
Target == INSTANCE FlashTarget WITH chunk <- InFlight
ImplementsFlashTarget == Target!Spec

\* An upload that began ends, though the polling of a page has no limit, a
\* page that fails is reported to nobody, and a timer may end the wrong command.
UploadEnds == pc = "reset" ~> pc = "over"
=============================================================================
