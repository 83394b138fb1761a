----------------------------- MODULE Stm32Target -----------------------------
(***************************************************************************)
(* The STM32 target (src/target/stm32-usart.c) and the boot loader of its  *)
(* device: synchronisation, probing, sectors erased on demand, chunks      *)
(* programmed, until the upload is over and the next one begins.           *)
(*                                                                         *)
(* A command of the target is what DfuCmd makes of it: its first bytes are *)
(* sent when it is started, the others by later iterations of the loop,    *)
(* and it ends with an acknowledge, a refusal or a timeout.                *)
(***************************************************************************)
EXTENDS Integers, Sequences, FiniteSets

CONSTANTS
  Addr,         \* addresses of the device's memory
  Areas,        \* pars->areas: a sequence of memory areas
  WordBytes,    \* sizeof(unsigned long)
  MaxErase,     \* MAX_NSECTORS_ERASE
  MaxSync,      \* attempts to synchronise
  Uploads,      \* the uploads: sequences of chunks
  MaxUploads,   \* bound on uploads
  Old, Blank, Garbage

\* A struct stm32_memory_area: addresses first .. last; where each of its
\* sectors begins, <<>> if it is not flash; the number of the word that
\* sectors_bitmask_ptr points to: the mask is that word.  (A sector is its index in its area here;
\* the code adds sectors_offset to it, and subtracts it again.)
MemoryAreas == [first : Addr, last : Addr, sectors : Seq(Addr), word : Nat]

InArea(a, k) == Areas[k].first <= a /\ a <= Areas[k].last

\* The addresses of sector i (from 1) of area k.
SectorCells(k, i) ==
  LET s == Areas[k].sectors
  IN  {a \in Addr : InArea(a, k) /\ s[i] <= a /\ (i < Len(s) => a < s[i + 1])}

Chunks == [addr : Addr, len : Nat \ {0}]

ASSUME ConstantsOK ==
  /\ Addr \subseteq Nat /\ Areas \in Seq(MemoryAreas)
  /\ WordBytes \in Nat \ {0} /\ MaxSync \in Nat \ {0}
  /\ MaxErase \in Nat /\ MaxUploads \in Nat
  /\ Uploads \subseteq Seq(Chunks)
  /\ \A u \in Uploads : \A i \in DOMAIN u : u[i].addr .. u[i].addr + u[i].len - 1 \subseteq Addr
  /\ Old \notin Addr /\ Blank \notin Addr /\ Garbage \notin Addr
  /\ Old # Blank /\ Old # Garbage /\ Blank # Garbage

\* The tables of the devices (src/target/stm32-device-f469.c): the sectors of
\* an area of flash cover it, and areas do not overlap.
ASSUME TablesOK ==
  /\ \A k \in DOMAIN Areas : \A a \in Addr :
       Areas[k].sectors # <<>> /\ InArea(a, k) =>
         \E i \in DOMAIN Areas[k].sectors : a \in SectorCells(k, i)
  /\ \A k, j \in DOMAIN Areas : \A a \in Addr : InArea(a, k) /\ InArea(a, j) => k = j

VARIABLES
  pc,         \* what the target is doing
  attempts,   \* times it tried to synchronise
  upload,     \* the chunks of this upload
  sent,       \* how many of them have been programmed
  bits,       \* the bits that are set, as <<word, bit>>
  area,       \* priv->erase_area, an index of Areas
  sectors,    \* priv->to_be_erased: numbers of sectors
  todo,       \* what the device has still to do of the command: sectors to
              \* erase, or addresses to program
  error,      \* dfu->error
  uploads,    \* uploads begun
  flash,      \* the memory of the device
  done        \* history: the addresses reported done

command == <<area, sectors, todo>>
session == <<upload, uploads, attempts>>
vars == <<pc, session, sent, bits, command, error, flash, done>>

Waiting  == {"sync", "get", "gid"}
Started  == {"erase", "program"}    \* first bytes sent
Running  == {"erasing", "programming"}
Places   == {"off", "ready", "over"} \cup Waiting \cup Started \cup Running

-----------------------------------------------------------------------------
(* Sectors *)

IsFlash(k) == Areas[k].sectors # <<>>

Bytes(c) == c.addr .. c.addr + c.len - 1

\* find_area(): the area all of a chunk lies in, 0 if there is none.
AreasOf(c) == {k \in DOMAIN Areas : Areas[k].first <= c.addr /\ c.addr + c.len <= Areas[k].last + 1}
FindArea(c) == IF AreasOf(c) = {} THEN 0 ELSE CHOOSE k \in AreasOf(c) : TRUE

\* map_chunk_address(): the sectors of area k a chunk is in.
MapChunk(k, c) == {i \in DOMAIN Areas[k].sectors : SectorCells(k, i) \cap Bytes(c) # {}}

\* The bit of sector i of area k.  A word is as many bits as it has bytes.
Bit(k, i) == <<Areas[k].word + (i - 1) \div WordBytes, (i - 1) % WordBytes>>

\* The masks, and the bits of sectors that lie behind them, in words of somebody
\* else: they hold anything at first.
MaskWords == {Areas[k].word : k \in {j \in DOMAIN Areas : IsFlash(j)}}
Foreign ==
  {b \in UNION {{Bit(k, i) : i \in DOMAIN Areas[k].sectors} : k \in DOMAIN Areas} :
     b[1] \notin MaskWords}

\* Wrong: a sector counts as erased when its predecessor is.
NotErased_Predecessor(k, c) ==
  {i \in MapChunk(k, c) : Bit(k, i) \notin bits /\ (i > 1 => Bit(k, i - 1) \notin bits)}

\* Wrong: when one sector is to be erased all are.
NotErased_All(k, c) ==
  IF \E i \in MapChunk(k, c) : Bit(k, i) \notin bits THEN MapChunk(k, c) ELSE {}

\* erased(): the sectors of a chunk that are still to be erased.
NotErased(k, c) == {i \in MapChunk(k, c) : Bit(k, i) \notin bits}

\* The words stm32_usart_fini() clears: as if a word had eight bits a byte.
ClearedWords ==
  UNION {Areas[k].word .. Areas[k].word + (Len(Areas[k].sectors) - 1) \div (8 * WordBytes)
         : k \in {j \in DOMAIN Areas : IsFlash(j)}}

-----------------------------------------------------------------------------

Init ==
  /\ pc = "off" /\ attempts = 0 /\ upload \in Uploads /\ sent = 0
  /\ bits \in SUBSET Foreign /\ area = 0 /\ sectors = {} /\ todo = {}
  /\ error = FALSE /\ uploads = 0
  /\ flash = [a \in Addr |-> Old] /\ done = {}

Chunk == upload[sent + 1]

\* dfu_target_reset(): the device is reset and the target synchronises.
Reset ==
  /\ pc = "off" /\ uploads < MaxUploads
  /\ uploads' = uploads + 1
  /\ upload' \in Uploads
  /\ attempts' = 1 /\ pc' = "sync"
  /\ UNCHANGED <<sent, bits, command, error, flash, done>>

\* stm32_usart_reset_and_sync(): an acknowledge, or another reset and another
\* attempt; resetting may fail.
SyncEnds ==
  /\ pc = "sync"
  /\ \/ pc' = "get" /\ UNCHANGED session
     \/ attempts < MaxSync /\ attempts' = attempts + 1 /\ UNCHANGED <<pc, upload, uploads>>
     \/ pc' = "over" /\ UNCHANGED session
  /\ UNCHANGED <<sent, bits, command, error, flash, done>>

\* stm32_usart_probe(): the commands of the boot loader, the part number; both
\* may fail.
Probed ==
  /\ \/ pc = "get" /\ pc' \in {"gid", "over"}
     \/ pc = "gid" /\ pc' \in {"ready", "over"}
  /\ UNCHANGED <<session, sent, bits, command, error, flash, done>>

\* stm32_usart_chunk_available(): its command is started.  When that fails the
\* callback notifies the error and the loop returns it.
ProgramStarts ==
  \/ pc' = "program" /\ UNCHANGED error
  \/ pc' = "over" /\ error' = TRUE

\* start_erasing().  When it fails the error is notified, and the chunk is
\* handed over all the same.
EraseStarts(k, s) ==
  /\ area' = k /\ sectors' = s /\ todo' = {}
  /\ \/ pc' = "erase" /\ UNCHANGED error
     \/ pc' \in {"program", "over"} /\ error' = TRUE

\* _bf_do_write(): stm32_usart_must_erase(), and if nothing is to be erased
\* the chunk is handed over.  A chunk that lies in no area is taken for
\* erased; one in too many sectors is handed over after the error.
Offer ==
  /\ pc = "ready" /\ sent < Len(upload)
  /\ LET k == FindArea(Chunk)
     IN  \/ /\ k # 0 /\ IsFlash(k) => /\ NotErased(k, Chunk) = {}
                                       /\ Cardinality(MapChunk(k, Chunk)) <= MaxErase
            /\ ProgramStarts /\ UNCHANGED command
         \/ /\ k # 0 /\ IsFlash(k)
            /\ Cardinality(MapChunk(k, Chunk)) > MaxErase
            /\ pc' \in {"program", "over"} /\ error' = TRUE
            /\ UNCHANGED command
         \/ /\ k # 0 /\ IsFlash(k) /\ NotErased(k, Chunk) # {}
            /\ Cardinality(MapChunk(k, Chunk)) <= MaxErase
            /\ EraseStarts(k, NotErased(k, Chunk))
  /\ UNCHANGED <<session, sent, bits, flash, done>>

\* The loop sends the rest of the command: the device has it.
CommandSent ==
  /\ pc \in Started /\ ~error
  /\ \/ pc = "erase" /\ pc' = "erasing" /\ todo' = sectors
     \/ pc = "program" /\ pc' = "programming" /\ todo' = Bytes(Chunk)
  /\ UNCHANGED <<session, sent, bits, area, sectors, error, flash, done>>

-----------------------------------------------------------------------------
(* The device *)

\* The first of what the device has still to do.
First(i) == i \in todo /\ \A j \in todo : i <= j

\* It erases a sector.
DeviceErases ==
  /\ pc = "erasing"
  /\ \E i \in todo :
       /\ First(i)
       /\ flash' = [a \in Addr |-> IF a \in SectorCells(area, i) THEN Blank ELSE flash[a]]
       /\ todo' = todo \ {i}
  /\ UNCHANGED <<pc, session, sent, bits, area, sectors, error, done>>

\* What a cell that is programmed holds: flash that was not erased keeps some
\* of the bits it had.
Programmed(a) ==
  IF flash[a] \in {Blank, a} \/ (FindArea(Chunk) # 0 /\ ~IsFlash(FindArea(Chunk)))
  THEN a ELSE Garbage

\* It programs a byte.
DevicePrograms ==
  /\ pc = "programming"
  /\ \E a \in todo :
       /\ First(a)
       /\ flash' = [flash EXCEPT ![a] = Programmed(a)]
       /\ todo' = todo \ {a}
  /\ UNCHANGED <<pc, session, sent, bits, area, sectors, error, done>>

-----------------------------------------------------------------------------
(* The end of a command and of an upload *)

\* _erase_done() after the last acknowledge.
EraseDone ==
  /\ pc = "erasing" /\ ~error /\ todo = {}
  /\ bits' = bits \cup {Bit(area, i) : i \in sectors}
  /\ pc' = "ready"
  /\ UNCHANGED <<session, sent, command, error, flash, done>>

\* _chunk_done() after the last acknowledge; the upload is over with its last
\* chunk.
ChunkDone ==
  /\ pc = "programming" /\ ~error /\ todo = {}
  /\ sent' = sent + 1 /\ done' = done \cup Bytes(Chunk)
  /\ pc' = IF sent + 1 = Len(upload) THEN "over" ELSE "ready"
  /\ UNCHANGED <<session, bits, command, error, flash>>

\* Wrong: nobody is told.
CommandFails_NotNotified ==
  /\ pc \in Started \cup Running /\ ~error
  /\ pc' = "ready"
  /\ UNCHANGED <<session, sent, bits, command, error, flash, done>>

\* A refusal or a timeout: both callbacks notify it, and the target is ready
\* in the same iteration of the loop.
CommandFails ==
  /\ pc \in Started \cup Running /\ ~error
  /\ error' = TRUE /\ pc' = "ready"
  /\ UNCHANGED <<session, sent, bits, command, flash, done>>

\* The timeout of the upload, set when its format is found and again with
\* each chunk: it may fire while sectors are erased.
RxTimeout ==
  /\ pc \in {"ready"} \cup Started \cup Running
  /\ ~error
  /\ error' = TRUE
  /\ UNCHANGED <<pc, session, sent, bits, command, flash, done>>

\* dfu_idle() returns DFU_ERROR: the application stops.
LoopStops ==
  /\ error /\ pc \in {"ready"} \cup Started \cup Running
  /\ pc' = "over"
  /\ UNCHANGED <<session, sent, bits, command, error, flash, done>>

\* dfu_fini(), stm32_usart_fini(), and stm32_usart_init() of the next upload:
\* what is in flash is old then.
Fini ==
  /\ pc = "over"
  /\ pc' = "off" /\ error' = FALSE /\ sent' = 0 /\ done' = {}
  /\ flash' = [a \in Addr |-> IF flash[a] = Blank THEN Blank ELSE Old]
  /\ area' = 0 /\ sectors' = {} /\ todo' = {}
  /\ bits' = {b \in bits : b[1] \notin ClearedWords}
  /\ UNCHANGED session

HostStep == SyncEnds \/ Probed \/ Offer \/ CommandSent \/ EraseDone \/ ChunkDone
            \/ CommandFails \/ LoopStops \/ Fini

Next ==
  \/ Reset \/ SyncEnds \/ Probed \/ Offer \/ CommandSent
  \/ DeviceErases \/ DevicePrograms
  \/ EraseDone \/ ChunkDone \/ CommandFails \/ RxTimeout \/ LoopStops \/ Fini

Spec == Init /\ [][Next]_vars

\* The loop goes on, and a command ends: it has timeouts.
FairSpec == Spec /\ WF_vars(HostStep)

-----------------------------------------------------------------------------
(* Properties *)

TypeOK ==
  /\ pc \in Places /\ attempts \in 0 .. MaxSync
  /\ upload \in Uploads /\ sent \in 0 .. Len(upload) /\ uploads \in 0 .. MaxUploads
  /\ bits \subseteq Nat \X (0 .. WordBytes - 1)
  /\ area \in {0} \cup DOMAIN Areas /\ sectors \subseteq Nat /\ todo \subseteq Nat
  /\ error \in BOOLEAN
  /\ flash \in [Addr -> {Old, Blank, Garbage} \cup Addr]
  /\ done \subseteq Addr

\* A sector is private if its bit is in a mask and is that of no other sector.
\* (With the only table of the library, two masks of one word each for twelve
\* sectors each, the first sectors are.)
Private(k, i) ==
  /\ Bit(k, i)[1] \in MaskWords
  /\ \A j \in DOMAIN Areas : \A l \in DOMAIN Areas[j].sectors :
       Bit(j, l) = Bit(k, i) => j = k /\ l = i

\* The cells of the other sectors, and the cells that are neither there nor in a
\* chunk of this upload that lies in no area.
SharedCells ==
  {a \in Addr : \E k \in DOMAIN Areas : \E i \in DOMAIN Areas[k].sectors :
                  a \in SectorCells(k, i) /\ ~Private(k, i)}
Mapped(a) == \A n \in DOMAIN upload : a \in Bytes(upload[n]) => AreasOf(upload[n]) # {}
Sound(a) == a \notin SharedCells /\ Mapped(a)
Straight == \A n \in DOMAIN upload : \A a \in Bytes(upload[n]) : Sound(a)

\* A private sector whose bit is set has been erased since this upload began,
\* and holds nothing but bytes of this upload: neither the other sectors, nor
\* the other areas, nor the uploads before set its bit.
BitmaskHonest ==
  \A k \in DOMAIN Areas : \A i \in DOMAIN Areas[k].sectors :
    Private(k, i) /\ Bit(k, i) \in bits =>
      \A a \in SectorCells(k, i) : flash[a] \in {Blank, a}

\* "Sectors corresponding to this chunk have already been erased"
\* (stm32_usart_must_erase()): the chunk that is handed over is in sectors with
\* nothing in them but bytes of this upload.
ChunkErased ==
  pc = "program" /\ ~error =>
    \A k \in AreasOf(Chunk) : \A i \in MapChunk(k, Chunk) :
      \A a \in SectorCells(k, i) : flash[a] \in {Blank, a}

\* A chunk is never programmed over what was not erased, whatever the other
\* sectors do with their bits: but for sectors that share a bit or have none,
\* and for chunks that lie in no area.
NoGarbage == \A a \in Addr : Sound(a) => flash[a] # Garbage

\* The target does what the binary file layer expects, with an upload whose
\* chunks lie each in an area, in private sectors.
InFlight == IF pc \in {"program", "programming"} THEN Bytes(Chunk) ELSE {}
Target == INSTANCE FlashTarget WITH chunk <- InFlight
ImplementsFlashTarget ==
  Target!Init /\ [][Straight => Target!Next]_(Target!vars)

\* An upload that began ends, whatever the device does: the application gets
\* an answer.
UploadEnds == pc = "sync" ~> pc = "off"
=============================================================================
