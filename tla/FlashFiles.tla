----------------------------- MODULE FlashFiles -----------------------------
(***************************************************************************)
(* Files in the spi flash of the ESP8266 (src/file-container-esp8266.c)    *)
(* and their descriptors (src/file-container.c).                           *)
(*                                                                         *)
(* A file owns whole sectors of the flash, each with a header.  Which      *)
(* sectors are free and which belong to which file is known in RAM only:   *)
(* a reset forgets every file, the flash keeps its contents.               *)
(*                                                                         *)
(* The flash may refuse a call after any of the calls of an operation.  A  *)
(* descriptor whose close failed is not used any more.                     *)
(***************************************************************************)
EXTENDS FlashAccess, SequencesExt

CONSTANTS
  NSectors,    \* fcdata.nsectors
  DataSize,    \* sectdatasize
  HeaderSize,  \* sizeof(union spi_flash_sector_header)
  MaxFiles,    \* MAX_FILES
  MaxFds,      \* MAX_DFU_FILES
  Names,       \* paths that are opened
  MaxSizes,    \* sizes a file is created with
  Sizes,       \* bytes written or read by a call
  Aligns,      \* alignments of the buffers of the calls
  MaxCreated,  \* bound: files that are ever created
  MaxFaults    \* bound: calls that the flash refuses, and resets

ASSUME FlashConstants ==
  /\ NSectors \in Nat /\ DataSize \in Nat \ {0} /\ HeaderSize \in Nat
  /\ DataSize % 4 = 0
  /\ MaxFiles \in Nat /\ MaxFds \in Nat
  /\ MaxCreated \in Nat /\ MaxFaults \in Nat
  /\ MaxSizes \subseteq Nat \ {0} /\ Sizes \subseteq Nat \ {0}
  /\ Aligns \subseteq 0 .. 3 /\ "none" \notin Names

VARIABLES
  free,      \* fcdata.free_head, a list of sectors
  spifiles,  \* spifiles[]
  files,     \* files[]
  header,    \* the headers of the sectors in flash
  data,      \* the data of the sectors in flash
  created,   \* files created so far
  faults     \* calls refused and resets so far

vars == <<free, spifiles, files, header, data, created, faults>>

Sectors == 0 .. NSectors - 1
Entries == 1 .. MaxFiles
Fds     == 1 .. MaxFds

SectSize == DataSize + HeaderSize

Max2(a, b) == IF a < b THEN b ELSE a
Minimal(S) == {x \in S : \A y \in S : x <= y}
Least(S) == CHOOSE x \in Minimal(S) : TRUE
UpDiv(a, b) == (a + b - 1) \div b

\* An entry of spifiles[].  name, number, sound and closed are history: what
\* the file was created as, whether its sectors were all erased and named
\* and no write to it was misplaced (Misplaced), and whether it was closed
\* after it was last written.
NoFile == [sectors |-> <<>>, written |-> 0, max_size |-> 0, name |-> "none",
           number |-> 0, sound |-> FALSE, closed |-> FALSE]

FreeFd == [state |-> "free", path |-> "none", entry |-> 0, fileptr |-> 0]

Used(e) == spifiles[e].sectors # <<>>

\* A sector that was erased, and that was then given a name.
ErasedHeader == [name |-> "none", sized |-> FALSE]

\* Wrong: the sector is not erased first, and bits are only cleared.
NamedHeader_NotErased(s, n) ==
  IF header[s].name = "none" THEN [name |-> n, sized |-> FALSE] ELSE header[s]

NamedHeader(s, n) == [name |-> n, sized |-> FALSE]

\* The header of a sector that was freed is 0.
ZeroHeader == [name |-> "none", sized |-> TRUE]

\* spi_flash_fc_init(): sector_add() puts each sector at the head.
InitialFree == Reverse([i \in 1 .. NSectors |-> i - 1])

Init ==
  /\ free = InitialFree
  /\ spifiles = [e \in Entries |-> NoFile]
  /\ files = [f \in Fds |-> FreeFd]
  /\ header = [s \in Sectors |-> ZeroHeader]
  /\ data = [s \in Sectors |-> [a \in 0 .. DataSize - 1 |-> Unknown]]
  /\ created = 0 /\ faults = 0

\* The flash does a call, or one of them is refused.
FlashDoes(all) ==
  IF all THEN faults' = faults
  ELSE faults < MaxFaults /\ faults' = faults + 1

-----------------------------------------------------------------------------
(* Open *)

\* __find_free_file_slot()
FreeFds == {f \in Fds : files[f].state = "free"}
Slot == Least(FreeFds)

\* _find_file().  A file whose header cannot be read is passed over: blind
\* are those files.
Found(n, blind) ==
  {e \in Entries : /\ Used(e) /\ e \notin blind
                   /\ header[spifiles[e].sectors[1]].name = n}

Opened(n, e) == [files EXCEPT ![Slot] = [state |-> "open", path |-> n,
                                         entry |-> e, fileptr |-> 0]]

OpenExisting(n) ==
  \E blind \in SUBSET Entries :
    /\ FreeFds # {} /\ Found(n, blind) # {}
    /\ FlashDoes(blind = {})
    /\ files' = Opened(n, Least(Found(n, blind)))
    /\ UNCHANGED <<free, spifiles, header, data, created>>

\* _get_file_data()
FreeEntries == {e \in Entries : ~Used(e)}

\* _get_sectors(): as many sectors as the data needs, each put at the head
\* of the list of the file.
Wanted(max_size) == UpDiv(max_size, DataSize)
Taken(num) == Reverse(SubSeq(free, 1, num))

\* sectors_allocate_on_flash(): it erases and names the sectors one by one.
\* The flash stops after k of them, and may have erased one more.
Allocated(sectors, k, erased, n) ==
  LET gone == {sectors[i] : i \in 1 .. k}
      all  == gone \cup {sectors[i] : i \in k + 1 .. k + erased}
  IN  /\ header' = [s \in Sectors |->
                      IF s \in gone THEN NamedHeader(s, n)
                      ELSE IF s \in all THEN ErasedHeader ELSE header[s]]
      /\ data' = [s \in Sectors |->
                    IF s \in all THEN [a \in 0 .. DataSize - 1 |-> Erased]
                    ELSE data[s]]

\* _new_file() does not look at what sectors_allocate_on_flash() returns.
OpenNew(n, max_size) ==
  LET num == Wanted(max_size)
      sectors == Taken(num)
  IN  /\ FreeFds # {} /\ FreeEntries # {} /\ num <= Len(free)
      /\ created < MaxCreated
      /\ \E e \in Minimal(FreeEntries), blind \in SUBSET Entries, k \in 0 .. num,
            erased \in 0 .. 1 :
           /\ Found(n, blind) = {}
           /\ k + erased <= num
           /\ FlashDoes(blind = {} /\ k = num)
           /\ Allocated(sectors, k, erased, n)
           /\ spifiles' = [spifiles EXCEPT ![e] =
                [sectors |-> sectors, written |-> 0, max_size |-> max_size,
                 name |-> n, number |-> created + 1, sound |-> k = num,
                 closed |-> FALSE]]
           /\ files' = Opened(n, e)
      /\ free' = SubSeq(free, num + 1, Len(free))
      /\ created' = created + 1

-----------------------------------------------------------------------------
(* Write and read: _spi_flash_file_wrrd() *)

\* The part of each sector in sz bytes from offset ptr of a file.
Segments(ptr, sz) ==
  LET first == ptr \div DataSize
      past  == (ptr + sz - 1) \div DataSize
  IN  [j \in 1 .. past - first + 1 |->
         LET start == (first + j - 1) * DataSize
             lo    == Max2(ptr, start)
             hi    == Min2(ptr + sz, start + DataSize)
         IN  [index |-> first + j, at |-> lo - start, from |-> lo - ptr,
              sz |-> hi - lo]]

\* What segment g of a write from a buffer of this alignment does.
Source(file, ptr, g) ==
  [i \in 1 .. g.sz |-> Data(file.number, ptr + g.from + i - 1)]

CallsOf(file, ptr, align, g) ==
  FlashWrite(data[file.sectors[g.index]], g.at, (align + g.from) % 4,
             Source(file, ptr, g))

SegmentCrashes(align, g) == WriteCrashes(g.at, (align + g.from) % 4, g.sz)
SegmentMisplaced(align, g) == EquallyUnaligned(g.at, (align + g.from) % 4)

\* A word that is written past the end of a sector is written to the name
\* of the next one.
Overrun(align, g) == SegmentMisplaced(align, g) /\ AlignNext(g.at) = DataSize

\* The flash did the calls of the segments before the c-th, and the first
\* j calls of that one.
Stored(file, ptr, sz, align, c, j) ==
  LET segments == Segments(ptr, sz)
      Done(g, i) ==
        LET calls == CallsOf(file, ptr, align, g)
        IN  IF i < c THEN calls
            ELSE IF i = c /\ j > 0 THEN SubSeq(calls, 1, j) ELSE <<>>
      Hit(s) == {i \in DOMAIN segments : file.sectors[segments[i].index] = s}
      over == {file.sectors[segments[i].index] + 1 :
                 i \in {i \in DOMAIN segments :
                          /\ Overrun(align, segments[i])
                          /\ i < c \/ (i = c /\ j = 2)}}
  IN  /\ data' = [s \in Sectors |->
           IF Hit(s) = {} THEN data[s]
           ELSE LET i == Least(Hit(s))
                IN  After(data[s], Done(segments[i], i))]
      /\ header' = [s \in Sectors |-> IF s \in over
                                      THEN [header[s] EXCEPT !.name = "none"]
                                      ELSE header[s]]

\* spi_flash_file_write() accepts the write: it does not overwrite, and the
\* file has room.
Accepted(f, sz) ==
  LET file == spifiles[files[f].entry]
  IN  /\ files[f].state = "open"
      /\ files[f].fileptr >= file.written
      /\ file.written + sz <= file.max_size

Misplaced(f, sz, align) ==
  LET segments == Segments(files[f].fileptr, sz)
  IN  \E i \in DOMAIN segments : SegmentMisplaced(align, segments[i])

\* dfu_file_read() and dfu_file_write(): the file pointer follows.
Advanced(f, done) == [files EXCEPT ![f].fileptr = @ + done]

Write(f, sz, align) ==
  LET e == files[f].entry
      ptr == files[f].fileptr
      segments == Segments(ptr, sz)
  IN  /\ Accepted(f, sz)
      /\ \A i \in DOMAIN segments : ~SegmentCrashes(align, segments[i])
      /\ Stored(spifiles[e], ptr, sz, align, Len(segments) + 1, 0)
      /\ spifiles' = [spifiles EXCEPT
           ![e].written = @ + sz, ![e].closed = FALSE,
           ![e].sound = @ /\ ~Misplaced(f, sz, align)]
      /\ files' = Advanced(f, sz)
      /\ UNCHANGED <<free, created, faults>>

\* The flash refuses a call: the length is as before.
WriteFails(f, sz, align) ==
  LET e == files[f].entry
      ptr == files[f].fileptr
      segments == Segments(ptr, sz)
  IN  /\ Accepted(f, sz) /\ FlashDoes(FALSE)
      /\ \E c \in DOMAIN segments :
           /\ \A i \in 1 .. c : ~SegmentCrashes(align, segments[i])
           /\ \E j \in 0 .. Len(CallsOf(spifiles[e], ptr, align,
                                        segments[c])) - 1 :
                Stored(spifiles[e], ptr, sz, align, c, j)
      /\ spifiles' = [spifiles EXCEPT
           ![e].sound = @ /\ ~Misplaced(f, sz, align)]
      /\ UNCHANGED <<free, files, created>>

\* spi_flash_file_read(): up to what was written, and only from sectors that
\* have their size.
Readable(f, sz) == Min2(sz, spifiles[files[f].entry].written - files[f].fileptr)

ReadSucceeds(f, sz, align) ==
  LET file == spifiles[files[f].entry]
      segments == Segments(files[f].fileptr, Readable(f, sz))
  IN  /\ files[f].state = "open" /\ Readable(f, sz) > 0
      /\ \A i \in DOMAIN segments :
           /\ header[file.sectors[segments[i].index]].sized
           /\ ~AccessCrashes(segments[i].at, (align + segments[i].from) % 4,
                             segments[i].sz)

\* What a read copies to the buffer, segment by segment.
ReadBytes(f, sz, align) ==
  LET file == spifiles[files[f].entry]
      segments == Segments(files[f].fileptr, Readable(f, sz))
      Part(g) == FlashRead(data[file.sectors[g.index]], g.at,
                           (align + g.from) % 4, g.sz)
  IN  [i \in 1 .. Readable(f, sz) |->
         LET g == CHOOSE g \in {segments[j] : j \in DOMAIN segments} :
                    i \in g.from + 1 .. g.from + g.sz
         IN  Part(g)[i - g.from]]

Read(f, sz, align) ==
  /\ ReadSucceeds(f, sz, align)
  /\ files' = Advanced(f, Readable(f, sz))
  /\ UNCHANGED <<free, spifiles, header, data, created, faults>>

-----------------------------------------------------------------------------
(* Close, remove, reset *)

\* spi_flash_file_close(): the length is counted in SectSize per sector.
SizedSectors(file) == UpDiv(file.written, SectSize)

Sized(file, k) ==
  [s \in Sectors |-> IF s \in {file.sectors[i] : i \in 1 .. k}
                     THEN [header[s] EXCEPT !.sized = TRUE] ELSE header[s]]

Close(f) ==
  LET e == files[f].entry
  IN  /\ files[f].state = "open"
      /\ header' = Sized(spifiles[e], SizedSectors(spifiles[e]))
      /\ spifiles' = [spifiles EXCEPT ![e].closed = TRUE]
      /\ files' = [files EXCEPT ![f] = FreeFd]
      /\ UNCHANGED <<free, data, created, faults>>

\* dfu_file_close() keeps the slot.
CloseFails(f) ==
  LET file == spifiles[files[f].entry]
  IN  /\ files[f].state = "open" /\ FlashDoes(FALSE)
      /\ \E k \in 0 .. SizedSectors(file) - 1 : header' = Sized(file, k)
      /\ files' = [files EXCEPT ![f].state = "lost"]
      /\ UNCHANGED <<free, spifiles, data, created>>

\* Wrong: the loop follows the list after the sector has left it.
Freed_First(sectors) == <<sectors[1]>> \o free

\* Each sector is put at the head of the list.
Freed(sectors) == Reverse(sectors) \o free

\* spi_flash_fc_remove(): the sectors go back one by one, whether or not
\* their headers could be written.  It does not look at the descriptors.
RemoveFile(n, e) ==
  \E blind \in SUBSET Entries :
    LET sectors == spifiles[e].sectors
    IN  /\ e \in Minimal(Found(n, blind))
        /\ \E k \in 0 .. Len(sectors) :
           /\ FlashDoes(blind = {} /\ k = Len(sectors))
           /\ header' = [s \in Sectors |->
                            IF s \in {sectors[i] : i \in 1 .. k}
                            THEN ZeroHeader ELSE header[s]]
        /\ free' = Freed(sectors)
        /\ spifiles' = [spifiles EXCEPT ![e] = NoFile]
        /\ UNCHANGED <<files, data, created>>

\* Its only caller, the zip format, closes the file first.
ClosedByCaller(e) ==
  \A f \in Fds : files[f].state = "open" => files[f].entry # e

\* The processor is reset: spi_flash_fc_init() and a zeroed files[].
Restarted ==
  /\ FlashDoes(FALSE)
  /\ free' = InitialFree
  /\ spifiles' = [e \in Entries |-> NoFile]
  /\ files' = [f \in Fds |-> FreeFd]
  /\ UNCHANGED created

Restart == Restarted /\ UNCHANGED <<header, data>>

\* The processor faults in the middle of a write and is reset.
WriteFaults(f, sz, align) ==
  LET ptr == files[f].fileptr
      segments == Segments(ptr, sz)
      bad == {i \in DOMAIN segments : SegmentCrashes(align, segments[i])}
  IN  /\ Accepted(f, sz) /\ bad # {}
      /\ Stored(spifiles[files[f].entry], ptr, sz, align, Least(bad), 0)
      /\ Restarted

-----------------------------------------------------------------------------

\* Bound: a file that went wrong is not written further.
Worthwhile(f) == files[f].state = "open" /\ spifiles[files[f].entry].sound

Next ==
  \/ \E n \in Names :
       \/ OpenExisting(n)
       \/ \E e \in Entries : ClosedByCaller(e) /\ RemoveFile(n, e)
       \/ \E m \in MaxSizes : OpenNew(n, m)
  \/ \E f \in Fds :
       \/ Close(f) \/ CloseFails(f)
       \/ \E sz \in Sizes, align \in Aligns :
            \/ Worthwhile(f) /\ Write(f, sz, align)
            \/ Worthwhile(f) /\ WriteFails(f, sz, align)
            \/ Worthwhile(f) /\ WriteFaults(f, sz, align)
            \/ Read(f, sz, align)
  \/ Restart

Spec == Init /\ [][Next]_vars

-----------------------------------------------------------------------------
(* Properties *)

Byte(file, k) == data[file.sectors[k \div DataSize + 1]][k % DataSize]

\* No sector belongs to two files, or to a file and to the free list, and
\* none is lost: sectors move one by one between the list of free sectors
\* and those of the files, with no other record of who owns one.
Lists == {<<0, i>> : i \in DOMAIN free}
         \cup UNION {{<<e, i>> : i \in DOMAIN spifiles[e].sectors} :
                       e \in Entries}
At(p) == IF p[1] = 0 THEN free[p[2]] ELSE spifiles[p[1]].sectors[p[2]]

NoSharedSector ==
  /\ \A p, q \in Lists : p # q => At(p) # At(q)
  /\ {At(p) : p \in Lists} = Sectors

\* The bytes of the file of entry e are in its sectors, at their places.
Stands(e) ==
  \A k \in 0 .. spifiles[e].written - 1 :
    Byte(spifiles[e], k) = Data(spifiles[e].number, k)

\* What was written to a file is in its sectors, at its place: through
\* writes of any size, writes that failed and were repeated, sectors used
\* before by other files, and resets.  Two kinds of files are excepted
\* (`sound`): those with a write whose source and destination were equally
\* far off a word, for which WrittenStands does not hold, and those whose
\* sectors could not be prepared, which _new_file() does not look at.
FileIntact == \A e \in Entries : spifiles[e].sound => Stands(e)

\* What the comment before _equally_unaligned_flash_write() says of such a
\* write: all its bytes get to their places.  For a flash that refuses
\* nothing, so that every file is prepared and every write succeeds.
WrittenStands == \A e \in Entries : Used(e) => Stands(e)

\* A read that is not of a last byte at the start of a word from a buffer
\* of another alignment.
ReadFetches(f, sz, align) ==
  LET segments == Segments(files[f].fileptr, Readable(f, sz))
  IN  \A i \in DOMAIN segments :
        \/ (align + segments[i].from) % 4 = segments[i].at % 4
        \/ (segments[i].at + segments[i].sz - 1) % 4 # 0

\* A read that succeeds copies what was written at the place of the file
\* pointer, across the sectors and the words.  Excepted are the files of
\* FileIntact and the reads that do not fetch their last word.
ReadsRight ==
  \A f \in Fds, sz \in Sizes, align \in Aligns :
    LET file == spifiles[files[f].entry]
    IN  (/\ ReadSucceeds(f, sz, align) /\ ReadFetches(f, sz, align)
         /\ file.sound)
        => ReadBytes(f, sz, align) =
             [i \in 1 .. Readable(f, sz) |->
                Data(file.number, files[f].fileptr + i - 1)]

\* A descriptor leads to the file of its name, also when the flash still
\* has the names of files of before a reset.
OpenedIsNamed ==
  \A f \in Fds :
    LET file == spifiles[files[f].entry]
    IN  files[f].state = "open" /\ file.sound => file.name = files[f].path

\* A file that was written and closed can be read to its end: its sectors
\* have their size.
ClosedFileReadable ==
  \A e \in Entries :
    spifiles[e].sound /\ spifiles[e].closed =>
      \A i \in 1 .. UpDiv(spifiles[e].written, DataSize) :
        header[spifiles[e].sectors[i]].sized
=============================================================================
