-------------------------- MODULE Stm32TargetProofs --------------------------
(***************************************************************************)
(* The STM32 target erases what it must and nothing else, for every memory *)
(* map, uploads and word size: in the sectors that have a bit of a mask    *)
(* for themselves.                                                         *)
(***************************************************************************)
EXTENDS Stm32Target, TLAPS

\* The type invariant, and where in an upload the target is.
TypeInv ==
  /\ TypeOK
  /\ pc = "off" => sent = 0
  /\ pc \in Started \cup Running => sent < Len(upload)
  /\ pc \in {"erase", "erasing"} =>
       area \in DOMAIN Areas /\ sectors \subseteq DOMAIN Areas[area].sectors

\* While an erase command runs its sectors are not marked, and those the
\* device has done are blank.
EraseInv ==
  /\ pc \in {"erase", "erasing"} => \A i \in sectors : Bit(area, i) \notin bits
  /\ pc = "erasing" =>
       /\ todo \subseteq sectors
       /\ \A i \in sectors \ todo : \A a \in SectorCells(area, i) : flash[a] = Blank

\* All the sectors of a chunk are marked.
ChunkMarked ==
  \A k \in DOMAIN Areas : \A i \in DOMAIN Areas[k].sectors :
    SectorCells(k, i) \cap Bytes(Chunk) # {} => Bit(k, i) \in bits

\* While a chunk is programmed: if it lies in an area its sectors are marked,
\* and what the device has done is in place.
ProgramInv ==
  /\ pc = "programming" \/ (pc = "program" /\ ~error) =>
       (AreasOf(Chunk) # {} => ChunkMarked)
  /\ pc = "programming" =>
       /\ todo \subseteq Bytes(Chunk)
       /\ \A a \in Bytes(Chunk) \ todo : Sound(a) => flash[a] = a

\* What was reported done is in place, in sectors that are marked.
DoneInv ==
  \A a \in done : Mapped(a) =>
    /\ Sound(a) => flash[a] = a
    /\ \A k \in DOMAIN Areas : \A i \in DOMAIN Areas[k].sectors :
         a \in SectorCells(k, i) => Bit(k, i) \in bits

-----------------------------------------------------------------------------
(* Bits *)

\* A quotient and a remainder, for any dividend.
LEMMA Quotient ==
  ASSUME NEW d \in Nat, d > 0, NEW x \in Nat
  PROVE  x \div d \in Nat /\ x % d \in 0 .. d - 1
<1>1. x = d * (x \div d) + (x % d) /\ x % d \in 0 .. d - 1 /\ x \div d \in Int
  OBVIOUS
<1>2. ASSUME NEW q \in Int, NEW r \in 0 .. d - 1, x = d * q + r
      PROVE  q >= 0
  <2>1. SUFFICES ASSUME q <= -1  PROVE FALSE
    OBVIOUS
  <2>2. d * q <= -d
    BY <2>1
  <2> QED
    BY <1>2, <2>2
<1> QED
  BY <1>1, <1>2

\* What an area is.
LEMMA AreaTypes ==
  /\ WordBytes \in Nat \ {0} /\ Addr \subseteq Nat
  /\ \A k \in DOMAIN Areas :
       /\ Areas[k].first \in Addr /\ Areas[k].last \in Addr
       /\ Areas[k].sectors \in Seq(Addr) /\ Areas[k].word \in Nat
<1>1. WordBytes \in Nat \ {0} /\ Addr \subseteq Nat /\ Areas \in Seq(MemoryAreas)
  BY ConstantsOK
<1>2. ASSUME NEW k \in DOMAIN Areas  PROVE  Areas[k] \in MemoryAreas
  BY <1>1
<1> QED
  BY <1>1, <1>2 DEF MemoryAreas

\* stm32_usart_fini() clears the masks.
LEMMA FiniClears == MaskWords \subseteq ClearedWords
<1>1. SUFFICES ASSUME NEW k \in DOMAIN Areas, IsFlash(k)
               PROVE  Areas[k].word \in ClearedWords
  BY DEF MaskWords
<1>2. Areas[k].sectors \in Seq(Addr) /\ Areas[k].word \in Nat /\ WordBytes \in Nat \ {0}
  BY AreaTypes
<1>3. Len(Areas[k].sectors) \in Nat \ {0}
  BY <1>1, <1>2 DEF IsFlash
<1> DEFINE n == (Len(Areas[k].sectors) - 1) \div (8 * WordBytes)
<1>4. n \in Nat
  <2>1. 8 * WordBytes \in Nat /\ 8 * WordBytes > 0 /\ Len(Areas[k].sectors) - 1 \in Nat
    BY <1>2, <1>3
  <2> QED
    BY <2>1, Quotient
<1>5. Areas[k].word .. Areas[k].word + n \subseteq ClearedWords
  BY <1>1 DEF ClearedWords
<1> HIDE DEF n
<1>6. Areas[k].word \in Areas[k].word .. Areas[k].word + n
  BY <1>2, <1>4
<1> QED
  BY <1>5, <1>6

\* A bit is in a word.
LEMMA BitType ==
  ASSUME NEW k \in DOMAIN Areas, NEW i \in Nat \ {0}
  PROVE  Bit(k, i) \in Nat \X (0 .. WordBytes - 1)
<1>1. WordBytes \in Nat \ {0} /\ Areas[k].word \in Nat
  BY AreaTypes
<1>2. i - 1 \in Nat
  OBVIOUS
<1>3. (i - 1) \div WordBytes \in Nat /\ (i - 1) % WordBytes \in 0 .. WordBytes - 1
  <2>1. WordBytes \in Nat /\ WordBytes > 0
    BY <1>1
  <2> QED
    BY <1>2, <2>1, Quotient
<1>4. Areas[k].word + (i - 1) \div WordBytes \in Nat
  BY <1>1, <1>3
<1> QED
  BY <1>3, <1>4 DEF Bit

\* The area of a chunk.
LEMMA FindAreaIn ==
  ASSUME NEW c
  PROVE  /\ FindArea(c) = 0 <=> AreasOf(c) = {}
         /\ FindArea(c) # 0 => FindArea(c) \in AreasOf(c)
<1>1. 0 \notin AreasOf(c)
  <2>1. Areas \in Seq(MemoryAreas)
    BY ConstantsOK
  <2> QED
    BY <2>1 DEF AreasOf
<1> QED
  BY <1>1 DEF FindArea

\* The next chunk.
LEMMA ChunkType ==
  ASSUME TypeInv, sent < Len(upload)
  PROVE  /\ Chunk \in Chunks
         /\ Bytes(Chunk) \subseteq Addr /\ Bytes(Chunk) # {}
         /\ sent + 1 \in DOMAIN upload
<1>1. upload \in Uploads /\ upload \in Seq(Chunks) /\ sent \in Nat
  BY ConstantsOK DEF TypeInv, TypeOK
<1>2. sent + 1 \in DOMAIN upload
  BY <1>1
<1>3. Chunk \in Chunks
  BY <1>1, <1>2 DEF Chunk
<1>4. upload[sent + 1].addr .. upload[sent + 1].addr + upload[sent + 1].len - 1 \subseteq Addr
  BY <1>1, <1>2, ConstantsOK
<1>5. Chunk.addr \in Nat /\ Chunk.len \in Nat \ {0}
  BY <1>3, AreaTypes DEF Chunks
<1>6. Chunk.addr \in Chunk.addr .. Chunk.addr + Chunk.len - 1
  BY <1>5
<1> QED
  BY <1>2, <1>3, <1>4, <1>6 DEF Bytes, Chunk

-----------------------------------------------------------------------------
(* Types *)

\* The initial states.
LEMMA TypeInit == Init => TypeInv
<1> SUFFICES ASSUME Init  PROVE  TypeInv
  OBVIOUS
<1>1. /\ upload \in Seq(Chunks) /\ Len(upload) \in Nat
      /\ MaxSync \in Nat \ {0} /\ MaxUploads \in Nat
  BY ConstantsOK DEF Init
<1>2. flash \in [Addr -> {Old, Blank, Garbage} \cup Addr]
  BY DEF Init
<1>3. /\ pc \in Places /\ attempts \in 0 .. MaxSync /\ uploads \in 0 .. MaxUploads
      /\ upload \in Uploads /\ sent \in 0 .. Len(upload) /\ area \in {0} \cup DOMAIN Areas
  BY <1>1 DEF Init, Places
<1>4. /\ bits \subseteq Nat \X (0 .. WordBytes - 1) /\ sectors \subseteq Nat /\ todo \subseteq Nat
      /\ error \in BOOLEAN /\ done \subseteq Addr
  <2>1. ASSUME NEW k \in DOMAIN Areas, NEW i \in DOMAIN Areas[k].sectors
        PROVE  Bit(k, i) \in Nat \X (0 .. WordBytes - 1)
    <3>1. i \in Nat \ {0}
      BY AreaTypes
    <3> QED
      BY <3>1, BitType
  <2>2. ASSUME NEW b \in Foreign  PROVE  b \in Nat \X (0 .. WordBytes - 1)
    <3>1. PICK k \in DOMAIN Areas : b \in {Bit(k, i) : i \in DOMAIN Areas[k].sectors}
      BY Zenon DEF Foreign
    <3>2. PICK i \in DOMAIN Areas[k].sectors : b = Bit(k, i)
      BY <3>1, Zenon
    <3> QED
      BY <2>1, <3>2
  <2> QED
    BY <2>2 DEF Init
<1>5. TypeOK
  BY <1>2, <1>3, <1>4 DEF TypeOK
<1> QED
  BY <1>5 DEF Init, TypeInv, Started, Running

\* Each step.
LEMMA TypeStep == TypeInv /\ [Next]_vars => TypeInv'
<1> SUFFICES ASSUME TypeInv, [Next]_vars  PROVE  TypeInv'
  OBVIOUS
<1>1. /\ MaxSync \in Nat \ {0} /\ MaxUploads \in Nat /\ Addr \subseteq Nat
      /\ Len(upload) \in Nat /\ \A u \in Uploads : Len(u) \in Nat
  BY ConstantsOK DEF TypeInv, TypeOK
<1> USE DEF TypeInv, TypeOK, Places, Waiting, Started, Running
<1>2. CASE Reset
  BY <1>1, <1>2 DEF Reset, command
<1>3. CASE SyncEnds
  BY <1>1, <1>3 DEF SyncEnds, command, session
<1>4. CASE Probed
  BY <1>1, <1>4 DEF Probed, command, session
<1>5. CASE Offer
  <2>1. /\ pc' \in {"program", "over", "erase"} /\ sent < Len(upload)
        /\ error' \in BOOLEAN
        /\ UNCHANGED <<session, sent, bits, flash, done>>
    BY <1>5 DEF Offer, ProgramStarts, EraseStarts
  <2>2. /\ area' \in {0} \cup DOMAIN Areas /\ sectors' \subseteq Nat /\ todo' \subseteq Nat
        /\ pc' = "erase" => area' \in DOMAIN Areas /\ sectors' \subseteq DOMAIN Areas[area'].sectors
    <3>1. CASE (ProgramStarts \/ pc' \in {"program", "over"}) /\ UNCHANGED command
      BY <3>1 DEF command, ProgramStarts
    <3>2. CASE FindArea(Chunk) # 0
               /\ EraseStarts(FindArea(Chunk), NotErased(FindArea(Chunk), Chunk))
      <4>1. FindArea(Chunk) \in DOMAIN Areas
        BY <3>2, FindAreaIn DEF AreasOf
      <4>2. /\ NotErased(FindArea(Chunk), Chunk) \subseteq DOMAIN Areas[FindArea(Chunk)].sectors
            /\ DOMAIN Areas[FindArea(Chunk)].sectors \subseteq Nat
        BY <4>1, AreaTypes DEF NotErased, MapChunk
      <4> QED
        BY <3>2, <4>1, <4>2 DEF EraseStarts
    <3> QED
      BY <1>5, <3>1, <3>2 DEF Offer
  <2> QED
    BY <1>1, <2>1, <2>2 DEF session
<1>6. CASE CommandSent
  <2>1. Bytes(Chunk) \subseteq Nat
    BY <1>1, <1>6, ChunkType DEF CommandSent
  <2> QED
    BY <1>1, <1>6, <2>1 DEF CommandSent, session
<1>7. CASE DeviceErases
  BY <1>1, <1>7 DEF DeviceErases, session
<1>8. CASE DevicePrograms
  <2>1. PICK a \in todo : flash' = [flash EXCEPT ![a] = Programmed(a)] /\ todo' = todo \ {a}
    BY <1>8 DEF DevicePrograms
  <2>2. ASSUME NEW b \in Addr
        PROVE  flash'[b] \in {Old, Blank, Garbage} \cup Addr
    BY <2>1 DEF Programmed
  <2>3. flash' \in [Addr -> {Old, Blank, Garbage} \cup Addr]
    BY <2>1, <2>2
  <2> QED
    BY <1>1, <1>8, <2>1, <2>3 DEF DevicePrograms, session
<1>9. CASE EraseDone
  <2>1. ASSUME NEW i \in sectors
        PROVE  Bit(area, i) \in Nat \X (0 .. WordBytes - 1)
    <3>1. area \in DOMAIN Areas /\ i \in Nat \ {0}
      BY <1>9, AreaTypes DEF EraseDone
    <3> QED
      BY <3>1, BitType
  <2> QED
    BY <1>1, <1>9, <2>1 DEF EraseDone, session, command
<1>10. CASE ChunkDone
  <2>0. sent < Len(upload) /\ pc' \in {"over", "ready"}
    BY <1>10 DEF ChunkDone
  <2>1. Bytes(Chunk) \subseteq Addr /\ sent + 1 \in 0 .. Len(upload)
    BY <1>1, <2>0, ChunkType
  <2> QED
    BY <1>1, <1>10, <2>0, <2>1 DEF ChunkDone, session, command
<1>11. CASE CommandFails
  BY <1>1, <1>11 DEF CommandFails, session, command
<1>12. CASE RxTimeout
  BY <1>1, <1>12 DEF RxTimeout, session, command
<1>13. CASE LoopStops
  BY <1>1, <1>13 DEF LoopStops, session, command
<1>14. CASE Fini
  <2>1. flash' \in [Addr -> {Old, Blank, Garbage} \cup Addr]
    BY <1>14 DEF Fini
  <2>2. bits' \subseteq Nat \X (0 .. WordBytes - 1)
    BY <1>14 DEF Fini
  <2>3. /\ pc' = "off" /\ sent' = 0 /\ area' = 0 /\ error' = FALSE
        /\ sectors' = {} /\ todo' = {} /\ done' = {}
        /\ upload' = upload /\ attempts' = attempts /\ uploads' = uploads
    BY <1>14 DEF Fini, session
  <2>4. /\ pc' \in Places /\ sent' \in 0 .. Len(upload') /\ area' \in {0} \cup DOMAIN Areas
        /\ upload' \in Uploads /\ attempts' \in 0 .. MaxSync /\ uploads' \in 0 .. MaxUploads
    BY <1>1, <2>3
  <2>5. sectors' \subseteq Nat /\ todo' \subseteq Nat /\ done' \subseteq Addr /\ error' \in BOOLEAN
    BY <2>3
  <2> QED
    BY <2>1, <2>2, <2>3, <2>4, <2>5
<1>15. CASE UNCHANGED vars
  BY <1>1, <1>15 DEF vars, session, command
<1> QED
  BY <1>2, <1>3, <1>4, <1>5, <1>6, <1>7, <1>8, <1>9, <1>10, <1>11, <1>12,
     <1>13, <1>14, <1>15 DEF Next

\* The type invariant is inductive on its own.
THEOREM TypeCorrect == Spec => []TypeOK
<1>1. TypeInv => TypeOK
  BY DEF TypeInv
<1> QED
  BY <1>1, TypeInit, TypeStep, PTL DEF Spec

-----------------------------------------------------------------------------
(* The bits *)

\* Each step keeps the bits honest, and the erase command with them.
LEMMA BitmaskStep ==
  ASSUME TypeInv, BitmaskHonest, EraseInv, [Next]_vars
  PROVE  BitmaskHonest' /\ EraseInv'
<1>1. CASE UNCHANGED <<bits, flash>> /\ pc' \notin {"erase", "erasing"}
  BY <1>1 DEF BitmaskHonest, EraseInv
<1>2. CASE UNCHANGED <<bits, flash, pc, command>>
  BY <1>2 DEF BitmaskHonest, EraseInv, command
<1>3. CASE Offer
  <2>1. UNCHANGED <<bits, flash>> /\ pc' # "erasing"
    BY <1>3 DEF Offer, ProgramStarts, EraseStarts
  <2>2. CASE pc' = "erase"
    <3>1. area' = FindArea(Chunk) /\ sectors' = NotErased(FindArea(Chunk), Chunk)
      BY <1>3, <2>2 DEF Offer, ProgramStarts, EraseStarts
    <3>2. \A i \in sectors' : Bit(area', i) \notin bits
      BY <3>1 DEF NotErased
    <3> QED
      BY <2>1, <2>2, <3>2 DEF BitmaskHonest, EraseInv
  <2> QED
    BY <1>1, <2>1, <2>2
<1>4. CASE CommandSent
  <2>1. UNCHANGED <<bits, flash, area, sectors>>
    BY <1>4 DEF CommandSent
  <2>2. CASE pc = "erase"
    BY <1>4, <2>1, <2>2 DEF CommandSent, BitmaskHonest, EraseInv
  <2>3. CASE pc = "program"
    BY <1>4, <2>1, <2>3 DEF CommandSent, BitmaskHonest, EraseInv
  <2> QED
    BY <1>4, <2>2, <2>3 DEF CommandSent
<1>5. CASE DeviceErases
  <2>1. PICK i \in todo :
          /\ flash' = [a \in Addr |-> IF a \in SectorCells(area, i) THEN Blank ELSE flash[a]]
          /\ todo' = todo \ {i}
    BY <1>5 DEF DeviceErases
  <2>2. pc = "erasing" /\ UNCHANGED <<pc, bits, area, sectors>>
    BY <1>5 DEF DeviceErases
  <2>3. BitmaskHonest'
    BY <2>1, <2>2 DEF BitmaskHonest, SectorCells
  <2>4. EraseInv'
    BY <2>1, <2>2 DEF EraseInv, SectorCells
  <2> QED
    BY <2>3, <2>4
<1>6. CASE DevicePrograms
  <2>1. PICK a \in todo : flash' = [flash EXCEPT ![a] = Programmed(a)]
    BY <1>6 DEF DevicePrograms
  <2>2. pc = "programming" /\ UNCHANGED <<pc, bits>>
    BY <1>6 DEF DevicePrograms
  <2>3. flash \in [Addr -> {Old, Blank, Garbage} \cup Addr]
    BY DEF TypeInv, TypeOK
  <2>4. BitmaskHonest'
    BY <2>1, <2>2, <2>3 DEF BitmaskHonest, SectorCells, Programmed
  <2> QED
    BY <2>2, <2>4 DEF EraseInv
<1>7. CASE EraseDone
  <2>1. /\ pc = "erasing" /\ todo = {} /\ pc' = "ready" /\ flash' = flash
        /\ bits' = bits \cup {Bit(area, i) : i \in sectors}
    BY <1>7 DEF EraseDone
  <2>2. ASSUME NEW k \in DOMAIN Areas, NEW i \in DOMAIN Areas[k].sectors,
               NEW a \in SectorCells(k, i), Private(k, i), Bit(k, i) \in bits'
        PROVE  flash[a] \in {Blank, a}
    <3>1. CASE Bit(k, i) \in bits
      BY <2>2, <3>1 DEF BitmaskHonest
    <3>2. CASE \E j \in sectors : Bit(k, i) = Bit(area, j)
      <4>1. PICK j \in sectors : Bit(k, i) = Bit(area, j)
        BY <3>2
      <4>2. area \in DOMAIN Areas /\ j \in DOMAIN Areas[area].sectors
        BY <2>1 DEF TypeInv
      <4>3. k = area /\ i = j
        BY <2>2, <4>1, <4>2 DEF Private
      <4> QED
        BY <2>1, <4>3 DEF EraseInv
    <3> QED
      BY <2>1, <2>2, <3>1, <3>2
  <2>3. BitmaskHonest'
    BY <2>1, <2>2 DEF BitmaskHonest
  <2> QED
    BY <2>1, <2>3 DEF EraseInv
<1>8. CASE Fini
  <2>1. bits' = {b \in bits : b[1] \notin ClearedWords} /\ pc' = "off"
    BY <1>8 DEF Fini
  <2>2. BitmaskHonest'
    BY <2>1, FiniClears DEF BitmaskHonest, Private
  <2> QED
    BY <2>1, <2>2 DEF EraseInv
<1>9. CASE Reset \/ SyncEnds \/ Probed \/ ChunkDone \/ CommandFails \/ LoopStops
  <2>1. UNCHANGED <<bits, flash>> /\ pc' \notin {"erase", "erasing"}
    BY <1>9 DEF Reset, SyncEnds, Probed, ChunkDone, CommandFails, LoopStops
  <2> QED
    BY <1>1, <2>1
<1>10. CASE RxTimeout
  BY <1>2, <1>10 DEF RxTimeout
<1>11. CASE UNCHANGED vars
  BY <1>2, <1>11 DEF vars
<1> QED
  BY <1>3, <1>4, <1>5, <1>6, <1>7, <1>8, <1>9, <1>10, <1>11 DEF Next

\* No bit of a private sector is set at first.
LEMMA BitsInit == Init => BitmaskHonest /\ EraseInv
  BY DEF Init, Foreign, BitmaskHonest, Private, EraseInv

\* A marked sector is erased and holds nothing but this upload, if no other
\* sector has its bit.
THEOREM BitmaskIsHonest == Spec => []BitmaskHonest
<1>1. Init => TypeInv /\ BitmaskHonest /\ EraseInv
  BY TypeInit, BitsInit
<1>2. TypeInv /\ BitmaskHonest /\ EraseInv /\ [Next]_vars
        => (TypeInv /\ BitmaskHonest /\ EraseInv)'
  BY TypeStep, BitmaskStep
<1> QED
  BY <1>1, <1>2, PTL DEF Spec

-----------------------------------------------------------------------------
(* The bytes *)

\* What a chunk that lies in an area, in marked sectors, is programmed over.
LEMMA MarkedCells ==
  ASSUME TypeInv, BitmaskHonest, sent < Len(upload),
         ChunkMarked, NEW a \in Bytes(Chunk), Sound(a), AreasOf(Chunk) # {}
  PROVE  a \in Addr /\ Programmed(a) = a
<1>1. PICK k \in AreasOf(Chunk) : k = FindArea(Chunk) /\ k # 0
  BY FindAreaIn
<1>2. a \in Addr /\ Chunk \in Chunks
  BY ChunkType
<1>3. k \in DOMAIN Areas /\ InArea(a, k)
  <2>1. /\ k \in DOMAIN Areas
        /\ Areas[k].first <= Chunk.addr /\ Chunk.addr + Chunk.len <= Areas[k].last + 1
    BY <1>1 DEF AreasOf
  <2>2. /\ Chunk.addr \in Nat /\ Chunk.len \in Nat
        /\ Areas[k].first \in Nat /\ Areas[k].last \in Nat /\ a \in Nat
    BY <1>2, <2>1, AreaTypes DEF Chunks
  <2>3. Chunk.addr <= a /\ a <= Chunk.addr + Chunk.len - 1
    BY <2>2 DEF Bytes
  <2> QED
    BY <2>1, <2>2, <2>3 DEF InArea
<1>4. CASE IsFlash(k)
  <2>1. PICK i \in DOMAIN Areas[k].sectors : a \in SectorCells(k, i)
    BY <1>2, <1>3, <1>4, TablesOK DEF IsFlash
  <2>2. Bit(k, i) \in bits
    BY <1>3, <2>1 DEF ChunkMarked
  <2>3. flash[a] \in {Blank, a}
    <3>1. Private(k, i)
      BY <1>2, <1>3, <2>1 DEF Sound, SharedCells
    <3> QED
      BY <1>3, <2>1, <2>2, <3>1 DEF BitmaskHonest
  <2> QED
    BY <1>2, <2>3 DEF Programmed
<1> QED
  BY <1>1, <1>2, <1>4 DEF Programmed

\* erased(): a chunk of an area whose sectors are all marked.
LEMMA NothingToErase ==
  ASSUME TypeInv, sent < Len(upload), AreasOf(Chunk) # {},
         ~IsFlash(FindArea(Chunk)) \/ NotErased(FindArea(Chunk), Chunk) = {}
  PROVE  ChunkMarked
<1>1. PICK k \in AreasOf(Chunk) : k = FindArea(Chunk)
  BY FindAreaIn
<1>2. Bytes(Chunk) \subseteq Addr /\ Chunk \in Chunks
  BY ChunkType
<1>3. ASSUME NEW j \in DOMAIN Areas, NEW i \in DOMAIN Areas[j].sectors,
             NEW a \in SectorCells(j, i) \cap Bytes(Chunk)
      PROVE  Bit(j, i) \in bits
  <2>1. /\ k \in DOMAIN Areas
        /\ Areas[k].first <= Chunk.addr /\ Chunk.addr + Chunk.len <= Areas[k].last + 1
    BY <1>1 DEF AreasOf
  <2>2. /\ Chunk.addr \in Nat /\ Chunk.len \in Nat
        /\ Areas[k].first \in Nat /\ Areas[k].last \in Nat /\ a \in Nat
    BY <1>2, <2>1, AreaTypes DEF Chunks
  <2>3. Chunk.addr <= a /\ a <= Chunk.addr + Chunk.len - 1
    BY <2>2 DEF Bytes
  <2>4. InArea(a, k) /\ InArea(a, j) /\ a \in Addr
    BY <2>1, <2>2, <2>3 DEF InArea, SectorCells
  <2>5. j = k
    BY <2>1, <2>4, TablesOK
  <2>6. IsFlash(k)
    BY <2>5, AreaTypes DEF IsFlash
  <2>7. i \in MapChunk(k, Chunk)
    BY <2>5 DEF MapChunk
  <2> QED
    BY <1>1, <2>5, <2>6, <2>7 DEF NotErased
<1> QED
  BY <1>3 DEF ChunkMarked

\* A cell of the chunk that is not in a chunk without an area.
LEMMA ChunkMapped ==
  ASSUME TypeInv, sent < Len(upload), NEW a \in Bytes(Chunk), Mapped(a)
  PROVE  AreasOf(Chunk) # {}
  BY ChunkType DEF Mapped, Chunk

\* Which cells are sound depends on the upload.
LEMMA SameUpload ==
  ASSUME UNCHANGED upload
  PROVE  /\ \A a : Mapped(a)' <=> Mapped(a)
         /\ \A a : Sound(a)' <=> Sound(a)
<1>1. UNCHANGED SharedCells /\ \A c : AreasOf(c)' = AreasOf(c) /\ Bytes(c)' = Bytes(c)
  BY DEF SharedCells, Private, Bit, MaskWords, IsFlash, SectorCells, InArea, AreasOf, Bytes
<1> QED
  BY <1>1 DEF Mapped, Sound

\* Before an upload nothing is garbage.
CleanInv == pc = "off" => done = {} /\ \A a \in Addr : flash[a] # Garbage

\* The inductive invariant.
IInv ==
  TypeInv /\ BitmaskHonest /\ EraseInv /\ CleanInv /\ NoGarbage /\ ProgramInv /\ DoneInv

\* The initial states.
LEMMA IInvInit == Init => IInv
<1> SUFFICES ASSUME Init  PROVE  IInv
  OBVIOUS
<1>1. NoGarbage /\ CleanInv
  BY ConstantsOK DEF Init, NoGarbage, CleanInv
<1> QED
  BY <1>1, TypeInit, BitsInit DEF Init, IInv, ProgramInv, DoneInv

\* The device erases nothing that was reported done.
LEMMA Erases ==
  ASSUME IInv, DeviceErases
  PROVE  /\ \A a \in Addr : flash'[a] # flash[a] =>
              flash'[a] = Blank /\ ~(a \in done /\ Mapped(a))
         /\ DOMAIN flash' = Addr /\ pc = "erasing" /\ UNCHANGED <<pc, upload, bits, done>>
<1> USE DEF IInv
<1>1. PICK i \in todo :
        flash' = [a \in Addr |-> IF a \in SectorCells(area, i) THEN Blank ELSE flash[a]]
  BY DEF DeviceErases
<1>2. /\ pc = "erasing" /\ area \in DOMAIN Areas /\ i \in DOMAIN Areas[area].sectors
      /\ i \in sectors /\ UNCHANGED <<pc, upload, bits, done>>
  BY DEF DeviceErases, session, TypeInv, EraseInv
<1>3. Bit(area, i) \notin bits
  BY <1>2 DEF EraseInv
<1>4. \A a \in done : Mapped(a) => a \notin SectorCells(area, i)
  BY <1>2, <1>3 DEF DoneInv
<1> QED
  BY <1>1, <1>2, <1>4

\* The device programs a byte of the chunk, in place if it is sound.
LEMMA Programs ==
  ASSUME IInv, DevicePrograms
  PROVE  \E a \in todo \cap Addr :
           /\ flash' = [flash EXCEPT ![a] = Programmed(a)] /\ todo' = todo \ {a}
           /\ a \in Bytes(Chunk) /\ sent < Len(upload) /\ pc = "programming"
           /\ Sound(a) => flash'[a] = a
           /\ UNCHANGED <<pc, upload, sent, bits, done>>
<1> USE DEF IInv
<1>1. PICK a \in todo : flash' = [flash EXCEPT ![a] = Programmed(a)] /\ todo' = todo \ {a}
  BY DEF DevicePrograms
<1>2. pc = "programming" /\ UNCHANGED <<pc, upload, sent, bits, done>>
  BY DEF DevicePrograms, session
<1>3. a \in Bytes(Chunk) /\ sent < Len(upload)
  BY <1>1, <1>2 DEF ProgramInv, TypeInv, Running
<1>4. a \in Addr /\ flash \in [Addr -> {Old, Blank, Garbage} \cup Addr]
  BY <1>3, ChunkType DEF TypeInv, TypeOK
<1>5. ASSUME Sound(a)  PROVE  flash'[a] = a
  <2>1. AreasOf(Chunk) # {} /\ ChunkMarked
    BY <1>2, <1>3, <1>5, ChunkMapped DEF Sound, ProgramInv
  <2>2. Programmed(a) = a
    BY <1>3, <1>5, <2>1, MarkedCells
  <2> QED
    BY <1>1, <1>4, <2>2
<1> QED
  BY <1>1, <1>2, <1>3, <1>4, <1>5

\* The steps that change flash leave what was reported done alone, and store
\* nothing but what belongs there.
LEMMA FlashSteps ==
  ASSUME IInv, DeviceErases \/ DevicePrograms
  PROVE  CleanInv' /\ NoGarbage' /\ ProgramInv' /\ DoneInv'
<1> USE DEF IInv
<1>1. flash \in [Addr -> {Old, Blank, Garbage} \cup Addr] /\ done \subseteq Addr
  BY DEF TypeInv, TypeOK
<1>2. CASE DeviceErases
  <2>1. /\ \A a \in Addr : flash'[a] # flash[a] =>
             flash'[a] = Blank /\ ~(a \in done /\ Mapped(a))
        /\ pc = "erasing" /\ UNCHANGED <<pc, upload, bits, done>>
    BY <1>2, Erases
  <2>2. NoGarbage'
    BY <2>1, SameUpload, ConstantsOK DEF NoGarbage
  <2>3. DoneInv'
    BY <1>1, <2>1, SameUpload DEF DoneInv
  <2> QED
    BY <2>1, <2>2, <2>3 DEF ProgramInv, CleanInv
<1>3. CASE DevicePrograms
  <2>1. PICK a \in todo \cap Addr :
          /\ flash' = [flash EXCEPT ![a] = Programmed(a)] /\ todo' = todo \ {a}
          /\ a \in Bytes(Chunk) /\ sent < Len(upload) /\ pc = "programming"
          /\ Sound(a) => flash'[a] = a
          /\ UNCHANGED <<pc, upload, sent, bits, done>>
    BY <1>3, Programs
  <2>2. Chunk' = Chunk /\ AreasOf(Chunk)' = AreasOf(Chunk) /\ Bytes(Chunk)' = Bytes(Chunk)
    BY <2>1 DEF Chunk, AreasOf, Bytes
  <2>3. \A b \in Addr : flash'[b] = flash[b] \/ (b = a /\ (Sound(a) => flash'[b] = b))
    BY <1>1, <2>1
  <2>4. NoGarbage'
    BY <2>1, <2>3, SameUpload, ConstantsOK DEF NoGarbage
  <2>5. DoneInv'
    BY <1>1, <2>1, <2>3, SameUpload DEF DoneInv
  <2>6. Bytes(Chunk) \subseteq Addr
    BY <2>1, ChunkType
  <2>7. /\ todo' \subseteq Bytes(Chunk)
        /\ \A b \in Bytes(Chunk) \ todo' : Sound(b)' => flash'[b] = b
    BY <2>1, <2>3, <2>6, SameUpload DEF ProgramInv
  <2>8. ChunkMarked' <=> ChunkMarked
    BY <2>1, <2>2 DEF ChunkMarked
  <2>9. ProgramInv'
    BY <2>1, <2>2, <2>7, <2>8 DEF ProgramInv
  <2> QED
    BY <2>1, <2>4, <2>5, <2>9 DEF CleanInv
<1> QED
  BY <1>2, <1>3

\* Each step.
LEMMA IInvStep ==
  ASSUME IInv, [Next]_vars
  PROVE  IInv'
<1>1. TypeInv' /\ BitmaskHonest' /\ EraseInv'
  BY TypeStep, BitmaskStep DEF IInv
<1>2. CASE DeviceErases \/ DevicePrograms
  BY <1>1, <1>2, FlashSteps DEF IInv
<1> SUFFICES ASSUME ~(DeviceErases \/ DevicePrograms)
             PROVE  CleanInv' /\ NoGarbage' /\ ProgramInv' /\ DoneInv'
  BY <1>1, <1>2 DEF IInv
<1> USE DEF IInv
<1>3. CASE Offer
  <2>1. /\ sent < Len(upload) /\ pc' \notin {"off", "programming"}
        /\ UNCHANGED <<upload, sent, bits, flash, done>>
    BY <1>3 DEF Offer, ProgramStarts, EraseStarts, session
  <2>2. Chunk' = Chunk /\ AreasOf(Chunk)' = AreasOf(Chunk) /\ Bytes(Chunk)' = Bytes(Chunk)
    BY <2>1 DEF Chunk, AreasOf, Bytes
  <2>3. NoGarbage' /\ DoneInv' /\ CleanInv'
    BY <2>1, SameUpload DEF NoGarbage, DoneInv, CleanInv
  <2>4. CASE pc' = "program" /\ ~error' /\ AreasOf(Chunk) # {}
    <3>1. FindArea(Chunk) # 0
      BY <2>4, FindAreaIn
    <3>2. ~IsFlash(FindArea(Chunk)) \/ NotErased(FindArea(Chunk), Chunk) = {}
      BY <1>3, <2>4, <3>1 DEF Offer, EraseStarts
    <3>3. ChunkMarked
      BY <2>1, <2>4, <3>2, NothingToErase
    <3> QED
      BY <2>1, <2>2, <2>3, <3>3 DEF ProgramInv, ChunkMarked
  <2> QED
    BY <2>1, <2>2, <2>3, <2>4 DEF ProgramInv
<1>4. CASE CommandSent
  <2>1. ~error /\ pc # "off" /\ pc' # "off" /\ UNCHANGED <<upload, sent, bits, flash, done>>
    BY <1>4 DEF CommandSent, session, Started
  <2>2. Chunk' = Chunk /\ AreasOf(Chunk)' = AreasOf(Chunk) /\ Bytes(Chunk)' = Bytes(Chunk)
    BY <2>1 DEF Chunk, AreasOf, Bytes
  <2>3. NoGarbage' /\ DoneInv' /\ CleanInv'
    BY <2>1, SameUpload DEF NoGarbage, DoneInv, CleanInv
  <2>4. CASE pc = "program" /\ pc' = "programming" /\ todo' = Bytes(Chunk)
    <3>1. ChunkMarked' <=> ChunkMarked
      BY <2>1, <2>2 DEF ChunkMarked
    <3> QED
      BY <2>1, <2>2, <2>3, <2>4, <3>1 DEF ProgramInv
  <2>5. CASE pc' = "erasing"
    BY <2>3, <2>5 DEF ProgramInv
  <2> QED
    BY <1>4, <2>4, <2>5 DEF CommandSent
<1>5. CASE EraseDone
  <2>1. bits \subseteq bits' /\ pc' = "ready" /\ UNCHANGED <<upload, flash, done>>
    BY <1>5 DEF EraseDone, session
  <2> QED
    BY <2>1, SameUpload DEF NoGarbage, ProgramInv, DoneInv, CleanInv
<1>6. CASE ChunkDone
  <2>1. /\ pc = "programming" /\ todo = {} /\ pc' \in {"over", "ready"}
        /\ done' = done \cup Bytes(Chunk) /\ UNCHANGED <<upload, bits, flash>>
    BY <1>6 DEF ChunkDone, session
  <2>2. /\ AreasOf(Chunk) # {} => ChunkMarked
        /\ \A a \in Bytes(Chunk) : Sound(a) => flash[a] = a
    BY <2>1 DEF ProgramInv
  <2>3. \A a \in Bytes(Chunk) : Mapped(a) => ChunkMarked
    BY <2>1, <2>2, ChunkMapped DEF TypeInv, Running
  <2>4. DoneInv'
    BY <2>1, <2>2, <2>3, SameUpload DEF DoneInv, ChunkMarked
  <2> QED
    BY <2>1, <2>4, SameUpload DEF NoGarbage, ProgramInv, CleanInv
<1>7. CASE Fini
  <2>1. /\ pc' = "off" /\ done' = {}
        /\ flash' = [a \in Addr |-> IF flash[a] = Blank THEN Blank ELSE Old]
    BY <1>7 DEF Fini
  <2>2. \A a \in Addr : flash'[a] # Garbage
    BY <2>1, ConstantsOK
  <2> QED
    BY <2>1, <2>2 DEF NoGarbage, ProgramInv, DoneInv, CleanInv
<1>8. CASE Reset
  <2>1. pc = "off" /\ pc' = "sync" /\ UNCHANGED <<flash, done>>
    BY <1>8 DEF Reset
  <2>2. done = {} /\ \A a \in Addr : flash[a] # Garbage
    BY <2>1 DEF CleanInv
  <2> QED
    BY <2>1, <2>2 DEF NoGarbage, ProgramInv, DoneInv, CleanInv
<1>9. CASE SyncEnds \/ Probed \/ CommandFails \/ LoopStops
  <2>1. UNCHANGED <<upload, bits, flash, done>> /\ pc' \notin {"off", "program", "programming"}
    BY <1>9 DEF SyncEnds, Probed, CommandFails, LoopStops, session
  <2> QED
    BY <2>1, SameUpload DEF NoGarbage, ProgramInv, DoneInv, CleanInv
<1>10. CASE RxTimeout \/ UNCHANGED vars
  <2>1. /\ UNCHANGED <<pc, upload, sent, bits, todo, flash, done>>
        /\ ~error' => ~error
    BY <1>10 DEF RxTimeout, vars, session, command
  <2>2. Chunk' = Chunk /\ AreasOf(Chunk)' = AreasOf(Chunk) /\ Bytes(Chunk)' = Bytes(Chunk)
    BY <2>1 DEF Chunk, AreasOf, Bytes
  <2>3. ChunkMarked => ChunkMarked'
    BY <2>1, <2>2 DEF ChunkMarked
  <2>4. NoGarbage' /\ DoneInv' /\ CleanInv'
    BY <2>1, SameUpload DEF NoGarbage, DoneInv, CleanInv
  <2> QED
    BY <2>1, <2>2, <2>3, <2>4, SameUpload DEF ProgramInv
<1> QED
  BY <1>3, <1>4, <1>5, <1>6, <1>7, <1>8, <1>9, <1>10 DEF Next

\* No byte is programmed over what was not erased, in the sectors that have a
\* bit for themselves, whatever happens in the others.
THEOREM NothingIsGarbage == Spec => []NoGarbage
<1>1. IInv => NoGarbage
  BY DEF IInv
<1> QED
  BY <1>1, IInvInit, IInvStep, PTL DEF Spec

-----------------------------------------------------------------------------
(* The abstract target *)

\* What the target has in flight: one chunk while it programs.
LEMMA InFlightChunk ==
  ASSUME TypeInv
  PROVE  /\ pc \notin {"program", "programming"} => InFlight = {}
         /\ pc \in {"program", "programming"} =>
              InFlight = Bytes(Chunk) /\ InFlight # {} /\ InFlight \subseteq Addr
  BY ChunkType DEF InFlight, TypeInv, Started, Running

\* The chunks of a straight upload: the next one, and those that are done.
LEMMA ChunkSound ==
  ASSUME TypeInv, Straight, sent < Len(upload), NEW a \in Bytes(Chunk)
  PROVE  Sound(a)
  BY ChunkType DEF Straight, Chunk

LEMMA AllMapped == ASSUME Straight PROVE \A a : Mapped(a)
<1>1. SUFFICES ASSUME NEW a, NEW n \in DOMAIN upload, a \in Bytes(upload[n])
               PROVE  AreasOf(upload[n]) # {}
  BY DEF Mapped
<1>2. Mapped(a)
  BY <1>1 DEF Straight, Sound
<1> QED
  BY <1>1, <1>2 DEF Mapped

\* Each step is one of the abstract target, or none.
LEMMA TargetStep ==
  ASSUME IInv, TypeInv', [Next]_vars, Straight
  PROVE  [Target!Next]_(Target!vars)
<1>1. /\ flash \in [Addr -> {Old, Blank, Garbage} \cup Addr] /\ done \subseteq Addr
      /\ TypeInv
  BY DEF IInv, TypeInv, TypeOK
<1>2. /\ pc \notin {"program", "programming"} => InFlight = {}
      /\ pc' \notin {"program", "programming"} => InFlight' = {}
  BY DEF InFlight
<1>3. CASE Reset \/ SyncEnds \/ Probed \/ EraseDone
  <2>1. InFlight = {} /\ InFlight' = {} /\ UNCHANGED <<flash, done>>
    BY <1>2, <1>3 DEF Reset, SyncEnds, Probed, EraseDone
  <2> QED
    BY <2>1 DEF Target!vars
<1>4. CASE Offer
  <2>1. InFlight = {} /\ UNCHANGED <<flash, done, upload, sent>>
    BY <1>2, <1>4 DEF Offer, session
  <2>2. CASE pc' \in {"program", "programming"}
    <3>1. InFlight' = Bytes(Chunk) /\ Bytes(Chunk) # {} /\ Bytes(Chunk) \subseteq Addr
      <4>1. sent < Len(upload)
        BY <1>4 DEF Offer
      <4>2. InFlight' = Bytes(Chunk)
        BY <2>1, <2>2 DEF InFlight, Chunk, Bytes
      <4> QED
        BY <1>1, <4>1, <4>2, ChunkType
    <3> QED
      BY <2>1, <3>1 DEF Target!Next, Target!Take
  <2>3. CASE pc' \notin {"program", "programming"}
    BY <1>2, <2>1, <2>3 DEF Target!vars
  <2> QED
    BY <2>2, <2>3
<1>5. CASE CommandSent \/ RxTimeout \/ UNCHANGED vars
  <2>1. /\ UNCHANGED <<flash, done, upload, sent>>
        /\ pc \in {"program", "programming"} <=> pc' \in {"program", "programming"}
    BY <1>5 DEF CommandSent, RxTimeout, vars, session
  <2>2. InFlight' = InFlight
    BY <2>1 DEF InFlight, Chunk, Bytes
  <2> QED
    BY <2>1, <2>2 DEF Target!vars
<1>6. CASE DeviceErases
  <2>1. /\ \A a \in Addr : flash'[a] # flash[a] =>
             flash'[a] = Blank /\ ~(a \in done /\ Mapped(a))
        /\ DOMAIN flash' = Addr /\ pc = "erasing" /\ UNCHANGED <<pc, done>>
    BY <1>6, Erases
  <2>2. \A a \in done : Mapped(a)
    BY AllMapped
  <2>3. \A a \in Addr : flash'[a] # flash[a] => a \in Addr \ done /\ flash'[a] = Blank
    BY <2>1, <2>2
  <2>4. InFlight = {} /\ InFlight' = {}
    BY <1>2, <2>1
  <2> QED
    BY <2>1, <2>3, <2>4 DEF Target!Next, Target!Erase, Target!Changed
<1>7. CASE DevicePrograms
  <2>1. PICK a \in todo \cap Addr :
          /\ flash' = [flash EXCEPT ![a] = Programmed(a)]
          /\ a \in Bytes(Chunk) /\ sent < Len(upload) /\ pc = "programming"
          /\ Sound(a) => flash'[a] = a
          /\ UNCHANGED <<pc, upload, sent, bits, done>>
    BY <1>7, Programs
  <2>2. Sound(a)
    BY <1>1, <2>1, ChunkSound
  <2>3. InFlight = Bytes(Chunk) /\ InFlight' = InFlight
    BY <2>1 DEF InFlight, Chunk, Bytes
  <2>4. DOMAIN flash' = Addr
    BY <1>1, <2>1
  <2>5. \A b \in Addr : flash'[b] # flash[b] => b \in InFlight /\ flash'[b] = b
    BY <1>1, <2>1, <2>2, <2>3
  <2> QED
    BY <2>1, <2>3, <2>4, <2>5 DEF Target!Next, Target!Write, Target!Changed
<1>8. CASE ChunkDone
  <2>1. /\ pc = "programming" /\ todo = {} /\ pc' \in {"over", "ready"}
        /\ done' = done \cup Bytes(Chunk) /\ flash' = flash
    BY <1>8 DEF ChunkDone
  <2>2. \A a \in Bytes(Chunk) : flash[a] = a
    <3>1. \A a \in Bytes(Chunk) : Sound(a)
      BY <1>1, <2>1, ChunkSound DEF TypeInv, Running
    <3> QED
      BY <2>1, <3>1 DEF IInv, ProgramInv
  <2>3. InFlight = Bytes(Chunk) /\ InFlight # {} /\ InFlight' = {}
    BY <1>1, <1>2, <2>1, InFlightChunk
  <2> QED
    BY <2>1, <2>2, <2>3 DEF Target!Next, Target!Done
<1>9. CASE CommandFails \/ LoopStops
  <2>1. UNCHANGED <<flash, done>> /\ InFlight' = {}
    BY <1>2, <1>9 DEF CommandFails, LoopStops
  <2> QED
    BY <2>1 DEF Target!Next, Target!Fail
<1>10. CASE Fini
  <2>1. /\ done' = {} /\ InFlight' = {}
        /\ flash' = [a \in Addr |-> IF flash[a] = Blank THEN Blank ELSE Old]
    BY <1>2, <1>10 DEF Fini
  <2> QED
    BY <2>1 DEF Target!Next, Target!Restart
<1> QED
  BY <1>3, <1>4, <1>5, <1>6, <1>7, <1>8, <1>9, <1>10 DEF Next

\* The STM32 target does what the binary file layer expects of a target, when
\* the chunks of the upload lie each in an area, in sectors that have a bit for
\* themselves.
THEOREM IsAFlashTarget == Spec => ImplementsFlashTarget
<1>1. Init => Target!Init
  <2> SUFFICES ASSUME Init  PROVE  Target!Init
    OBVIOUS
  <2>1. InFlight = {} /\ done = {} /\ flash \in [Addr -> {Old, Blank}]
    BY DEF Init, InFlight
  <2> QED
    BY <2>1 DEF Target!Init
<1>2. IInv /\ IInv' /\ [Next]_vars => [Straight => Target!Next]_(Target!vars)
  BY TargetStep DEF IInv
<1>3. IInv /\ [Next]_vars => IInv'
  BY IInvStep
<1> QED
  BY <1>1, <1>2, <1>3, IInvInit, PTL DEF Spec, ImplementsFlashTarget
=============================================================================
