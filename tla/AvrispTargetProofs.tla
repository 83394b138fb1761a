------------------------ MODULE AvrispTargetProofs ------------------------
(***************************************************************************)
(* The AVR ISP target programs each byte at its own address, through the   *)
(* page buffer of the device, for every size of pages and chunks.          *)
(***************************************************************************)
EXTENDS AvrispTarget, TLAPS

\* No address is twice in an upload.
ChunksDiffer ==
  \A u \in Uploads : \A i, j \in DOMAIN u :
    Bytes(u[i]) \cap Bytes(u[j]) # {} => i = j

Before == {"off", "reset", "sync", "erase"}

\* Where in an upload the target is.
PhaseInv ==
  /\ pc \in Before => sent = 0 /\ done = {} /\ ~error
  /\ pc \in Loading \cup {"ready"} => sent < Len(upload)
  /\ pc = "load" => curr_written < Chunk.len
  /\ writing # NoPage =>
       /\ pc \in {"poll", "refused"} \/ (pc = "over" /\ error)
       /\ sent < Len(upload) /\ writing = PageOf(Chunk)

\* What was sent and reported is not sent again.
SentInv ==
  \A j \in 1 .. Len(upload) : j > sent => Bytes(upload[j]) \cap done = {}

\* The bytes in the page buffer are in their places, and the first n of the
\* chunk are there.
Placed ==
  \A i \in 0 .. PageSize - 1 :
    page_buf[i] # Blank => page_buf[i] \in Bytes(Chunk) /\ page_buf[i] % PageSize = i

LoadedTo(n) ==
  \A k \in 0 .. n - 1 : page_buf[(Chunk.addr + k) % PageSize] = Chunk.addr + k

BufferInv ==
  /\ pc \in {"sync", "erase", "ready"} => page_buf = Empty
  /\ pc = "load" => Placed /\ LoadedTo(curr_written)
  /\ pc = "write" \/ writing # NoPage => Placed /\ LoadedTo(Chunk.len)

\* What is not erased was reported, or belongs to the chunk, which is all in
\* flash once the device is done with it.
FlashInv ==
  /\ pc \in {"ready", "load", "write"} => \A a \in Addr \ done : flash[a] = Blank
  /\ writing # NoPage => \A a \in Bytes(Chunk) : flash[a] = Blank
  /\ pc = "poll" => \A a \in Addr \ (done \cup Bytes(Chunk)) : flash[a] = Blank
  /\ pc = "poll" /\ writing = NoPage =>
       page_buf = Empty /\ \A a \in Bytes(Chunk) : flash[a] = a

IInv == TypeOK /\ PhaseInv /\ SentInv /\ BufferInv /\ FlashInv

-----------------------------------------------------------------------------
(* Pages *)

\* Quotient and remainder are determined by the division.
LEMMA Division ==
  ASSUME NEW n \in Nat \ {0}, NEW q \in Nat, NEW r \in 0 .. n - 1
  PROVE  (n * q + r) \div n = q /\ (n * q + r) % n = r
<1> DEFINE x == n * q + r
           d == x \div n
<1>1. x \in Nat
  OBVIOUS
<1> HIDE DEF x
<1>2. x = n * d + (x % n) /\ x % n \in 0 .. n - 1 /\ d \in Int
  BY <1>1
<1> HIDE DEF d
<1>3. n * d + (x % n) = n * q + r
  BY <1>2 DEF x
<1>4. ~(d < q)
  <2> SUFFICES ASSUME d + 1 <= q PROVE FALSE
    BY <1>2
  <2>1. n * (d + 1) <= n * q
    BY <1>2
  <2> QED
    BY <1>2, <1>3, <2>1
<1>5. ~(q < d)
  <2> SUFFICES ASSUME q + 1 <= d PROVE FALSE
    BY <1>2
  <2>1. n * (q + 1) <= n * d
    BY <1>2
  <2> QED
    BY <1>2, <1>3, <2>1
<1>6. d = q
  BY <1>2, <1>4, <1>5
<1> QED
  BY <1>2, <1>3, <1>6 DEF x, d

\* Quotient and remainder of a number.
LEMMA Divided ==
  ASSUME NEW n \in Nat \ {0}, NEW x \in Nat
  PROVE  /\ x = n * (x \div n) + (x % n)
         /\ x \div n \in Nat /\ x % n \in 0 .. n - 1
<1>1. x = n * (x \div n) + (x % n) /\ x % n \in 0 .. n - 1 /\ x \div n \in Int
  OBVIOUS
<1>2. ASSUME NEW q \in Int, NEW r \in 0 .. n - 1, x = n * q + r
      PROVE  q >= 0
  <2>1. SUFFICES ASSUME q <= -1  PROVE FALSE
    OBVIOUS
  <2>2. n * q <= -n
    BY <2>1
  <2> QED
    BY <1>2, <2>2
<1> QED
  BY <1>1, <1>2

\* A chunk that begins at a multiple of its size lies in one page.
LEMMA InOnePage ==
  ASSUME NEW C \in Nat \ {0}, NEW P \in Nat \ {0}, P % C = 0,
         NEW a \in Nat, a % C = 0, NEW k \in 0 .. C - 1
  PROVE  (a + k) \div P = a \div P
<1> DEFINE m == a \div C
           t == P \div C
           q == m \div t
           s == m % t
<1>1. a = C * m /\ m \in Nat
  BY Divided
<1>2. P = C * t /\ t \in Nat
  BY Divided
<1>3. t \in Nat \ {0}
  BY <1>2
<1> HIDE DEF m, t
<1>4. m = t * q + s /\ q \in Nat /\ s \in 0 .. t - 1
  BY <1>1, <1>3, Divided
<1> HIDE DEF q, s
<1>5. a = P * q + C * s
  <2>1. C * (t * q + s) = (C * t) * q + C * s
    BY <1>2, <1>4
  <2> QED
    BY <1>1, <1>2, <1>4, <2>1
<1>6. C * s \in Nat /\ C * s + k <= P - 1
  <2>1. C * (s + 1) <= C * t
    BY <1>3, <1>4
  <2>2. C * (s + 1) = C * s + C
    BY <1>4
  <2>3. C * s \in Nat
    BY <1>4
  <2> QED
    BY <1>2, <2>1, <2>2, <2>3
<1>7. C * s \in 0 .. P - 1 /\ C * s + k \in 0 .. P - 1
  BY <1>6
<1>8. (P * q + C * s) \div P = q /\ (P * q + (C * s + k)) \div P = q
  BY <1>4, <1>7, Division
<1>9. P * q + (C * s + k) = a + k
  BY <1>4, <1>5, <1>6
<1> QED
  BY <1>5, <1>8, <1>9

\* The byte of a word in the page: its place in the page is that of its address.
LEMMA PlaceInPage ==
  ASSUME NEW P \in Nat \ {0}, P % 2 = 0, NEW a \in Nat
  PROVE  2 * ((a \div 2) % (P \div 2)) + (a % 2) = a % P
<1> DEFINE H == P \div 2
           w == a \div 2
           b == a % 2
           q == w \div H
           x == w % H
<1>1. P = 2 * H /\ H \in Nat \ {0}
  OBVIOUS
<1>2. a = 2 * w + b /\ w \in Nat /\ b \in 0 .. 1
  OBVIOUS
<1> HIDE DEF H, w, b
<1>3. w = H * q + x /\ q \in Nat /\ x \in 0 .. H - 1
  BY <1>1, <1>2, Divided
<1> HIDE DEF q, x
<1>4. a = P * q + (2 * x + b)
  <2>1. 2 * (H * q + x) = (2 * H) * q + 2 * x
    BY <1>1, <1>3
  <2> QED
    BY <1>1, <1>2, <1>3, <2>1
<1>5. 2 * x + b \in 0 .. P - 1
  BY <1>1, <1>2, <1>3
<1>6. a % P = 2 * x + b
  BY <1>3, <1>4, <1>5, Division
<1> QED
  BY <1>6 DEF H, w, b, x

\* Two numbers of the same page and place are one.
LEMMA SamePlace ==
  ASSUME NEW n \in Nat \ {0}, NEW a \in Nat, NEW b \in Nat,
         a % n = b % n, a \div n = b \div n
  PROVE  a = b
BY Divided

\* An even number does not change the parity of what is added to it.
LEMMA Parity ==
  ASSUME NEW c \in Nat \ {0}, c % 2 = 0, NEW a \in Nat, a % c = 0, NEW k \in Nat
  PROVE  (a + k) % 2 = k % 2
<1> DEFINE m == a \div c
           h == c \div 2
           q == k \div 2
           r == k % 2
<1>1. a = c * m /\ m \in Nat
  BY Divided
<1>2. c = 2 * h /\ h \in Nat
  OBVIOUS
<1>3. k = 2 * q + r /\ q \in Nat /\ r \in 0 .. 1
  OBVIOUS
<1> HIDE DEF m, h, q, r
<1>4. a = 2 * (h * m) /\ h * m \in Nat
  BY <1>1, <1>2
<1>5. a + k = 2 * (h * m + q) + r /\ h * m + q \in Nat
  BY <1>3, <1>4
<1>6. (2 * (h * m + q) + r) % 2 = r
  BY <1>3, <1>5, Division
<1> QED
  BY <1>5, <1>6 DEF r

-----------------------------------------------------------------------------
(* Chunks *)

\* The constants.
LEMMA Sizes ==
  /\ PageSize \in Nat \ {0} /\ PageSize % 2 = 0
  /\ ChunkSize \in Nat \ {0} /\ PageSize % ChunkSize = 0 /\ ChunkSize % 2 = 0
  /\ MaxUploads \in Nat /\ MaxSync \in Nat \ {0}
  /\ Addr \subseteq Nat /\ Old \notin Addr /\ Blank \notin Addr
BY ConstantsOK

\* What a chunk is.
LEMMA ChunkFacts ==
  ASSUME NEW u \in Uploads, NEW i \in 1 .. Len(u)
  PROVE  /\ u[i].addr \in Nat /\ u[i].addr % ChunkSize = 0
         /\ u[i].len \in 1 .. ChunkSize /\ i \in DOMAIN u
         /\ Bytes(u[i]) \subseteq Addr /\ Bytes(u[i]) # {}
<1> DEFINE Chunks == [addr : Nat, len : 1 .. ChunkSize]
<1>1. u \in Seq(Chunks)
  BY ConstantsOK
<1>2. i \in DOMAIN u /\ u[i] \in Chunks
  <2> HIDE DEF Chunks
  <2> QED
    BY <1>1
<1>3. u[i].addr % ChunkSize = 0 /\ Bytes(u[i]) \subseteq Addr
  BY <1>2, ChunksAligned
<1>4. u[i].addr \in Nat /\ u[i].len \in 1 .. ChunkSize
  BY <1>2
<1>5. u[i].addr \in Bytes(u[i])
  <2>1. u[i].len >= 1
    BY <1>4, Sizes
  <2> QED
    BY <1>4, <2>1, Sizes DEF Bytes
<1> QED
  BY <1>2, <1>3, <1>4, <1>5

\* The chunk in flight.
LEMMA CurrentChunk ==
  ASSUME TypeOK, sent < Len(upload)
  PROVE  /\ Chunk.addr \in Nat /\ Chunk.addr % ChunkSize = 0
         /\ Chunk.len \in 1 .. ChunkSize
         /\ sent + 1 \in 1 .. Len(upload) /\ sent + 1 \in DOMAIN upload
         /\ Bytes(Chunk) \subseteq Addr /\ Bytes(Chunk) # {}
<1>1. upload \in Seq([addr : Nat, len : 1 .. ChunkSize]) /\ sent \in 0 .. Len(upload)
  BY ConstantsOK DEF TypeOK
<1>2. upload \in Uploads /\ sent + 1 \in 1 .. Len(upload) /\ sent + 1 \in DOMAIN upload
  BY <1>1 DEF TypeOK
<1> QED
  BY <1>2, ChunkFacts DEF Chunk

\* A byte of the chunk has a place in the page of the chunk.
LEMMA BytePlace ==
  ASSUME TypeOK, sent < Len(upload), NEW k \in 0 .. Chunk.len - 1
  PROVE  /\ Chunk.addr + k \in Bytes(Chunk) /\ Chunk.addr + k \in Addr
         /\ Chunk.addr + k \in Nat
         /\ (Chunk.addr + k) \div PageSize = PageOf(Chunk)
         /\ (Chunk.addr + k) % PageSize \in 0 .. PageSize - 1
<1>1. /\ Chunk.addr \in Nat /\ Chunk.addr % ChunkSize = 0
      /\ Chunk.len \in 1 .. ChunkSize /\ Bytes(Chunk) \subseteq Addr
  BY CurrentChunk
<1> DEFINE at == Chunk.addr
<1>2. at + k \in Bytes(Chunk) /\ at + k \in Nat /\ k \in 0 .. ChunkSize - 1
  BY <1>1, Sizes DEF Bytes
<1>3. (at + k) \div PageSize = at \div PageSize
  <2> HIDE DEF at
  <2>1. at \in Nat /\ at % ChunkSize = 0
    BY <1>1 DEF at
  <2> QED
    BY <1>2, <2>1, Sizes, InOnePage
<1>4. (at + k) % PageSize \in 0 .. PageSize - 1
  BY <1>2, Sizes, Divided
<1> QED
  BY <1>1, <1>2, <1>3, <1>4 DEF PageOf

\* The bytes of the chunk, by their offset.
LEMMA ByteOffset ==
  ASSUME TypeOK, sent < Len(upload), NEW a \in Bytes(Chunk)
  PROVE  \E k \in 0 .. Chunk.len - 1 : a = Chunk.addr + k
<1>1. Chunk.addr \in Nat /\ Chunk.len \in 1 .. ChunkSize
  BY CurrentChunk
<1>2. a - Chunk.addr \in 0 .. Chunk.len - 1 /\ a = Chunk.addr + (a - Chunk.addr)
  BY <1>1, Sizes DEF Bytes
<1> QED
  BY <1>2

\* A byte is loaded in its place.
LEMMA LoadedIs ==
  ASSUME TypeOK, PhaseInv, pc = "load"
  PROVE  /\ sent < Len(upload) /\ curr_written \in 0 .. Chunk.len - 1
         /\ LoadedBuffer = [page_buf EXCEPT
              ![(Chunk.addr + curr_written) % PageSize] = Chunk.addr + curr_written]
<1>1. sent < Len(upload) /\ curr_written < Chunk.len
  BY DEF PhaseInv, Loading
<1>2. /\ Chunk.addr \in Nat /\ Chunk.addr % ChunkSize = 0
      /\ Chunk.len \in 1 .. ChunkSize /\ curr_written \in 0 .. ChunkSize
  BY <1>1, CurrentChunk DEF TypeOK
<1>3. curr_written \in 0 .. Chunk.len - 1 /\ curr_written \in Nat
  BY <1>1, <1>2, Sizes
<1> DEFINE at == Chunk.addr
           a == at + curr_written
<1>4. a % 2 = curr_written % 2
  <2> HIDE DEF at
  <2>1. at \in Nat /\ at % ChunkSize = 0
    BY <1>2 DEF at
  <2> QED
    BY <1>3, <2>1, Sizes, Parity
<1>5. 2 * ((a \div 2) % (PageSize \div 2)) + (a % 2) = a % PageSize
  <2>1. a \in Nat
    BY <1>2, <1>3
  <2> HIDE DEF a
  <2> QED
    BY <2>1, Sizes, PlaceInPage
<1>6. 2 * ((a \div 2) % (PageSize \div 2)) + (curr_written % 2) = a % PageSize
  BY <1>4, <1>5
<1>7. LoadedBuffer = [page_buf EXCEPT ![a % PageSize] = a]
  BY <1>6, Zenon DEF LoadedBuffer
<1> QED
  BY <1>1, <1>3, <1>7

-----------------------------------------------------------------------------
(* Types and phases *)

TypeInv == TypeOK /\ PhaseInv

LEMMA TypeInit == Init => TypeInv
<1> SUFFICES ASSUME Init  PROVE TypeInv
  OBVIOUS
<1>1. 0 \in 0 .. MaxSync /\ 0 \in 0 .. MaxUploads /\ 0 \in 0 .. ChunkSize
  BY Sizes
<1>2. sent \in 0 .. Len(upload)
  <2>1. upload \in Uploads /\ sent = 0
    BY DEF Init
  <2>2. upload \in Seq([addr : Nat, len : 1 .. ChunkSize])
    BY <2>1, ConstantsOK
  <2> QED
    BY <2>1, <2>2
<1>3. page_buf \in [0 .. PageSize - 1 -> Addr \cup {Blank}]
  BY DEF Init, Empty
<1>4. flash \in [Addr -> Addr \cup {Old, Blank, Garbage}]
  BY DEF Init
<1>5. TypeOK
  BY <1>1, <1>2, <1>3, <1>4 DEF Init, TypeOK
<1> QED
  BY <1>5 DEF Init, TypeInv, PhaseInv, Loading

\* A chunk does not change with what is not part of the session.
LEMMA SameChunk ==
  ASSUME UNCHANGED <<upload, sent>>
  PROVE  Chunk' = Chunk
BY DEF Chunk

\* The length of an upload.
LEMMA UploadLength ==
  ASSUME NEW u \in Uploads  PROVE Len(u) \in Nat \ {0}
<1>1. u \in Seq([addr : Nat, len : 1 .. ChunkSize]) /\ u # <<>>
  BY ConstantsOK
<1> QED
  BY <1>1

LEMMA TypeStep == TypeInv /\ [Next]_vars => TypeInv'
<1> SUFFICES ASSUME TypeInv, [Next]_vars  PROVE TypeInv'
  OBVIOUS
<1> USE DEF TypeInv
<1>0. sent \in 0 .. Len(upload) /\ Len(upload) \in Nat \ {0} /\ sent \in Nat
  BY UploadLength DEF TypeOK
<1>1. CASE Start
  <2>1. /\ pc = "off" /\ pc' = "reset" /\ attempts' = 1 /\ uploads < MaxUploads
        /\ uploads' = uploads + 1 /\ upload' \in Uploads
        /\ UNCHANGED <<curr_written, stale, sent, done, error, page_buf, writing, flash>>
    BY <1>1 DEF Start, device
  <2>2. sent = 0 /\ done = {} /\ ~error /\ writing = NoPage
    BY <2>1 DEF PhaseInv, Before
  <2>3. sent' \in 0 .. Len(upload')
    BY <2>1, <2>2, UploadLength
  <2>4. attempts' \in 0 .. MaxSync /\ uploads' \in 0 .. MaxUploads
    BY <2>1, Sizes DEF TypeOK
  <2>5. TypeOK'
    BY <2>1, <2>3, <2>4 DEF TypeOK
  <2>6. PhaseInv'
    BY <2>1, <2>2 DEF PhaseInv, Before, Loading
  <2> QED
    BY <2>5, <2>6
<1>2. CASE TargetReset
  <2>1. page_buf' \in [0 .. PageSize - 1 -> Addr \cup {Blank}]
    BY <1>2 DEF TargetReset, Empty, TypeOK
  <2>2. TypeOK'
    BY <1>2, <2>1 DEF TargetReset, TypeOK, session
  <2>3. PhaseInv'
    BY <1>2 DEF TargetReset, PhaseInv, session, Before, Loading
  <2> QED
    BY <2>2, <2>3
<1>3. CASE Synced \/ SyncFails
  <2>1. /\ pc = "sync" /\ pc' \in {"erase", "reset", "over"}
        /\ attempts' \in 0 .. MaxSync /\ stale' \in BOOLEAN
        /\ UNCHANGED <<curr_written, upload, sent, uploads, done, error,
                       page_buf, writing, flash>>
    <3>1. CASE Synced
      BY <3>1 DEF Synced, session, device, TypeOK
    <3>2. CASE SyncFails
      BY <3>2, Sizes DEF SyncFails, NextAttempt, session, device, TypeOK
    <3> QED
      BY <1>3, <3>1, <3>2
  <2> QED
    BY <2>1 DEF TypeOK, PhaseInv, Before, Loading
<1>4. CASE EraseAll
  <2>1. flash' \in [Addr -> Addr \cup {Old, Blank, Garbage}]
    BY <1>4 DEF EraseAll, Erased, TypeOK
  <2>2. TypeOK'
    BY <1>4, <2>1 DEF EraseAll, TypeOK, session
  <2>3. PhaseInv'
    BY <1>0, <1>4 DEF EraseAll, PhaseInv, session, Before, Loading
  <2> QED
    BY <2>2, <2>3
<1>5. CASE Offer
  <2>1. /\ pc = "ready" /\ pc' = "load" /\ curr_written' = 0 /\ sent < Len(upload)
        /\ UNCHANGED <<attempts, stale, upload, sent, uploads, done, error,
                       page_buf, writing, flash>>
    BY <1>5 DEF Offer, session, device
  <2>2. Chunk' = Chunk /\ 0 < Chunk.len /\ 0 \in 0 .. ChunkSize
    BY <2>1, SameChunk, CurrentChunk, Sizes
  <2>3. TypeOK'
    BY <2>1, <2>2 DEF TypeOK, Loading
  <2>4. PhaseInv'
    BY <2>1, <2>2 DEF PhaseInv, Before, Loading
  <2> QED
    BY <2>3, <2>4
<1>6. CASE LoadByte
  <2>1. /\ pc = "load" /\ page_buf' = LoadedBuffer /\ curr_written' = curr_written + 1
        /\ pc' = IF curr_written' >= Chunk.len THEN "write" ELSE "load"
        /\ UNCHANGED <<attempts, stale, upload, sent, uploads, done, error, writing, flash>>
    BY <1>6 DEF LoadByte, session
  <2>2. sent < Len(upload) /\ curr_written \in 0 .. Chunk.len - 1
    BY <2>1, LoadedIs
  <2>3. Chunk' = Chunk /\ Chunk.len \in 1 .. ChunkSize
    BY <2>1, <2>2, SameChunk, CurrentChunk
  <2>4. curr_written' \in 0 .. ChunkSize /\ (pc' = "load" => curr_written' < Chunk'.len)
    BY <2>1, <2>2, <2>3, Sizes
  <2>5. page_buf' \in [0 .. PageSize - 1 -> Addr \cup {Blank}]
    BY <2>1, <2>2, LoadedIs, BytePlace DEF TypeOK
  <2>6. TypeOK'
    BY <2>1, <2>4, <2>5 DEF TypeOK, Loading
  <2>7. PhaseInv'
    BY <2>1, <2>2, <2>3, <2>4 DEF PhaseInv, Before, Loading
  <2> QED
    BY <2>6, <2>7
<1>7. CASE LoadFails
  <2>1. /\ pc = "load" /\ page_buf' \in {page_buf, LoadedBuffer} /\ pc' \in {"over", "refused"}
        /\ UNCHANGED <<attempts, curr_written, stale, upload, sent, uploads, done, error,
                       writing, flash>>
    BY <1>7 DEF LoadFails, session
  <2>2. page_buf' \in [0 .. PageSize - 1 -> Addr \cup {Blank}]
    BY <2>1, LoadedIs, BytePlace DEF TypeOK
  <2>3. TypeOK'
    BY <2>1, <2>2 DEF TypeOK, Loading
  <2>4. PhaseInv'
    BY <2>1 DEF PhaseInv, Before, Loading
  <2> QED
    BY <2>3, <2>4
<1>8. CASE WritePage
  <2>1. /\ pc = "write" /\ pc' \in {"poll", "refused"} /\ writing' \in {NoPage, PageOf(Chunk)}
        /\ UNCHANGED <<attempts, curr_written, stale, upload, sent, uploads, done, error,
                       page_buf, flash>>
    BY <1>8 DEF WritePage, session
  <2>2. sent < Len(upload)
    BY <2>1 DEF PhaseInv, Loading
  <2>3. Chunk' = Chunk /\ PageOf(Chunk) \in Nat
    BY <2>1, <2>2, SameChunk, CurrentChunk, Sizes, Divided DEF PageOf
  <2>4. TypeOK'
    BY <2>1, <2>3 DEF TypeOK, Loading
  <2>5. PhaseInv'
    BY <2>1, <2>2, <2>3 DEF PhaseInv, Before, Loading, PageOf
  <2> QED
    BY <2>4, <2>5
<1>9. CASE DeviceWrites
  <2>1. /\ writing' = NoPage /\ page_buf' = Empty
        /\ UNCHANGED <<pc, attempts, curr_written, stale, upload, sent, uploads, done, error>>
        /\ flash' = [a \in Addr |->
             LET b == page_buf[a % PageSize]
             IN  IF a \div PageSize # writing \/ b = Blank THEN flash[a]
                 ELSE IF flash[a] = Blank THEN b ELSE Garbage]
    BY <1>9 DEF DeviceWrites, session
  <2>2. page_buf' \in [0 .. PageSize - 1 -> Addr \cup {Blank}]
    BY <2>1 DEF Empty
  <2>3. ASSUME NEW a \in Addr  PROVE page_buf[a % PageSize] \in Addr \cup {Blank}
    BY Sizes, Divided DEF TypeOK
  <2>4. flash' \in [Addr -> Addr \cup {Old, Blank, Garbage}]
    BY <2>1, <2>3 DEF TypeOK
  <2>5. TypeOK'
    BY <2>1, <2>2, <2>4 DEF TypeOK
  <2>6. PhaseInv'
    BY <2>1, SameChunk DEF PhaseInv
  <2> QED
    BY <2>5, <2>6
<1>10. CASE PageWritten
  <2>1. /\ pc = "poll" /\ writing = NoPage /\ sent' = sent + 1 /\ done' = done \cup Bytes(Chunk)
        /\ pc' = IF sent + 1 = Len(upload) THEN "over" ELSE "ready"
        /\ UNCHANGED <<attempts, curr_written, stale, upload, uploads, error,
                       page_buf, writing, flash>>
    BY <1>10 DEF PageWritten, device
  <2>2. sent < Len(upload)
    BY <2>1 DEF PhaseInv, Loading
  <2>3. Bytes(Chunk) \subseteq Addr
    BY <2>2, CurrentChunk
  <2>4. sent' \in 0 .. Len(upload') /\ (pc' = "ready" => sent' < Len(upload'))
    BY <1>0, <2>1, <2>2
  <2>5. TypeOK'
    BY <2>1, <2>3, <2>4 DEF TypeOK
  <2>6. PhaseInv'
    BY <2>1, <2>4 DEF PhaseInv, Before, Loading
  <2> QED
    BY <2>5, <2>6
<1>11. CASE PollFails \/ StaleTimer
  <2>1. /\ pc \in {"ready", "load", "poll", "refused"}
        /\ pc' = pc \/ (pc = "poll" /\ pc' = "refused")
        /\ stale' \in BOOLEAN
        /\ UNCHANGED <<attempts, curr_written, upload, sent, uploads, done, error,
                       page_buf, writing, flash>>
    BY <1>11 DEF PollFails, StaleTimer, session, device, TypeOK
  <2>2. Chunk' = Chunk
    BY <2>1, SameChunk
  <2>3. TypeOK'
    BY <2>1 DEF TypeOK, Loading
  <2>4. PhaseInv'
    BY <2>1, <2>2 DEF PhaseInv, Before, Loading, PageOf
  <2> QED
    BY <2>3, <2>4
<1>12. CASE RxTimeout \/ LoopStops
  <2>1. /\ pc \notin Before /\ error' = TRUE
        /\ pc' = pc \/ (error /\ pc' = "over")
        /\ UNCHANGED <<attempts, curr_written, stale, upload, sent, uploads, done,
                       page_buf, writing, flash>>
    BY <1>12 DEF RxTimeout, LoopStops, session, device, TypeOK, PhaseInv, Before
  <2>2. Chunk' = Chunk
    BY <2>1, SameChunk
  <2>3. TypeOK'
    BY <2>1 DEF TypeOK
  <2>4. PhaseInv'
    BY <2>1, <2>2 DEF PhaseInv, Before, Loading, PageOf
  <2> QED
    BY <2>3, <2>4
<1>13. CASE Fini
  <2>1. /\ pc' = "off" /\ error' = FALSE /\ sent' = 0 /\ done' = {}
        /\ stale' = FALSE /\ writing' = NoPage
        /\ flash' = [a \in Addr |-> IF flash[a] = Blank THEN Blank ELSE Old]
        /\ UNCHANGED <<attempts, curr_written, upload, uploads, page_buf>>
    BY <1>13 DEF Fini
  <2>2. flash' \in [Addr -> Addr \cup {Old, Blank, Garbage}] /\ sent' \in 0 .. Len(upload')
    BY <1>0, <2>1
  <2>3. TypeOK'
    BY <2>1, <2>2 DEF TypeOK
  <2>4. PhaseInv'
    BY <2>1 DEF PhaseInv, Before, Loading
  <2> QED
    BY <2>3, <2>4
<1>14. CASE UNCHANGED vars
  BY <1>14, SameChunk DEF vars, session, device, TypeOK, PhaseInv, PageOf
<1> QED
  BY <1>1, <1>2, <1>3, <1>4, <1>5, <1>6, <1>7, <1>8, <1>9, <1>10, <1>11, <1>12,
     <1>13, <1>14 DEF Next

\* Every variable has its type, whatever fails.
THEOREM TypeCorrect == Spec => []TypeOK
<1>1. TypeInv => TypeOK
  BY DEF TypeInv
<1> QED
  BY <1>1, TypeInit, TypeStep, PTL DEF Spec

-----------------------------------------------------------------------------
(* Chunks that were sent *)

LEMMA SentStep ==
  ASSUME ChunksDiffer, TypeInv, SentInv, [Next]_vars
  PROVE  SentInv'
<1> USE DEF TypeInv
<1>0. sent \in 0 .. Len(upload) /\ Len(upload) \in Nat \ {0} /\ sent \in Nat
  BY UploadLength DEF TypeOK
<1>1. ASSUME done' = {}  PROVE SentInv'
  BY <1>1 DEF SentInv
<1>2. ASSUME UNCHANGED <<upload, sent, done>>  PROVE SentInv'
  BY <1>2 DEF SentInv
<1>3. CASE Start \/ Fini
  <2>1. CASE Start
    <3>1. done = {} /\ done' = done
      BY <2>1 DEF Start, PhaseInv, Before
    <3> QED
      BY <1>1, <3>1
  <2>2. CASE Fini
    BY <1>1, <2>2 DEF Fini
  <2> QED
    BY <1>3, <2>1, <2>2
<1>4. CASE PageWritten
  <2>1. /\ pc = "poll" /\ sent' = sent + 1 /\ done' = done \cup Bytes(Chunk)
        /\ upload' = upload
    BY <1>4 DEF PageWritten, device
  <2>2. sent < Len(upload) /\ upload \in Uploads
    BY <2>1 DEF PhaseInv, Loading, TypeOK
  <2>3. sent + 1 \in DOMAIN upload /\ Chunk = upload[sent + 1]
    BY <2>2, CurrentChunk DEF Chunk
  <2>4. ASSUME NEW j \in 1 .. Len(upload), j > sent + 1
        PROVE  Bytes(upload[j]) \cap done' = {}
    <3>1. Bytes(upload[j]) \cap done = {}
      BY <1>0, <2>4 DEF SentInv
    <3>2. j \in DOMAIN upload /\ j # sent + 1
      BY <1>0, <2>2, <2>4, ChunkFacts
    <3>3. Bytes(upload[j]) \cap Bytes(Chunk) = {}
      BY <2>2, <2>3, <3>2 DEF ChunksDiffer
    <3> QED
      BY <2>1, <3>1, <3>3
  <2> QED
    BY <2>1, <2>4 DEF SentInv
<1>5. CASE \/ TargetReset \/ Synced \/ SyncFails \/ EraseAll \/ Offer
           \/ LoadByte \/ LoadFails \/ WritePage \/ DeviceWrites
  BY <1>2, <1>5 DEF TargetReset, Synced, SyncFails, EraseAll, Offer, LoadByte,
     LoadFails, WritePage, DeviceWrites, session, device
<1>6. CASE PollFails \/ StaleTimer \/ RxTimeout \/ LoopStops \/ UNCHANGED vars
  BY <1>2, <1>6 DEF PollFails, StaleTimer, RxTimeout, LoopStops, vars, session
<1> QED
  BY <1>3, <1>4, <1>5, <1>6 DEF Next

\* What is sent was not reported.
LEMMA ChunkIsNew ==
  ASSUME TypeOK, SentInv, sent < Len(upload)
  PROVE  Bytes(Chunk) \cap done = {} /\ Bytes(Chunk) \subseteq Addr \ done
<1>1. sent + 1 \in 1 .. Len(upload) /\ Bytes(Chunk) \subseteq Addr /\ sent + 1 > sent
  BY CurrentChunk DEF TypeOK
<1>2. Bytes(Chunk) \cap done = {}
  BY <1>1 DEF SentInv, Chunk
<1> QED
  BY <1>1, <1>2

-----------------------------------------------------------------------------
(* The buffer and the flash *)

\* Loading a byte keeps the others, whose places differ.
LEMMA LoadKeeps ==
  ASSUME TypeInv, pc = "load", Placed, LoadedTo(curr_written),
         page_buf' = LoadedBuffer, UNCHANGED <<upload, sent>>
  PROVE  /\ Placed'
         /\ \A k \in 0 .. curr_written :
              page_buf'[(Chunk.addr + k) % PageSize] = Chunk.addr + k
<1> USE DEF TypeInv
<1> DEFINE a == Chunk.addr + curr_written
<1>1. /\ sent < Len(upload) /\ curr_written \in 0 .. Chunk.len - 1
      /\ page_buf' = [page_buf EXCEPT ![a % PageSize] = a]
      /\ Chunk' = Chunk
  BY LoadedIs, SameChunk
<1>2. /\ a \in Bytes(Chunk) /\ a \in Nat
      /\ a \div PageSize = PageOf(Chunk) /\ a % PageSize \in 0 .. PageSize - 1
  BY <1>1, BytePlace
<1>3. page_buf \in [0 .. PageSize - 1 -> Addr \cup {Blank}]
  BY DEF TypeOK
<1>4. Placed'
  BY <1>1, <1>2, <1>3 DEF Placed
<1>5. ASSUME NEW k \in 0 .. curr_written
      PROVE  page_buf'[(Chunk.addr + k) % PageSize] = Chunk.addr + k
  <2>1. k \in 0 .. Chunk.len - 1
    BY <1>1, CurrentChunk
  <2> DEFINE b == Chunk.addr + k
  <2>2. /\ b \in Nat /\ b \div PageSize = PageOf(Chunk)
        /\ b % PageSize \in 0 .. PageSize - 1
    BY <1>1, <2>1, BytePlace
  <2>3. CASE k = curr_written
    BY <1>1, <1>2, <1>3, <2>3
  <2>4. CASE k # curr_written
    <3>1. b # a
      BY <1>1, <2>4, CurrentChunk
    <3>2. b % PageSize # a % PageSize
      <4> HIDE DEF a, b
      <4> QED
        BY <1>2, <2>2, <3>1, Sizes, SamePlace
    <3>3. page_buf[b % PageSize] = b
      BY <1>1, <2>4 DEF LoadedTo
    <3> QED
      BY <1>1, <1>3, <2>2, <3>2, <3>3
  <2> QED
    BY <2>3, <2>4
<1> QED
  BY <1>4, <1>5

\* The device programs the chunk and nothing else.
LEMMA WritesChunk ==
  ASSUME TypeInv, BufferInv, FlashInv, DeviceWrites
  PROVE  /\ sent < Len(upload)
         /\ flash' = [a \in Addr |-> IF a \in Bytes(Chunk) THEN a ELSE flash[a]]
<1> USE DEF TypeInv
<1>1. /\ writing # NoPage
      /\ flash' = [a \in Addr |->
             LET b == page_buf[a % PageSize]
             IN  IF a \div PageSize # writing \/ b = Blank THEN flash[a]
                 ELSE IF flash[a] = Blank THEN b ELSE Garbage]
  BY DEF DeviceWrites
<1>2. /\ sent < Len(upload) /\ writing = PageOf(Chunk) /\ Placed /\ LoadedTo(Chunk.len)
      /\ \A a \in Bytes(Chunk) : flash[a] = Blank
  BY <1>1 DEF PhaseInv, BufferInv, FlashInv
<1>3. ASSUME NEW a \in Addr
      PROVE  flash'[a] = IF a \in Bytes(Chunk) THEN a ELSE flash[a]
  <2>1. a \in Nat /\ a % PageSize \in 0 .. PageSize - 1
    BY Sizes, Divided
  <2>2. CASE a \in Bytes(Chunk)
    <3>1. PICK k \in 0 .. Chunk.len - 1 : a = Chunk.addr + k
      BY <1>2, <2>2, ByteOffset
    <3>2. a \div PageSize = writing
      BY <1>2, <3>1, BytePlace
    <3>3. page_buf[a % PageSize] = a
      BY <1>2, <3>1 DEF LoadedTo
    <3>4. a # Blank /\ flash[a] = Blank
      BY <1>2, <2>2, Sizes
    <3> QED
      BY <1>1, <2>2, <3>2, <3>3, <3>4
  <2>3. CASE a \notin Bytes(Chunk)
    <3>1. SUFFICES ASSUME a \div PageSize = writing, page_buf[a % PageSize] # Blank
                   PROVE  FALSE
      BY <1>1, <2>3
    <3> DEFINE b == page_buf[a % PageSize]
    <3>2. b \in Bytes(Chunk) /\ b % PageSize = a % PageSize
      BY <1>2, <2>1, <3>1 DEF Placed
    <3>3. b \in Nat /\ b \div PageSize = writing
      <4>1. PICK k \in 0 .. Chunk.len - 1 : b = Chunk.addr + k
        BY <1>2, <3>2, ByteOffset
      <4> QED
        BY <1>2, <4>1, BytePlace
    <3>4. a = b
      <4> HIDE DEF b
      <4> QED
        BY <2>1, <3>1, <3>2, <3>3, Sizes, SamePlace
    <3> QED
      BY <2>3, <3>2, <3>4
  <2> QED
    BY <2>2, <2>3
<1>4. flash' = [a \in Addr |-> flash'[a]]
  BY <1>1
<1> QED
  BY <1>2, <1>3, <1>4

LEMMA BufferStep ==
  ASSUME TypeInv, TypeInv', BufferInv, FlashInv, [Next]_vars
  PROVE  BufferInv'
<1> USE DEF TypeInv
<1>1. CASE Start \/ Fini
  <2>1. pc' \in {"reset", "off"} /\ writing' = NoPage
    <3>1. CASE Start
      BY <3>1 DEF Start, device, PhaseInv, Before
    <3>2. CASE Fini
      BY <3>2 DEF Fini
    <3> QED
      BY <1>1, <3>1, <3>2
  <2> QED
    BY <2>1 DEF BufferInv
<1>2. CASE TargetReset
  <2>1. /\ pc' \in {"sync", "over"} /\ (pc' = "sync" => page_buf' = Empty) /\ writing' = NoPage
    BY <1>2 DEF TargetReset, PhaseInv, Before
  <2> QED
    BY <2>1 DEF BufferInv, Empty
<1>3. CASE Synced \/ SyncFails \/ EraseAll
  <2>1. /\ pc \in {"sync", "erase"} /\ pc' \in {"erase", "reset", "over", "ready"}
        /\ page_buf' = page_buf /\ writing' = writing
    BY <1>3 DEF Synced, SyncFails, NextAttempt, EraseAll, device
  <2>2. writing = NoPage /\ page_buf = Empty
    BY <2>1 DEF BufferInv, PhaseInv
  <2> QED
    BY <2>1, <2>2 DEF BufferInv, Empty
<1>4. CASE Offer
  <2>1. /\ pc = "ready" /\ pc' = "load" /\ curr_written' = 0
        /\ UNCHANGED <<upload, sent, page_buf, writing>>
    BY <1>4 DEF Offer, session, device
  <2>2. page_buf = Empty /\ writing = NoPage
    BY <2>1 DEF BufferInv, PhaseInv
  <2>3. Placed'
    BY <2>1, <2>2 DEF Placed, Empty
  <2>4. LoadedTo(curr_written)'
    BY <2>1 DEF LoadedTo
  <2> QED
    BY <2>1, <2>2, <2>3, <2>4 DEF BufferInv
<1>5. CASE LoadByte
  <2>1. /\ pc = "load" /\ page_buf' = LoadedBuffer /\ curr_written' = curr_written + 1
        /\ pc' = IF curr_written' >= Chunk.len THEN "write" ELSE "load"
        /\ UNCHANGED <<upload, sent, writing>>
    BY <1>5 DEF LoadByte, session
  <2>2. Placed /\ LoadedTo(curr_written) /\ writing = NoPage
    BY <2>1 DEF BufferInv, PhaseInv
  <2>3. /\ sent < Len(upload) /\ curr_written \in 0 .. Chunk.len - 1
        /\ Chunk.len \in 1 .. ChunkSize /\ Chunk' = Chunk
    BY <2>1, LoadedIs, CurrentChunk, SameChunk
  <2>4. Placed' /\ \A k \in 0 .. curr_written :
                     page_buf'[(Chunk.addr + k) % PageSize] = Chunk.addr + k
    BY <2>1, <2>2, LoadKeeps
  <2>5. /\ \A k \in 0 .. curr_written' - 1 :
             page_buf'[(Chunk'.addr + k) % PageSize] = Chunk'.addr + k
        /\ pc' = "write" => Chunk'.len = curr_written'
    BY <2>1, <2>3, <2>4, Sizes
  <2>6. LoadedTo(curr_written)' /\ (pc' = "write" => LoadedTo(Chunk.len)')
    BY <2>5 DEF LoadedTo
  <2> QED
    BY <2>1, <2>2, <2>4, <2>6 DEF BufferInv
<1>6. CASE LoadFails
  <2>1. pc' \in {"over", "refused"} /\ writing' = NoPage
    BY <1>6 DEF LoadFails, PhaseInv
  <2> QED
    BY <2>1 DEF BufferInv
<1>7. CASE WritePage
  <2>1. pc = "write" /\ pc' \in {"poll", "refused"} /\ UNCHANGED <<upload, sent, page_buf>>
    BY <1>7 DEF WritePage, session
  <2>2. Placed /\ LoadedTo(Chunk.len) /\ Chunk' = Chunk
    BY <2>1, SameChunk DEF BufferInv
  <2> QED
    BY <2>1, <2>2 DEF BufferInv, Placed, LoadedTo
<1>8. CASE DeviceWrites
  <2>1. pc \notin {"load", "write"} /\ pc' = pc /\ writing' = NoPage /\ page_buf' = Empty
    BY <1>8 DEF DeviceWrites, PhaseInv
  <2> QED
    BY <2>1 DEF BufferInv, Empty
<1>9. CASE PageWritten
  <2>1. pc = "poll" /\ writing = NoPage /\ pc' \in {"over", "ready"}
        /\ UNCHANGED <<page_buf, writing>>
    BY <1>9 DEF PageWritten, device
  <2>2. page_buf = Empty
    BY <2>1 DEF FlashInv
  <2> QED
    BY <2>1, <2>2 DEF BufferInv, Empty
<1>10. CASE PollFails \/ StaleTimer \/ RxTimeout \/ LoopStops \/ UNCHANGED vars
  <2>1. /\ pc' = pc \/ pc' \in {"refused", "over"}
        /\ UNCHANGED <<curr_written, upload, sent, page_buf, writing>>
    BY <1>10 DEF PollFails, StaleTimer, RxTimeout, LoopStops, vars, session, device
  <2>2. Chunk' = Chunk
    BY <2>1, SameChunk
  <2> QED
    BY <2>1, <2>2 DEF BufferInv, Placed, LoadedTo, Empty
<1> QED
  BY <1>1, <1>2, <1>3, <1>4, <1>5, <1>6, <1>7, <1>8, <1>9, <1>10 DEF Next

LEMMA FlashStep ==
  ASSUME TypeInv, SentInv, BufferInv, FlashInv, [Next]_vars
  PROVE  FlashInv'
<1> USE DEF TypeInv
<1>1. CASE Start \/ TargetReset \/ Synced \/ SyncFails \/ Fini
  <2>1. pc' \in {"reset", "sync", "erase", "over", "off"} /\ writing' = NoPage
    <3>1. CASE Start
      BY <3>1 DEF Start, device, PhaseInv, Before
    <3>2. CASE TargetReset
      BY <3>2 DEF TargetReset, PhaseInv, Before
    <3>3. CASE Synced \/ SyncFails
      BY <3>3 DEF Synced, SyncFails, NextAttempt, device, PhaseInv, Before
    <3>4. CASE Fini
      BY <3>4 DEF Fini
    <3> QED
      BY <1>1, <3>1, <3>2, <3>3, <3>4
  <2> QED
    BY <2>1 DEF FlashInv
<1>2. CASE EraseAll
  <2>1. /\ pc = "erase" /\ writing' = writing
        /\ pc' = "over" \/ (pc' = "ready" /\ flash' = Erased)
    BY <1>2 DEF EraseAll
  <2>2. writing = NoPage
    BY <2>1 DEF PhaseInv
  <2> QED
    BY <2>1, <2>2 DEF FlashInv, Erased
<1>3. CASE Offer \/ LoadByte \/ LoadFails
  <2>1. /\ pc \in {"ready", "load"} /\ pc' \in {"load", "write", "refused", "over"}
        /\ UNCHANGED <<upload, sent, done, writing, flash>>
    BY <1>3 DEF Offer, LoadByte, LoadFails, session, device
  <2>2. writing = NoPage /\ \A a \in Addr \ done : flash[a] = Blank
    BY <2>1 DEF FlashInv, PhaseInv
  <2> QED
    BY <2>1, <2>2 DEF FlashInv
<1>4. CASE WritePage
  <2>1. /\ pc = "write" /\ UNCHANGED <<upload, sent, done, flash>>
        /\ \/ pc' = "poll" /\ writing' = PageOf(Chunk)
           \/ pc' = "refused"
    BY <1>4 DEF WritePage, session
  <2>2. sent < Len(upload) /\ \A a \in Addr \ done : flash[a] = Blank
    BY <2>1 DEF FlashInv, PhaseInv, Loading
  <2>3. Bytes(Chunk) \subseteq Addr \ done /\ Chunk' = Chunk
    BY <2>1, <2>2, ChunkIsNew, SameChunk
  <2>4. PageOf(Chunk) # NoPage
    <3>1. PageOf(Chunk) \in Nat
      BY <2>2, CurrentChunk, Sizes, Divided DEF PageOf
    <3> QED
      BY <3>1 DEF NoPage
  <2> QED
    BY <2>1, <2>2, <2>3, <2>4 DEF FlashInv
<1>5. CASE DeviceWrites
  <2>1. /\ writing # NoPage /\ writing' = NoPage /\ page_buf' = Empty
        /\ UNCHANGED <<pc, upload, sent, done>>
    BY <1>5 DEF DeviceWrites, session
  <2>2. /\ sent < Len(upload)
        /\ flash' = [a \in Addr |-> IF a \in Bytes(Chunk) THEN a ELSE flash[a]]
    BY <1>5, WritesChunk
  <2>3. Chunk' = Chunk /\ Bytes(Chunk) \subseteq Addr
    BY <2>1, <2>2, SameChunk, CurrentChunk
  <2>4. pc \notin {"ready", "load", "write"}
    BY <2>1 DEF PhaseInv
  <2> QED
    BY <2>1, <2>2, <2>3, <2>4 DEF FlashInv, Empty
<1>6. CASE PageWritten
  <2>1. /\ pc = "poll" /\ pc' \in {"over", "ready"} /\ writing = NoPage
        /\ done' = done \cup Bytes(Chunk) /\ UNCHANGED <<writing, flash>>
    BY <1>6 DEF PageWritten, device
  <2>2. \A a \in Addr \ (done \cup Bytes(Chunk)) : flash[a] = Blank
    BY <2>1 DEF FlashInv
  <2> QED
    BY <2>1, <2>2 DEF FlashInv
<1>7. CASE PollFails \/ StaleTimer \/ RxTimeout \/ LoopStops \/ UNCHANGED vars
  <2>1. /\ pc' = pc \/ pc' \in {"refused", "over"}
        /\ UNCHANGED <<upload, sent, done, page_buf, writing, flash>>
    BY <1>7 DEF PollFails, StaleTimer, RxTimeout, LoopStops, vars, session, device
  <2>2. Chunk' = Chunk
    BY <2>1, SameChunk
  <2> QED
    BY <2>1, <2>2 DEF FlashInv, Empty
<1> QED
  BY <1>1, <1>2, <1>3, <1>4, <1>5, <1>6, <1>7 DEF Next

LEMMA IInvInit == Init => IInv
<1> SUFFICES ASSUME Init  PROVE IInv
  OBVIOUS
<1>1. TypeOK /\ PhaseInv
  BY TypeInit DEF TypeInv
<1>2. SentInv /\ BufferInv /\ FlashInv
  BY DEF Init, SentInv, BufferInv, FlashInv
<1> QED
  BY <1>1, <1>2 DEF IInv

LEMMA IInvStep == ASSUME ChunksDiffer  PROVE IInv /\ [Next]_vars => IInv'
<1> SUFFICES ASSUME IInv, [Next]_vars  PROVE IInv'
  OBVIOUS
<1>1. TypeInv /\ SentInv /\ BufferInv /\ FlashInv
  BY DEF IInv, TypeInv
<1>2. TypeInv'
  BY <1>1, TypeStep
<1>3. SentInv' /\ BufferInv' /\ FlashInv'
  BY <1>1, <1>2, SentStep, BufferStep, FlashStep
<1> QED
  BY <1>2, <1>3 DEF IInv, TypeInv

-----------------------------------------------------------------------------
(* The abstract target *)

\* The target has a chunk, in the sense of the refinement mapping.
Held == pc \in Loading \/ (pc = "over" /\ error /\ sent < Len(upload))

\* Each step is one of the abstract target, or none.
LEMMA TargetStep ==
  ASSUME ChunksDiffer, IInv, IInv', [Next]_vars
  PROVE  [Target!Next]_(Target!vars)
<1>1. /\ TypeInv /\ TypeOK /\ PhaseInv /\ SentInv /\ BufferInv /\ FlashInv
      /\ flash \in [Addr -> Addr \cup {Old, Blank, Garbage}]
  BY DEF IInv, TypeInv, TypeOK
<1>2. InFlight = (IF Held THEN Bytes(Chunk) ELSE {})
      /\ InFlight' = (IF Held' THEN Bytes(Chunk') ELSE {})
  BY DEF InFlight, Held, Bytes
<1>3. Held => sent < Len(upload)
  BY <1>1 DEF Held, PhaseInv
<1>4. sent < Len(upload) => Bytes(Chunk) \subseteq Addr /\ Bytes(Chunk) # {}
  BY <1>1, CurrentChunk
<1>5. ASSUME UNCHANGED <<upload, sent, flash, done>>
      PROVE  [Target!Next]_(Target!vars)
  <2>1. Chunk' = Chunk /\ (Held' => sent < Len(upload))
    BY <1>5, SameChunk DEF IInv, PhaseInv, Held
  <2>2. CASE Held <=> Held'
    BY <1>2, <1>5, <2>1, <2>2 DEF Target!vars
  <2>3. CASE Held /\ ~Held'
    BY <1>2, <1>5, <2>3 DEF Target!Next, Target!Fail
  <2>4. CASE ~Held /\ Held'
    BY <1>2, <1>4, <1>5, <2>1, <2>4 DEF Target!Next, Target!Take
  <2> QED
    BY <2>2, <2>3, <2>4
<1>6. CASE Start
  <2>1. pc = "off" /\ pc' = "reset" /\ UNCHANGED <<flash, done>>
    BY <1>6 DEF Start, device
  <2>2. ~Held /\ ~Held'
    BY <2>1 DEF Held, Loading
  <2> QED
    BY <1>2, <2>1, <2>2 DEF Target!vars
<1>7. CASE EraseAll
  <2>1. /\ pc = "erase" /\ pc' \in {"ready", "over"} /\ flash' \in {flash, Erased}
        /\ UNCHANGED <<upload, sent, done, error>>
    BY <1>7 DEF EraseAll, session
  <2>2. done = {} /\ ~error
    BY <1>1, <2>1 DEF PhaseInv, Before
  <2>3. ~Held /\ ~Held'
    BY <2>1, <2>2 DEF Held, Loading
  <2>4. CASE flash' = flash
    BY <1>5, <2>1, <2>4
  <2>5. CASE flash' = Erased
    <3>1. DOMAIN flash' = Addr /\ \A a \in Addr : flash'[a] = Blank /\ a \in Addr \ done
      BY <2>2, <2>5 DEF Erased
    <3> QED
      BY <1>2, <2>1, <2>3, <3>1 DEF Target!Next, Target!Erase, Target!Changed
  <2> QED
    BY <2>1, <2>4, <2>5
<1>8. CASE DeviceWrites
  <2>1. writing # NoPage /\ UNCHANGED <<pc, error, upload, sent, done>>
    BY <1>8 DEF DeviceWrites, session
  <2>2. /\ sent < Len(upload)
        /\ flash' = [a \in Addr |-> IF a \in Bytes(Chunk) THEN a ELSE flash[a]]
    BY <1>1, <1>8, WritesChunk
  <2>3. Held
    BY <1>1, <2>1 DEF PhaseInv, Held, Loading
  <2>4. InFlight = Bytes(Chunk) /\ InFlight' = InFlight
    <3>1. Chunk' = Chunk /\ Held'
      BY <2>1, <2>3, SameChunk DEF Held
    <3> QED
      BY <1>2, <2>3, <3>1
  <2>5. DOMAIN flash' = Addr
        /\ \A a \in Addr : flash'[a] # flash[a] => a \in InFlight /\ flash'[a] = a
    BY <2>2, <2>4
  <2> QED
    BY <2>1, <2>4, <2>5 DEF Target!Next, Target!Write, Target!Changed
<1>9. CASE PageWritten
  <2>1. /\ pc = "poll" /\ ~error /\ writing = NoPage /\ pc' \in {"over", "ready"}
        /\ done' = done \cup Bytes(Chunk) /\ UNCHANGED <<flash, error>>
    BY <1>9 DEF PageWritten, device
  <2>2. Held /\ ~Held'
    BY <2>1 DEF Held, Loading
  <2>3. \A a \in Bytes(Chunk) : flash[a] = a
    BY <1>1, <2>1 DEF FlashInv
  <2> QED
    BY <1>2, <1>3, <1>4, <2>1, <2>2, <2>3 DEF Target!Next, Target!Done
<1>10. CASE Fini
  <2>1. /\ pc' = "off" /\ done' = {}
        /\ flash' = [a \in Addr |-> IF flash[a] = Blank THEN Blank ELSE Old]
    BY <1>10 DEF Fini
  <2>2. ~Held'
    BY <2>1 DEF Held, Loading
  <2> QED
    BY <1>2, <2>1, <2>2 DEF Target!Next, Target!Restart
<1>11. CASE \/ TargetReset \/ Synced \/ SyncFails \/ Offer \/ LoadByte \/ LoadFails
            \/ WritePage \/ PollFails \/ StaleTimer \/ RxTimeout \/ LoopStops
            \/ UNCHANGED vars
  <2>1. UNCHANGED <<upload, sent, flash, done>>
    BY <1>11 DEF TargetReset, Synced, SyncFails, Offer, LoadByte, LoadFails,
       WritePage, PollFails, StaleTimer, RxTimeout, LoopStops, vars, session, device
  <2> QED
    BY <1>5, <2>1
<1> QED
  BY <1>6, <1>7, <1>8, <1>9, <1>10, <1>11 DEF Next

\* The AVR ISP target does what the binary file layer expects of a target, if
\* no address is twice in an upload: whatever transfers fail, and whichever
\* command a timer left behind ends.
THEOREM IsAFlashTarget ==
  ASSUME ChunksDiffer  PROVE Spec => ImplementsFlashTarget
<1>1. Init => Target!Init
  <2> SUFFICES ASSUME Init  PROVE  Target!Init
    OBVIOUS
  <2>1. InFlight = {} /\ done = {} /\ flash \in [Addr -> {Old, Blank}]
    BY DEF Init, InFlight, Loading
  <2> QED
    BY <2>1 DEF Target!Init
<1>2. IInv /\ IInv' /\ [Next]_vars => [Target!Next]_(Target!vars)
  BY TargetStep
<1>3. IInv /\ [Next]_vars => IInv'
  BY IInvStep
<1> QED
  BY <1>1, <1>2, <1>3, IInvInit, PTL DEF Spec, ImplementsFlashTarget, Target!Spec
=============================================================================
