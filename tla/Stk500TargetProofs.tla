------------------------- MODULE Stk500TargetProofs -------------------------
(***************************************************************************)
(* The STK500 target programs each page at its own address, but for the    *)
(* pages none of the attempts loaded the address of.                       *)
(***************************************************************************)
EXTENDS Stk500Target, TLAPS

\* No page is twice in an upload.
PagesDiffer == \A u \in Uploads : \A i, j \in DOMAIN u : u[i] = u[j] => i = j

Asleep == {"reset", "sync", "flush", "setup"}

\* The type invariant, and where in an upload the target is.
TypeInv ==
  /\ TypeOK
  /\ pc = "off" => sent = 0 /\ loads = 0
  /\ loads > 0 => pc \in Nested
  /\ pc = "load" => loads > 0
  /\ loads > 0 \/ pc \in {"program", "programming", "refused"} => sent < Len(upload)
  /\ todo # "none" =>
       pc \in {"programming", "refused"} \/ (pc = "over" /\ error /\ sent < Len(upload))

\* The device has the address of the page it is sent, or none of the attempts
\* loaded it.
AddressInv ==
  /\ pc = "program" => loaded = Current \/ Current \in stray
  /\ todo # "none" => loaded = Current \/ Current \in stray

\* Nothing is done when the device is erased.
SentInv ==
  /\ pc \in Asleep \cup {"erase"} /\ loads = 0 => sent = 0
  /\ done = {upload[i] : i \in 1 .. sent}

\* As long as no page was sent without its address, what was reported done is in
\* flash, and is what was sent; the page that is programmed is there once the
\* device is done with it.
PagesInv ==
  /\ \A p \in done : flash[p] = p
  /\ pc = "programming" /\ todo = "none" => flash[Current] = Current

IInv == TypeInv /\ AddressInv /\ SentInv /\ PagesInPlace /\ (stray = {} => PagesInv)

-----------------------------------------------------------------------------

\* What an upload is.
LEMMA UploadType ==
  ASSUME TypeInv
  PROVE  /\ upload \in Seq(Page) /\ Len(upload) \in Nat \ {0} /\ sent \in Nat
         /\ DOMAIN upload = 1 .. Len(upload)
         /\ sent < Len(upload) => Current \in Page /\ sent + 1 \in DOMAIN upload
<1>1. upload \in Seq(Page) /\ upload # <<>> /\ sent \in 0 .. Len(upload)
  BY ConstantsOK DEF TypeInv, TypeOK
<1> QED
  BY <1>1 DEF Current

\* The constants.
LEMMA Sizes ==
  /\ MaxLoads \in Nat \ {0} /\ MaxSync \in Nat \ {0} /\ MaxUploads \in Nat
  /\ \A u \in Uploads : Len(u) \in Nat \ {0}
  /\ Len(Setup) = 5 /\ DOMAIN Setup = 1 .. 5
<1>1. \A u \in Uploads : u \in Seq(Page) /\ u # <<>>
  BY ConstantsOK
<1>2. Len(Setup) = 5 /\ DOMAIN Setup = 1 .. 5
  BY DEF Setup
<1>3. \A u \in Uploads : Len(u) \in Nat \ {0}
  BY <1>1
<1> QED
  BY <1>2, <1>3, ConstantsOK

\* The initial states.
LEMMA TypeInit == Init => TypeInv
<1> SUFFICES ASSUME Init  PROVE  TypeInv
  OBVIOUS
<1>1. flash \in [Page -> {Old, Blank} \cup Page]
  BY DEF Init
<1>2. upload \in Uploads /\ sent \in 0 .. Len(upload)
  BY Sizes DEF Init
<1>3. 0 \in 0 .. MaxLoads /\ 0 \in 0 .. MaxSync /\ 0 \in 0 .. MaxUploads /\ 1 \in DOMAIN Setup
  BY Sizes
<1>4. pc \in Places /\ done \subseteq Page /\ stray \subseteq Page
  BY DEF Init, Places
<1>5. TypeOK
  BY <1>1, <1>2, <1>3, <1>4 DEF Init, TypeOK
<1> QED
  BY <1>5, Sizes DEF Init, TypeInv

\* Where stk500_reset_and_sync() returns to.
LEMMA Returns ==
  ASSUME TypeInv, pc \in Nested, NEW next \in Places, Return(next)
  PROVE  /\ pc' \in Places /\ loads' \in 0 .. MaxLoads
         /\ \/ loads = 0 /\ loads' = 0 /\ pc' = next /\ stray' = stray
            \/ loads > 0 /\ loads < MaxLoads /\ pc' = "load" /\ loads' = loads + 1 /\ stray' = stray
            \/ loads = MaxLoads /\ pc' = "program" /\ loads' = 0 /\ stray' = stray \cup {Current}
<1>1. loads \in 0 .. MaxLoads /\ MaxLoads \in Nat \ {0}
  BY Sizes DEF TypeInv, TypeOK
<1> QED
  BY <1>1 DEF Return, Places, Nested

\* The rounds of _get_sync().
LEMMA Attempts ==
  ASSUME TypeInv, pc \in Nested, NextAttempt
  PROVE  /\ pc' \in Places /\ loads' \in 0 .. MaxLoads /\ attempts' \in 0 .. MaxSync
         /\ \/ pc' = "sync" /\ loads' = loads /\ stray' = stray
            \/ loads = 0 /\ loads' = 0 /\ pc' = "over" /\ stray' = stray
            \/ loads > 0 /\ loads < MaxLoads /\ pc' = "load" /\ loads' = loads + 1 /\ stray' = stray
            \/ loads = MaxLoads /\ pc' = "program" /\ loads' = 0 /\ stray' = stray \cup {Current}
<1>1. /\ attempts \in 0 .. MaxSync /\ loads \in 0 .. MaxLoads
      /\ MaxSync \in Nat \ {0} /\ MaxLoads \in Nat \ {0}
  BY Sizes DEF TypeInv, TypeOK
<1>2. "over" \in Places /\ "sync" \in Places
  BY DEF Places, Nested
<1>3. CASE attempts < MaxSync
  BY <1>1, <1>2, <1>3 DEF NextAttempt
<1>4. CASE ~(attempts < MaxSync)
  <2>1. Return("over") /\ attempts' = attempts
    BY <1>4 DEF NextAttempt
  <2> QED
    BY <1>1, <1>2, <2>1, Returns
<1> QED
  BY <1>3, <1>4

\* The steps of stk500_reset_and_sync(): where they lead.
LEMMA SyncSteps ==
  ASSUME TypeInv, TargetReset \/ Synced \/ OutOfSync \/ Flushed \/ SetUp
  PROVE  /\ pc \in Asleep /\ UNCHANGED <<session, error, flash>>
         /\ loaded' \in Page /\ todo' \in {todo, "none"}
         /\ loads' \in 0 .. MaxLoads /\ attempts' \in 0 .. MaxSync
         /\ setup' \in DOMAIN Setup
         /\ \/ pc' \in Asleep /\ loads' = loads /\ stray' = stray
            \/ loads = 0 /\ loads' = 0 /\ pc' \in {"over", "erase"} /\ stray' = stray
            \/ loads > 0 /\ loads < MaxLoads /\ pc' = "load" /\ loads' = loads + 1 /\ stray' = stray
            \/ loads = MaxLoads /\ pc' = "program" /\ loads' = 0 /\ stray' = stray \cup {Current}
<1>1. /\ loaded \in Page /\ setup \in DOMAIN Setup /\ attempts \in 0 .. MaxSync
      /\ loads \in 0 .. MaxLoads /\ 1 \in DOMAIN Setup /\ 1 \in 0 .. MaxSync
  BY Sizes DEF TypeInv, TypeOK
<1>2. "over" \in Places /\ "erase" \in Places
  BY DEF Places
<1> USE DEF Asleep, Nested
<1>3. CASE TargetReset
  <2>1. CASE pc' = "sync"
    BY <1>1, <1>3, <2>1 DEF TargetReset, Return
  <2>2. CASE Return("over") /\ UNCHANGED <<attempts, device>>
    <3>1. pc = "reset" /\ UNCHANGED <<setup, session, error>>
      BY <1>3 DEF TargetReset
    <3> QED
      BY <1>1, <1>2, <2>2, <3>1, Returns DEF device
  <2> QED
    BY <1>3, <2>1, <2>2 DEF TargetReset
<1>4. CASE Synced
  <2>1. pc = "sync" /\ UNCHANGED <<session, error, device>>
    BY <1>4 DEF Synced
  <2>2. CASE pc' = "setup" /\ setup' = 1 /\ UNCHANGED <<attempts, loads, stray>>
    BY <1>1, <2>1, <2>2 DEF device
  <2>3. CASE NextAttempt /\ UNCHANGED setup
    BY <1>1, <2>1, <2>3, Attempts DEF device
  <2> QED
    BY <1>4, <2>2, <2>3 DEF Synced
<1>5. CASE OutOfSync
  BY <1>1, <1>5 DEF OutOfSync, device
<1>6. CASE Flushed
  BY <1>1, <1>6, Attempts DEF Flushed, device
<1>7. CASE SetUp
  <2>1. pc = "setup" /\ UNCHANGED <<attempts, session, error, device>>
    BY <1>7 DEF SetUp
  <2>2. CASE setup < Len(Setup) /\ setup' = setup + 1 /\ UNCHANGED <<pc, loads, stray>>
    <3>1. setup' \in DOMAIN Setup
      BY <1>1, <2>2, Sizes
    <3> QED
      BY <1>1, <2>1, <2>2, <3>1 DEF device
  <2>3. CASE (Return("erase") \/ Return("over")) /\ UNCHANGED setup
    BY <1>1, <1>2, <2>1, <2>3, Returns DEF device
  <2> QED
    BY <1>7, <2>2, <2>3 DEF SetUp
<1> QED
  BY <1>3, <1>4, <1>5, <1>6, <1>7

\* Each step.
LEMMA TypeStep == TypeInv /\ [Next]_vars => TypeInv'
<1> SUFFICES ASSUME TypeInv, [Next]_vars  PROVE  TypeInv'
  OBVIOUS
<1> USE DEF TypeInv, TypeOK
<1>1. /\ \A u \in Uploads : Len(u) \in Nat \ {0}
      /\ sent \in Nat /\ MaxLoads \in Nat \ {0} /\ MaxUploads \in Nat
      /\ Len(upload) \in Nat
      /\ sent < Len(upload) => Current \in Page
  BY Sizes, UploadType
<1>2. CASE Start
  BY <1>1, <1>2 DEF Start, device, Places, Nested
<1>3. CASE TargetReset \/ Synced \/ OutOfSync \/ Flushed \/ SetUp
  <2>1. /\ pc \in Asleep /\ UNCHANGED <<upload, sent, uploads, done, error, flash>>
        /\ loaded' \in Page /\ todo' \in {todo, "none"}
        /\ loads' \in 0 .. MaxLoads /\ attempts' \in 0 .. MaxSync
        /\ setup' \in DOMAIN Setup
        /\ \/ pc' \in Asleep /\ loads' = loads /\ stray' = stray
           \/ loads = 0 /\ loads' = 0 /\ pc' \in {"over", "erase"} /\ stray' = stray
           \/ loads > 0 /\ loads < MaxLoads /\ pc' = "load" /\ loads' = loads + 1 /\ stray' = stray
           \/ loads = MaxLoads /\ pc' = "program" /\ loads' = 0 /\ stray' = stray \cup {Current}
    BY <1>3, SyncSteps DEF session
  <2>2. TypeOK'
    <3>1. loads = MaxLoads => Current \in Page
      BY <1>1
    <3> QED
      BY <2>1, <3>1 DEF Places, Nested, Asleep
  <2>3. todo' = "none"
    BY <2>1 DEF Asleep
  <2> QED
    BY <1>1, <2>1, <2>2, <2>3 DEF Nested, Asleep
<1>4. CASE EraseAll
  BY <1>1, <1>4 DEF EraseAll, session, Places, Nested
<1>5. CASE Offer
  BY <1>1, <1>5 DEF Offer, session, device, Places, Nested
<1>6. CASE Loaded
  BY <1>1, <1>6 DEF Loaded, session, Places, Nested
<1>7. CASE LoadFails
  BY <1>1, <1>7 DEF LoadFails, session, Places, Nested
<1>8. CASE NotSent
  BY <1>1, <1>8 DEF NotSent, session, device, Places, Nested
<1>9. CASE PageSent
  BY <1>1, <1>9 DEF PageSent, session, Places, Nested
<1>10. CASE DeviceErases
  BY <1>1, <1>10 DEF DeviceErases, session
<1>11. CASE DeviceWrites
  BY <1>1, <1>11 DEF DeviceWrites, session
<1>12. CASE ChunkDone
  BY <1>1, <1>12 DEF ChunkDone, device, Places, Nested
<1>13. CASE ChunkFails
  BY <1>1, <1>13 DEF ChunkFails, session, device, Places, Nested
<1>14. CASE RxTimeout
  BY <1>1, <1>14 DEF RxTimeout, session, device
<1>15. CASE LoopStops
  BY <1>1, <1>15 DEF LoopStops, session, device, Places, Nested
<1>16. CASE Fini
  <2>1. flash' \in [Page -> {Old, Blank} \cup Page]
    BY <1>16 DEF Fini
  <2>2. /\ pc' = "off" /\ error' = FALSE /\ sent' = 0 /\ done' = {} /\ loads' = 0
        /\ stray' = {} /\ todo' = "none" /\ UNCHANGED <<attempts, setup, upload, uploads, loaded>>
    BY <1>16 DEF Fini
  <2>3. sent' \in 0 .. Len(upload') /\ loads' \in 0 .. MaxLoads /\ pc' \in Places
    BY <1>1, <2>2 DEF Places
  <2>4. /\ attempts' \in 0 .. MaxSync /\ setup' \in DOMAIN Setup
        /\ upload' \in Uploads /\ uploads' \in 0 .. MaxUploads /\ loaded' \in Page
    BY <2>2
  <2>5. error' \in BOOLEAN /\ todo' \in {"none", "erase", "write"} /\ done' \subseteq Page /\ stray' \subseteq Page
    BY <2>2
  <2>6. TypeOK'
    BY <2>1, <2>3, <2>4, <2>5
  <2>7. pc' \notin {"load", "program", "programming", "refused"} /\ ~(loads' > 0)
    BY <2>2
  <2> QED
    BY <2>2, <2>6, <2>7
<1>17. CASE UNCHANGED vars
  BY <1>1, <1>17 DEF vars, session, device
<1> QED
  BY <1>2, <1>3, <1>4, <1>5, <1>6, <1>7, <1>8, <1>9, <1>10, <1>11, <1>12,
     <1>13, <1>14, <1>15, <1>16, <1>17 DEF Next

\* The type invariant is inductive on its own.
THEOREM TypeCorrect == Spec => []TypeOK
<1>1. TypeInv => TypeOK
  BY DEF TypeInv
<1> QED
  BY <1>1, TypeInit, TypeStep, PTL DEF Spec

-----------------------------------------------------------------------------
(* The pages *)

\* The initial states.
LEMMA IInvInit == Init => IInv
<1> SUFFICES ASSUME Init  PROVE  IInv
  OBVIOUS
<1>1. AddressInv
  BY DEF Init, AddressInv, Asleep
<1>2. PagesInPlace
  BY DEF Init, PagesInPlace
<1>3. SentInv /\ PagesInv
  BY DEF Init, SentInv, PagesInv, Asleep
<1> QED
  BY <1>1, <1>2, <1>3, TypeInit DEF IInv

\* The address the device has, at each step.
LEMMA AddressStep ==
  ASSUME TypeInv, AddressInv, [Next]_vars
  PROVE  AddressInv'
<1>1. loads \in 0 .. MaxLoads /\ sent \in Nat
  BY UploadType DEF TypeInv, TypeOK
<1>2. CASE TargetReset \/ Synced \/ OutOfSync \/ Flushed \/ SetUp
  <2>1. /\ todo' = "none" /\ UNCHANGED <<upload, sent>>
        /\ pc' = "program" => stray' = stray \cup {Current}
    <3>1. pc \in Asleep => todo = "none"
      BY DEF TypeInv, Asleep
    <3> QED
      BY <1>2, <3>1, SyncSteps DEF Asleep, session
  <2> QED
    BY <2>1 DEF AddressInv, Current
<1>3. CASE Loaded
  BY <1>1, <1>3 DEF Loaded, session, Current, AddressInv, TypeInv
<1>4. CASE DeviceErases \/ DeviceWrites
  BY <1>1, <1>4 DEF DeviceErases, DeviceWrites, session, Current, AddressInv, TypeInv
<1>5. CASE Start
  BY <1>1, <1>5 DEF Start, device, AddressInv, TypeInv
<1>6. CASE PageSent
  BY <1>6 DEF PageSent, session, Current, AddressInv
<1>7. CASE ChunkDone \/ EraseAll \/ Fini \/ LoadFails
  <2>1. pc' # "program" /\ todo' = "none"
    BY <1>7 DEF ChunkDone, EraseAll, Fini, LoadFails, device, TypeInv
  <2> QED
    BY <2>1 DEF AddressInv
<1>8. CASE Offer \/ NotSent \/ ChunkFails \/ LoopStops
  <2>1. pc' # "program" /\ UNCHANGED <<upload, sent, loaded, todo, stray>>
    BY <1>8 DEF Offer, NotSent, ChunkFails, LoopStops, session, device
  <2> QED
    BY <2>1 DEF AddressInv, Current
<1>9. CASE RxTimeout \/ UNCHANGED vars
  <2>1. UNCHANGED <<pc, upload, sent, loaded, todo, stray>>
    BY <1>9 DEF RxTimeout, vars, session, device
  <2> QED
    BY <2>1 DEF AddressInv, Current
<1> QED
  BY <1>2, <1>3, <1>4, <1>5, <1>6, <1>7, <1>8, <1>9 DEF Next

\* Each step: what is programmed.
LEMMA InPlaceStep ==
  ASSUME TypeInv, AddressInv, PagesInPlace, [Next]_vars
  PROVE  PagesInPlace'
<1>1. flash \in [Page -> {Old, Blank} \cup Page]
  BY DEF TypeInv, TypeOK
<1>2. CASE TargetReset \/ Synced \/ OutOfSync \/ Flushed \/ SetUp
  <2>1. UNCHANGED flash /\ stray \subseteq stray'
    BY <1>2, SyncSteps
  <2> QED
    BY <2>1 DEF PagesInPlace
<1>3. CASE EraseAll
  BY <1>3 DEF EraseAll, PagesInPlace
<1>4. CASE DeviceErases \/ DeviceWrites
  <2>1. (loaded = Current \/ Current \in stray) /\ UNCHANGED stray
    BY <1>4 DEF DeviceErases, DeviceWrites, AddressInv
  <2>2. \A p \in Page : flash'[p] = flash[p] \/ flash'[p] = Blank
                         \/ (p = loaded /\ flash'[p] = Current)
    BY <1>1, <1>4 DEF DeviceErases, DeviceWrites
  <2> QED
    BY <2>1, <2>2 DEF PagesInPlace
<1>5. CASE Fini
  <2>1. flash' = [p \in Page |-> IF flash[p] = Blank THEN Blank ELSE Old]
    BY <1>5 DEF Fini
  <2> QED
    BY <2>1 DEF PagesInPlace
<1>6. CASE \/ Start \/ Offer \/ Loaded \/ LoadFails \/ NotSent \/ PageSent \/ ChunkDone
           \/ ChunkFails \/ RxTimeout \/ LoopStops \/ UNCHANGED vars
  <2>1. UNCHANGED <<flash, stray>>
    BY <1>6 DEF Start, Offer, Loaded, LoadFails, NotSent, PageSent, ChunkDone,
                ChunkFails, RxTimeout, LoopStops, vars, device
  <2> QED
    BY <2>1 DEF PagesInPlace
<1> QED
  BY <1>2, <1>3, <1>4, <1>5, <1>6 DEF Next

\* A page is programmed at its own address, but for the pages none of the
\* attempts loaded the address of.
THEOREM PagesStayInPlace == Spec => []PagesInPlace
<1>1. Init => TypeInv /\ AddressInv /\ PagesInPlace
  BY IInvInit DEF IInv
<1>2. TypeInv /\ AddressInv /\ PagesInPlace /\ [Next]_vars
        => (TypeInv /\ AddressInv /\ PagesInPlace)'
  BY TypeStep, AddressStep, InPlaceStep
<1> QED
  BY <1>1, <1>2, PTL DEF Spec

-----------------------------------------------------------------------------
(* The abstract target *)

\* The page that is sent was not reported done, if no page is twice in an
\* upload.
LEMMA CurrentIsNew ==
  ASSUME PagesDiffer, TypeInv, SentInv, sent < Len(upload)
  PROVE  Current \notin done
<1>1. /\ upload \in Uploads /\ sent \in Nat /\ sent + 1 \in DOMAIN upload
      /\ DOMAIN upload = 1 .. Len(upload) /\ Len(upload) \in Nat
  BY UploadType DEF TypeInv, TypeOK
<1>2. SUFFICES ASSUME NEW i \in 1 .. sent, upload[i] = upload[sent + 1]  PROVE FALSE
  BY DEF SentInv, Current
<1>3. i \in DOMAIN upload
  BY <1>1
<1> QED
  BY <1>1, <1>2, <1>3 DEF PagesDiffer

\* The device programs the page it was sent.
LEMMA DeviceSteps ==
  ASSUME PagesDiffer, IInv, stray = {}, DeviceErases \/ DeviceWrites
  PROVE  PagesInv'
<1> USE DEF IInv
<1>1. flash \in [Page -> {Old, Blank} \cup Page] /\ done \subseteq Page
  BY DEF TypeInv, TypeOK
<1>2. /\ todo # "none" /\ sent < Len(upload) /\ loaded = Current
      /\ UNCHANGED <<pc, loads, upload, sent, done>>
  BY DEF DeviceErases, DeviceWrites, session, TypeInv, AddressInv
<1>3. Current \in Page /\ Current \notin done /\ Current' = Current
  BY <1>2, UploadType, CurrentIsNew DEF Current
<1>4. CASE DeviceErases
  <2>1. \A p \in Page : flash'[p] = IF p = Current THEN Blank ELSE flash[p]
    BY <1>1, <1>2, <1>4 DEF DeviceErases
  <2>2. todo' = "write"
    BY <1>4 DEF DeviceErases
  <2> QED
    BY <1>1, <1>2, <1>3, <2>1, <2>2 DEF PagesInv
<1>5. CASE DeviceWrites
  <2>1. \A p \in Page : flash'[p] = IF p = Current THEN Current ELSE flash[p]
    BY <1>1, <1>2, <1>5 DEF DeviceWrites
  <2> QED
    BY <1>1, <1>2, <1>3, <2>1 DEF PagesInv
<1> QED
  BY <1>4, <1>5

\* Each step: how many pages are done.
LEMMA SentStep ==
  ASSUME TypeInv, SentInv, [Next]_vars
  PROVE  SentInv'
<1>1. sent \in Nat /\ loads \in Nat
  BY UploadType, Sizes DEF TypeInv, TypeOK
<1>2. CASE TargetReset \/ Synced \/ OutOfSync \/ Flushed \/ SetUp
  <2>1. /\ pc \in Asleep /\ UNCHANGED <<upload, sent, done>>
        /\ \/ pc' \in Asleep /\ loads' = loads
           \/ loads = 0 /\ pc' \in {"over", "erase"}
           \/ pc' \in {"load", "program"}
    BY <1>2, SyncSteps DEF session
  <2> QED
    BY <2>1 DEF SentInv, Asleep
<1>3. CASE ChunkDone
  <2>1. /\ pc' \in {"over", "ready"} /\ sent' = sent + 1
        /\ done' = done \cup {Current} /\ UNCHANGED upload
    BY <1>3 DEF ChunkDone
  <2>2. 1 .. sent + 1 = (1 .. sent) \cup {sent + 1}
    BY <1>1
  <2> QED
    BY <2>1, <2>2 DEF SentInv, Current, Asleep
<1>4. CASE Fini
  <2>1. pc' = "off" /\ sent' = 0 /\ done' = {}
    BY <1>4 DEF Fini
  <2> QED
    BY <2>1 DEF SentInv, Asleep
<1>5. CASE Start
  <2>1. sent' = 0 /\ done' = {}
    BY <1>5 DEF Start, TypeInv, SentInv
  <2> QED
    BY <2>1 DEF SentInv
<1>6. CASE LoadFails
  <2>1. loads' # 0 /\ UNCHANGED <<upload, sent, done>>
    BY <1>1, <1>6 DEF LoadFails, session, TypeInv
  <2> QED
    BY <1>6, <2>1 DEF LoadFails, SentInv
<1>7. CASE Offer \/ Loaded \/ NotSent \/ PageSent \/ ChunkFails \/ LoopStops \/ EraseAll
  <2>1. /\ pc' \in {"load", "program", "programming", "over", "refused", "ready"}
        /\ UNCHANGED <<upload, sent, done>>
    BY <1>7 DEF Offer, Loaded, NotSent, PageSent, ChunkFails, LoopStops, EraseAll, session
  <2> QED
    BY <2>1 DEF SentInv, Asleep
<1>8. CASE DeviceErases \/ DeviceWrites \/ RxTimeout \/ UNCHANGED vars
  <2>1. UNCHANGED <<pc, loads, upload, sent, done>>
    BY <1>8 DEF DeviceErases, DeviceWrites, RxTimeout, vars, session
  <2> QED
    BY <2>1 DEF SentInv
<1> QED
  BY <1>2, <1>3, <1>4, <1>5, <1>6, <1>7, <1>8 DEF Next

\* No page is forgotten before the upload is over.
LEMMA StrayStep ==
  ASSUME TypeInv, [Next]_vars
  PROVE  stray \subseteq stray' \/ Fini
<1>1. CASE TargetReset \/ Synced \/ OutOfSync \/ Flushed \/ SetUp
  BY <1>1, SyncSteps
<1>2. CASE \/ Start \/ EraseAll \/ Offer \/ Loaded \/ LoadFails \/ NotSent \/ PageSent
           \/ DeviceErases \/ DeviceWrites \/ ChunkDone \/ ChunkFails \/ RxTimeout
           \/ LoopStops \/ UNCHANGED vars
  BY <1>2 DEF Start, EraseAll, Offer, Loaded, LoadFails, NotSent, PageSent, DeviceErases,
              DeviceWrites, ChunkDone, ChunkFails, RxTimeout, LoopStops, vars
<1> QED
  BY <1>1, <1>2 DEF Next

\* Each step.
LEMMA IInvStep ==
  ASSUME PagesDiffer, IInv, [Next]_vars
  PROVE  IInv'
<1>1. TypeInv' /\ AddressInv' /\ SentInv' /\ PagesInPlace'
  BY TypeStep, AddressStep, SentStep, InPlaceStep DEF IInv
<1>2. CASE Fini
  <2>1. pc' = "off" /\ done' = {}
    BY <1>2 DEF Fini
  <2> QED
    BY <1>1, <2>1 DEF IInv, PagesInv
<1>3. SUFFICES ASSUME stray' = {}, ~Fini  PROVE  PagesInv'
  BY <1>1, <1>2 DEF IInv
<1>4. stray = {} /\ PagesInv
  BY <1>3, StrayStep DEF IInv
<1>5. CASE DeviceErases \/ DeviceWrites
  BY <1>4, <1>5, DeviceSteps
<1>6. CASE TargetReset \/ Synced \/ OutOfSync \/ Flushed \/ SetUp
  <2>1. UNCHANGED <<done, flash>> /\ pc' # "programming"
    BY <1>6, SyncSteps DEF IInv, session, Asleep
  <2> QED
    BY <1>4, <2>1 DEF PagesInv
<1>7. CASE EraseAll
  <2>1. /\ pc = "erase" /\ pc' \in {"ready", "over"} /\ UNCHANGED done
    BY <1>7 DEF EraseAll, session
  <2>2. done = {}
    <3>1. loads = 0
      BY <2>1, Sizes DEF IInv, TypeInv, TypeOK, Nested
    <3> QED
      BY <2>1, <3>1 DEF IInv, SentInv
  <2> QED
    BY <2>1, <2>2 DEF PagesInv
<1>8. CASE ChunkDone
  <2>1. /\ pc = "programming" /\ todo = "none" /\ pc' \in {"over", "ready"}
        /\ done' = done \cup {Current} /\ UNCHANGED flash
    BY <1>8 DEF ChunkDone, device
  <2> QED
    BY <1>4, <2>1 DEF PagesInv
<1>9. CASE PageSent
  <2>1. todo' = "erase" /\ UNCHANGED <<done, flash>>
    BY <1>9 DEF PageSent, session
  <2> QED
    BY <1>4, <2>1 DEF PagesInv
<1>10. CASE Start \/ Offer \/ Loaded \/ LoadFails \/ NotSent \/ ChunkFails \/ LoopStops
  <2>1. pc' # "programming" /\ UNCHANGED <<done, flash>>
    BY <1>10 DEF Start, Offer, Loaded, LoadFails, NotSent, ChunkFails, LoopStops, session, device
  <2> QED
    BY <1>4, <2>1 DEF PagesInv
<1>11. CASE RxTimeout \/ UNCHANGED vars
  <2>1. UNCHANGED <<pc, upload, sent, todo, done, flash>>
    BY <1>11 DEF RxTimeout, vars, session, device
  <2> QED
    BY <1>4, <2>1 DEF PagesInv, Current
<1> QED
  BY <1>3, <1>5, <1>6, <1>7, <1>8, <1>9, <1>10, <1>11 DEF Next

\* Each step is one of the abstract target, or none, as long as no page was sent
\* without its address.
LEMMA TargetStep ==
  ASSUME PagesDiffer, IInv, TypeInv', [Next]_vars, stray' = {}
  PROVE  [Target!Next]_(Target!vars)
<1> DEFINE Held == \/ pc \in {"load", "program", "programming", "refused"} \/ loads > 0
                   \/ pc = "over" /\ error /\ sent < Len(upload)
<1>1. /\ TypeInv /\ sent \in Nat /\ loads \in Nat /\ loads' \in Nat /\ done \subseteq Page
      /\ flash \in [Page -> {Old, Blank} \cup Page]
      /\ sent < Len(upload) => Current \in Page
  BY UploadType, Sizes DEF IInv, TypeInv, TypeOK
<1>0. (stray = {} /\ PagesInv) \/ Fini
  BY StrayStep DEF IInv
<1>2. InFlight = IF Held THEN {Current} ELSE {}
  BY DEF InFlight
<1>3. InFlight' = IF Held' THEN {Current'} ELSE {}
  BY DEF InFlight
<1>4. Held => sent < Len(upload)
  BY <1>1 DEF TypeInv
<1>5. ASSUME UNCHANGED <<upload, sent, flash, done>>
      PROVE  [Target!Next]_(Target!vars)
  <2>1. Current' = Current
    BY <1>5 DEF Current
  <2>2. CASE Held <=> Held'
    BY <1>2, <1>3, <1>5, <2>1, <2>2 DEF Target!vars
  <2>3. CASE Held /\ ~Held'
    BY <1>3, <1>5, <2>3 DEF Target!Next, Target!Fail
  <2>4. CASE ~Held /\ Held'
    <3>1. sent < Len(upload)
      BY <1>5, <2>4 DEF TypeInv
    <3> QED
      BY <1>1, <1>2, <1>3, <1>5, <2>1, <2>4, <3>1 DEF Target!Next, Target!Take
  <2> QED
    BY <2>2, <2>3, <2>4
<1>6. CASE \/ TargetReset \/ Synced \/ OutOfSync \/ Flushed \/ SetUp
           \/ Offer \/ Loaded \/ LoadFails \/ NotSent \/ PageSent
           \/ ChunkFails \/ RxTimeout \/ LoopStops \/ UNCHANGED vars
  <2>1. CASE TargetReset \/ Synced \/ OutOfSync \/ Flushed \/ SetUp
    <3>1. UNCHANGED <<upload, sent, flash, done>>
      BY <1>1, <2>1, SyncSteps DEF session
    <3> QED
      BY <1>5, <3>1
  <2>2. CASE \/ Offer \/ Loaded \/ LoadFails \/ NotSent \/ PageSent
             \/ ChunkFails \/ RxTimeout \/ LoopStops \/ UNCHANGED vars
    <3>1. UNCHANGED <<upload, sent, flash, done>>
      BY <2>2 DEF Offer, Loaded, LoadFails, NotSent, PageSent, ChunkFails,
                  RxTimeout, LoopStops, vars, session, device
    <3> QED
      BY <1>5, <3>1
  <2> QED
    BY <1>6, <2>1, <2>2
<1>7. CASE Start
  <2>1. pc = "off" /\ pc' = "reset" /\ UNCHANGED <<loads, flash, done>>
    BY <1>7 DEF Start, device
  <2>2. loads = 0
    BY <1>1, <2>1 DEF TypeInv
  <2>3. ~Held /\ ~Held'
    BY <2>1, <2>2
  <2> QED
    BY <1>2, <1>3, <2>1, <2>3 DEF Target!vars
<1>8. CASE EraseAll
  <2>1. /\ pc = "erase"
        /\ flash' = flash \/ (pc' = "ready" /\ flash' = [p \in Page |-> Blank])
        /\ UNCHANGED <<loads, upload, sent, done, error>>
    BY <1>8 DEF EraseAll, session
  <2>2. loads = 0
    BY <1>1, <2>1 DEF TypeInv, Nested
  <2>3. sent = 0 /\ done = {}
    BY <2>1, <2>2 DEF IInv, SentInv
  <2>4. CASE flash' = flash
    BY <1>5, <2>1, <2>4
  <2>5. CASE pc' = "ready" /\ flash' = [p \in Page |-> Blank]
    <3>1. InFlight = {} /\ InFlight' = {}
      BY <1>2, <1>3, <2>1, <2>2, <2>5
    <3>2. DOMAIN flash' = Page /\ \A p \in Page : flash'[p] = Blank /\ p \in Page \ done
      BY <2>3, <2>5
    <3> QED
      BY <2>1, <3>1, <3>2 DEF Target!Next, Target!Erase, Target!Changed
  <2> QED
    BY <2>1, <2>4, <2>5
<1>9. CASE DeviceErases \/ DeviceWrites
  <2>0. /\ todo # "none" /\ UNCHANGED <<pc, loads, error, upload, sent, done>>
    BY <1>9 DEF DeviceErases, DeviceWrites, session
  <2>1. loaded = Current /\ Held
    <3>1. ~Fini
      BY <2>0 DEF Fini, TypeInv
    <3> QED
      BY <1>0, <2>0, <3>1 DEF IInv, TypeInv, AddressInv
  <2>2. Current \in Page /\ Current \notin done /\ InFlight = {Current} /\ InFlight' = InFlight
    <3>1. sent < Len(upload) /\ Current' = Current
      BY <1>4, <2>0, <2>1 DEF Current
    <3>2. Held'
      BY <2>0, <2>1
    <3> QED
      BY <1>1, <1>2, <1>3, <2>1, <3>1, <3>2, CurrentIsNew DEF IInv
  <2>3. CASE DeviceErases
    <3>1. \A p \in Page : flash'[p] # flash[p] => p \in Page \ done /\ flash'[p] = Blank
      BY <1>1, <2>1, <2>2, <2>3 DEF DeviceErases
    <3>2. DOMAIN flash' = Page
      BY <1>1, <2>3 DEF DeviceErases
    <3> QED
      BY <2>0, <2>2, <3>1, <3>2 DEF Target!Next, Target!Erase, Target!Changed
  <2>4. CASE DeviceWrites
    <3>1. \A p \in Page : flash'[p] # flash[p] => p \in InFlight /\ flash'[p] = p
      BY <1>1, <2>1, <2>2, <2>4 DEF DeviceWrites
    <3>2. DOMAIN flash' = Page
      BY <1>1, <2>4 DEF DeviceWrites
    <3> QED
      BY <2>0, <2>2, <3>1, <3>2 DEF Target!Next, Target!Write, Target!Changed
  <2> QED
    BY <1>9, <2>3, <2>4
<1>10. CASE ChunkDone
  <2>1. /\ pc = "programming" /\ todo = "none" /\ ~error /\ pc' \in {"over", "ready"}
        /\ done' = done \cup {Current} /\ UNCHANGED <<flash, loads, error>>
    BY <1>10 DEF ChunkDone, device
  <2>2. loads = 0
    BY <1>1, <2>1 DEF TypeInv, Nested
  <2>3. Held /\ ~Held'
    BY <2>1, <2>2
  <2>4. flash[Current] = Current
    BY <1>0, <2>1 DEF Fini, PagesInv
  <2> QED
    BY <1>2, <1>3, <2>1, <2>3, <2>4 DEF Target!Next, Target!Done
<1>11. CASE Fini
  <2>1. /\ pc' = "off" /\ loads' = 0 /\ done' = {}
        /\ flash' = [p \in Page |-> IF flash[p] = Blank THEN Blank ELSE Old]
    BY <1>11 DEF Fini
  <2>2. ~Held'
    BY <2>1
  <2> QED
    BY <1>3, <2>1, <2>2 DEF Target!Next, Target!Restart
<1> QED
  BY <1>6, <1>7, <1>8, <1>9, <1>10, <1>11 DEF Next

\* The STK500 target does what the binary file layer expects of a target, if no
\* page is twice in an upload, until a page is sent without its address.
THEOREM IsAFlashTarget ==
  ASSUME PagesDiffer  PROVE Spec => ImplementsFlashTarget
<1>1. Init => Target!Init
  <2> SUFFICES ASSUME Init  PROVE  Target!Init
    OBVIOUS
  <2>1. InFlight = {} /\ done = {} /\ flash \in [Page -> {Old, Blank}]
    BY DEF Init, InFlight
  <2> QED
    BY <2>1 DEF Target!Init
<1>2. IInv /\ IInv' /\ [Next]_vars => [stray' = {} => Target!Next]_(Target!vars)
  BY TargetStep DEF IInv
<1>3. IInv /\ [Next]_vars => IInv'
  BY IInvStep
<1> QED
  BY <1>1, <1>2, <1>3, IInvInit, PTL DEF Spec, ImplementsFlashTarget
=============================================================================
