---------------------------- MODULE Stk500Target ----------------------------
(***************************************************************************)
(* The STK500 target (src/target/stk500.c) and the boot loader of its      *)
(* device: synchronisation with attempts and flushes, the commands that    *)
(* set the device up, and pages: an address is loaded, up to three times,  *)
(* and the page is sent.                                                   *)
(*                                                                         *)
(* A synchronous command ends with 0, an error, a timeout, or, as soon as  *)
(* the loop it runs in fails, with a positive status (dfu_cmd_do_sync()).  *)
(***************************************************************************)
EXTENDS Integers, Sequences

CONSTANTS
  Page,         \* pages of the flash of the device
  Uploads,      \* the uploads: sequences of pages
  MaxUploads,   \* bound on uploads
  MaxSync,      \* MAX_SYNC_ATTEMPTS
  MaxLoads,     \* attempts to load an address
  Old, Blank

ASSUME ConstantsOK ==
  /\ Page # {} /\ Uploads \subseteq Seq(Page) \ {<<>>}
  /\ MaxUploads \in Nat
  /\ MaxSync \in Nat \ {0} /\ MaxLoads \in Nat \ {0}
  /\ Old \notin Page /\ Blank \notin Page /\ Old # Blank

VARIABLES
  pc,         \* what the target is doing
  loads,      \* attempts to load the address of this page; 0 outside
              \* chunk_available()
  attempts,   \* attempts to synchronise
  setup,      \* the command of the set up that runs
  upload,     \* the pages of this upload
  sent,       \* how many of them are done
  error,      \* dfu->error
  uploads,    \* uploads begun
  loaded,     \* the device: the address it has
  todo,       \* the device: what it has still to do of the page it was sent
  flash,      \* the device: the page each page has the bytes of
  done,       \* history: the pages reported done
  stray       \* history: the pages whose address was loaded in no attempt

device == <<loaded, todo, flash>>
session == <<upload, sent, uploads, done>>
vars == <<pc, loads, attempts, setup, session, error, device, stray>>

\* The commands of stk500_reset_and_sync() after _get_sync().
Setup == <<"major", "minor", "device", "ext", "progmode">>

Nested  == {"reset", "sync", "flush", "setup", "load"}   \* a synchronous command
Places  == Nested \cup {"off", "erase", "ready", "program", "programming", "refused", "over"}

Current == upload[sent + 1]

-----------------------------------------------------------------------------

Init ==
  /\ pc = "off" /\ loads = 0 /\ attempts = 0 /\ setup = 1
  /\ upload \in Uploads /\ sent = 0 /\ error = FALSE /\ uploads = 0
  /\ loaded \in Page /\ todo = "none"
  /\ flash = [p \in Page |-> Old] /\ done = {} /\ stray = {}

\* dfu_target_reset(), from the application.
Start ==
  /\ pc = "off" /\ uploads < MaxUploads
  /\ pc' = "reset" /\ uploads' = uploads + 1 /\ upload' \in Uploads
  /\ UNCHANGED <<loads, attempts, setup, sent, done, error, device, stray>>

-----------------------------------------------------------------------------
(* stk500_reset_and_sync() *)

\* It returns: a failure ends what the application does, and is ignored by
\* chunk_available(), which tries the address again or, after the last attempt,
\* goes on without.
Return(next) ==
  \/ loads = 0 /\ pc' = next /\ UNCHANGED <<loads, stray>>
  \/ loads \in 1 .. MaxLoads - 1 /\ pc' = "load" /\ loads' = loads + 1 /\ UNCHANGED stray
  \/ loads = MaxLoads /\ pc' = "program" /\ loads' = 0 /\ stray' = stray \cup {Current}

\* The device is reset, and has no address of ours; or that fails.
TargetReset ==
  /\ pc = "reset"
  /\ \/ /\ pc' = "sync" /\ attempts' = 1
        /\ loaded' \in Page /\ todo' = "none" /\ UNCHANGED <<loads, flash, stray>>
     \/ Return("over") /\ UNCHANGED <<attempts, device>>
  /\ UNCHANGED <<setup, session, error>>

\* Wrong: the attempt is not counted.
NextAttempt_Same ==
  pc' = "sync" /\ UNCHANGED <<attempts, loads, stray>>

\* The next round of the loop of _get_sync().
NextAttempt ==
  IF attempts < MaxSync
  THEN pc' = "sync" /\ attempts' = attempts + 1 /\ UNCHANGED <<loads, stray>>
  ELSE Return("over") /\ UNCHANGED attempts

\* The device answers, or nothing comes.
Synced ==
  /\ pc = "sync" /\ ~error
  /\ \/ pc' = "setup" /\ setup' = 1 /\ UNCHANGED <<attempts, loads, stray>>
     \/ NextAttempt /\ UNCHANGED setup
  /\ UNCHANGED <<session, error, device>>

\* Another answer comes, or the loop has failed: any status but a timeout.
OutOfSync ==
  /\ pc = "sync" /\ pc' = "flush"
  /\ UNCHANGED <<loads, attempts, setup, session, error, device, stray>>

\* "Flush input and wait 300ms more": until a timeout, which a loop that has
\* failed does not report.
Flushed ==
  /\ pc = "flush" /\ ~error
  /\ NextAttempt
  /\ UNCHANGED <<setup, session, error, device>>

\* A command of the set up, which passes for done once the loop has failed.
SetUp ==
  /\ pc = "setup"
  /\ \/ /\ setup < Len(Setup) /\ setup' = setup + 1
        /\ UNCHANGED <<pc, loads, stray>>
     \/ /\ setup = Len(Setup) /\ Return("erase") /\ UNCHANGED setup
     \/ /\ ~error /\ Return("over") /\ UNCHANGED setup
  /\ UNCHANGED <<attempts, session, error, device>>

\* dfu_target_erase_all(): boot loaders that erase each page they program
\* answer and do nothing.
EraseAll ==
  /\ pc = "erase"
  /\ \/ pc' = "ready" /\ flash' \in {flash, [p \in Page |-> Blank]}
     \/ pc' = "over" /\ UNCHANGED flash
  /\ UNCHANGED <<loads, attempts, setup, session, error, loaded, todo, stray>>

-----------------------------------------------------------------------------
(* stk500_chunk_available() *)

\* The first attempt to load the address.
Offer ==
  /\ pc = "ready" /\ ~error /\ sent < Len(upload)
  /\ pc' = "load" /\ loads' = 1
  /\ UNCHANGED <<attempts, setup, session, error, device, stray>>

\* The device has the address and says so.
Loaded ==
  /\ pc = "load" /\ ~error
  /\ loaded' = Current
  /\ pc' = "program" /\ loads' = 0
  /\ UNCHANGED <<attempts, setup, session, error, todo, flash, stray>>

\* Wrong: the page is sent after the first failure.
LoadFails_NoRetry ==
  /\ pc = "load"
  /\ loaded' \in {loaded, Current}
  /\ pc' = "program" /\ loads' = 0
  /\ UNCHANGED <<attempts, setup, session, error, todo, flash, stray>>

\* It says anything else, or nothing, whether it has the address or not; or
\* the loop has failed.
LoadFails ==
  /\ pc = "load"
  /\ loaded' \in {loaded, Current}
  /\ pc' = "reset"
  /\ UNCHANGED <<loads, attempts, setup, session, error, todo, flash, stray>>

\* The first bytes of the page command are sent, or that fails: the callback
\* reports it, and chunk_available() too.
NotSent ==
  /\ pc = "program" /\ pc' = "over"
  /\ UNCHANGED <<loads, attempts, setup, session, error, device, stray>>

\* The loop sends the others.
PageSent ==
  /\ pc = "program" /\ ~error
  /\ pc' = "programming" /\ todo' = "erase"
  /\ UNCHANGED <<loads, attempts, setup, session, error, loaded, flash, stray>>

\* The device erases the page it has the address of, then writes it.
DeviceErases ==
  /\ todo = "erase" /\ todo' = "write"
  /\ flash' = [flash EXCEPT ![loaded] = Blank]
  /\ UNCHANGED <<pc, loads, attempts, setup, session, error, loaded, stray>>

DeviceWrites ==
  /\ todo = "write" /\ todo' = "none"
  /\ flash' = [flash EXCEPT ![loaded] = Current]
  /\ loaded' \in Page
  /\ UNCHANGED <<pc, loads, attempts, setup, session, error, stray>>

\* _chunk_done() with DFU_CMD_STATUS_OK; the upload is over with the last page.
ChunkDone ==
  /\ pc = "programming" /\ ~error /\ todo = "none"
  /\ sent' = sent + 1 /\ done' = done \cup {Current}
  /\ pc' = IF sent + 1 = Len(upload) THEN "over" ELSE "ready"
  /\ UNCHANGED <<loads, attempts, setup, upload, uploads, error, device, stray>>

\* Wrong: the status is not looked at.
ChunkFails_Done ==
  /\ pc = "programming" /\ ~error
  /\ sent' = sent + 1 /\ done' = done \cup {Current}
  /\ pc' = IF sent + 1 = Len(upload) THEN "over" ELSE "ready"
  /\ UNCHANGED <<loads, attempts, setup, upload, uploads, error, device, stray>>

\* _chunk_done() after an error or a timeout: dfu_binary_file_chunk_done()
\* does nothing, and no error is notified.
ChunkFails ==
  /\ pc = "programming" /\ ~error
  /\ pc' = "refused"
  /\ UNCHANGED <<loads, attempts, setup, session, error, device, stray>>

-----------------------------------------------------------------------------
(* The end of an upload *)

\* The timeout of the upload, set when its format is found and again with
\* each page.
RxTimeout ==
  /\ ~error
  /\ pc \in {"ready", "program", "programming", "refused"} \/ (pc \in Nested /\ loads > 0)
  /\ error' = TRUE
  /\ UNCHANGED <<pc, loads, attempts, setup, session, device, stray>>

\* dfu_idle() returns DFU_ERROR to the application.
LoopStops ==
  /\ error /\ pc \in {"ready", "program", "programming", "refused"}
  /\ pc' = "over"
  /\ UNCHANGED <<loads, attempts, setup, session, error, device, stray>>

\* dfu_fini(): what is in flash is old then.
Fini ==
  /\ pc = "over"
  /\ pc' = "off" /\ error' = FALSE /\ sent' = 0 /\ done' = {} /\ stray' = {}
  /\ loads' = 0
  /\ flash' = [p \in Page |-> IF flash[p] = Blank THEN Blank ELSE Old]
  /\ todo' = "none"
  /\ UNCHANGED <<attempts, setup, upload, uploads, loaded>>

\* The steps of the library that wait for nobody; a command that is not
\* answered ends with its timeout.
HostStep ==
  \/ TargetReset \/ Synced \/ SetUp \/ EraseAll
  \/ Offer \/ Loaded \/ LoadFails \/ NotSent \/ PageSent
  \/ ChunkDone \/ ChunkFails \/ LoopStops
  \/ (pc = "refused" /\ RxTimeout) \/ (error /\ OutOfSync)

Next ==
  \/ Start \/ TargetReset \/ Synced \/ OutOfSync \/ Flushed \/ SetUp \/ EraseAll
  \/ Offer \/ Loaded \/ LoadFails \/ NotSent \/ PageSent
  \/ DeviceErases \/ DeviceWrites
  \/ ChunkDone \/ ChunkFails \/ RxTimeout \/ LoopStops \/ Fini

Spec == Init /\ [][Next]_vars

FairSpec == Spec /\ WF_vars(HostStep)

-----------------------------------------------------------------------------
(* Properties *)

TypeOK ==
  /\ pc \in Places /\ loads \in 0 .. MaxLoads /\ attempts \in 0 .. MaxSync
  /\ setup \in DOMAIN Setup
  /\ upload \in Uploads /\ sent \in 0 .. Len(upload) /\ uploads \in 0 .. MaxUploads
  /\ error \in BOOLEAN /\ todo \in {"none", "erase", "write"}
  /\ loaded \in Page /\ flash \in [Page -> {Old, Blank} \cup Page]
  /\ done \subseteq Page /\ stray \subseteq Page

\* stk500_chunk_available(): a page is programmed at its own address, not at
\* one the device had from another page or after a reset, whatever fails between
\* the address and the page; but for the pages that are sent although none of
\* the attempts loaded their address.
PagesInPlace == \A p \in Page : flash[p] \in {Old, Blank, p} \cup stray

\* "address loaded ok", once the loop of the attempts is over: the device has
\* the address of the page it is sent.
AddressLoaded == todo # "none" => loaded = Current

\* The target does what the binary file layer expects, as long as no page was
\* sent without its address in this upload.  After an error the page is in
\* flight until dfu_fini().
InFlight ==
  IF \/ pc \in {"load", "program", "programming", "refused"} \/ loads > 0
     \/ pc = "over" /\ error /\ sent < Len(upload)
  THEN {Current} ELSE {}
Target == INSTANCE FlashTarget WITH Addr <- Page, chunk <- InFlight
ImplementsFlashTarget ==
  Target!Init /\ [][stray' = {} => Target!Next]_(Target!vars)

\* An upload that began ends, whatever the device does, but for a flush that
\* never does.
UploadEnds == pc = "reset" ~> (pc = "over" \/ [](pc = "flush"))
=============================================================================
