------------------------------- MODULE DfuCmd -------------------------------
(***************************************************************************)
(* The command engine of libdfu (src/target/dfu-cmd.c).  A target talks to *)
(* its device in commands; a command is an array of buffers, each of which *)
(* sends bytes (OUT), waits for an answer (IN), does both (OUT_IN) or      *)
(* waits (NONE).  dfu_cmd_start() runs the first buffer; the others run in *)
(* the idle loop, until the command ends and its completed callback runs.  *)
(*                                                                         *)
(* The descriptors of a target share one state and one timer.  A byte on   *)
(* the wire is the number of the command it answers.                       *)
(***************************************************************************)
EXTENDS Integers, Sequences

CONSTANTS
  Scripts,       \* the commands: sequences of buffers
  FlushLen,      \* size of dummy_buf
  MaxCommands,   \* the bound on commands started
  LateAnswers    \* can an answer arrive after the next command started?

\* A struct dfu_cmdbuf.  len: bytes an IN buffer reads; answer: bytes the
\* device answers an OUT buffer with; retry: buffer to go back to when the
\* completed callback fails, 0 without RETRY_ON_ERROR.
Buffers ==
  [dir : {"OUT", "IN", "OUT_IN", "NONE"}, timed : BOOLEAN,
   len : Nat, answer : Nat, retry : Nat]

\* A command begins with an OUT buffer that has no timeout.  Only OUT_IN
\* buffers without a timeout are retried, from an OUT buffer before them.
ASSUME ScriptsOK ==
  \A s \in Scripts :
    /\ s \in Seq(Buffers) /\ Len(s) > 0
    /\ s[1].dir = "OUT"
    /\ \A i \in DOMAIN s :
         /\ s[i].dir = "OUT" => ~s[i].timed
         /\ s[i].dir = "IN" => s[i].len > 0
         /\ s[i].retry # 0 =>
              /\ s[i].dir = "OUT_IN" /\ ~s[i].timed
              /\ s[i].retry \in 1 .. i - 1 /\ s[s[i].retry].dir = "OUT"

ASSUME BoundsOK ==
  FlushLen \in Nat /\ MaxCommands \in Nat /\ LateAnswers \in BOOLEAN

VARIABLES
  script,     \* descr->cmdbufs
  status,     \* state->status
  index,      \* state->cmdbuf_index, from 1
  received,   \* state->received
  armed,      \* how many times the timer of the command is in the list
  busy,       \* target->busy
  control,    \* "start": in dfu_cmd_start(); "loop"; "failed": loop over
  sync,       \* the caller waits in dfu_cmd_do_sync()
  returned,   \* what dfu_cmd_do_sync() returned, or "nothing"
  fifo,       \* bytes received and not read
  owed,       \* bytes the device will send
  started,    \* history: commands started
  reported,   \* history: calls of the completed callback
  got         \* history: the commands whose answers this command has read

state == <<script, status, index, received, armed, busy>>
caller == <<control, sync, returned, started>>
wire == <<fifo, owed, got>>
vars == <<state, caller, wire, reported>>

Over == {"ok", "error", "timeout"}
Statuses == Over \cup {"initialized", "ready", "waiting", "retrying"}

Buf == script[index]

Init ==
  /\ script \in Scripts /\ status = "ok" /\ index = 1 /\ received = 0
  /\ armed = 0 /\ busy = FALSE
  /\ control = "loop" /\ sync = FALSE /\ returned = "nothing"
  /\ fifo = <<>> /\ owed = <<>>
  /\ started = 0 /\ reported = 0 /\ got = {}

-----------------------------------------------------------------------------
(* End of a buffer and of a command *)

\* _cmd_end(): the callback runs, the target is ready.
CmdEnd(s) ==
  /\ status' = s
  /\ reported' = reported + 1
  /\ busy' = FALSE

\* Wrong: the last buffer does not end the command.
Advance_OffByOne(i, s) ==
  /\ index' = i
  /\ IF i > Len(script) + 1 /\ s # "retrying" THEN CmdEnd("ok")
     ELSE status' = s /\ UNCHANGED <<reported, busy>>

\* Go on with buffer i; the command is over after the last one.
Advance(i, s) ==
  /\ index' = i
  /\ IF i > Len(script) /\ s # "retrying" THEN CmdEnd("ok")
     ELSE status' = s /\ UNCHANGED <<reported, busy>>

\* Wrong: the timer stays in the list when the callback fails.
NextBuf_KeepsTimer(ok, entries) ==
  /\ armed' = IF ok /\ Buf.timed /\ Buf.dir # "NONE" /\ entries > 0
              THEN entries - 1 ELSE entries
  /\ IF Buf.retry # 0
     THEN IF ok THEN Advance(index + 1, status) ELSE Advance(Buf.retry, "retrying")
     ELSE IF ok THEN Advance(index + 1, "initialized")
     ELSE CmdEnd("error") /\ UNCHANGED index

\* _next_buf(): ok is the result of the completed callback of the buffer,
\* entries how many times the timer is in the list when it is called.
NextBuf(ok, entries) ==
  IF Buf.retry # 0
  THEN /\ armed' = IF ok /\ Buf.timed /\ entries > 0 THEN entries - 1 ELSE entries
       /\ IF ok THEN Advance(index + 1, status) ELSE Advance(Buf.retry, "retrying")
  ELSE /\ armed' = IF Buf.timed /\ Buf.dir # "NONE" /\ entries > 0
                   THEN entries - 1 ELSE entries
       /\ IF ok THEN Advance(index + 1, "initialized")
          ELSE CmdEnd("error") /\ UNCHANGED index

-----------------------------------------------------------------------------
(* Start and return *)

\* dfu_cmd_start(), up to the first buffer.  A caller waits for the command
\* before.  Unless LateAnswers, the device has then sent all it will send.
Start(s, wait) ==
  /\ control = "loop" /\ ~busy /\ ~sync
  /\ started < MaxCommands
  /\ LateAnswers \/ owed = <<>>
  /\ script' = s /\ status' = "initialized" /\ index' = 1 /\ busy' = TRUE
  /\ control' = "start" /\ sync' = wait /\ returned' = "nothing"
  /\ started' = started + 1 /\ got' = {}
  /\ UNCHANGED <<received, armed, fifo, owed, reported>>

\* dfu_cmd_do_sync(): the loop ends with the command.
SyncReturns ==
  /\ control = "loop" /\ sync /\ status \in Over
  /\ returned' = status /\ sync' = FALSE
  /\ UNCHANGED <<state, control, started, wire, reported>>

\* dfu_idle() fails.  dfu_cmd_do_sync() then returns the status it finds; the
\* model ends here.
LoopFails ==
  /\ control = "loop"
  /\ control' = "failed" /\ sync' = FALSE
  /\ returned' = IF sync THEN status ELSE returned
  /\ UNCHANGED <<state, started, wire, reported>>

-----------------------------------------------------------------------------
(* _do_cmdbuf(): one buffer, in dfu_cmd_start() or dfu_cmd_on_idle() *)

Runnable ==
  /\ control \in {"start", "loop"}
  /\ status \in {"initialized", "retrying", "ready"}
  /\ index \in DOMAIN script

\* dfu_cmd_start() returns after its first buffer.
BackInLoop == control' = "loop" /\ UNCHANGED <<script, sync, returned, started>>

\* The timer is set before a new buffer runs.  (It is set again and again
\* until there is room in the list; no target has more timers than slots.)
Entries == IF status = "initialized" /\ Buf.timed THEN armed + 1 ELSE armed

\* Take n bytes at most.
Taken(n) == IF Len(fifo) < n THEN Len(fifo) ELSE n

Drop(n) == SubSeq(fifo, Taken(n) + 1, Len(fifo))

Take(n) ==
  /\ fifo' = Drop(n)
  /\ got' = got \cup {fifo[i] : i \in 1 .. Taken(n)}

\* Wrong: the interface is not flushed before a command is sent.
RunOut_NoFlush ==
  /\ Runnable /\ Buf.dir = "OUT" /\ BackInLoop
  /\ UNCHANGED <<fifo, got, received>>
  /\ \/ /\ NextBuf(TRUE, Entries)
        /\ owed' = owed \o [i \in 1 .. Buf.answer |-> started]
     \/ /\ CmdEnd("error")
        /\ UNCHANGED <<index, armed, owed>>

\* OUT: flush the interface and write.  The write may fail.
RunOut ==
  /\ Runnable /\ Buf.dir = "OUT" /\ BackInLoop
  /\ fifo' = Drop(FlushLen)
  /\ UNCHANGED <<got, received>>
  /\ \/ /\ NextBuf(TRUE, Entries)
        /\ owed' = owed \o [i \in 1 .. Buf.answer |-> started]
     \/ /\ CmdEnd("error")
        /\ armed' = Entries
        /\ UNCHANGED <<index, owed>>

\* Bytes an IN buffer has before it reads.
Kept == IF status \in {"initialized", "retrying"} THEN 0 ELSE received

\* Wrong: the timer is not cancelled when the answer is complete.
RunIn_KeepsTimer ==
  /\ Runnable /\ Buf.dir = "IN" /\ Buf.timed /\ BackInLoop
  /\ Take(Buf.len - Kept)
  /\ received' = Kept + Taken(Buf.len - Kept)
  /\ UNCHANGED owed
  /\ IF received' = Buf.len
     THEN /\ armed' = Entries
          /\ \/ Advance(index + 1, "initialized")
             \/ CmdEnd("error") /\ UNCHANGED index
     ELSE /\ status' = "waiting" /\ armed' = Entries
          /\ UNCHANGED <<index, busy, reported>>

\* IN: read what there is; when the answer is complete its callback accepts or
\* refuses it.
RunIn ==
  /\ Runnable /\ Buf.dir = "IN" /\ Buf.timed /\ BackInLoop
  /\ Take(Buf.len - Kept)
  /\ received' = Kept + Taken(Buf.len - Kept)
  /\ UNCHANGED owed
  /\ IF received' = Buf.len
     THEN \E ok \in BOOLEAN : NextBuf(ok, Entries)
     ELSE /\ status' = "waiting" /\ armed' = Entries
          /\ UNCHANGED <<index, busy, reported>>

\* IN without a timeout: _do_read() fails (ESP8266), or returns when it has
\* read the whole answer (Linux); then the buffer is read once more.
RunInAtOnce ==
  /\ Runnable /\ Buf.dir = "IN" /\ ~Buf.timed /\ BackInLoop
  /\ UNCHANGED owed
  /\ \/ /\ fifo = <<>>
        /\ CmdEnd("error")
        /\ UNCHANGED <<index, armed, received, fifo, got>>
     \/ /\ Len(fifo) >= Buf.len
        /\ LET more == IF Len(fifo) < 2 * Buf.len - Kept
                       THEN Len(fifo) - Buf.len ELSE Buf.len - Kept
           IN /\ Take(Buf.len + more)
              /\ received' = Kept + more
        /\ IF received' = Buf.len
           THEN \E ok \in BOOLEAN : NextBuf(ok, armed)
           ELSE /\ status' = "waiting"
                /\ UNCHANGED <<index, armed, busy, reported>>

\* OUT_IN: the bytes read are the ones the device sends at the same time.  The
\* transfer may fail; the timer then stays in the list.
RunOutIn ==
  /\ Runnable /\ Buf.dir = "OUT_IN" /\ BackInLoop
  /\ UNCHANGED <<received, wire>>
  /\ \/ \E ok \in BOOLEAN : NextBuf(ok, Entries)
     \/ CmdEnd("error") /\ armed' = Entries /\ UNCHANGED index

\* NONE: a delay.
RunNone ==
  /\ Runnable /\ Buf.dir = "NONE" /\ BackInLoop
  /\ UNCHANGED <<received, wire>>
  /\ IF Buf.timed
     THEN /\ status' = "waiting" /\ armed' = Entries
          /\ UNCHANGED <<index, busy, reported>>
     ELSE NextBuf(TRUE, Entries)

-----------------------------------------------------------------------------
(* Events of the idle loop *)

\* _on_cmd_timeout(); the loop removes the timer when it returns.  At the end
\* of a delay the next buffer is due; an answer that is late ends the command.
TimerFires ==
  /\ control = "loop" /\ armed > 0
  /\ UNCHANGED <<caller, script, received, wire>>
  /\ IF index \in DOMAIN script /\ Buf.dir = "NONE"
     THEN NextBuf(TRUE, armed - 1)
     ELSE CmdEnd("timeout") /\ armed' = armed - 1 /\ UNCHANGED index

\* dfu_cmd_on_interface_event(): bytes for a command that waits, or bytes
\* nobody waits for.
InterfaceEvent ==
  /\ control = "loop" /\ fifo # <<>>
  /\ \/ /\ status = "waiting"
        /\ status' = "ready"
        /\ UNCHANGED fifo
     \/ /\ status \in {"ok", "error"}
        /\ fifo' = Drop(FlushLen)
        /\ UNCHANGED status
  /\ UNCHANGED <<script, index, received, armed, busy, caller, owed, got, reported>>

\* The device sends a byte, or the byte is lost.
Answer ==
  /\ control # "failed" /\ owed # <<>>
  /\ owed' = Tail(owed)
  /\ \/ fifo' = Append(fifo, Head(owed))
     \/ UNCHANGED fifo
  /\ UNCHANGED <<state, caller, got, reported>>

RunBuffer == RunOut \/ RunIn \/ RunInAtOnce \/ RunOutIn \/ RunNone

Next ==
  \/ \E s \in Scripts, wait \in BOOLEAN : Start(s, wait)
  \/ SyncReturns \/ LoopFails
  \/ RunOut \/ RunIn \/ RunInAtOnce \/ RunOutIn \/ RunNone
  \/ TimerFires \/ InterfaceEvent \/ Answer

Spec == Init /\ [][Next]_vars

\* dfu_idle() is called again and again: it runs a buffer that can run and
\* fires a timer that is due.
FairSpec == Spec /\ WF_vars(RunBuffer) /\ WF_vars(TimerFires)

-----------------------------------------------------------------------------
(* Properties *)

TypeOK ==
  /\ script \in Scripts /\ status \in Statuses
  /\ index \in 1 .. Len(script) + 1
  /\ received \in Nat /\ armed \in Nat
  /\ busy \in BOOLEAN /\ sync \in BOOLEAN
  /\ control \in {"start", "loop", "failed"}
  /\ returned \in Statuses \cup {"nothing"}
  /\ fifo \in Seq(1 .. MaxCommands) /\ owed \in Seq(1 .. MaxCommands)
  /\ started \in 0 .. MaxCommands /\ reported \in Nat
  /\ got \subseteq 1 .. MaxCommands

\* The completed callback runs exactly once for every command, whatever the
\* order of answers, errors and timeouts: a chunk is reported done once.  The
\* target is busy until then, and its status says so.
ReportedOnce ==
  /\ reported + (IF busy THEN 1 ELSE 0) = started
  /\ busy <=> status \notin Over

\* A command that waits at a buffer with a timeout has its timer in the list,
\* once: it cannot wait forever.  The timer is in the list at no other time: it
\* cannot end a command it was not set for.
TimerWhileWaiting ==
  armed = IF status \in {"waiting", "ready"} /\ Buf.timed THEN 1 ELSE 0

\* A command that is not over is at one of its buffers.
InsideScript == busy => index \in DOMAIN script

\* A command reads no answer to another command.
AnswersMatch == got \subseteq {started}

\* "Synchronously complete command" (dfu-cmd.h): when dfu_cmd_do_sync()
\* returns, the command is over.
SyncCompletes == returned # "nothing" => returned \in Over

\* Every command that neither polls the device nor waits without a timeout
\* ends: the device may say nothing, the timer ends it.
NeedsNoAnswer(s) ==
  \A i \in DOMAIN s : s[i].retry = 0 /\ (s[i].dir = "IN" => s[i].timed)

CommandEnds == busy /\ NeedsNoAnswer(script) ~> ~busy \/ control = "failed"
=============================================================================
