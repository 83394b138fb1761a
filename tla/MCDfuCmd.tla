------------------------------ MODULE MCDfuCmd ------------------------------
(* Commands of the targets, for TLC *)
EXTENDS DfuCmd

Send(n) == [dir |-> "OUT", timed |-> FALSE, len |-> 0, answer |-> n, retry |-> 0]
Receive(n) == [dir |-> "IN", timed |-> TRUE, len |-> n, answer |-> 0, retry |-> 0]
Exchange == [dir |-> "OUT_IN", timed |-> FALSE, len |-> 0, answer |-> 0, retry |-> 0]
Delay == [dir |-> "NONE", timed |-> TRUE, len |-> 0, answer |-> 0, retry |-> 0]
NoDelay == [Delay EXCEPT !.timed = FALSE]
RetryFrom(i) == [Exchange EXCEPT !.retry = i]

\* stk500: an answer of two bytes, in one buffer or in two; stm32: two
\* exchanges.
SerialScripts == {<<Send(2), Receive(2)>>, <<Send(2), Receive(1), Receive(1)>>,
                  <<Send(1), Receive(1), Send(1), Receive(1)>>}

\* stm32_usart_read_memory(): an answer that is longer than FlushLen.
ReadScripts == {<<Send(1), Receive(1), Send(3), Receive(3)>>}

\* avrisp: load a byte, write a page and poll; nordic: a delay.
SpiScripts == {<<Send(0)>>, <<Send(0), Send(0), RetryFrom(2)>>,
               <<Send(0), Delay, Exchange, Delay>>}

\* A receive without a timeout, and a delay without one.
UntimedScripts == {<<Send(1), [Receive(1) EXCEPT !.timed = FALSE], NoDelay>>}

\* All of them.
Commands == SerialScripts \cup SpiScripts \cup UntimedScripts

\* avrisp _get_sync(): an exchange with a timeout.
SyncScripts == {<<Send(0), [Exchange EXCEPT !.timed = TRUE], Send(0)>>}
=============================================================================
