----------------------------- MODULE FlashTarget -----------------------------
(***************************************************************************)
(* What the binary file layer expects from a target (struct dfu_target_ops *)
(* and dfu_binary_file_chunk_done()): it takes one chunk at a time, writes *)
(* nothing but its bytes, each at its own address, and reports the chunk   *)
(* done when all of them are in flash.  What was reported stays there.     *)
(*                                                                         *)
(* The byte of address a is a itself; a cell that holds no byte of this    *)
(* upload is Old (left by another program) or Blank (erased).              *)
(***************************************************************************)

CONSTANTS
  Addr,       \* addresses of the device's memory
  Old, Blank

VARIABLES
  chunk,      \* the addresses of the chunk the target has, {} if none
  flash,      \* the memory
  done        \* the addresses reported done in this upload

vars == <<chunk, flash, done>>

Init ==
  /\ chunk = {} /\ done = {}
  /\ flash \in [Addr -> {Old, Blank}]

\* chunk_available() returns 0.
Take ==
  /\ chunk = {} /\ chunk' # {} /\ chunk' \subseteq Addr
  /\ UNCHANGED <<flash, done>>

\* What is in memory after a step that changes some cells.
Changed(cells, Value(_)) ==
  /\ DOMAIN flash' = Addr
  /\ \A a \in Addr : flash'[a] # flash[a] => a \in cells /\ flash'[a] = Value(a)
  /\ UNCHANGED <<chunk, done>>

\* The device writes some bytes of the chunk.
Write == LET Itself(a) == a IN Changed(chunk, Itself)

\* The device erases some memory that holds nothing the target reported.
Erase == LET Erased(a) == Blank IN Changed(Addr \ done, Erased)

\* dfu_binary_file_chunk_done(..., 0).
Done ==
  /\ chunk # {}
  /\ \A a \in chunk : flash[a] = a
  /\ chunk' = {} /\ done' = done \cup chunk
  /\ UNCHANGED flash

\* The target gives up.
Fail ==
  /\ chunk' = {}
  /\ UNCHANGED <<flash, done>>

\* The upload is over; another one begins, and the flash is old.
Restart ==
  /\ chunk' = {} /\ done' = {}
  /\ flash' = [a \in Addr |-> IF flash[a] = Blank THEN Blank ELSE Old]

Next ==
  \/ Take \/ Write \/ Erase
  \/ Done \/ Fail \/ Restart

Spec == Init /\ [][Next]_vars
=============================================================================
