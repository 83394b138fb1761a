---------------------------- MODULE MCStm32Target ----------------------------
(* Devices and uploads of the runs of Stm32Target *)
EXTENDS Stm32Target

Flash(a, b, starts, w) ==
  [first |-> a, last |-> b, sectors |-> starts, word |-> w]

\* Two banks and RAM.  As in the table of the f469 each bank has more sectors
\* than a word has bits for the code, and the masks follow one another: the
\* last sector of the first bank has the bit of the first one of the second,
\* and the last sector of the second bank a bit of somebody else.
TwoBanks == <<Flash(0, 5, <<0, 2, 4>>, 0), Flash(6, 11, <<6, 8, 10>>, 1),
              Flash(12, 13, <<>>, 0)>>

C(a, n) == [addr |-> a, len |-> n]

\* Chunks within a sector, across two, across three, in both banks, across
\* them, in RAM; in sectors that have a bit for themselves, or not.
Files == {<<C(0, 1), C(1, 2)>>, <<C(1, 3), C(4, 2), C(6, 1)>>, <<C(0, 6)>>,
          <<C(7, 2), C(12, 2)>>, <<C(9, 2), C(5, 2)>>}
=============================================================================
