--------------------------- MODULE MCAvrispTarget ---------------------------
(* Uploads of the runs of AvrispTarget *)
EXTENDS AvrispTarget

Cells == 0 .. 11

\* A page in two chunks, the second with an odd length; a jump backwards, from
\* a short chunk to the half of another page.
Files ==
  {<<[addr |-> 0, len |-> 4], [addr |-> 4, len |-> 3]>>,
   <<[addr |-> 8, len |-> 2], [addr |-> 4, len |-> 4]>>}
=============================================================================
