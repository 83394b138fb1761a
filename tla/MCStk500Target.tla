--------------------------- MODULE MCStk500Target ---------------------------
(* Uploads of the runs of Stk500Target *)
EXTENDS Stk500Target

\* One page and two, in any order.
Files == {<<1>>, <<0, 1>>, <<2, 0>>}
=============================================================================
