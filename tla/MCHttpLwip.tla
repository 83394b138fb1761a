----------------------------- MODULE MCHttpLwip -----------------------------
(***************************************************************************)
(* The clients of the model-checking runs.                                 *)
(***************************************************************************)
EXTENDS HttpLwip

Plain(kind, data, after, pbufs) ==
  [kind |-> kind, data |-> data, after |-> after, pbufs |-> pbufs,
   chained |-> FALSE, lowMemory |-> FALSE, resets |-> FALSE, leaves |-> FALSE]

\* A browser reads the page, then two uploads compete, one of them in chains
\* and without memory to close, the other reset or closed early.  The headers
\* of the page and of the second upload may be cut.  Then come another page,
\* something that does not exist, something that is not HTTP, an empty upload
\* and one that is longer than request_buf.
Browsers ==
  [page  |-> Plain("get", 0, {}, {1, 2}),
   up1   |-> [Plain("post", 2, {"page"}, {2}) EXCEPT
                !.chained = TRUE, !.lowMemory = TRUE],
   up2   |-> [Plain("post", 2, {"page"}, {1, 3}) EXCEPT
                !.resets = TRUE, !.leaves = TRUE],
   again |-> Plain("get", 0, {"up1", "up2"}, {2}),
   icon  |-> Plain("missing", 0, {"again"}, {2}),
   tls   |-> Plain("garbage", 0, {"icon"}, {2}),
   none  |-> Plain("post", 0, {"tls"}, {4}),
   big   |-> Plain("post", 4, {"none"}, {8})]
=============================================================================
