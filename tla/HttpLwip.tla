------------------------------ MODULE HttpLwip ------------------------------
(***************************************************************************)
(* Reception of a file over HTTP with lwIP: the pool of TCP connections    *)
(* (src/tcp-conn-lwip-raw.c), the only HTTP connection                     *)
(* (src/rx-method-http-lwip.c) and the upload URL                          *)
(* (src/http-url-flash-upload.c).                                          *)
(*                                                                         *)
(* lwIP calls back between two iterations of the idle loop.  The loop      *)
(* polls the request: http_poll_idle() and http_on_event().                *)
(*                                                                         *)
(* A client opens one connection and sends one request.  A request is a    *)
(* sequence of units [client, at]: HeadLen units of headers and, for a     *)
(* POST, the head of the only part, the data and the last boundary.        *)
(***************************************************************************)
EXTENDS Integers, Sequences, SequencesExt, FiniteSets

CONSTANTS
  Requests,        \* what each client sends and what its host may do
  HeadLen,         \* units in the headers of a request
  MaxConnections,  \* MAX_CONNECTIONS
  BufSize,         \* sizeof(request_buf)
  PageLen,         \* data_end - data_start of the file that a GET reads
  Room             \* CONFIG_BINARY_FILE_BUFSIZE

Clients == DOMAIN Requests

\* kind       what is asked for: a file that exists, an upload, something
\*            that does not exist, or something that is not HTTP
\* data       units of data of an upload
\* after      clients that have finished before this one starts
\* pbufs      how many units a pbuf may have
\* chained    segments may come in two pbufs
\* lowMemory  lwIP may refuse to close the connection once (ERR_MEM)
\* resets     the client may reset the connection
\* leaves     the client may close before the request is complete
ASSUME RequestsOfClients ==
  \A c \in Clients :
    Requests[c] \in [kind : {"get", "post", "missing", "garbage"}, data : Nat,
                     after : SUBSET Clients, pbufs : SUBSET (Nat \ {0}),
                     chained : BOOLEAN,
                     lowMemory : BOOLEAN, resets : BOOLEAN, leaves : BOOLEAN]

ASSUME Sizes ==
  /\ HeadLen \in Nat \ {0} /\ MaxConnections \in Nat \ {0}
  /\ BufSize \in Nat \ {0} /\ PageLen \in Nat \ {0} /\ Room \in Nat \ {0}

ASSUME NulIsNoClient == "nul" \notin Clients

VARIABLES
  conn,     \* the pcb of a client, as its callbacks see it
  sent,     \* units of the client's request that were delivered
  fin,      \* the end of the client's stream was delivered
  reply,    \* what the client was answered
  tcp,      \* connections[]
  http,     \* http_connections[0]
  ready,    \* client_priv.request_ready
  serving,  \* client_priv.serving_request
  chain,    \* the second pbuf of the segment that is being received
  appended, \* blocks appended to the binary file
  room,     \* bf_space()
  written,  \* bf->written
  result,   \* "CRASH": a pointer to no connection was followed
  (* history *)
  misread,  \* clients whose request began with the method of an earlier one
  stray     \* a request was refused of which something was left

clientVars == <<conn, sent, fin, reply>>
fileVars   == <<appended, room, written>>
historyVars == <<misread, stray>>
vars == <<clientVars, tcp, http, ready, serving, chain, fileVars, result,
          historyVars>>

Slot == 1 .. MaxConnections
None == 0
Min2(a, b) == IF a < b THEN a ELSE b

Unit(c, i) == [client |-> c, at |-> i]

\* What request_buf holds where nothing was received.
Nul == [client |-> "nul", at |-> 0]

HasBody(c) == Requests[c].kind = "post"

StreamLen(c) == HeadLen + IF HasBody(c) THEN Requests[c].data + 2 ELSE 0

Complete(c) == sent[c] = StreamLen(c)

\* Where the data of an upload starts and ends.
DataStart(c) == HeadLen + 1
DataEnd(c)   == HeadLen + 1 + Requests[c].data

\* The units that end with an empty line: the last one of the headers and
\* the head of the part.
EndsWithEmptyLine(u) ==
  u # Nul /\ (u.at = HeadLen - 1 \/ (HasBody(u.client) /\ u.at = HeadLen))

IsBoundary(u) == u # Nul /\ HasBody(u.client) /\ u.at = DataEnd(u.client)

-----------------------------------------------------------------------------

Init ==
  /\ conn = [c \in Clients |-> "idle"]
  /\ sent = [c \in Clients |-> 0]
  /\ fin = [c \in Clients |-> FALSE]
  /\ reply = [c \in Clients |-> "none"]
  /\ tcp = [i \in Slot |-> [state |-> "FREE", client |-> "nul",
                            must_close |-> FALSE]]
  /\ http = [cd |-> None, buf |-> [i \in 0 .. BufSize - 1 |-> Nul],
             index |-> 0, method |-> FALSE, end_of_headers |-> 0,
             content_length |-> 0, can_close |-> FALSE, outgoing |-> 0]
  /\ ready = FALSE /\ serving = FALSE
  /\ chain = [client |-> "nul", left |-> 0]
  /\ appended = <<>> /\ room = Room /\ written = FALSE
  /\ result = "OK"
  /\ misread = {} /\ stray = FALSE

\* lwIP and the loop are between two callbacks.
Between == result = "OK" /\ chain.left = 0

\* The tcp connection that lwIP passes to the callbacks of a client's pcb.
Arg(c) == CHOOSE i \in Slot : tcp[i].client = c /\ tcp[i].state # "FREE"

\* c->cd points to a tcp connection that is open.
Usable == http.cd # None /\ tcp[http.cd].state # "FREE"

-----------------------------------------------------------------------------
(* Closing *)

\* tcp_conn_close(): tcp_close() may find no memory, then the poll callback
\* tries again.  When it closes, http_closed() frees the HTTP connection,
\* whichever tcp connection that one has.  h is http before the call.
TcpConnClose(i, h) ==
  LET c == tcp[i].client
  IN  \/ /\ Requests[c].lowMemory /\ ~tcp[i].must_close
         /\ tcp' = [tcp EXCEPT ![i].must_close = TRUE]
         /\ http' = h
         /\ UNCHANGED conn
      \/ /\ tcp' = [tcp EXCEPT ![i].must_close = FALSE, ![i].state = "FREE"]
         /\ http' = [h EXCEPT !.cd = None]
         /\ conn' = [conn EXCEPT ![c] = "closed"]

\* http_poll(): the connection is freed when it can be closed.
HttpPolled(h) == IF h.can_close THEN [h EXCEPT !.cd = None] ELSE h

\* tcp_conn_recv() without data: the client closed its side.
RemoteCloses(c) ==
  /\ Between /\ conn[c] = "open" /\ ~fin[c]
  /\ Complete(c) \/ Requests[c].leaves
  /\ fin' = [fin EXCEPT ![c] = TRUE]
  /\ \/ /\ http.can_close
        /\ TcpConnClose(Arg(c), HttpPolled(http))
     \/ /\ ~http.can_close
        /\ tcp' = [tcp EXCEPT ![Arg(c)].state = "CLOSING"]
        /\ UNCHANGED <<conn, http>>
  /\ UNCHANGED <<sent, reply, ready, serving, chain, fileVars, result,
                 historyVars>>

\* tcp_conn_poll(), when there is something to do.
TcpConnPoll(c) ==
  /\ Between /\ conn[c] = "open"
  /\ tcp[Arg(c)].must_close \/ http.can_close
  /\ TcpConnClose(Arg(c), IF tcp[Arg(c)].must_close THEN http
                          ELSE HttpPolled(http))
  /\ UNCHANGED <<sent, fin, reply, ready, serving, chain, fileVars, result,
                 historyVars>>

\* tcp_conn_error(): the client reset the connection.  The HTTP connection
\* is not told.
TcpConnError(c) ==
  /\ Between /\ conn[c] = "open" /\ Requests[c].resets
  /\ tcp' = [tcp EXCEPT ![Arg(c)].state = "FREE"]
  /\ conn' = [conn EXCEPT ![c] = "reset"]
  /\ UNCHANGED <<sent, fin, reply, http, ready, serving, chain, fileVars,
                 result, historyVars>>

-----------------------------------------------------------------------------
(* Opening *)

FreeSlots == {i \in Slot : tcp[i].state = "FREE"}

MayOpen(c) ==
  /\ Between /\ conn[c] = "idle"
  /\ \A p \in Requests[c].after : conn[p] \notin {"idle", "open"}

\* Wrong: the only HTTP connection is given to whoever comes.
TcpConnAccept_Busy(c) ==
  /\ MayOpen(c) /\ FreeSlots # {}
  /\ LET i == CHOOSE j \in FreeSlots : \A k \in FreeSlots : j <= k
     IN  /\ tcp' = [tcp EXCEPT ![i] = [state |-> "CONNECTED", client |-> c,
                                       must_close |-> FALSE]]
         /\ http' = [http EXCEPT !.cd = i, !.index = 0, !.buf[0] = Nul,
                                 !.can_close = FALSE]
  /\ conn' = [conn EXCEPT ![c] = "open"]
  /\ UNCHANGED <<sent, fin, reply, ready, serving, chain, fileVars, result,
                 historyVars>>

\* tcp_conn_accept() and http_accept().  What the previous request left in
\* the other fields of the HTTP connection stays there.
TcpConnAccept(c) ==
  /\ MayOpen(c) /\ FreeSlots # {} /\ http.cd = None
  /\ LET i == CHOOSE j \in FreeSlots : \A k \in FreeSlots : j <= k
     IN  /\ tcp' = [tcp EXCEPT ![i] = [state |-> "CONNECTED", client |-> c,
                                       must_close |-> FALSE]]
         /\ http' = [http EXCEPT !.cd = i, !.index = 0, !.buf[0] = Nul,
                                 !.can_close = FALSE]
  /\ conn' = [conn EXCEPT ![c] = "open"]
  /\ UNCHANGED <<sent, fin, reply, ready, serving, chain, fileVars, result,
                 historyVars>>

\* No tcp connection is free, or http_accept() refuses: lwIP drops the pcb.
TcpConnRefuse(c) ==
  /\ MayOpen(c) /\ (FreeSlots = {} \/ http.cd # None)
  /\ conn' = [conn EXCEPT ![c] = "refused"]
  /\ UNCHANGED <<sent, fin, reply, tcp, http, ready, serving, chain, fileVars,
                 result, historyVars>>

-----------------------------------------------------------------------------
(* Receiving *)

\* _http_request_error(): answer, close, and free even if tcp_close() failed.
RequestError(h) ==
  /\ reply' = [reply EXCEPT ![tcp[h.cd].client] = "error"]
  /\ TcpConnClose(h.cd, [h EXCEPT !.can_close = TRUE, !.cd = None])

\* phr_parse_request() finds all the headers at the beginning of request_buf.
Parsed(h) ==
  LET c == h.buf[0].client
  IN  /\ Requests[c].kind # "garbage"
      /\ \A i \in 0 .. HeadLen - 1 : i < h.index /\ h.buf[i] = Unit(c, i)

\* Headers of h once they are parsed.  Only an upload has a Content-Length.
WithHeaders(h) ==
  [h EXCEPT !.method = TRUE, !.end_of_headers = HeadLen,
            !.content_length =
               IF HasBody(h.buf[0].client)
               THEN StreamLen(h.buf[0].client) - HeadLen ELSE @]

\* A request whose headers end later fails as a wrong one does; the parser
\* has set method by then, unless the first bytes are not HTTP.
Rejected(h) ==
  [h EXCEPT !.method = Requests[h.buf[0].client].kind # "garbage"]

\* Wrong: the body is complete when as many bytes as it has were received.
AllBody_NoHeaders(h) == h.index >= h.content_length

AllBody(h) == h.index >= h.end_of_headers + h.content_length

\* http_recv() for one pbuf with n units of a client: appended to request_buf
\* whichever connection the client has.
HttpRecv(c, n) ==
  LET got == [http EXCEPT
                !.buf = [i \in 0 .. BufSize - 1 |->
                           IF i \in http.index .. http.index + n - 1
                           THEN Unit(c, sent[c] + i - http.index) ELSE @[i]],
                !.index = @ + n]
      h     == IF http.method THEN got ELSE WithHeaders(got)
      fits  == n <= BufSize - http.index
      valid == http.method \/ Parsed(got)
  IN  /\ sent' = [sent EXCEPT ![c] = @ + n]
      /\ \/ /\ fits /\ valid
            /\ http' = h
            /\ ready' = (ready \/ AllBody(h))
            /\ UNCHANGED <<conn, reply, tcp, result>>
         \/ /\ ~(fits /\ valid) /\ http.cd # None
            /\ RequestError(IF fits THEN Rejected(got) ELSE http)
            /\ UNCHANGED <<ready, result>>
         \/ /\ ~(fits /\ valid) /\ http.cd = None
            /\ result' = "CRASH"
            /\ UNCHANGED <<conn, reply, tcp, http, ready>>
      /\ misread' = IF http.method /\ http.index = 0 THEN misread \cup {c}
                    ELSE misread

\* The HTTP connection was freed, and its client still has a connection or
\* more to be received of this segment, or is to be served.
Refuses(c) ==
  LET freed == http.cd # None /\ http'.cd = None
      left  == conn'[c] = "open" \/ chain'.left > 0 \/ ready' \/ serving
  IN  stray' = (stray \/ (freed /\ left))

\* tcp_conn_recv(): a segment in one pbuf or in a chain of two.
TcpConnRecv(c) ==
  /\ Between /\ conn[c] = "open" /\ ~fin[c] /\ ~Complete(c)
  /\ \E n \in Requests[c].pbufs, m \in Requests[c].pbufs \cup {0} :
       /\ n + m <= StreamLen(c) - sent[c]
       /\ m > 0 => Requests[c].chained
       /\ HttpRecv(c, n)
       /\ chain' = [client |-> IF m > 0 THEN c ELSE "nul", left |-> m]
       /\ Refuses(c)
  /\ UNCHANGED <<fin, serving, fileVars>>

\* tcp_conn_recv(): the second pbuf of the chain, whatever became of the
\* connection.
TcpConnRecvNext ==
  /\ result = "OK" /\ chain.left > 0
  /\ HttpRecv(chain.client, chain.left)
  /\ chain' = [client |-> "nul", left |-> 0]
  /\ Refuses(chain.client)
  /\ UNCHANGED <<fin, serving, fileVars>>

-----------------------------------------------------------------------------
(* Serving *)

\* http_reset_request_data().  content_length is not reset.
Reset(h) ==
  [h EXCEPT !.index = 0, !.method = FALSE, !.end_of_headers = 0,
            !.outgoing = 0]

\* The request is done: the connection is closed, or will be.
Done(h) ==
  /\ ready' = FALSE /\ serving' = FALSE
  /\ TcpConnClose(h.cd, Reset([h EXCEPT !.can_close = TRUE]))

Answer(a) == reply' = [reply EXCEPT ![tcp[http.cd].client] = a]

\* http_poll_idle() reports an event and http_on_event() looks at the request.
AtRequest == Between /\ ready /\ ~serving

\* Where nothing was received there is no method.
Kind == IF http.buf[0] = Nul THEN "missing"
        ELSE Requests[http.buf[0].client].kind

\* method, path and the headers are those that were found in the part of an
\* earlier request that its first pbuf had: they point into request_buf,
\* at whatever is there now, and any of them but method may be missing.
Unparsed == http.end_of_headers = 0

\* The data of the upload: from the first empty line after the headers, which
\* strstr() looks for in the whole buffer, to the last boundary.
ContentsStarts ==
  {i + 1 : i \in {j \in http.end_of_headers .. BufSize - 1 :
                    EndsWithEmptyLine(http.buf[j])}}

ContentsStart ==
  CHOOSE i \in ContentsStarts : \A j \in ContentsStarts : i <= j

Boundaries ==
  {i \in http.end_of_headers .. http.index - 1 : IsBoundary(http.buf[i])}

ContentsEnd ==
  IF Boundaries = {} THEN http.index
  ELSE CHOOSE i \in Boundaries : \A j \in Boundaries : j <= i

Block == [i \in 1 .. ContentsEnd - ContentsStart |->
            http.buf[ContentsStart + i - 1]]

\* The url is not known or the upload has no contents, or no Content-Type:
\* http_request_error().
ServeError ==
  /\ AtRequest /\ Usable
  /\ Kind = "missing" \/ Unparsed \/ (Kind = "post" /\ ContentsStarts = {})
  /\ Answer("error")
  /\ Done(http)
  /\ UNCHANGED <<sent, fin, chain, fileVars, result,
                 historyVars>>

\* http_get_file(): the status, the headers and as much of the file as fits.
\* Or tcp_write() fails.
ServeGet ==
  /\ AtRequest /\ Usable /\ Kind = "get"
  /\ \/ \E n \in 0 .. PageLen - 1 :
          /\ http' = [http EXCEPT !.outgoing = PageLen - n]
          /\ ready' = FALSE /\ serving' = TRUE
          /\ UNCHANGED <<conn, reply, tcp>>
     \/ Answer("ok") /\ Done(http)
     \/ UNCHANGED reply /\ Done(http)
  /\ UNCHANGED <<sent, fin, chain, fileVars, result,
                 historyVars>>

\* http_async_send_data(): some more of the file, all of it, or an error.
SendMore ==
  /\ Between /\ ~AtRequest /\ http.outgoing > 0 /\ Usable
  /\ \/ \E n \in 1 .. http.outgoing - 1 :
          /\ http' = [http EXCEPT !.outgoing = @ - n]
          /\ UNCHANGED <<conn, reply, tcp, ready, serving>>
     \/ Answer("ok") /\ Done(http)
     \/ UNCHANGED reply /\ Done(http)
  /\ UNCHANGED <<sent, fin, chain, fileVars, result,
                 historyVars>>

\* The binary file is given a block: none of it when it does not fit, and the
\* request is tried again in the next iteration.  An empty block ends the file.
AppendBuffer(block) ==
  /\ appended' = Append(appended, block)
  /\ room' = room - Len(block)
  /\ UNCHANGED written

\* Wrong: what does not fit is dropped.
ServePost_Truncated ==
  /\ AtRequest /\ Kind = "post" /\ ContentsStarts # {}
  /\ room > 0 /\ Len(Block) > 0
  /\ AppendBuffer(SubSeq(Block, 1, Min2(room, Len(Block))))
  /\ Usable /\ Answer("ok") /\ Done(http)
  /\ UNCHANGED <<sent, fin, chain, result, historyVars>>

\* Wrong: request_ready is not set again while the answer waits.
ServePost_NotReadyAgain ==
  /\ AtRequest /\ Kind = "post" /\ ContentsStarts # {}
  /\ ContentsEnd - ContentsStart \in 1 .. room
  /\ AppendBuffer(Block)
  /\ \/ Usable /\ Answer("ok") /\ Done(http)
     \/ /\ Usable
        /\ ready' = FALSE /\ serving' = TRUE
        /\ UNCHANGED <<conn, reply, tcp, http>>
  /\ UNCHANGED <<sent, fin, chain, result, historyVars>>

\* http_flash_upload_post(): an upload that fits is appended and answered.
\* The answer may fail; or it does not fit in the send buffer, and then the
\* request stays ready until the next event.
ServePost ==
  /\ AtRequest /\ Kind = "post" /\ ContentsStarts # {}
  /\ ContentsEnd - ContentsStart \in 1 .. room
  /\ AppendBuffer(Block)
  /\ \/ Usable /\ Answer("ok") /\ Done(http) /\ UNCHANGED result
     \/ Usable /\ UNCHANGED <<reply, result>> /\ Done(http)
     \/ /\ Usable
        /\ ready' = TRUE /\ serving' = TRUE
        /\ UNCHANGED <<conn, reply, tcp, http, result>>
     \/ /\ ~Usable
        /\ result' = "CRASH"
        /\ UNCHANGED <<conn, reply, tcp, http, ready, serving>>
  /\ UNCHANGED <<sent, fin, chain, historyVars>>

\* find_url() looks at no path.
ServeNoPath ==
  /\ AtRequest /\ Unparsed
  /\ result' = "CRASH"
  /\ UNCHANGED <<clientVars, tcp, http, ready, serving, chain, fileVars,
                 historyVars>>

\* An upload without data marks the end of the file and is tried again.
\* Without a boundary the size that is appended is one less than that of the
\* data: of no data it is -1, which never fits.
ServeEmptyPost ==
  /\ AtRequest /\ Kind = "post" /\ ContentsStarts # {}
  /\ Boundaries # {} /\ ContentsEnd = ContentsStart
  /\ written' = TRUE
  /\ UNCHANGED <<clientVars, tcp, http, ready, serving, chain, appended, room,
                 result, historyVars>>

\* A request whose answer did not fit ends without it.
EndServing ==
  /\ Between /\ ready /\ serving /\ http.outgoing = 0 /\ Usable
  /\ Done(http)
  /\ UNCHANGED <<sent, fin, reply, chain, fileVars, result,
                 historyVars>>

\* The request is answered on a connection that is gone.
ServeNobody ==
  /\ Between /\ ~Usable
  /\ \/ ~AtRequest /\ (ready \/ http.outgoing > 0)
     \/ AtRequest /\ (Kind # "post" \/ ContentsStarts = {})
  /\ result' = "CRASH"
  /\ UNCHANGED <<clientVars, tcp, http, ready, serving, chain, fileVars,
                 historyVars>>

\* The binary file layer programs what it has (BinaryFile.tla).
Drain ==
  /\ result = "OK" /\ room < Room
  /\ room' = Room
  /\ UNCHANGED <<clientVars, tcp, http, ready, serving, chain, appended,
                 written, result, historyVars>>

-----------------------------------------------------------------------------

Event ==
  \/ ServeError \/ ServeGet \/ SendMore \/ ServePost \/ ServeEmptyPost
  \/ EndServing \/ ServeNobody \/ ServeNoPath

\* The loop goes round and there is no event, or the program has crashed.
NoEvent == (chain.left = 0 \/ result = "CRASH") /\ UNCHANGED vars

Next ==
  \/ \E c \in Clients :
       \/ TcpConnAccept(c) \/ TcpConnRefuse(c) \/ TcpConnRecv(c)
       \/ RemoteCloses(c) \/ TcpConnPoll(c) \/ TcpConnError(c)
  \/ TcpConnRecvNext
  \/ Event
  \/ Drain
  \/ NoEvent

Spec == Init /\ [][Next]_vars

\* The loop is called again and again, lwIP's timers run and the binary file
\* layer makes room.  Nothing is asked of the clients.
FairSpec ==
  /\ Spec
  /\ WF_vars(TcpConnRecvNext) /\ WF_vars(Event) /\ WF_vars(Drain)
  /\ \A c \in Clients : WF_vars(TcpConnPoll(c))

-----------------------------------------------------------------------------

Content(c) == [i \in 1 .. Requests[c].data |-> Unit(c, HeadLen + i)]

\* Every block given to the binary file is the whole data of one upload, and
\* no upload is given twice, however its request was cut into segments and
\* tried again (http_on_event(): "temporary error, retry later on").
\* Excepted are the requests that begin when the method of an earlier one was
\* left (misread), and all that follows the refusal of a request of which
\* something is left (stray).
BodiesAppended ==
  ~stray =>
    /\ \A i \in 1 .. Len(appended) :
         LET c == appended[i][1].client
         IN  HasBody(c) /\ (appended[i] = Content(c) \/ c \in misread)
    /\ IsInjective(appended)

\* A client is told that its upload is good only when all of it was appended,
\* never for the request of another client.  Exceptions: as above.
OkMeansAppended ==
  ~stray =>
    \A c \in Clients \ misread : reply[c] = "ok" =>
      /\ Complete(c)
      /\ HasBody(c) => \E i \in 1 .. Len(appended) : appended[i] = Content(c)

\* The HTTP connection belongs to a TCP connection that is open ("Invoked on
\* actual connection close", closed() of tcp-conn-lwip-raw.h), unless its
\* client reset it; every other TCP connection only waits to be closed; and
\* request_buf holds the request of the owner alone, complete when it is
\* ready.  Exceptions: as above.
OwnerIsServed ==
  ~stray =>
    /\ result = "OK" \/ misread # {} \/ \E c \in Clients : conn[c] = "reset"
    /\ \A c \in Clients :
         conn[c] = "open" => tcp[Arg(c)].must_close \/ http.cd = Arg(c)
    /\ http.cd # None =>
         LET c == tcp[http.cd].client
         IN  /\ conn[c] \in {"open", "reset"}
             /\ \A i \in 0 .. http.index - 1 : http.buf[i] = Unit(c, i)
             /\ ready \/ serving => Complete(c) \/ c \in misread

\* A request that http_recv() takes for ready is complete: what it says of
\* one whose headers have not all come ("Incomplete request, waiting").
ReadyIsComplete ==
  ready /\ Usable => Complete(tcp[http.cd].client)

\* A request without a body waits for as many bytes as the upload before it
\* had, because content_length is not reset.
WaitsForBody(c) == ~HasBody(c) /\ http.content_length > 0

\* A complete request that the loop is to answer.
Pending(c) ==
  /\ conn[c] = "open" /\ Complete(c)
  /\ HasBody(c) => Requests[c].data > 0
  /\ ~WaitsForBody(c) /\ c \notin misread /\ ~stray

\* A complete request comes to an end: its connection is closed, answered or
\* not, and the next client can be served.  An upload without data does not,
\* nor does a page that is asked for after an upload; other exceptions as
\* above.
RequestEnds ==
  \A c \in Clients :
    Pending(c) ~> (conn[c] = "reset" \/ (conn[c] = "closed" /\ http.cd = None))
=============================================================================
