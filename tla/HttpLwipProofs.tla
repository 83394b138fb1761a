--------------------------- MODULE HttpLwipProofs ---------------------------
(***************************************************************************)
(* What is true of the reception over lwIP whatever the clients send, in   *)
(* whatever order they come, reset and leave, for every size.  As long as  *)
(* nothing is stray the invariant holds; of a client that is misread it    *)
(* says only what is true of half a request too.                           *)
(***************************************************************************)
EXTENDS HttpLwip, TLAPS, SequenceTheorems, WellFoundedInduction

-----------------------------------------------------------------------------
(* The inductive invariant *)

Units == [client : Clients, at : Nat]

Owner == tcp[http.cd].client

\* A client has the HTTP connection and its request is not done.
Owned == http.cd # None /\ ~http.can_close

ClientTypes ==
  /\ conn \in [Clients -> {"idle", "open", "refused", "closed", "reset"}]
  /\ sent \in [Clients -> Nat]
  /\ \A c \in Clients : sent[c] <= StreamLen(c)
  /\ fin \in [Clients -> BOOLEAN]
  /\ reply \in [Clients -> {"none", "ok", "error"}]

TcpTypes ==
  tcp \in [Slot -> [state : {"FREE", "CONNECTED", "CLOSING"},
                    client : Clients \cup {"nul"}, must_close : BOOLEAN]]

HttpConnections ==
  [cd : Slot \cup {None}, buf : [0 .. BufSize - 1 -> Units \cup {Nul}],
   index : 0 .. BufSize, method : BOOLEAN, end_of_headers : Nat,
   content_length : Nat, can_close : BOOLEAN, outgoing : Nat]

HttpTypes == http \in HttpConnections

OtherTypes ==
  /\ ready \in BOOLEAN /\ serving \in BOOLEAN
  /\ chain \in [client : Clients \cup {"nul"}, left : Nat]
  /\ appended \in Seq(Seq(Units))
  /\ room \in 0 .. Room /\ written \in BOOLEAN /\ result \in {"OK", "CRASH"}
  /\ misread \in SUBSET Clients

TypeInv == ClientTypes /\ TcpTypes /\ HttpTypes /\ OtherTypes

\* There is no open connection but the one of the client that has the HTTP
\* connection, and that one keeps it after a reset.
OneConnection ==
  /\ \A i \in Slot : i # http.cd => tcp[i].state = "FREE"
  /\ http.cd # None =>
       /\ Owner \in Clients
       /\ tcp[http.cd].state # "FREE" => conn[Owner] = "open"
       /\ tcp[http.cd].state = "FREE" => conn[Owner] = "reset"
       /\ tcp[http.cd].must_close = http.can_close
  /\ \A c \in Clients :
       conn[c] = "open" => http.cd # None /\ Owner = c
  /\ \A c \in Clients : conn[c] = "idle" => sent[c] = 0

\* The second pbuf of a chain finds the connection open.
ChainOpen ==
  chain.left > 0 =>
    /\ chain.client \in Clients /\ conn[chain.client] = "open"
    /\ sent[chain.client] + chain.left <= StreamLen(chain.client)

\* The headers found in request_buf are those of the owner.
OwnRequest ==
  /\ http.index > 0 /\ http.end_of_headers = HeadLen
  /\ HasBody(Owner) => http.content_length = StreamLen(Owner) - HeadLen

\* request_buf holds what the owner sent, until its request is done.
Buffered ==
  /\ Owned => /\ http.index = sent[Owner]
              /\ \A i \in 0 .. http.index - 1 : http.buf[i] = Unit(Owner, i)
              /\ ~http.method => http.index = 0
              /\ http.method /\ http.index > 0 /\ Owner \notin misread =>
                   OwnRequest
  /\ http.cd # None /\ http.can_close =>
       http.index = 0 /\ ~http.method /\ sent[Owner] > 0

\* A request is ready or served when all of it is in request_buf.
Served ==
  /\ ready \/ serving \/ http.outgoing > 0 =>
       /\ Owned /\ http.method /\ http.index > 0
       /\ Owner \notin misread =>
            OwnRequest /\ Complete(Owner) /\ chain.left = 0
  /\ http.outgoing > 0 => serving /\ Requests[Owner].kind = "get"

\* Only a request that is misread or whose client reset its connection is
\* served without one.
Crashed ==
  result = "CRASH" => misread # {} \/ \E c \in Clients : conn[c] = "reset"

\* The request of c will not be served again.
Past(c) ==
  /\ conn[c] # "idle"
  /\ Owned /\ Owner = c => serving \/ result = "CRASH"

\* Whose data a block is.
Sender(block) == block[1].client

\* What was appended is the data of uploads that will not be served again.
Uploads ==
  /\ \A i \in 1 .. Len(appended) :
       LET c == Sender(appended[i])
       IN  /\ c \in Clients /\ HasBody(c) /\ Past(c)
           /\ appended[i] = Content(c) \/ c \in misread
  /\ \A i, j \in 1 .. Len(appended) :
       Sender(appended[i]) = Sender(appended[j]) => i = j

\* OkMeansAppended, as it is kept.
Answered ==
  \A c \in Clients \ misread : reply[c] = "ok" =>
    /\ Complete(c)
    /\ HasBody(c) => \E i \in 1 .. Len(appended) : appended[i] = Content(c)

HInv ==
  /\ OneConnection /\ ChainOpen /\ Buffered /\ Served /\ Crashed /\ Uploads
  /\ Answered

IInv == TypeInv /\ HInv

-----------------------------------------------------------------------------

\* The free connection that is taken is the first one.
LEMMA LeastSlot ==
  ASSUME NEW S \in SUBSET Nat, S # {}
  PROVE  \E j \in S : \A k \in S : j <= k
<1> DEFINE R == OpToRel(<, Nat)
<1>1. IsWellFoundedOn(R, Nat)
  BY NatLessThanWellFounded
<1>2. \A x, y \in Nat : x < y <=> <<x, y>> \in R
  BY DEF OpToRel
<1> HIDE DEF R
<1>3. PICK j \in S : \A k \in S : ~(<<k, j>> \in R)
  BY <1>1, WFMin
<1>4. \A k \in S : ~(k < j)
  BY <1>2, <1>3
<1> QED
  BY <1>3, <1>4

\* The kinds of requests and the number of their units are what they should be.
LEMMA RequestTypes ==
  ASSUME NEW c \in Clients
  PROVE  /\ Requests[c].kind \in {"get", "post", "missing", "garbage"}
         /\ Requests[c].data \in Nat
         /\ Requests[c].pbufs \subseteq Nat \ {0}
         /\ StreamLen(c) \in Nat /\ StreamLen(c) >= HeadLen
         /\ HasBody(c) => StreamLen(c) = HeadLen + Requests[c].data + 2
         /\ ~HasBody(c) => StreamLen(c) = HeadLen
<1>1. Requests[c] \in [kind : {"get", "post", "missing", "garbage"}, data : Nat,
                     after : SUBSET Clients, pbufs : SUBSET (Nat \ {0}),
                     chained : BOOLEAN, lowMemory : BOOLEAN, resets : BOOLEAN, leaves : BOOLEAN]
  BY RequestsOfClients
<1>2. Requests[c].data \in Nat /\ Requests[c].pbufs \subseteq Nat \ {0}
  BY <1>1
<1> QED
  BY <1>1, <1>2, Sizes DEF StreamLen, HasBody

\* Every variable is of its type in the initial state, and nothing is there
\* that the invariant speaks of.
LEMMA InitInv == Init => IInv
<1> SUFFICES ASSUME Init PROVE IInv
  OBVIOUS
<1>1. ClientTypes
  <2>1. \A c \in Clients : 0 <= StreamLen(c)
    BY RequestTypes
  <2> QED
    BY <2>1 DEF Init, ClientTypes
<1>2. TcpTypes
  BY DEF Init, TcpTypes
<1>3. HttpTypes
  BY Sizes DEF Init, HttpTypes, HttpConnections, None
<1>4. OtherTypes
  <2>1. appended \in Seq(Seq(Units)) /\ misread \in SUBSET Clients
    BY DEF Init
  <2>2. room \in 0 .. Room
    BY Sizes DEF Init
  <2>3. chain \in [client : Clients \cup {"nul"}, left : Nat]
    BY DEF Init
  <2> QED
    BY <2>1, <2>2, <2>3 DEF Init, OtherTypes
<1>5. OneConnection
  BY DEF Init, OneConnection, None
<1>6. ChainOpen /\ Buffered /\ Served /\ Crashed
  BY DEF Init, ChainOpen, Buffered, Served, Crashed, Owned, None
<1>7. Uploads
  <2>1. appended = <<>> /\ Len(appended) = 0
    BY DEF Init
  <2> QED
    BY <2>1 DEF Uploads
<1>8. Answered
  BY DEF Init, Answered
<1> QED
  BY <1>1, <1>2, <1>3, <1>4, <1>5, <1>6, <1>7, <1>8 DEF IInv, TypeInv, HInv

\* The tcp connection of a client that is connected is the one of the HTTP
\* connection.
LEMMA ArgIsOwner ==
  ASSUME IInv, NEW c \in Clients, conn[c] = "open"
  PROVE  /\ http.cd \in Slot /\ http.cd # None /\ Owner = c
         /\ Arg(c) = http.cd /\ tcp[http.cd].state # "FREE"
         /\ tcp[http.cd].must_close = http.can_close
<1>1. http.cd \in Slot /\ http.cd # None /\ Owner = c
  BY DEF IInv, TypeInv, HttpTypes, HttpConnections, HInv, OneConnection
<1>2. tcp[http.cd].state # "FREE" /\ tcp[http.cd].must_close = http.can_close
  BY <1>1 DEF IInv, HInv, OneConnection
<1>3. \A i \in Slot :
        tcp[i].client = c /\ tcp[i].state # "FREE" <=> i = http.cd
  BY <1>1, <1>2 DEF IInv, HInv, OneConnection, Owner
<1> QED
  BY <1>1, <1>2, <1>3 DEF Arg

-----------------------------------------------------------------------------
(* Closing *)

\* The connection of the owner is closed and the HTTP connection is freed.
Closed(h) ==
  /\ http' = [h EXCEPT !.cd = None]
  /\ tcp' = [tcp EXCEPT ![http.cd].must_close = FALSE,
                        ![http.cd].state = "FREE"]
  /\ conn' = [conn EXCEPT ![Owner] = "closed"]

\* The connection of the owner stays until lwIP has memory to close it.
ToBeClosed(h) ==
  /\ http' = h
  /\ tcp' = [tcp EXCEPT ![http.cd].must_close = TRUE]
  /\ UNCHANGED conn

\* A connection whose closing failed is closed by the next callback of lwIP.
LEMMA RetryCloses ==
  ASSUME IInv, NEW c \in Clients, conn[c] = "open", http.can_close,
         NEW h, h \in {http, [http EXCEPT !.cd = None]},
         TcpConnClose(Arg(c), h)
  PROVE  /\ http.cd \in Slot /\ http.cd # None /\ Owner = c
         /\ Closed(http)
<1>1. /\ http.cd \in Slot /\ http.cd # None /\ Owner = c
      /\ Arg(c) = http.cd /\ tcp[http.cd].must_close
  BY ArgIsOwner
<1>2. [h EXCEPT !.cd = None] = [http EXCEPT !.cd = None]
  BY DEF IInv, TypeInv, HttpTypes, HttpConnections
<1> QED
  BY <1>1, <1>2 DEF TcpConnClose, Closed, Owner

\* The end of a request, with or without an answer.
LEMMA DoneCloses ==
  ASSUME IInv, Done(http)
  PROVE  LET h == Reset([http EXCEPT !.can_close = TRUE])
         IN  Closed(h) \/ ToBeClosed(h)
<1> DEFINE h == Reset([http EXCEPT !.can_close = TRUE])
<1>1. h.cd = http.cd
  BY DEF IInv, TypeInv, HttpTypes, HttpConnections, Reset
<1>2. TcpConnClose(http.cd, h)
  BY <1>1 DEF Done
<1> HIDE DEF h
<1>3. Closed(h) \/ ToBeClosed(h)
  BY <1>2 DEF TcpConnClose, Closed, ToBeClosed, Owner
<1> QED
  BY <1>3 DEF h

\* A request that is rejected is answered and its connection is closed, when
\* lwIP has the memory or tried before.
LEMMA ErrorCloses ==
  ASSUME IInv, Owner \in Clients, conn[Owner] = "open", conn'[Owner] # "open",
         NEW h, h.cd = http.cd, RequestError(h)
  PROVE  /\ reply' = [reply EXCEPT ![Owner] = "error"]
         /\ Closed([h EXCEPT !.can_close = TRUE, !.cd = None])
BY DEF RequestError, TcpConnClose, Closed, Owner

ConnTypes == conn \in [Clients -> {"idle", "open", "refused", "closed", "reset"}]

\* When the only connection is closed there is none.
LEMMA ClosedLeavesNone ==
  ASSUME IInv, http.cd \in Slot, conn[Owner] = "open", Owner \in Clients,
         NEW h \in HttpConnections, Closed(h),
         \A c \in Clients : c # Owner => sent'[c] = sent[c]
  PROVE  /\ ConnTypes' /\ TcpTypes' /\ HttpTypes' /\ OneConnection'
         /\ http'.cd = None /\ \A i \in Slot : tcp'[i].state = "FREE"
         /\ \A c \in Clients : conn[c] # "idle" => conn'[c] # "idle"
<1>1. ConnTypes'
  BY DEF IInv, TypeInv, ClientTypes, ConnTypes, Closed
<1>2. TcpTypes'
  BY DEF IInv, TypeInv, TcpTypes, Closed
<1>3. HttpTypes' /\ http'.cd = None
  BY DEF HttpTypes, HttpConnections, Closed
<1>4. \A i \in Slot : tcp'[i].state = "FREE"
  <2> TAKE i \in Slot
  <2>1. CASE i = http.cd
    BY <2>1 DEF IInv, TypeInv, TcpTypes, Closed
  <2>2. CASE i # http.cd
    BY <2>2 DEF IInv, TypeInv, TcpTypes, Closed, HInv, OneConnection
  <2> QED
    BY <2>1, <2>2
<1>5. \A c \in Clients : conn'[c] = IF c = Owner THEN "closed" ELSE conn[c]
  BY DEF Closed, IInv, TypeInv, ClientTypes
<1>6. \A c \in Clients : conn'[c] # "open"
  BY <1>5 DEF IInv, HInv, OneConnection
<1>7. \A c \in Clients : conn'[c] = "idle" => sent'[c] = 0
  BY <1>5 DEF IInv, HInv, OneConnection
<1>8. OneConnection'
  BY <1>3, <1>4, <1>6, <1>7 DEF OneConnection
<1> QED
  BY <1>1, <1>2, <1>3, <1>4, <1>5, <1>8

\* When it cannot be closed yet it keeps the HTTP connection.
LEMMA ToBeClosedKeeps ==
  ASSUME IInv, http.cd \in Slot, conn[Owner] = "open", Owner \in Clients,
         NEW h \in HttpConnections, h.cd = http.cd, h.can_close, ToBeClosed(h),
         UNCHANGED sent
  PROVE  /\ ConnTypes' /\ TcpTypes' /\ HttpTypes' /\ OneConnection'
         /\ Owner' = Owner
<1>1. ConnTypes' /\ HttpTypes'
  BY DEF IInv, TypeInv, ClientTypes, ConnTypes, HttpTypes, ToBeClosed
<1>2. TcpTypes'
  BY DEF IInv, TypeInv, TcpTypes, ToBeClosed
<1>3. http'.cd = http.cd
  BY DEF ToBeClosed
<1>4. Owner' = Owner
  BY <1>3 DEF ToBeClosed, Owner, IInv, TypeInv, TcpTypes
<1>5. \A i \in Slot : tcp'[i].state = tcp[i].state
  BY DEF ToBeClosed, IInv, TypeInv, TcpTypes
<1>6. tcp'[http'.cd].must_close = http'.can_close
  BY DEF ToBeClosed, IInv, TypeInv, TcpTypes
<1>7. OneConnection'
  BY <1>3, <1>4, <1>5, <1>6 DEF OneConnection, ToBeClosed, IInv, HInv
<1> QED
  BY <1>1, <1>2, <1>4, <1>7

\* Uploads that were appended stay appended.
LEMMA UploadsKept ==
  ASSUME Uploads, UNCHANGED appended, misread \subseteq misread',
         \A c \in Clients : Past(c) => Past(c)'
  PROVE  Uploads'
BY DEF Uploads, HasBody, Content, Sender

\* Answers that were given stay right.
LEMMA AnswersKept ==
  ASSUME Answered, UNCHANGED appended, misread \subseteq misread',
         \A c \in Clients : reply'[c] = "ok" => reply[c] = "ok",
         \A c \in Clients : Complete(c) => Complete(c)'
  PROVE  Answered'
BY DEF Answered, HasBody, Content

\* A connection that was to be closed is closed: the invariant holds.
LEMMA RetryStep ==
  ASSUME IInv, Between, NEW c \in Clients, conn[c] = "open", http.can_close,
         NEW h, h \in {http, [http EXCEPT !.cd = None]},
         TcpConnClose(Arg(c), h), fin' \in [Clients -> BOOLEAN],
         UNCHANGED <<sent, reply, ready, serving, chain, fileVars, result, misread>>
  PROVE  IInv'
<1>1. /\ http.cd \in Slot /\ http.cd # None /\ Owner = c /\ Closed(http)
  BY RetryCloses
<1>2. /\ ConnTypes' /\ TcpTypes' /\ HttpTypes' /\ OneConnection'
      /\ http'.cd = None
      /\ \A d \in Clients : conn[d] # "idle" => conn'[d] # "idle"
  <2>1. http \in HttpConnections
    BY DEF IInv, TypeInv, HttpTypes
  <2> QED
    BY <1>1, <2>1, ClosedLeavesNone
<1>3. TypeInv'
  BY <1>2 DEF IInv, TypeInv, ClientTypes, ConnTypes, OtherTypes, fileVars, StreamLen,
              HasBody, Content
<1>4. http' = [http EXCEPT !.cd = None] /\ ~http.method /\ http.index = 0
  BY <1>1 DEF Closed, IInv, HInv, Buffered
<1>5. ~ready /\ ~serving /\ http.outgoing = 0 /\ chain.left = 0
  BY DEF IInv, TypeInv, HttpTypes, HttpConnections, HInv, Served, Owned, Between
<1>6. ~http'.method /\ http'.outgoing = 0
  BY <1>4, <1>5 DEF IInv, TypeInv, HttpTypes, HttpConnections
<1>7. ChainOpen' /\ Buffered' /\ Served' /\ Crashed'
  BY <1>2, <1>5, <1>6 DEF ChainOpen, Buffered, Served, Crashed, Owned, Between
<1>8. \A d \in Clients : Past(d) => Past(d)'
  BY <1>2 DEF Past, Complete, StreamLen, HasBody, Owned
<1>9. Uploads'
  BY <1>8, UploadsKept DEF IInv, HInv, fileVars
<1>10. Answered'
  BY AnswersKept DEF IInv, HInv, fileVars, Complete
<1> QED
  BY <1>2, <1>3, <1>7, <1>9, <1>10 DEF IInv, HInv

\* A connection that could not be closed before is closed by lwIP's poll.
LEMMA TcpConnPollStep ==
  ASSUME IInv, NEW c \in Clients, TcpConnPoll(c)
  PROVE  IInv'
<1>1. conn[c] = "open" /\ http.can_close
  BY ArgIsOwner DEF TcpConnPoll, historyVars
<1>2. TcpConnClose(Arg(c), http)
      \/ TcpConnClose(Arg(c), [http EXCEPT !.cd = None])
  BY <1>1 DEF TcpConnPoll, HttpPolled
<1>3. fin' \in [Clients -> BOOLEAN]
  BY DEF TcpConnPoll, IInv, TypeInv, ClientTypes
<1>4. Between /\ UNCHANGED <<sent, reply, ready, serving, chain, fileVars, result, misread>>
  BY DEF TcpConnPoll, historyVars
<1> QED
  BY <1>1, <1>2, <1>3, <1>4, RetryStep

\* The client closes its side: its connection is closed, or waits for the end of
\* its request.
LEMMA RemoteClosesStep ==
  ASSUME IInv, NEW c \in Clients, RemoteCloses(c)
  PROVE  IInv'
<1>1. /\ conn[c] = "open" /\ fin' \in [Clients -> BOOLEAN] /\ Between
      /\ UNCHANGED <<sent, reply, ready, serving, chain, fileVars, result, misread>>
  BY DEF RemoteCloses, IInv, TypeInv, ClientTypes, historyVars
<1>2. CASE http.can_close
  <2>1. TcpConnClose(Arg(c), [http EXCEPT !.cd = None])
    BY <1>2 DEF RemoteCloses, HttpPolled
  <2> QED
    BY <1>1, <1>2, <2>1, RetryStep
<1>3. CASE ~http.can_close
  <2>1. /\ http.cd \in Slot /\ http.cd # None /\ Owner = c /\ Arg(c) = http.cd
    BY <1>1, ArgIsOwner
  <2>2. /\ tcp' = [tcp EXCEPT ![http.cd].state = "CLOSING"]
        /\ UNCHANGED <<conn, http>>
    BY <1>3, <2>1 DEF RemoteCloses
  <2>3. TypeInv'
    <3>1. TcpTypes'
      BY <2>2 DEF IInv, TypeInv, TcpTypes
    <3> QED
      BY <1>1, <2>2, <3>1 DEF IInv, TypeInv, ClientTypes, HttpTypes, OtherTypes, fileVars
  <2>4. /\ Owner' = Owner
        /\ \A i \in Slot : i # http.cd => tcp'[i] = tcp[i]
        /\ tcp'[http.cd].must_close = tcp[http.cd].must_close
        /\ tcp'[http.cd].state = "CLOSING"
    BY <2>1, <2>2 DEF IInv, TypeInv, TcpTypes, Owner
  <2>5. OneConnection'
    BY <1>1, <2>1, <2>2, <2>4 DEF IInv, HInv, OneConnection
  <2>6. ChainOpen' /\ Buffered' /\ Served' /\ Crashed'
    BY <1>1, <2>2, <2>4 DEF IInv, HInv, ChainOpen, Buffered, Served, Crashed, Owned,
         OwnRequest, Complete
  <2>7. Uploads'
    BY <1>1, <2>2, <2>4, UploadsKept DEF IInv, HInv, fileVars, Past, Complete, Owned
  <2>8. Answered'
    BY <1>1, AnswersKept DEF IInv, HInv, fileVars, Complete
  <2> QED
    BY <2>3, <2>5, <2>6, <2>7, <2>8 DEF IInv, HInv
<1> QED
  BY <1>2, <1>3

\* A reset leaves the HTTP connection to a client that has no connection.
LEMMA TcpConnErrorStep ==
  ASSUME IInv, NEW c \in Clients, TcpConnError(c)
  PROVE  IInv'
<1>1. /\ http.cd \in Slot /\ http.cd # None /\ Owner = c /\ Arg(c) = http.cd
      /\ tcp[http.cd].must_close = http.can_close
  BY ArgIsOwner DEF TcpConnError, historyVars
<1>2. /\ tcp' = [tcp EXCEPT ![http.cd].state = "FREE"]
      /\ conn' = [conn EXCEPT ![c] = "reset"]
      /\ UNCHANGED <<sent, fin, reply, http, ready, serving, chain, fileVars, result, misread>>
      /\ Between
  BY <1>1 DEF TcpConnError, historyVars
<1>3. TypeInv'
  <2>1. TcpTypes' /\ ConnTypes'
    BY <1>2 DEF IInv, TypeInv, TcpTypes, ConnTypes, ClientTypes
  <2> QED
    BY <1>2, <2>1 DEF IInv, TypeInv, ClientTypes, ConnTypes, HttpTypes, OtherTypes, fileVars
<1>4. /\ Owner' = Owner
      /\ \A i \in Slot : i # http.cd => tcp'[i] = tcp[i]
      /\ tcp'[http.cd].must_close = tcp[http.cd].must_close
      /\ tcp'[http.cd].state = "FREE"
  BY <1>1, <1>2 DEF IInv, TypeInv, TcpTypes, Owner
<1>5. \A d \in Clients : conn'[d] = IF d = c THEN "reset" ELSE conn[d]
  BY <1>2 DEF IInv, TypeInv, ClientTypes
<1>6. OneConnection'
  BY <1>1, <1>2, <1>4, <1>5 DEF IInv, HInv, OneConnection
<1>7. ChainOpen' /\ Crashed'
  BY <1>2 DEF IInv, HInv, ChainOpen, Crashed, Between
<1>8. Buffered' /\ Served'
  BY <1>2, <1>4 DEF IInv, HInv, Buffered, Served, Owned, OwnRequest, Complete
<1>9. Uploads'
  BY <1>2, <1>4, <1>5, UploadsKept DEF IInv, HInv, fileVars, Past, Complete, Owned
<1>10. Answered'
  BY <1>2, AnswersKept DEF IInv, HInv, fileVars, Complete
<1> QED
  BY <1>3, <1>6, <1>7, <1>8, <1>9, <1>10 DEF IInv, HInv

-----------------------------------------------------------------------------
(* Opening *)

\* A client that is refused changes nothing for the others.
LEMMA TcpConnRefuseStep ==
  ASSUME IInv, NEW c \in Clients, TcpConnRefuse(c)
  PROVE  IInv'
<1>1. /\ conn' = [conn EXCEPT ![c] = "refused"] /\ conn[c] = "idle" /\ Between
      /\ UNCHANGED <<sent, fin, reply, tcp, http, ready, serving, chain, fileVars, result, misread>>
  BY DEF TcpConnRefuse, MayOpen, historyVars
<1>2. \A d \in Clients : conn'[d] = IF d = c THEN "refused" ELSE conn[d]
  BY <1>1 DEF IInv, TypeInv, ClientTypes
<1>3. TypeInv'
  <2>1. ConnTypes'
    BY <1>1 DEF IInv, TypeInv, ConnTypes, ClientTypes
  <2> QED
    BY <1>1, <2>1 DEF IInv, TypeInv, ClientTypes, ConnTypes, TcpTypes, HttpTypes,
         OtherTypes, fileVars
<1>4. Owner' = Owner
  BY <1>1 DEF Owner
<1>5. OneConnection'
  BY <1>1, <1>2, <1>4 DEF IInv, HInv, OneConnection
<1>6. ChainOpen' /\ Crashed'
  BY <1>1 DEF IInv, HInv, ChainOpen, Crashed, Between
<1>7. Buffered' /\ Served'
  BY <1>1, <1>4 DEF IInv, HInv, Buffered, Served, Owned, OwnRequest, Complete
<1>8. Uploads'
  BY <1>1, <1>2, <1>4, UploadsKept DEF IInv, HInv, fileVars, Past, Complete, Owned
<1>9. Answered'
  BY <1>1, AnswersKept DEF IInv, HInv, fileVars, Complete
<1> QED
  BY <1>3, <1>5, <1>6, <1>7, <1>8, <1>9 DEF IInv, HInv

\* A client is accepted only when no other has a connection.
LEMMA TcpConnAcceptStep ==
  ASSUME IInv, NEW c \in Clients, TcpConnAccept(c)
  PROVE  IInv'
<1>1. PICK i \in Slot :
        /\ tcp' = [tcp EXCEPT ![i] = [state |-> "CONNECTED", client |-> c,
                                      must_close |-> FALSE]]
        /\ http' = [http EXCEPT !.cd = i, !.index = 0, !.buf[0] = Nul,
                                !.can_close = FALSE]
  <2>1. FreeSlots # {} /\ FreeSlots \subseteq Slot
    BY DEF TcpConnAccept, FreeSlots
  <2>2. \E j \in FreeSlots : \A k \in FreeSlots : j <= k
    <3>1. FreeSlots \in SUBSET Nat
      BY <2>1, Sizes DEF Slot
    <3> QED
      BY <2>1, <3>1, LeastSlot
  <2> QED
    BY <2>1, <2>2 DEF TcpConnAccept
<1>2. /\ conn' = [conn EXCEPT ![c] = "open"] /\ conn[c] = "idle" /\ Between
      /\ http.cd = None
      /\ UNCHANGED <<sent, fin, reply, ready, serving, chain, fileVars, result, misread>>
  BY DEF TcpConnAccept, MayOpen, historyVars
<1>3. \A d \in Clients : conn'[d] = IF d = c THEN "open" ELSE conn[d]
  BY <1>2 DEF IInv, TypeInv, ClientTypes
<1>4. i # None
  BY Sizes DEF Slot, None
<1>5. TypeInv'
  <2>1. ConnTypes'
    BY <1>2 DEF IInv, TypeInv, ConnTypes, ClientTypes
  <2>2. TcpTypes'
    BY <1>1 DEF IInv, TypeInv, TcpTypes
  <2>3. http' \in HttpConnections
    <3>1. [http.buf EXCEPT ![0] = Nul] \in [0 .. BufSize - 1 -> Units \cup {Nul}]
      BY DEF IInv, TypeInv, HttpTypes, HttpConnections
    <3>2. http'.buf = [http.buf EXCEPT ![0] = Nul]
      BY <1>1 DEF IInv, TypeInv, HttpTypes, HttpConnections
    <3>3. http' = [http EXCEPT !.cd = i, !.index = 0, !.buf = http'.buf,
                               !.can_close = FALSE]
      BY <1>1, <3>2 DEF IInv, TypeInv, HttpTypes, HttpConnections
    <3>4. 0 \in 0 .. BufSize
      BY Sizes
    <3> QED
      BY <3>1, <3>2, <3>3, <3>4 DEF IInv, TypeInv, HttpTypes, HttpConnections
  <2> QED
    BY <1>2, <2>1, <2>2, <2>3 DEF IInv, TypeInv, ClientTypes, ConnTypes, HttpTypes,
         OtherTypes, fileVars
<1>6. /\ http'.cd = i /\ http'.index = 0 /\ ~http'.can_close
      /\ http'.method = http.method /\ http'.end_of_headers = http.end_of_headers
      /\ http'.content_length = http.content_length
      /\ http'.outgoing = http.outgoing
  BY <1>1 DEF IInv, TypeInv, HttpTypes, HttpConnections
<1>7. /\ \A j \in Slot : j # i => tcp'[j].state = tcp[j].state
      /\ tcp'[i].state = "CONNECTED" /\ ~tcp'[i].must_close /\ Owner' = c
  BY <1>1, <1>6 DEF IInv, TypeInv, TcpTypes, Owner
<1>8. sent[c] = 0 /\ \A d \in Clients : conn[d] # "open"
  BY <1>2 DEF IInv, HInv, OneConnection
<1>9. OneConnection'
  <2>1. \A j \in Slot : j # http'.cd => tcp'[j].state = "FREE"
    <3>1. \A j \in Slot : j # None
      BY Sizes DEF Slot, None
    <3> QED
      BY <1>2, <1>6, <1>7, <3>1 DEF IInv, HInv, OneConnection
  <2>2. tcp'[http'.cd].must_close = http'.can_close
    BY <1>1, <1>6 DEF IInv, TypeInv, TcpTypes
  <2> QED
    BY <1>2, <1>3, <1>4, <1>6, <1>7, <1>8, <2>1, <2>2 DEF OneConnection, IInv, HInv
<1>10. ~ready /\ ~serving /\ http.outgoing = 0 /\ chain.left = 0
  BY <1>2 DEF IInv, TypeInv, HttpTypes, HttpConnections, HInv, Served, Owned, Between
<1>11. ChainOpen' /\ Served' /\ Crashed'
  BY <1>2, <1>6, <1>10 DEF ChainOpen, Served, Crashed, Between
<1>12. Buffered'
  BY <1>2, <1>4, <1>6, <1>7, <1>8 DEF Buffered, IInv, HInv, Owned
<1>13. \A d \in Clients : Past(d) => Past(d)'
  BY <1>2, <1>3, <1>7 DEF Past, Complete, Owned
<1>14. Uploads'
  BY <1>2, <1>13, UploadsKept DEF IInv, HInv, fileVars
<1>15. Answered'
  BY <1>2, AnswersKept DEF IInv, HInv, fileVars, Complete
<1> QED
  BY <1>5, <1>9, <1>11, <1>12, <1>14, <1>15 DEF IInv, HInv

-----------------------------------------------------------------------------
(* Receiving *)

\* n units of c are put in request_buf after those that are there.
Received(c, n) ==
  /\ UNCHANGED <<conn, reply, tcp>> /\ HttpTypes' /\ ~http.can_close
  /\ http'.cd = http.cd /\ ~http'.can_close /\ http'.method
  /\ http'.index = http.index + n /\ http'.outgoing = http.outgoing
  /\ \A i \in 0 .. http.index + n - 1 :
       http'.buf[i] = IF i < http.index THEN http.buf[i]
                      ELSE Unit(c, sent[c] + i - http.index)
  /\ IF http.method
     THEN /\ http'.end_of_headers = http.end_of_headers
          /\ http'.content_length = http.content_length
     ELSE /\ http'.end_of_headers = HeadLen
          /\ HasBody(c) => http'.content_length = StreamLen(c) - HeadLen
  /\ ready' = (ready \/ AllBody(http'))

\* The request is answered with an error and its connection is closed.
Rejects(c) ==
  /\ ~ready /\ UNCHANGED ready /\ ~serving /\ chain'.left = 0
  /\ reply' = [reply EXCEPT ![c] = "error"]
  /\ \E h \in HttpConnections : Closed(h) /\ h.outgoing = http.outgoing

\* A pbuf continues the request of the owner, or its request is rejected.
LEMMA RecvCases ==
  ASSUME IInv, NEW c \in Clients, conn[c] = "open",
         NEW n \in Nat \ {0}, sent[c] + n <= StreamLen(c),
         HttpRecv(c, n), Refuses(c), ~stray',
         chain' \in [client : Clients \cup {"nul"}, left : Nat]
  PROVE  /\ Owner = c /\ UNCHANGED result
         /\ Received(c, n) \/ Rejects(c)
<1> DEFINE got == [http EXCEPT
                    !.buf = [i \in 0 .. BufSize - 1 |->
                               IF i \in http.index .. http.index + n - 1
                               THEN Unit(c, sent[c] + i - http.index) ELSE @[i]],
                    !.index = @ + n]
           h     == IF http.method THEN got ELSE WithHeaders(got)
           fits  == n <= BufSize - http.index
           valid == http.method \/ Parsed(got)
<1>1. http.cd \in Slot /\ http.cd # None /\ Owner = c
  BY ArgIsOwner
<1>2. ~http.method => http.index = 0
  BY <1>1 DEF IInv, HInv, Buffered, Owned
<1>3. /\ http.index \in 0 .. BufSize /\ http.method \in BOOLEAN
      /\ http.buf \in [0 .. BufSize - 1 -> Units \cup {Nul}]
      /\ http.end_of_headers \in Nat /\ http.content_length \in Nat
      /\ http.outgoing \in Nat /\ sent[c] \in Nat
  BY DEF IInv, TypeInv, HttpTypes, HttpConnections, ClientTypes
<1>4. http \in HttpConnections
  BY DEF IInv, TypeInv, HttpTypes
<1>5. /\ got.cd = http.cd /\ got.index = http.index + n /\ got.method = http.method
      /\ got.can_close = http.can_close /\ got.outgoing = http.outgoing
      /\ got.end_of_headers = http.end_of_headers
      /\ got.content_length = http.content_length
      /\ \A i \in 0 .. BufSize - 1 :
           got.buf[i] = IF i \in http.index .. http.index + n - 1
                        THEN Unit(c, sent[c] + i - http.index) ELSE http.buf[i]
  BY <1>4 DEF HttpConnections
<1>6. fits => got \in HttpConnections
  <2> DEFINE b == [i \in 0 .. BufSize - 1 |->
                     IF i \in http.index .. http.index + n - 1
                     THEN Unit(c, sent[c] + i - http.index) ELSE http.buf[i]]
  <2>1. ASSUME NEW i \in http.index .. http.index + n - 1
        PROVE  Unit(c, sent[c] + i - http.index) \in Units
    <3>1. sent[c] + i - http.index \in Nat
      BY <1>3
    <3> QED
      BY <3>1 DEF Unit, Units
  <2>2. b \in [0 .. BufSize - 1 -> Units \cup {Nul}]
    BY <1>3, <2>1
  <2>3. fits => http.index + n \in 0 .. BufSize
    BY <1>3, Sizes
  <2>4. got = [http EXCEPT !.buf = b, !.index = http.index + n]
    BY <1>4 DEF HttpConnections
  <2> HIDE DEF b, got
  <2>5. [http EXCEPT !.buf = b, !.index = http.index + n].cd = http.cd
    BY <1>4 DEF HttpConnections
  <2> QED
    BY <1>4, <2>2, <2>3, <2>4 DEF HttpConnections
<1>7. UNCHANGED result
  BY <1>1 DEF HttpRecv
<1>8. fits /\ ~http.method =>
        got.buf[0].client = c /\ (Parsed(got) => sent[c] = 0)
  <2> SUFFICES ASSUME fits, ~http.method
               PROVE  got.buf[0].client = c /\ (Parsed(got) => sent[c] = 0)
    OBVIOUS
  <2>1. http.index = 0 /\ 0 \in 0 .. BufSize - 1 /\ 0 \in http.index .. http.index + n - 1
    BY <1>2, <1>3, Sizes
  <2>2. got.buf[0] = Unit(c, sent[c])
    BY <1>3, <1>5, <2>1
  <2>3. got.buf[0].client = c /\ got.buf[0].at = sent[c]
    BY <2>2 DEF Unit
  <2>4. ASSUME Parsed(got) PROVE sent[c] = 0
    <3>1. 0 \in 0 .. HeadLen - 1
      BY Sizes
    <3> HIDE DEF got
    <3>2. got.buf[0] = Unit(got.buf[0].client, 0)
      BY <2>4, <3>1 DEF Parsed
    <3> QED
      BY <2>3, <3>2 DEF Unit
  <2> QED
    BY <2>3, <2>4
<1>9. CASE fits /\ valid
  <2>1. /\ http' = h /\ ready' = (ready \/ AllBody(h))
        /\ UNCHANGED <<conn, reply, tcp, result>>
    BY <1>1, <1>9 DEF HttpRecv
  <2>2. got \in HttpConnections
    BY <1>6, <1>9
  <2>5. ready' = (ready \/ AllBody(http'))
    BY <2>1
  <2>6. \A i \in 0 .. http.index + n - 1 :
          got.buf[i] = IF i < http.index THEN http.buf[i]
                       ELSE Unit(c, sent[c] + i - http.index)
    <3> TAKE i \in 0 .. http.index + n - 1
    <3>1. i \in 0 .. BufSize - 1
      BY <1>3, <1>9, Sizes
    <3>2. i \in http.index .. http.index + n - 1 <=> ~(i < http.index)
      BY <1>3
    <3> HIDE DEF got
    <3> QED
      BY <1>5, <3>1, <3>2
  <2>7. ~http.can_close
    <3>1. http.can_close => ~http.method /\ sent[c] > 0
      BY <1>1 DEF IInv, HInv, Buffered
    <3> QED
      BY <1>3, <1>8, <1>9, <3>1
  <2>3. CASE http.method
    <3>1. http' = got
      BY <2>1, <2>3
    <3> HIDE DEF got
    <3>2. Received(c, n)
      BY <1>5, <2>1, <2>2, <2>3, <2>5, <2>6, <2>7, <3>1 DEF Received, HttpTypes
    <3> QED
      BY <1>1, <2>1, <3>2
  <2>4. CASE ~http.method
    <3>1. http' = WithHeaders(got)
      BY <2>1, <2>4
    <3>2. got.buf[0].client = c
      BY <1>8, <1>9, <2>4
    <3> HIDE DEF got
    <3>3. StreamLen(c) - HeadLen \in Nat
      BY RequestTypes, Sizes
    <3>4. /\ http'.cd = got.cd /\ http'.can_close = got.can_close /\ http'.method
          /\ http'.index = got.index /\ http'.outgoing = got.outgoing
          /\ http'.buf = got.buf /\ http'.end_of_headers = HeadLen
          /\ HasBody(c) => http'.content_length = StreamLen(c) - HeadLen
          /\ HttpTypes'
      BY <2>2, <3>1, <3>2, <3>3, Sizes DEF WithHeaders, HttpConnections, HttpTypes
    <3>5. Received(c, n)
      BY <1>5, <2>1, <2>4, <2>5, <2>6, <2>7, <3>4 DEF Received
    <3> QED
      BY <1>1, <2>1, <3>5
  <2> QED
    BY <1>3, <2>3, <2>4
<1>10. CASE ~(fits /\ valid)
  <2> DEFINE r == IF fits THEN Rejected(got) ELSE http
  <2>1. RequestError(r) /\ UNCHANGED <<ready, result>>
    BY <1>1, <1>10 DEF HttpRecv
  <2>2. r \in HttpConnections /\ r.cd = http.cd /\ r.outgoing = http.outgoing
    <3>1. CASE fits
      <4>1. got \in HttpConnections
        BY <1>6, <3>1
      <4> HIDE DEF got
      <4>2. /\ Rejected(got) \in HttpConnections /\ Rejected(got).cd = got.cd
            /\ Rejected(got).outgoing = got.outgoing
        BY <4>1 DEF HttpConnections, Rejected
      <4> QED
        BY <1>5, <3>1, <4>2
    <3>2. CASE ~fits
      BY <1>4, <3>2
    <3> QED
      BY <3>1, <3>2
  <2> HIDE DEF r
  <2>3. http'.cd = None
    <3>1. [r EXCEPT !.can_close = TRUE, !.cd = None].cd = None
      BY <2>2 DEF HttpConnections
    <3>2. [[r EXCEPT !.can_close = TRUE, !.cd = None] EXCEPT !.cd = None].cd = None
      BY <2>2 DEF HttpConnections
    <3> QED
      BY <2>1, <3>1, <3>2 DEF RequestError, TcpConnClose
  <2>4. conn'[c] # "open" /\ ~(chain'.left > 0) /\ ~ready' /\ ~serving
    BY <1>1, <2>3 DEF Refuses
  <2>5. /\ reply' = [reply EXCEPT ![Owner] = "error"]
        /\ Closed([r EXCEPT !.can_close = TRUE, !.cd = None])
    BY <1>1, <2>1, <2>2, <2>4, ErrorCloses
  <2> DEFINE q == [r EXCEPT !.can_close = TRUE, !.cd = None]
  <2>6. q \in HttpConnections /\ q.outgoing = http.outgoing
    BY <2>2 DEF HttpConnections
  <2> HIDE DEF q
  <2>7. Rejects(c)
    <3>1. Closed(q)
      BY <2>5 DEF q
    <3>2. chain'.left = 0
      BY <2>4
    <3> QED
      BY <1>1, <2>1, <2>4, <2>5, <2>6, <3>1, <3>2 DEF Rejects
  <2> QED
    BY <1>1, <2>1, <2>7
<1> QED
  BY <1>9, <1>10

\* The invariant holds after a pbuf, the first of a chain or the second, unless
\* something is stray.
LEMMA RecvStep ==
  ASSUME IInv, result = "OK", NEW c \in Clients, conn[c] = "open",
         NEW n \in Nat \ {0}, sent[c] + n <= StreamLen(c),
         HttpRecv(c, n), Refuses(c), ~stray',
         chain' \in [client : Clients \cup {"nul"}, left : Nat],
         chain'.left > 0 => /\ chain'.client = c
                            /\ sent[c] + n + chain'.left <= StreamLen(c),
         UNCHANGED <<fin, serving, fileVars>>
  PROVE  IInv'
<1>1. /\ http.cd \in Slot /\ http.cd # None /\ Owner = c
  BY ArgIsOwner
<1>2. UNCHANGED result /\ (Received(c, n) \/ Rejects(c))
  BY RecvCases
<1>3. /\ sent' = [sent EXCEPT ![c] = sent[c] + n]
      /\ misread' = IF http.method /\ http.index = 0 THEN misread \cup {c}
                    ELSE misread
  BY <1>1 DEF HttpRecv
<1>4. /\ sent' \in [Clients -> Nat] /\ sent'[c] = sent[c] + n /\ sent[c] \in Nat
      /\ \A d \in Clients : d # c => sent'[d] = sent[d]
  BY <1>3 DEF IInv, TypeInv, ClientTypes
<1>5. StreamLen(c) \in Nat /\ ~Complete(c)
  BY <1>4, RequestTypes DEF Complete
<1>6. \A d \in Clients : StreamLen(d)' = StreamLen(d) /\ sent'[d] <= StreamLen(d)
  BY <1>4 DEF IInv, TypeInv, ClientTypes, StreamLen, HasBody
<1>7. \A d \in Clients : Complete(d) => Complete(d)'
  BY <1>4, <1>5, <1>6 DEF Complete
<1>8. c \notin misread => ~ready /\ ~serving /\ http.outgoing = 0
  BY <1>1, <1>5 DEF IInv, TypeInv, HttpTypes, HttpConnections, HInv, Served
<1>9. OtherTypes' /\ fin' \in [Clients -> BOOLEAN] /\ misread \subseteq misread'
  <2>1. ready' \in BOOLEAN
    <3>1. CASE Received(c, n)
      <4>1. ready' = (ready \/ AllBody(http'))
        BY <3>1 DEF Received
      <4> QED
        BY <4>1
    <3>2. CASE Rejects(c)
      BY <3>2 DEF Rejects, IInv, TypeInv, OtherTypes
    <3> QED
      BY <1>2, <3>1, <3>2
  <2>2. misread' \in SUBSET Clients /\ misread \subseteq misread'
    BY <1>3 DEF IInv, TypeInv, OtherTypes
  <2> QED
    BY <1>2, <2>1, <2>2 DEF IInv, TypeInv, OtherTypes, ClientTypes, fileVars
<1>10. CASE Received(c, n)
  <2>1. /\ UNCHANGED <<conn, reply, tcp>> /\ HttpTypes' /\ Owner' = Owner
        /\ http'.cd = http.cd /\ ~http'.can_close /\ http'.method /\ Owned' /\ Owned
        /\ http'.outgoing = http.outgoing
    BY <1>1, <1>10 DEF Received, Owner, Owned
  <2>2. TypeInv'
    BY <1>4, <1>6, <1>9, <2>1 DEF IInv, TypeInv, ClientTypes, TcpTypes
  <2>3. OneConnection'
    <3>1. \A d \in Clients : conn[d] = "idle" => sent'[d] = 0
      BY <1>4 DEF IInv, HInv, OneConnection
    <3>2. http'.can_close = http.can_close
      BY <1>10, <2>1 DEF Received, HttpTypes, HttpConnections, IInv, TypeInv
    <3> QED
      BY <1>1, <2>1, <3>1, <3>2 DEF IInv, HInv, OneConnection
  <2>4. ChainOpen'
    BY <1>4, <1>6, <2>1 DEF ChainOpen
  <2>12. /\ http.index = sent[c]
         /\ ~http.method => http.index = 0
         /\ \A j \in 0 .. http.index - 1 : http.buf[j] = Unit(c, j)
         /\ http.method /\ http.index > 0 /\ c \notin misread => OwnRequest
    BY <1>1, <2>1 DEF IInv, HInv, Buffered
  <2>5. http'.index = sent'[c] /\ http'.index > 0 /\ http'.index \in 0 .. BufSize
    BY <1>4, <1>10, <2>1, <2>12 DEF Received, HttpTypes, HttpConnections
  <2>6. \A i \in 0 .. http'.index - 1 : http'.buf[i] = Unit(c, i)
    <3> TAKE i \in 0 .. http'.index - 1
    <3>1. http'.buf[i] = IF i < http.index THEN http.buf[i]
                         ELSE Unit(c, sent[c] + i - http.index)
      <4>1. http'.index = http.index + n
        BY <1>10 DEF Received
      <4>2. \A j \in 0 .. http.index + n - 1 :
              http'.buf[j] = IF j < http.index THEN http.buf[j]
                             ELSE Unit(c, sent[c] + j - http.index)
        BY <1>10 DEF Received
      <4>3. i \in 0 .. http.index + n - 1
        BY <1>4, <2>5, <2>12, <4>1
      <4> QED
        BY <4>2, <4>3
    <3>2. i < http.index => http.buf[i] = Unit(c, i)
      BY <1>4, <2>5, <2>12
    <3>3. sent[c] + i - http.index = i
      BY <1>4, <2>5, <2>12
    <3> QED
      BY <3>1, <3>2, <3>3
  <2>7. c \notin misread' => OwnRequest'
    <3> SUFFICES ASSUME c \notin misread' PROVE OwnRequest'
      OBVIOUS
    <3>1. CASE http.method
      <4>1. http.index > 0 /\ c \notin misread
        <5>1. http.index # 0 /\ c \notin misread
          BY <1>3, <1>9, <3>1
        <5> QED
          BY <1>4, <2>12, <5>1
      <4> QED
        BY <1>6, <1>10, <2>1, <2>5, <2>12, <3>1, <4>1, <1>1
           DEF OwnRequest, Received, HasBody
    <3>2. CASE ~http.method
      BY <1>1, <1>6, <1>10, <2>1, <2>5, <3>2 DEF OwnRequest, Received, HasBody
    <3> QED
      BY <3>1, <3>2
  <2>8. Buffered'
    BY <1>1, <2>1, <2>5, <2>6, <2>7 DEF Buffered
  <2>9. ready' /\ c \notin misread' => OwnRequest' /\ Complete(c)' /\ chain'.left = 0
    <3> SUFFICES ASSUME ready', c \notin misread'
                 PROVE  OwnRequest' /\ Complete(c)' /\ chain'.left = 0
      OBVIOUS
    <3>1. http'.index >= http'.end_of_headers + http'.content_length
      BY <1>8, <1>9, <1>10 DEF Received, AllBody
    <3>2. http'.end_of_headers \in Nat /\ http'.content_length \in Nat
      BY <2>1 DEF HttpTypes, HttpConnections
    <3>3. OwnRequest'
      BY <2>7
    <3>4. /\ http'.end_of_headers = HeadLen
          /\ HasBody(c) => http'.content_length = StreamLen(c) - HeadLen
      BY <1>1, <1>6, <2>1, <3>3 DEF OwnRequest, HasBody
    <3>5. ~HasBody(c) => StreamLen(c) = HeadLen
      BY RequestTypes
    <3>6. sent'[c] >= StreamLen(c)
      BY <1>5, <2>5, <3>1, <3>2, <3>4, <3>5, Sizes
    <3>7. sent'[c] = StreamLen(c)
      BY <1>4, <1>5, <1>6, <3>6
    <3>8. chain'.left = 0
      BY <1>4, <1>5, <3>7
    <3> QED
      BY <1>6, <3>3, <3>7, <3>8 DEF Complete
  <2>11. Served'
    <3>1. serving \/ http.outgoing > 0 => c \in misread'
      BY <1>8, <1>9
    <3>2. http.outgoing > 0 => serving /\ Requests[c].kind = "get"
      BY <1>1 DEF IInv, HInv, Served
    <3> QED
      BY <1>1, <2>1, <2>5, <2>9, <3>1, <3>2 DEF Served
  <2>13. Crashed'
    BY <1>2 DEF Crashed
  <2>14. \A d \in Clients : Past(d) => Past(d)'
    BY <1>2, <1>1, <2>1 DEF Past
  <2> QED
    BY <1>7, <1>9, <2>1, <2>2, <2>3, <2>4, <2>8, <2>11, <2>13, <2>14, UploadsKept,
       AnswersKept DEF IInv, HInv, fileVars
<1>11. CASE Rejects(c)
  <2>1. PICK h \in HttpConnections : Closed(h) /\ h.outgoing = http.outgoing
    BY <1>11 DEF Rejects
  <2>2. /\ ConnTypes' /\ TcpTypes' /\ HttpTypes' /\ OneConnection'
        /\ http'.cd = None
        /\ \A d \in Clients : conn[d] # "idle" => conn'[d] # "idle"
    BY <1>1, <1>4, <2>1, ClosedLeavesNone
  <2>3. /\ ~ready' /\ ~ready /\ ~serving /\ chain'.left = 0
        /\ reply' = [reply EXCEPT ![c] = "error"]
    BY <1>11 DEF Rejects
  <2>4. TypeInv'
    BY <1>4, <1>6, <1>9, <2>2, <2>3 DEF IInv, TypeInv, ClientTypes, ConnTypes
  <2>5. http.outgoing = 0 /\ http'.outgoing = 0
    <3>1. http.outgoing = 0
      BY <2>3 DEF IInv, TypeInv, HttpTypes, HttpConnections, HInv, Served
    <3> QED
      BY <2>1, <3>1 DEF Closed, HttpConnections
  <2>7. ChainOpen' /\ Buffered' /\ Served' /\ Crashed'
    BY <1>2, <2>2, <2>3, <2>5 DEF ChainOpen, Buffered, Served, Crashed, Owned
  <2>8. \A d \in Clients : Past(d) => Past(d)'
    BY <2>2 DEF Past, Owned
  <2>9. \A d \in Clients : reply'[d] = "ok" => reply[d] = "ok"
    BY <2>3 DEF IInv, TypeInv, ClientTypes
  <2> QED
    BY <1>7, <1>9, <2>2, <2>4, <2>7, <2>8, <2>9, UploadsKept, AnswersKept
       DEF IInv, HInv, fileVars
<1> QED
  BY <1>2, <1>10, <1>11

\* The first pbuf of a segment.
LEMMA TcpConnRecvStep ==
  ASSUME IInv, ~stray', NEW c \in Clients, TcpConnRecv(c)
  PROVE  IInv'
<1>1. PICK n \in Requests[c].pbufs, m \in Requests[c].pbufs \cup {0} :
        /\ n + m <= StreamLen(c) - sent[c]
        /\ HttpRecv(c, n) /\ Refuses(c)
        /\ chain' = [client |-> IF m > 0 THEN c ELSE "nul", left |-> m]
  BY DEF TcpConnRecv
<1>2. n \in Nat \ {0} /\ m \in Nat
  BY RequestTypes
<1>3. /\ result = "OK" /\ conn[c] = "open"
      /\ UNCHANGED <<fin, serving, fileVars>>
  BY DEF TcpConnRecv, Between
<1>5. sent[c] \in Nat /\ StreamLen(c) \in Nat
  BY RequestTypes DEF IInv, TypeInv, ClientTypes
<1>6. sent[c] + n <= StreamLen(c) /\ sent[c] + n + m <= StreamLen(c)
  BY <1>1, <1>2, <1>5
<1>8. /\ chain' \in [client : Clients \cup {"nul"}, left : Nat]
      /\ chain'.left = m /\ (m > 0 => chain'.client = c)
  BY <1>1, <1>2
<1> QED
  BY <1>1, <1>2, <1>3, <1>6, <1>8, RecvStep

\* The second pbuf of a segment.
LEMMA TcpConnRecvNextStep ==
  ASSUME IInv, ~stray', TcpConnRecvNext
  PROVE  IInv'
<1> DEFINE c == chain.client
           n == chain.left
<1>1. /\ result = "OK" /\ n \in Nat \ {0} /\ HttpRecv(c, n) /\ Refuses(c)
      /\ UNCHANGED <<fin, serving, fileVars>>
      /\ chain' = [client |-> "nul", left |-> 0]
  BY DEF TcpConnRecvNext, IInv, TypeInv, OtherTypes
<1>2. c \in Clients /\ conn[c] = "open" /\ sent[c] + n <= StreamLen(c)
  BY DEF TcpConnRecvNext, IInv, HInv, ChainOpen
<1>3. chain' \in [client : Clients \cup {"nul"}, left : Nat] /\ ~(chain'.left > 0)
  BY <1>1
<1> HIDE DEF c, n
<1> QED
  BY <1>1, <1>2, <1>3, RecvStep

-----------------------------------------------------------------------------
(* Serving *)

\* What is ready or served is the owner's request, all of it unless it is
\* misread.
LEMMA OwnerServed ==
  ASSUME IInv, ready \/ serving \/ http.outgoing > 0
  PROVE  /\ http.cd \in Slot /\ http.cd # None /\ Owner \in Clients /\ Owned
         /\ http.method /\ http.index > 0 /\ http.index = sent[Owner]
         /\ \A i \in 0 .. http.index - 1 : http.buf[i] = Unit(Owner, i)
         /\ conn[Owner] \in {"open", "reset"}
         /\ tcp[http.cd].state # "FREE" => conn[Owner] = "open"
         /\ tcp[http.cd].state = "FREE" => conn[Owner] = "reset"
         /\ Kind = Requests[Owner].kind
         /\ Owner \notin misread =>
              /\ OwnRequest /\ Complete(Owner) /\ sent[Owner] = StreamLen(Owner)
              /\ http.end_of_headers = HeadLen
<1>1. /\ Owned /\ http.method /\ http.index > 0
      /\ Owner \notin misread => OwnRequest /\ Complete(Owner)
  BY DEF IInv, HInv, Served
<1>2. http.cd # None /\ http.cd \in Slot
  BY <1>1 DEF Owned, IInv, TypeInv, HttpTypes, HttpConnections
<1>3. /\ Owner \in Clients
      /\ tcp[http.cd].state # "FREE" => conn[Owner] = "open"
      /\ tcp[http.cd].state = "FREE" => conn[Owner] = "reset"
  BY <1>2 DEF IInv, HInv, OneConnection
<1>4. /\ http.index = sent[Owner]
      /\ \A i \in 0 .. http.index - 1 : http.buf[i] = Unit(Owner, i)
  BY <1>1 DEF IInv, HInv, Buffered
<1>5. http.index \in Nat
  BY DEF IInv, TypeInv, HttpTypes, HttpConnections
<1>6. http.buf[0] = Unit(Owner, 0)
  BY <1>1, <1>4, <1>5
<1>7. http.buf[0] # Nul
  BY <1>3, <1>6, NulIsNoClient DEF Unit, Nul
<1>8. Kind = Requests[Owner].kind
  BY <1>6, <1>7 DEF Kind, Unit
<1> QED
  BY <1>1, <1>2, <1>3, <1>4, <1>8 DEF Complete, OwnRequest

\* The end of a request, answered or not: it will not be served again.
LEMMA DoneStep ==
  ASSUME IInv, Between, Usable, ready \/ serving \/ http.outgoing > 0,
         Done(http), UNCHANGED <<sent, fin, chain, result, misread>>
  PROVE  /\ ConnTypes' /\ TcpTypes' /\ HttpTypes' /\ ready' \in BOOLEAN
         /\ serving' \in BOOLEAN
         /\ OneConnection' /\ ChainOpen' /\ Buffered' /\ Served' /\ Crashed'
         /\ \A c \in Clients : Complete(c) => Complete(c)'
         /\ \A c \in Clients : conn[c] # "idle" => Past(c)'
<1> DEFINE h == Reset([http EXCEPT !.can_close = TRUE])
<1>1. /\ http.cd \in Slot /\ http.cd # None /\ Owner \in Clients /\ sent[Owner] > 0
      /\ conn[Owner] = "open" /\ chain.left = 0
  BY OwnerServed DEF Usable, Between
<1>2. /\ h \in HttpConnections /\ h.cd = http.cd /\ h.can_close /\ h.index = 0
      /\ ~h.method /\ h.outgoing = 0
  <2> DEFINE g == [http EXCEPT !.can_close = TRUE]
  <2>1. g \in HttpConnections /\ g.cd = http.cd /\ g.can_close
    BY DEF IInv, TypeInv, HttpTypes, HttpConnections
  <2>2. 0 \in 0 .. BufSize
    BY Sizes
  <2> HIDE DEF g
  <2>3. /\ Reset(g) \in HttpConnections /\ Reset(g).cd = g.cd
        /\ Reset(g).can_close = g.can_close /\ Reset(g).index = 0
        /\ ~Reset(g).method /\ Reset(g).outgoing = 0
    BY <2>1, <2>2 DEF Reset, HttpConnections
  <2> QED
    BY <2>1, <2>3 DEF g
<1>3. Closed(h) \/ ToBeClosed(h)
  BY DoneCloses
<1>4. ~ready' /\ ~serving' /\ ready' \in BOOLEAN /\ serving' \in BOOLEAN
  BY DEF Done
<1>5. \A c \in Clients : Complete(c) => Complete(c)'
  BY DEF Complete, StreamLen, HasBody
<1> HIDE DEF h
<1>6. CASE Closed(h)
  <2>1. /\ ConnTypes' /\ TcpTypes' /\ HttpTypes' /\ OneConnection'
        /\ http'.cd = None
        /\ \A c \in Clients : conn[c] # "idle" => conn'[c] # "idle"
    BY <1>1, <1>2, <1>6, ClosedLeavesNone
  <2>2. http'.outgoing = 0
    BY <1>2, <1>6 DEF Closed, HttpConnections
  <2>3. ChainOpen' /\ Buffered' /\ Served' /\ Crashed'
    BY <1>1, <1>4, <2>1, <2>2 DEF ChainOpen, Buffered, Served, Crashed, Owned, Between
  <2>4. \A c \in Clients : conn[c] # "idle" => Past(c)'
    BY <2>1 DEF Past, Owned
  <2> QED
    BY <1>4, <1>5, <2>1, <2>3, <2>4
<1>7. CASE ToBeClosed(h)
  <2>1. /\ ConnTypes' /\ TcpTypes' /\ HttpTypes' /\ OneConnection' /\ Owner' = Owner
    BY <1>1, <1>2, <1>7, ToBeClosedKeeps
  <2>2. http' = h /\ UNCHANGED conn /\ ~Owned'
    BY <1>2, <1>7 DEF ToBeClosed, Owned
  <2>3. ChainOpen' /\ Served' /\ Crashed'
    BY <1>1, <1>2, <1>4, <2>2 DEF ChainOpen, Served, Crashed, Between
  <2>4. Buffered'
    BY <1>1, <1>2, <2>1, <2>2 DEF Buffered
  <2>5. \A c \in Clients : conn[c] # "idle" => Past(c)'
    BY <2>2 DEF Past
  <2> QED
    BY <1>4, <1>5, <2>1, <2>3, <2>4, <2>5
<1> QED
  BY <1>3, <1>6, <1>7

\* The end of a request whose data is not appended now.
LEMMA DoneWithoutData ==
  ASSUME IInv, Between, Usable, ready \/ serving \/ http.outgoing > 0,
         Done(http), UNCHANGED <<sent, fin, chain, fileVars, result, misread>>,
         \/ UNCHANGED reply
         \/ Answer("error")
         \/ Answer("ok") /\ Requests[Owner].kind = "get"
  PROVE  IInv'
<1>1. /\ ConnTypes' /\ TcpTypes' /\ HttpTypes' /\ ready' \in BOOLEAN
      /\ serving' \in BOOLEAN
      /\ OneConnection' /\ ChainOpen' /\ Buffered' /\ Served' /\ Crashed'
      /\ \A c \in Clients : Complete(c) => Complete(c)'
      /\ \A c \in Clients : conn[c] # "idle" => Past(c)'
  BY DoneStep
<1>2. Owner \in Clients /\ (Owner \notin misread => Complete(Owner))
  BY OwnerServed
<1>3. reply' \in [Clients -> {"none", "ok", "error"}]
  BY DEF Answer, IInv, TypeInv, ClientTypes
<1>4. TypeInv'
  BY <1>1, <1>3 DEF IInv, TypeInv, ClientTypes, ConnTypes, OtherTypes, fileVars,
     StreamLen, HasBody
<1>5. Uploads'
  BY <1>1, UploadsKept DEF IInv, HInv, fileVars, Past
<1>6. \A c \in Clients :
        reply'[c] = "ok" =>
          reply[c] = "ok" \/ (c = Owner /\ Requests[Owner].kind = "get")
  BY <1>2 DEF Answer, Owner, IInv, TypeInv, ClientTypes
<1>7. Answered'
  BY <1>1, <1>2, <1>6 DEF IInv, HInv, Answered, fileVars, HasBody, Content
<1> QED
  BY <1>1, <1>4, <1>5, <1>7 DEF IInv, HInv

\* An answer that is an error ends the request.
LEMMA ServeErrorStep ==
  ASSUME IInv, ServeError
  PROVE  IInv'
BY DoneWithoutData DEF ServeError, AtRequest, historyVars

\* The request whose answer did not fit ends without it.
LEMMA EndServingStep ==
  ASSUME IInv, EndServing
  PROVE  IInv'
BY DoneWithoutData DEF EndServing, historyVars

\* The answer goes on.
LEMMA OutgoingStep ==
  ASSUME IInv, NEW k \in Nat \ {0}, http' = [http EXCEPT !.outgoing = k],
         ready \/ http.outgoing > 0, Requests[Owner].kind = "get",
         ready' \in BOOLEAN, ready' => ready, serving' = TRUE,
         UNCHANGED <<conn, reply, tcp, sent, fin, chain, fileVars, result, misread>>
  PROVE  IInv'
<1>1. /\ Owned /\ http.method /\ http.index > 0 /\ Owner \in Clients
      /\ Owner \notin misread => OwnRequest /\ Complete(Owner) /\ chain.left = 0
  BY OwnerServed DEF IInv, HInv, Served
<1>2. /\ http'.cd = http.cd /\ http'.can_close = http.can_close
      /\ http'.method = http.method /\ http'.index = http.index
      /\ http'.buf = http.buf /\ http'.end_of_headers = http.end_of_headers
      /\ http'.content_length = http.content_length /\ http'.outgoing = k
      /\ HttpTypes'
  BY DEF IInv, TypeInv, HttpTypes, HttpConnections
<1>3. TypeInv'
  BY <1>2 DEF IInv, TypeInv, ClientTypes, TcpTypes, OtherTypes, fileVars,
     StreamLen, HasBody
<1>4. Owner' = Owner /\ Owned'
  BY <1>1, <1>2 DEF Owner, Owned
<1>5. OneConnection'
  BY <1>2, <1>4 DEF IInv, HInv, OneConnection
<1>6. ChainOpen' /\ Crashed'
  BY <1>1 DEF ChainOpen, Crashed, IInv, HInv, StreamLen, HasBody
<1>7. Owner \notin misread => OwnRequest'
  BY <1>1, <1>2, <1>4 DEF OwnRequest, StreamLen, HasBody
<1>8. \A c \in Clients : Complete(c) => Complete(c)'
  BY DEF Complete, StreamLen, HasBody
<1>9. Buffered'
  <2>1. /\ http.index = sent[Owner]
        /\ \A i \in 0 .. http.index - 1 : http.buf[i] = Unit(Owner, i)
    BY <1>1 DEF Buffered, IInv, HInv
  <2>2. /\ http'.index = sent'[Owner']
        /\ \A i \in 0 .. http'.index - 1 : http'.buf[i] = Unit(Owner', i)
    BY <1>2, <1>4, <2>1
  <2>3. http'.method
    BY <1>1, <1>2
  <2> QED
    BY <1>4, <1>7, <2>2, <2>3 DEF Buffered, Owned
<1>10. Served'
  BY <1>1, <1>2, <1>4, <1>7, <1>8 DEF Served
<1>11. \A c \in Clients : Past(c) => Past(c)'
  BY DEF Past
<1> QED
  BY <1>3, <1>5, <1>6, <1>8, <1>9, <1>10, <1>11, UploadsKept, AnswersKept
     DEF IInv, HInv, fileVars

\* A file is sent in one piece, or its first piece is.
LEMMA ServeGetStep ==
  ASSUME IInv, ServeGet
  PROVE  IInv'
<1>1. /\ Between /\ ready /\ Usable /\ Requests[Owner].kind = "get"
      /\ UNCHANGED <<sent, fin, chain, fileVars, result, misread>>
  BY OwnerServed DEF ServeGet, AtRequest, historyVars
<1>2. CASE \E n \in 0 .. PageLen - 1 :
              /\ http' = [http EXCEPT !.outgoing = PageLen - n]
              /\ ready' = FALSE /\ serving' = TRUE
              /\ UNCHANGED <<conn, reply, tcp>>
  <2>1. PICK n \in 0 .. PageLen - 1 :
              /\ http' = [http EXCEPT !.outgoing = PageLen - n]
              /\ ready' = FALSE /\ serving' = TRUE
              /\ UNCHANGED <<conn, reply, tcp>>
    BY <1>2
  <2>2. PageLen - n \in Nat \ {0}
    BY Sizes
  <2> QED
    BY <1>1, <2>1, <2>2, OutgoingStep
<1>3. CASE (Answer("ok") \/ UNCHANGED reply) /\ Done(http)
  BY <1>1, <1>3, DoneWithoutData
<1> QED
  BY <1>2, <1>3 DEF ServeGet

\* The next pieces of a file, and the last one.
LEMMA SendMoreStep ==
  ASSUME IInv, SendMore
  PROVE  IInv'
<1>1. /\ Between /\ http.outgoing > 0 /\ Usable
      /\ UNCHANGED <<sent, fin, chain, fileVars, result, misread>>
  BY DEF SendMore, historyVars
<1>2. serving /\ Requests[Owner].kind = "get" /\ serving \in BOOLEAN /\ ready \in BOOLEAN
  BY <1>1 DEF IInv, TypeInv, OtherTypes, HInv, Served
<1>3. CASE \E n \in 1 .. http.outgoing - 1 :
              /\ http' = [http EXCEPT !.outgoing = @ - n]
              /\ UNCHANGED <<conn, reply, tcp, ready, serving>>
  <2>1. PICK n \in 1 .. http.outgoing - 1 :
              /\ http' = [http EXCEPT !.outgoing = http.outgoing - n]
              /\ UNCHANGED <<conn, reply, tcp, ready, serving>>
    BY <1>3
  <2>2. http.outgoing - n \in Nat \ {0}
    BY DEF IInv, TypeInv, HttpTypes, HttpConnections
  <2>3. serving' = TRUE
    BY <1>2, <2>1
  <2> QED
    BY <1>1, <1>2, <2>1, <2>2, <2>3, OutgoingStep
<1>4. CASE (Answer("ok") \/ UNCHANGED reply) /\ Done(http)
  BY <1>1, <1>2, <1>4, DoneWithoutData
<1> QED
  BY <1>3, <1>4 DEF SendMore

\* What http_flash_upload_post() finds before the last boundary, or before the
\* end of what was received, is the owner's.
LEMMA BlockOfOwner ==
  ASSUME IInv, AtRequest, Kind = "post", ContentsStarts # {},
         ContentsEnd - ContentsStart \in 1 .. room
  PROVE  /\ HasBody(Owner) /\ Owner \in Clients
         /\ Block \in Seq(Units) /\ Len(Block) = ContentsEnd - ContentsStart
         /\ Sender(Block) = Owner
<1> DEFINE k == ContentsEnd - ContentsStart
<1>1. /\ Owner \in Clients /\ HasBody(Owner)
      /\ \A i \in 0 .. http.index - 1 : http.buf[i] = Unit(Owner, i)
  BY OwnerServed DEF AtRequest, HasBody
<1>2. http.index \in 0 .. BufSize /\ http.end_of_headers \in Nat /\ room \in Nat
  BY Sizes DEF IInv, TypeInv, OtherTypes, HttpTypes, HttpConnections
<1>3. ContentsStart \in Nat /\ ContentsStart > 0
  <2>1. ContentsStarts \in SUBSET (Nat \ {0})
    BY <1>2, Sizes DEF ContentsStarts
  <2>2. \E i \in ContentsStarts : \A j \in ContentsStarts : i <= j
    BY <2>1, LeastSlot
  <2>3. ContentsStart \in ContentsStarts
    BY <2>2 DEF ContentsStart
  <2> QED
    BY <2>1, <2>3
<1>4. ContentsEnd \in Nat /\ ContentsEnd <= http.index
  <2>1. CASE Boundaries = {}
    BY <1>2, <2>1 DEF ContentsEnd
  <2>2. CASE Boundaries # {}
    <3> DEFINE S == {http.index - i : i \in Boundaries}
    <3>1. \A i \in Boundaries : i \in Nat /\ i < http.index
      BY <1>2 DEF Boundaries
    <3>2. S \in SUBSET Nat /\ S # {}
      BY <1>2, <2>2, <3>1
    <3>3. PICK m \in S : \A n \in S : m <= n
      BY <3>2, LeastSlot
    <3>4. PICK i \in Boundaries : m = http.index - i
      BY <3>3
    <3>5. \A j \in Boundaries : j <= i
      BY <1>2, <3>1, <3>3, <3>4
    <3>6. ContentsEnd \in Boundaries
      BY <2>2, <3>5 DEF ContentsEnd
    <3> QED
      BY <1>2, <3>1, <3>6
  <2> QED
    BY <2>1, <2>2
<1>5. k \in Nat \ {0}
  BY <1>2
<1>6. \A i \in 1 .. k : /\ ContentsStart + i - 1 \in 0 .. http.index - 1
                        /\ ContentsStart + i - 1 \in Nat
  BY <1>2, <1>3, <1>4
<1>7. Block = [i \in 1 .. k |-> Unit(Owner, ContentsStart + i - 1)]
  BY <1>1, <1>6 DEF Block
<1>8. \A i \in 1 .. k : Unit(Owner, ContentsStart + i - 1) \in Units
  BY <1>1, <1>6 DEF Unit, Units
<1> HIDE DEF k
<1>9. Block \in Seq(Units) /\ Len(Block) = k
  BY <1>5, <1>7, <1>8
<1>10. Block[1] = Unit(Owner, ContentsStart + 1 - 1)
  BY <1>5, <1>7
<1> QED
  BY <1>1, <1>9, <1>10 DEF Sender, Unit, k

\* Of a request that is not misread it is the data of the upload, from the
\* first empty line after the headers to the last boundary.
LEMMA BlockIsContent ==
  ASSUME IInv, AtRequest, Kind = "post", Owner \notin misread
  PROVE  Block = Content(Owner)
<1> DEFINE c == Owner
           d == Requests[c].data
<1>1. /\ c \in Clients /\ http.index = StreamLen(c) /\ HasBody(c)
      /\ http.end_of_headers = HeadLen
      /\ \A i \in 0 .. http.index - 1 : http.buf[i] = Unit(c, i)
  BY OwnerServed DEF AtRequest, HasBody
<1>2. d \in Nat /\ http.index = HeadLen + d + 2 /\ HeadLen \in Nat \ {0}
  BY <1>1, RequestTypes, Sizes
<1>3. http.index <= BufSize
  BY DEF IInv, TypeInv, HttpTypes, HttpConnections
<1> HIDE DEF c, d
<1>4. \A i \in 0 .. http.index - 1 :
        /\ http.buf[i].client = c /\ http.buf[i].at = i
        /\ i # 0 => http.buf[i] # Nul
  <2> TAKE i \in 0 .. http.index - 1
  <2>1. http.buf[i] = Unit(c, i)
    BY <1>1
  <2>2. http.buf[i].client = c /\ http.buf[i].at = i
    BY <2>1 DEF Unit
  <2>3. Nul.at = 0
    BY DEF Nul
  <2> QED
    BY <2>2, <2>3
<1>5. ContentsStart = HeadLen + 1
  <2>1. HeadLen \in http.end_of_headers .. BufSize - 1
    BY <1>1, <1>2, <1>3, Sizes
  <2>2. EndsWithEmptyLine(http.buf[HeadLen])
    <3>1. HeadLen \in 0 .. http.index - 1 /\ HeadLen # 0
      BY <1>2
    <3> QED
      BY <1>1, <1>4, <3>1 DEF EndsWithEmptyLine
  <2>3. HeadLen + 1 \in ContentsStarts
    BY <2>1, <2>2 DEF ContentsStarts
  <2>4. \A j \in ContentsStarts : j \in Int /\ HeadLen + 1 <= j
    BY <1>1, <1>2, Sizes DEF ContentsStarts
  <2>5. \A j \in ContentsStarts :
          (\A k \in ContentsStarts : j <= k) <=> j = HeadLen + 1
    BY <1>2, <2>3, <2>4
  <2> QED
    BY <2>3, <2>5 DEF ContentsStart
<1>6. Boundaries = {HeadLen + d + 1}
  <2>1. \A i \in http.end_of_headers .. http.index - 1 :
          IsBoundary(http.buf[i]) <=> i = HeadLen + d + 1
    <3> TAKE i \in http.end_of_headers .. http.index - 1
    <3>1. i \in 0 .. http.index - 1 /\ i # 0
      BY <1>1, <1>2
    <3>2. DataEnd(c) = HeadLen + d + 1
      BY <1>2 DEF DataEnd, d
    <3> QED
      BY <1>1, <1>4, <3>1, <3>2 DEF IsBoundary
  <2>2. HeadLen + d + 1 \in http.end_of_headers .. http.index - 1
    BY <1>1, <1>2
  <2> QED
    BY <2>1, <2>2 DEF Boundaries
<1>7. ContentsEnd = HeadLen + d + 1
  <2>1. HeadLen + d + 1 <= HeadLen + d + 1
    BY <1>2
  <2> QED
    BY <1>6, <2>1 DEF ContentsEnd
<1>8. ContentsEnd - ContentsStart = d
  BY <1>2, <1>5, <1>7
<1>9. Block = Content(c)
  <2>1. Block = [i \in 1 .. d |-> http.buf[HeadLen + 1 + i - 1]]
    BY <1>5, <1>8 DEF Block
  <2>2. ASSUME NEW i \in 1 .. d
        PROVE  http.buf[HeadLen + 1 + i - 1] = Unit(c, HeadLen + i)
    <3>1. HeadLen + 1 + i - 1 = HeadLen + i /\ HeadLen + i \in 0 .. http.index - 1
      BY <1>2
    <3> QED
      BY <1>1, <3>1
  <2>3. Content(c) = [i \in 1 .. d |-> Unit(c, HeadLen + i)]
    BY DEF Content, d
  <2> QED
    BY <2>1, <2>2, <2>3
<1> QED
  BY <1>9 DEF c

\* An upload that is appended when it is served was not there before.
LEMMA UploadAppended ==
  ASSUME IInv, NEW c \in Clients, NEW b \in Seq(Units), Sender(b) = c, HasBody(c),
         b = Content(c) \/ c \in misread, ~Past(c), UNCHANGED misread,
         appended' = Append(appended, b), Past(c)',
         \A d \in Clients : Past(d) => Past(d)'
  PROVE  /\ Uploads' /\ appended' \in Seq(Seq(Units))
         /\ Len(appended') = Len(appended) + 1
         /\ appended'[Len(appended')] = b
         /\ \A i \in 1 .. Len(appended) :
              i \in 1 .. Len(appended') /\ appended'[i] = appended[i]
<1>1. appended \in Seq(Seq(Units)) /\ Len(appended) \in Nat
  BY DEF IInv, TypeInv, OtherTypes
<1>2. /\ appended' \in Seq(Seq(Units))
      /\ Len(appended') = Len(appended) + 1
      /\ appended'[Len(appended) + 1] = b
      /\ \A i \in 1 .. Len(appended) : appended'[i] = appended[i]
  BY <1>1
<1>3. \A i \in 1 .. Len(appended) : Sender(appended[i]) # c
  BY DEF IInv, HInv, Uploads
<1>4. \A i \in 1 .. Len(appended) + 1 : i \in 1 .. Len(appended) \/ i = Len(appended) + 1
  BY <1>1
<1>5. \A i, j \in 1 .. Len(appended') :
        Sender(appended'[i]) = Sender(appended'[j]) => i = j
  <2>1. \A i, j \in 1 .. Len(appended) :
          Sender(appended[i]) = Sender(appended[j]) => i = j
    BY DEF IInv, HInv, Uploads
  <2>2. \A i \in 1 .. Len(appended) : Sender(appended'[i]) = Sender(appended[i])
    BY <1>2
  <2>3. Sender(appended'[Len(appended) + 1]) = c
    BY <1>2
  <2> HIDE DEF Sender
  <2> QED
    BY <1>2, <1>3, <1>4, <2>1, <2>2, <2>3
<1>6. ASSUME NEW i \in 1 .. Len(appended'), NEW d, d = Sender(appended'[i])
      PROVE  /\ d \in Clients /\ HasBody(d) /\ Past(d)'
             /\ appended'[i] = Content(d) \/ d \in misread
  <2>1. CASE i \in 1 .. Len(appended)
    <3>1. d = Sender(appended[i])
      BY <1>2, <1>6, <2>1
    <3> QED
      BY <1>2, <2>1, <3>1 DEF IInv, HInv, Uploads
  <2>2. CASE i = Len(appended) + 1
    BY <1>2, <1>6, <2>2
  <2> QED
    BY <1>2, <1>4, <2>1, <2>2
<1>7. Uploads'
  BY <1>5, <1>6 DEF Uploads, HasBody, Content, Sender
<1>8. \A i \in 1 .. Len(appended) : i \in 1 .. Len(appended')
  BY <1>1, <1>2
<1> QED
  BY <1>2, <1>7, <1>8

\* An upload is appended once, and answered, or not.
LEMMA ServePostStep ==
  ASSUME IInv, ServePost
  PROVE  IInv'
<1>1. /\ AtRequest /\ Between /\ ready /\ ~serving /\ Kind = "post"
      /\ ContentsStarts # {} /\ ContentsEnd - ContentsStart \in 1 .. room
      /\ UNCHANGED <<sent, fin, chain, misread>>
      /\ appended' = Append(appended, Block) /\ room' = room - Len(Block)
      /\ UNCHANGED written
  BY DEF ServePost, AtRequest, AppendBuffer, historyVars
<1>2. PICK c \in Clients :
        /\ c = Owner /\ HasBody(c) /\ Block \in Seq(Units) /\ Sender(Block) = c
        /\ Len(Block) \in 1 .. room
        /\ Block = Content(c) \/ c \in misread
  BY <1>1, BlockOfOwner, BlockIsContent
<1>3. /\ conn[c] \in {"open", "reset"} /\ Owned /\ http.cd # None
      /\ tcp[http.cd].state = "FREE" => conn[c] = "reset"
      /\ c \notin misread => Complete(c) /\ OwnRequest
  BY <1>1, <1>2, OwnerServed
<1>4. ~Past(c)
  BY <1>1, <1>2, <1>3 DEF Past, Between
<1>5. room' \in 0 .. Room
  BY <1>1, <1>2, Sizes DEF IInv, TypeInv, OtherTypes
<1>6. ASSUME \A d \in Clients : d # c => reply'[d] = reply[d],
             \A d \in Clients : Past(d) => Past(d)', Past(c)'
      PROVE  Uploads' /\ Answered' /\ appended' \in Seq(Seq(Units))
  <2>1. /\ Uploads' /\ appended' \in Seq(Seq(Units))
        /\ Len(appended') = Len(appended) + 1
        /\ appended'[Len(appended')] = Block
        /\ \A i \in 1 .. Len(appended) :
             i \in 1 .. Len(appended') /\ appended'[i] = appended[i]
    <3> HIDE DEF Block
    <3> QED
      BY <1>1, <1>2, <1>4, <1>6, UploadAppended
  <2>2. Len(appended) \in Nat
    BY DEF IInv, TypeInv, OtherTypes
  <2>3. Len(appended') \in 1 .. Len(appended')
    BY <2>1, <2>2
  <2>4. ASSUME NEW d \in Clients, d \notin misread, reply'[d] = "ok"
        PROVE  /\ Complete(d)'
               /\ HasBody(d) => \E i \in 1 .. Len(appended') : appended'[i] = Content(d)
    <3>1. CASE d = c
      <4>1. Complete(d) /\ Block = Content(d)
        BY <1>2, <1>3, <2>4, <3>1
      <4>2. Complete(d)'
        BY <1>1, <4>1 DEF Complete, StreamLen, HasBody
      <4> QED
        BY <2>1, <2>3, <4>1, <4>2
    <3>2. CASE d # c
      <4>1. reply[d] = "ok"
        BY <1>6, <2>4, <3>2
      <4>2. Complete(d)'
        BY <1>1, <2>4, <4>1 DEF IInv, HInv, Answered, Complete, StreamLen, HasBody
      <4>3. HasBody(d) => \E i \in 1 .. Len(appended) : appended[i] = Content(d)
        BY <2>4, <4>1 DEF IInv, HInv, Answered
      <4> QED
        BY <2>1, <4>2, <4>3
    <3> QED
      BY <3>1, <3>2
  <2>5. Answered'
    BY <1>1, <2>4 DEF Answered, HasBody, Content
  <2> QED
    BY <2>1, <2>5
<1>7. CASE (Answer("ok") \/ UNCHANGED reply) /\ Usable /\ Done(http) /\ UNCHANGED result
  <2>1. /\ ConnTypes' /\ TcpTypes' /\ HttpTypes' /\ ready' \in BOOLEAN
        /\ serving' \in BOOLEAN
        /\ OneConnection' /\ ChainOpen' /\ Buffered' /\ Served' /\ Crashed'
        /\ \A d \in Clients : conn[d] # "idle" => Past(d)'
    BY <1>1, <1>7, DoneStep
  <2>2. /\ reply' \in [Clients -> {"none", "ok", "error"}]
        /\ \A d \in Clients : d # c => reply'[d] = reply[d]
    BY <1>2, <1>7 DEF Answer, Owner, IInv, TypeInv, ClientTypes
  <2>3. Past(c)' /\ \A d \in Clients : Past(d) => Past(d)'
    BY <1>3, <2>1 DEF Past
  <2>4. Uploads' /\ Answered' /\ appended' \in Seq(Seq(Units))
    BY <1>6, <2>2, <2>3
  <2>5. TypeInv'
    BY <1>1, <1>5, <1>7, <2>1, <2>2, <2>4 DEF IInv, TypeInv, ClientTypes, ConnTypes,
       OtherTypes, StreamLen, HasBody
  <2> QED
    BY <2>1, <2>4, <2>5 DEF IInv, HInv
<1>8. CASE /\ UNCHANGED <<conn, reply, tcp, http>>
           /\ \/ Usable /\ ready' = TRUE /\ serving' = TRUE /\ UNCHANGED result
              \/ ~Usable /\ result' = "CRASH" /\ UNCHANGED <<ready, serving>>
  <2>1. /\ UNCHANGED <<conn, reply, tcp, http>> /\ ready' \in BOOLEAN /\ serving' \in BOOLEAN
        /\ result' \in {"OK", "CRASH"}
        /\ serving' \/ result' = "CRASH"
        /\ result' = "CRASH" => conn[c] = "reset"
    BY <1>1, <1>3, <1>8 DEF IInv, TypeInv, OtherTypes, Usable, Between
  <2>2. Owner' = Owner /\ Owned' = Owned
    BY <2>1 DEF Owner, Owned
  <2>4. Past(c)' /\ \A d \in Clients : Past(d) => Past(d)'
    BY <1>1, <1>2, <1>3, <2>1 DEF Past, Between
  <2>5. Uploads' /\ Answered' /\ appended' \in Seq(Seq(Units))
    BY <1>6, <2>1, <2>4
  <2>6. TypeInv'
    BY <1>1, <1>5, <2>1, <2>5 DEF IInv, TypeInv, ClientTypes, TcpTypes, HttpTypes,
       OtherTypes, StreamLen, HasBody
  <2>7. OneConnection' /\ ChainOpen'
    BY <1>1, <2>1, <2>2 DEF IInv, HInv, OneConnection, ChainOpen, StreamLen, HasBody
  <2>8. Buffered'
    BY <1>1, <2>1, <2>2 DEF IInv, HInv, Buffered, OwnRequest, StreamLen, HasBody
  <2>9. Served'
    <3>1. /\ Owned /\ http.method /\ http.index > 0 /\ ~(http.outgoing > 0)
          /\ c \notin misread => OwnRequest /\ Complete(c) /\ chain.left = 0
      BY <1>1, <1>2 DEF IInv, HInv, Served
    <3>2. c \notin misread => OwnRequest' /\ Complete(c)'
      BY <1>1, <1>2, <2>1, <2>2, <3>1 DEF OwnRequest, Complete, StreamLen, HasBody
    <3> QED
      BY <1>1, <1>2, <2>1, <2>2, <3>1, <3>2 DEF Served
  <2>10. Crashed'
    BY <1>2, <2>1 DEF Crashed
  <2> QED
    BY <2>5, <2>6, <2>7, <2>8, <2>9, <2>10 DEF IInv, HInv
<1> QED
  BY <1>7, <1>8 DEF ServePost

\* An empty upload, and the binary file layer, change only the binary file; a
\* crash changes only the result.
LEMMA FileStep ==
  ASSUME IInv, written' \in BOOLEAN, room' \in 0 .. Room,
         UNCHANGED <<clientVars, tcp, http, ready, serving, chain, appended,
                     misread>>,
         \/ UNCHANGED result
         \/ result' = "CRASH" /\ (misread # {} \/ \E c \in Clients : conn[c] = "reset")
  PROVE  IInv'
<1>1. TypeInv'
  BY DEF IInv, TypeInv, ClientTypes, TcpTypes, HttpTypes, OtherTypes, clientVars,
     StreamLen, HasBody
<1>2. Owner' = Owner /\ Owned' = Owned
  BY DEF Owner, Owned
<1>3. OneConnection' /\ ChainOpen' /\ Crashed'
  BY <1>2 DEF IInv, HInv, OneConnection, ChainOpen, Crashed, clientVars, StreamLen,
     HasBody
<1>4. Buffered' /\ Served'
  BY <1>2 DEF IInv, HInv, Buffered, Served, OwnRequest, Complete, clientVars,
     StreamLen, HasBody
<1>5. \A c \in Clients : (Complete(c) => Complete(c)') /\ (Past(c) => Past(c)')
  BY <1>2 DEF Past, Complete, clientVars, StreamLen, HasBody
<1> QED
  BY <1>1, <1>3, <1>4, <1>5, UploadsKept, AnswersKept DEF IInv, HInv, clientVars

\* Only a request whose client reset its connection is served without one, and
\* only one that is misread has no path.
LEMMA CrashStep ==
  ASSUME IInv, ServeNobody \/ ServeNoPath
  PROVE  IInv'
<1>1. /\ ready \/ http.outgoing > 0
      /\ result' = "CRASH"
      /\ UNCHANGED <<clientVars, tcp, http, ready, serving, chain, fileVars, misread>>
  BY DEF ServeNobody, ServeNoPath, AtRequest, historyVars
<1>2. misread # {} \/ \E c \in Clients : conn[c] = "reset"
  <2>1. CASE ServeNobody
    BY <1>1, <2>1, OwnerServed DEF ServeNobody, Usable
  <2>2. CASE ServeNoPath
    <3>1. http.end_of_headers = 0
      BY <2>2 DEF ServeNoPath, Unparsed
    <3>2. HeadLen # 0
      BY Sizes
    <3> QED
      BY <1>1, <3>1, <3>2, OwnerServed
  <2> QED
    BY <2>1, <2>2
<1>3. written' \in BOOLEAN /\ room' \in 0 .. Room
  BY <1>1 DEF fileVars, IInv, TypeInv, OtherTypes
<1> QED
  BY <1>1, <1>2, <1>3, FileStep DEF fileVars

\* Every step of the clients, of lwIP and of the loop keeps the invariant,
\* unless it leaves something stray.
LEMMA NextInv ==
  ASSUME IInv, ~stray', [Next]_vars
  PROVE  IInv'
<1>1. ASSUME NEW c \in Clients,
             \/ TcpConnAccept(c) \/ TcpConnRefuse(c) \/ TcpConnRecv(c)
             \/ RemoteCloses(c) \/ TcpConnPoll(c) \/ TcpConnError(c)
      PROVE  IInv'
  BY <1>1, TcpConnAcceptStep, TcpConnRefuseStep, TcpConnRecvStep, RemoteClosesStep,
     TcpConnPollStep, TcpConnErrorStep
<1>2. CASE TcpConnRecvNext
  BY <1>2, TcpConnRecvNextStep
<1>3. CASE ServeError \/ ServeGet \/ SendMore
  BY <1>3, ServeErrorStep, ServeGetStep, SendMoreStep
<1>4. CASE ServePost \/ EndServing \/ ServeNobody \/ ServeNoPath
  BY <1>4, ServePostStep, EndServingStep, CrashStep
<1>5. room \in 0 .. Room /\ written \in BOOLEAN
  BY DEF IInv, TypeInv, OtherTypes
<1>6. CASE ServeEmptyPost
  <2>1. /\ written' = TRUE /\ room' = room
        /\ UNCHANGED <<clientVars, tcp, http, ready, serving, chain, appended, result,
                       misread>>
    BY <1>6 DEF ServeEmptyPost, historyVars
  <2> QED
    BY <1>5, <2>1, FileStep
<1>7. CASE Drain
  <2>1. /\ room' = Room /\ written' = written
        /\ UNCHANGED <<clientVars, tcp, http, ready, serving, chain, appended, result,
                       misread>>
    BY <1>7 DEF Drain, historyVars
  <2>2. Room \in 0 .. Room
    BY Sizes
  <2> QED
    BY <1>5, <2>1, <2>2, FileStep
<1>8. CASE UNCHANGED vars
  <2>1. /\ room' = room /\ written' = written
        /\ UNCHANGED <<clientVars, tcp, http, ready, serving, chain, appended, result,
                       misread>>
    BY <1>8 DEF vars, fileVars, historyVars
  <2> QED
    BY <1>5, <2>1, FileStep
<1> QED
  BY <1>1, <1>2, <1>3, <1>4, <1>6, <1>7, <1>8 DEF Next, Event, NoEvent

\* What is stray stays so.
LEMMA StrayStays ==
  ASSUME stray, [Next]_vars
  PROVE  stray'
<1>1. Event => UNCHANGED historyVars
  BY DEF Event, ServeError, ServeGet, SendMore, ServePost, ServeEmptyPost, EndServing,
     ServeNobody, ServeNoPath
<1>2. UNCHANGED vars => UNCHANGED historyVars
  BY DEF vars
<1>3. Drain => UNCHANGED historyVars
  BY DEF Drain
<1>4. CASE UNCHANGED historyVars
  BY <1>4 DEF historyVars
<1>5. ASSUME NEW c \in Clients,
             \/ TcpConnAccept(c) \/ TcpConnRefuse(c) \/ TcpConnRecv(c)
             \/ RemoteCloses(c) \/ TcpConnPoll(c) \/ TcpConnError(c)
      PROVE  stray'
  <2>1. CASE TcpConnRecv(c)
    BY <2>1 DEF TcpConnRecv, Refuses
  <2>2. CASE \/ TcpConnAccept(c) \/ TcpConnRefuse(c)
             \/ RemoteCloses(c) \/ TcpConnPoll(c) \/ TcpConnError(c)
    BY <2>2 DEF TcpConnAccept, TcpConnRefuse, RemoteCloses, TcpConnPoll, TcpConnError,
       historyVars
  <2> QED
    BY <1>5, <2>1, <2>2
<1>6. CASE TcpConnRecvNext
  BY <1>6 DEF TcpConnRecvNext, Refuses
<1> QED
  BY <1>1, <1>2, <1>3, <1>4, <1>5, <1>6 DEF Next, NoEvent

-----------------------------------------------------------------------------
(* Theorems *)

\* The invariant holds of every behaviour until something is stray.
LEMMA Invariance == Spec => [](stray \/ IInv)
<1>1. Init => stray \/ IInv
  BY InitInv
<1>2. (stray \/ IInv) /\ [Next]_vars => (stray \/ IInv)'
  BY NextInv, StrayStays
<1> QED
  BY <1>1, <1>2, PTL DEF Spec

\* Every block that http_flash_upload_post() gives to the binary file is the
\* whole data of an upload, and no upload is given twice, however its request
\* is cut into segments, answered late or reset while it is served, but for the
\* requests that are misread and what follows one that is stray.
THEOREM UploadsInFull == Spec => []BodiesAppended
<1>1. stray \/ IInv => BodiesAppended
  <2> SUFFICES ASSUME IInv PROVE BodiesAppended
    BY DEF BodiesAppended
  <2>1. \A i \in 1 .. Len(appended) :
          LET c == appended[i][1].client
          IN  HasBody(c) /\ (appended[i] = Content(c) \/ c \in misread)
    BY DEF IInv, HInv, Uploads, Sender
  <2>2. IsInjective(appended)
    <3>1. DOMAIN appended = 1 .. Len(appended)
      BY DEF IInv, TypeInv, OtherTypes
    <3> QED
      BY <3>1 DEF IInv, HInv, Uploads, IsInjective
  <2> QED
    BY <2>1, <2>2 DEF BodiesAppended
<1> QED
  BY <1>1, Invariance, PTL

\* http_process_request() tells no client that its upload is good before all
\* of it was appended, whoever else connected, was refused or left meanwhile,
\* with the same exceptions.
THEOREM OkIsTrue == Spec => []OkMeansAppended
<1>1. stray \/ IInv => OkMeansAppended
  BY DEF IInv, HInv, Answered, OkMeansAppended
<1> QED
  BY <1>1, Invariance, PTL

\* The HTTP connection and request_buf are those of one client, whose TCP
\* connection is open or was reset, and no other client is served, with the
\* same exceptions.
THEOREM OneOwner == Spec => []OwnerIsServed
<1>1. stray \/ IInv => OwnerIsServed
  <2> SUFFICES ASSUME IInv PROVE OwnerIsServed
    BY DEF OwnerIsServed
  <2>1. result = "OK" \/ misread # {} \/ \E c \in Clients : conn[c] = "reset"
    BY DEF IInv, TypeInv, OtherTypes, HInv, Crashed
  <2>2. \A c \in Clients :
          conn[c] = "open" => tcp[Arg(c)].must_close \/ http.cd = Arg(c)
    BY ArgIsOwner
  <2>3. ASSUME http.cd # None
        PROVE  /\ conn[Owner] \in {"open", "reset"}
               /\ \A i \in 0 .. http.index - 1 : http.buf[i] = Unit(Owner, i)
               /\ ready \/ serving => Complete(Owner) \/ Owner \in misread
    <3>1. conn[Owner] \in {"open", "reset"}
      BY <2>3 DEF IInv, HInv, OneConnection
    <3>2. CASE Owned
      BY <3>1, <3>2 DEF IInv, HInv, Buffered, Served
    <3>3. CASE ~Owned
      <4>1. http.index = 0 /\ ~ready /\ ~serving
        BY <2>3, <3>3 DEF IInv, HInv, Buffered, Served, Owned
      <4> QED
        BY <3>1, <4>1
    <3> QED
      BY <3>2, <3>3
  <2> QED
    BY <2>1, <2>2, <2>3 DEF OwnerIsServed, Owner
<1> QED
  BY <1>1, Invariance, PTL

=============================================================================
