------------------------------ MODULE HttpServer ------------------------------
(***************************************************************************)
(* Connections, from the accept to the close, and the way of a request     *)
(* through the server: src/src/http/http_server.{h,cpp}, RequestHandler    *)
(* and ApiHandler of src/src/http/request_handler.h, the logging decorator *)
(* of src/src/tools/logger.h and their wiring in src/src/main.cpp.         *)
(*                                                                         *)
(* Every completion of an asynchronous operation is an action, and so is   *)
(* the handler that runs on it later: in between, the peer may have reset  *)
(* the connection and other threads may have done anything.                *)
(***************************************************************************)
EXTENDS Api, FiniteSets

CONSTANTS
  Conns,        \* connections clients open
  Requests,     \* the requests a client may send
  Maps,         \* the pieces that name a map
  Ticker,       \* whether the server ticks by itself
  MaxRequests   \* requests that are read

\* A request is a record of the fields Api.tla lists.
ASSUME HttpAssumption ==
  /\ \A req \in Requests : DOMAIN req = DOMAIN NoData
  /\ Ticker \in BOOLEAN
  /\ MaxRequests \in Nat

VARIABLES
  acceptor,  \* "open", or "closed" after an accept that failed
  session,   \* the place of each connection in its life, see Places
  peer,      \* "up", or "gone" once the client's side was reset
  request,   \* the request in work per connection
  answer,    \* the answer being written: its status and whether to close after it
  queue,     \* the connections whose handlers wait for the strand
  running,   \* the connections whose handlers run in the strand
  req_data,  \* ApiHandler::req_data_, shared by all requests
  known,     \* the tokens that lead to a player
  server,    \* "up" or "crashed"
  reads,     \* how many requests were read on all connections, a bound
  writes     \* ghost: writes begun for the request in work

sockets == <<acceptor, session, peer>>
strand  == <<queue, running, req_data, known>>
vars == <<acceptor, session, peer, request, answer, queue, running, req_data,
          known, server, reads, writes>>

Places == {"none", "reading", "end of stream", "read", "queued", "running",
           "writing", "written", "over"}
NoAnswer == [status |-> 200, close |-> FALSE]

-----------------------------------------------------------------------------
Init ==
  /\ acceptor = "open"
  /\ session = [c \in Conns |-> "none"]
  /\ peer = [c \in Conns |-> "up"]
  /\ request = [c \in Conns |-> NoData]
  /\ answer = [c \in Conns |-> NoAnswer]
  /\ queue = <<>>
  /\ running = {}
  /\ req_data = NoData
  /\ known \in SUBSET Tokens
  /\ server = "up"
  /\ reads = 0
  /\ writes = [c \in Conns |-> 0]

Goes(c, place) == session' = [session EXCEPT ![c] = place]

\* SessionBase::Read starts from an empty request; with a session that ends its
\* request and its answer go.
Restarts(c, place) ==
  /\ Goes(c, place)
  /\ request' = [request EXCEPT ![c] = NoData]
  /\ answer' = [answer EXCEPT ![c] = NoAnswer]
  /\ writes' = [writes EXCEPT ![c] = 0]

-----------------------------------------------------------------------------
(* The listener and the clients.                                           *)

\* Listener::OnAccept: the session starts to read, the next accept is armed.
Accept(c) ==
  /\ server = "up" /\ acceptor = "open" /\ session[c] = "none"
  /\ Goes(c, "reading")
  /\ UNCHANGED <<acceptor, peer, request, answer, strand, server, reads, writes>>

\* Listener::OnAccept with an error arms no other accept.
AcceptFails ==
  /\ server = "up" /\ acceptor = "open"
  /\ acceptor' = "closed"
  /\ UNCHANGED <<session, peer, request, answer, strand, server, reads, writes>>

\* External: the client's side goes away without a word.
Reset(c) ==
  /\ server = "up" /\ session[c] \notin {"none", "over"} /\ peer[c] = "up"
  /\ peer' = [peer EXCEPT ![c] = "gone"]
  /\ UNCHANGED <<acceptor, session, request, answer, strand, server, reads, writes>>

-----------------------------------------------------------------------------
(* Reading.                                                                *)

\* A whole request has been read.
Arrive(c, req) ==
  /\ server = "up" /\ session[c] = "reading" /\ peer[c] = "up"
  /\ reads < MaxRequests
  /\ Goes(c, "read")
  /\ request' = [request EXCEPT ![c] = req]
  /\ reads' = reads + 1
  /\ UNCHANGED <<acceptor, peer, answer, strand, server, writes>>

\* The client has closed its side.
EndOfStream(c) ==
  /\ server = "up" /\ session[c] = "reading" /\ peer[c] = "up"
  /\ Goes(c, "end of stream")
  /\ UNCHANGED <<acceptor, peer, request, answer, strand, server, reads, writes>>

\* OnRead with any other error - a reset, 30 seconds without a request, a request
\* that is none - lets go of the session.
ReadFails(c) ==
  /\ server = "up" /\ session[c] = "reading"
  /\ Restarts(c, "over")
  /\ UNCHANGED <<acceptor, peer, strand, server, reads>>

\* SessionBase::Close throws if the peer is gone, and nobody catches it.
Close(c) ==
  IF peer[c] = "gone"
  THEN /\ server' = "crashed"
       /\ UNCHANGED <<session, request, answer, writes>>
  ELSE /\ Restarts(c, "over")
       /\ UNCHANGED server

OnEndOfStream(c) ==
  /\ server = "up" /\ session[c] = "end of stream"
  /\ Close(c)
  /\ UNCHANGED <<acceptor, peer, strand, reads>>

-----------------------------------------------------------------------------
(* Answering.                                                              *)

\* Mutant: the answer is written before it is logged.
WritesBeforeLog(failures) == failures + 1
\* LoggingRequestHandler logs an answer, then sends it, so a log that throws has
\* sent nothing: the writes begun when the first failures attempts to log threw.
WritesBegun(failures) == 1

\* send, with the catch around it: if the log throws, a 500 is sent in place of the
\* answer; if the log throws again, nobody catches it.  (The log refers to an
\* address that may be gone by then; what it prints does not matter here.)
Send(c, status, close) ==
  \/ \E failures \in {0, 1} :
       /\ Goes(c, "writing")
       /\ answer' = [answer EXCEPT ![c] =
            [status |-> IF failures = 0 THEN status ELSE 500, close |-> close]]
       /\ writes' = [writes EXCEPT ![c] = @ + WritesBegun(failures)]
       /\ UNCHANGED server
  \/ /\ server' = "crashed"
     /\ UNCHANGED <<session, answer, writes>>

\* Session::HandleRequest asks for the address of the peer, which throws if it is
\* gone, and logs the request, which may throw; nobody catches either.
HandleRequestThrows(c) ==
  /\ server = "up" /\ session[c] = "read"
  /\ server' = "crashed"
  /\ UNCHANGED <<sockets, request, answer, strand, reads, writes>>

\* RequestHandler::HandleRequest for a file, outside of the strand.  A file goes out
\* without the client's wish to close, which then only an old HTTP version tells.
HandleFileRequest(c) ==
  /\ server = "up" /\ session[c] = "read" /\ peer[c] = "up"
  /\ ~IsApiRequest(request[c])
  /\ \E status \in FileAnswers(request[c]), asked \in BOOLEAN :
       /\ status # 200 => asked
       /\ Send(c, status, asked /\ ~request[c].keep_alive)
  /\ UNCHANGED <<acceptor, peer, request, strand, reads>>

\* Mutant: the request is only dispatched if the strand is idle.
DispatchIfIdle(c) ==
  /\ server = "up" /\ session[c] = "read" /\ peer[c] = "up"
  /\ IsApiRequest(request[c])
  /\ Goes(c, "queued")
  /\ queue' = IF running = {} THEN Append(queue, c) ELSE queue
  /\ UNCHANGED <<acceptor, peer, request, answer, running, req_data, known, server,
                 reads, writes>>
\* RequestHandler::HandleRequest for the API: net::dispatch to the strand.
Dispatch(c) ==
  /\ server = "up" /\ session[c] = "read" /\ peer[c] = "up"
  /\ IsApiRequest(request[c])
  /\ Goes(c, "queued")
  /\ queue' = Append(queue, c)
  /\ UNCHANGED <<acceptor, peer, request, answer, running, req_data, known, server,
                 reads, writes>>

\* Mutant: the handler is posted to the io context, not to the strand.
StartAtOnce(c) ==
  /\ server = "up" /\ queue # <<>> /\ Head(queue) = c
  /\ queue' = Tail(queue)
  /\ running' = running \cup {c}
  /\ Goes(c, "running")
  /\ req_data' = Construct(req_data, request[c])
  /\ UNCHANGED <<acceptor, peer, request, answer, known, server, reads, writes>>
\* The strand takes the next handler up: ApiHandler::HandleRequest begins with
\* RequestData::Construct.
StartHandler(c) ==
  /\ server = "up" /\ running = {} /\ queue # <<>> /\ Head(queue) = c
  /\ queue' = Tail(queue)
  /\ running' = {c}
  /\ Goes(c, "running")
  /\ req_data' = Construct(req_data, request[c])
  /\ UNCHANGED <<acceptor, peer, request, answer, known, server, reads, writes>>

\* What a request may change: a join gives out a token, a tick retires players.
KnownAfter(status) ==
  CASE Endpoint(req_data.path) = "join" /\ status = 200 ->
         {known \cup {t} : t \in Tokens \ known}
    [] Endpoint(req_data.path) = "tick" /\ status \in {200, 500} ->
         SUBSET known
    [] OTHER -> {known}

\* The rest of ApiHandler::HandleRequest, and its send.
FinishHandler(c) ==
  /\ server = "up" /\ c \in running
  /\ running' = running \ {c}
  /\ \E status \in ApiAnswers(req_data, known, Maps, Ticker) :
       /\ known' \in KnownAfter(status)
       /\ Send(c, status, ~req_data.keep_alive)
  /\ UNCHANGED <<acceptor, peer, request, queue, req_data, reads>>

\* Undefined: HandleGameRequest takes the front of an empty queue for the piece
\* after "player".  Builds answer 400, like FinishHandler, or end here.
FrontOfNothing(c) ==
  /\ server = "up" /\ c \in running
  /\ Endpoint(req_data.path) = "beyond the end"
  /\ server' = "crashed"
  /\ UNCHANGED <<sockets, request, answer, strand, reads, writes>>

-----------------------------------------------------------------------------
(* After the answer.                                                       *)

Written(c) ==
  /\ server = "up" /\ session[c] = "writing" /\ peer[c] = "up"
  /\ Goes(c, "written")
  /\ UNCHANGED <<acceptor, peer, request, answer, strand, server, reads, writes>>

\* OnWrite with an error - a reset, or 30 seconds since the last read began.
WriteFails(c) ==
  /\ server = "up" /\ session[c] = "writing"
  /\ Restarts(c, "over")
  /\ UNCHANGED <<acceptor, peer, strand, server, reads>>

\* OnWrite: close, or read the next request.
OnWrite(c) ==
  /\ server = "up" /\ session[c] = "written"
  /\ IF answer[c].close
     THEN Close(c)
     ELSE Restarts(c, "reading") /\ UNCHANGED server
  /\ UNCHANGED <<acceptor, peer, strand, reads>>

-----------------------------------------------------------------------------
ServerStep(c) ==
  \/ OnEndOfStream(c)
  \/ HandleRequestThrows(c)
  \/ HandleFileRequest(c)
  \/ Dispatch(c)
  \/ StartHandler(c)
  \/ FinishHandler(c)
  \/ OnWrite(c)

Next ==
  \/ AcceptFails
  \/ \E c \in Conns :
       \/ Accept(c)
       \/ Reset(c)
       \/ \E req \in Requests : Arrive(c, req)
       \/ EndOfStream(c)
       \/ ReadFails(c)
       \/ FrontOfNothing(c)
       \/ Written(c)
       \/ WriteFails(c)
       \/ ServerStep(c)

\* The io threads run every handler that is ready.  Nothing makes a client send,
\* or a write succeed; a write ends by its deadline at the latest.
Fairness ==
  \A c \in Conns : WF_vars(ServerStep(c)) /\ WF_vars(WriteFails(c) \/ Written(c))

Spec == Init /\ [][Next]_vars /\ Fairness

-----------------------------------------------------------------------------
(* Properties.                                                             *)

\* No request is answered twice: the catch blocks that send a 500 after a send that
\* threw never add a second answer to one under way.
OneAnswerEach == \A c \in Conns : writes[c] <= 1

\* A request is judged by what its own client sent, although all requests share one
\* RequestData: only the strand keeps another request from replacing it between
\* Construct and the answer.  (A request without a header is the exception: it is
\* judged by the header before it.)
JudgedByItself ==
  \A c \in running :
    /\ req_data.path = request[c].path
    /\ req_data.method = request[c].method
    /\ req_data.body = request[c].body
    /\ req_data.keep_alive = request[c].keep_alive
    /\ request[c].auth \in Tokens => req_data.auth = request[c].auth
    /\ request[c].auth = Malformed => req_data.auth = NoToken

\* A client that asks the API to close the connection is not read from again,
\* however its request was answered.
CloseIsHonoured ==
  [][\A c \in Conns :
       session[c] = "written" /\ session'[c] = "reading" =>
         request[c].keep_alive \/ ~IsApiRequest(request[c])]_vars

\* A request that has been read gets its answer, or the connection or the server is
\* gone: no request is forgotten in the strand, whatever the ones before it do.
InWork(c) == session[c] \in {"read", "queued", "running", "writing"}
EveryRequestEnds == \A c \in Conns : InWork(c) ~> (~InWork(c) \/ server # "up")
=============================================================================
