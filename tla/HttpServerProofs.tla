--------------------------- MODULE HttpServerProofs ---------------------------
(***************************************************************************)
(* What the connections and the strand of HttpServer guarantee for any     *)
(* number of connections, any requests and any way the endpoints answer.   *)
(***************************************************************************)
EXTENDS HttpServer, SequenceTheorems, TLAPS

Fields == {"path", "method", "json", "body", "auth", "keep_alive"}

Typed ==
  /\ session \in [Conns -> Places]
  /\ request = [c \in Conns |-> request[c]] /\ \A c \in Conns : DOMAIN request[c] = Fields
  /\ answer = [c \in Conns |-> answer[c]]
  /\ writes \in [Conns -> Nat]
  /\ queue \in Seq(Conns)
  /\ running \subseteq Conns

\* A connection waits for the strand once, and in the place for it.
QueueInv ==
  /\ \A i \in 1 .. Len(queue) : session[queue[i]] = "queued"
  /\ \A i, j \in 1 .. Len(queue) : queue[i] = queue[j] => i = j

\* The strand runs one handler, of a connection that waits for nothing else.
StrandInv ==
  /\ \A c \in running : session[c] = "running"
  /\ \A c, d \in running : c = d

\* While an answer is under way one write has begun for it, else none.
Answered(c) == session[c] \in {"writing", "written"}
WritesInv == \A c \in Conns : writes[c] = IF Answered(c) THEN 1 ELSE 0

\* What an answer says about the end of the connection is what its request asked.
CloseInv ==
  \A c \in Conns :
    Answered(c) /\ IsApiRequest(request[c]) =>
      (request[c].keep_alive \/ answer[c].close)

Inv == Typed /\ QueueInv /\ StrandInv /\ JudgedByItself /\ WritesInv /\ CloseInv

-----------------------------------------------------------------------------
LEMMA NoDataFields == DOMAIN NoData = Fields
BY DEF NoData, Fields

\* What Construct makes of a request, whatever was there before: all of the
\* request, but the token of the one before if it brings none.
LEMMA ConstructFacts ==
  ASSUME NEW data, NEW req, DOMAIN req = Fields
  PROVE  /\ Construct(data, req).path = req.path
         /\ Construct(data, req).method = req.method
         /\ Construct(data, req).body = req.body
         /\ Construct(data, req).keep_alive = req.keep_alive
         /\ req.auth \in Tokens => Construct(data, req).auth = req.auth
         /\ req.auth = Malformed => Construct(data, req).auth = NoToken
BY ApiAssumption DEF Construct, Fields

LEMMA InitInv == Init => Inv
<1> SUFFICES ASSUME Init PROVE Inv
  OBVIOUS
<1>1. Typed
  BY NoDataFields DEF Init, Typed, Places
<1>2. QueueInv /\ StrandInv /\ JudgedByItself
  BY DEF Init, QueueInv, StrandInv, JudgedByItself
<1>3. WritesInv /\ CloseInv
  BY DEF Init, WritesInv, CloseInv, Answered
<1> QED
  BY <1>1, <1>2, <1>3 DEF Inv

-----------------------------------------------------------------------------
(* Steps outside of the strand.                                            *)

\* A connection that moves to another place outside of the strand, with the request
\* and the answer it then has.
LEMMA OutsideInv ==
  ASSUME Inv, NEW c \in Conns, session[c] \notin {"queued", "running"},
         NEW place \in Places \ {"queued", "running"}, Goes(c, place), UNCHANGED strand,
         NEW req, DOMAIN req = Fields, request' = [request EXCEPT ![c] = req],
         NEW ans, answer' = [answer EXCEPT ![c] = ans],
         writes' = [writes EXCEPT ![c] = IF place \in {"writing", "written"} THEN 1 ELSE 0],
         place \in {"writing", "written"} /\ IsApiRequest(req) => (req.keep_alive \/ ans.close)
  PROVE  Inv'
<1>1. session' = [session EXCEPT ![c] = place] /\ session \in [Conns -> Places]
  BY DEF Goes, Inv, Typed
<1>2. Typed'
  BY <1>1 DEF strand, Inv, Typed
<1>3. QueueInv'
  <2>1. \A i \in 1 .. Len(queue) : queue[i] \in Conns /\ queue[i] # c
    BY DEF Inv, Typed, QueueInv
  <2> QED
    BY <1>1, <2>1 DEF strand, Inv, QueueInv
<1>4. c \notin running /\ running \subseteq Conns /\ UNCHANGED <<running, req_data>>
  BY DEF strand, Inv, Typed, StrandInv
<1>5. StrandInv'
  BY <1>1, <1>4 DEF Inv, StrandInv
<1>6. JudgedByItself'
  <2>1. \A d \in running : request'[d] = request[d]
    BY <1>4 DEF Inv, Typed
  <2> QED
    BY <1>4, <2>1 DEF Inv, JudgedByItself
<1>7. WritesInv'
  BY <1>1 DEF Inv, Typed, WritesInv, Answered
<1>8. CloseInv'
  <2> SUFFICES ASSUME NEW d \in Conns, Answered(d)', IsApiRequest(request[d])'
               PROVE  (request[d].keep_alive \/ answer[d].close)'
    BY DEF CloseInv
  <2>1. CASE d = c
    <3>1. request'[d] = req /\ answer'[d] = ans
      BY <2>1 DEF Inv, Typed
    <3>2. place \in {"writing", "written"}
      BY <1>1, <2>1 DEF Answered
    <3>3. IsApiRequest(req)
      BY <3>1
    <3> QED
      BY <3>1, <3>2, <3>3
  <2>2. CASE d # c
    <3>1. request'[d] = request[d] /\ answer'[d] = answer[d] /\ session'[d] = session[d]
      BY <1>1, <2>2 DEF Inv, Typed
    <3>2. Answered(d) /\ IsApiRequest(request[d])
      BY <3>1 DEF Answered
    <3> QED
      BY <3>1, <3>2 DEF Inv, CloseInv
  <2> QED
    BY <2>1, <2>2
<1> QED
  BY <1>2, <1>3, <1>5, <1>6, <1>7, <1>8 DEF Inv

\* A step that leaves the connections and the strand alone.
LEMMA StillInv ==
  Inv /\ UNCHANGED <<session, request, answer, strand, writes>> => Inv'
<1> SUFFICES ASSUME Inv, UNCHANGED <<session, request, answer, strand, writes>> PROVE Inv'
  OBVIOUS
<1>1. Typed'
  BY DEF Inv, Typed, strand
<1>2. QueueInv' /\ StrandInv' /\ JudgedByItself'
  BY DEF Inv, QueueInv, StrandInv, JudgedByItself, strand
<1>3. WritesInv' /\ CloseInv'
  BY DEF Inv, WritesInv, CloseInv, Answered
<1> QED
  BY <1>1, <1>2, <1>3 DEF Inv

LEMMA RestartsInv ==
  ASSUME Inv, NEW c \in Conns, session[c] \notin {"queued", "running"},
         NEW place \in {"reading", "over"}, Restarts(c, place), UNCHANGED strand
  PROVE  Inv'
BY OutsideInv, NoDataFields DEF Restarts, Places

\* A connection that moves on without a change of its request or its answer.
LEMMA MovesInv ==
  ASSUME Inv, NEW c \in Conns, session[c] \notin {"queued", "running"},
         NEW place \in Places \ {"queued", "running"}, Goes(c, place),
         UNCHANGED <<request, answer, strand, writes>>,
         Answered(c) <=> place \in {"writing", "written"}
  PROVE  Inv'
<1>1. DOMAIN request[c] = Fields
  BY DEF Inv, Typed
<1>2. request' = [request EXCEPT ![c] = request[c]]
  BY DEF Inv, Typed
<1>3. answer' = [answer EXCEPT ![c] = answer[c]]
  BY DEF Inv, Typed
<1>4. writes' = [writes EXCEPT ![c] = IF place \in {"writing", "written"} THEN 1 ELSE 0]
  BY DEF Inv, Typed, WritesInv
<1>5. place \in {"writing", "written"} /\ IsApiRequest(request[c])
        => (request[c].keep_alive \/ answer[c].close)
  BY DEF Inv, CloseInv
<1>6. UNCHANGED strand
  OBVIOUS
<1> QED
  BY <1>1, <1>2, <1>3, <1>4, <1>5, <1>6, OutsideInv

LEMMA ClientInv ==
  ASSUME Inv, NEW c \in Conns,
         \/ Accept(c) \/ EndOfStream(c) \/ Written(c)
         \/ \E req \in Requests : Arrive(c, req)
  PROVE  Inv'
<1>1. CASE Accept(c) \/ EndOfStream(c) \/ Written(c)
  <2>1. \E place \in {"reading", "end of stream", "written"} :
          /\ session[c] \notin {"queued", "running"} /\ Goes(c, place)
          /\ UNCHANGED <<request, answer, strand, writes>>
          /\ Answered(c) <=> place \in {"writing", "written"}
    BY <1>1 DEF Accept, EndOfStream, Written, Answered
  <2> QED
    BY <2>1, MovesInv DEF Places
<1>2. CASE \E req \in Requests : Arrive(c, req)
  <2>1. PICK req \in Requests : Arrive(c, req)
    BY <1>2
  <2>2. /\ session[c] = "reading" /\ Goes(c, "read")
        /\ request' = [request EXCEPT ![c] = req]
        /\ UNCHANGED <<answer, strand, writes>>
    BY <2>1 DEF Arrive
  <2>3. DOMAIN req = Fields
    BY HttpAssumption, NoDataFields
  <2>4. answer' = [answer EXCEPT ![c] = answer[c]]
    BY <2>2 DEF Inv, Typed
  <2>5. writes' = [writes EXCEPT ![c] = 0]
    BY <2>2 DEF Inv, Typed, WritesInv, Answered
  <2>6. UNCHANGED strand
    BY <2>2
  <2>7. "read" \in Places \ {"queued", "running"} /\ "read" \notin {"writing", "written"}
    BY DEF Places
  <2> QED
    BY <2>2, <2>3, <2>4, <2>5, <2>6, <2>7, OutsideInv
<1> QED
  BY <1>1, <1>2

\* The steps that close a connection or read from it again.
LEMMA EndInv ==
  ASSUME Inv, NEW c \in Conns,
         ReadFails(c) \/ OnEndOfStream(c) \/ WriteFails(c) \/ OnWrite(c)
  PROVE  Inv'
<1>1. CASE Restarts(c, "over") \/ Restarts(c, "reading")
  BY <1>1, RestartsInv DEF ReadFails, OnEndOfStream, WriteFails, OnWrite
<1>2. CASE UNCHANGED <<session, request, answer, writes>>
  BY <1>2, StillInv DEF ReadFails, OnEndOfStream, WriteFails, OnWrite
<1> QED
  BY <1>1, <1>2 DEF ReadFails, OnEndOfStream, WriteFails, OnWrite, Close

-----------------------------------------------------------------------------
(* Answering.                                                              *)

\* What Send does, in short.
LEMMA SendFacts ==
  ASSUME NEW c \in Conns, NEW status, NEW close, Send(c, status, close)
  PROVE  \/ /\ session' = [session EXCEPT ![c] = "writing"]
            /\ \E s : answer' = [answer EXCEPT ![c] = [status |-> s, close |-> close]]
            /\ writes' = [writes EXCEPT ![c] = writes[c] + 1]
         \/ UNCHANGED <<session, answer, writes>>
BY DEF Send, Goes, WritesBegun

LEMMA HandleFileRequestInv ==
  ASSUME Inv, NEW c \in Conns, HandleFileRequest(c) PROVE Inv'
<1>1. /\ session[c] = "read" /\ ~IsApiRequest(request[c])
      /\ UNCHANGED <<request, strand>>
  BY DEF HandleFileRequest
<1>2. PICK status, close : Send(c, status, close)
  BY DEF HandleFileRequest
<1>3. CASE UNCHANGED <<session, answer, writes>>
  BY <1>1, <1>3, StillInv
<1>4. CASE /\ session' = [session EXCEPT ![c] = "writing"]
           /\ \E s : answer' = [answer EXCEPT ![c] = [status |-> s, close |-> close]]
           /\ writes' = [writes EXCEPT ![c] = writes[c] + 1]
  <2>1. writes[c] = 0 /\ DOMAIN request[c] = Fields
    BY <1>1 DEF Inv, Typed, WritesInv, Answered
  <2>2. request' = [request EXCEPT ![c] = request[c]]
    BY <1>1 DEF Inv, Typed
  <2>3. writes' = [writes EXCEPT ![c] = 1]
    BY <1>4, <2>1
  <2>4. PICK ans : answer' = [answer EXCEPT ![c] = ans]
    BY <1>4
  <2> QED
    BY <1>1, <1>4, <2>1, <2>2, <2>3, <2>4, OutsideInv DEF Places, Goes
<1> QED
  BY <1>2, <1>3, <1>4, SendFacts

LEMMA DispatchInv ==
  ASSUME Inv, NEW c \in Conns, Dispatch(c) PROVE Inv'
<1>1. /\ session[c] = "read" /\ session' = [session EXCEPT ![c] = "queued"]
      /\ queue' = Append(queue, c)
      /\ UNCHANGED <<request, answer, running, req_data, writes>>
  BY DEF Dispatch, Goes
<1>2. queue \in Seq(Conns) /\ session \in [Conns -> Places] /\ running \subseteq Conns
  BY DEF Inv, Typed
<1>3. Typed'
  BY <1>1, <1>2, AppendProperties DEF Inv, Typed, Places
<1>4. QueueInv'
  <2>1. /\ Len(queue') = Len(queue) + 1 /\ queue'[Len(queue) + 1] = c
        /\ \A i \in 1 .. Len(queue) : queue'[i] = queue[i]
        /\ \A i \in 1 .. Len(queue) : queue[i] \in Conns /\ queue[i] # c
        /\ Len(queue) \in Nat
    BY <1>1, <1>2, AppendProperties DEF Inv, QueueInv
  <2> QED
    BY <1>1, <1>2, <2>1 DEF Inv, QueueInv
<1>5. StrandInv' /\ JudgedByItself'
  BY <1>1, <1>2 DEF Inv, StrandInv, JudgedByItself
<1>6. WritesInv' /\ CloseInv'
  BY <1>1, <1>2 DEF Inv, WritesInv, CloseInv, Answered
<1> QED
  BY <1>3, <1>4, <1>5, <1>6 DEF Inv

LEMMA StartHandlerInv ==
  ASSUME Inv, NEW c \in Conns, StartHandler(c) PROVE Inv'
<1>1. /\ running = {} /\ queue # <<>> /\ Head(queue) = c
      /\ queue' = Tail(queue) /\ running' = {c}
      /\ session' = [session EXCEPT ![c] = "running"]
      /\ req_data' = Construct(req_data, request[c])
      /\ UNCHANGED <<request, answer, writes>>
  BY DEF StartHandler, Goes
<1>2. queue \in Seq(Conns) /\ session \in [Conns -> Places] /\ DOMAIN request[c] = Fields
  BY DEF Inv, Typed
<1>3. Typed'
  BY <1>1, <1>2, HeadTailProperties DEF Inv, Typed, Places
<1>4. /\ Len(queue) \in Nat /\ Len(queue) >= 1 /\ queue[1] = c /\ session[c] = "queued"
      /\ Len(queue') = Len(queue) - 1
      /\ \A i \in 1 .. Len(queue) - 1 :
           queue'[i] = queue[i + 1] /\ queue[i + 1] \in Conns /\ queue[i + 1] # c
  BY <1>1, <1>2 DEF Inv, QueueInv
<1>5. QueueInv'
  BY <1>1, <1>2, <1>4 DEF Inv, QueueInv
<1>6. StrandInv'
  BY <1>1, <1>2 DEF StrandInv
<1>7. JudgedByItself'
  BY <1>1, <1>2, ConstructFacts DEF JudgedByItself
<1>8. WritesInv' /\ CloseInv'
  BY <1>1, <1>2, <1>4 DEF Inv, WritesInv, CloseInv, Answered
<1> QED
  BY <1>3, <1>5, <1>6, <1>7, <1>8 DEF Inv

LEMMA FinishHandlerInv ==
  ASSUME Inv, NEW c \in Conns, FinishHandler(c) PROVE Inv'
<1>1. c \in running /\ running' = running \ {c} /\ UNCHANGED <<request, queue, req_data>>
  BY DEF FinishHandler
<1>2. running' = {} /\ session[c] = "running" /\ session \in [Conns -> Places]
  BY <1>1 DEF Inv, Typed, StrandInv
<1>3. PICK status : Send(c, status, ~req_data.keep_alive)
  BY DEF FinishHandler
<1>4. StrandInv' /\ JudgedByItself'
  BY <1>2 DEF StrandInv, JudgedByItself
<1>5. CASE UNCHANGED <<session, answer, writes>>
  <2>1. Typed' /\ QueueInv' /\ WritesInv' /\ CloseInv'
    BY <1>1, <1>5 DEF Inv, Typed, QueueInv, WritesInv, CloseInv, Answered
  <2> QED
    BY <1>4, <2>1 DEF Inv
<1>6. CASE /\ session' = [session EXCEPT ![c] = "writing"]
           /\ \E s : answer' =
                [answer EXCEPT ![c] = [status |-> s, close |-> ~req_data.keep_alive]]
           /\ writes' = [writes EXCEPT ![c] = writes[c] + 1]
  <2>1. writes[c] = 0 /\ answer = [d \in Conns |-> answer[d]]
    BY <1>2 DEF Inv, Typed, WritesInv, Answered
  <2>2. Typed'
    <3>1. PICK ans : answer' = [answer EXCEPT ![c] = ans]
      BY <1>6
    <3>2. answer' = [d \in Conns |-> answer'[d]]
      BY <3>1 DEF Inv, Typed
    <3>3. writes \in [Conns -> Nat] /\ writes' = [writes EXCEPT ![c] = 1]
      BY <1>6, <2>1 DEF Inv, Typed
    <3>4. session' \in [Conns -> Places] /\ running' \subseteq Conns
      BY <1>1, <1>2, <1>6 DEF Places
    <3> QED
      BY <1>1, <3>2, <3>3, <3>4 DEF Inv, Typed
  <2>3. QueueInv'
    <3>1. \A i \in 1 .. Len(queue) : queue[i] \in Conns /\ queue[i] # c
      BY <1>2 DEF Inv, Typed, QueueInv
    <3> QED
      BY <1>1, <1>2, <1>6, <3>1 DEF Inv, QueueInv
  <2>4. WritesInv'
    BY <1>2, <1>6, <2>1 DEF Inv, Typed, WritesInv, Answered
  <2>5. CloseInv'
    <3> SUFFICES ASSUME NEW d \in Conns, Answered(d)', IsApiRequest(request[d])'
                 PROVE  (request[d].keep_alive \/ answer[d].close)'
      BY DEF CloseInv
    <3>1. CASE d = c
      <4>1. req_data.keep_alive = request[c].keep_alive
        BY <1>1 DEF Inv, JudgedByItself
      <4>2. answer'[c].close = ~req_data.keep_alive
        BY <1>6, <2>1
      <4> QED
        BY <1>1, <3>1, <4>1, <4>2
    <3>2. CASE d # c
      <4>1. request'[d] = request[d] /\ answer'[d] = answer[d] /\ session'[d] = session[d]
        BY <1>1, <1>2, <1>6, <3>2, <2>1
      <4>2. Answered(d) /\ IsApiRequest(request[d])
        BY <4>1 DEF Answered
      <4> QED
        BY <4>1, <4>2 DEF Inv, CloseInv
    <3> QED
      BY <3>1, <3>2
  <2> QED
    BY <1>4, <2>2, <2>3, <2>4, <2>5 DEF Inv
<1> QED
  BY <1>3, <1>5, <1>6, SendFacts

-----------------------------------------------------------------------------
LEMMA NextInv == Inv /\ [Next]_vars => Inv'
<1> SUFFICES ASSUME Inv, [Next]_vars PROVE Inv'
  OBVIOUS
<1>1. CASE UNCHANGED vars
  BY <1>1, StillInv DEF vars, strand
<1>2. CASE AcceptFails
  BY <1>2, StillInv DEF AcceptFails
<1>3. ASSUME NEW c \in Conns, Reset(c) \/ HandleRequestThrows(c) \/ FrontOfNothing(c)
      PROVE  Inv'
  BY <1>3, StillInv DEF Reset, HandleRequestThrows, FrontOfNothing, sockets
<1> QED
  BY <1>1, <1>2, <1>3, ClientInv, EndInv, HandleFileRequestInv, DispatchInv,
     StartHandlerInv, FinishHandlerInv DEF Next, ServerStep

LEMMA Invariant == Spec => []Inv
BY InitInv, NextInv, PTL DEF Spec

\* No request is answered twice, whatever throws on the way of its answer
\* (LoggingRequestHandler and the catch blocks around send).
THEOREM OneAnswer == Spec => []OneAnswerEach
<1>1. Inv => OneAnswerEach
  BY DEF Inv, WritesInv, OneAnswerEach
<1> QED
  BY <1>1, Invariant, PTL

\* The strand keeps the one RequestData that all requests share for the request in
\* work (RequestHandler::HandleRequest, ApiHandler::HandleRequest).
THEOREM StrandKeepsRequest == Spec => []JudgedByItself
<1>1. Inv => JudgedByItself
  BY DEF Inv
<1> QED
  BY <1>1, Invariant, PTL

\* The wish to close comes through RequestData and the answer to SessionBase::OnWrite.
THEOREM CloseComesThrough == Spec => CloseIsHonoured
<1>1. Inv /\ [Next]_vars =>
        [\A c \in Conns :
           session[c] = "written" /\ session'[c] = "reading" =>
             request[c].keep_alive \/ ~IsApiRequest(request[c])]_vars
  <2> SUFFICES ASSUME Inv, Next, NEW c \in Conns, session[c] = "written",
                      session'[c] = "reading"
               PROVE  request[c].keep_alive \/ ~IsApiRequest(request[c])
    BY DEF vars
  <2>1. OnWrite(c) /\ ~answer[c].close
    <3>1. session \in [Conns -> Places]
      BY DEF Inv, Typed
    <3>2. ~UNCHANGED session
      OBVIOUS
    <3>3. PICK d \in Conns :
             \/ Accept(d) \/ EndOfStream(d) \/ ReadFails(d) \/ Written(d) \/ WriteFails(d)
             \/ ServerStep(d) \/ \E req \in Requests : Arrive(d, req)
      BY <3>2 DEF Next, AcceptFails, Reset, FrontOfNothing, sockets
    <3>4. \E place : session' = [session EXCEPT ![d] = place]
      BY <3>2, <3>3, SendFacts DEF Accept, EndOfStream, ReadFails, Written, WriteFails, ServerStep,
         OnEndOfStream, HandleRequestThrows, HandleFileRequest, Dispatch, StartHandler,
         FinishHandler, OnWrite, Arrive, Close, Restarts, Goes, sockets
    <3>5. d = c
      BY <3>1, <3>4
    <3>6. OnWrite(c)
      BY <3>1, <3>3, <3>5 DEF Accept, EndOfStream, ReadFails, Written, WriteFails, ServerStep,
         OnEndOfStream, HandleRequestThrows, HandleFileRequest, Dispatch, StartHandler,
         FinishHandler, Arrive, Goes, Inv, StrandInv
    <3> QED
      BY <3>1, <3>6 DEF OnWrite, Close, Restarts, Goes
  <2> QED
    BY <2>1 DEF Inv, CloseInv, Answered
<1> QED
  BY <1>1, Invariant, PTL DEF Spec, CloseIsHonoured
=============================================================================
