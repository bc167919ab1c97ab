---------------------------------- MODULE Api ----------------------------------
(***************************************************************************)
(* What the request handler makes of a request: routing, the checks of the *)
(* endpoints and the answers (src/src/http/request_handler.{h,cpp}).       *)
(*                                                                         *)
(* A request is a record                                                   *)
(*   path        the pieces of its URI between slashes, or Undecodable     *)
(*   method      "get", "head", "post" or "other"                          *)
(*   json        whether its content type is application/json              *)
(*   body        "good": what the endpoint expects; for an action also     *)
(*               "halt" (an empty direction) and "odd" (an unknown one);   *)
(*               for records the parameters in the URI: "good", "negative" *)
(*               (a number the database refuses) or "bad"; else "bad"      *)
(*   auth        a token, NoHeader, or Malformed                           *)
(*   keep_alive  whether the client wants to go on                         *)
(* An answer is its status.                                                *)
(***************************************************************************)
EXTENDS Integers, Sequences, SequencesExt

CONSTANTS Tokens, NoHeader, Malformed, NoToken, Undecodable

ASSUME ApiAssumption ==
  /\ NoHeader \notin Tokens /\ Malformed \notin Tokens /\ NoToken \notin Tokens
  /\ NoHeader # Malformed

Statuses == {200, 400, 401, 404, 405, 500}

-----------------------------------------------------------------------------
(* RequestData.                                                            *)

NoData == [path |-> <<>>, method |-> "other", json |-> FALSE, body |-> "bad",
           auth |-> NoToken, keep_alive |-> FALSE]

\* Mutant: the wish to go on is never taken back.
ConstructKeepsAlive(data, req) ==
  [req EXCEPT !.auth = IF req.auth = NoHeader THEN data.auth
                       ELSE IF req.auth = Malformed THEN NoToken ELSE req.auth,
              !.keep_alive = data.keep_alive \/ @]
\* RequestData::Construct over the data of the request before: a header that is
\* missing leaves auth_token as it was.
Construct(data, req) ==
  [req EXCEPT !.auth = IF req.auth = NoHeader THEN data.auth
                       ELSE IF req.auth = Malformed THEN NoToken ELSE req.auth]

-----------------------------------------------------------------------------
(* Routing.                                                                *)

\* fs::weakly_canonical on the pieces of a path.
Canonical(path) ==
  FoldLeft(LAMBDA done, piece :
             IF piece # ".." THEN Append(done, piece)
             ELSE IF done = <<>> THEN <<>> ELSE Front(done),
           <<>>, path)

\* DecodeURI: some URIs have no decoded form.
HasDecodedURI(req) == req.path # Undecodable

\* An undecodable path goes to the files, which refuse it.
IsApiRequest(req) ==
  HasDecodedURI(req) /\ Canonical(req.path) # <<>> /\ Canonical(req.path)[1] = "api"

\* HandleGameRequest: what is left of the path after /api/v1/game.  A piece that
\* follows "player" and is not "action" is taken for the piece in its place.
GameEndpoint(rest) ==
  LET tail == IF rest # <<>> /\ Head(rest) = "player" THEN Tail(rest) ELSE rest
  IN  CASE rest \in {<<"join">>, <<"players">>, <<"state">>} -> Head(rest)
        [] rest = <<"player">> -> "beyond the end"
        [] rest = <<"player", "action">> -> "action"
        [] tail = <<"tick">> -> "tick"
        [] tail # <<>> /\ Head(tail) = "records" -> "records"
        [] OTHER -> "unknown"

\* ApiHandler::HandleRequest.
Endpoint(path) ==
  CASE path = <<>> \/ path[1] # "api" -> "not api"
    [] path[1] = "api" /\ (Len(path) < 3 \/ path[2] # "v1") -> "unknown"
    [] OTHER -> CASE path[3] = "maps" -> IF Len(path) = 3 THEN "maps" ELSE "map"
                  [] path[3] = "game" -> GameEndpoint(SubSeq(path, 4, Len(path)))
                  [] OTHER -> "unknown"

AllowedMethods(endpoint) ==
  IF endpoint \in {"join", "action", "tick"} THEN {"post"} ELSE {"get", "head"}

IsAuthorized(endpoint) == endpoint \in {"players", "state", "action"}

-----------------------------------------------------------------------------
(* The endpoints.  known is the set of tokens that lead to a player, maps  *)
(* the identifiers of the maps, ticker whether the server ticks by itself. *)

\* HandlePlayerActionRequest, after its checks of method and token.
ActionAnswer(data, known) ==
  CASE ~data.json \/ data.body \in {"bad", "odd"} -> 400
    [] OTHER -> IF data.auth \in known THEN 200 ELSE 401

\* HandleSingleMapRequest.
MapAnswer(path, maps) ==
  CASE Len(path) > 4 -> 400
    [] OTHER -> IF path[4] \in maps THEN 200 ELSE 404

\* HandlePlayerJoin: whether the map exists is the client's affair.
JoinAnswers(data) == IF data.json /\ data.body = "good" THEN {200, 404} ELSE {400}

\* HandlePlayersRequest.
PlayersAnswer(data, known) == IF data.auth \in known THEN 200 ELSE 401

\* HandleGameStateRequest.
StateAnswer(data, known) == IF data.auth \in known THEN 200 ELSE 401

\* HandleTickRequest: refused if the server ticks by itself; a tick may throw.
TickAnswers(data, ticker) ==
  IF data.json /\ data.body = "good" /\ ~ticker THEN {200, 500} ELSE {400}

\* HandleRecordsRequest: the query may throw, and does for negative numbers.
RecordsAnswers(data) ==
  CASE data.body = "good" -> {200, 500}
    [] data.body = "negative" -> {500}
    [] OTHER -> {400}

\* The answers of an endpoint whose checks of method and token have passed.
Answers(endpoint, data, known, maps, ticker) ==
  CASE endpoint = "maps" -> {200}
    [] endpoint = "map" -> {MapAnswer(data.path, maps)}
    [] endpoint = "join" -> JoinAnswers(data)
    [] endpoint = "players" -> {PlayersAnswer(data, known)}
    [] endpoint = "state" -> {StateAnswer(data, known)}
    [] endpoint = "action" -> {ActionAnswer(data, known)}
    [] endpoint = "tick" -> TickAnswers(data, ticker)
    [] endpoint = "records" -> RecordsAnswers(data)

\* ApiHandler::HandleRequest with ExecuteAllowedMethods and ExecuteAuthorized, and
\* the catch of the lambda that calls it.
ApiAnswers(data, known, maps, ticker) ==
  LET endpoint == Endpoint(data.path)
  IN  CASE endpoint = "not api" -> {500}
        [] endpoint \in {"unknown", "beyond the end"} -> {400}
        [] OTHER -> IF data.method \notin AllowedMethods(endpoint) THEN {405}
                    ELSE IF IsAuthorized(endpoint) /\ data.auth = NoToken THEN {401}
                    ELSE Answers(endpoint, data, known, maps, ticker)

\* HandleFileRequest, without what depends on the files there are: a path may lead
\* out of the root, and weakly_canonical may throw.
FileAnswers(req) ==
  IF HasDecodedURI(req)
  THEN {400, 500} \cup (IF req.method = "get" THEN {200, 404} ELSE {405})
  ELSE {400}
=============================================================================
