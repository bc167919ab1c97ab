----------------------------- MODULE MCHttpServer -----------------------------
EXTENDS HttpServer

Ask(path, method, body, auth) ==
  [path |-> path, method |-> method, json |-> method = "post", body |-> body,
   auth |-> auth, keep_alive |-> TRUE]
Game(rest) == <<"api", "v1", "game">> \o rest

\* One request for every way through the routing, and those that differ in what is
\* kept between requests: the token and the wish to close.
MCRequests ==
  {Ask(Game(<<"player", "action">>), "post", "good", t) : t \in Tokens \cup {NoHeader, Malformed}}
  \cup {Ask(Game(<<"join">>), "post", "good", NoHeader),
        Ask(Game(<<"tick">>), "post", "good", NoHeader),
        Ask(Game(<<"player">>), "get", "bad", NoHeader),
        Ask(Game(<<"records">>), "get", "negative", NoHeader),
        Ask(<<"x", "..", "api", "v1">>, "get", "bad", NoHeader),
        Ask(Undecodable, "get", "bad", NoHeader),
        [Ask(<<"index">>, "get", "bad", NoHeader) EXCEPT !.keep_alive = FALSE],
        [Ask(<<"api", "v1", "maps", "town">>, "get", "bad", NoHeader)
           EXCEPT !.keep_alive = FALSE]}

\* Where paths lead; what follows "player" may stand for itself.
ASSUME RoutingTable ==
  /\ \A e \in {"join", "players", "state", "tick", "records"} :
       Endpoint(Game(<<e>>)) = e
  /\ \A e \in {"tick", "records"} : Endpoint(Game(<<"player", e>>)) = e
  /\ \A e \in {"join", "players", "state", "player"} :
       Endpoint(Game(<<"player", e>>)) = "unknown"
  /\ Endpoint(Game(<<"player", "action">>)) = "action"
  /\ Endpoint(Game(<<"records", "more">>)) = "records"
  /\ Endpoint(Game(<<"tick", "more">>)) = "unknown"
  /\ Endpoint(<<"api", "v1", "maps", "town", "more">>) = "map"
  /\ ApiAnswers([NoData EXCEPT !.path = Game(<<"tick">>), !.method = "get"],
                {}, {}, FALSE) = {405}

MCMaps == {"town"}
MCUndecodable == <<"%">>
=============================================================================
