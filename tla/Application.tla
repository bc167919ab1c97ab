---------------------------- MODULE Application ----------------------------
(***************************************************************************)
(* The use cases of app::Application over the sessions of model::Game, as  *)
(* they run in the API strand: one handler at a time.  A client request    *)
(* (join, move, stop) is one action.  A tick is walked step by step,       *)
(* because the handler writes to a database in the middle of a loop and    *)
(* an exception thrown there leaves the loop half done.                    *)
(*                                                                         *)
(* A dog is the pair <<number, map>>: a map has at most one session, and   *)
(* dogs_join_ numbers the dogs of a session.  Geometry and loot are left   *)
(* to other modules; here a moving dog may meet the end of its road at any *)
(* tick, and a dog may bank one unit of score at any tick.                 *)
(*                                                                         *)
(* A definition whose comment begins with "Mutant" is a wrong version of   *)
(* the one that follows it.  No action uses it: it shows that a property   *)
(* would notice the error.                                                 *)
(***************************************************************************)
EXTENDS Naturals, Sequences, FiniteSets

CONSTANTS
    Maps,            \* maps of the game, each with at most one session
    Names,           \* dog names
    TooLong,         \* those the name column of retired_players cannot hold
    Tokens,          \* values the token generator returns
    NIL,             \* a null pointer, a key that is absent
    RetirementTime,  \* dog_retirement_time_
    Ticks,           \* the deltas a tick may carry
    Faults,          \* what may go wrong: see FaultKinds
    MaxDogs,         \* bound: dogs that join one session
    MaxJoins,        \* bound: dogs that join all sessions together
    MaxRetiring,     \* bound: ids left in dogs_to_retire_ before a tick
    IntMax,          \* the greatest value of a column of retired_players
    PlayCap,         \* bound: longer play times are not told apart
    ScoreCap         \* bound: higher scores are not told apart

\* "connection": a database call throws and nothing is committed;
\* "in_doubt": the commit reaches the database and throws all the same;
\* "same_name": two players may give their dogs the same name.
FaultKinds == {"connection", "in_doubt", "same_name"}

Dogs == (0 .. MaxDogs - 1) \X Maps
DogState == [name : Names, moving : BOOLEAN, holding : 0 .. RetirementTime,
             time : 0 .. PlayCap, score : 0 .. ScoreCap]
Row == [dog : Dogs, name : Names, score : 0 .. ScoreCap, time : 0 .. PlayCap]

ASSUME NilAssumption ==
    NIL \notin Dogs \cup DogState \cup Tokens \cup Row \cup Maps
ASSUME BoundAssumption ==
    /\ {MaxDogs, MaxJoins, MaxRetiring, IntMax, PlayCap, ScoreCap} \subseteq Nat
    /\ RetirementTime \in Nat /\ RetirementTime > 0
    /\ PlayCap >= RetirementTime
ASSUME InputAssumption == Ticks \subseteq Nat /\ Faults \subseteq FaultKinds

VARIABLES
    joined,           \* dogs_join_ of every session
    dog,              \* dogs_ and dog_id_to_dog_: the dogs alive
    retiring,         \* dogs_to_retire_ of every session
    players,          \* keys of Players::players_
    token_to_player,  \* PlayerTokens
    player_to_token,
    rows,             \* committed rows of retired_players
    at,               \* where the handler in the strand stands
    tick,             \* the delta of the tick being handled
    sessions,         \* sessions this tick has not visited yet
    here,             \* the session being visited
    pending,          \* its dogs that have not moved yet
    n,                \* index into dogs_to_retire_
    unit,             \* the row saved in the open unit of work
    quiet,            \* ghost: time since a command of the player reached the dog
    away,             \* external: dogs whose client has gone
    doubtful,         \* ghost: dogs recorded by a commit that threw
    left              \* ghost: ids an exception left in dogs_to_retire_ of every session

registry == <<players, token_to_player, player_to_token>>
loop == <<tick, sessions, here, pending, n>>
client == <<quiet, away, doubtful, left>>
vars == <<joined, dog, retiring, registry, rows, at, loop, unit, client>>

Places == {"idle", "game", "move", "retire", "commit", "erase", "loot", "crashed"}

AtMost(cap, x) == IF x > cap THEN cap ELSE x
Joined == {d \in Dogs : d[1] < joined[d[2]]}
Alive == {d \in Dogs : dog[d] # NIL}
InSession(m) == {d \in Alive : d[2] = m}
Listed(m) == {retiring[m][i] : i \in 1 .. Len(retiring[m])}

Init ==
    /\ joined = [m \in Maps |-> 0]
    /\ dog = [d \in Dogs |-> NIL]
    /\ retiring = [m \in Maps |-> <<>>]
    /\ players = {}
    /\ token_to_player = [t \in Tokens |-> NIL]
    /\ player_to_token = [d \in Dogs |-> NIL]
    /\ rows = {}
    /\ at = "idle"
    /\ tick = 0 /\ sessions = {} /\ here = NIL /\ pending = {} /\ n = 1
    /\ unit = NIL
    /\ quiet = [d \in Dogs |-> 0]
    /\ away = {} /\ doubtful = {} /\ left = [m \in Maps |-> {}]

-----------------------------------------------------------------------------
(* Dogs.                                                                   *)

NewDog(name) ==
    [name |-> name, moving |-> FALSE, holding |-> 0, time |-> 0, score |-> 0]

\* Mutant: the holding time survives a stop.
StoppedKeepsHolding(s) == [s EXCEPT !.moving = FALSE]
Stopped(s) == [s EXCEPT !.moving = FALSE, !.holding = 0]

\* Mutant: play time stands still while the dog does.
AddTickOnlyWhenMoving(s) ==
    [s EXCEPT !.time = IF s.moving THEN AtMost(PlayCap, @ + tick) ELSE @,
              !.holding = IF s.moving THEN @ ELSE AtMost(RetirementTime, @ + tick)]
\* Mutant: holding time is never added.
AddTickNeverHolds(s) == [s EXCEPT !.time = AtMost(PlayCap, @ + tick)]
AddTick(s) ==
    [s EXCEPT !.time = AtMost(PlayCap, @ + tick),
              !.holding = IF s.moving THEN @ ELSE AtMost(RetirementTime, @ + tick)]

\* What Move makes of a dog; border says that a moving dog meets the end of
\* its road within this tick.
Moved(s, border) == LET a == AddTick(s) IN IF a.moving /\ border THEN Stopped(a) ELSE a

Due(s) == ~s.moving /\ s.holding >= RetirementTime

-----------------------------------------------------------------------------
(* Requests.  Each runs in the strand while no tick does.                  *)

NameTaken(name) ==
    \/ \E d \in Alive : dog[d].name = name
    \/ \E r \in rows : r.name = name

\* Players::AddPlayer and PlayerTokens::AddPlayer: the token is drawn again
\* while it is in use.
Register(d, t) ==
    /\ token_to_player[t] = NIL
    /\ players' = players \cup {d}
    /\ token_to_player' = [token_to_player EXCEPT ![t] = d]
    /\ player_to_token' = [player_to_token EXCEPT ![d] = t]

JoinPlayer(m, name, t) ==
    /\ at = "idle"
    /\ joined[m] < MaxDogs /\ Cardinality(Joined) < MaxJoins
    /\ "same_name" \in Faults \/ ~NameTaken(name)
    /\ LET d == <<joined[m], m>> IN
       /\ joined' = [joined EXCEPT ![m] = @ + 1]
       /\ dog' = [dog EXCEPT ![d] = NewDog(name)]
       /\ Register(d, t)
    /\ UNCHANGED <<retiring, rows, at, loop, unit, client>>

\* FindPlayerByToken found the player, whose client is still there.
Commands(t, d) ==
    /\ at = "idle"
    /\ d = token_to_player[t]
    /\ d # NIL
    /\ d \notin away
    /\ quiet' = [quiet EXCEPT ![d] = 0]
    /\ UNCHANGED <<away, doubtful, left>>

MovePlayer(t) ==
    \E d \in Dogs :
        /\ Commands(t, d)
        /\ dog' = [dog EXCEPT ![d].moving = TRUE]
        /\ UNCHANGED <<joined, retiring, registry, rows, at, loop, unit>>

StopPlayer(t) ==
    \E d \in Dogs :
        /\ Commands(t, d)
        /\ dog' = [dog EXCEPT ![d] = Stopped(@)]
        /\ UNCHANGED <<joined, retiring, registry, rows, at, loop, unit>>

\* External: the browser of a player is closed.
Leave(d) ==
    /\ at = "idle" /\ dog[d] # NIL /\ d \notin away
    /\ away' = away \cup {d}
    /\ UNCHANGED <<joined, dog, retiring, registry, rows, at, loop, unit, quiet, doubtful, left>>

-----------------------------------------------------------------------------
(* A tick: Game::OnTick visits the sessions in an order the hash map fixes. *)

Tick(t) ==
    /\ at = "idle"
    /\ \A m \in Maps : Len(retiring[m]) <= MaxRetiring
    /\ at' = "game" /\ tick' = t
    /\ sessions' = {m \in Maps : joined[m] > 0}
    /\ UNCHANGED <<joined, dog, retiring, registry, rows, here, pending, n, unit, client>>

NextSession(m) ==
    /\ at = "game" /\ m \in sessions
    /\ sessions' = sessions \ {m}
    /\ at' = "move" /\ here' = m /\ pending' = InSession(m)
    /\ UNCHANGED <<joined, dog, retiring, registry, rows, tick, n, unit, client>>

\* One turn of the loop over dogs_, a list in the order of joining.
MoveDog(d, border) ==
    /\ at = "move" /\ d \in pending /\ \A e \in pending : d[1] <= e[1]
    /\ LET s == Moved(dog[d], border) IN
       /\ dog' = [dog EXCEPT ![d] = s]
       /\ retiring' = IF Due(s) THEN [retiring EXCEPT ![here] = Append(@, d)] ELSE retiring
    /\ pending' = pending \ {d}
    /\ quiet' = [quiet EXCEPT ![d] = AtMost(RetirementTime, @ + tick)]
    /\ UNCHANGED <<joined, registry, rows, at, tick, sessions, here, n, unit,
                   away, doubtful, left>>

MovedAll ==
    /\ at = "move" /\ pending = {}
    /\ at' = "retire" /\ n' = 1
    /\ UNCHANGED <<joined, dog, retiring, registry, rows, tick, sessions, here, pending, unit, client>>

\* An exception leaves OnTick of the session, of the game and of the
\* application, and is swallowed by the ticker or turned into an error page.
\* The open unit of work is rolled back; dogs_to_retire_ stays as it is.
Throw ==
    /\ left' = [left EXCEPT ![here] = Listed(here)]
    /\ at' = "idle" /\ tick' = 0 /\ sessions' = {} /\ here' = NIL /\ pending' = {} /\ n' = 1
    /\ unit' = NIL
    /\ UNCHANGED <<joined, dog, retiring, registry, quiet, away>>

Retires(d) == at = "retire" /\ n <= Len(retiring[here]) /\ d = retiring[here][n]

RowOf(d) == [dog |-> d, name |-> dog[d].name, score |-> dog[d].score, time |-> dog[d].time]

\* name is a varchar(100), score and play time are INTs in a unique index.
Rejected(row) ==
    \/ row.name \in TooLong \/ row.score > IntMax \/ row.time > IntMax
    \/ \E r \in rows : r.name = row.name /\ r.score = row.score /\ r.time = row.time

ConnectionFails ==
    /\ \E d \in Dogs : Retires(d)
    /\ "connection" \in Faults
    /\ Throw /\ UNCHANGED <<rows, doubtful>>

\* Mutant: the unit of work is committed with nothing in it.
SaveNothing(d) ==
    /\ Retires(d) /\ d \in players /\ ~Rejected(RowOf(d))
    /\ unit' = NIL /\ at' = "commit"
    /\ UNCHANGED <<joined, dog, retiring, registry, rows, loop, client>>
Save(d) ==
    /\ Retires(d) /\ d \in players /\ ~Rejected(RowOf(d))
    /\ unit' = RowOf(d) /\ at' = "commit"
    /\ UNCHANGED <<joined, dog, retiring, registry, rows, loop, client>>

SaveRejected(d) ==
    /\ Retires(d) /\ d \in players /\ Rejected(RowOf(d))
    /\ Throw /\ UNCHANGED <<rows, doubtful>>

\* FindByDogIdAndMapId returns nullptr, which is dereferenced.
NullPlayer(d) ==
    /\ Retires(d) /\ d \notin players
    /\ at' = "crashed"
    /\ UNCHANGED <<joined, dog, retiring, registry, rows, loop, unit, client>>

\* Mutant: the transaction is never committed.
CommitForgotten ==
    /\ at = "commit"
    /\ unit' = NIL /\ at' = "erase"
    /\ UNCHANGED <<joined, dog, retiring, registry, rows, loop, client>>
Commit ==
    /\ at = "commit"
    /\ rows' = rows \cup {unit}
    /\ unit' = NIL /\ at' = "erase"
    /\ UNCHANGED <<joined, dog, retiring, registry, loop, client>>

\* Mutant: what threw had been committed.
CommitFailsLate ==
    /\ at = "commit" /\ "connection" \in Faults
    /\ Throw /\ rows' = rows \cup {unit} /\ UNCHANGED doubtful
CommitFails ==
    /\ at = "commit" /\ "connection" \in Faults
    /\ Throw /\ UNCHANGED <<rows, doubtful>>

CommitInDoubt ==
    /\ at = "commit" /\ "in_doubt" \in Faults
    /\ Throw /\ rows' = rows \cup {unit} /\ doubtful' = doubtful \cup {unit.dog}

\* Mutant: token_to_player_ keeps its entry.
UnregisterLeavesToken(d) ==
    /\ players' = players \ {d}
    /\ token_to_player' = token_to_player
    /\ player_to_token' = [player_to_token EXCEPT ![d] = NIL]

\* Players::ErasePlayer, PlayerTokens::ErasePlayer, then the session's own list.
Unregister(d) ==
    /\ players' = players \ {d}
    /\ token_to_player' = [token_to_player EXCEPT ![player_to_token[d]] = NIL]
    /\ player_to_token' = [player_to_token EXCEPT ![d] = NIL]

\* Mutant: the dog stays in its session.
EraseKeepsDog(d) ==
    /\ at = "erase" /\ d = retiring[here][n]
    /\ Unregister(d)
    /\ at' = "retire" /\ n' = n + 1
    /\ UNCHANGED <<joined, dog, retiring, rows, tick, sessions, here, pending, unit, client>>
Erase(d) ==
    /\ at = "erase" /\ d = retiring[here][n]
    /\ Unregister(d)
    /\ dog' = [dog EXCEPT ![d] = NIL]
    /\ quiet' = [quiet EXCEPT ![d] = 0]
    /\ away' = away \ {d}
    /\ at' = "retire" /\ n' = n + 1
    /\ UNCHANGED <<joined, retiring, rows, tick, sessions, here, pending, unit, doubtful, left>>

\* Mutant: the list is not cleared.
RetiredAllKeepsList ==
    /\ at = "retire" /\ n > Len(retiring[here])
    /\ left' = [left EXCEPT ![here] = {}]
    /\ at' = "loot" /\ n' = 1
    /\ UNCHANGED <<joined, dog, retiring, registry, rows, tick, sessions, here, pending, unit,
                   quiet, away, doubtful>>
RetiredAll ==
    /\ at = "retire" /\ n > Len(retiring[here])
    /\ retiring' = [retiring EXCEPT ![here] = <<>>] /\ left' = [left EXCEPT ![here] = {}]
    /\ at' = "loot" /\ n' = 1
    /\ UNCHANGED <<joined, dog, registry, rows, tick, sessions, here, pending, unit,
                   quiet, away, doubtful>>

\* HandleCollisions and SpawnLoot: some dogs bank what they carry.
HandleLoot(lucky) ==
    /\ at = "loot" /\ lucky \subseteq InSession(here)
    /\ dog' = [d \in Dogs |->
                 IF d \in lucky
                 THEN [dog[d] EXCEPT !.score = AtMost(ScoreCap, @ + 1)]
                 ELSE dog[d]]
    /\ at' = "game" /\ here' = NIL
    /\ UNCHANGED <<joined, retiring, registry, rows, tick, sessions, pending, n, unit, client>>

EndTick ==
    /\ at = "game" /\ sessions = {}
    /\ at' = "idle" /\ tick' = 0
    /\ UNCHANGED <<joined, dog, retiring, registry, rows, sessions, here, pending, n, unit, client>>

-----------------------------------------------------------------------------
Request ==
    \/ \E m \in Maps, name \in Names, t \in Tokens : JoinPlayer(m, name, t)
    \/ \E t \in Tokens : MovePlayer(t)
    \/ \E t \in Tokens : StopPlayer(t)
    \/ \E d \in Dogs : Leave(d)

StartTick == \E t \in Ticks : Tick(t)

TickStep ==
    \/ \E m \in Maps : NextSession(m)
    \/ \E d \in Dogs, border \in BOOLEAN : MoveDog(d, border)
    \/ MovedAll
    \/ ConnectionFails
    \/ \E d \in Dogs : Save(d)
    \/ \E d \in Dogs : SaveRejected(d)
    \/ \E d \in Dogs : NullPlayer(d)
    \/ Commit
    \/ CommitFails
    \/ CommitInDoubt
    \/ \E d \in Dogs : Erase(d)
    \/ RetiredAll
    \/ \E lucky \in SUBSET Dogs : HandleLoot(lucky)
    \/ EndTick

Next == Request \/ StartTick \/ TickStep

Spec == Init /\ [][Next]_vars

\* The ticker arms its timer again after every tick, whatever the handler
\* did, and a handler that runs in the strand runs to its end.  Nothing is
\* assumed of the clients.
FairSpec == Spec /\ WF_vars(StartTick) /\ WF_vars(TickStep)

-----------------------------------------------------------------------------
(* Properties.                                                             *)

\* Every variable stays in its domain.
TypeOK ==
    /\ joined \in [Maps -> 0 .. MaxDogs]
    /\ dog \in [Dogs -> DogState \cup {NIL}]
    /\ retiring \in [Maps -> Seq(Dogs)]
    /\ players \subseteq Dogs
    /\ token_to_player \in [Tokens -> Dogs \cup {NIL}]
    /\ player_to_token \in [Dogs -> Tokens \cup {NIL}]
    /\ rows \subseteq Row
    /\ at \in Places
    /\ tick \in Nat
    /\ sessions \subseteq Maps /\ here \in Maps \cup {NIL} /\ pending \subseteq Dogs
    /\ n \in Nat \ {0}
    /\ unit \in Row \cup {NIL}
    /\ quiet \in [Dogs -> Nat] /\ away \subseteq Dogs /\ doubtful \subseteq Dogs
    /\ left \in [Maps -> SUBSET Dogs]

\* The three registries of players and the dogs of the sessions agree, also
\* while a tick is under way and after one that threw: a player exists exactly
\* while its dog does, and has exactly one token, which leads back to it.
RegistryConsistent ==
    /\ players = Alive
    /\ \A d \in Dogs : (dog[d] # NIL) <=> (player_to_token[d] # NIL)
    /\ \A d \in Dogs : player_to_token[d] # NIL => token_to_player[player_to_token[d]] = d
    /\ \A t \in Tokens :
          token_to_player[t] # NIL => player_to_token[token_to_player[t]] = t

\* No player is lost: a dog that joined and is no longer in its session has a
\* committed row, whatever fails on the way (DogRetire commits, then erases).
RecordedBeforeGone ==
    \A d \in Joined : dog[d] = NIL => \E r \in rows : r.dog = d

\* What the use cases make of a dog's life, in terms of Retirement: the dog is
\* recorded, for its player and the table, between the commit and the moment the
\* registries and the session forget it.
Life(d) ==
    IF dog[d] = NIL THEN IF d \in Joined THEN "gone" ELSE "unborn"
    ELSE IF at = "erase" /\ retiring[here][n] = d THEN "recorded"
    ELSE "playing"
DueRows == {r \in Row : r.time >= RetirementTime}

\* Every run of ticks, requests and faults amounts to dogs that join, play, are
\* recorded with a row that is due, and go: none goes unrecorded, none comes
\* back, none is recorded again but after a commit in doubt, and the exceptions
\* that end a tick half way take nothing back.
Career == INSTANCE Retirement
    WITH Rows <- DueRows, MayDoubt <- "in_doubt" \in Faults,
         life <- [d \in Dogs |-> Life(d)], records <- rows
ImplementsRetirement == Career!Spec

\* Nobody is recorded before the retirement time has passed in the game: a
\* stopped dog accrues play time at least as fast as holding time, and an id
\* left over in dogs_to_retire_ keeps that debt paid.
PlayTimeCoversRetirement == \A r \in rows : r.time >= RetirementTime

\* Between ticks dogs_to_retire_ holds nothing but ids that an exception left
\* there: a loop that comes to its end leaves none, its own or older ones, and a
\* throwing tick of one session adds none to another's.
NoLeftoverRetirees == at = "idle" => \A m \in Maps : Listed(m) \subseteq left[m]

\* The null player of DogRetire is always that of an id an exception has left in
\* the list: an id listed in this tick has its player when its turn comes, whatever
\* throws for the others, and the danger is over once the loop has come through.
CrashesOnlyOnLeftovers == at = "crashed" => retiring[here][n] \in left[here]

\* The process never dereferences the null player of DogRetire; the ticker
\* calls its handler at every period (tools/ticker.h:21).
NeverCrashes == at # "crashed"

\* Only one row is written for a dog, and none for a dog still in the game
\* once the unit of work that wrote it is closed: an exception before the
\* commit leaves nothing behind.  Only a commit that threw after the database
\* had carried it out may be repeated.
RecordedOnce ==
    /\ \A r, s \in rows : r.dog = s.dog /\ r.dog \notin doubtful => r = s
    /\ at # "erase" => \A r \in rows : r.dog \notin doubtful => dog[r.dog] = NIL

\* A dog whose id no exception has left in a list leaves its session only when
\* its player has been silent for the whole retirement time: commands, and the
\* stop at a road's end that follows one, restart the clock.
RetiresOnlySilent ==
    [][\A d \in Dogs :
         dog[d] # NIL /\ dog'[d] = NIL /\ (\A m \in Maps : d \notin left[m]) =>
             quiet[d] >= RetirementTime]_vars

\* A player who closed the browser with a standing dog is recorded in the end.
AbandonedIsRecorded ==
    \A d \in Dogs :
        (d \in away /\ ~dog[d].moving) ~> (\E r \in rows : r.dog = d)

=============================================================================
