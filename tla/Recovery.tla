------------------------------ MODULE Recovery ------------------------------
(***************************************************************************)
(* What survives a restart.  The server keeps its players in memory, their *)
(* results in the database and, now and then, everything in a snapshot.    *)
(* The three are not written together.  A tick and a save are atomic here: *)
(* Application and StateFile take them apart.                              *)
(***************************************************************************)
EXTENDS Naturals, Sequences

CONSTANTS
    Maps, Tokens, NIL,
    RetirementTime,
    MaxCrashes, \* bound: how often the process dies without saving
    MaxDogs,    \* bound: dogs that join one session
    MaxLives,   \* bound: players that ever join
    MaxTime     \* bound: play time

Dogs == (0 .. MaxDogs - 1) \X Maps
Lives == 1 .. MaxLives

\* A dog: the life of its player, whether speed_ is not zero, time_in_game_ and
\* holding_time_.
DogStates == [life : Nat, moving : BOOLEAN, time : Nat, holding : Nat]

\* What a state file may hold.
Snapshots ==
    [joined : [Maps -> Nat], session_id : [Maps -> Nat \cup {NIL}],
     dog : [Dogs -> DogStates \cup {NIL}], token_to_player : [Tokens -> Dogs \cup {NIL}]]

ASSUME NilAssumption == NIL \notin Nat /\ NIL \notin DogStates /\ NIL \notin Snapshots

ASSUME RecoveryAssumption ==
    /\ RetirementTime > 0
    /\ {RetirementTime, MaxCrashes, MaxDogs, MaxLives, MaxTime} \subseteq Nat

VARIABLES
    up,
    joined,           \* dogs_join_ of every session
    session_id,       \* id_ of every session, NIL while there is none
    last_index,       \* Game::last_session_index_
    dog,              \* the dogs alive, with time_in_game_ and holding_time_
    token_to_player,  \* PlayerTokens
    rows,             \* play times recorded in the database for each life
    snapshot,         \* content of the state file
    lives,            \* ghost: players that have joined
    owner,            \* ghost: the life each token was issued to
    played,           \* ghost: the time each life has spent in the game of this process
    crashes           \* ghost: how often the process has died without saving

game == <<joined, session_id, last_index, dog, token_to_player>>
ghosts == <<lives, owner, played, crashes>>
vars == <<up, game, rows, snapshot, ghosts>>

NoGame ==
    [joined |-> [m \in Maps |-> 0], session_id |-> [m \in Maps |-> NIL],
     dog |-> [d \in Dogs |-> NIL], token_to_player |-> [t \in Tokens |-> NIL]]

Load(state) ==
    /\ joined' = state.joined /\ session_id' = state.session_id
    /\ dog' = state.dog /\ token_to_player' = state.token_to_player

Init ==
    /\ up = TRUE
    /\ joined = NoGame.joined /\ session_id = NoGame.session_id
    /\ dog = NoGame.dog /\ token_to_player = NoGame.token_to_player
    /\ last_index = 0
    /\ rows = [l \in Lives |-> <<>>]
    /\ snapshot = NIL
    /\ lives = 0 /\ owner = [t \in Tokens |-> NIL] /\ played = [l \in Lives |-> 0]
    /\ crashes = 0

Alive == {d \in Dogs : dog[d] # NIL}

NewDog(life) == [life |-> life, moving |-> FALSE, time |-> 0, holding |-> 0]

\* Tokens are 128 random bits: one is never issued twice.
Join(m, t) ==
    /\ up /\ joined[m] < MaxDogs /\ lives < MaxLives /\ owner[t] = NIL
    /\ LET d == <<joined[m], m>> IN
       /\ joined' = [joined EXCEPT ![m] = @ + 1]
       /\ dog' = [dog EXCEPT ![d] = NewDog(lives + 1)]
       /\ token_to_player' = [token_to_player EXCEPT ![t] = d]
    /\ IF session_id[m] = NIL
       THEN session_id' = [session_id EXCEPT ![m] = last_index] /\ last_index' = last_index + 1
       ELSE UNCHANGED <<session_id, last_index>>
    /\ lives' = lives + 1 /\ owner' = [owner EXCEPT ![t] = lives + 1]
    /\ UNCHANGED <<up, rows, snapshot, played, crashes>>

Command(t, state) ==
    /\ up /\ token_to_player[t] # NIL
    /\ dog' = [dog EXCEPT ![token_to_player[t]] = state]
    /\ UNCHANGED <<up, joined, session_id, last_index, token_to_player, rows, snapshot, ghosts>>

Started(s) == [s EXCEPT !.moving = TRUE]

MovePlayer(t) == Command(t, Started(dog[token_to_player[t]]))

\* Mutant: a stop sets both clocks to zero.
StoppedClearsTime(s) == [s EXCEPT !.moving = FALSE, !.holding = 0, !.time = 0]
Stopped(s) == [s EXCEPT !.moving = FALSE, !.holding = 0]

StopPlayer(t) == Command(t, Stopped(dog[token_to_player[t]]))

Older(s) ==
    [s EXCEPT !.time = s.time + 1, !.holding = IF s.moving THEN s.holding ELSE s.holding + 1]

\* What Move makes of a dog; border says that a moving dog meets the end of its road.
Moved(s, border) == IF s.moving /\ border THEN Stopped(Older(s)) ELSE Older(s)

Due(s) == ~s.moving /\ s.holding >= RetirementTime

\* A tick in which the dogs of ends come to the end of their roads.
Tick(ends) ==
    LET after(d) == Moved(dog[d], d \in ends)
        due == {d \in Alive : Due(after(d))}
    IN
    /\ up /\ \A d \in Alive : dog[d].time < MaxTime /\ played[dog[d].life] < MaxTime
    /\ dog' = [d \in Dogs |-> IF d \in Alive \ due THEN after(d) ELSE NIL]
    /\ token_to_player' =
          [t \in Tokens |-> IF token_to_player[t] \in due THEN NIL ELSE token_to_player[t]]
    /\ rows' = [l \in Lives |->
                  IF \E d \in due : dog[d].life = l
                  THEN Append(rows[l], after(CHOOSE d \in due : dog[d].life = l).time)
                  ELSE rows[l]]
    /\ played' = [l \in Lives |->
                    IF \E d \in Alive : dog[d].life = l THEN played[l] + 1 ELSE played[l]]
    /\ UNCHANGED <<up, joined, session_id, last_index, snapshot, lives, owner, crashes>>

\* Mutant: the session's counters are not part of its state.
StateContentWithoutCounters ==
    [joined |-> NoGame.joined, session_id |-> session_id, dog |-> dog,
     token_to_player |-> token_to_player]
\* What Serialize writes: GetPlayersState and GetGameState.
StateContent ==
    [joined |-> joined, session_id |-> session_id, dog |-> dog,
     token_to_player |-> token_to_player]

Save ==
    /\ up /\ snapshot' = StateContent
    /\ UNCHANGED <<up, game, rows, ghosts>>

\* Mutant: main does not save when the server is stopped.
ShutdownWithoutSave ==
    /\ up /\ up' = FALSE
    /\ UNCHANGED <<game, rows, snapshot, ghosts>>
\* SIGINT or SIGTERM.
Shutdown ==
    /\ up /\ up' = FALSE /\ snapshot' = StateContent
    /\ UNCHANGED <<game, rows, ghosts>>

Crash ==
    /\ crashes < MaxCrashes /\ up /\ up' = FALSE /\ crashes' = crashes + 1
    /\ UNCHANGED <<game, rows, snapshot, lives, owner, played>>

\* DogRepr keeps neither time_in_game_ nor holding_time_.
Represented(s) == IF s = NIL THEN NIL ELSE [s EXCEPT !.time = 0, !.holding = 0]

\* AppSerializator::Restore in a new process.
Restart ==
    /\ ~up /\ up' = TRUE
    /\ IF snapshot = NIL
       THEN Load(NoGame)
       ELSE Load([snapshot EXCEPT !.dog = [d \in Dogs |-> Represented(snapshot.dog[d])]])
    /\ last_index' = 0
    /\ played' = [l \in Lives |-> 0]
    /\ UNCHANGED <<rows, snapshot, lives, owner, crashes>>

Next ==
    \/ \E m \in Maps, t \in Tokens : Join(m, t)
    \/ \E t \in Tokens : MovePlayer(t)
    \/ \E t \in Tokens : StopPlayer(t)
    \/ \E ends \in SUBSET {d \in Alive : dog[d].moving} : Tick(ends)
    \/ Save
    \/ Shutdown
    \/ Crash
    \/ Restart

Spec == Init /\ [][Next]_vars

-----------------------------------------------------------------------------

\* A token leads to the dog of the player it was issued to, or nowhere, also
\* after a crash has undone joins and their numbers are given out again.
TokenNamesItsPlayer ==
    \A t \in Tokens : token_to_player[t] # NIL =>
        /\ token_to_player[t] \in Alive
        /\ dog[token_to_player[t]].life = owner[t]

\* As long as the server is only stopped by signals, every player who joined is
\* either in the game or recorded, once.
RecordedOnce ==
    up /\ crashes = 0 =>
        \A l \in 1 .. lives :
              Len(rows[l]) = IF \E d \in Alive : dog[d].life = l THEN 0 ELSE 1

\* The play time in a row is what the player has played in the process that
\* writes it, no less after a stop of the dog and no more after a crash has
\* brought back an older snapshot: DogRepr keeps no time, so that a restart
\* begins every clock anew, whatever part of the time was saved.
RowsTellTimeInProcess ==
    [][\A l \in Lives : rows'[l] # rows[l] => rows'[l][Len(rows'[l])] = played'[l]]_vars

=============================================================================
