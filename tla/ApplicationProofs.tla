------------------------- MODULE ApplicationProofs -------------------------
(***************************************************************************)
(* What holds of Application for any number of maps, dogs, tokens and      *)
(* tick lengths, and under every combination of the faults.                *)
(***************************************************************************)
EXTENDS Application, TLAPS

(***************************************************************************)
(* Dogs.                                                                   *)
(***************************************************************************)

LEMMA NilIsNoDogState == NIL \notin DogState /\ NIL \notin Dogs /\ NIL \notin Tokens
                         /\ NIL \notin Row /\ NIL \notin Maps
BY NilAssumption

\* A dog that has just joined is well formed.
LEMMA NewDogType == \A name \in Names : NewDog(name) \in DogState
BY BoundAssumption DEF NewDog, DogState

\* Stop() keeps a dog well formed and its play time.
LEMMA StoppedFacts ==
    ASSUME NEW s \in DogState
    PROVE  /\ Stopped(s) \in DogState
           /\ Stopped(s).time = s.time
           /\ Stopped(s).holding = 0
<1>1. Stopped(s) = [[s EXCEPT !.moving = FALSE] EXCEPT !.holding = 0]
  BY DEF Stopped
<1>2. 0 \in 0 .. RetirementTime
  BY BoundAssumption
<1> DEFINE r == [s EXCEPT !.moving = FALSE]
<1>5. r \in DogState
  BY DEF DogState
<1> HIDE DEF r
<1>6. [r EXCEPT !.holding = 0] \in DogState
  BY <1>2, <1>5 DEF DogState
<1>3. Stopped(s) \in DogState
  BY <1>1, <1>6 DEF r
<1>4. Stopped(s).time = s.time /\ Stopped(s).holding = 0
  BY DEF Stopped, DogState
<1> QED
  BY <1>3, <1>4

\* A tick never shortens the play time, and lets the holding time grow by no
\* more than the play time.
LEMMA AddTickFacts ==
    ASSUME NEW s \in DogState, tick \in Nat
    PROVE  /\ AddTick(s) \in DogState
           /\ AddTick(s).time >= s.time
           /\ s.holding <= s.time => AddTick(s).holding <= AddTick(s).time
<1> DEFINE time == AtMost(PlayCap, s.time + tick)
           holding == IF s.moving THEN s.holding ELSE AtMost(RetirementTime, s.holding + tick)
<1>1. /\ s.moving \in BOOLEAN
      /\ s.time \in 0 .. PlayCap
      /\ s.holding \in 0 .. RetirementTime
  BY DEF DogState
<1>2. /\ time \in 0 .. PlayCap
      /\ time >= s.time
      /\ holding \in 0 .. RetirementTime
      /\ s.holding <= s.time => holding <= time
  BY <1>1, BoundAssumption DEF AtMost
<1>3. AddTick(s) = [[s EXCEPT !.time = time] EXCEPT !.holding = holding]
  BY DEF AddTick
<1>4. AddTick(s).time = time /\ AddTick(s).holding = holding
  BY DEF AddTick, DogState
<1> HIDE DEF time, holding
<1> DEFINE r == [s EXCEPT !.time = time]
<1>5. r \in DogState
  BY <1>2 DEF DogState
<1> HIDE DEF r
<1>6. [r EXCEPT !.holding = holding] \in DogState
  BY <1>2, <1>5 DEF DogState
<1>7. AddTick(s) \in DogState
  BY <1>3, <1>6 DEF r
<1> QED
  BY <1>2, <1>4, <1>7

\* The same for a whole turn of Move.
LEMMA MovedFacts ==
    ASSUME NEW s \in DogState, tick \in Nat, NEW border \in BOOLEAN
    PROVE  /\ Moved(s, border) \in DogState
           /\ Moved(s, border).time >= s.time
           /\ s.holding <= s.time => Moved(s, border).holding <= Moved(s, border).time
<1> DEFINE a == AddTick(s)
<1>1. /\ a \in DogState
      /\ a.time >= s.time
      /\ s.holding <= s.time => a.holding <= a.time
  BY AddTickFacts
<1>2. CASE a.moving /\ border
  <2>1. Moved(s, border) = Stopped(a)
    BY <1>2 DEF Moved
  <2>2. a.time \in Nat
    BY <1>1, BoundAssumption DEF DogState
  <2> QED
    BY <1>1, <2>1, <2>2, StoppedFacts
<1>3. CASE ~(a.moving /\ border)
  <2>1. Moved(s, border) = a
    BY <1>3 DEF Moved
  <2> QED
    BY <1>1, <2>1
<1> QED
  BY <1>2, <1>3

\* The row written for a well-formed dog is well formed.
LEMMA RowOfFacts ==
    ASSUME NEW d \in Dogs, dog[d] \in DogState
    PROVE  RowOf(d) \in Row /\ RowOf(d).dog = d /\ RowOf(d).time = dog[d].time
BY DEF RowOf, Row, DogState

(***************************************************************************)
(* Types and registries.  The registries are part of the same induction:   *)
(* a row can only be made of a dog that is alive, and DogRetire learns     *)
(* that from Players.                                                      *)
(***************************************************************************)

\* Where the handler stands bounds what the loop variables hold, and a number
\* that was not given out yet belongs to no dog.
Placed ==
    /\ \A d \in Dogs : d[1] >= joined[d[2]] => dog[d] = NIL
    /\ at \in {"move", "retire", "commit", "erase", "loot"} => here \in Maps
    /\ at = "move" => pending \subseteq Alive
    /\ at \in {"commit", "erase"} => n <= Len(retiring[here])
    /\ at = "commit" => unit # NIL

Base == TypeOK /\ Placed /\ RegistryConsistent

LEMMA InitBase == Init => Base
<1> SUFFICES ASSUME Init PROVE Base
  OBVIOUS
<1>1. TypeOK
  BY BoundAssumption, NilIsNoDogState DEF Init, TypeOK, Places
<1>2. Placed
  BY DEF Init, Placed
<1>3. RegistryConsistent
  BY DEF Init, RegistryConsistent, Alive
<1> QED
  BY <1>1, <1>2, <1>3 DEF Base

\* The request handlers keep the types and the registries.
LEMMA JoinBase ==
    ASSUME Base, NEW m \in Maps, NEW name \in Names, NEW t \in Tokens, JoinPlayer(m, name, t)
    PROVE  Base'
<1> USE DEF Base
<1> DEFINE d == <<joined[m], m>>
<1>1. d \in Dogs /\ joined[m] + 1 \in 0 .. MaxDogs /\ d[1] = joined[m] /\ d[2] = m
  BY BoundAssumption DEF JoinPlayer, TypeOK, Dogs
<1>2. /\ joined' = [joined EXCEPT ![m] = @ + 1]
      /\ dog' = [dog EXCEPT ![d] = NewDog(name)]
      /\ token_to_player[t] = NIL
      /\ players' = players \cup {d}
      /\ token_to_player' = [token_to_player EXCEPT ![t] = d]
      /\ player_to_token' = [player_to_token EXCEPT ![d] = t]
      /\ at = "idle"
      /\ UNCHANGED <<retiring, rows, at, tick, sessions, here, pending, n, unit, quiet, away, doubtful, left>>
  BY DEF JoinPlayer, Register, loop, client
<1>3. NewDog(name) \in DogState
  BY NewDogType
<1>4. dog[d] = NIL
  BY <1>1, BoundAssumption DEF Placed, TypeOK
<1>5. player_to_token[d] = NIL
  BY <1>1, <1>4 DEF RegistryConsistent
<1> HIDE DEF d
<1>6. TypeOK'
  BY <1>1, <1>2, <1>3 DEF TypeOK
<1>7. Placed'
  <2>1. ASSUME NEW e \in Dogs, e[1] >= joined'[e[2]] PROVE dog'[e] = NIL
    <3>1. e[1] \in Nat /\ e[2] \in Maps
      BY BoundAssumption DEF Dogs
    <3>5. \A k \in Maps : joined[k] \in Nat /\ joined'[k] \in Nat
      BY <1>6, BoundAssumption DEF TypeOK
    <3>6. \A k \in Maps : joined'[k] = IF k = m THEN joined[m] + 1 ELSE joined[k]
      BY <1>2 DEF TypeOK
    <3>2. joined'[e[2]] >= joined[e[2]] /\ joined[e[2]] \in Nat /\ joined'[e[2]] \in Nat
      BY <3>1, <3>5, <3>6
    <3>3. dog[e] = NIL
      BY <2>1, <3>1, <3>2 DEF Placed
    <3>4. e # d
      BY <1>1, <1>2, <2>1, <3>1, <3>2 DEF TypeOK
    <3> QED
      BY <1>2, <3>3, <3>4 DEF TypeOK
  <2>2. at' = "idle"
    BY <1>2
  <2> QED
    BY <2>1, <2>2 DEF Placed
<1>8. RegistryConsistent'
  <2>1. dog'[d] # NIL /\ \A e \in Dogs \ {d} : dog'[e] = dog[e]
    BY <1>1, <1>2, <1>3, NilIsNoDogState DEF TypeOK
  <2>2. players' = Alive'
    BY <1>1, <1>2, <2>1 DEF RegistryConsistent, Alive
  <2>3. player_to_token'[d] = t /\ \A e \in Dogs \ {d} : player_to_token'[e] = player_to_token[e]
    BY <1>1, <1>2 DEF TypeOK
  <2>4. token_to_player'[t] = d /\ \A u \in Tokens \ {t} : token_to_player'[u] = token_to_player[u]
    BY <1>1, <1>2 DEF TypeOK
  <2>5. \A e \in Dogs : (dog'[e] # NIL) <=> (player_to_token'[e] # NIL)
    BY <1>1, <2>1, <2>3, NilIsNoDogState DEF RegistryConsistent
  <2>6. \A e \in Dogs : player_to_token'[e] # NIL => token_to_player'[player_to_token'[e]] = e
    <3> SUFFICES ASSUME NEW e \in Dogs, player_to_token'[e] # NIL
                 PROVE  token_to_player'[player_to_token'[e]] = e
      OBVIOUS
    <3>1. CASE e = d
      BY <3>1, <2>3, <2>4
    <3>2. CASE e # d
      <4>1. player_to_token'[e] = player_to_token[e]
        BY <3>2, <2>3
      <4>2. token_to_player[player_to_token[e]] = e /\ player_to_token[e] \in Tokens
        BY <4>1 DEF RegistryConsistent, TypeOK
      <4>3. player_to_token[e] # t
        BY <4>2, <1>2, NilIsNoDogState
      <4> QED
        BY <4>1, <4>2, <4>3, <2>4
    <3> QED
      BY <3>1, <3>2
  <2>7. \A u \in Tokens : token_to_player'[u] # NIL => player_to_token'[token_to_player'[u]] = u
    <3> SUFFICES ASSUME NEW u \in Tokens, token_to_player'[u] # NIL
                 PROVE  player_to_token'[token_to_player'[u]] = u
      OBVIOUS
    <3>1. CASE u = t
      BY <3>1, <2>3, <2>4
    <3>2. CASE u # t
      <4>1. token_to_player'[u] = token_to_player[u]
        BY <3>2, <2>4
      <4>2. player_to_token[token_to_player[u]] = u /\ token_to_player[u] \in Dogs
        BY <4>1 DEF RegistryConsistent, TypeOK
      <4>3. token_to_player[u] # d
        BY <4>2, <1>5, NilIsNoDogState
      <4> QED
        BY <4>1, <4>2, <4>3, <2>3
    <3> QED
      BY <3>1, <3>2
  <2> QED
    BY <2>2, <2>5, <2>6, <2>7 DEF RegistryConsistent
<1> QED
  BY <1>6, <1>7, <1>8

\* A step that leaves every dog alive or gone as it was, and the registries
\* alone, keeps the registries consistent.
LEMMA RegistryUntouched ==
    ASSUME RegistryConsistent, UNCHANGED registry,
           \A d \in Dogs : (dog'[d] = NIL) <=> (dog[d] = NIL)
    PROVE  RegistryConsistent' /\ Alive' = Alive
<1>1. Alive' = Alive
  BY DEF Alive
<1>2. RegistryConsistent'
  BY <1>1 DEF RegistryConsistent, registry
<1> QED
  BY <1>1, <1>2

\* A command changes one dog that is alive into another well-formed dog.
LEMMA CommandBase ==
    ASSUME Base, NEW t \in Tokens, NEW d \in Dogs, Commands(t, d), NEW s,
           dog[d] \in DogState => s \in DogState,
           dog' = [dog EXCEPT ![d] = s],
           UNCHANGED <<joined, retiring, registry, rows, at, loop, unit>>
    PROVE  Base'
<1> USE DEF Base
<1>1. dog[d] # NIL
  <2>1. token_to_player[t] = d /\ d # NIL
    BY DEF Commands
  <2>2. player_to_token[d] = t /\ t # NIL
    BY <2>1, NilIsNoDogState DEF RegistryConsistent
  <2> QED
    BY <2>2 DEF RegistryConsistent
<1>2. s \in DogState /\ s # NIL
  BY <1>1, NilIsNoDogState DEF TypeOK
<1>3. TypeOK'
  BY <1>2, BoundAssumption DEF TypeOK, Commands, registry, loop
<1>4. \A e \in Dogs : (dog'[e] = NIL) <=> (dog[e] = NIL)
  BY <1>1, <1>2 DEF TypeOK
<1>5. RegistryConsistent' /\ Alive' = Alive
  BY <1>4, RegistryUntouched
<1>6. Placed'
  BY <1>4, <1>5 DEF Placed, Commands, loop
<1> QED
  BY <1>3, <1>5, <1>6

LEMMA RequestBase == Base /\ Request => Base'
<1> SUFFICES ASSUME Base, Request PROVE Base'
  OBVIOUS
<1>1. ASSUME NEW m \in Maps, NEW name \in Names, NEW t \in Tokens, JoinPlayer(m, name, t)
      PROVE  Base'
  BY <1>1, JoinBase
<1>2. ASSUME NEW t \in Tokens, MovePlayer(t) PROVE Base'
  <2>1. PICK d \in Dogs :
          /\ Commands(t, d)
          /\ dog' = [dog EXCEPT ![d].moving = TRUE]
          /\ UNCHANGED <<joined, retiring, registry, rows, at, loop, unit>>
    BY <1>2 DEF MovePlayer
  <2> DEFINE s == [dog[d] EXCEPT !.moving = TRUE]
  <2>2. dog' = [dog EXCEPT ![d] = s]
    BY <2>1
  <2>3. dog[d] \in DogState => s \in DogState
    BY DEF DogState
  <2> HIDE DEF s
  <2> QED
    BY <2>1, <2>2, <2>3, CommandBase
<1>3. ASSUME NEW t \in Tokens, StopPlayer(t) PROVE Base'
  <2>1. PICK d \in Dogs :
          /\ Commands(t, d)
          /\ dog' = [dog EXCEPT ![d] = Stopped(@)]
          /\ UNCHANGED <<joined, retiring, registry, rows, at, loop, unit>>
    BY <1>3 DEF StopPlayer
  <2> DEFINE s == Stopped(dog[d])
  <2>2. dog' = [dog EXCEPT ![d] = s]
    BY <2>1
  <2>3. dog[d] \in DogState => s \in DogState
    BY StoppedFacts
  <2> HIDE DEF s
  <2> QED
    BY <2>1, <2>2, <2>3, CommandBase
<1>4. ASSUME NEW d \in Dogs, Leave(d) PROVE Base'
  <2>1. RegistryConsistent' /\ Alive' = Alive
    BY <1>4, RegistryUntouched DEF Base, Leave
  <2>2. TypeOK'
    BY <1>4 DEF Base, TypeOK, Leave, registry, loop
  <2>3. Placed'
    BY <1>4, <2>1 DEF Base, Placed, Leave, loop
  <2> QED
    BY <2>1, <2>2, <2>3 DEF Base
<1> QED
  BY <1>1, <1>2, <1>3, <1>4 DEF Request

(* The steps of a tick.                                                    *)

\* An exception changes none of what Base speaks about, except rows.
LEMMA ThrowBase ==
    ASSUME Base, Throw, rows' \subseteq Row, doubtful' \subseteq Dogs
    PROVE  Base'
<1> USE DEF Base
<1>0. left' \in [Maps -> SUBSET Dogs]
  <2>1. \A m \in Maps : Listed(m) \subseteq Dogs
    <3> SUFFICES ASSUME NEW m \in Maps, NEW i \in 1 .. Len(retiring[m])
                 PROVE  retiring[m][i] \in Dogs
      BY DEF Listed
    <3>1. retiring[m] \in Seq(Dogs)
      BY DEF TypeOK
    <3> QED
      BY <3>1
  <2> QED
    BY <2>1 DEF TypeOK, Throw
<1>1. TypeOK'
  BY <1>0 DEF TypeOK, Throw, Places, registry, client
<1>2. RegistryConsistent' /\ Alive' = Alive
  BY RegistryUntouched DEF Throw
<1>3. Placed'
  BY DEF Placed, Throw
<1> QED
  BY <1>1, <1>2, <1>3

LEMMA MoveDogBase ==
    ASSUME Base, NEW d \in Dogs, NEW border \in BOOLEAN, MoveDog(d, border)
    PROVE  Base'
<1> USE DEF Base
<1> DEFINE s == Moved(dog[d], border)
<1>1. dog[d] \in DogState /\ here \in Maps
  BY DEF MoveDog, Placed, Alive, TypeOK
<1>2. s \in DogState /\ s # NIL
  BY <1>1, MovedFacts, NilIsNoDogState DEF TypeOK
<1>3. /\ dog' = [dog EXCEPT ![d] = s]
      /\ \/ retiring' = retiring
         \/ retiring' = [retiring EXCEPT ![here] = Append(@, d)]
      /\ pending' = pending \ {d}
      /\ quiet' = [quiet EXCEPT ![d] = AtMost(RetirementTime, @ + tick)]
      /\ at = "move"
      /\ UNCHANGED <<joined, registry, rows, at, tick, sessions, here, n, unit, away, doubtful, left>>
  BY DEF MoveDog
<1> HIDE DEF s
<1>4. retiring' \in [Maps -> Seq(Dogs)]
  <2>1. Append(retiring[here], d) \in Seq(Dogs)
    BY <1>1 DEF TypeOK
  <2> QED
    BY <1>1, <1>3, <2>1 DEF TypeOK
<1>5. quiet' \in [Dogs -> Nat]
  <2>1. AtMost(RetirementTime, quiet[d] + tick) \in Nat
    BY BoundAssumption DEF AtMost, TypeOK
  <2> QED
    BY <1>3, <2>1 DEF TypeOK
<1>6. TypeOK'
  BY <1>2, <1>3, <1>4, <1>5 DEF TypeOK, registry
<1>7. \A e \in Dogs : (dog'[e] = NIL) <=> (dog[e] = NIL)
  BY <1>1, <1>2, <1>3, NilIsNoDogState DEF TypeOK
<1>8. RegistryConsistent' /\ Alive' = Alive
  BY <1>3, <1>7, RegistryUntouched
<1>9. Placed'
  BY <1>3, <1>7, <1>8 DEF Placed
<1> QED
  BY <1>6, <1>8, <1>9

LEMMA SaveBase ==
    ASSUME Base, NEW d \in Dogs, Save(d)
    PROVE  Base'
<1> USE DEF Base
<1>1. dog[d] \in DogState
  BY DEF Save, RegistryConsistent, Alive, TypeOK
<1>2. RowOf(d) \in Row
  BY <1>1, RowOfFacts
<1>3. /\ unit' = RowOf(d) /\ at' = "commit" /\ n <= Len(retiring[here]) /\ at = "retire"
      /\ UNCHANGED <<joined, dog, retiring, registry, rows, loop, client>>
  BY DEF Save, Retires
<1>4. TypeOK'
  BY <1>2, <1>3 DEF TypeOK, Places, registry, loop, client
<1>5. RegistryConsistent' /\ Alive' = Alive
  BY <1>3, RegistryUntouched
<1>6. Placed'
  BY <1>2, <1>3, NilIsNoDogState DEF Placed, loop
<1> QED
  BY <1>4, <1>5, <1>6

LEMMA EraseBase ==
    ASSUME Base, NEW d \in Dogs, Erase(d)
    PROVE  Base'
<1> USE DEF Base
<1>1. /\ players' = players \ {d}
      /\ token_to_player' = [token_to_player EXCEPT ![player_to_token[d]] = NIL]
      /\ player_to_token' = [player_to_token EXCEPT ![d] = NIL]
      /\ dog' = [dog EXCEPT ![d] = NIL]
      /\ quiet' = [quiet EXCEPT ![d] = 0] /\ away' = away \ {d}
      /\ at = "erase" /\ at' = "retire" /\ n' = n + 1
      /\ UNCHANGED <<joined, retiring, rows, tick, sessions, here, pending, unit, doubtful, left>>
  BY DEF Erase, Unregister
<1>2. TypeOK'
  <2>1. token_to_player' \in [Tokens -> Dogs \cup {NIL}]
    BY <1>1 DEF TypeOK
  <2>2. dog' \in [Dogs -> DogState \cup {NIL}] /\ player_to_token' \in [Dogs -> Tokens \cup {NIL}]
    BY <1>1 DEF TypeOK
  <2>3. quiet' \in [Dogs -> Nat] /\ away' \subseteq Dogs /\ players' \subseteq Dogs
    BY <1>1 DEF TypeOK
  <2>4. n' \in Nat \ {0} /\ at' \in Places
    BY <1>1 DEF TypeOK, Places
  <2> QED
    BY <1>1, <2>1, <2>2, <2>3, <2>4 DEF TypeOK
<1>3. Placed'
  BY <1>1 DEF Placed, TypeOK
<1>4. dog'[d] = NIL /\ \A e \in Dogs \ {d} : dog'[e] = dog[e]
  BY <1>1 DEF TypeOK
<1>5. player_to_token'[d] = NIL
      /\ \A e \in Dogs \ {d} : player_to_token'[e] = player_to_token[e]
  BY <1>1 DEF TypeOK
<1>6. RegistryConsistent'
  <2>1. players' = Alive'
    BY <1>1, <1>4 DEF RegistryConsistent, Alive
  <2>2. \A e \in Dogs : (dog'[e] # NIL) <=> (player_to_token'[e] # NIL)
    BY <1>4, <1>5 DEF RegistryConsistent
  <2>3. \A e \in Dogs : player_to_token'[e] # NIL => token_to_player'[player_to_token'[e]] = e
    <3> SUFFICES ASSUME NEW e \in Dogs, player_to_token'[e] # NIL
                 PROVE  token_to_player'[player_to_token'[e]] = e
      OBVIOUS
    <3>1. e # d /\ player_to_token'[e] = player_to_token[e]
      BY <1>5
    <3>2. player_to_token[e] \in Tokens /\ token_to_player[player_to_token[e]] = e
      BY <3>1 DEF RegistryConsistent, TypeOK
    <3>3. player_to_token[e] # player_to_token[d]
      BY <3>1, <3>2, NilIsNoDogState DEF RegistryConsistent
    <3> QED
      BY <1>1, <3>1, <3>2, <3>3 DEF TypeOK
  <2>4. \A u \in Tokens : token_to_player'[u] # NIL => player_to_token'[token_to_player'[u]] = u
    <3> SUFFICES ASSUME NEW u \in Tokens, token_to_player'[u] # NIL
                 PROVE  player_to_token'[token_to_player'[u]] = u
      OBVIOUS
    <3>1. u # player_to_token[d] /\ token_to_player'[u] = token_to_player[u]
      BY <1>1 DEF TypeOK
    <3>2. token_to_player[u] \in Dogs /\ player_to_token[token_to_player[u]] = u
      BY <3>1 DEF RegistryConsistent, TypeOK
    <3>3. token_to_player[u] # d
      BY <3>1, <3>2
    <3> QED
      BY <1>5, <3>1, <3>2, <3>3
  <2> QED
    BY <2>1, <2>2, <2>3, <2>4 DEF RegistryConsistent
<1> QED
  BY <1>2, <1>3, <1>6

LEMMA HandleLootBase ==
    ASSUME Base, NEW lucky \in SUBSET Dogs, HandleLoot(lucky)
    PROVE  Base'
<1> USE DEF Base
<1> DEFINE Banked(s) == [s EXCEPT !.score = AtMost(ScoreCap, @ + 1)]
<1>1. \A d \in Dogs : dog'[d] = IF d \in lucky THEN Banked(dog[d]) ELSE dog[d]
  BY DEF HandleLoot
<1>2. \A d \in lucky : dog[d] \in DogState
  BY DEF HandleLoot, InSession, Alive, TypeOK
<1>3. ASSUME NEW s \in DogState PROVE Banked(s) \in DogState
  <2>1. AtMost(ScoreCap, s.score + 1) \in 0 .. ScoreCap
    BY BoundAssumption DEF AtMost, DogState
  <2> QED
    BY <2>1 DEF DogState
<1> HIDE DEF Banked
<1>4. \A d \in Dogs : dog'[d] \in DogState \cup {NIL} /\ ((dog'[d] = NIL) <=> (dog[d] = NIL))
  BY <1>1, <1>2, <1>3, NilIsNoDogState DEF TypeOK
<1>5. dog' \in [Dogs -> DogState \cup {NIL}]
  BY <1>4 DEF HandleLoot
<1>6. TypeOK'
  BY <1>5 DEF HandleLoot, TypeOK, Places, registry, client
<1>7. RegistryConsistent' /\ Alive' = Alive
  BY <1>4, RegistryUntouched DEF HandleLoot
<1>8. Placed'
  BY <1>4 DEF Placed, HandleLoot
<1> QED
  BY <1>6, <1>7, <1>8

\* The steps that move the handler on and touch no dog.
LEMMA LoopBase ==
    ASSUME Base,
           \/ StartTick
           \/ \E m \in Maps : NextSession(m)
           \/ MovedAll \/ Commit \/ RetiredAll \/ EndTick
           \/ \E d \in Dogs : NullPlayer(d)
    PROVE  Base'
<1> USE DEF Base
<1>1. UNCHANGED <<dog, registry>>
  BY DEF StartTick, Tick, NextSession, MovedAll, Commit, RetiredAll, EndTick, NullPlayer
<1>2. RegistryConsistent' /\ Alive' = Alive
  BY <1>1, RegistryUntouched
<1>3. TypeOK' /\ Placed'
  <2>1. CASE StartTick
    BY <2>1, <1>2, InputAssumption
       DEF TypeOK, Placed, StartTick, Tick, Places, registry, client
  <2>2. CASE \E m \in Maps : NextSession(m)
    BY <2>2, <1>2 DEF TypeOK, Placed, NextSession, InSession, Alive, Places, registry, client
  <2>3. CASE MovedAll
    BY <2>3, <1>2 DEF TypeOK, Placed, MovedAll, Places, registry, client
  <2>4. CASE Commit
    BY <2>4, <1>2 DEF TypeOK, Placed, Commit, Places, registry, loop, client
  <2>5. CASE RetiredAll
    BY <2>5, <1>2 DEF TypeOK, Placed, RetiredAll, Places, registry, client
  <2>6. CASE EndTick
    BY <2>6, <1>2 DEF TypeOK, Placed, EndTick, Places, registry, client
  <2>7. CASE \E d \in Dogs : NullPlayer(d)
    BY <2>7, <1>2 DEF TypeOK, Placed, NullPlayer, Places, registry, loop, client
  <2> QED
    BY <2>1, <2>2, <2>3, <2>4, <2>5, <2>6, <2>7
<1> QED
  BY <1>2, <1>3

LEMMA NextBase == Base /\ [Next]_vars => Base'
<1> SUFFICES ASSUME Base, [Next]_vars PROVE Base'
  OBVIOUS
<1>1. CASE Request
  BY <1>1, RequestBase
<1>2. CASE \/ StartTick
           \/ \E m \in Maps : NextSession(m)
           \/ MovedAll \/ Commit \/ RetiredAll \/ EndTick
           \/ \E d \in Dogs : NullPlayer(d)
  BY <1>2, LoopBase
<1>3. CASE \E d \in Dogs, border \in BOOLEAN : MoveDog(d, border)
  BY <1>3, MoveDogBase
<1>4. CASE \E d \in Dogs : Save(d)
  BY <1>4, SaveBase
<1>5. CASE \E d \in Dogs : Erase(d)
  BY <1>5, EraseBase
<1>6. CASE \E lucky \in SUBSET Dogs : HandleLoot(lucky)
  BY <1>6, HandleLootBase
<1>7. CASE ConnectionFails \/ CommitFails \/ \E d \in Dogs : SaveRejected(d)
  <2>1. Throw /\ rows' \subseteq Row /\ doubtful' \subseteq Dogs
    BY <1>7 DEF ConnectionFails, CommitFails, SaveRejected, Base, TypeOK
  <2> QED
    BY <2>1, ThrowBase
<1>8. CASE CommitInDoubt
  <2>1. Throw /\ rows' \subseteq Row /\ unit \in Row /\ doubtful' = doubtful \cup {unit.dog}
    BY <1>8 DEF CommitInDoubt, Base, TypeOK, Placed
  <2>2. doubtful' \subseteq Dogs
    BY <2>1 DEF Row, Base, TypeOK
  <2> QED
    BY <2>1, <2>2, ThrowBase
<1>9. CASE UNCHANGED vars
  BY <1>9 DEF Base, TypeOK, Placed, RegistryConsistent, Alive, vars, registry, loop, client
<1> QED
  BY <1>1, <1>2, <1>3, <1>4, <1>5, <1>6, <1>7, <1>8, <1>9 DEF Next, TickStep

LEMMA BaseInvariant == Spec => []Base
BY InitBase, NextBase, PTL DEF Spec

\* Every variable stays in its domain, in every reachable state.
THEOREM TypeCorrect == Spec => []TypeOK
BY BaseInvariant, PTL DEF Base

\* The three registries of players agree with the dogs of the sessions in every
\* reachable state, whatever fails.
THEOREM RegistriesAgree == Spec => []RegistryConsistent
BY BaseInvariant, PTL DEF Base

(***************************************************************************)
(* No player is lost.  Between the commit and the erasure the row is       *)
(* already there, and before the commit the open unit of work holds the    *)
(* row of the very dog that is about to go.                                *)
(***************************************************************************)

Recorded(d) == \E r \in rows : r.dog = d

RecordInv ==
    /\ RecordedBeforeGone
    /\ at = "commit" => unit.dog = retiring[here][n]
    /\ at = "erase" => Recorded(retiring[here][n])

\* Steps that forget no row, end no dog and number none keep the first part.
LEMMA RecordsKept ==
    ASSUME RecordedBeforeGone, rows \subseteq rows', UNCHANGED joined,
           \A d \in Dogs : dog'[d] = NIL => dog[d] = NIL
    PROVE  RecordedBeforeGone'
BY DEF RecordedBeforeGone, Joined

LEMMA NextRecord == Base /\ Base' /\ RecordInv /\ [Next]_vars => RecordInv'
<1> SUFFICES ASSUME Base, Base', RecordInv, [Next]_vars PROVE RecordInv'
  OBVIOUS
<1>1. ASSUME NEW m \in Maps, NEW name \in Names, NEW t \in Tokens, JoinPlayer(m, name, t)
      PROVE  RecordInv'
  <2> DEFINE d == <<joined[m], m>>
  <2>1. /\ d \in Dogs
        /\ joined' = [joined EXCEPT ![m] = @ + 1]
        /\ dog' = [dog EXCEPT ![d] = NewDog(name)]
        /\ at' = "idle" /\ rows' = rows
    BY <1>1, BoundAssumption DEF JoinPlayer, Base, TypeOK, Dogs
  <2>2. dog'[d] # NIL
    BY <2>1, NewDogType, NilIsNoDogState DEF Base, TypeOK
  <2>3. ASSUME NEW e \in Dogs, e[1] < joined'[e[2]], dog'[e] = NIL
        PROVE  Recorded(e)
    <3>1. e # d /\ dog[e] = NIL
      BY <2>1, <2>2, <2>3 DEF Base, TypeOK
    <3>2. e[1] \in Nat /\ e[2] \in Maps /\ e = <<e[1], e[2]>>
      BY BoundAssumption DEF Dogs
    <3>3. \A k \in Maps : joined[k] \in Nat
      BY BoundAssumption DEF Base, TypeOK
    <3>4. \A k \in Maps : joined'[k] = IF k = m THEN joined[m] + 1 ELSE joined[k]
      BY <2>1 DEF Base, TypeOK
    <3>5. e[1] < joined[e[2]]
      BY <2>3, <3>1, <3>2, <3>3, <3>4
    <3> QED
      BY <3>1, <3>5 DEF RecordInv, RecordedBeforeGone, Joined, Recorded
  <2> QED
    BY <2>1, <2>3 DEF RecordInv, RecordedBeforeGone, Joined, Recorded
<1>2. ASSUME NEW d \in Dogs, Save(d) PROVE RecordInv'
  <2>1. /\ unit'.dog = d /\ d = retiring[here][n] /\ at' = "commit"
        /\ UNCHANGED <<joined, dog, retiring, here, n, rows>>
    BY <1>2 DEF Save, Retires, RowOf, loop
  <2> QED
    BY <2>1, RecordsKept DEF RecordInv
<1>3. CASE Commit
  <2>1. /\ unit.dog = retiring[here][n] /\ at' = "erase" /\ rows' = rows \cup {unit}
        /\ UNCHANGED <<joined, dog, retiring, here, n>>
    BY <1>3 DEF Commit, RecordInv, loop
  <2>2. Recorded(retiring[here][n])'
    BY <2>1 DEF Recorded
  <2> QED
    BY <2>1, <2>2, RecordsKept DEF RecordInv
<1>4. ASSUME NEW d \in Dogs, Erase(d) PROVE RecordInv'
  <2>1. /\ dog' = [dog EXCEPT ![d] = NIL]
        /\ d = retiring[here][n] /\ Recorded(d) /\ at' = "retire"
        /\ UNCHANGED <<joined, rows>>
    BY <1>4 DEF Erase, RecordInv
  <2>2. \A e \in Dogs \ {d} : dog'[e] = dog[e]
    BY <2>1 DEF Base, TypeOK
  <2>3. RecordedBeforeGone'
    BY <2>1, <2>2 DEF RecordInv, RecordedBeforeGone, Joined, Recorded
  <2> QED
    BY <2>1, <2>3 DEF RecordInv
<1>5. CASE ConnectionFails \/ CommitFails \/ CommitInDoubt \/ \E d \in Dogs : SaveRejected(d)
  <2>1. at' = "idle" /\ rows \subseteq rows' /\ UNCHANGED <<joined, dog>>
    BY <1>5 DEF ConnectionFails, CommitFails, CommitInDoubt, SaveRejected, Throw
  <2> QED
    BY <2>1, RecordsKept DEF RecordInv
<1>6. CASE \/ \E t \in Tokens : MovePlayer(t) \/ StopPlayer(t)
           \/ \E d \in Dogs, border \in BOOLEAN : MoveDog(d, border)
           \/ \E lucky \in SUBSET Dogs : HandleLoot(lucky)
           \/ \E d \in Dogs : Leave(d)
           \/ StartTick \/ MovedAll \/ RetiredAll \/ EndTick
           \/ \E m \in Maps : NextSession(m)
           \/ \E d \in Dogs : NullPlayer(d)
  <2>1. at' \notin {"commit", "erase"} /\ UNCHANGED <<joined, rows>>
    BY <1>6 DEF MovePlayer, StopPlayer, Commands, MoveDog, HandleLoot, Leave, StartTick, Tick,
                MovedAll, RetiredAll, EndTick, NextSession, NullPlayer
  <2>2. \A d \in Dogs : dog'[d] = NIL => dog[d] = NIL
    <3>1. CASE \E t \in Tokens : MovePlayer(t) \/ StopPlayer(t)
      <4>1. PICK t \in Tokens, d \in Dogs :
              /\ d = token_to_player[t] /\ d # NIL
              /\ \E s : dog' = [dog EXCEPT ![d] = s]
        BY <3>1 DEF MovePlayer, StopPlayer, Commands
      <4>2. player_to_token[d] # NIL /\ player_to_token'[d] # NIL
        BY <3>1, <4>1, NilIsNoDogState
           DEF MovePlayer, StopPlayer, Base, RegistryConsistent, registry
      <4>3. dog'[d] # NIL
        BY <4>2 DEF Base, RegistryConsistent
      <4> QED
        BY <4>1, <4>3 DEF Base, TypeOK
    <3>2. CASE \E d \in Dogs, border \in BOOLEAN : MoveDog(d, border)
      <4>1. Alive' = players' /\ players' = players /\ players = Alive
        BY <3>2 DEF Base, RegistryConsistent, MoveDog, registry
      <4> QED
        BY <4>1 DEF Alive
    <3>3. CASE \E lucky \in SUBSET Dogs : HandleLoot(lucky)
      <4>1. Alive' = players' /\ players' = players /\ players = Alive
        BY <3>3 DEF Base, RegistryConsistent, HandleLoot, registry
      <4> QED
        BY <4>1 DEF Alive
    <3>4. CASE dog' = dog
      BY <3>4
    <3> QED
      BY <1>6, <3>1, <3>2, <3>3, <3>4
         DEF Leave, StartTick, Tick, MovedAll, RetiredAll, EndTick, NextSession, NullPlayer
  <2> QED
    BY <2>1, <2>2, RecordsKept DEF RecordInv
<1>7. CASE UNCHANGED vars
  BY <1>7 DEF RecordInv, RecordedBeforeGone, Joined, Recorded, vars, loop
<1> QED
  BY <1>1, <1>2, <1>3, <1>4, <1>5, <1>6, <1>7 DEF Next, Request, TickStep

\* Every dog that joined and is gone has a committed row, under every
\* combination of the faults.
THEOREM NoPlayerLost == Spec => []RecordedBeforeGone
<1>1. Init => RecordInv
  <2> SUFFICES ASSUME Init PROVE RecordInv
    OBVIOUS
  <2>1. at = "idle" /\ \A d \in Dogs : joined[d[2]] = 0 /\ d[1] \in Nat
    BY BoundAssumption DEF Init, Dogs
  <2> QED
    BY <2>1 DEF RecordInv, RecordedBeforeGone, Joined
<1>2. RecordInv => RecordedBeforeGone
  BY DEF RecordInv
<1> QED
  BY <1>1, <1>2, NextRecord, BaseInvariant, PTL DEF Spec

(***************************************************************************)
(* No row is younger than the retirement time.  Play time runs ahead of    *)
(* holding time, and an id waiting in dogs_to_retire_ - perhaps since an   *)
(* earlier tick that threw - belongs to a dog that was due once.           *)
(***************************************************************************)

OnList(d) == \E m \in Maps : \E i \in 1 .. Len(retiring[m]) : retiring[m][i] = d

TimeRunsAhead == \A d \in Dogs : dog[d] # NIL => dog[d].holding <= dog[d].time
ListedWereDue ==
    \A d \in Dogs : OnList(d) =>
        d[1] < joined[d[2]] /\ (dog[d] # NIL => dog[d].time >= RetirementTime)
UnitCovers == unit # NIL => unit.time >= RetirementTime

TimeInv == TimeRunsAhead /\ ListedWereDue /\ UnitCovers /\ PlayTimeCoversRetirement

\* Steps that write no new row, list no other dog, and neither shorten a play
\* time nor let a holding time overtake it, keep the invariant.
LEMMA TimesKept ==
    ASSUME TimeInv, UNCHANGED <<joined, retiring>>,
           unit' \in {NIL, unit}, rows' = rows \/ (unit # NIL /\ rows' = rows \cup {unit}),
           \A d \in Dogs : dog'[d] # NIL =>
               /\ dog[d] # NIL
               /\ dog'[d].time = dog[d].time
               /\ dog'[d].holding \in {0, dog[d].holding},
           Base
    PROVE  TimeInv'
<1>1. TimeRunsAhead'
  <2> SUFFICES ASSUME NEW d \in Dogs, dog'[d] # NIL
               PROVE  dog'[d].holding <= dog'[d].time
    BY DEF TimeRunsAhead
  <2>1. dog[d] \in DogState
    BY DEF Base, TypeOK
  <2>2. dog[d].time \in Nat /\ dog[d].holding <= dog[d].time
    BY <2>1, BoundAssumption DEF TimeInv, TimeRunsAhead, DogState
  <2>3. dog'[d].time = dog[d].time /\ (dog'[d].holding = 0 \/ dog'[d].holding = dog[d].holding)
    OBVIOUS
  <2> QED
    BY <2>2, <2>3
<1>2. ListedWereDue'
  BY DEF TimeInv, ListedWereDue, OnList
<1>3. UnitCovers' /\ PlayTimeCoversRetirement'
  BY DEF TimeInv, UnitCovers, PlayTimeCoversRetirement
<1> QED
  BY <1>1, <1>2, <1>3 DEF TimeInv

LEMMA JoinTimes ==
    ASSUME Base, TimeInv, NEW m \in Maps, NEW name \in Names, NEW t \in Tokens,
           JoinPlayer(m, name, t)
    PROVE  TimeInv'
<1> DEFINE d == <<joined[m], m>>
<1>1. /\ d \in Dogs /\ d[1] = joined[m] /\ d[2] = m
      /\ dog' = [dog EXCEPT ![d] = NewDog(name)]
      /\ joined' = [joined EXCEPT ![m] = @ + 1]
      /\ UNCHANGED <<retiring, rows, unit>>
  BY BoundAssumption DEF JoinPlayer, Base, TypeOK, Dogs
<1>2. NewDog(name).holding = 0 /\ NewDog(name).time = 0
  BY DEF NewDog
<1> HIDE DEF d
<1>3. dog'[d] = NewDog(name) /\ \A e \in Dogs \ {d} : dog'[e] = dog[e]
  BY <1>1 DEF Base, TypeOK
<1>4. TimeRunsAhead'
  BY <1>2, <1>3 DEF TimeInv, TimeRunsAhead
<1>5. ASSUME NEW e \in Dogs, OnList(e)'
      PROVE  e[1] < joined'[e[2]] /\ (dog'[e] # NIL => dog'[e].time >= RetirementTime)
  <2>1. OnList(e)
    BY <1>1, <1>5 DEF OnList
  <2>2. e[1] \in Nat /\ e[2] \in Maps
    BY BoundAssumption DEF Dogs
  <2>3. \A k \in Maps : joined[k] \in Nat /\ joined'[k] \in Nat /\ joined'[k] >= joined[k]
    <3>1. \A k \in Maps : joined[k] \in Nat
      BY BoundAssumption DEF Base, TypeOK
    <3>2. \A k \in Maps : joined'[k] = IF k = m THEN joined[m] + 1 ELSE joined[k]
      BY <1>1 DEF Base, TypeOK
    <3> QED
      BY <3>1, <3>2
  <2>4. e[1] < joined[e[2]] /\ e # d
    BY <1>1, <2>1, <2>2, <2>3 DEF TimeInv, ListedWereDue
  <2> QED
    BY <1>3, <2>1, <2>2, <2>3, <2>4 DEF TimeInv, ListedWereDue
<1>6. ListedWereDue'
  BY <1>5 DEF ListedWereDue
<1>7. UnitCovers' /\ PlayTimeCoversRetirement'
  BY <1>1 DEF TimeInv, UnitCovers, PlayTimeCoversRetirement
<1> QED
  BY <1>4, <1>6, <1>7 DEF TimeInv

LEMMA MoveDogTimes ==
    ASSUME Base, TimeInv, NEW d \in Dogs, NEW border \in BOOLEAN, MoveDog(d, border)
    PROVE  TimeInv'
<1> DEFINE s == Moved(dog[d], border)
<1>1. dog[d] \in DogState /\ dog[d] # NIL /\ here \in Maps /\ tick \in Nat
  BY DEF MoveDog, Base, Placed, Alive, TypeOK
<1>2. /\ s \in DogState
      /\ s.time >= dog[d].time
      /\ s.holding <= s.time
  BY <1>1, MovedFacts DEF TimeInv, TimeRunsAhead
<1>3. /\ dog' = [dog EXCEPT ![d] = s]
      /\ retiring' = IF Due(s) THEN [retiring EXCEPT ![here] = Append(@, d)] ELSE retiring
      /\ UNCHANGED <<joined, rows, unit>>
  BY DEF MoveDog
<1> HIDE DEF s
<1>4. dog'[d] = s /\ \A e \in Dogs \ {d} : dog'[e] = dog[e]
  BY <1>3 DEF Base, TypeOK
<1>5. TimeRunsAhead'
  BY <1>2, <1>4 DEF TimeInv, TimeRunsAhead
<1>6. ASSUME NEW e \in Dogs, OnList(e)' PROVE OnList(e) \/ (e = d /\ Due(s))
  <2>1. PICK m \in Maps : \E i \in 1 .. Len(retiring'[m]) : retiring'[m][i] = e
    BY <1>6 DEF OnList
  <2>2. CASE retiring'[m] = retiring[m]
    BY <2>1, <2>2 DEF OnList
  <2>3. CASE m = here /\ Due(s) /\ retiring'[m] = Append(retiring[m], d)
    BY <2>1, <2>3 DEF OnList, Base, TypeOK
  <2> QED
    BY <1>1, <1>3, <2>2, <2>3 DEF Base, TypeOK
<1>7. ListedWereDue'
  <2> SUFFICES ASSUME NEW e \in Dogs, OnList(e)'
               PROVE  e[1] < joined[e[2]]
                      /\ (dog'[e] # NIL => dog'[e].time >= RetirementTime)
    BY <1>3 DEF ListedWereDue
  <2>1. e[1] \in Nat /\ e[2] \in Maps /\ joined[e[2]] \in Nat
    BY BoundAssumption DEF Dogs, Base, TypeOK
  <2>2. dog[d].time \in Nat /\ s.time \in Nat /\ s.holding \in Nat
    BY <1>1, <1>2, BoundAssumption DEF DogState
  <2>3. CASE e = d /\ Due(s)
    <3>1. d[1] < joined[d[2]]
      BY <1>1, <2>1, <2>3 DEF Base, Placed
    <3>2. s.time >= RetirementTime
      BY <1>2, <2>2, <2>3, BoundAssumption DEF Due
    <3> QED
      BY <1>4, <2>3, <3>1, <3>2
  <2>4. CASE OnList(e) /\ e = d
    <3>1. dog[d].time >= RetirementTime /\ d[1] < joined[d[2]]
      BY <1>1, <2>4 DEF TimeInv, ListedWereDue
    <3>2. s.time >= RetirementTime
      BY <1>2, <2>2, <3>1, BoundAssumption
    <3> QED
      BY <1>4, <2>4, <3>1, <3>2
  <2>5. CASE OnList(e) /\ e # d
    BY <1>4, <2>5 DEF TimeInv, ListedWereDue
  <2> QED
    BY <1>6, <2>3, <2>4, <2>5
<1>8. UnitCovers' /\ PlayTimeCoversRetirement'
  BY <1>3 DEF TimeInv, UnitCovers, PlayTimeCoversRetirement
<1> QED
  BY <1>5, <1>7, <1>8 DEF TimeInv

LEMMA NextTime == Base /\ Base' /\ TimeInv /\ [Next]_vars => TimeInv'
<1> SUFFICES ASSUME Base, Base', TimeInv, [Next]_vars PROVE TimeInv'
  OBVIOUS
<1>1. ASSUME NEW m \in Maps, NEW name \in Names, NEW t \in Tokens, JoinPlayer(m, name, t)
      PROVE  TimeInv'
  BY <1>1, JoinTimes
<1>2. ASSUME NEW t \in Tokens, MovePlayer(t) \/ StopPlayer(t) PROVE TimeInv'
  <2>1. PICK d \in Dogs :
          /\ d = token_to_player[t] /\ d # NIL
          /\ dog' \in {[dog EXCEPT ![d].moving = TRUE], [dog EXCEPT ![d] = Stopped(@)]}
          /\ UNCHANGED <<joined, retiring, rows, unit>>
    BY <1>2 DEF MovePlayer, StopPlayer, Commands
  <2>2. dog[d] # NIL
    BY <2>1, NilIsNoDogState DEF Base, RegistryConsistent
  <2>3. dog[d] \in DogState
    BY <2>2 DEF Base, TypeOK
  <2>6. dog'[d] \in {[dog[d] EXCEPT !.moving = TRUE], Stopped(dog[d])}
    BY <2>1 DEF Base, TypeOK
  <2>4. dog'[d].time = dog[d].time /\ dog'[d].holding \in {0, dog[d].holding}
    <3>1. Stopped(dog[d]).time = dog[d].time /\ Stopped(dog[d]).holding = 0
      BY <2>3, StoppedFacts
    <3> QED
      BY <2>3, <2>6, <3>1 DEF DogState
  <2>5. \A e \in Dogs \ {d} : dog'[e] = dog[e]
    BY <2>1 DEF Base, TypeOK
  <2> QED
    BY <2>1, <2>2, <2>4, <2>5, TimesKept
<1>3. ASSUME NEW d \in Dogs, NEW border \in BOOLEAN, MoveDog(d, border) PROVE TimeInv'
  BY <1>3, MoveDogTimes
<1>4. ASSUME NEW d \in Dogs, Save(d) PROVE TimeInv'
  <2>1. d \in players /\ n <= Len(retiring[here]) /\ d = retiring[here][n] /\ here \in Maps
    BY <1>4 DEF Save, Retires, Base, Placed
  <2>2. OnList(d) /\ dog[d] # NIL
    BY <2>1 DEF OnList, Base, TypeOK, RegistryConsistent, Alive
  <2>3. unit'.time >= RetirementTime /\ UNCHANGED <<joined, dog, retiring, rows>>
    BY <1>4, <2>2 DEF TimeInv, ListedWereDue, Save, RowOf
  <2> QED
    BY <2>3 DEF TimeInv, TimeRunsAhead, ListedWereDue, OnList, UnitCovers,
                PlayTimeCoversRetirement
<1>5. CASE Commit \/ CommitInDoubt
  <2>1. /\ unit # NIL /\ unit' = NIL /\ rows' = rows \cup {unit}
        /\ UNCHANGED <<joined, dog, retiring>>
    BY <1>5 DEF Commit, CommitInDoubt, Throw, Base, Placed
  <2> QED
    BY <2>1, TimesKept
<1>6. CASE ConnectionFails \/ CommitFails \/ \E d \in Dogs : SaveRejected(d)
  <2>1. unit' = NIL /\ UNCHANGED <<joined, dog, retiring, rows>>
    BY <1>6 DEF ConnectionFails, CommitFails, SaveRejected, Throw
  <2> QED
    BY <2>1, TimesKept
<1>7. ASSUME NEW d \in Dogs, Erase(d) PROVE TimeInv'
  <2>1. dog' = [dog EXCEPT ![d] = NIL] /\ UNCHANGED <<joined, retiring, rows, unit>>
    BY <1>7 DEF Erase
  <2> QED
    BY <2>1, TimesKept DEF Base, TypeOK
<1>8. CASE RetiredAll
  <2>1. /\ retiring' = [retiring EXCEPT ![here] = <<>>]
        /\ UNCHANGED <<joined, dog, rows, unit>>
    BY <1>8 DEF RetiredAll
  <2>2. \A e \in Dogs : OnList(e)' => OnList(e)
    BY <2>1 DEF OnList, Base, TypeOK
  <2> QED
    BY <2>1, <2>2 DEF TimeInv, TimeRunsAhead, ListedWereDue, UnitCovers,
                      PlayTimeCoversRetirement
<1>9. ASSUME NEW lucky \in SUBSET Dogs, HandleLoot(lucky) PROVE TimeInv'
  <2>1. UNCHANGED <<joined, retiring, rows, unit>>
    BY <1>9 DEF HandleLoot
  <2>2. ASSUME NEW d \in Dogs, dog'[d] # NIL
        PROVE  dog[d] # NIL /\ dog'[d].time = dog[d].time /\ dog'[d].holding = dog[d].holding
    <3>1. dog'[d] = IF d \in lucky THEN [dog[d] EXCEPT !.score = AtMost(ScoreCap, @ + 1)]
                                   ELSE dog[d]
      BY <1>9 DEF HandleLoot
    <3>2. d \in lucky => dog[d] \in DogState /\ dog[d] # NIL
      BY <1>9 DEF HandleLoot, InSession, Alive, Base, TypeOK
    <3> QED
      BY <2>2, <3>1, <3>2 DEF DogState
  <2> QED
    BY <2>1, <2>2, TimesKept
<1>10. CASE \/ \E d \in Dogs : Leave(d) \/ NullPlayer(d)
            \/ StartTick \/ MovedAll \/ EndTick
            \/ \E m \in Maps : NextSession(m)
            \/ UNCHANGED vars
  <2>1. UNCHANGED <<joined, dog, retiring, rows, unit>>
    BY <1>10 DEF Leave, NullPlayer, StartTick, Tick, MovedAll, EndTick, NextSession, vars
  <2> QED
    BY <2>1, TimesKept
<1> QED
  BY <1>1, <1>2, <1>3, <1>4, <1>5, <1>6, <1>7, <1>8, <1>9, <1>10 DEF Next, Request, TickStep

\* Nobody is recorded before the retirement time has passed in the game.
THEOREM RowsAreDue == Spec => []PlayTimeCoversRetirement
<1>1. Init => TimeInv
  <2> SUFFICES ASSUME Init PROVE TimeInv
    OBVIOUS
  <2>1. rows = {} /\ unit = NIL /\ \A d \in Dogs : dog[d] = NIL
    BY DEF Init
  <2>2. \A d \in Dogs : ~OnList(d)
    BY DEF Init, OnList
  <2> QED
    BY <2>1, <2>2 DEF TimeInv, TimeRunsAhead, ListedWereDue, UnitCovers,
                      PlayTimeCoversRetirement
<1>2. TimeInv => PlayTimeCoversRetirement
  BY DEF TimeInv
<1> QED
  BY <1>1, <1>2, NextTime, BaseInvariant, PTL DEF Spec

(***************************************************************************)
(* Application implements Retirement, for any number of maps, dogs and     *)
(* tokens and under every combination of the faults.                       *)
(***************************************************************************)

\* Between saving and erasing the dog at hand is still in its session, and the
\* row in the open unit of work is one the table does not have.
AtHand ==
    /\ at \in {"commit", "erase"} => dog[retiring[here][n]] # NIL
    /\ at = "commit" => unit \notin rows

LEMMA NextAtHand == Base /\ Base' /\ AtHand /\ [Next]_vars => AtHand'
<1> SUFFICES ASSUME Base, Base', AtHand, [Next]_vars PROVE AtHand'
  OBVIOUS
<1>1. ASSUME NEW d \in Dogs, Save(d) PROVE AtHand'
  <2>1. /\ at' = "commit" /\ d = retiring[here][n] /\ unit' = RowOf(d)
        /\ UNCHANGED <<dog, retiring, here, n, rows>>
        /\ d \in players /\ ~Rejected(RowOf(d))
    BY <1>1 DEF Save, Retires, loop
  <2>2. dog[d] # NIL
    BY <2>1 DEF Base, RegistryConsistent, Alive
  <2>3. RowOf(d) \notin rows
    BY <2>1 DEF Rejected
  <2> QED
    BY <2>1, <2>2, <2>3 DEF AtHand
<1>2. CASE Commit
  <2>1. at = "commit" /\ at' = "erase" /\ UNCHANGED <<dog, retiring, here, n>>
    BY <1>2 DEF Commit, loop
  <2> QED
    BY <2>1 DEF AtHand
<1>3. CASE UNCHANGED vars
  BY <1>3 DEF AtHand, vars, loop
<1>4. CASE at' \notin {"commit", "erase"}
  BY <1>4 DEF AtHand
<1>5. \/ Commit \/ UNCHANGED vars \/ (\E d \in Dogs : Save(d))
      \/ at' \notin {"commit", "erase"}
  BY DEF Next, Request, StartTick, TickStep, JoinPlayer, MovePlayer, StopPlayer, Commands,
         Leave, Tick, NextSession, MoveDog, MovedAll, ConnectionFails, SaveRejected,
         NullPlayer, CommitFails, CommitInDoubt, Throw, Erase, RetiredAll, HandleLoot, EndTick
<1> QED
  BY <1>1, <1>2, <1>3, <1>4, <1>5

CareerInv == Base /\ RecordInv /\ TimeInv /\ AtHand

LEMMA CareerInvariant == Spec => []CareerInv
<1>1. Init => RecordInv /\ TimeInv /\ AtHand
  <2> SUFFICES ASSUME Init PROVE RecordInv /\ TimeInv /\ AtHand
    OBVIOUS
  <2>1. at = "idle" /\ rows = {} /\ unit = NIL /\ \A d \in Dogs : dog[d] = NIL
    BY DEF Init
  <2>2. \A d \in Dogs : joined[d[2]] = 0 /\ d[1] \in Nat /\ ~OnList(d)
    BY BoundAssumption DEF Init, Dogs, OnList
  <2> QED
    BY <2>1, <2>2 DEF AtHand, RecordInv, RecordedBeforeGone, Joined, TimeInv, TimeRunsAhead,
                      ListedWereDue, UnitCovers, PlayTimeCoversRetirement
<1>2. Base /\ Base' /\ RecordInv /\ TimeInv /\ AtHand /\ [Next]_vars
      => RecordInv' /\ TimeInv' /\ AtHand'
  BY NextRecord, NextTime, NextAtHand
<1> QED
  BY <1>1, <1>2, BaseInvariant, PTL DEF Spec, CareerInv

(***************************************************************************)
(* Steps.                                                                  *)
(***************************************************************************)

Lives == [d \in Dogs |-> Life(d)]

\* Away from "erase" the stage of a life is told by the session alone, and steps
\* that start and end there and keep the same dogs alive change no life.
LEMMA LivesKept ==
    ASSUME at # "erase", at' # "erase", UNCHANGED joined,
           \A d \in Dogs : dog'[d] = NIL <=> dog[d] = NIL
    PROVE  Lives' = Lives
<1>1. \A d \in Dogs : Life(d)' = Life(d)
  BY DEF Life, Joined
<1> QED
  BY <1>1 DEF Lives

LEMMA InitCareer == Init => Career!Init
<1> SUFFICES ASSUME Init PROVE Career!Init
  OBVIOUS
<1>1. \A d \in Dogs : dog[d] = NIL /\ joined[d[2]] = 0 /\ d[1] \in Nat
  BY BoundAssumption DEF Init, Dogs
<1>2. \A d \in Dogs : Life(d) = "unborn"
  BY <1>1 DEF Life, Joined
<1> QED
  BY <1>2 DEF Init, Career!Init

LEMMA JoinCareer ==
    ASSUME CareerInv, NEW m \in Maps, NEW name \in Names, NEW t \in Tokens,
           JoinPlayer(m, name, t)
    PROVE  Career!Next
<1> USE DEF CareerInv
<1>0. PICK d \in Dogs : d = <<joined[m], m>>
  BY BoundAssumption DEF JoinPlayer, Base, TypeOK, Dogs
<1>1. /\ d[1] = joined[m] /\ d[2] = m
      /\ joined' = [joined EXCEPT ![m] = @ + 1]
      /\ dog' = [dog EXCEPT ![d] = NewDog(name)]
      /\ at = "idle" /\ at' = "idle" /\ rows' = rows
  BY <1>0 DEF JoinPlayer
<1>2. joined[m] \in Nat
  BY BoundAssumption DEF Base, TypeOK
<1>3. dog[d] = NIL /\ d \notin Joined
  BY <1>1, <1>2 DEF Base, Placed, Joined
<1>4. dog'[d] # NIL /\ \A e \in Dogs \ {d} : dog'[e] = dog[e]
  BY <1>1, NewDogType, NilIsNoDogState DEF Base, TypeOK
<1>5. \A e \in Dogs \ {d} : e \in Joined' <=> e \in Joined
  <2> SUFFICES ASSUME NEW e \in Dogs, e # d
               PROVE  e[1] < joined'[e[2]] <=> e[1] < joined[e[2]]
    BY DEF Joined
  <2>1. e[1] \in Nat /\ e[2] \in Maps /\ e = <<e[1], e[2]>> /\ d = <<joined[m], m>>
    BY <1>0, BoundAssumption DEF Dogs
  <2>2. \A k \in Maps : joined'[k] = IF k = m THEN joined[m] + 1 ELSE joined[k]
    BY <1>1 DEF Base, TypeOK
  <2>3. CASE e[2] # m
    BY <2>1, <2>2, <2>3
  <2>4. CASE e[2] = m
    <3>1. e[1] # joined[m]
      BY <2>1, <2>4
    <3> QED
      BY <1>2, <2>1, <2>2, <2>4, <3>1
  <2> QED
    BY <2>3, <2>4
<1>6. Life(d) = "unborn" /\ Life(d)' = "playing"
  BY <1>1, <1>3, <1>4 DEF Life
<1>7. \A e \in Dogs \ {d} : Life(e)' = Life(e)
  BY <1>1, <1>4, <1>5 DEF Life
<1>8. Lives' = [Lives EXCEPT ![d] = "playing"]
  BY <1>6, <1>7 DEF Lives
<1>9. Career!Join(d)
  BY <1>1, <1>6, <1>8 DEF Career!Join, Career!Passes, Lives
<1> QED
  BY <1>1, <1>9 DEF Career!Next

\* The row a commit carries out is one the abstract table accepts.
LEMMA UnitWrites ==
    ASSUME CareerInv, at = "commit", rows' = rows \cup {unit}
    PROVE  Career!Writes(retiring[here][n])
<1>1. unit \in Row /\ unit.time >= RetirementTime /\ unit.dog = retiring[here][n]
  BY DEF CareerInv, Base, TypeOK, Placed, TimeInv, UnitCovers, RecordInv
<1>2. unit \in rows' \ rows
  BY DEF CareerInv, AtHand
<1> QED
  BY <1>1, <1>2 DEF Career!Writes, DueRows

\* Whom the handler is busy with.
LEMMA DogAtHand ==
    ASSUME CareerInv, at \in {"commit", "erase"}
    PROVE  retiring[here][n] \in Dogs
<1>1. here \in Maps /\ n \in Nat \ {0} /\ n <= Len(retiring[here]) /\ retiring[here] \in Seq(Dogs)
  BY DEF CareerInv, Base, Placed, TypeOK
<1> QED
  BY <1>1

LEMMA CommitCareer ==
    ASSUME CareerInv, Commit
    PROVE  Career!Next
<1>0. PICK d \in Dogs : d = retiring[here][n]
  BY DogAtHand DEF Commit
<1>1. /\ at = "commit" /\ at' = "erase" /\ rows' = rows \cup {unit}
      /\ UNCHANGED <<joined, dog, retiring, here, n>>
  BY DEF Commit, loop
<1>2. dog[d] # NIL
  BY <1>0, <1>1 DEF CareerInv, AtHand
<1>3. Life(d) = "playing" /\ Life(d)' = "recorded"
  BY <1>0, <1>1, <1>2 DEF Life
<1>4. \A e \in Dogs \ {d} : Life(e)' = Life(e)
  BY <1>0, <1>1 DEF Life, Joined
<1>5. Lives' = [Lives EXCEPT ![d] = "recorded"]
  BY <1>1, <1>2, <1>3, <1>4 DEF Lives
<1>6. Career!Record(d)
  BY <1>0, <1>1, <1>2, <1>3, <1>5, UnitWrites DEF Career!Record, Career!Passes, Lives
<1> QED
  BY <1>2, <1>6 DEF Career!Next

LEMMA DoubtCareer ==
    ASSUME CareerInv, CommitInDoubt
    PROVE  Career!Next
<1> DEFINE d == retiring[here][n]
<1>1. /\ at = "commit" /\ at' = "idle" /\ rows' = rows \cup {unit} /\ "in_doubt" \in Faults
      /\ UNCHANGED <<joined, dog>>
  BY DEF CommitInDoubt, Throw
<1>2. d \in Dogs /\ dog[d] # NIL
  BY <1>1, DogAtHand DEF CareerInv, AtHand
<1>3. Life(d) = "playing" /\ Lives' = Lives
  BY <1>1, <1>2, LivesKept DEF Life
<1>4. Career!Doubt(d)
  BY <1>1, <1>2, <1>3, UnitWrites DEF Career!Doubt, Lives
<1> QED
  BY <1>2, <1>4 DEF Career!Next

LEMMA EraseCareer ==
    ASSUME CareerInv, NEW d \in Dogs, Erase(d)
    PROVE  Career!Next
<1> USE DEF CareerInv
<1>1. /\ at = "erase" /\ at' = "retire" /\ rows' = rows /\ d = retiring[here][n]
      /\ dog' = [dog EXCEPT ![d] = NIL] /\ UNCHANGED joined
  BY DEF Erase
<1>2. dog[d] # NIL /\ dog'[d] = NIL /\ \A e \in Dogs \ {d} : dog'[e] = dog[e]
  BY <1>1 DEF AtHand, Base, TypeOK
<1>3. d \in Joined
  <2>1. d[1] \in Nat /\ joined[d[2]] \in Nat
    BY BoundAssumption DEF Dogs, Base, TypeOK
  <2> QED
    BY <1>2, <2>1 DEF Base, Placed, Joined
<1>4. Life(d) = "recorded" /\ Life(d)' = "gone"
  BY <1>1, <1>2, <1>3 DEF Life, Joined
<1>5. \A e \in Dogs \ {d} : Life(e)' = Life(e)
  BY <1>1, <1>2 DEF Life, Joined
<1>6. Lives' = [Lives EXCEPT ![d] = "gone"]
  BY <1>4, <1>5 DEF Lives
<1>7. Career!Depart(d)
  BY <1>1, <1>4, <1>6 DEF Career!Depart, Career!Passes, Lives
<1> QED
  BY <1>7 DEF Career!Next

\* The steps that write no row, start and end away from "erase", and leave the
\* same dogs alive, for they leave the players alone.
OtherStep ==
    \/ \E t \in Tokens : MovePlayer(t) \/ StopPlayer(t)
    \/ \E d \in Dogs : Leave(d) \/ Save(d) \/ SaveRejected(d) \/ NullPlayer(d)
    \/ \E d \in Dogs, border \in BOOLEAN : MoveDog(d, border)
    \/ \E lucky \in SUBSET Dogs : HandleLoot(lucky)
    \/ \E m \in Maps : NextSession(m)
    \/ StartTick \/ MovedAll \/ ConnectionFails \/ CommitFails \/ RetiredAll \/ EndTick

LEMMA StepsSplit ==
    ASSUME [Next]_vars
    PROVE  \/ \E m \in Maps, name \in Names, t \in Tokens : JoinPlayer(m, name, t)
           \/ Commit \/ CommitInDoubt
           \/ \E d \in Dogs : Erase(d)
           \/ OtherStep
           \/ UNCHANGED vars
BY DEF Next, Request, TickStep, OtherStep

LEMMA OtherStepsKeepDogs ==
    ASSUME Base, Base', OtherStep
    PROVE  /\ at # "erase" /\ at' # "erase" /\ UNCHANGED <<joined, rows, doubtful>>
           /\ \A d \in Dogs : dog'[d] = NIL <=> dog[d] = NIL
<1>1. at # "erase" /\ at' # "erase" /\ UNCHANGED <<joined, rows, doubtful, players>>
  BY DEF OtherStep, MovePlayer, StopPlayer, Commands, Leave, Save, SaveRejected, NullPlayer,
         Retires, MoveDog, HandleLoot, NextSession, StartTick, Tick, MovedAll, ConnectionFails,
         CommitFails, Throw, RetiredAll, EndTick, registry, client
<1>2. Alive' = Alive
  BY <1>1 DEF Base, RegistryConsistent
<1>3. \A d \in Dogs : dog'[d] = NIL <=> dog[d] = NIL
  BY <1>2 DEF Alive
<1> QED
  BY <1>1, <1>3

\* For the abstract table they are invisible.
LEMMA OtherStepsStutter ==
    ASSUME CareerInv, Base', OtherStep
    PROVE  UNCHANGED <<Lives, rows>>
<1>1. /\ at # "erase" /\ at' # "erase" /\ UNCHANGED <<joined, rows, doubtful>>
      /\ \A d \in Dogs : dog'[d] = NIL <=> dog[d] = NIL
  BY OtherStepsKeepDogs DEF CareerInv
<1> QED
  BY <1>1, LivesKept

LEMMA NextCareer ==
    CareerInv /\ CareerInv' /\ [Next]_vars => [Career!Next]_<<Lives, rows>>
<1> SUFFICES ASSUME CareerInv, CareerInv', [Next]_vars
             PROVE  [Career!Next]_<<Lives, rows>>
  OBVIOUS
<1>1. CASE \E m \in Maps, name \in Names, t \in Tokens : JoinPlayer(m, name, t)
  BY <1>1, JoinCareer
<1>2. CASE Commit
  BY <1>2, CommitCareer
<1>3. CASE CommitInDoubt
  BY <1>3, DoubtCareer
<1>4. CASE \E d \in Dogs : Erase(d)
  BY <1>4, EraseCareer
<1>5. CASE UNCHANGED vars
  <2>1. \A d \in Dogs : Life(d)' = Life(d)
    BY <1>5 DEF vars, loop, Life, Joined
  <2> QED
    BY <1>5, <2>1 DEF Lives, vars
<1>6. CASE OtherStep
  BY <1>6, OtherStepsStutter DEF CareerInv
<1> QED
  BY <1>1, <1>2, <1>3, <1>4, <1>5, <1>6, StepsSplit

\* A dog joins, plays, is recorded once with a row that is due, and goes, in this
\* order, whatever the database does in the middle of a retirement.
THEOREM RetirementImplemented == Spec => ImplementsRetirement
<1>1. Lives = [d \in Dogs |-> Life(d)]
  BY DEF Lives
<1> QED
  BY InitCareer, NextCareer, CareerInvariant, PTL
     DEF Spec, ImplementsRetirement, Career!Spec, Lives

(***************************************************************************)
(* One row for each dog.  A row is of a dog that joined, so a dog that     *)
(* joins finds none of its own, and between commit and erasure the dog at  *)
(* hand is the only one that has a row and is in its session.              *)
(***************************************************************************)

OnceInv ==
    /\ \A r, s \in rows : r.dog = s.dog /\ r.dog \notin doubtful => r = s
    /\ \A r \in rows : r.dog \in Joined
    /\ \A r \in rows : r.dog \notin doubtful =>
          dog[r.dog] = NIL \/ (at = "erase" /\ r.dog = retiring[here][n])

LEMMA NextOnce == CareerInv /\ CareerInv' /\ OnceInv /\ [Next]_vars => OnceInv'
<1> SUFFICES ASSUME CareerInv, CareerInv', OnceInv, [Next]_vars PROVE OnceInv'
  OBVIOUS
<1>1. ASSUME NEW m \in Maps, NEW name \in Names, NEW t \in Tokens, JoinPlayer(m, name, t)
      PROVE  OnceInv'
  <2>1. PICK d \in Dogs : d = <<joined[m], m>>
    BY <1>1, BoundAssumption DEF JoinPlayer, CareerInv, Base, TypeOK, Dogs
  <2>2. /\ joined' = [joined EXCEPT ![m] = @ + 1] /\ dog' = [dog EXCEPT ![d] = NewDog(name)]
        /\ at = "idle" /\ rows' = rows /\ doubtful' = doubtful
    BY <1>1, <2>1 DEF JoinPlayer, client
  <2>3. \A k \in Maps : joined[k] \in Nat
    BY BoundAssumption DEF CareerInv, Base, TypeOK
  <2>4. \A e \in Joined : e \in Joined' /\ e # d /\ dog'[e] = dog[e]
    <3> SUFFICES ASSUME NEW e \in Dogs, e[1] < joined[e[2]]
                 PROVE  e[1] < joined'[e[2]] /\ e # d /\ dog'[e] = dog[e]
      BY DEF Joined
    <3>1. e[1] \in Nat /\ e[2] \in Maps
      BY BoundAssumption DEF Dogs
    <3>2. \A k \in Maps : joined'[k] = IF k = m THEN joined[m] + 1 ELSE joined[k]
      BY <2>2 DEF CareerInv, Base, TypeOK
    <3>3. e # d
      BY <2>1, <2>3, <3>1
    <3>4. dog'[e] = dog[e]
      BY <2>2, <3>3 DEF CareerInv, Base, TypeOK
    <3>5. e[1] < joined'[e[2]]
      BY <2>3, <3>1, <3>2
    <3> QED
      BY <3>3, <3>4, <3>5
  <2> QED
    BY <2>2, <2>4 DEF OnceInv
<1>2. CASE Commit \/ CommitInDoubt
  <2>1. /\ at = "commit" /\ rows' = rows \cup {unit} /\ UNCHANGED <<joined, dog>>
        /\ \/ at' = "erase" /\ UNCHANGED <<retiring, here, n, doubtful>>
           \/ doubtful' = doubtful \cup {unit.dog}
    BY <1>2 DEF Commit, CommitInDoubt, Throw, loop, client
  <2>2. PICK d \in Dogs : d = retiring[here][n]
    BY <2>1, DogAtHand
  <2>3. unit.dog = d /\ dog[d] # NIL
    BY <2>1, <2>2 DEF CareerInv, RecordInv, AtHand
  <2>4. d \in Joined
    <3>1. d[1] \in Nat /\ joined[d[2]] \in Nat
      BY BoundAssumption DEF Dogs, CareerInv, Base, TypeOK
    <3> QED
      BY <2>3, <3>1 DEF CareerInv, Base, Placed, Joined
  <2>5. \A r \in rows : r.dog \notin doubtful => r.dog # d
    BY <2>1, <2>3 DEF OnceInv
  <2>6. Joined' = Joined
    BY <2>1 DEF Joined
  <2>7. \A r \in rows' : r.dog \in Joined'
    BY <2>1, <2>3, <2>4, <2>6 DEF OnceInv
  <2>8. \A r, s \in rows' : r.dog = s.dog /\ r.dog \notin doubtful' => r = s
    BY <2>1, <2>3, <2>5 DEF OnceInv
  <2>9. \A r \in rows' : r.dog \notin doubtful' =>
            dog'[r.dog] = NIL \/ (at' = "erase" /\ r.dog = retiring'[here'][n'])
    BY <2>1, <2>2, <2>3 DEF OnceInv
  <2> QED
    BY <2>7, <2>8, <2>9 DEF OnceInv
<1>3. ASSUME NEW d \in Dogs, Erase(d) PROVE OnceInv'
  <2>1. /\ at = "erase" /\ d = retiring[here][n] /\ dog' = [dog EXCEPT ![d] = NIL]
        /\ UNCHANGED <<joined, rows, doubtful>>
    BY <1>3 DEF Erase
  <2>2. dog'[d] = NIL /\ \A e \in Dogs \ {d} : dog'[e] = dog[e]
    BY <2>1 DEF CareerInv, Base, TypeOK
  <2>3. \A r \in rows : r.dog \in Dogs
    BY DEF CareerInv, Base, TypeOK, Row
  <2> QED
    BY <2>1, <2>2, <2>3 DEF OnceInv, Joined
<1>4. CASE OtherStep
  <2>1. /\ at # "erase" /\ at' # "erase" /\ UNCHANGED <<joined, rows, doubtful>>
        /\ \A d \in Dogs : dog'[d] = NIL <=> dog[d] = NIL
    BY <1>4, OtherStepsKeepDogs DEF CareerInv
  <2>2. \A r \in rows : r.dog \in Dogs
    BY DEF CareerInv, Base, TypeOK, Row
  <2> QED
    BY <2>1, <2>2 DEF OnceInv, Joined
<1>5. CASE UNCHANGED vars
  BY <1>5 DEF OnceInv, Joined, vars, loop, client
<1> QED
  BY <1>1, <1>2, <1>3, <1>4, <1>5, StepsSplit

\* Each dog has one row, and none while it plays, under every combination of the
\* faults; only a commit that threw after it was carried out may be repeated.
THEOREM OneRowEach == Spec => []RecordedOnce
<1>1. Init => OnceInv
  BY DEF Init, OnceInv
<1>2. OnceInv => RecordedOnce
  BY DEF OnceInv, RecordedOnce
<1> QED
  BY <1>1, <1>2, NextOnce, CareerInvariant, PTL DEF Spec

(***************************************************************************)
(* What a tick does with dogs_to_retire_.  An id that no exception has     *)
(* left there was listed in this tick, of a dog that is alive, has moved,  *)
(* was silent for the retirement time and is listed once.  Of the ids an   *)
(* exception has left nothing of the kind holds, under any faults.         *)
(***************************************************************************)

\* While a session is visited, the ids from the n-th on wait in its list.
Visiting == at \in {"move", "retire", "commit", "erase", "crashed"}
Waiting == {i \in 1 .. Len(retiring[here]) : i >= n}

\* What is known of the id at place i of the list being walked.
Fresh(i) ==
    LET d == retiring[here][i]
    IN  d \notin left[here] =>
            /\ d \in Alive /\ quiet[d] >= RetirementTime
            /\ at = "move" => d \notin pending
            /\ \A j \in Waiting : retiring[here][j] = d => i = j

ListInv ==
    /\ at \notin {"retire", "commit", "erase", "crashed"} => n = 1
    /\ \A m \in Maps : \A i \in 1 .. Len(retiring[m]) :
          retiring[m][i] \in left[m] \/ (m = here /\ Visiting)
    /\ Visiting => \A i \in Waiting : Fresh(i)
    /\ CrashesOnlyOnLeftovers

\* A dog that stands has held no longer than its player has been silent.
HoldingInv == \A d \in Alive : ~dog[d].moving => dog[d].holding <= quiet[d]

SilentInv == ListInv /\ HoldingInv

\* Steps between ticks, and those at the ends of a tick, leave the lists alone.
LEMMA ListKept ==
    ASSUME ListInv, ~Visiting, ~Visiting', UNCHANGED <<retiring, left, n>>
    PROVE  ListInv'
<1>1. n = 1
  BY DEF ListInv, Visiting
<1>2. \A m \in Maps : \A i \in 1 .. Len(retiring'[m]) : retiring'[m][i] \in left'[m]
  BY DEF ListInv
<1> QED
  BY <1>1, <1>2 DEF ListInv, Visiting, CrashesOnlyOnLeftovers

LEMMA JoinSilent ==
    ASSUME Base, SilentInv, NEW m \in Maps, NEW name \in Names, NEW t \in Tokens,
           JoinPlayer(m, name, t)
    PROVE  SilentInv'
<1>1. PICK d \in Dogs : d = <<joined[m], m>>
  BY BoundAssumption DEF JoinPlayer, Base, TypeOK, Dogs
<1>2. /\ at = "idle" /\ at' = "idle" /\ dog' = [dog EXCEPT ![d] = NewDog(name)]
      /\ UNCHANGED <<retiring, left, n, quiet>>
  BY <1>1 DEF JoinPlayer, loop, client
<1>3. dog'[d] = NewDog(name) /\ \A e \in Dogs \ {d} : dog'[e] = dog[e]
  BY <1>2 DEF Base, TypeOK
<1>4. NewDog(name).holding = 0
  BY DEF NewDog
<1>5. \A e \in Alive' : e = d \/ (e \in Alive /\ dog'[e] = dog[e])
  BY <1>3 DEF Alive
<1>6. ListInv'
  BY <1>2, ListKept DEF SilentInv, Visiting
<1>7. HoldingInv'
  <2>1. quiet[d] \in Nat
    BY DEF Base, TypeOK
  <2> QED
    BY <1>2, <1>3, <1>4, <1>5, <2>1 DEF HoldingInv, SilentInv
<1> QED
  BY <1>6, <1>7 DEF SilentInv

LEMMA CommandSilent ==
    ASSUME Base, Base', SilentInv, NEW t \in Tokens, MovePlayer(t) \/ StopPlayer(t)
    PROVE  SilentInv'
<1>1. PICK d \in Dogs :
        /\ d = token_to_player[t] /\ d # NIL /\ at = "idle"
        /\ dog' \in {[dog EXCEPT ![d].moving = TRUE], [dog EXCEPT ![d] = Stopped(@)]}
        /\ quiet' = [quiet EXCEPT ![d] = 0]
        /\ UNCHANGED <<retiring, left, players, at, n>>
  BY DEF MovePlayer, StopPlayer, Commands, loop, registry
<1>2. dog[d] \in DogState
  BY <1>1, NilIsNoDogState DEF Base, RegistryConsistent, TypeOK
<1>3. /\ dog'[d] \in {[dog[d] EXCEPT !.moving = TRUE], Stopped(dog[d])}
      /\ \A e \in Dogs \ {d} : dog'[e] = dog[e]
  BY <1>1 DEF Base, TypeOK
<1>4. dog'[d].moving \/ dog'[d].holding = 0
  BY <1>2, <1>3 DEF Stopped, DogState
<1>5. Alive' = Alive
  BY <1>1 DEF Base, RegistryConsistent
<1>6. quiet'[d] = 0 /\ \A e \in Dogs \ {d} : quiet'[e] = quiet[e]
  BY <1>1 DEF Base, TypeOK
<1>7. ListInv'
  BY <1>1, ListKept DEF SilentInv, Visiting
<1>8. HoldingInv'
  BY <1>3, <1>4, <1>5, <1>6 DEF HoldingInv, SilentInv, Alive
<1> QED
  BY <1>7, <1>8 DEF SilentInv

\* A dog that stands after a turn of Move has held no longer than its player has
\* been silent; a due one, for the retirement time.
LEMMA MovedHolding ==
    ASSUME NEW s \in DogState, NEW q \in Nat, tick \in Nat, NEW border \in BOOLEAN,
           ~s.moving => s.holding <= q
    PROVE  LET silent == AtMost(RetirementTime, q + tick)
               m == Moved(s, border)
           IN  /\ ~m.moving => m.holding <= silent
               /\ Due(m) => silent >= RetirementTime
<1> DEFINE a == AddTick(s)
           silent == AtMost(RetirementTime, q + tick)
<1>1. /\ a \in DogState /\ a.moving = s.moving
      /\ ~s.moving => a.holding = AtMost(RetirementTime, s.holding + tick)
  BY AddTickFacts DEF AddTick, DogState
<1>2. s.holding \in Nat
  BY BoundAssumption DEF DogState
<1>3. silent \in Nat
  BY BoundAssumption DEF AtMost
<1>4. ~s.moving => a.holding <= silent
  BY <1>1, <1>2, BoundAssumption DEF AtMost
<1> HIDE DEF a, silent
<1>5. CASE a.moving /\ border
  <2>1. Moved(s, border) = Stopped(a)
    BY <1>5 DEF Moved, a
  <2>2. Stopped(a).holding = 0
    BY <1>1 DEF Stopped, DogState
  <2>3. ~Due(Moved(s, border))
    BY <2>1, <2>2, BoundAssumption DEF Due
  <2> QED
    BY <1>1, <1>3, <2>1, <2>2, <2>3 DEF silent
<1>6. CASE ~(a.moving /\ border)
  <2>1. Moved(s, border) = a
    BY <1>6 DEF Moved, a
  <2>2. ~a.moving => a.holding <= silent
    BY <1>1, <1>4
  <2>3. a.holding \in Nat
    BY <1>1, BoundAssumption DEF DogState
  <2>4. Due(a) => silent >= RetirementTime
    BY <1>3, <2>2, <2>3, BoundAssumption DEF Due
  <2> QED
    BY <1>1, <2>1, <2>2, <2>4 DEF silent
<1> QED
  BY <1>5, <1>6

LEMMA MoveDogSilent ==
    ASSUME Base, Base', SilentInv, NEW d \in Dogs, NEW border \in BOOLEAN, MoveDog(d, border)
    PROVE  SilentInv'
<1> DEFINE s == Moved(dog[d], border)
           list == retiring[here]
<1>1. /\ at = "move" /\ at' = "move" /\ d \in pending /\ pending' = pending \ {d}
      /\ dog' = [dog EXCEPT ![d] = s]
      /\ retiring' = IF Due(s) THEN [retiring EXCEPT ![here] = Append(@, d)] ELSE retiring
      /\ quiet' = [quiet EXCEPT ![d] = AtMost(RetirementTime, @ + tick)]
      /\ UNCHANGED <<players, here, n, left>>
  BY DEF MoveDog, registry
<1>2. dog[d] \in DogState /\ d \in Alive /\ here \in Maps /\ tick \in Nat /\ quiet[d] \in Nat
  BY <1>1 DEF Base, Placed, Alive, TypeOK
<1>3. list \in Seq(Dogs) /\ Len(list) \in Nat
  BY <1>2 DEF Base, TypeOK
<1>4. ~dog[d].moving => dog[d].holding <= quiet[d]
  BY <1>2 DEF SilentInv, HoldingInv
<1>5. PICK silent : silent = AtMost(RetirementTime, quiet[d] + tick)
  OBVIOUS
<1>6. /\ ~s.moving => s.holding <= silent
      /\ Due(s) => silent >= RetirementTime
  BY <1>2, <1>4, <1>5, MovedHolding
<1> HIDE DEF s
<1>7. /\ dog'[d] = s /\ quiet'[d] = silent
      /\ \A e \in Dogs \ {d} : dog'[e] = dog[e] /\ quiet'[e] = quiet[e]
  BY <1>1, <1>5 DEF Base, TypeOK
<1>8. Alive' = Alive
  BY <1>1 DEF Base, RegistryConsistent
<1>10. HoldingInv'
  BY <1>6, <1>7, <1>8 DEF HoldingInv, SilentInv, Alive
<1>11. /\ n = 1
       /\ \A i \in 1 .. Len(list) : list[i] \notin left[here] =>
            /\ list[i] \in Alive /\ quiet[list[i]] >= RetirementTime /\ list[i] \notin pending
            /\ \A j \in 1 .. Len(list) : list[j] = list[i] => i = j
  <2>1. n = 1 /\ Visiting
    BY <1>1 DEF SilentInv, ListInv, Visiting
  <2>2. Waiting = 1 .. Len(list)
    BY <1>3, <2>1 DEF Waiting
  <2> QED
    BY <1>1, <2>1, <2>2 DEF SilentInv, ListInv, Fresh
<1>12. PICK new \in Seq(Dogs) :
         /\ retiring' = [retiring EXCEPT ![here] = new]
         /\ \A i \in 1 .. Len(new) :
              \/ i \in 1 .. Len(list) /\ new[i] = list[i]
              \/ i = Len(list) + 1 /\ new[i] = d /\ silent >= RetirementTime
  <2>1. CASE Due(s)
    <3>1. retiring' = [retiring EXCEPT ![here] = Append(list, d)]
      BY <1>1, <2>1
    <3>2. /\ Append(list, d) \in Seq(Dogs) /\ Len(Append(list, d)) = Len(list) + 1
          /\ Append(list, d)[Len(list) + 1] = d
          /\ \A i \in 1 .. Len(list) : Append(list, d)[i] = list[i]
      BY <1>3
    <3> HIDE DEF list
    <3>3. \A i \in 1 .. Len(list) + 1 : i \in 1 .. Len(list) \/ i = Len(list) + 1
      BY <1>3
    <3> QED
      BY <1>6, <2>1, <3>1, <3>2, <3>3
  <2>2. CASE ~Due(s)
    <3>1. retiring' = [retiring EXCEPT ![here] = list]
      BY <1>1, <2>2 DEF Base, TypeOK
    <3> QED
      BY <1>3, <3>1
  <2> QED
    BY <2>1, <2>2
<1>13. /\ retiring'[here] = new
       /\ \A m \in Maps : m # here => retiring'[m] = retiring[m]
  BY <1>2, <1>12 DEF Base, TypeOK
<1>14. ASSUME NEW i \in 1 .. Len(new), new[i] \notin left[here]
       PROVE  /\ new[i] \in Alive' /\ quiet'[new[i]] >= RetirementTime /\ new[i] \notin pending'
              /\ \A j \in 1 .. Len(new) : new[j] = new[i] => i = j
  <2>1. /\ \A k \in 1 .. Len(list) : list[k] \notin left[here] => list[k] # d
        /\ \A k \in 1 .. Len(list) : list[k] \in Dogs
    <3> HIDE DEF list
    <3> QED
      BY <1>1, <1>3, <1>11
  <2>2. CASE i \in 1 .. Len(list) /\ new[i] = list[i]
    BY <1>1, <1>7, <1>8, <1>11, <1>12, <1>14, <2>1, <2>2
  <2>3. CASE i = Len(list) + 1 /\ new[i] = d /\ silent >= RetirementTime
    BY <1>1, <1>2, <1>7, <1>8, <1>12, <1>14, <2>1, <2>3
  <2> QED
    BY <1>12, <2>2, <2>3
<1>15. ListInv'
  <2> HIDE DEF list
  <2>1. Waiting' = 1 .. Len(new)
    <3>1. Len(new) \in Nat
      OBVIOUS
    <3> QED
      BY <1>1, <1>11, <1>13, <3>1 DEF Waiting
  <2>2. at' = "move" /\ n' = 1 /\ Visiting'
    BY <1>1, <1>11 DEF Visiting
  <2>3. \A m \in Maps : \A i \in 1 .. Len(retiring'[m]) :
          retiring'[m][i] \in left'[m] \/ (m = here' /\ Visiting')
    BY <1>1, <1>13, <2>2 DEF SilentInv, ListInv
  <2>4. ASSUME NEW i \in Waiting' PROVE Fresh(i)'
    <3>1. retiring'[here'] = new /\ left' = left /\ here' = here
      BY <1>1, <1>13
    <3> QED
      BY <1>14, <2>1, <3>1 DEF Fresh
  <2> QED
    BY <2>2, <2>3, <2>4 DEF ListInv, CrashesOnlyOnLeftovers
<1> QED
  BY <1>10, <1>15 DEF SilentInv

\* An exception leaves no id behind that left does not name.
LEMMA ThrowSilent ==
    ASSUME Base, SilentInv, at \in {"retire", "commit"}, Throw
    PROVE  SilentInv'
<1>1. /\ at' = "idle" /\ n' = 1 /\ here \in Maps
      /\ left' = [left EXCEPT ![here] = Listed(here)]
      /\ UNCHANGED <<dog, retiring, quiet>>
  BY DEF Throw, Base, Placed
<1>2. left'[here] = Listed(here) /\ \A m \in Maps \ {here} : left'[m] = left[m]
  BY <1>1 DEF Base, TypeOK
<1>3. \A m \in Maps : \A i \in 1 .. Len(retiring'[m]) : retiring'[m][i] \in left'[m]
  BY <1>1, <1>2 DEF SilentInv, ListInv, Listed
<1>4. ListInv'
  BY <1>1, <1>3 DEF ListInv, Visiting, CrashesOnlyOnLeftovers
<1>5. HoldingInv'
  BY <1>1 DEF SilentInv, HoldingInv, Alive
<1> QED
  BY <1>4, <1>5 DEF SilentInv

\* Save, Commit and a null player change neither the list nor a dog; the null
\* player is that of an id an exception has left.
LEMMA WalkSilent ==
    ASSUME Base, SilentInv, Commit \/ \E d \in Dogs : Save(d) \/ NullPlayer(d)
    PROVE  SilentInv'
<1>1. /\ at \in {"retire", "commit"} /\ at' \in {"commit", "erase", "crashed"}
      /\ UNCHANGED <<dog, retiring, left, here, n, quiet, pending>>
  BY DEF Commit, Save, NullPlayer, Retires, loop, client
<1>2. CrashesOnlyOnLeftovers'
  <2>1. CASE \E d \in Dogs : NullPlayer(d)
    <3>1. PICK d \in Dogs : NullPlayer(d)
      BY <2>1
    <3>2. /\ at = "retire" /\ n <= Len(retiring[here]) /\ d = retiring[here][n] /\ here \in Maps
          /\ d \notin Alive
      BY <3>1 DEF NullPlayer, Retires, Base, Placed, RegistryConsistent
    <3>3. n \in Nat \ {0} /\ Len(retiring[here]) \in Nat
      BY <3>2 DEF Base, TypeOK
    <3>4. n \in Waiting /\ Visiting
      BY <3>2, <3>3 DEF Waiting, Visiting
    <3> QED
      BY <1>1, <3>2, <3>4 DEF SilentInv, ListInv, Fresh, CrashesOnlyOnLeftovers
  <2>2. CASE Commit \/ \E d \in Dogs : Save(d)
    BY <2>2 DEF Commit, Save, CrashesOnlyOnLeftovers
  <2> QED
    BY <2>1, <2>2
<1>3. Visiting /\ Visiting' /\ Waiting' = Waiting
  BY <1>1 DEF Visiting, Waiting
<1>4. \A i \in Waiting' : Fresh(i)'
  BY <1>1, <1>3 DEF SilentInv, ListInv, Fresh, Alive
<1>5. ListInv'
  BY <1>1, <1>2, <1>3, <1>4 DEF SilentInv, ListInv
<1>6. HoldingInv'
  BY <1>1 DEF SilentInv, HoldingInv, Alive
<1> QED
  BY <1>5, <1>6 DEF SilentInv

LEMMA EraseSilent ==
    ASSUME Base, SilentInv, NEW d \in Dogs, Erase(d)
    PROVE  SilentInv' /\ (d \notin left[here] => quiet[d] >= RetirementTime) /\ here \in Maps
<1>1. /\ at = "erase" /\ at' = "retire" /\ d = retiring[here][n] /\ n' = n + 1
      /\ dog' = [dog EXCEPT ![d] = NIL] /\ quiet' = [quiet EXCEPT ![d] = 0]
      /\ UNCHANGED <<retiring, left, here, pending>>
  BY DEF Erase
<1>2. /\ dog'[d] = NIL /\ quiet'[d] = 0
      /\ \A e \in Dogs \ {d} : dog'[e] = dog[e] /\ quiet'[e] = quiet[e]
  BY <1>1 DEF Base, TypeOK
<1>3. /\ here \in Maps /\ n \in Nat \ {0} /\ Len(retiring[here]) \in Nat
      /\ n <= Len(retiring[here])
  BY <1>1 DEF Base, Placed, TypeOK
<1>4. n \in Waiting /\ Visiting
  BY <1>1, <1>3 DEF Waiting, Visiting
<1>5. Alive' = Alive \ {d}
  BY <1>2 DEF Alive
<1>7. Waiting' \subseteq Waiting \ {n}
  BY <1>1, <1>3 DEF Waiting
<1>8. ASSUME NEW i \in Waiting' PROVE Fresh(i)'
  <2> SUFFICES ASSUME retiring[here][i] \notin left[here]
               PROVE  /\ retiring[here][i] \in Alive'
                      /\ quiet'[retiring[here][i]] >= RetirementTime
                      /\ \A j \in Waiting' : retiring[here][j] = retiring[here][i] => i = j
    BY <1>1 DEF Fresh
  <2>1. /\ retiring[here][i] \in Alive /\ quiet[retiring[here][i]] >= RetirementTime
        /\ \A j \in Waiting : retiring[here][j] = retiring[here][i] => i = j
    BY <1>4, <1>7, <1>8 DEF SilentInv, ListInv, Fresh
  <2>2. retiring[here][i] # d
    BY <1>1, <1>4, <1>7, <1>8, <2>1
  <2> QED
    BY <1>2, <1>5, <1>7, <2>1, <2>2 DEF Alive
<1>9. ListInv'
  <2>1. \A m \in Maps : \A i \in 1 .. Len(retiring'[m]) :
          retiring'[m][i] \in left'[m] \/ (m = here' /\ Visiting')
    BY <1>1, <1>4 DEF SilentInv, ListInv, Visiting
  <2> QED
    BY <1>1, <1>8, <2>1 DEF ListInv, CrashesOnlyOnLeftovers
<1>10. HoldingInv'
  BY <1>2, <1>5 DEF SilentInv, HoldingInv, Alive
<1>11. d \notin left[here] => quiet[d] >= RetirementTime
  BY <1>1, <1>4 DEF SilentInv, ListInv, Fresh
<1> QED
  BY <1>3, <1>9, <1>10, <1>11 DEF SilentInv

LEMMA HandleLootSilent ==
    ASSUME Base, Base', SilentInv, NEW lucky \in SUBSET Dogs, HandleLoot(lucky)
    PROVE  SilentInv'
<1>1. at = "loot" /\ at' = "game" /\ UNCHANGED <<retiring, left, players, n, quiet>>
  BY DEF HandleLoot, registry, client
<1>2. Alive' = Alive
  BY <1>1 DEF Base, RegistryConsistent
<1>3. \A d \in Alive : dog'[d].moving = dog[d].moving /\ dog'[d].holding = dog[d].holding
  <2> SUFFICES ASSUME NEW d \in Alive
               PROVE  dog'[d].moving = dog[d].moving /\ dog'[d].holding = dog[d].holding
    OBVIOUS
  <2>1. d \in Dogs /\ dog[d] \in DogState
    BY DEF Alive, Base, TypeOK
  <2>2. dog'[d] = IF d \in lucky THEN [dog[d] EXCEPT !.score = AtMost(ScoreCap, @ + 1)] ELSE dog[d]
    BY <2>1 DEF HandleLoot
  <2> QED
    BY <2>1, <2>2 DEF DogState
<1>4. ListInv'
  BY <1>1, ListKept DEF SilentInv, Visiting
<1>5. HoldingInv'
  BY <1>1, <1>2, <1>3 DEF HoldingInv, SilentInv
<1> QED
  BY <1>4, <1>5 DEF SilentInv

\* The steps that only move the handler on.
LEMMA LoopSilent ==
    ASSUME Base, SilentInv,
           \/ \E d \in Dogs : Leave(d)
           \/ \E m \in Maps : NextSession(m)
           \/ StartTick \/ MovedAll \/ RetiredAll \/ EndTick \/ UNCHANGED vars
    PROVE  SilentInv'
<1>1. UNCHANGED <<dog, quiet>>
  BY DEF Leave, NextSession, StartTick, Tick, MovedAll, RetiredAll, EndTick, vars, client
<1>2. Alive' = Alive
  BY <1>1 DEF Alive
<1>4. HoldingInv'
  BY <1>1, <1>2 DEF SilentInv, HoldingInv
<1>5. ListInv'
  <2>1. CASE UNCHANGED vars
    <3>1. UNCHANGED <<at, here, n, retiring, left, pending, quiet, dog>>
      BY <2>1 DEF vars, loop, client
    <3> QED
      BY <3>1 DEF SilentInv, ListInv, Visiting, Waiting, Fresh, Alive, CrashesOnlyOnLeftovers
  <2>2. CASE StartTick \/ EndTick \/ \E d \in Dogs : Leave(d)
    <3>1. /\ at \in {"idle", "game"} /\ at' \in {"idle", "game"}
          /\ UNCHANGED <<n, retiring, left>>
      BY <2>2 DEF StartTick, Tick, EndTick, Leave, loop, client
    <3> QED
      BY <3>1, ListKept DEF SilentInv, Visiting
  <2>3. CASE \E m \in Maps : NextSession(m)
    <3>1. at = "game" /\ at' = "move" /\ here' \in Maps /\ UNCHANGED <<n, retiring, left>>
      BY <2>3 DEF NextSession, client
    <3>2. n = 1 /\ \A m \in Maps : \A i \in 1 .. Len(retiring[m]) : retiring[m][i] \in left[m]
      BY <3>1 DEF SilentInv, ListInv, Visiting
    <3>3. \A i \in Waiting' : Fresh(i)'
      BY <3>1, <3>2 DEF Waiting, Fresh
    <3> QED
      BY <3>1, <3>2, <3>3 DEF ListInv, CrashesOnlyOnLeftovers
  <2>4. CASE MovedAll
    <3>1. /\ at = "move" /\ at' = "retire" /\ n' = 1
          /\ UNCHANGED <<here, retiring, left, quiet>>
      BY <1>1, <2>4 DEF MovedAll, client
    <3>2. n = 1 /\ Visiting /\ Visiting'
      BY <3>1 DEF SilentInv, ListInv, Visiting
    <3>3. Waiting' = Waiting
      BY <3>1, <3>2 DEF Waiting
    <3>4. \A i \in Waiting' : Fresh(i)'
      BY <1>2, <3>1, <3>2, <3>3 DEF SilentInv, ListInv, Fresh
    <3> QED
      BY <3>1, <3>2, <3>4 DEF SilentInv, ListInv, CrashesOnlyOnLeftovers
  <2>5. CASE RetiredAll
    <3>1. /\ at = "retire" /\ at' = "loot" /\ n' = 1
          /\ retiring' = [retiring EXCEPT ![here] = <<>>] /\ left' = [left EXCEPT ![here] = {}]
      BY <2>5 DEF RetiredAll
    <3>2. \A m \in Maps : IF m = here THEN retiring'[m] = <<>>
                          ELSE retiring'[m] = retiring[m] /\ left'[m] = left[m]
      BY <3>1 DEF Base, TypeOK
    <3>3. \A m \in Maps : \A i \in 1 .. Len(retiring'[m]) : retiring'[m][i] \in left'[m]
      BY <3>2 DEF SilentInv, ListInv
    <3> QED
      BY <3>1, <3>3 DEF ListInv, Visiting, CrashesOnlyOnLeftovers
  <2> QED
    BY <2>1, <2>2, <2>3, <2>4, <2>5
<1> QED
  BY <1>4, <1>5 DEF SilentInv

LEMMA NextSilent ==
    ASSUME Base, Base', SilentInv, [Next]_vars
    PROVE  /\ SilentInv'
           /\ \A d \in Dogs :
                dog[d] # NIL /\ dog'[d] = NIL /\ (\A m \in Maps : d \notin left[m]) =>
                    quiet[d] >= RetirementTime
<1>1. ASSUME NEW m \in Maps, NEW name \in Names, NEW t \in Tokens, JoinPlayer(m, name, t)
      PROVE  SilentInv'
  BY <1>1, JoinSilent
<1>2. ASSUME NEW t \in Tokens, MovePlayer(t) \/ StopPlayer(t) PROVE SilentInv'
  BY <1>2, CommandSilent
<1>3. ASSUME NEW d \in Dogs, NEW border \in BOOLEAN, MoveDog(d, border) PROVE SilentInv'
  BY <1>3, MoveDogSilent
<1>4. ASSUME Commit \/ \E d \in Dogs : Save(d) \/ NullPlayer(d) PROVE SilentInv'
  BY <1>4, WalkSilent
<1>5. ASSUME ConnectionFails \/ CommitFails \/ CommitInDoubt \/ \E d \in Dogs : SaveRejected(d)
      PROVE  SilentInv'
  <2>1. Throw /\ at \in {"retire", "commit"}
    BY <1>5 DEF ConnectionFails, CommitFails, CommitInDoubt, SaveRejected, Retires
  <2> QED
    BY <2>1, ThrowSilent
<1>6. ASSUME NEW d \in Dogs, Erase(d)
      PROVE  SilentInv' /\ (d \notin left[here] => quiet[d] >= RetirementTime) /\ here \in Maps
  BY <1>6, EraseSilent
<1>7. ASSUME NEW lucky \in SUBSET Dogs, HandleLoot(lucky) PROVE SilentInv'
  BY <1>7, HandleLootSilent
<1>8. ASSUME \/ \E d \in Dogs : Leave(d)
             \/ \E m \in Maps : NextSession(m)
             \/ StartTick \/ MovedAll \/ RetiredAll \/ EndTick \/ UNCHANGED vars
      PROVE  SilentInv'
  BY <1>8, LoopSilent
<1>11. SilentInv'
  BY <1>1, <1>2, <1>3, <1>4, <1>5, <1>6, <1>7, <1>8 DEF Next, Request, TickStep
<1>12. ASSUME NEW d \in Dogs, dog[d] # NIL, dog'[d] = NIL, \A m \in Maps : d \notin left[m]
       PROVE  quiet[d] >= RetirementTime
  <2>1. CASE \E m \in Maps, name \in Names, t \in Tokens : JoinPlayer(m, name, t)
    <3>1. PICK m \in Maps, name \in Names, t \in Tokens : JoinPlayer(m, name, t)
      BY <2>1
    <3>2. PICK e : dog' = [dog EXCEPT ![e] = NewDog(name)]
      BY <3>1 DEF JoinPlayer
    <3>3. NewDog(name) # NIL
      BY NewDogType, NilIsNoDogState
    <3>4. dog'[d] \in {NewDog(name), dog[d]}
      BY <3>2 DEF Base, TypeOK
    <3> QED
      BY <1>12, <3>3, <3>4
  <2>2. CASE Commit \/ CommitInDoubt \/ UNCHANGED vars
    BY <1>12, <2>2 DEF Commit, CommitInDoubt, Throw, vars
  <2>3. CASE \E e \in Dogs : Erase(e)
    <3>1. PICK e \in Dogs : Erase(e)
      BY <2>3
    <3>2. e = d
      BY <1>12, <3>1 DEF Erase, Base, TypeOK
    <3> QED
      BY <1>6, <1>12, <3>1, <3>2
  <2>4. CASE OtherStep
    BY <1>12, <2>4, OtherStepsKeepDogs
  <2> QED
    BY <2>1, <2>2, <2>3, <2>4, StepsSplit
<1> QED
  BY <1>11, <1>12

LEMMA SilentInvariant == Spec => []SilentInv
<1>1. Init => SilentInv
  <2> SUFFICES ASSUME Init PROVE SilentInv
    OBVIOUS
  <2>1. /\ at = "idle" /\ n = 1 /\ Alive = {}
        /\ \A m \in Maps : retiring[m] = <<>>
    BY DEF Init, Alive
  <2> QED
    BY <2>1 DEF SilentInv, ListInv, HoldingInv, Visiting, CrashesOnlyOnLeftovers
<1>2. Base /\ Base' /\ SilentInv /\ [Next]_vars => SilentInv'
  BY NextSilent
<1> QED
  BY <1>1, <1>2, BaseInvariant, PTL DEF Spec

\* Between ticks the lists hold nothing but what an exception left in them, under
\* every combination of the faults.
THEOREM NobodyLeftOver == Spec => []NoLeftoverRetirees
<1>1. SilentInv => NoLeftoverRetirees
  BY DEF SilentInv, ListInv, Visiting, NoLeftoverRetirees, Listed
<1> QED
  BY <1>1, SilentInvariant, PTL

\* Whatever the names and the database do, DogRetire finds the player of every id
\* but those an exception has left in the list.
THEOREM CrashNeedsLeftover == Spec => []CrashesOnlyOnLeftovers
<1>1. SilentInv => CrashesOnlyOnLeftovers
  BY DEF SilentInv, ListInv
<1> QED
  BY <1>1, SilentInvariant, PTL

\* A dog whose id no exception has left in a list goes only when its player has
\* been silent for the whole retirement time.
THEOREM OnlySilentRetire == Spec => RetiresOnlySilent
<1> DEFINE A == \A d \in Dogs :
                    dog[d] # NIL /\ dog'[d] = NIL /\ (\A m \in Maps : d \notin left[m]) =>
                        quiet[d] >= RetirementTime
<1>1. Base /\ Base' /\ SilentInv /\ [Next]_vars => [A]_vars
  BY NextSilent
<1> QED
  BY <1>1, BaseInvariant, SilentInvariant, PTL DEF Spec, RetiresOnlySilent

=============================================================================
