---------------------------- MODULE RecoveryProofs ----------------------------
(***************************************************************************)
(* What Recovery guarantees for any maps, any number of players, saves,    *)
(* stops and crashes, and any time a dog may hold still.                   *)
(***************************************************************************)
EXTENDS Recovery, SequenceTheorems, TLAPS

\* The game in memory and the game in a state file satisfy the same facts, with n
\* players that have joined so far and the lives own that tokens were issued to.
GameTyped(j, sid, dg, tk) ==
    /\ j \in [Maps -> Nat] /\ sid \in [Maps -> Nat \cup {NIL}]
    /\ dg \in [Dogs -> DogStates \cup {NIL}] /\ tk \in [Tokens -> Dogs \cup {NIL}]

\* A dog has a number given out in its session, so that the next one is free, and
\* belongs to a player who has joined.
DogsJoined(j, dg, n) ==
    \A d \in Dogs : dg[d] # NIL => d[1] < j[d[2]] /\ dg[d].life \in 1 .. n

TokensLead(dg, tk, own) ==
    \A t \in Tokens : tk[t] # NIL => dg[tk[t]] # NIL /\ dg[tk[t]].life = own[t]

Typed ==
    /\ GameTyped(joined, session_id, dog, token_to_player) /\ last_index \in Nat
    /\ snapshot \in Snapshots \cup {NIL}
    /\ lives \in 0 .. MaxLives /\ owner \in [Tokens -> Nat \cup {NIL}]
    /\ played \in [Lives -> Nat] /\ rows \in [Lives -> Seq(Nat)] /\ crashes \in Nat

GameInv ==
    /\ DogsJoined(joined, dog, lives) /\ TokensLead(dog, token_to_player, owner)
    /\ snapshot # NIL => /\ DogsJoined(snapshot.joined, snapshot.dog, lives)
                         /\ TokensLead(snapshot.dog, snapshot.token_to_player, owner)

\* Nothing is known yet of players who have not joined, and the clock of a dog is the
\* time its player spent in this process.
ClockInv ==
    /\ \A l \in Lives : l > lives => played[l] = 0 /\ rows[l] = <<>>
    /\ up => \A d \in Alive : dog[d].time = played[dog[d].life]

\* While the process has only been stopped by signals, a player has one dog or one row,
\* and the state file of a stopped process has all of its game.
OnceInv ==
    crashes = 0 =>
        /\ \A d, e \in Alive : dog[d].life = dog[e].life => d = e
        /\ \A l \in 1 .. lives :
              Len(rows[l]) = IF \E d \in Alive : dog[d].life = l THEN 0 ELSE 1
        /\ ~up => snapshot = StateContent

Inv == Typed /\ GameInv /\ ClockInv /\ OnceInv

-----------------------------------------------------------------------------
LEMMA DogFacts ==
    \A s \in DogStates : s # NIL /\ s.life \in Nat /\ s.time \in Nat /\ s.holding \in Nat
BY NilAssumption DEF DogStates

LEMMA NewFacts ==
    \A l \in Nat : NewDog(l) \in DogStates /\ NewDog(l).life = l /\ NewDog(l).time = 0
BY DEF NewDog, DogStates

LEMMA CommandFacts ==
    ASSUME NEW s \in DogStates
    PROVE  /\ Started(s) \in DogStates /\ Started(s).life = s.life /\ Started(s).time = s.time
           /\ Stopped(s) \in DogStates /\ Stopped(s).life = s.life /\ Stopped(s).time = s.time
<1>1. Started(s) \in DogStates /\ Started(s).life = s.life /\ Started(s).time = s.time
  BY DEF DogStates, Started
<1>2. Stopped(s) \in DogStates /\ Stopped(s).life = s.life /\ Stopped(s).time = s.time
  BY DEF DogStates, Stopped
<1> QED
  BY <1>1, <1>2

LEMMA RepresentedFacts ==
    /\ Represented(NIL) = NIL
    /\ \A s \in DogStates : /\ Represented(s) \in DogStates
                            /\ Represented(s).life = s.life /\ Represented(s).time = 0
<1>1. Represented(NIL) = NIL
  BY DEF Represented
<1>2. ASSUME NEW s \in DogStates
      PROVE  /\ Represented(s) \in DogStates
             /\ Represented(s).life = s.life /\ Represented(s).time = 0
  <2>1. Represented(s) = [s EXCEPT !.time = 0, !.holding = 0]
    BY DogFacts DEF Represented
  <2>2. s.life \in Nat /\ s.moving \in BOOLEAN /\ DOMAIN s = {"life", "moving", "time", "holding"}
    BY DEF DogStates
  <2>3. Represented(s) = [life |-> s.life, moving |-> s.moving, time |-> 0, holding |-> 0]
    BY <2>1 DEF DogStates
  <2> QED
    BY <2>2, <2>3 DEF DogStates
<1> QED
  BY <1>1, <1>2

\* A tick makes a dog one unit older, whether it meets the end of its road or not.
LEMMA MovedFacts ==
    ASSUME NEW s \in DogStates, NEW border
    PROVE  /\ Moved(s, border) \in DogStates /\ Moved(s, border).life = s.life
           /\ Moved(s, border).time = s.time + 1
<1>1. PICK x \in Nat, y \in Nat :
        x = s.time + 1 /\ y = IF s.moving THEN s.holding ELSE s.holding + 1
  BY DogFacts
<1>2. Older(s) \in DogStates /\ Older(s).life = s.life /\ Older(s).time = x
  <2>1. Older(s) = [s EXCEPT !.time = x, !.holding = y]
    BY <1>1 DEF Older
  <2> QED
    BY <2>1 DEF DogStates
<1>3. /\ Stopped(Older(s)) \in DogStates /\ Stopped(Older(s)).life = s.life
      /\ Stopped(Older(s)).time = x
  BY <1>2, CommandFacts
<1>4. Moved(s, border) \in {Older(s), Stopped(Older(s))}
  BY DEF Moved
<1> QED
  BY <1>1, <1>2, <1>3, <1>4

LEMMA ContentFacts ==
    ASSUME Typed
    PROVE  /\ StateContent \in Snapshots /\ StateContent # NIL
           /\ StateContent.joined = joined /\ StateContent.session_id = session_id
           /\ StateContent.dog = dog /\ StateContent.token_to_player = token_to_player
BY NilAssumption DEF StateContent, Snapshots, Typed, GameTyped

LEMMA InitInv == Init => Inv
<1> SUFFICES ASSUME Init PROVE Inv
  OBVIOUS
<1>1. /\ joined = [m \in Maps |-> 0] /\ session_id = [m \in Maps |-> NIL]
      /\ dog = [d \in Dogs |-> NIL] /\ token_to_player = [t \in Tokens |-> NIL]
  BY DEF Init, NoGame
<1>2. Typed
  BY <1>1, RecoveryAssumption DEF Init, Typed, GameTyped
<1>3. GameInv /\ ClockInv /\ OnceInv
  BY <1>1 DEF Init, GameInv, DogsJoined, TokensLead, ClockInv, OnceInv, Alive
<1> QED
  BY <1>2, <1>3 DEF Inv

-----------------------------------------------------------------------------
LEMMA JoinInv ==
    ASSUME Inv, NEW m \in Maps, NEW t \in Tokens, Join(m, t)
    PROVE  Inv'
<1> DEFINE new == <<joined[m], m>>
           state == NewDog(lives + 1)
<1>1. /\ up /\ joined[m] < MaxDogs /\ lives < MaxLives /\ owner[t] = NIL
      /\ joined' = [joined EXCEPT ![m] = joined[m] + 1]
      /\ dog' = [dog EXCEPT ![new] = state]
      /\ token_to_player' = [token_to_player EXCEPT ![t] = new]
      /\ lives' = lives + 1 /\ owner' = [owner EXCEPT ![t] = lives + 1]
      /\ UNCHANGED <<up, rows, snapshot, played, crashes>>
  BY DEF Join
<1>2. /\ MaxDogs \in Nat /\ MaxLives \in Nat /\ lives \in Nat
      /\ joined \in [Maps -> Nat] /\ dog \in [Dogs -> DogStates \cup {NIL}]
      /\ token_to_player \in [Tokens -> Dogs \cup {NIL}] /\ owner \in [Tokens -> Nat \cup {NIL}]
  BY RecoveryAssumption DEF Inv, Typed, GameTyped
<1>3. new \in Dogs /\ new[1] = joined[m] /\ new[2] = m
  BY <1>1, <1>2 DEF Dogs
<1>4. state \in DogStates /\ state # NIL /\ state.life = lives + 1 /\ state.time = 0
  BY <1>2, NewFacts, DogFacts
<1> HIDE DEF new, state
<1>5. dog[new] = NIL
  BY <1>2, <1>3 DEF Inv, GameInv, DogsJoined
<1>6. dog'[new] = state /\ \A d \in Dogs \ {new} : dog'[d] = dog[d]
  BY <1>1, <1>2, <1>3
<1>7. Typed'
  <2>1. GameTyped(joined', session_id', dog', token_to_player')
    <3>1. session_id' \in [Maps -> Nat \cup {NIL}]
      <4>1. /\ session_id \in [Maps -> Nat \cup {NIL}] /\ last_index \in Nat
            /\ \/ session_id' = [session_id EXCEPT ![m] = last_index]
               \/ session_id' = session_id
        BY DEF Join, Inv, Typed, GameTyped
      <4> QED
        BY <4>1
    <3> QED
      BY <1>1, <1>2, <1>3, <1>4, <3>1 DEF GameTyped
  <2>2. last_index' \in Nat
    BY DEF Join, Inv, Typed
  <2>3. lives' \in 0 .. MaxLives /\ owner' \in [Tokens -> Nat \cup {NIL}]
    BY <1>1, <1>2
  <2> QED
    BY <1>1, <2>1, <2>2, <2>3 DEF Inv, Typed
<1>8. GameInv'
  <2>1. DogsJoined(joined', dog', lives')
    <3> SUFFICES ASSUME NEW d \in Dogs, dog'[d] # NIL
                 PROVE  d[1] < joined'[d[2]] /\ dog'[d].life \in 1 .. lives'
      BY DEF DogsJoined
    <3>1. CASE d = new
      BY <1>1, <1>2, <1>3, <1>4, <1>6, <3>1
    <3>2. CASE d # new
      <4>1. d[1] < joined[d[2]] /\ dog[d].life \in 1 .. lives /\ d[1] \in Int /\ d[2] \in Maps
        BY <1>6, <3>2, RecoveryAssumption DEF Inv, GameInv, DogsJoined, Dogs
      <4> QED
        BY <1>1, <1>2, <1>6, <3>2, <4>1
    <3> QED
      BY <3>1, <3>2
  <2>2. TokensLead(dog', token_to_player', owner')
    <3> SUFFICES ASSUME NEW u \in Tokens, token_to_player'[u] # NIL
                 PROVE  /\ dog'[token_to_player'[u]] # NIL
                        /\ dog'[token_to_player'[u]].life = owner'[u]
      BY DEF TokensLead
    <3>1. CASE u = t
      BY <1>1, <1>2, <1>4, <1>6, <3>1
    <3>2. CASE u # t
      <4>1. /\ token_to_player'[u] = token_to_player[u] /\ owner'[u] = owner[u]
            /\ token_to_player[u] \in Dogs
        BY <1>1, <1>2, <3>2
      <4>2. dog[token_to_player[u]] # NIL /\ dog[token_to_player[u]].life = owner[u]
        BY <4>1 DEF Inv, GameInv, TokensLead
      <4>3. token_to_player[u] # new
        BY <1>5, <4>2
      <4> QED
        BY <1>6, <4>1, <4>2, <4>3
    <3> QED
      BY <3>1, <3>2
  <2>3. ASSUME snapshot # NIL
        PROVE  /\ DogsJoined(snapshot.joined, snapshot.dog, lives')
               /\ TokensLead(snapshot.dog, snapshot.token_to_player, owner')
    <3>1. snapshot.dog \in [Dogs -> DogStates \cup {NIL}]
          /\ snapshot.token_to_player \in [Tokens -> Dogs \cup {NIL}]
      BY <2>3 DEF Inv, Typed, Snapshots
    <3>2. DogsJoined(snapshot.joined, snapshot.dog, lives')
      BY <1>1, <1>2, <2>3, <3>1 DEF Inv, GameInv, DogsJoined
    <3>3. ASSUME NEW u \in Tokens, snapshot.token_to_player[u] # NIL
          PROVE  u # t
      <4>1. /\ snapshot.dog[snapshot.token_to_player[u]] \in DogStates
            /\ snapshot.dog[snapshot.token_to_player[u]].life = owner[u]
        BY <2>3, <3>1, <3>3 DEF Inv, GameInv, TokensLead
      <4> QED
        BY <1>1, <4>1, DogFacts, NilAssumption
    <3>4. TokensLead(snapshot.dog, snapshot.token_to_player, owner')
      BY <1>1, <1>2, <2>3, <3>3 DEF Inv, GameInv, TokensLead
    <3> QED
      BY <3>2, <3>4
  <2> QED
    BY <1>1, <2>1, <2>2, <2>3 DEF GameInv
<1>9. Alive' = Alive \cup {new} /\ new \notin Alive
  BY <1>3, <1>4, <1>5, <1>6 DEF Alive
<1>10. \A d \in Alive : dog'[d] = dog[d] /\ dog[d].life \in 1 .. lives
  BY <1>6, <1>9 DEF Alive, Inv, GameInv, DogsJoined
<1>11. lives + 1 \in Lives /\ 1 .. lives' = 1 .. lives \cup {lives + 1}
  BY <1>1, <1>2 DEF Lives
<1>12. ClockInv'
  <2>1. \A l \in Lives : l > lives' => played'[l] = 0 /\ rows'[l] = <<>>
    BY <1>1, <1>2 DEF Inv, ClockInv, Lives
  <2>2. \A d \in Alive' : dog'[d].time = played'[dog'[d].life]
    <3>1. played[lives + 1] = 0
      BY <1>2, <1>11 DEF Inv, ClockInv
    <3> QED
      BY <1>1, <1>4, <1>6, <1>9, <1>10, <3>1 DEF Inv, ClockInv
  <2> QED
    BY <2>1, <2>2 DEF ClockInv
<1>13. OnceInv'
  <2> SUFFICES ASSUME crashes = 0
               PROVE  /\ \A d, e \in Alive' : dog'[d].life = dog'[e].life => d = e
                      /\ \A l \in 1 .. lives' :
                            Len(rows[l]) = IF \E d \in Alive' : dog'[d].life = l THEN 0 ELSE 1
    BY <1>1 DEF OnceInv
  <2>1. \A d, e \in Alive' : dog'[d].life = dog'[e].life => d = e
    BY <1>2, <1>4, <1>6, <1>9, <1>10 DEF Inv, OnceInv
  <2>2. ASSUME NEW l \in 1 .. lives
        PROVE  Len(rows[l]) = IF \E d \in Alive' : dog'[d].life = l THEN 0 ELSE 1
    <3>1. (\E d \in Alive' : dog'[d].life = l) <=> \E d \in Alive : dog[d].life = l
      BY <1>2, <1>4, <1>6, <1>9, <1>10
    <3> QED
      BY <3>1 DEF Inv, OnceInv
  <2>3. Len(rows[lives + 1]) = 0 /\ dog'[new].life = lives + 1 /\ new \in Alive'
    BY <1>2, <1>4, <1>6, <1>9, <1>11 DEF Inv, ClockInv
  <2> QED
    BY <1>11, <2>1, <2>2, <2>3
<1> QED
  BY <1>7, <1>8, <1>12, <1>13 DEF Inv

\* A command changes no life and no play time.
LEMMA CommandInv ==
    ASSUME Inv, NEW t \in Tokens, MovePlayer(t) \/ StopPlayer(t)
    PROVE  Inv'
<1> DEFINE called == token_to_player[t]
<1>1. PICK state :
        /\ up /\ called # NIL /\ dog' = [dog EXCEPT ![called] = state]
        /\ state = Started(dog[called]) \/ state = Stopped(dog[called])
        /\ UNCHANGED <<up, joined, session_id, last_index, token_to_player, rows, snapshot,
                       lives, owner, played, crashes>>
  BY DEF MovePlayer, StopPlayer, Command, ghosts
<1>2. dog \in [Dogs -> DogStates \cup {NIL}] /\ called \in Dogs /\ dog[called] \in DogStates
  BY <1>1 DEF Inv, Typed, GameTyped, GameInv, TokensLead
<1> HIDE DEF called
<1>3. /\ dog' \in [Dogs -> DogStates \cup {NIL}]
      /\ \A d \in Dogs : /\ dog'[d] = NIL <=> dog[d] = NIL
                         /\ dog[d] # NIL => /\ dog'[d].life = dog[d].life
                                            /\ dog'[d].time = dog[d].time
  BY <1>1, <1>2, CommandFacts, DogFacts
<1>4. Alive' = Alive
  BY <1>3 DEF Alive
<1>5. Typed'
  BY <1>1, <1>3 DEF Inv, Typed, GameTyped
<1>6. GameInv'
  <2>1. DogsJoined(joined', dog', lives')
    BY <1>1, <1>3 DEF Inv, GameInv, DogsJoined
  <2>2. TokensLead(dog', token_to_player', owner')
    BY <1>1, <1>3 DEF Inv, Typed, GameTyped, GameInv, TokensLead
  <2> QED
    BY <1>1, <2>1, <2>2 DEF Inv, GameInv
<1>7. ClockInv' /\ OnceInv'
  <2>1. \A d \in Alive : dog'[d].life = dog[d].life /\ dog'[d].time = dog[d].time
    BY <1>3 DEF Alive
  <2>2. ClockInv'
    BY <1>1, <1>4, <2>1 DEF Inv, ClockInv
  <2>3. OnceInv'
    BY <1>1, <1>4, <2>1 DEF Inv, OnceInv
  <2> QED
    BY <2>2, <2>3
<1> QED
  BY <1>5, <1>6, <1>7 DEF Inv

\* What a tick does, in short: the dogs that are due go and are recorded with the time
\* their players spent in this process, the others get older.
LEMMA TickFacts ==
    ASSUME Inv, NEW ends, Tick(ends)
    PROVE  \E due \in SUBSET Alive :
             /\ dog' \in [Dogs -> DogStates \cup {NIL}] /\ Alive' = Alive \ due
             /\ \A d \in Alive' : /\ dog'[d] \in DogStates /\ dog'[d].life = dog[d].life
                                 /\ dog'[d].time = dog[d].time + 1
             /\ token_to_player' = [t \in Tokens |->
                    IF token_to_player[t] \in due THEN NIL ELSE token_to_player[t]]
             /\ played' = [l \in Lives |->
                    IF \E d \in Alive : dog[d].life = l THEN played[l] + 1 ELSE played[l]]
             /\ rows' = [l \in Lives |-> rows'[l]]
             /\ \A l \in Lives :
                  IF \E d \in due : dog[d].life = l
                  THEN rows'[l] = Append(rows[l], played'[l])
                  ELSE rows'[l] = rows[l]
<1> DEFINE after(d) == Moved(dog[d], d \in ends)
           due == {d \in Alive : Due(after(d))}
           time(l) == after(CHOOSE d \in due : dog[d].life = l).time
<1>1. /\ up
      /\ dog' = [d \in Dogs |-> IF d \in Alive \ due THEN after(d) ELSE NIL]
      /\ token_to_player' = [t \in Tokens |->
            IF token_to_player[t] \in due THEN NIL ELSE token_to_player[t]]
      /\ rows' = [l \in Lives |->
            IF \E d \in due : dog[d].life = l THEN Append(rows[l], time(l)) ELSE rows[l]]
      /\ played' = [l \in Lives |->
            IF \E d \in Alive : dog[d].life = l THEN played[l] + 1 ELSE played[l]]
  BY DEF Tick
<1>2. due \in SUBSET Alive
  OBVIOUS
<1> HIDE DEF due
<1>4. \A d \in Alive : /\ d \in Dogs /\ dog[d] # NIL /\ dog[d] \in DogStates
                    /\ after(d) \in DogStates /\ after(d) # NIL
                    /\ after(d).life = dog[d].life /\ after(d).time = dog[d].time + 1
  <2> SUFFICES ASSUME NEW d \in Alive
               PROVE  /\ d \in Dogs /\ dog[d] # NIL /\ dog[d] \in DogStates
                      /\ after(d) \in DogStates /\ after(d) # NIL
                      /\ after(d).life = dog[d].life /\ after(d).time = dog[d].time + 1
    OBVIOUS
  <2>1. d \in Dogs /\ dog[d] # NIL /\ dog[d] \in DogStates
    BY DEF Alive, Inv, Typed, GameTyped
  <2> QED
    BY <2>1, MovedFacts, DogFacts
<1> HIDE DEF after
<1>3. ASSUME NEW l \in Lives, \E d \in due : dog[d].life = l
      PROVE  time(l) = played'[l]
  <2>1. PICK d : d = CHOOSE e \in due : dog[e].life = l
    OBVIOUS
  <2>2. d \in due /\ dog[d].life = l
    BY <1>3, <2>1
  <2>3. dog[d] \in DogStates /\ dog[d].time = played[l]
    BY <1>1, <1>2, <2>2 DEF Inv, Typed, GameTyped, ClockInv, Alive
  <2>4. time(l) = played[l] + 1
    BY <1>2, <1>4, <2>1, <2>2, <2>3 DEF time
  <2> QED
    BY <1>1, <1>2, <2>2, <2>4
<1> HIDE DEF time
<1>5. \A d \in Dogs : IF d \in Alive \ due THEN dog'[d] = after(d) ELSE dog'[d] = NIL
  BY <1>1
<1>6. Alive' = Alive \ due
  BY <1>4, <1>5 DEF Alive
<1>7. dog' \in [Dogs -> DogStates \cup {NIL}]
  BY <1>1, <1>4
<1>8. \A d \in Alive' : /\ dog'[d] \in DogStates /\ dog'[d].life = dog[d].life
                     /\ dog'[d].time = dog[d].time + 1
  BY <1>4, <1>5, <1>6
<1>9. /\ rows' = [l \in Lives |-> rows'[l]]
      /\ \A l \in Lives :
            IF \E d \in due : dog[d].life = l
            THEN rows'[l] = Append(rows[l], played'[l])
            ELSE rows'[l] = rows[l]
  BY <1>1, <1>3
<1> QED
  BY <1>1, <1>2, <1>6, <1>7, <1>8, <1>9

LEMMA TickInv ==
    ASSUME Inv, NEW ends, Tick(ends)
    PROVE  Inv'
<1>1. PICK due \in SUBSET Alive :
        /\ dog' \in [Dogs -> DogStates \cup {NIL}] /\ Alive' = Alive \ due
        /\ \A d \in Alive' : /\ dog'[d] \in DogStates /\ dog'[d].life = dog[d].life
                            /\ dog'[d].time = dog[d].time + 1
        /\ token_to_player' = [t \in Tokens |->
              IF token_to_player[t] \in due THEN NIL ELSE token_to_player[t]]
        /\ played' = [l \in Lives |->
              IF \E d \in Alive : dog[d].life = l THEN played[l] + 1 ELSE played[l]]
        /\ rows' = [l \in Lives |-> rows'[l]]
        /\ \A l \in Lives :
              IF \E d \in due : dog[d].life = l
              THEN rows'[l] = Append(rows[l], played'[l])
              ELSE rows'[l] = rows[l]
  BY TickFacts
<1>2. up /\ UNCHANGED <<up, joined, session_id, last_index, snapshot, lives, owner, crashes>>
  BY DEF Tick
<1>3. /\ dog \in [Dogs -> DogStates \cup {NIL}] /\ played \in [Lives -> Nat]
      /\ token_to_player \in [Tokens -> Dogs \cup {NIL}] /\ rows \in [Lives -> Seq(Nat)]
      /\ lives \in 0 .. MaxLives /\ MaxLives \in Nat
  BY RecoveryAssumption DEF Inv, Typed, GameTyped
<1>4. \A d \in Alive : d \in Dogs /\ dog[d] \in DogStates /\ dog[d].life \in 1 .. lives
                    /\ dog[d].life \in Lives
  BY <1>3 DEF Alive, Inv, GameInv, DogsJoined, Lives
<1>5. /\ Alive' = Alive \ due
      /\ \A d \in Alive' : /\ dog'[d] \in DogStates /\ dog'[d].life = dog[d].life
                          /\ dog'[d].time = dog[d].time + 1
  BY <1>1
<1>6. played' \in [Lives -> Nat]
  BY <1>1, <1>3
<1>7. Typed'
  <2>1. dog' \in [Dogs -> DogStates \cup {NIL}]
    BY <1>1
  <2>2. token_to_player' \in [Tokens -> Dogs \cup {NIL}]
    BY <1>1, <1>3
  <2>3. \A l \in Lives : rows'[l] \in Seq(Nat)
    <3> SUFFICES ASSUME NEW l \in Lives PROVE rows'[l] \in Seq(Nat)
      OBVIOUS
    <3>1. rows[l] \in Seq(Nat) /\ played'[l] \in Nat
      BY <1>3, <1>6
    <3>2. rows'[l] \in {rows[l], Append(rows[l], played'[l])}
      BY <1>1
    <3>3. Append(rows[l], played'[l]) \in Seq(Nat)
      BY <3>1, AppendProperties
    <3> QED
      BY <3>1, <3>2, <3>3
  <2>4. rows' = [l \in Lives |-> rows'[l]]
    BY <1>1
  <2>5. rows' \in [Lives -> Seq(Nat)]
    BY <2>3, <2>4
  <2> QED
    BY <1>2, <1>6, <2>1, <2>2, <2>5 DEF Inv, Typed, GameTyped
<1>8. GameInv'
  <2>1. \A d \in Dogs : dog'[d] # NIL => d \in Alive'
    BY DEF Alive
  <2>2. DogsJoined(joined', dog', lives')
    BY <1>2, <1>5, <2>1 DEF Inv, GameInv, DogsJoined, Alive
  <2>3. TokensLead(dog', token_to_player', owner')
    <3> SUFFICES ASSUME NEW t \in Tokens, token_to_player'[t] # NIL
                 PROVE  /\ dog'[token_to_player'[t]] # NIL
                        /\ dog'[token_to_player'[t]].life = owner'[t]
      BY DEF TokensLead
    <3>1. token_to_player'[t] = token_to_player[t] /\ token_to_player[t] \notin due
      BY <1>1
    <3>2. /\ token_to_player[t] \in Dogs /\ dog[token_to_player[t]] # NIL
          /\ dog[token_to_player[t]].life = owner[t]
      BY <1>3, <3>1 DEF Inv, GameInv, TokensLead
    <3>3. token_to_player[t] \in Alive'
      BY <1>5, <3>1, <3>2 DEF Alive
    <3> QED
      BY <1>2, <1>5, <3>1, <3>2, <3>3, DogFacts
  <2> QED
    BY <1>2, <2>2, <2>3 DEF Inv, GameInv
<1>9. ClockInv'
  <2>1. ASSUME NEW l \in Lives, l > lives
        PROVE  played'[l] = 0 /\ rows'[l] = <<>>
    <3>1. \A d \in Alive : dog[d].life # l
      BY <1>3, <1>4, <2>1 DEF Lives
    <3> QED
      BY <1>1, <2>1, <3>1 DEF Inv, ClockInv
  <2>2. \A d \in Alive' : dog'[d].time = played'[dog'[d].life]
    <3> SUFFICES ASSUME NEW d \in Alive' PROVE dog'[d].time = played'[dog'[d].life]
      OBVIOUS
    <3>1. d \in Alive /\ dog[d].life \in Lives /\ dog[d].time = played[dog[d].life]
      BY <1>2, <1>4, <1>5 DEF Inv, ClockInv
    <3>2. played'[dog[d].life] = played[dog[d].life] + 1
      BY <1>1, <3>1
    <3> QED
      BY <1>5, <3>1, <3>2
  <2> QED
    BY <1>2, <2>1, <2>2 DEF ClockInv
<1>10. OnceInv'
  <2> SUFFICES ASSUME crashes = 0
               PROVE  /\ \A d, e \in Alive' : dog'[d].life = dog'[e].life => d = e
                      /\ \A l \in 1 .. lives :
                            Len(rows'[l]) = IF \E d \in Alive' : dog'[d].life = l THEN 0 ELSE 1
    BY <1>2 DEF OnceInv
  <2>1. \A d, e \in Alive : dog[d].life = dog[e].life => d = e
    BY DEF Inv, OnceInv
  <2>2. ASSUME NEW l \in 1 .. lives
        PROVE  Len(rows'[l]) = IF \E d \in Alive' : dog'[d].life = l THEN 0 ELSE 1
    <3>1. /\ l \in Lives /\ rows[l] \in Seq(Nat)
          /\ Len(rows[l]) = IF \E d \in Alive : dog[d].life = l THEN 0 ELSE 1
      BY <1>3, <2>2 DEF Inv, OnceInv, Lives
    <3>2. CASE \E d \in due : dog[d].life = l
      <4>1. ~ \E d \in Alive' : dog'[d].life = l
        BY <1>5, <2>1, <3>2
      <4>2. rows'[l] = Append(rows[l], played'[l]) /\ Len(rows[l]) = 0
        BY <1>1, <3>1, <3>2
      <4>3. Len(rows'[l]) = 1
        BY <1>6, <3>1, <4>2, AppendProperties
      <4> QED
        BY <4>1, <4>3
    <3>3. CASE ~ \E d \in due : dog[d].life = l
      <4>1. (\E d \in Alive' : dog'[d].life = l) <=> \E d \in Alive : dog[d].life = l
        BY <1>5, <3>3
      <4>2. rows'[l] = rows[l]
        BY <1>1, <3>1, <3>3
      <4> QED
        BY <3>1, <4>1, <4>2
    <3> QED
      BY <3>2, <3>3
  <2> QED
    BY <1>5, <2>1, <2>2
<1> QED
  BY <1>7, <1>8, <1>9, <1>10 DEF Inv

LEMMA SaveInv ==
    ASSUME Inv, Save \/ Shutdown
    PROVE  Inv'
<1>1. /\ up /\ snapshot' = StateContent
      /\ UNCHANGED <<joined, session_id, dog, token_to_player, last_index, rows, lives, owner,
                     played, crashes>>
  BY DEF Save, Shutdown, game, ghosts
<1>2. up' \/ ~up'
  OBVIOUS
<1>3. Typed'
  BY <1>1, ContentFacts DEF Inv, Typed, GameTyped
<1>4. GameInv'
  BY <1>1, ContentFacts DEF Inv, GameInv
<1>5. ClockInv'
  BY <1>1 DEF Inv, ClockInv, Alive
<1>6. OnceInv'
  BY <1>1 DEF Inv, OnceInv, Alive, StateContent
<1> QED
  BY <1>3, <1>4, <1>5, <1>6 DEF Inv

LEMMA CrashInv ==
    ASSUME Inv, Crash
    PROVE  Inv'
<1>1. /\ ~up' /\ crashes' = crashes + 1
      /\ UNCHANGED <<joined, session_id, dog, token_to_player, last_index, rows, snapshot, lives,
                     owner, played>>
  BY DEF Crash, game
<1>2. Typed' /\ GameInv' /\ ClockInv'
  BY <1>1 DEF Inv, Typed, GameTyped, GameInv, ClockInv
<1>3. OnceInv'
  BY <1>1 DEF Inv, Typed, OnceInv
<1> QED
  BY <1>2, <1>3 DEF Inv

LEMMA RestartInv ==
    ASSUME Inv, Restart
    PROVE  Inv'
<1>1. /\ ~up /\ up' /\ last_index' = 0 /\ played' = [l \in Lives |-> 0]
      /\ UNCHANGED <<rows, snapshot, lives, owner, crashes>>
  BY DEF Restart
<1>2. rows' \in [Lives -> Seq(Nat)] /\ played' \in [Lives -> Nat] /\ last_index' \in Nat
  BY <1>1 DEF Inv, Typed
<1>3. \A l \in Lives : l > lives => played'[l] = 0 /\ rows'[l] = <<>>
  BY <1>1 DEF Inv, ClockInv
<1>4. CASE snapshot = NIL
  <2>1. /\ joined' = [m \in Maps |-> 0] /\ session_id' = [m \in Maps |-> NIL]
        /\ dog' = [d \in Dogs |-> NIL] /\ token_to_player' = [t \in Tokens |-> NIL]
    BY <1>4 DEF Restart, Load, NoGame
  <2>2. Typed'
    BY <1>1, <1>2, <2>1 DEF Inv, Typed, GameTyped
  <2>3. Alive' = {}
    BY <2>1 DEF Alive
  <2>4. GameInv' /\ ClockInv'
    BY <1>1, <1>3, <1>4, <2>1, <2>3 DEF GameInv, DogsJoined, TokensLead, ClockInv
  <2>5. OnceInv'
    BY <1>1, <1>4, ContentFacts DEF Inv, OnceInv
  <2> QED
    BY <2>2, <2>4, <2>5 DEF Inv
<1>5. CASE snapshot # NIL
  <2> DEFINE kept == snapshot.dog
  <2>1. /\ snapshot.joined \in [Maps -> Nat] /\ snapshot.session_id \in [Maps -> Nat \cup {NIL}]
        /\ kept \in [Dogs -> DogStates \cup {NIL}]
        /\ snapshot.token_to_player \in [Tokens -> Dogs \cup {NIL}]
    BY <1>5 DEF Inv, Typed, Snapshots
  <2>2. /\ joined' = snapshot.joined /\ session_id' = snapshot.session_id
        /\ dog' = [d \in Dogs |-> Represented(kept[d])]
        /\ token_to_player' = snapshot.token_to_player
    <3> DEFINE state == [snapshot EXCEPT !.dog = [d \in Dogs |-> Represented(kept[d])]]
    <3>1. Load(state)
      BY <1>5 DEF Restart
    <3>2. /\ state.joined = snapshot.joined /\ state.session_id = snapshot.session_id
          /\ state.token_to_player = snapshot.token_to_player
          /\ state.dog = [d \in Dogs |-> Represented(kept[d])]
      BY <1>5 DEF Inv, Typed, Snapshots
    <3> QED
      BY <3>1, <3>2 DEF Load
  <2>3. /\ DogsJoined(snapshot.joined, kept, lives)
        /\ TokensLead(kept, snapshot.token_to_player, owner)
    BY <1>5 DEF Inv, GameInv
  <2> HIDE DEF kept
  <2>4. /\ dog' \in [Dogs -> DogStates \cup {NIL}]
        /\ \A d \in Dogs : /\ dog'[d] = NIL <=> kept[d] = NIL
                           /\ kept[d] # NIL => dog'[d].life = kept[d].life /\ dog'[d].time = 0
    BY <2>1, <2>2, RepresentedFacts, DogFacts
  <2>5. Typed'
    BY <1>1, <1>2, <2>1, <2>2, <2>4 DEF Inv, Typed, GameTyped
  <2>6. GameInv'
    <3>1. DogsJoined(joined', dog', lives')
      BY <1>1, <2>2, <2>3, <2>4 DEF DogsJoined
    <3>2. TokensLead(dog', token_to_player', owner')
      BY <1>1, <2>1, <2>2, <2>3, <2>4 DEF TokensLead
    <3> QED
      BY <1>1, <3>1, <3>2 DEF Inv, GameInv
  <2>7. ClockInv'
    <3>1. \A d \in Alive' : dog'[d].time = 0 /\ dog'[d].life \in Lives
      <4> SUFFICES ASSUME NEW d \in Alive' PROVE dog'[d].time = 0 /\ dog'[d].life \in Lives
        OBVIOUS
      <4>1. d \in Dogs /\ dog'[d] # NIL /\ kept[d] # NIL
        BY <2>4 DEF Alive
      <4>2. dog'[d].life \in 1 .. lives /\ lives \in 0 .. MaxLives
        BY <2>3, <2>4, <4>1 DEF DogsJoined, Inv, Typed
      <4> QED
        BY <2>4, <4>1, <4>2, RecoveryAssumption DEF Lives
    <3> QED
      BY <1>1, <1>3, <3>1 DEF ClockInv
  <2>8. OnceInv'
    <3> SUFFICES ASSUME crashes = 0
                 PROVE  /\ \A d, e \in Alive' : dog'[d].life = dog'[e].life => d = e
                        /\ \A l \in 1 .. lives :
                             Len(rows[l]) = IF \E d \in Alive' : dog'[d].life = l THEN 0 ELSE 1
      BY <1>1 DEF OnceInv
    <3>1. kept = dog
      BY <1>1, ContentFacts DEF Inv, OnceInv, kept
    <3>2. Alive' = Alive /\ \A d \in Alive : dog'[d].life = dog[d].life
      BY <2>4, <3>1 DEF Alive
    <3> QED
      BY <3>2 DEF Inv, OnceInv
  <2> QED
    BY <2>5, <2>6, <2>7, <2>8 DEF Inv
<1> QED
  BY <1>4, <1>5

LEMMA NextInv == Inv /\ [Next]_vars => Inv'
<1> SUFFICES ASSUME Inv, [Next]_vars PROVE Inv'
  OBVIOUS
<1>1. CASE UNCHANGED vars
  BY <1>1 DEF vars, game, ghosts, Inv, Typed, GameTyped, GameInv, ClockInv, OnceInv, Alive,
     StateContent
<1>2. CASE Next
  BY <1>2, JoinInv, CommandInv, TickInv, SaveInv, CrashInv, RestartInv DEF Next
<1> QED
  BY <1>1, <1>2

LEMMA Invariant == Spec => []Inv
BY InitInv, NextInv, PTL DEF Spec

\* A token never leads to the dog of another player, whatever a crash has undone
\* (PlayerTokens and AppSerializator::Restore).
THEOREM TokensKeepPlayers == Spec => []TokenNamesItsPlayer
<1>1. Inv => TokenNamesItsPlayer
  BY DEF Inv, Typed, GameTyped, GameInv, TokensLead, TokenNamesItsPlayer, Alive
<1> QED
  BY <1>1, Invariant, PTL

\* Nobody is lost and nobody recorded twice as long as the server is only stopped by
\* signals (main saves after the io context has run out).
THEOREM SignalsLoseNobody == Spec => []RecordedOnce
<1>1. Inv => RecordedOnce
  BY DEF Inv, OnceInv, RecordedOnce
<1> QED
  BY <1>1, Invariant, PTL

\* A row tells the time played in the process that writes it (DogRepr keeps no clocks).
THEOREM RowsTellTime == Spec => RowsTellTimeInProcess
<1>1. Inv /\ [Next]_vars =>
        [\A l \in Lives : rows'[l] # rows[l] => rows'[l][Len(rows'[l])] = played'[l]]_vars
  <2> SUFFICES ASSUME Inv, Next, NEW l \in Lives, rows'[l] # rows[l]
               PROVE  rows'[l][Len(rows'[l])] = played'[l]
    OBVIOUS
  <2>1. PICK ends : Tick(ends)
    BY DEF Next, Join, MovePlayer, StopPlayer, Command, Save, Shutdown, Crash, Restart
  <2>2. rows'[l] = Append(rows[l], played'[l]) /\ played' = [k \in Lives |-> played'[k]]
        /\ played'[l] \in {played[l], played[l] + 1}
    BY <2>1, TickFacts
  <2>3. rows[l] \in Seq(Nat) /\ played'[l] \in Nat
    BY <2>2 DEF Inv, Typed
  <2> QED
    BY <2>2, <2>3, AppendProperties
<1> QED
  BY <1>1, Invariant, PTL DEF Spec, RowsTellTimeInProcess
=============================================================================
