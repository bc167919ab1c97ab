------------------------------- MODULE Client -------------------------------
(***************************************************************************)
(* The browser client of a player: the page loads its models, then keeps a *)
(* picture of the game out of the answers to two requests it repeats, the  *)
(* state and the list of players, and posts a command whenever the last of *)
(* the pressed keys changes.  Requests travel over several connections and *)
(* carry no sequence number: each may be answered late, out of order, or   *)
(* not at all.  A handler of the page runs to its end, so it is one action.*)
(* The server and the network are as the page sees them.                   *)
(***************************************************************************)
EXTENDS Integers, Sequences, FiniteSets, Bags, FiniteSetsExt, SequencesExt

CONSTANTS
    Players,      \* players of this session
    me,           \* playerId, the player of this page
    Loot,         \* ids of lost objects
    Keys,         \* the arrow keys
    STOP,         \* "", the command of no key
    Assets,       \* what has to be loaded: the actor and the loot types
    NIL,          \* undefined
    ASKED, REFUSED,   \* a request without an answer yet; the answer 401
    MaxEvents,    \* bound: changes of the game on the server, and keys
    MaxMixed,     \* bound: changes of the game in a behaviour with commands
    MaxAlike,     \* bound: requests of one kind that have not ended
    MaxGets       \* bound: GET requests of both kinds, likewise

Fates == {"new", "in", "gone"}
Places == {"none", "lying", "gone"} \cup Players
Snapshots == [no : Nat, players : SUBSET Players, where : [Loot -> Places]]

ASSUME ClientAssumption ==
    /\ me \in Players /\ STOP \notin Keys /\ IsFiniteSet(Players) /\ IsFiniteSet(Loot)
    /\ Players \cap {"none", "lying", "gone"} = {} /\ NIL \notin Snapshots
    /\ {MaxEvents, MaxMixed, MaxAlike, MaxGets} \subseteq Nat

VARIABLES
    \* the server
    fate,        \* of each player: "new", "in", "gone"
    where,       \* each lost object: "none", "lying", the player who has it, "gone"
    heading,     \* the command my dog follows
    version,     \* changes of the game so far
    presses,     \* keys pressed and released on this page so far
    \* the network: bags of requests that have not ended
    stateCalls,  \* GET state: ASKED, or the answer on its way
    listCalls,   \* GET players: the same
    posts,       \* POST action: the command
    \* the page
    page,        \* "loading", "game", "records"
    missing,     \* the assets that are not loaded yet
    loaded,      \* which of stateLoaded, playersLoaded and started are set
    halted,      \* an exception has ended the chain of animation frames
    pressed,     \* keyState.pressedKeys
    desired,     \* desiredState
    current,     \* the ids in currentState.players
    listed,      \* the ids in players
    bag,         \* data.bag of each player: the object it has of each loot, or 0
    lost,        \* lostObjects: the same
    vanishing,   \* disappearingLoot: the same
    scene,       \* the loot objects the scene draws
    \* history
    lastList,    \* the moment of the last list applied
    slipped,     \* an answer overtook a newer one, or a dog came and went unlisted
    tangled      \* of the last commands one was lost or overtaken

server == <<fate, where, heading, version>>
objects == <<bag, lost, vanishing, scene>>
view == <<desired, current, listed, objects, lastList, slipped>>
keys == <<pressed, presses>>
control == <<page, missing, loaded, halted>>
clientvars == <<server, stateCalls, listCalls, posts, control, keys, view, tangled>>

Nothing == [l \in Loot |-> 0]

Put(calls, c) == calls (+) SetToBag({c})
Without(calls, c) == calls (-) SetToBag({c})

Playing == {p \in Players : fate[p] = "in"}
HasRoom(calls) ==
    /\ BagCardinality(calls) < MaxAlike
    /\ BagCardinality(stateCalls) + BagCardinality(listCalls) < MaxGets
MayHappen == page # "records" /\ version + presses < MaxEvents
Calm == presses = 0 /\ posts = EmptyBag /\ heading = STOP
MayChange == MayHappen /\ (Calm \/ version < MaxMixed)

\* The page is opened, or opened again, in the middle of a game that I have
\* joined: the cookies tell it who I am, while my dog may be running and a
\* command of the page before be on its way.  What lies about, who carries it
\* and who leaves before the first answer changes while the page is loading.
Init ==
    /\ fate \in {f \in [Players -> {"new", "in"}] : f[me] = "in"}
    /\ where = [l \in Loot |-> "none"]
    /\ heading \in Keys \cup {STOP} /\ version = 0 /\ presses = 0
    /\ stateCalls = EmptyBag /\ listCalls = EmptyBag
    /\ posts \in {EmptyBag} \cup {SetToBag({k}) : k \in Keys \cup {STOP}}
    /\ page = "loading" /\ missing = Assets /\ loaded = {} /\ halted = FALSE
    /\ pressed = <<>> /\ tangled = FALSE
    /\ desired = NIL /\ current = {} /\ listed = {}
    /\ bag = [p \in Players |-> Nothing]
    /\ lost = Nothing /\ vanishing = Nothing /\ scene = {}
    /\ lastList = 0 /\ slipped = FALSE

-----------------------------------------------------------------------------
(* The server changes the game, and answers at a moment of its own.        *)

GameChanges ==
    /\ MayChange /\ version' = version + 1
    /\ \/ \E p \in Players :
            \/ /\ fate[p] = "new" /\ fate' = [fate EXCEPT ![p] = "in"]
               /\ UNCHANGED where
            \/ /\ fate[p] = "in" /\ fate' = [fate EXCEPT ![p] = "gone"]
               /\ where' = [l \in Loot |-> IF where[l] = p THEN "gone" ELSE where[l]]
       \/ \E l \in Loot :
            /\ \/ where[l] = "none" /\ where' = [where EXCEPT ![l] = "lying"]
               \/ /\ where[l] = "lying"
                  /\ \E p \in Playing : where' = [where EXCEPT ![l] = p]
               \/ where[l] \in Players /\ where' = [where EXCEPT ![l] = "gone"]
            /\ UNCHANGED fate
    /\ UNCHANGED <<heading, stateCalls, listCalls, posts, control, keys, view, tangled>>

Snapshot == [no |-> version, players |-> Playing, where |-> where]
PlayerList == [no |-> version, players |-> Playing]

Serve(calls, answer) ==
    /\ BagIn(ASKED, calls)
    /\ calls' = Put(Without(calls, ASKED), IF me \in Playing THEN answer ELSE REFUSED)
    /\ UNCHANGED <<server, posts, control, keys, view, tangled>>
ServeState == Serve(stateCalls, Snapshot) /\ UNCHANGED listCalls
ServeList == Serve(listCalls, PlayerList) /\ UNCHANGED stateCalls

\* A command moves my dog while I play.  Its answer only asks for a poll in the
\* next frame, which may poll anyway.
ServePost == \E k \in BagToSet(posts) :
    /\ me \in Playing
    /\ posts' = Without(posts, k) /\ heading' = k
    /\ UNCHANGED <<fate, where, version, stateCalls, listCalls, control, keys, view, tangled>>

\* A request fails: no handler of the page acts on it.  Where on its way it was
\* lost makes no difference to a GET.  A refusal of the state or of a command
\* ends unnoticed too, for only _syncPlayers has a fail handler.
RequestFails ==
    /\ \/ /\ \E c \in BagToSet(stateCalls) \ {ASKED} : stateCalls' = Without(stateCalls, c)
          /\ UNCHANGED <<listCalls, posts, tangled>>
       \/ /\ \E c \in BagToSet(listCalls) \ {ASKED} : listCalls' = Without(listCalls, c)
          /\ UNCHANGED <<stateCalls, posts, tangled>>
       \/ /\ \E c \in BagToSet(posts) : posts' = Without(posts, c)
          /\ tangled' = TRUE
          /\ UNCHANGED <<stateCalls, listCalls>>
    /\ UNCHANGED <<server, control, keys, view>>

-----------------------------------------------------------------------------
(* The page.                                                               *)

\* loadActor, loadLootTypes: an asset has been loaded.
Load(a) ==
    /\ page = "loading" /\ a \in missing /\ missing' = missing \ {a}
    /\ UNCHANGED <<server, stateCalls, listCalls, posts, page, loaded, halted,
                   keys, view, tangled>>

\* The first frame that finds isReady makes the GameState, whose constructor
\* sends both requests.
Construct ==
    /\ page = "loading" /\ missing = {} /\ page' = "game"
    /\ stateCalls' = Put(stateCalls, ASKED) /\ listCalls' = Put(listCalls, ASKED)
    /\ UNCHANGED <<server, posts, missing, loaded, halted, keys, view, tangled>>

\* The objects of l that something still refers to.
Referenced(l) ==
    {bag[p][l] : p \in Players} \cup {lost[l], vanishing[l]} \cup {o[2] : o \in {e \in scene : e[1] = l}}
\* _createLoot: an object of its own for lost object l.
NewObject(l) == CHOOSE o \in 1 .. Cardinality(Referenced(l)) + 1 : o \notin Referenced(l)

Holds(s, p, l) == p \in s.players /\ s.where[l] = p
Lying(s, l) == s.where[l] = "lying"

\* _processLostObjects: what lies is drawn, and what no longer lies is returned.
LostAfter(s, l) ==
    IF ~Lying(s, l) THEN 0 ELSE IF lost[l] # 0 THEN lost[l] ELSE NewObject(l)
Abandoned(s, l) == IF Lying(s, l) THEN 0 ELSE lost[l]

\* A dog that the picture has already keeps its data, another starts anew.
Carried(p, l) == IF p \in current THEN bag[p][l] ELSE 0
Takes(s, p, l) == Holds(s, p, l) /\ Carried(p, l) = 0

\* _attachLootToPlayers: what a dog newly has is taken from the ground, if it
\* was drawn there, and what it no longer has leaves its bag.
BagAfter(s, p, l) ==
    IF ~Holds(s, p, l) THEN 0
    ELSE IF Carried(p, l) # 0 THEN Carried(p, l)
    ELSE IF Abandoned(s, l) # 0 THEN Abandoned(s, l) ELSE NewObject(l)

\* Mutant: what a dog takes is not deleted from abandonedLoot.
DroppedThoughTaken(s, l) ==
    ({Carried(p, l) : p \in {q \in s.players : ~Holds(s, q, l)}} \cup {Abandoned(s, l)}) \ {0}
\* _dropLoot: the objects of l that fade from now on, one at most.
Dropped(s, l) ==
    ({Carried(p, l) : p \in {q \in s.players : ~Holds(s, q, l)}} \cup
     IF \E p \in s.players : Takes(s, p, l) THEN {} ELSE {Abandoned(s, l)}) \ {0}

\* _applyDesiredState with state s, while ps are in the list of players.  The
\* list and the picture share the data of a dog; when the dog leaves one of
\* them the other still refers to it.
Apply(s, ps, late) ==
    /\ current' = s.players
    /\ lost' = [l \in Loot |-> LostAfter(s, l)]
    /\ bag' = [p \in Players |->
                 IF p \in s.players THEN [l \in Loot |-> BagAfter(s, p, l)]
                 ELSE IF p \in ps THEN bag[p] ELSE Nothing]
    /\ vanishing' = [l \in Loot |->
                       IF Dropped(s, l) = {} THEN vanishing[l] ELSE CHOOSE o \in Dropped(s, l) : TRUE]
    /\ scene' = scene \cup {<<l, NewObject(l)>> : l \in {k \in Loot :
                    \/ Lying(s, k) /\ lost[k] = 0
                    \/ lost[k] = 0 /\ \E p \in s.players : Takes(s, p, k)}}
    /\ slipped' = (slipped \/ late \/ \E p \in current \ (s.players \cup ps), l \in Loot :
                                            <<l, bag[p][l]>> \in scene)

\* Mutant: the game starts with the list of players alone.
StartGameUnloaded(flags, s, ps) ==
    IF "players" \in flags
    THEN /\ loaded' = flags \cup {"started"}
         /\ IF "state" \in flags THEN Apply(s, ps, FALSE)
            ELSE UNCHANGED <<current, objects, slipped>>
    ELSE loaded' = flags /\ UNCHANGED <<current, objects, slipped>>
\* _startGame, called by both of the constructor's requests.
StartGame(flags, s, ps) ==
    IF {"state", "players"} \subseteq flags
    THEN loaded' = flags \cup {"started"} /\ Apply(s, ps, FALSE)
    ELSE loaded' = flags /\ UNCHANGED <<current, objects, slipped>>

Overtaken(s) == desired # NIL /\ s.no < desired.no

\* The answer to _updateState becomes desiredState, and is applied; the first
\* answer only starts the game.
StateArrives == \E s \in BagToSet(stateCalls) \ {ASKED, REFUSED} :
    /\ page = "game"
    /\ stateCalls' = Without(stateCalls, s)
    /\ desired' = s
    /\ IF "started" \in loaded
       THEN Apply(s, listed, Overtaken(s)) /\ UNCHANGED loaded
       ELSE StartGame(loaded \cup {"state"}, s, listed)
    /\ UNCHANGED <<server, listCalls, posts, page, missing, halted, keys, listed,
                   lastList, tangled>>

StateRefused ==
    /\ BagIn(REFUSED, stateCalls) /\ stateCalls' = Without(stateCalls, REFUSED)
    /\ UNCHANGED <<server, listCalls, posts, control, keys, view, tangled>>

\* Mutant: players are added and never deleted.
UpdatePlayersListAddsOnly(ps) ==
    listed' = listed \cup ps /\ UNCHANGED <<bag, scene>>
\* Mutant: _deletePlayer leaves the bag of the dog in the scene.
UpdatePlayersListKeepsBags(ps) ==
    /\ listed' = ps
    /\ bag' = [p \in Players |-> IF p \in listed \ (ps \cup current) THEN Nothing ELSE bag[p]]
    /\ UNCHANGED scene
\* _updatePlayersList: _addPlayer takes the data of the picture, _deletePlayer
\* removes the objects of the bag from the scene.
UpdatePlayersList(ps) ==
    /\ listed' = ps
    /\ bag' = [p \in Players |-> IF p \in listed \ (ps \cup current) THEN Nothing ELSE bag[p]]
    /\ scene' = scene \ {<<l, bag[p][l]>> : l \in Loot, p \in listed \ ps}

ListArrives == \E ans \in BagToSet(listCalls) \ {ASKED, REFUSED} :
    /\ page = "game"
    /\ listCalls' = Without(listCalls, ans)
    /\ IF "started" \in loaded
       THEN /\ UpdatePlayersList(ans.players)
            /\ slipped' = (slipped \/ ans.no < lastList)
            /\ UNCHANGED <<loaded, current, lost, vanishing>>
       ELSE listed' = ans.players /\ StartGame(loaded \cup {"players"}, desired, ans.players)
    /\ lastList' = ans.no
    /\ UNCHANGED <<server, stateCalls, posts, page, missing, halted, keys, desired,
                   tangled>>

\* The fail handler of _syncPlayers: goToRecords replaces the page, and nothing
\* of this one remains.
ListRefused ==
    /\ page = "game" /\ BagIn(REFUSED, listCalls)
    /\ page' = "records" /\ loaded' = {}
    /\ stateCalls' = EmptyBag /\ listCalls' = EmptyBag
    /\ desired' = NIL /\ current' = {} /\ listed' = {} /\ lastList' = 0
    /\ bag' = [p \in Players |-> Nothing] /\ slipped' = FALSE
    /\ lost' = Nothing /\ vanishing' = Nothing /\ scene' = {}
    /\ UNCHANGED <<server, posts, keys, missing, halted, tangled>>

\* _interpolateState moves each dog of the answer where the picture has it.
Throws == "state" \notin loaded \/ ~(desired.players \subseteq current)

\* A frame.  Every fifth polls the state, as does the next one when a command is
\* done; every fiftieth asks for the players.  Objects that have faded for long
\* enough go.  If the frame throws, no further one is asked for.
Tick(poll, sync) ==
    /\ page = "game" /\ "started" \in loaded /\ ~halted
    /\ poll => HasRoom(stateCalls)
    /\ sync => HasRoom(listCalls)
    /\ stateCalls' = IF poll THEN Put(stateCalls, ASKED) ELSE stateCalls
    /\ listCalls' = IF sync THEN Put(listCalls, ASKED) ELSE listCalls
    /\ halted' = Throws
    /\ \E faded \in SUBSET {l \in Loot : vanishing[l] # 0 /\ ~Throws} :
          /\ vanishing' = [l \in Loot |-> IF l \in faded THEN 0 ELSE vanishing[l]]
          /\ scene' = scene \ {<<l, vanishing[l]>> : l \in faded}
    /\ UNCHANGED <<server, posts, page, missing, loaded, keys, desired, current, listed, bag,
                   lost, lastList, slipped, tangled>>

LastKey(ks) == IF ks = <<>> THEN STOP ELSE Last(ks)

\* _pressKey posts the last of the pressed keys.
PressKey(k) ==
    /\ page = "game" /\ BagCardinality(posts) < MaxAlike /\ MayHappen /\ version <= MaxMixed /\ presses' = presses + 1
    /\ posts' = Put(posts, k)
    /\ tangled' = (posts # EmptyBag)
    /\ UNCHANGED <<server, stateCalls, listCalls, control, view>>

\* Mutant: a key that repeats itself is pushed again.
KeyDownAgain(k) ==
    /\ Len(pressed) < 3 /\ pressed' = Append(pressed, k) /\ PressKey(LastKey(pressed'))
KeyDown(k) ==
    /\ k \notin ToSet(pressed)
    /\ pressed' = Append(pressed, k) /\ PressKey(LastKey(pressed'))
\* Mutant: releasing any key stops the dog.
KeyUpStops(k) == \E i \in 1 .. Len(pressed) :
    pressed[i] = k /\ pressed' = RemoveAt(pressed, i) /\ PressKey(STOP)
KeyUp(k) == \E i \in 1 .. Len(pressed) :
    pressed[i] = k /\ pressed' = RemoveAt(pressed, i) /\ PressKey(LastKey(pressed'))

Next ==
    \/ GameChanges \/ ServeState \/ ServeList \/ ServePost \/ RequestFails
    \/ \E a \in Assets : Load(a)
    \/ Construct \/ StateArrives \/ StateRefused \/ ListArrives \/ ListRefused
    \/ \E poll, sync \in BOOLEAN : Tick(poll, sync)
    \/ \E k \in Keys : KeyDown(k) \/ KeyUp(k)

Running == page = "game" /\ "started" \in loaded /\ ~halted
Poll == Running /\ HasRoom(stateCalls) /\ stateCalls' = Put(stateCalls, ASKED)
Sync == Running /\ HasRoom(listCalls) /\ listCalls' = Put(listCalls, ASKED)
StateReady == page = "game" /\ BagToSet(stateCalls) \ {ASKED, REFUSED} # {}
ListReady == page = "game" /\ BagToSet(listCalls) \ {ASKED} # {}

\* Models load in the end, frames go on, so that there are polls and syncs
\* wherever there is room, and the server answers.  Answers may be lost, but not
\* every one for ever: the last two conjuncts are strong fairness.
Fairness ==
    /\ WF_<<page, missing>>(Construct \/ \E a \in Assets : Load(a))
    /\ WF_stateCalls(Poll \/ ServeState \/ StateRefused)
    /\ WF_listCalls(Sync \/ ServeList)
    /\ <>[]~StateReady \/ []<><<StateArrives>>_stateCalls
    /\ <>[]~ListReady \/ []<><<ListArrives \/ ListRefused>>_listCalls

Spec == Init /\ [][Next]_clientvars /\ Fairness

-----------------------------------------------------------------------------

Objects == [Loot -> Nat]

TypeOK ==
    /\ fate \in [Players -> Fates]
    /\ where \in [Loot -> Places]
    /\ heading \in Keys \cup {STOP} /\ version \in 0 .. MaxEvents /\ presses \in 0 .. MaxEvents
    /\ IsABag(stateCalls) /\ IsABag(listCalls) /\ BagToSet(posts) \subseteq Keys \cup {STOP}
    /\ page \in {"loading", "game", "records"} /\ missing \subseteq Assets
    /\ loaded \subseteq {"state", "players", "started"}
    /\ {halted, slipped, tangled} \subseteq BOOLEAN
    /\ pressed \in Seq(Keys) /\ IsInjective(pressed)
    /\ desired # NIL => desired.no \in 0 .. version /\ me \in desired.players
    /\ current \subseteq Players /\ listed \subseteq Players
    /\ bag \in [Players -> Objects] /\ lost \in Objects /\ vanishing \in Objects
    /\ scene \subseteq Loot \X Nat /\ lastList \in 0 .. MaxEvents

\* Every dog of the answer that the page animates is in its picture, in whatever
\* order the two first answers come and whichever answer was last: no frame
\* throws, and the animation never stops.
NeverHalts == ~halted

\* An object of the scene is drawn in one place: on the ground, behind one dog
\* or fading away, although it is handed from one to the next.
OneOwner ==
    \A l \in Loot :
        /\ \A p, q \in Players : p # q /\ bag[p][l] # 0 => bag[p][l] # bag[q][l]
        /\ \A o \in {lost[l], vanishing[l]} \ {0}, p \in Players : bag[p][l] # o
        /\ lost[l] # 0 => lost[l] # vanishing[l]

Owned(l) == ({bag[p][l] : p \in Players} \cup {lost[l], vanishing[l]}) \ {0}

\* Unless an answer overtook a newer one, or a dog came and went between two
\* lists, everything a listed dog carries is drawn, and everything drawn is still
\* referred to by what will remove it: pages left open do not fill with objects.
SceneIsKept ==
    ~slipped =>
        /\ \A o \in scene : o[2] \in Owned(o[1])
        /\ \A l \in Loot : \A o \in ({bag[p][l] : p \in listed} \cup {lost[l]}) \ {0} :
                <<l, o>> \in scene

\* From the first command of this page on: with no command under way, and none
\* of the last ones lost or overtaken, the dog goes where the key that was pressed
\* last, and still is, points to.  Until then a page opened again lets it run.
FollowsKeys ==
    presses > 0 /\ posts = EmptyBag /\ ~tangled /\ me \in Playing =>
        heading = LastKey(pressed)

\* The object that should be drawn of l, and those that are, but for one that fades.
Shown(l) ==
    IF where[l] = "lying" THEN {lost[l]}
    ELSE IF where[l] \in Players THEN {bag[where[l]][l]} ELSE {}
InScene(l) == {o[2] : o \in {e \in scene : e[1] = l}} \ {vanishing[l]}

\* The page knows the game as it is, and has drawn what it knows.
Synced ==
    /\ current = Playing /\ listed = Playing
    /\ \A l \in Loot :
        /\ (lost[l] # 0) = (where[l] = "lying")
        /\ \A p \in Players : (bag[p][l] # 0) = (where[l] = p)
        /\ ~slipped => InScene(l) = Shown(l)

\* One of the two first requests has failed: nothing repeats it.
NeverStarts ==
    /\ page = "game"
    /\ \/ "state" \notin loaded /\ stateCalls = EmptyBag
       \/ "players" \notin loaded /\ listCalls = EmptyBag

\* Whatever got lost, late or out of order on the way, once the game has come to
\* rest the page knows it as it is, or has left for the records of a player who
\* is gone; only a page whose first requests failed never starts.  What it draws is
\* what it knows, unless an answer overtook a newer one or a dog came and went
\* between two lists: what such a list took off the scene is not drawn again.
EndsInSync == <>[](page = "records" \/ NeverStarts \/ ("started" \in loaded /\ Synced))

=============================================================================
