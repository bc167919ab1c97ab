----------------------------- MODULE ClientProofs -----------------------------
(***************************************************************************)
(* What the page of a player guarantees for any number of players, lost    *)
(* objects, keys and requests on the way, and how dogs and loot move in it *)
(* (Motion).                                                               *)
(***************************************************************************)
EXTENDS Client, Motion, FiniteSetTheorems, TLAPS

\* What a frame relies on: once the game has started, an answer has been applied
\* and the picture has the dogs of the last one, no matter which answer that was.
PictureInv ==
    /\ ~halted
    /\ "started" \in loaded => "state" \in loaded /\ current = desired.players

\* An answer that starts the game is applied in the same step.
LEMMA StartApplies ==
    ASSUME NEW flags, NEW s, NEW ps, StartGame(flags, s, ps),
           "started" \notin flags
    PROVE  "started" \in loaded' => "state" \in loaded' /\ current' = s.players
<1>1. CASE {"state", "players"} \subseteq flags
    BY <1>1 DEF StartGame, Apply
<1>2. CASE ~({"state", "players"} \subseteq flags)
    BY <1>2 DEF StartGame
<1> QED
    BY <1>1, <1>2

LEMMA PictureInvariant == Spec => []PictureInv
<1>1. Init => PictureInv
    BY DEF Init, PictureInv
<1>2. PictureInv /\ [Next]_clientvars => PictureInv'
    <2> SUFFICES ASSUME PictureInv, [Next]_clientvars PROVE PictureInv'
        OBVIOUS
    <2>1. CASE StateArrives
        <3>1. PICK s \in BagToSet(stateCalls) \ {ASKED, REFUSED} :
                /\ desired' = s
                /\ IF "started" \in loaded
                   THEN Apply(s, listed, Overtaken(s)) /\ UNCHANGED loaded
                   ELSE StartGame(loaded \cup {"state"}, s, listed)
                /\ halted' = halted
            BY <2>1 DEF StateArrives
        <3>2. CASE "started" \in loaded
            BY <3>1, <3>2 DEF PictureInv, Apply
        <3>3. CASE "started" \notin loaded
            <4>1. "started" \in loaded' => "state" \in loaded' /\ current' = s.players
                BY <3>1, <3>3, StartApplies
            <4> QED
                BY <3>1, <4>1 DEF PictureInv
        <3> QED
            BY <3>2, <3>3
    <2>2. CASE ListArrives
        <3>1. PICK ans \in BagToSet(listCalls) \ {ASKED, REFUSED} :
                /\ IF "started" \in loaded
                   THEN UNCHANGED <<loaded, current>>
                   ELSE StartGame(loaded \cup {"players"}, desired, ans.players)
                /\ desired' = desired /\ halted' = halted
            BY <2>2 DEF ListArrives
        <3>2. CASE "started" \in loaded
            BY <3>1, <3>2 DEF PictureInv
        <3>3. CASE "started" \notin loaded
            <4>1. "started" \in loaded' => "state" \in loaded' /\ current' = desired.players
                BY <3>1, <3>3, StartApplies
            <4> QED
                BY <3>1, <4>1 DEF PictureInv
        <3> QED
            BY <3>2, <3>3
    <2>3. CASE \E poll, sync \in BOOLEAN : Tick(poll, sync)
        BY <2>3 DEF Tick, Throws, PictureInv
    <2>4. CASE ListRefused
        BY <2>4 DEF ListRefused, PictureInv
    <2>5. CASE \/ GameChanges \/ ServeState \/ ServeList \/ ServePost \/ RequestFails
               \/ \E a \in Assets : Load(a)
               \/ Construct \/ StateRefused
               \/ UNCHANGED clientvars
        BY <2>5 DEF GameChanges, ServeState, ServeList, Serve, ServePost, RequestFails, Load,
                    Construct, StateRefused, clientvars, control, view, PictureInv
    <2>6. CASE \E k \in Keys : KeyDown(k) \/ KeyUp(k)
        BY <2>6 DEF KeyDown, KeyUp, PressKey, control, view, PictureInv
    <2> QED
        BY <2>1, <2>2, <2>3, <2>4, <2>5, <2>6 DEF Next
<1> QED
    BY <1>1, <1>2, PTL DEF Spec

\* Whatever is late, lost or overtaken on the network, no frame of the page
\* throws, so the animation goes on as long as the page is open.
THEOREM NoFrameThrows == Spec => []NeverHalts
<1>1. PictureInv => NeverHalts
    BY DEF PictureInv, NeverHalts
<1> QED
    BY <1>1, PictureInvariant, PTL

LEMMA OneInABag ==
    ASSUME NEW c
    PROVE  /\ Put(EmptyBag, c) = SetToBag({c})
           /\ Without(SetToBag({c}), c) = EmptyBag
           /\ BagToSet(SetToBag({c})) = {c}
           /\ SetToBag({c}) # EmptyBag
<1> DEFINE one == [e \in {c} |-> 1]
           none == [e \in {} |-> 1]
<1>1. SetToBag({c}) = one /\ EmptyBag = none
    BY DEF SetToBag, EmptyBag
<1>2. DOMAIN one = {c} /\ DOMAIN none = {} /\ one[c] = 1
    OBVIOUS
<1>3. Put(none, c) = one
    <2>1. {} \cup {c} = {c}
        OBVIOUS
    <2>2. Put(none, c) = [e \in {c} |-> (IF e \in {} THEN none[e] ELSE 0) + (IF e \in {c} THEN one[e] ELSE 0)]
        BY <1>1, <1>2, <2>1 DEF Put, (+)
    <2> QED
        BY <1>2, <2>2
<1>4. Without(one, c) = none
    <2> DEFINE rest == [e \in {c} |-> IF e \in {c} THEN one[e] - one[e] ELSE one[e]]
    <2>1. Without(one, c) = [e \in {d \in DOMAIN rest : rest[d] > 0} |-> rest[e]]
        BY <1>1, <1>2 DEF Without, (-)
    <2>2. {d \in DOMAIN rest : rest[d] > 0} = {}
        BY <1>2
    <2> QED
        BY <2>1, <2>2
<1> QED
    BY <1>1, <1>2, <1>3, <1>4 DEF BagToSet

\* From the first command of this page on, while I play, and as long as no command
\* was lost or overtaken, either nothing is under way and my dog follows the last
\* key, or one command is, to do so.
CommandInv ==
    /\ fate \in [Players -> {"new", "in", "gone"}] /\ fate[me] # "new"
    /\ presses > 0 /\ me \in Playing /\ ~tangled =>
            \/ posts = EmptyBag /\ heading = LastKey(pressed)
            \/ posts = SetToBag({LastKey(pressed)})

LEMMA PressKeyKeepsOrder ==
    ASSUME NEW k, PressKey(k), k = LastKey(pressed'), CommandInv
    PROVE  CommandInv'
<1>1. UNCHANGED <<fate, heading>>
    BY DEF PressKey, server
<1>2. CASE posts = EmptyBag
    BY <1>1, <1>2, OneInABag DEF PressKey, CommandInv, Playing
<1>3. CASE posts # EmptyBag
    BY <1>1, <1>3 DEF PressKey, CommandInv, Playing
<1> QED
    BY <1>2, <1>3

LEMMA CommandInvariant == Spec => []CommandInv
<1>1. Init => CommandInv
    BY ClientAssumption DEF Init, CommandInv, LastKey, Playing
<1>2. CommandInv /\ [Next]_clientvars => CommandInv'
    <2> SUFFICES ASSUME CommandInv, [Next]_clientvars PROVE CommandInv'
        OBVIOUS
    <2> USE ClientAssumption
    <2>1. CASE GameChanges
        <3>1. UNCHANGED <<heading, posts, tangled, pressed, presses>>
            BY <2>1 DEF GameChanges, keys
        <3>2. fate' \in [Players -> {"new", "in", "gone"}] /\ fate'[me] # "new"
              /\ (fate'[me] = "in" => fate[me] = "in")
            BY <2>1 DEF GameChanges, CommandInv
        <3> QED
            BY <3>1, <3>2 DEF CommandInv, Playing
    <2>2. CASE ServePost
        <3>1. PICK k \in BagToSet(posts) :
                /\ posts' = Without(posts, k) /\ heading' = k
                /\ UNCHANGED <<fate, pressed, presses, tangled>>
            BY <2>2 DEF ServePost, keys
        <3>2. CASE posts = EmptyBag
            BY <3>1, <3>2 DEF BagToSet, EmptyBag, SetToBag
        <3>3. CASE posts = SetToBag({LastKey(pressed)})
            BY <3>1, <3>3, OneInABag DEF CommandInv, Playing
        <3> QED
            BY <2>2, <3>1, <3>2, <3>3 DEF ServePost, CommandInv, Playing
    <2>3. CASE RequestFails
        BY <2>3 DEF RequestFails, server, keys, CommandInv, Playing
    <2>4. CASE \E k \in Keys : KeyDown(k) \/ KeyUp(k)
        BY <2>4, PressKeyKeepsOrder DEF KeyDown, KeyUp
    <2>5. CASE \/ ServeState \/ ServeList
               \/ \E a \in Assets : Load(a)
               \/ Construct \/ StateArrives \/ StateRefused \/ ListArrives \/ ListRefused
               \/ \E poll, sync \in BOOLEAN : Tick(poll, sync)
               \/ UNCHANGED clientvars
        <3>1. UNCHANGED <<fate, heading, posts, tangled, pressed, presses>>
            BY <2>5 DEF ServeState, ServeList, Serve, Load, Construct, StateArrives, StateRefused,
                        ListArrives, ListRefused, Tick, clientvars, server, keys
        <3> QED
            BY <3>1 DEF CommandInv, Playing
    <2> QED
        BY <2>1, <2>2, <2>3, <2>4, <2>5 DEF Next
<1> QED
    BY <1>1, <1>2, PTL DEF Spec

\* A dog whose last commands all arrived, in order, goes where the key that was
\* pressed last, and still is, points to, for any keys in any order and whatever
\* the dog was doing when the page was opened.
THEOREM DogFollowsKeys == Spec => []FollowsKeys
<1>1. CommandInv => FollowsKeys
    <2> SUFFICES ASSUME CommandInv, presses > 0, posts = EmptyBag, ~tangled, me \in Playing
                 PROVE  heading = LastKey(pressed)
        BY DEF FollowsKeys
    <2> QED
        BY OneInABag DEF CommandInv
<1> QED
    BY <1>1, CommandInvariant, PTL

-----------------------------------------------------------------------------
(* The objects of the scene.                                               *)

\* An object has one owner, and the scene stays finite, so that there is always a new
\* object to make.
OwnerInv == OneOwner /\ IsFiniteSet(scene)

\* The answers on their way, and the last one that came, name players of this session.
AnswersInv ==
    /\ \A s \in BagToSet(stateCalls) \ {ASKED, REFUSED} : s.players \subseteq Players
    /\ "state" \in loaded => desired.players \subseteq Players

LEMMA ImageFinite ==
    ASSUME NEW S, IsFiniteSet(S), NEW f, f = [x \in S |-> f[x]]
    PROVE  IsFiniteSet({f[x] : x \in S})
<1> DEFINE T == {f[x] : x \in S}
<1>1. f \in Surjection(S, T)
    BY DEF Surjection
<1> QED
    BY <1>1, FS_Surjection

\* What _createLoot makes is nobody's yet.
LEMMA NewObjectFacts ==
    ASSUME IsFiniteSet(scene), NEW l \in Loot
    PROVE  NewObject(l) \in Nat \ {0} /\ NewObject(l) \notin Referenced(l)
<1> DEFINE bags == [p \in Players |-> bag[p][l]]
           drawn == [o \in {e \in scene : e[1] = l} |-> o[2]]
           A == {bags[p] : p \in Players}
           B == {drawn[o] : o \in {e \in scene : e[1] = l}}
           R == A \cup {lost[l], vanishing[l]} \cup B
           n == Cardinality(R)
<1>1. Referenced(l) = R
    <2>1. A = {bag[p][l] : p \in Players} /\ B = {o[2] : o \in {e \in scene : e[1] = l}}
        OBVIOUS
    <2> QED
        BY <2>1 DEF Referenced
<1>2. IsFiniteSet(A)
    <2>1. bags = [p \in Players |-> bags[p]] /\ IsFiniteSet(Players)
        BY ClientAssumption
    <2> HIDE DEF bags
    <2> QED
        BY <2>1, ImageFinite
<1>3. IsFiniteSet(B)
    <2> DEFINE ofl == {e \in scene : e[1] = l}
    <2>1. IsFiniteSet(ofl) /\ drawn = [o \in ofl |-> drawn[o]]
        BY FS_Subset
    <2> HIDE DEF drawn
    <2> QED
        BY <2>1, ImageFinite
<1>4. IsFiniteSet({lost[l], vanishing[l]})
    <2>1. {lost[l], vanishing[l]} = {lost[l]} \cup {vanishing[l]}
        OBVIOUS
    <2>2. IsFiniteSet({lost[l]}) /\ IsFiniteSet({vanishing[l]})
        BY FS_Singleton
    <2> QED
        BY <2>1, <2>2, FS_Union
<1> HIDE DEF A, B
<1>5. IsFiniteSet(R) /\ n \in Nat
    BY <1>2, <1>3, <1>4, FS_Union, FS_CardinalityType
<1> HIDE DEF R
<1>6. IsFiniteSet(1 .. n + 1) /\ Cardinality(1 .. n + 1) = n + 1
    BY <1>5, FS_Interval
<1>7. ~(1 .. n + 1 \subseteq R)
    BY <1>5, <1>6, FS_Subset
<1>8. \E o \in 1 .. n + 1 : o \notin R
    BY <1>7
<1>9. NewObject(l) \in 1 .. n + 1 /\ NewObject(l) \notin R
    BY <1>1, <1>8 DEF NewObject
<1> QED
    BY <1>1, <1>5, <1>9

\* What an answer does to the objects of l: the ground and one dog at most get a new one,
\* the dog may get what lay there, and what fades was somebody's before.
LEMMA ApplyFacts ==
    ASSUME NEW s, NEW ps, NEW late, Apply(s, ps, late), NEW l \in Loot
    PROVE  /\ \A p, q \in Players : Holds(s, p, l) => ~Lying(s, l) /\ (Holds(s, q, l) => p = q)
           /\ lost'[l] \in IF Lying(s, l) THEN {lost[l], NewObject(l)} ELSE {0}
           /\ Lying(s, l) /\ lost'[l] = NewObject(l) /\ lost[l] # 0 => lost'[l] = lost[l]
           /\ \A p \in Players :
                \/ bag'[p][l] \in {0, bag[p][l]}
                \/ Holds(s, p, l) /\ bag'[p][l] = NewObject(l)
                \/ Takes(s, p, l) /\ bag'[p][l] = lost[l]
           /\ vanishing'[l] \in {vanishing[l]} \cup Dropped(s, l)
           /\ \A p \in Players : p \in s.players /\ ~Holds(s, p, l) => bag'[p][l] = 0
<1>1. \A p, q \in Players : Holds(s, p, l) => ~Lying(s, l) /\ (Holds(s, q, l) => p = q)
    BY ClientAssumption DEF Holds, Lying
<1>2. lost'[l] = LostAfter(s, l)
    BY DEF Apply
<1>3. \A p \in Players :
        bag'[p][l] = IF p \in s.players THEN BagAfter(s, p, l)
                     ELSE IF p \in ps THEN bag[p][l] ELSE 0
    BY DEF Apply, Nothing
<1>4. vanishing'[l] \in {vanishing[l]} \cup Dropped(s, l)
    BY DEF Apply
<1>5. ASSUME NEW p \in Players
      PROVE  \/ bag'[p][l] \in {0, bag[p][l]}
             \/ Holds(s, p, l) /\ bag'[p][l] = NewObject(l)
             \/ Takes(s, p, l) /\ bag'[p][l] = lost[l]
    BY <1>1, <1>3 DEF BagAfter, Abandoned, Takes, Carried
<1> QED
    BY <1>1, <1>2, <1>3, <1>4, <1>5 DEF LostAfter, BagAfter

LEMMA ApplyOwner ==
    ASSUME OwnerInv, NEW s, s.players \subseteq Players, NEW ps, NEW late, Apply(s, ps, late)
    PROVE  OwnerInv'
<1>1. IsFiniteSet(scene')
    <2>1. PICK S \in SUBSET Loot : scene' = scene \cup {<<l, NewObject(l)>> : l \in S}
        BY DEF Apply
    <2> DEFINE f == [l \in S |-> <<l, NewObject(l)>>]
    <2>2. {<<l, NewObject(l)>> : l \in S} = {f[l] : l \in S}
        OBVIOUS
    <2>3. IsFiniteSet(S) /\ f = [l \in S |-> f[l]]
        BY ClientAssumption, FS_Subset
    <2> HIDE DEF f
    <2>4. IsFiniteSet({f[l] : l \in S})
        BY <2>3, ImageFinite
    <2> QED
        BY <2>1, <2>2, <2>4, FS_Union DEF OwnerInv
<1>2. ASSUME NEW l \in Loot
      PROVE  /\ \A p, q \in Players : p # q /\ bag'[p][l] # 0 => bag'[p][l] # bag'[q][l]
             /\ \A o \in {lost'[l], vanishing'[l]} \ {0}, p \in Players : bag'[p][l] # o
             /\ lost'[l] # 0 => lost'[l] # vanishing'[l]
    <2> DEFINE new == NewObject(l)
    <2>1. /\ new # 0 /\ new # lost[l] /\ new # vanishing[l]
          /\ \A p \in Players : new # bag[p][l]
        BY NewObjectFacts DEF OwnerInv, Referenced
    <2>2. /\ \A p, q \in Players : Holds(s, p, l) => ~Lying(s, l) /\ (Holds(s, q, l) => p = q)
          /\ lost'[l] \in IF Lying(s, l) THEN {lost[l], new} ELSE {0}
          /\ \A p \in Players :
                \/ bag'[p][l] \in {0, bag[p][l]}
                \/ Holds(s, p, l) /\ bag'[p][l] = new
                \/ Takes(s, p, l) /\ bag'[p][l] = lost[l]
          /\ vanishing'[l] \in {vanishing[l]} \cup Dropped(s, l)
          /\ \A p \in Players : p \in s.players /\ ~Holds(s, p, l) => bag'[p][l] = 0
        BY ApplyFacts
    <2>3. /\ \A p, q \in Players : p # q /\ bag[p][l] # 0 => bag[p][l] # bag[q][l]
          /\ \A p \in Players : lost[l] # 0 => bag[p][l] # lost[l]
          /\ \A p \in Players : vanishing[l] # 0 => bag[p][l] # vanishing[l]
          /\ lost[l] # 0 => lost[l] # vanishing[l]
        BY DEF OwnerInv, OneOwner
    <2>4. \A p \in Players : Takes(s, p, l) => Holds(s, p, l)
        BY DEF Takes
    <2>5. ASSUME NEW v \in Dropped(s, l)
          PROVE  /\ v # 0 /\ v # lost'[l] /\ \A p \in Players : bag'[p][l] # v
        <3>1. CASE \E q \in s.players : ~Holds(s, q, l) /\ v = Carried(q, l)
            <4>1. PICK q \in s.players : ~Holds(s, q, l) /\ v = Carried(q, l)
                BY <3>1
            <4>2. q \in Players /\ v = bag[q][l] /\ v # 0 /\ bag'[q][l] = 0
                BY <2>2, <4>1 DEF Dropped, Carried
            <4> QED
                BY <2>1, <2>2, <2>3, <4>2
        <3>2. CASE v = Abandoned(s, l) /\ ~ \E p \in s.players : Takes(s, p, l)
            <4>1. v = lost[l] /\ v # 0 /\ ~Lying(s, l)
                BY <3>2 DEF Dropped, Abandoned
            <4>2. \A p \in Players : ~Takes(s, p, l)
                BY <3>2 DEF Takes, Holds
            <4> QED
                BY <2>1, <2>2, <2>3, <4>1, <4>2
        <3> QED
            BY <3>1, <3>2 DEF Dropped
    <2> QED
        BY <2>1, <2>2, <2>3, <2>4, <2>5
<1> QED
    BY <1>1, <1>2 DEF OwnerInv, OneOwner

LEMMA CallsFacts ==
    ASSUME NEW calls, NEW c
    PROVE  /\ BagToSet(Put(calls, c)) = BagToSet(calls) \cup {c}
           /\ BagToSet(Without(calls, c)) \subseteq BagToSet(calls)
           /\ BagToSet(EmptyBag) = {}
<1>1. BagToSet(Put(calls, c)) = BagToSet(calls) \cup {c}
    BY DEF BagToSet, Put, (+), SetToBag
<1>2. BagToSet(Without(calls, c)) \subseteq BagToSet(calls)
    BY DEF BagToSet, Without, (-)
<1>3. BagToSet(EmptyBag) = {}
    BY DEF BagToSet, EmptyBag, SetToBag
<1> QED
    BY <1>1, <1>2, <1>3

LEMMA AnswersNext == AnswersInv /\ [Next]_clientvars => AnswersInv'
<1> SUFFICES ASSUME AnswersInv, [Next]_clientvars PROVE AnswersInv'
    OBVIOUS
<1> USE DEF AnswersInv
<1>1. CASE ServeState
    <2>1. Snapshot.players \subseteq Players
        BY DEF Snapshot, Playing
    <2>2. UNCHANGED <<loaded, desired>>
        BY <1>1 DEF ServeState, Serve, control, view
    <2>3. \E a \in {Snapshot, REFUSED} : stateCalls' = Put(Without(stateCalls, ASKED), a)
        BY <1>1 DEF ServeState, Serve
    <2> QED
        BY <2>1, <2>2, <2>3, CallsFacts
<1>2. CASE StateArrives
    <2>1. PICK s \in BagToSet(stateCalls) \ {ASKED, REFUSED} :
            stateCalls' = Without(stateCalls, s) /\ desired' = s
        BY <1>2 DEF StateArrives
    <2> QED
        BY <2>1, CallsFacts
<1>3. CASE ListArrives
    <2>1. UNCHANGED <<stateCalls, desired>> /\ loaded' \subseteq loaded \cup {"players", "started"}
        BY <1>3 DEF ListArrives, StartGame
    <2> QED
        BY <2>1
<1>4. CASE ListRefused
    BY <1>4, CallsFacts DEF ListRefused
<1>5. CASE \/ Construct \/ StateRefused \/ RequestFails
           \/ \E poll, sync \in BOOLEAN : Tick(poll, sync)
    <2>1. UNCHANGED <<loaded, desired>>
        BY <1>5 DEF Construct, StateRefused, RequestFails, Tick, control, view
    <2>2. \/ UNCHANGED stateCalls
          \/ stateCalls' = Put(stateCalls, ASKED)
          \/ \E s : stateCalls' = Without(stateCalls, s)
        BY <1>5 DEF Construct, StateRefused, RequestFails, Tick
    <2> QED
        BY <2>1, <2>2, CallsFacts
<1>6. CASE \/ GameChanges \/ ServeList \/ ServePost
           \/ \E a \in Assets : Load(a)
           \/ \E k \in Keys : KeyDown(k) \/ KeyUp(k)
           \/ UNCHANGED clientvars
    BY <1>6 DEF GameChanges, ServeList, Serve, ServePost, Load, KeyDown, KeyUp, PressKey, control,
       view, clientvars
<1> QED
    BY <1>1, <1>2, <1>3, <1>4, <1>5, <1>6 DEF Next

LEMMA OwnerNext == OwnerInv /\ AnswersInv /\ [Next]_clientvars => OwnerInv'
<1> SUFFICES ASSUME OwnerInv, AnswersInv, [Next]_clientvars PROVE OwnerInv'
    OBVIOUS
<1>1. ASSUME UNCHANGED objects PROVE OwnerInv'
    BY <1>1 DEF objects, OwnerInv, OneOwner
<1>2. ASSUME NEW flags, NEW s, NEW ps, StartGame(flags, s, ps),
             "state" \in flags => s.players \subseteq Players
      PROVE  OwnerInv'
    BY <1>1, <1>2, ApplyOwner DEF StartGame
<1>3. CASE StateArrives
    <2>1. PICK s \in BagToSet(stateCalls) \ {ASKED, REFUSED} :
            \/ Apply(s, listed, Overtaken(s))
            \/ StartGame(loaded \cup {"state"}, s, listed)
        BY <1>3 DEF StateArrives
    <2>2. s.players \subseteq Players
        BY DEF AnswersInv
    <2> QED
        BY <2>1, <2>2, <1>2, ApplyOwner
<1>4. CASE ListArrives
    <2>1. PICK ps :
            \/ UpdatePlayersList(ps) /\ UNCHANGED <<lost, vanishing>>
            \/ StartGame(loaded \cup {"players"}, desired, ps)
        BY <1>4 DEF ListArrives
    <2>2. CASE UpdatePlayersList(ps) /\ UNCHANGED <<lost, vanishing>>
        <3>1. IsFiniteSet(scene')
            BY <2>2, FS_Subset DEF UpdatePlayersList, OwnerInv
        <3>2. \A p \in Players, l \in Loot : bag'[p][l] \in {0, bag[p][l]}
            BY <2>2 DEF UpdatePlayersList, Nothing
        <3>3. OneOwner'
            BY <2>2, <3>2 DEF OwnerInv, OneOwner
        <3> QED
            BY <3>1, <3>3 DEF OwnerInv
    <2>3. CASE StartGame(loaded \cup {"players"}, desired, ps)
        BY <1>2, <2>3 DEF AnswersInv
    <2> QED
        BY <2>1, <2>2, <2>3
<1>5. CASE ListRefused
    <2>1. /\ scene' = {}
          /\ \A l \in Loot : /\ lost'[l] = 0 /\ vanishing'[l] = 0
                             /\ \A p \in Players : bag'[p][l] = 0
        BY <1>5 DEF ListRefused, Nothing
    <2> QED
        BY <2>1, FS_EmptySet DEF OwnerInv, OneOwner
<1>6. CASE \E poll, sync \in BOOLEAN : Tick(poll, sync)
    <2>1. PICK faded \in SUBSET Loot :
            /\ vanishing' = [l \in Loot |-> IF l \in faded THEN 0 ELSE vanishing[l]]
            /\ scene' = scene \ {<<l, vanishing[l]>> : l \in faded}
            /\ UNCHANGED <<bag, lost>>
        BY <1>6 DEF Tick
    <2>2. IsFiniteSet(scene')
        BY <2>1, FS_Subset DEF OwnerInv
    <2>3. OneOwner'
        BY <2>1 DEF OwnerInv, OneOwner
    <2> QED
        BY <2>2, <2>3 DEF OwnerInv
<1>7. CASE \/ GameChanges \/ ServeState \/ ServeList \/ ServePost \/ RequestFails
           \/ \E a \in Assets : Load(a)
           \/ Construct \/ StateRefused
           \/ \E k \in Keys : KeyDown(k) \/ KeyUp(k)
           \/ UNCHANGED clientvars
    BY <1>1, <1>7 DEF GameChanges, ServeState, ServeList, Serve, ServePost, RequestFails, Load,
       Construct, StateRefused, KeyDown, KeyUp, PressKey, control, view, clientvars
<1> QED
    BY <1>3, <1>4, <1>5, <1>6, <1>7 DEF Next

LEMMA OwnerInvariant == Spec => [](OwnerInv /\ AnswersInv)
<1>1. Init => OwnerInv /\ AnswersInv
    <2> SUFFICES ASSUME Init PROVE OwnerInv /\ AnswersInv
        OBVIOUS
    <2>1. /\ scene = {} /\ loaded = {} /\ stateCalls = EmptyBag
          /\ \A l \in Loot : /\ lost[l] = 0 /\ vanishing[l] = 0
                             /\ \A p \in Players : bag[p][l] = 0
        BY DEF Init, Nothing
    <2> QED
        BY <2>1, FS_EmptySet, CallsFacts DEF OwnerInv, OneOwner, AnswersInv
<1> QED
    BY <1>1, OwnerNext, AnswersNext, PTL DEF Spec

\* However answers are late, lost or overtaken, an object of the scene is handed from one
\* owner to the next and never shared (_processLostObjects, _attachLootToPlayers and
\* _dropLoot).
THEOREM ObjectsHaveOneOwner == Spec => []OneOwner
<1>1. OwnerInv => OneOwner
    BY DEF OwnerInv
<1> QED
    BY <1>1, OwnerInvariant, PTL

-----------------------------------------------------------------------------
(* What the scene draws.  The invariant says that the server went through    *)
(* some history of which all answers are moments: nobody comes back, and an  *)
(* object goes from the ground to one player and is gone after him.          *)

\* f[k] and w[k]: the fates and the places the server had after k changes of the game.
PlayersAt(f, k) == {p \in Players : f[k][p] = "in"}

\* Nobody comes back, and an object goes from the ground to one player and is gone
\* after him.
Follows(f1, w1, f2, w2) ==
    /\ \A p \in Players : /\ f1[p] # "new" => f2[p] # "new"
                          /\ f1[p] = "gone" => f2[p] = "gone"
    /\ \A l \in Loot : /\ w1[l] # "none" => w2[l] # "none"
                       /\ w1[l] = "gone" => w2[l] = "gone"
                       /\ w1[l] \in Players => w2[l] \in {w1[l], "gone"}
\* Who has an object plays.
Held(f1, w1) == \A l \in Loot : w1[l] \in Players => f1[w1[l]] = "in"

\* What the server had until now followed each from the one before.
Ordered(f, w) ==
    \A j \in 0 .. version : /\ Held(f[j], w[j])
                            /\ \A i \in 0 .. j : Follows(f[i], w[i], f[j], w[j])

\* An answer is a moment of the server that has passed.
IsState(s, f, w) ==
    s \in Snapshots /\ s.no <= version /\ s.players = PlayersAt(f, s.no) /\ s.where = w[s.no]
IsList(a, f) == a.no \in 0 .. version /\ a.players = PlayersAt(f, a.no)

\* The page knows of the server what these moments tell, however old they are.
History(f, w) ==
    /\ version \in Nat /\ fate = f[version] /\ where = w[version] /\ Ordered(f, w)
    /\ \A s \in BagToSet(stateCalls) \ {ASKED, REFUSED} : IsState(s, f, w)
    /\ \A a \in BagToSet(listCalls) \ {ASKED, REFUSED} : IsList(a, f)
    /\ "state" \in loaded => IsState(desired, f, w)
    /\ "players" \in loaded => IsList([no |-> lastList, players |-> listed], f)
    /\ "started" \in loaded => {"state", "players"} \subseteq loaded

\* A change of the game is a step forward.
LEMMA StepInTime ==
    ASSUME GameChanges, fate \in [Players -> Fates], where \in [Loot -> Places],
           Held(fate, where)
    PROVE  /\ fate' \in [Players -> Fates] /\ where' \in [Loot -> Places]
           /\ Held(fate', where') /\ Follows(fate, where, fate', where')
<1> DEFINE Kept == /\ fate' \in [Players -> Fates] /\ where' \in [Loot -> Places]
                   /\ Held(fate', where') /\ Follows(fate, where, fate', where')
<1> USE ClientAssumption DEF Fates, Places, Held, Follows
<1>1. ASSUME NEW p \in Players, fate[p] = "new", fate' = [fate EXCEPT ![p] = "in"],
             UNCHANGED where
      PROVE  Kept
    BY <1>1
<1>2. ASSUME NEW p \in Players, fate[p] = "in", fate' = [fate EXCEPT ![p] = "gone"],
             where' = [l \in Loot |-> IF where[l] = p THEN "gone" ELSE where[l]]
      PROVE  Kept
    BY <1>2
<1>3. ASSUME NEW l \in Loot, UNCHANGED fate, NEW x \in Places,
             where' = [where EXCEPT ![l] = x],
             \/ where[l] = "none" /\ x = "lying"
             \/ where[l] = "lying" /\ x \in Playing
             \/ where[l] \in Players /\ x = "gone"
      PROVE  Kept
    BY <1>3 DEF Playing
<1>4. \/ \E p \in Players :
            \/ fate[p] = "new" /\ fate' = [fate EXCEPT ![p] = "in"] /\ UNCHANGED where
            \/ /\ fate[p] = "in" /\ fate' = [fate EXCEPT ![p] = "gone"]
               /\ where' = [l \in Loot |-> IF where[l] = p THEN "gone" ELSE where[l]]
      \/ \E l \in Loot, x \in Places :
            /\ \/ where[l] = "none" /\ x = "lying"
               \/ where[l] = "lying" /\ x \in Playing
               \/ where[l] \in Players /\ x = "gone"
            /\ where' = [where EXCEPT ![l] = x] /\ UNCHANGED fate
    BY DEF GameChanges, Playing
<1> QED
    BY <1>1, <1>2, <1>3, <1>4

\* A change of the game adds a moment, and those before stay what they were.
LEMMA GameHistory ==
    ASSUME NEW f \in [Nat -> [Players -> Fates]], NEW w \in [Nat -> [Loot -> Places]],
           History(f, w), GameChanges
    PROVE  \E g \in [Nat -> [Players -> Fates]], v \in [Nat -> [Loot -> Places]] :
             History(g, v)' /\ \A k \in 0 .. version : g[k] = f[k]
<1>0. PICK g, v : /\ g = [f EXCEPT ![version + 1] = fate']
                  /\ v = [w EXCEPT ![version + 1] = where']
    OBVIOUS
<1>1. /\ version \in Nat /\ version' = version + 1
      /\ UNCHANGED <<stateCalls, listCalls, loaded, desired, lastList, listed>>
    BY DEF GameChanges, History, control, view
<1>2. /\ fate = f[version] /\ where = w[version] /\ Ordered(f, w)
      /\ fate \in [Players -> Fates] /\ where \in [Loot -> Places]
    BY <1>1 DEF History
<1>3. Held(fate, where)
    <2>1. version \in 0 .. version
        BY <1>1
    <2> QED
        BY <1>2, <2>1 DEF Ordered
<1>4. /\ fate' \in [Players -> Fates] /\ where' \in [Loot -> Places]
      /\ Held(fate', where') /\ Follows(fate, where, fate', where')
    BY <1>2, <1>3, StepInTime
<1>5. g \in [Nat -> [Players -> Fates]] /\ v \in [Nat -> [Loot -> Places]]
    BY <1>0, <1>1, <1>4
<1>6. \A k \in 0 .. version : g[k] = f[k] /\ v[k] = w[k]
    BY <1>0, <1>1
<1>7. g[version'] = fate' /\ v[version'] = where'
    BY <1>0, <1>1
<1>8. Ordered(g, v)'
    <2>1. ASSUME NEW j \in 0 .. version
          PROVE  Held(g[j], v[j]) /\ \A i \in 0 .. j : Follows(g[i], v[i], g[j], v[j])
        <3>1. Held(f[j], w[j]) /\ \A i \in 0 .. j : Follows(f[i], w[i], f[j], w[j])
            BY <1>2 DEF Ordered
        <3>2. \A i \in 0 .. j : i \in 0 .. version
            BY <1>1
        <3> QED
            BY <1>6, <3>1, <3>2
    <2>2. ASSUME NEW i \in 0 .. version PROVE Follows(g[i], v[i], fate', where')
        <3>1. Follows(f[i], w[i], fate, where)
            <4>1. version \in 0 .. version
                BY <1>1
            <4> QED
                BY <1>2, <4>1 DEF Ordered
        <3>2. Follows(f[i], w[i], fate', where')
            BY <1>4, <3>1 DEF Follows
        <3> QED
            BY <1>6, <3>2
    <2>3. Follows(fate', where', fate', where')
        BY DEF Follows
    <2>4. \A j \in 0 .. version' : j \in 0 .. version \/ j = version'
        BY <1>1
    <2>5. ASSUME NEW j \in 0 .. version'
          PROVE  Held(g[j], v[j]) /\ \A i \in 0 .. j : Follows(g[i], v[i], g[j], v[j])
        BY <1>4, <1>7, <2>1, <2>2, <2>3, <2>4, <2>5
    <2> QED
        BY <2>5 DEF Ordered
<1>9. ASSUME NEW s, IsState(s, f, w) PROVE IsState(s, g, v)'
    <2>1. s \in Snapshots /\ s.no \in 0 .. version /\ s.no \in Nat
        BY <1>1, <1>9 DEF IsState, Snapshots
    <2>2. g[s.no] = f[s.no] /\ v[s.no] = w[s.no]
        BY <1>6, <2>1
    <2> QED
        BY <1>1, <1>9, <2>1, <2>2 DEF IsState, PlayersAt
<1>10. ASSUME NEW a, IsList(a, f) PROVE IsList(a, g)'
    <2>1. a.no \in 0 .. version /\ a.no \in 0 .. version'
        BY <1>1, <1>10 DEF IsList
    <2>2. g[a.no] = f[a.no]
        BY <1>6, <2>1
    <2> QED
        BY <1>10, <2>1, <2>2 DEF IsList, PlayersAt
<1>11. ("state" \in loaded => IsState(desired, g, v))'
    <2>1. "state" \in loaded => IsState(desired, f, w)
        BY DEF History
    <2> QED
        BY <1>1, <1>9, <2>1 DEF IsState
<1>12. ("players" \in loaded => IsList([no |-> lastList, players |-> listed], g))'
    <2>1. "players" \in loaded => IsList([no |-> lastList, players |-> listed], f)
        BY DEF History
    <2> QED
        BY <1>1, <1>10, <2>1 DEF IsList
<1>13. (\A s \in BagToSet(stateCalls) \ {ASKED, REFUSED} : IsState(s, g, v))'
    <2>1. \A s \in BagToSet(stateCalls) \ {ASKED, REFUSED} : IsState(s, f, w)
        BY DEF History
    <2> QED
        BY <1>1, <1>9, <2>1 DEF IsState
<1>14. (\A a \in BagToSet(listCalls) \ {ASKED, REFUSED} : IsList(a, g))'
    <2>1. \A a \in BagToSet(listCalls) \ {ASKED, REFUSED} : IsList(a, f)
        BY DEF History
    <2> QED
        BY <1>1, <1>10, <2>1 DEF IsList
<1>15. ("started" \in loaded => {"state", "players"} \subseteq loaded)'
    <2>1. "started" \in loaded => {"state", "players"} \subseteq loaded
        BY DEF History
    <2> QED
        BY <1>1, <2>1
<1>16. version' \in Nat /\ fate' = g[version'] /\ where' = v[version']
    BY <1>1, <1>7
<1>17. History(g, v)'
    BY <1>8, <1>11, <1>12, <1>13, <1>14, <1>15, <1>16 DEF History
<1> QED
    BY <1>5, <1>6, <1>17

\* A step adds no answer to those on their way but one the server gives.
LEMMA CallsAfter ==
    ASSUME NEW calls, NEW after, NEW answer,
           \/ after = calls \/ after = EmptyBag \/ after = Put(calls, ASKED)
           \/ \E s : after = Without(calls, s)
           \/ \E s \in {answer, REFUSED} : after = Put(Without(calls, ASKED), s)
    PROVE  BagToSet(after) \ {ASKED, REFUSED} \subseteq
             (BagToSet(calls) \ {ASKED, REFUSED}) \cup {answer}
BY CallsFacts

\* Other steps only pass on what was so.
LEMMA OtherHistory ==
    ASSUME NEW f \in [Nat -> [Players -> Fates]], NEW w \in [Nat -> [Loot -> Places]],
           History(f, w), [Next]_clientvars, ~GameChanges
    PROVE  History(f, w)'
<1>1. /\ version \in Nat /\ fate = f[version] /\ where = w[version] /\ Ordered(f, w)
      /\ \A s \in BagToSet(stateCalls) \ {ASKED, REFUSED} : IsState(s, f, w)
      /\ \A a \in BagToSet(listCalls) \ {ASKED, REFUSED} : IsList(a, f)
      /\ "state" \in loaded => IsState(desired, f, w)
      /\ "players" \in loaded => IsList([no |-> lastList, players |-> listed], f)
      /\ "started" \in loaded => {"state", "players"} \subseteq loaded
    BY DEF History
<1>2. /\ version' = version /\ fate' = fate /\ where' = where
      /\ Ordered(f, w)'
      /\ \A s : IsState(s, f, w)' <=> IsState(s, f, w)
      /\ \A a : IsList(a, f)' <=> IsList(a, f)
    <2>1. version' = version /\ fate' = fate /\ where' = where
        BY DEF Next, ServeState, ServeList, Serve, ServePost, RequestFails, Load, Construct, StateArrives,
           StateRefused, ListArrives, ListRefused, Tick, KeyDown, KeyUp, PressKey, server, clientvars
    <2>2. Ordered(f, w)'
        BY <1>1, <2>1 DEF Ordered
    <2> QED
        BY <2>1, <2>2 DEF IsState, IsList
<1>3. /\ Snapshot \in Snapshots /\ IsState(Snapshot, f, w) /\ IsList(PlayerList, f)
    <2>1. fate \in [Players -> Fates] /\ where \in [Loot -> Places]
        BY <1>1
    <2>2. Snapshot \in Snapshots
        BY <1>1, <2>1 DEF Snapshot, Snapshots, Playing
    <2>3. IsState(Snapshot, f, w)
        BY <1>1, <2>2 DEF Snapshot, IsState, PlayersAt, Playing
    <2>4. IsList(PlayerList, f)
        BY <1>1 DEF PlayerList, IsList, PlayersAt, Playing
    <2> QED
        BY <2>2, <2>3, <2>4
<1> DEFINE States == \A s \in BagToSet(stateCalls) \ {ASKED, REFUSED} : IsState(s, f, w)
           Lists == \A a \in BagToSet(listCalls) \ {ASKED, REFUSED} : IsList(a, f)
           LastState == "state" \in loaded => IsState(desired, f, w)
           LastListed == "players" \in loaded => IsList([no |-> lastList, players |-> listed], f)
           Starts == "started" \in loaded => {"state", "players"} \subseteq loaded
<1>4. ASSUME \/ stateCalls' = stateCalls \/ stateCalls' = EmptyBag
             \/ stateCalls' = Put(stateCalls, ASKED)
             \/ \E s : stateCalls' = Without(stateCalls, s)
             \/ \E s \in {Snapshot, REFUSED} : stateCalls' = Put(Without(stateCalls, ASKED), s)
      PROVE  States'
    <2>1. BagToSet(stateCalls') \ {ASKED, REFUSED} \subseteq
            (BagToSet(stateCalls) \ {ASKED, REFUSED}) \cup {Snapshot}
        BY <1>4, CallsAfter
    <2> QED
        BY <1>1, <1>2, <1>3, <2>1
<1>5. ASSUME \/ listCalls' = listCalls \/ listCalls' = EmptyBag
             \/ listCalls' = Put(listCalls, ASKED)
             \/ \E s : listCalls' = Without(listCalls, s)
             \/ \E s \in {PlayerList, REFUSED} : listCalls' = Put(Without(listCalls, ASKED), s)
      PROVE  Lists'
    <2>1. BagToSet(listCalls') \ {ASKED, REFUSED} \subseteq
            (BagToSet(listCalls) \ {ASKED, REFUSED}) \cup {PlayerList}
        BY <1>5, CallsAfter
    <2> QED
        BY <1>1, <1>2, <1>3, <2>1
<1>6. ASSUME UNCHANGED <<loaded, desired, lastList, listed>>
      PROVE  LastState' /\ LastListed' /\ Starts'
    BY <1>1, <1>2, <1>6
<1>7. ASSUME States', Lists', LastState', LastListed', Starts' PROVE History(f, w)'
    BY <1>1, <1>2, <1>7 DEF History
<1> HIDE DEF States, Lists, LastState, LastListed, Starts
<1>8. CASE StateArrives
    <2>1. PICK s \in BagToSet(stateCalls) \ {ASKED, REFUSED} :
            /\ stateCalls' = Without(stateCalls, s) /\ desired' = s
            /\ \/ loaded' = loaded /\ "started" \in loaded
               \/ StartGame(loaded \cup {"state"}, s, listed)
            /\ UNCHANGED <<listCalls, listed, lastList>>
        BY <1>8 DEF StateArrives
    <2>2. IsState(s, f, w)
        BY <1>1
    <2>3. /\ loaded' \subseteq loaded \cup {"state", "started"} /\ loaded \subseteq loaded'
          /\ Starts'
        <3>1. \/ loaded' = loaded \/ loaded' = loaded \cup {"state"}
              \/ /\ {"state", "players"} \subseteq loaded \cup {"state"}
                 /\ loaded' = (loaded \cup {"state"}) \cup {"started"}
            BY <2>1 DEF StartGame
        <3> QED
            BY <1>1, <3>1 DEF Starts
    <2>4. LastState' /\ LastListed'
        BY <1>1, <1>2, <2>1, <2>2, <2>3 DEF LastState, LastListed
    <2> QED
        BY <1>4, <1>5, <1>7, <2>1, <2>3, <2>4
<1>9. CASE ListArrives
    <2>1. PICK a \in BagToSet(listCalls) \ {ASKED, REFUSED} :
            /\ listCalls' = Without(listCalls, a) /\ lastList' = a.no /\ listed' = a.players
            /\ \/ loaded' = loaded /\ "started" \in loaded
               \/ StartGame(loaded \cup {"players"}, desired, a.players)
            /\ UNCHANGED <<stateCalls, desired>>
        BY <1>9 DEF ListArrives, UpdatePlayersList
    <2>2. IsList(a, f)
        BY <1>1
    <2>3. /\ loaded' \subseteq loaded \cup {"players", "started"} /\ loaded \subseteq loaded'
          /\ Starts'
        <3>1. \/ loaded' = loaded \/ loaded' = loaded \cup {"players"}
              \/ /\ {"state", "players"} \subseteq loaded \cup {"players"}
                 /\ loaded' = (loaded \cup {"players"}) \cup {"started"}
            BY <2>1 DEF StartGame
        <3> QED
            BY <1>1, <3>1 DEF Starts
    <2>4. LastState'
        BY <1>1, <1>2, <2>1, <2>3 DEF LastState
    <2>5. LastListed'
        BY <1>1, <1>2, <2>1, <2>2 DEF LastListed, IsList
    <2> QED
        BY <1>4, <1>5, <1>7, <2>1, <2>3, <2>4, <2>5
<1>10. CASE ListRefused
    <2>1. loaded' = {} /\ stateCalls' = EmptyBag /\ listCalls' = EmptyBag
        BY <1>10 DEF ListRefused
    <2>2. LastState' /\ LastListed' /\ Starts'
        BY <2>1 DEF LastState, LastListed, Starts
    <2> QED
        BY <1>4, <1>5, <1>7, <2>1, <2>2
<1>11. CASE \/ ServeState \/ ServeList \/ ServePost \/ RequestFails \/ Construct \/ StateRefused
            \/ \E a \in Assets : Load(a)
            \/ \E poll, sync \in BOOLEAN : Tick(poll, sync)
            \/ \E k \in Keys : KeyDown(k) \/ KeyUp(k)
            \/ UNCHANGED clientvars
    <2>1. UNCHANGED <<loaded, desired, lastList, listed>>
        BY <1>11 DEF ServeState, ServeList, Serve, ServePost, RequestFails, Load, Construct, StateRefused,
           Tick, KeyDown, KeyUp, PressKey, control, view, clientvars
    <2>2. \/ stateCalls' = stateCalls \/ stateCalls' = Put(stateCalls, ASKED)
          \/ \E s : stateCalls' = Without(stateCalls, s)
          \/ \E s \in {Snapshot, REFUSED} : stateCalls' = Put(Without(stateCalls, ASKED), s)
        BY <1>11 DEF ServeState, ServeList, Serve, ServePost, RequestFails, Load, Construct, StateRefused,
           Tick, KeyDown, KeyUp, PressKey, clientvars
    <2>3. \/ listCalls' = listCalls \/ listCalls' = Put(listCalls, ASKED)
          \/ \E s : listCalls' = Without(listCalls, s)
          \/ \E s \in {PlayerList, REFUSED} : listCalls' = Put(Without(listCalls, ASKED), s)
        BY <1>11 DEF ServeState, ServeList, Serve, ServePost, RequestFails, Load, Construct, StateRefused,
           Tick, KeyDown, KeyUp, PressKey, clientvars
    <2> QED
        BY <1>4, <1>5, <1>6, <1>7, <2>1, <2>2, <2>3
<1> QED
    BY <1>8, <1>9, <1>10, <1>11 DEF Next

\* Nothing is drawn before the game starts.
Blank ==
    /\ current = {} /\ scene = {}
    /\ \A l \in Loot : lost[l] = 0 /\ vanishing[l] = 0 /\ \A p \in Players : bag[p][l] = 0

\* What a dog of the picture has of l is drawn, unless a list has taken the dog off the
\* scene for good; what another has is drawn until the next list takes it off.
CarriesDrawn(f, p, l) ==
    \/ /\ p \in current /\ desired.where[l] = p
       /\ <<l, bag[p][l]>> \in scene \/ (p \notin listed /\ f[lastList][p] = "gone")
    \/ /\ p \notin current /\ p \in listed /\ f[desired.no][p] = "gone"
       /\ <<l, bag[p][l]>> \in scene

\* The objects of l: none is left behind in the scene, none that is owned is missing, and
\* each is where the last answer has l.
KeepsLoot(f, l) ==
    /\ \A o \in Nat : <<l, o>> \in scene => o \in Owned(l)
    /\ lost[l] # 0 => desired.where[l] = "lying" /\ <<l, lost[l]>> \in scene
    /\ vanishing[l] # 0 => desired.where[l] = "gone"
    /\ \A p \in Players : bag[p][l] # 0 => CarriesDrawn(f, p, l)

DrawnInv(f) ==
    /\ scene \subseteq Loot \X Nat /\ listed \subseteq Players
    /\ "started" \notin loaded => Blank
    /\ "started" \in loaded /\ ~slipped => \A l \in Loot : KeepsLoot(f, l)

\* What an answer s makes of the objects of l while ps are listed.
Applied(s, ps, l) ==
    /\ current' = s.players
    /\ lost'[l] = IF s.where[l] # "lying" THEN 0
                  ELSE IF lost[l] # 0 THEN lost[l] ELSE NewObject(l)
    /\ \A p \in Players : p \in s.players =>
          bag'[p][l] = IF s.where[l] # p THEN 0
                       ELSE IF p \in current /\ bag[p][l] # 0 THEN bag[p][l]
                       ELSE IF lost[l] # 0 THEN lost[l] ELSE NewObject(l)
    /\ \A p \in Players : p \notin s.players =>
          bag'[p][l] = IF p \in ps THEN bag[p][l] ELSE 0
    /\ vanishing'[l] = IF Dropped(s, l) = {} THEN vanishing[l]
                       ELSE CHOOSE o \in Dropped(s, l) : TRUE
    /\ \A o : <<l, o>> \in scene' <=>
          \/ <<l, o>> \in scene
          \/ /\ o = NewObject(l) /\ lost[l] = 0
             /\ s.where[l] = "lying" \/ \E p \in s.players : Takes(s, p, l)

LEMMA ApplyCases ==
    ASSUME NEW s, NEW ps, NEW late, Apply(s, ps, late), NEW l \in Loot
    PROVE  Applied(s, ps, l)
<1>1. /\ current' = s.players
      /\ lost'[l] = LostAfter(s, l)
      /\ \A p \in Players : bag'[p][l] = IF p \in s.players THEN BagAfter(s, p, l)
                                         ELSE IF p \in ps THEN bag[p][l] ELSE 0
      /\ vanishing'[l] = IF Dropped(s, l) = {} THEN vanishing[l]
                         ELSE CHOOSE o \in Dropped(s, l) : TRUE
    BY DEF Apply, Nothing
<1>2. lost'[l] = IF s.where[l] # "lying" THEN 0
                 ELSE IF lost[l] # 0 THEN lost[l] ELSE NewObject(l)
    BY <1>1 DEF LostAfter, Lying
<1>3. ASSUME NEW p \in Players, p \in s.players
      PROVE  BagAfter(s, p, l) = IF s.where[l] # p THEN 0
                              ELSE IF p \in current /\ bag[p][l] # 0 THEN bag[p][l]
                              ELSE IF lost[l] # 0 THEN lost[l] ELSE NewObject(l)
    BY <1>3, ClientAssumption DEF BagAfter, Holds, Carried, Abandoned, Lying
<1>4. \A o : <<l, o>> \in scene' <=>
         \/ <<l, o>> \in scene
         \/ /\ o = NewObject(l) /\ lost[l] = 0
            /\ s.where[l] = "lying" \/ \E p \in s.players : Takes(s, p, l)
    <2> DEFINE New(k) == /\ lost[k] = 0
                         /\ s.where[k] = "lying" \/ \E p \in s.players : Takes(s, p, k)
    <2>1. scene' = scene \cup {<<k, NewObject(k)>> : k \in {j \in Loot : New(j)}}
        BY DEF Apply, Lying
    <2> HIDE DEF New
    <2>2. \A o : <<l, o>> \in {<<k, NewObject(k)>> : k \in {j \in Loot : New(j)}}
                   <=> o = NewObject(l) /\ New(l)
        OBVIOUS
    <2> QED
        BY <2>1, <2>2 DEF New
<1> QED
    BY <1>1, <1>2, <1>3, <1>4 DEF Applied

\* The first answer is applied to an empty picture.
LEMMA StartKeeps ==
    ASSUME NEW f, Blank, OwnerInv, NEW s, s.players \subseteq Players, NEW ps,
           Apply(s, ps, FALSE), desired' = s, NEW l \in Loot
    PROVE  KeepsLoot(f, l)'
<1>1. /\ NewObject(l) \in Nat \ {0}
      /\ current = {} /\ scene = {} /\ lost[l] = 0 /\ vanishing[l] = 0
      /\ \A p \in Players : bag[p][l] = 0
    BY NewObjectFacts DEF OwnerInv, Blank
<1>0. Applied(s, ps, l)
    BY ApplyCases
<1>2. Dropped(s, l) = {}
    <2>1. Abandoned(s, l) = 0 /\ \A p : Carried(p, l) = 0
        BY <1>1 DEF Carried, Abandoned
    <2> QED
        BY <2>1 DEF Dropped
<1>3. vanishing'[l] = 0
    BY <1>0, <1>1, <1>2 DEF Applied
<1>4. \A p \in Players : p \in s.players /\ s.where[l] = p => Takes(s, p, l)
    BY <1>1 DEF Takes, Holds, Carried
<1>5. \A p \in Players : bag'[p][l] # 0 =>
         /\ p \in current' /\ desired'.where[l] = p
         /\ <<l, bag'[p][l]>> \in scene'
    <2> SUFFICES ASSUME NEW p \in Players, bag'[p][l] # 0
                 PROVE  /\ p \in current' /\ desired'.where[l] = p
                        /\ <<l, bag'[p][l]>> \in scene'
        OBVIOUS
    <2>1. p \in s.players /\ s.where[l] = p /\ bag'[p][l] = NewObject(l)
        BY <1>0, <1>1 DEF Applied
    <2> QED
        BY <1>0, <1>1, <1>4, <2>1 DEF Applied
<1>6. lost'[l] # 0 => desired'.where[l] = "lying" /\ <<l, lost'[l]>> \in scene'
    BY <1>0, <1>1 DEF Applied
<1>7. \A o \in Nat : <<l, o>> \in scene' => o \in Owned(l)'
    <2> SUFFICES ASSUME NEW o \in Nat, <<l, o>> \in scene' PROVE o \in Owned(l)'
        OBVIOUS
    <2>1. /\ o = NewObject(l) /\ o # 0
          /\ s.where[l] = "lying" \/ \E p \in s.players : Takes(s, p, l)
        BY <1>0, <1>1 DEF Applied
    <2>2. CASE s.where[l] = "lying"
        <3>1. lost'[l] = o
            BY <1>0, <1>1, <2>1, <2>2 DEF Applied
        <3> QED
            BY <2>1, <3>1 DEF Owned
    <2>3. CASE \E p \in s.players : Takes(s, p, l)
        <3>1. PICK p \in Players : p \in s.players /\ s.where[l] = p
            BY <2>3 DEF Takes, Holds
        <3>2. bag'[p][l] = o
            BY <1>0, <1>1, <2>1, <3>1 DEF Applied
        <3> QED
            BY <2>1, <3>2 DEF Owned
    <2> QED
        BY <2>1, <2>2, <2>3
<1> QED
    BY <1>3, <1>5, <1>6, <1>7 DEF KeepsLoot, CarriesDrawn

\* What a later answer says of players and of l, given the last one.
Later(f, s, l) ==
    /\ \A p \in Players : f[desired.no][p] = "gone" => f[s.no][p] = "gone"
    /\ \A p \in Players : f[s.no][p] = "gone" => p \notin s.players
    /\ \A p \in current \ s.players : f[s.no][p] = "gone"
    /\ s.where[l] \in Players => s.where[l] \in s.players
    /\ desired.where[l] = "lying" => s.where[l] \in {"lying", "gone"} \cup Players
    /\ desired.where[l] \in Players => s.where[l] \in {desired.where[l], "gone"}
    /\ desired.where[l] = "gone" => s.where[l] = "gone"

\* It is what an answer says that did not come late.
LEMMA LaterAnswers ==
    ASSUME NEW f \in [Nat -> [Players -> Fates]], NEW w \in [Nat -> [Loot -> Places]],
           History(f, w), "state" \in loaded, current = desired.players,
           NEW s, IsState(s, f, w), ~Overtaken(s), NEW l \in Loot
    PROVE  Later(f, s, l)
<1>1. IsState(desired, f, w) /\ version \in Nat /\ Ordered(f, w)
    BY DEF History
<1>2. /\ desired.no \in Nat /\ s.no \in Nat /\ s.no <= version /\ desired.no <= s.no
    <2>1. desired # NIL
        BY <1>1, ClientAssumption DEF IsState
    <2> QED
        BY <1>1, <2>1 DEF IsState, Snapshots, Overtaken
<1>3. s.no \in 0 .. version /\ desired.no \in 0 .. s.no
    BY <1>1, <1>2
<1>4. /\ Follows(f[desired.no], w[desired.no], f[s.no], w[s.no]) /\ Held(f[s.no], w[s.no])
    BY <1>1, <1>3 DEF Ordered
<1>5. f[s.no] \in [Players -> Fates] /\ w[s.no] \in [Loot -> Places]
    BY <1>2
<1>6. /\ current = {p \in Players : f[desired.no][p] = "in"}
      /\ s.players = {p \in Players : f[s.no][p] = "in"}
      /\ s.where = w[s.no] /\ desired.where = w[desired.no]
    BY <1>1 DEF IsState, PlayersAt
<1>7. /\ \A p \in Players : f[desired.no][p] = "gone" => f[s.no][p] = "gone"
      /\ \A p \in Players : f[s.no][p] = "gone" => p \notin s.players
      /\ \A p \in current \ s.players : f[s.no][p] = "gone"
    BY <1>4, <1>5, <1>6 DEF Follows, Fates
<1>8. s.where[l] \in Players => s.where[l] \in s.players
    BY <1>4, <1>6 DEF Held
<1>9. /\ desired.where[l] = "lying" => s.where[l] \in {"lying", "gone"} \cup Players
      /\ desired.where[l] \in Players => s.where[l] \in {desired.where[l], "gone"}
      /\ desired.where[l] = "gone" => s.where[l] = "gone"
    BY <1>4, <1>5, <1>6 DEF Follows, Places
<1> QED
    BY <1>7, <1>8, <1>9 DEF Later

\* An answer that overtook none: one object of l at most begins to fade, and only if none
\* has before.
LEMMA DroppedOnce ==
    ASSUME NEW f, NEW s, NEW l \in Loot, KeepsLoot(f, l), Later(f, s, l), current \subseteq Players
    PROVE  /\ \A x, y \in Dropped(s, l) : x = y
           /\ Dropped(s, l) # {} => vanishing[l] = 0 /\ s.where[l] = "gone"
<1>1. \A x \in Dropped(s, l) :
        /\ x # 0
        /\ \/ \E p \in current \cap s.players : x = bag[p][l] /\ s.where[l] # p
           \/ /\ x = lost[l] /\ s.where[l] # "lying"
              /\ ~ \E p \in s.players : Takes(s, p, l)
    BY DEF Dropped, Carried, Abandoned, Holds, Lying
<1>2. ASSUME NEW x \in Dropped(s, l)
      PROVE  /\ s.where[l] = "gone"
             /\ \/ desired.where[l] \in Players /\ x = bag[desired.where[l]][l]
                \/ desired.where[l] = "lying" /\ x = lost[l]
    <2>1. CASE \E p \in current \cap s.players : x = bag[p][l] /\ s.where[l] # p
        <3>1. PICK p \in current \cap s.players : x = bag[p][l] /\ s.where[l] # p
            BY <2>1
        <3>2. p \in Players /\ bag[p][l] # 0
            BY <1>1, <3>1
        <3>3. desired.where[l] = p
            BY <3>1, <3>2 DEF KeepsLoot, CarriesDrawn
        <3> QED
            BY <3>1, <3>2, <3>3 DEF Later
    <2>2. CASE /\ x = lost[l] /\ s.where[l] # "lying"
               /\ ~ \E p \in s.players : Takes(s, p, l)
        <3>1. lost[l] # 0 /\ desired.where[l] = "lying"
            BY <1>1, <2>2 DEF KeepsLoot
        <3>2. ASSUME s.where[l] \in Players PROVE FALSE
            <4>1. PICK p \in s.players : p \in Players /\ s.where[l] = p
                BY <3>2 DEF Later
            <4>2. Carried(p, l) # 0
                BY <2>2, <4>1 DEF Takes, Holds
            <4>3. p \in current /\ bag[p][l] # 0
                BY <4>2 DEF Carried
            <4>4. desired.where[l] = p
                BY <4>1, <4>3 DEF KeepsLoot, CarriesDrawn
            <4> QED
                BY <3>1, <4>1, <4>4, ClientAssumption
        <3> QED
            BY <2>2, <3>1, <3>2 DEF Later
    <2> QED
        BY <1>1, <2>1, <2>2
<1>3. \A x, y \in Dropped(s, l) : x = y
    BY <1>2, ClientAssumption
<1>4. ASSUME NEW x \in Dropped(s, l) PROVE vanishing[l] = 0
    BY <1>2, ClientAssumption DEF KeepsLoot
<1> QED
    BY <1>2, <1>3, <1>4

\* An answer that overtook none keeps the picture drawn.
LEMMA ApplyKeeps ==
    ASSUME NEW f, NEW s, s.players \subseteq Players, current \subseteq Players,
           NEW late, Apply(s, listed, late), ~slipped',
           desired' = s, UNCHANGED <<listed, lastList>>, OwnerInv,
           NEW l \in Loot, KeepsLoot(f, l), Later(f, s, l)
    PROVE  KeepsLoot(f, l)'
<1>1. Applied(s, listed, l)
    BY ApplyCases
<1>2. /\ NewObject(l) # 0 /\ NewObject(l) \in Nat
      /\ lost[l] # 0 => desired.where[l] = "lying" /\ <<l, lost[l]>> \in scene
      /\ vanishing[l] # 0 => desired.where[l] = "gone"
      /\ \A p \in Players : bag[p][l] # 0 => CarriesDrawn(f, p, l)
      /\ \A o \in Nat : <<l, o>> \in scene => o \in Owned(l)
    BY NewObjectFacts DEF OwnerInv, KeepsLoot
<1>3. /\ \A x, y \in Dropped(s, l) : x = y
      /\ Dropped(s, l) # {} => vanishing[l] = 0 /\ s.where[l] = "gone"
    BY DroppedOnce
<1>4. \A p \in current \ (s.players \cup listed) : <<l, bag[p][l]>> \notin scene
    BY DEF Apply
<1>5. \A o : <<l, o>> \in scene => <<l, o>> \in scene'
    BY <1>1 DEF Applied
<1>6. lost'[l] # 0 => desired'.where[l] = "lying" /\ <<l, lost'[l]>> \in scene'
    BY <1>1, <1>2 DEF Applied
<1>7. vanishing'[l] # 0 => desired'.where[l] = "gone"
    <2>1. vanishing'[l] # 0 => vanishing[l] # 0 \/ Dropped(s, l) # {}
        BY <1>1 DEF Applied
    <2> QED
        BY <1>2, <1>3, <2>1 DEF Later
<1>8. ASSUME NEW p \in Players, bag'[p][l] # 0 PROVE CarriesDrawn(f, p, l)'
    <2>1. CASE p \in s.players
        <3>1. /\ s.where[l] = p /\ p \in current'
              /\ bag'[p][l] = IF p \in current /\ bag[p][l] # 0 THEN bag[p][l]
                              ELSE IF lost[l] # 0 THEN lost[l] ELSE NewObject(l)
            BY <1>1, <1>8, <2>1 DEF Applied
        <3>2. CASE p \in current /\ bag[p][l] # 0
            <4>1. bag'[p][l] = bag[p][l] /\ CarriesDrawn(f, p, l)
                BY <1>2, <3>1, <3>2
            <4> QED
                BY <1>5, <3>1, <3>2, <4>1 DEF CarriesDrawn
        <3>3. CASE ~(p \in current /\ bag[p][l] # 0) /\ lost[l] # 0
            <4>1. <<l, bag'[p][l]>> \in scene'
                BY <1>2, <1>5, <3>1, <3>3
            <4> QED
                BY <3>1, <4>1 DEF CarriesDrawn
        <3>4. CASE ~(p \in current /\ bag[p][l] # 0) /\ lost[l] = 0
            <4>1. bag'[p][l] = NewObject(l) /\ Takes(s, p, l)
                BY <2>1, <3>1, <3>4 DEF Takes, Holds, Carried
            <4>2. <<l, bag'[p][l]>> \in scene'
                BY <1>1, <2>1, <3>4, <4>1 DEF Applied
            <4> QED
                BY <3>1, <4>2 DEF CarriesDrawn
        <3> QED
            BY <3>2, <3>3, <3>4
    <2>2. CASE p \notin s.players
        <3>1. p \in listed /\ bag'[p][l] = bag[p][l] /\ bag[p][l] # 0 /\ p \notin current'
            BY <1>1, <1>8, <2>2 DEF Applied
        <3>2. CarriesDrawn(f, p, l)
            BY <1>2, <3>1
        <3>3. <<l, bag'[p][l]>> \in scene'
            BY <1>5, <3>1, <3>2 DEF CarriesDrawn
        <3>4. f[s.no][p] = "gone"
            BY <2>2, <3>2 DEF CarriesDrawn, Later
        <3> QED
            BY <3>1, <3>3, <3>4 DEF CarriesDrawn
    <2> QED
        BY <2>1, <2>2
<1>9. ASSUME NEW o \in Nat, <<l, o>> \in scene' PROVE o \in Owned(l)'
    <2>1. ASSUME NEW p \in Players, bag'[p][l] = o, o # 0 PROVE o \in Owned(l)'
        BY <2>1 DEF Owned
    <2>2. ASSUME o \in {lost'[l], vanishing'[l]}, o # 0 PROVE o \in Owned(l)'
        BY <2>2 DEF Owned
    <2>3. ASSUME o \in Dropped(s, l) PROVE o \in Owned(l)'
        <3>1. vanishing'[l] = o
            BY <1>1, <1>3, <2>3 DEF Applied
        <3>2. o # 0
            BY <2>3 DEF Dropped
        <3> QED
            BY <2>2, <3>1, <3>2
    <2>4. CASE <<l, o>> \notin scene
        <3>1. /\ o = NewObject(l) /\ lost[l] = 0
              /\ s.where[l] = "lying" \/ \E p \in s.players : Takes(s, p, l)
            BY <1>1, <1>9, <2>4 DEF Applied
        <3>2. CASE s.where[l] = "lying"
            <4>1. lost'[l] = o
                BY <1>1, <3>1, <3>2 DEF Applied
            <4> QED
                BY <1>2, <2>2, <3>1, <4>1
        <3>3. CASE \E p \in s.players : Takes(s, p, l)
            <4>1. PICK p \in Players : /\ p \in s.players /\ s.where[l] = p
                                       /\ ~(p \in current /\ bag[p][l] # 0)
                BY <3>3 DEF Takes, Holds, Carried
            <4>2. bag'[p][l] = o
                BY <1>1, <3>1, <4>1 DEF Applied
            <4> QED
                BY <1>2, <2>1, <3>1, <4>2
        <3> QED
            BY <3>1, <3>2, <3>3
    <2>5. CASE <<l, o>> \in scene
        <3>1. \/ \E p \in Players : o = bag[p][l] /\ o # 0
              \/ o = lost[l] /\ o # 0
              \/ o = vanishing[l] /\ o # 0
            BY <1>2, <2>5 DEF Owned
        <3>2. ASSUME NEW p \in Players, o = bag[p][l], o # 0 PROVE o \in Owned(l)'
            <4>0. CarriesDrawn(f, p, l)
                BY <1>2, <3>2
            <4>1. CASE p \in current /\ p \in s.players /\ s.where[l] = p
                BY <1>1, <2>1, <3>2, <4>1 DEF Applied
            <4>2. CASE p \in current /\ p \in s.players /\ s.where[l] # p
                <5>1. Carried(p, l) = o /\ ~Holds(s, p, l)
                    BY <3>2, <4>2 DEF Carried, Holds
                <5>2. o \in Dropped(s, l)
                    BY <3>2, <4>2, <5>1 DEF Dropped
                <5> QED
                    BY <2>3, <5>2
            <4>3. CASE p \in current /\ p \notin s.players
                <5>1. p \in listed
                    BY <1>4, <2>5, <3>2, <4>3
                <5>2. bag'[p][l] = o
                    BY <1>1, <3>2, <4>3, <5>1 DEF Applied
                <5> QED
                    BY <2>1, <3>2, <5>2
            <4>4. CASE p \notin current
                <5>1. p \in listed /\ p \notin s.players
                    BY <4>0, <4>4 DEF CarriesDrawn, Later
                <5>2. bag'[p][l] = o
                    BY <1>1, <3>2, <5>1 DEF Applied
                <5> QED
                    BY <2>1, <3>2, <5>2
            <4> QED
                BY <4>1, <4>2, <4>3, <4>4
        <3>3. ASSUME o = lost[l], o # 0 PROVE o \in Owned(l)'
            <4>1. CASE s.where[l] = "lying"
                <5>1. lost'[l] = o
                    BY <1>1, <3>3, <4>1 DEF Applied
                <5> QED
                    BY <2>2, <3>3, <5>1
            <4>2. CASE s.where[l] # "lying" /\ \E p \in s.players : Takes(s, p, l)
                <5>1. PICK p \in Players : /\ p \in s.players /\ s.where[l] = p
                                           /\ ~(p \in current /\ bag[p][l] # 0)
                    BY <4>2 DEF Takes, Holds, Carried
                <5>2. bag'[p][l] = o
                    BY <1>1, <3>3, <5>1 DEF Applied
                <5> QED
                    BY <2>1, <3>3, <5>2
            <4>3. CASE s.where[l] # "lying" /\ ~ \E p \in s.players : Takes(s, p, l)
                <5>1. o \in Dropped(s, l)
                    BY <3>3, <4>3 DEF Dropped, Abandoned, Lying
                <5> QED
                    BY <2>3, <5>1
            <4> QED
                BY <4>1, <4>2, <4>3
        <3>4. ASSUME o = vanishing[l], o # 0 PROVE o \in Owned(l)'
            <4>1. vanishing'[l] = o
                BY <1>1, <1>3, <3>4 DEF Applied
            <4> QED
                BY <2>2, <3>4, <4>1
        <3> QED
            BY <3>1, <3>2, <3>3, <3>4
    <2> QED
        BY <2>4, <2>5
<1> QED
    BY <1>6, <1>7, <1>8, <1>9 DEF KeepsLoot

\* A list takes dogs off the scene, and what they carry.
LEMMA ListKeeps ==
    ASSUME NEW f \in [Nat -> [Players -> Fates]], NEW ps, NEW no, OneOwner,
           "players" \in loaded, version \in Nat,
           IsList([no |-> lastList, players |-> listed], f), IsList([no |-> no, players |-> ps], f),
           lastList <= no, NEW w, Ordered(f, w),
           UpdatePlayersList(ps), lastList' = no, UNCHANGED <<desired, current, lost, vanishing>>,
           NEW l \in Loot, KeepsLoot(f, l)
    PROVE  KeepsLoot(f, l)'
<1>1. /\ listed' = ps
      /\ \A p \in Players : bag'[p][l] = IF p \in listed \ (ps \cup current) THEN 0 ELSE bag[p][l]
      /\ \A o : <<l, o>> \in scene' <=>
           <<l, o>> \in scene /\ ~ \E p \in listed \ ps : o = bag[p][l]
    BY DEF UpdatePlayersList, Nothing
<1>2. /\ lastList \in 0 .. no /\ no \in 0 .. version
      /\ listed = PlayersAt(f, lastList) /\ ps = PlayersAt(f, no)
    BY DEF IsList
<1>3. Follows(f[lastList], w[lastList], f[no], w[no])
    BY <1>2 DEF Ordered
<1>4. /\ \A p \in listed \ ps : p \in Players /\ f[no][p] = "gone"
      /\ \A p \in Players : f[lastList][p] = "gone" => p \notin ps /\ f[no][p] = "gone"
    <2>1. f[lastList] \in [Players -> Fates] /\ f[no] \in [Players -> Fates]
        BY <1>2
    <2> QED
        BY <1>2, <1>3, <2>1 DEF Follows, PlayersAt, Fates
<1>5. /\ \A p, q \in Players : p # q /\ bag[p][l] # 0 => bag[p][l] # bag[q][l]
      /\ lost[l] # 0 => \A p \in Players : bag[p][l] # lost[l]
    BY DEF OneOwner
<1>6. lost'[l] # 0 => desired'.where[l] = "lying" /\ <<l, lost'[l]>> \in scene'
    BY <1>1, <1>4, <1>5 DEF KeepsLoot
<1>7. vanishing'[l] # 0 => desired'.where[l] = "gone"
    BY DEF KeepsLoot
<1>8. ASSUME NEW p \in Players, bag'[p][l] # 0 PROVE CarriesDrawn(f, p, l)'
    <2>1. bag'[p][l] = bag[p][l] /\ bag[p][l] # 0 /\ p \notin listed \ (ps \cup current)
        BY <1>1, <1>8
    <2>2. CarriesDrawn(f, p, l)
        BY <2>1 DEF KeepsLoot
    <2>3. ASSUME <<l, bag[p][l]>> \in scene, p \notin listed \ ps
          PROVE  <<l, bag[p][l]>> \in scene'
        BY <1>1, <1>4, <1>5, <2>1, <2>3
    <2>4. CASE p \in current /\ p \in listed \ ps
        BY <1>1, <1>4, <2>2, <2>4 DEF CarriesDrawn
    <2>5. CASE p \in current /\ p \notin listed \ ps
        BY <1>1, <1>4, <2>1, <2>2, <2>3, <2>5 DEF CarriesDrawn
    <2>6. CASE p \notin current
        BY <1>1, <2>1, <2>2, <2>3, <2>6 DEF CarriesDrawn
    <2> QED
        BY <2>4, <2>5, <2>6
<1>9. ASSUME NEW o \in Nat, <<l, o>> \in scene' PROVE o \in Owned(l)'
    <2>1. <<l, o>> \in scene /\ \A p \in listed \ ps : o # bag[p][l]
        BY <1>1, <1>9
    <2>2. o \in Owned(l)
        BY <2>1 DEF KeepsLoot
    <2>3. CASE \E p \in Players : o = bag[p][l]
        <3>1. PICK p \in Players : o = bag[p][l] /\ p \notin listed \ ps
            BY <2>1, <2>3
        <3>2. bag'[p][l] = o
            BY <1>1, <3>1
        <3> QED
            BY <2>2, <3>2 DEF Owned
    <2>4. CASE o \in {lost[l], vanishing[l]}
        BY <2>2, <2>4 DEF Owned
    <2> QED
        BY <2>2, <2>3, <2>4 DEF Owned
<1> QED
    BY <1>6, <1>7, <1>8, <1>9 DEF KeepsLoot

\* A frame takes what has faded off the scene.
LEMMA FrameKeeps ==
    ASSUME NEW f, OneOwner, NEW faded \in SUBSET Loot,
           vanishing' = [l \in Loot |-> IF l \in faded THEN 0 ELSE vanishing[l]],
           scene' = scene \ {<<l, vanishing[l]>> : l \in faded},
           \A l \in faded : vanishing[l] # 0,
           UNCHANGED <<desired, current, listed, lastList, bag, lost>>,
           NEW l \in Loot, KeepsLoot(f, l)
    PROVE  KeepsLoot(f, l)'
<1>1. /\ vanishing'[l] = IF l \in faded THEN 0 ELSE vanishing[l]
      /\ \A o : <<l, o>> \in scene' <=> <<l, o>> \in scene /\ ~(l \in faded /\ o = vanishing[l])
    OBVIOUS
<1>2. /\ vanishing[l] # 0 => \A p \in Players : bag[p][l] # vanishing[l]
      /\ lost[l] # 0 => lost[l] # vanishing[l]
    BY DEF OneOwner
<1>3. \A p \in Players : bag[p][l] # 0 /\ CarriesDrawn(f, p, l) => CarriesDrawn(f, p, l)'
    BY <1>1, <1>2 DEF CarriesDrawn
<1>4. \A o \in Nat : <<l, o>> \in scene' => o \in Owned(l)'
    <2> SUFFICES ASSUME NEW o \in Nat, <<l, o>> \in scene' PROVE o \in Owned(l)'
        OBVIOUS
    <2>1. o \in Owned(l) /\ ~(l \in faded /\ o = vanishing[l])
        BY <1>1 DEF KeepsLoot
    <2>2. o = vanishing[l] => o = vanishing'[l]
        BY <1>1, <2>1
    <2> QED
        BY <2>1, <2>2 DEF Owned
<1> QED
    BY <1>1, <1>2, <1>3, <1>4 DEF KeepsLoot

LEMMA DrawnStays ==
    ASSUME NEW f, DrawnInv(f), UNCHANGED <<loaded, view>>
    PROVE  DrawnInv(f)'
<1>1. UNCHANGED <<loaded, desired, current, listed, bag, lost, vanishing, scene, lastList, slipped>>
    BY DEF view, objects
<1>2. \A l : Owned(l)' = Owned(l)
    BY <1>1 DEF Owned
<1>3. \A l : KeepsLoot(f, l)' <=> KeepsLoot(f, l)
    BY <1>1, <1>2 DEF KeepsLoot, CarriesDrawn
<1> QED
    BY <1>1, <1>3 DEF DrawnInv, Blank

LEMMA AppliedScene ==
    ASSUME scene \subseteq Loot \X Nat, IsFiniteSet(scene), NEW s, NEW ps, NEW late,
           Apply(s, ps, late)
    PROVE  (scene \subseteq Loot \X Nat)'
<1>1. PICK S \in SUBSET Loot : scene' = scene \cup {<<l, NewObject(l)>> : l \in S}
    BY DEF Apply
<1>2. \A l \in Loot : NewObject(l) \in Nat
    BY NewObjectFacts
<1> QED
    BY <1>1, <1>2

\* Either of the two first answers may start the game.
LEMMA StartDraws ==
    ASSUME NEW f, Blank, scene \subseteq Loot \X Nat, OwnerInv, "started" \notin loaded,
           NEW flag \in {"state", "players"}, NEW s, NEW ps,
           StartGame(loaded \cup {flag}, s, ps), desired' = s,
           "state" \in loaded \cup {flag} => s.players \subseteq Players, listed' \subseteq Players
    PROVE  DrawnInv(f)'
<1>1. CASE {"state", "players"} \subseteq loaded \cup {flag}
    <2>1. Apply(s, ps, FALSE) /\ "started" \in loaded'
        BY <1>1 DEF StartGame
    <2>2. (scene \subseteq Loot \X Nat)'
        BY <2>1, AppliedScene DEF OwnerInv
    <2>3. \A l \in Loot : KeepsLoot(f, l)'
        BY <1>1, <2>1, StartKeeps
    <2> QED
        BY <2>1, <2>2, <2>3 DEF DrawnInv
<1>2. CASE ~({"state", "players"} \subseteq loaded \cup {flag})
    <2>1. "started" \notin loaded' /\ UNCHANGED <<current, bag, lost, vanishing, scene>>
        BY <1>2 DEF StartGame, objects
    <2> QED
        BY <2>1 DEF DrawnInv, Blank
<1> QED
    BY <1>1, <1>2

\* An answer is applied to the picture.
LEMMA AnswerKeeps ==
    ASSUME NEW f \in [Nat -> [Players -> Fates]], NEW w \in [Nat -> [Loot -> Places]],
           History(f, w), DrawnInv(f), OwnerInv, AnswersInv, PictureInv, StateArrives
    PROVE  DrawnInv(f)'
<1>1. PICK s \in BagToSet(stateCalls) \ {ASKED, REFUSED} :
        /\ desired' = s
        /\ IF "started" \in loaded
           THEN Apply(s, listed, Overtaken(s)) /\ UNCHANGED loaded
           ELSE StartGame(loaded \cup {"state"}, s, listed)
        /\ UNCHANGED <<listed, lastList>>
    BY DEF StateArrives
<1>2. IsState(s, f, w) /\ s.players \subseteq Players
    BY DEF History, AnswersInv
<1>3. CASE "started" \in loaded
    <2>1. /\ Apply(s, listed, Overtaken(s)) /\ loaded' = loaded
          /\ "state" \in loaded /\ current = desired.players /\ current \subseteq Players
        BY <1>1, <1>3 DEF PictureInv, AnswersInv
    <2>2. (scene \subseteq Loot \X Nat)'
        BY <2>1, AppliedScene DEF DrawnInv, OwnerInv
    <2>3. ASSUME ~slipped', NEW l \in Loot PROVE KeepsLoot(f, l)'
        <3>1. ~slipped /\ ~Overtaken(s)
            BY <2>1, <2>3 DEF Apply
        <3>2. KeepsLoot(f, l)
            BY <1>3, <3>1 DEF DrawnInv
        <3>3. Later(f, s, l)
            BY <1>2, <2>1, <3>1, LaterAnswers
        <3> QED
            BY <1>1, <1>2, <2>1, <2>3, <3>2, <3>3, ApplyKeeps
    <2> QED
        BY <1>1, <1>3, <2>1, <2>2, <2>3 DEF DrawnInv
<1>4. CASE "started" \notin loaded
    <2>1. /\ StartGame(loaded \cup {"state"}, s, listed) /\ Blank
          /\ scene \subseteq Loot \X Nat /\ listed' \subseteq Players
        BY <1>1, <1>4 DEF DrawnInv
    <2> QED
        BY <1>1, <1>2, <1>4, <2>1, StartDraws
<1> QED
    BY <1>3, <1>4

LEMMA ListChanges ==
    ASSUME NEW f \in [Nat -> [Players -> Fates]], NEW w \in [Nat -> [Loot -> Places]],
           History(f, w), DrawnInv(f), OwnerInv, AnswersInv, PictureInv, ListArrives
    PROVE  DrawnInv(f)'
<1>1. PICK a \in BagToSet(listCalls) \ {ASKED, REFUSED} :
        /\ IF "started" \in loaded
           THEN /\ UpdatePlayersList(a.players)
                /\ slipped' = (slipped \/ a.no < lastList)
                /\ UNCHANGED <<loaded, current, lost, vanishing>>
           ELSE StartGame(loaded \cup {"players"}, desired, a.players)
        /\ lastList' = a.no /\ listed' = a.players /\ desired' = desired
    BY DEF ListArrives, UpdatePlayersList
<1>2. IsList(a, f) /\ version \in Nat /\ Ordered(f, w)
    BY DEF History
<1>5. listed' \subseteq Players
    BY <1>1, <1>2 DEF IsList, PlayersAt
<1>3. CASE "started" \in loaded
    <2>1. "players" \in loaded /\ IsList([no |-> lastList, players |-> listed], f)
        BY <1>3 DEF History
    <2>2. (scene \subseteq Loot \X Nat)'
        BY <1>1, <1>3 DEF UpdatePlayersList, DrawnInv
    <2>3. ASSUME ~slipped', NEW l \in Loot PROVE KeepsLoot(f, l)'
        <3>1. ~slipped /\ ~(a.no < lastList)
            BY <1>1, <1>3, <2>3
        <3>2. KeepsLoot(f, l) /\ OneOwner
            BY <1>3, <3>1 DEF DrawnInv, OwnerInv
        <3>3. lastList <= a.no /\ IsList([no |-> a.no, players |-> a.players], f)
            BY <1>2, <2>1, <3>1 DEF IsList
        <3> QED
            BY <1>1, <1>2, <1>3, <2>1, <3>2, <3>3, ListKeeps
    <2> QED
        BY <1>1, <1>3, <1>5, <2>2, <2>3 DEF DrawnInv
<1>4. CASE "started" \notin loaded
    <2>1. /\ StartGame(loaded \cup {"players"}, desired, a.players) /\ Blank
          /\ scene \subseteq Loot \X Nat
        BY <1>1, <1>4 DEF DrawnInv
    <2>2. "state" \in loaded \cup {"players"} => desired.players \subseteq Players
        BY DEF AnswersInv
    <2> QED
        BY <1>1, <1>4, <1>5, <2>1, <2>2, StartDraws
<1> QED
    BY <1>3, <1>4

LEMMA FrameChanges ==
    ASSUME NEW f, DrawnInv(f), OwnerInv, NEW poll, NEW sync, Tick(poll, sync)
    PROVE  DrawnInv(f)'
<1>1. PICK faded \in SUBSET Loot :
        /\ \A l \in faded : vanishing[l] # 0
        /\ vanishing' = [l \in Loot |-> IF l \in faded THEN 0 ELSE vanishing[l]]
        /\ scene' = scene \ {<<l, vanishing[l]>> : l \in faded}
        /\ "started" \in loaded
        /\ UNCHANGED <<loaded, desired, current, listed, lastList, bag, lost, slipped>>
    BY DEF Tick
<1>2. (scene \subseteq Loot \X Nat)'
    BY <1>1 DEF DrawnInv
<1>3. ASSUME ~slipped', NEW l \in Loot PROVE KeepsLoot(f, l)'
    <2>1. KeepsLoot(f, l) /\ OneOwner
        BY <1>1, <1>3 DEF DrawnInv, OwnerInv
    <2> QED
        BY <1>1, <2>1, FrameKeeps
<1> QED
    BY <1>1, <1>2, <1>3 DEF DrawnInv

LEMMA DrawnNext ==
    ASSUME NEW f \in [Nat -> [Players -> Fates]], NEW w \in [Nat -> [Loot -> Places]],
           History(f, w), DrawnInv(f), OwnerInv, AnswersInv, PictureInv,
           [Next]_clientvars, ~GameChanges
    PROVE  DrawnInv(f)'
<1>1. CASE ListRefused
    <2>1. (Blank /\ loaded = {} /\ listed = {})'
        BY <1>1 DEF ListRefused, Blank, Nothing
    <2> QED
        BY <2>1 DEF DrawnInv, Blank
<1>2. CASE \/ ServeState \/ ServeList \/ ServePost \/ RequestFails \/ Construct \/ StateRefused
           \/ \E a \in Assets : Load(a)
           \/ \E k \in Keys : KeyDown(k) \/ KeyUp(k)
           \/ UNCHANGED clientvars
    <2>1. UNCHANGED <<loaded, view>>
        BY <1>2 DEF ServeState, ServeList, Serve, ServePost, RequestFails, Load, Construct, StateRefused,
           KeyDown, KeyUp, PressKey, control, clientvars
    <2> QED
        BY <2>1, DrawnStays
<1> QED
    BY <1>1, <1>2, AnswerKeeps, ListChanges, FrameChanges DEF Next

\* The server went through some history f, w, of which all answers are moments, and the
\* scene is drawn after it.
SceneInv ==
    \E f \in [Nat -> [Players -> Fates]], w \in [Nat -> [Loot -> Places]] :
        History(f, w) /\ DrawnInv(f)

LEMMA SceneInit == Init => SceneInv
<1> SUFFICES ASSUME Init PROVE SceneInv
    OBVIOUS
<1>1. PICK f, w : f = [k \in Nat |-> fate] /\ w = [k \in Nat |-> where]
    OBVIOUS
<1>2. /\ fate \in [Players -> Fates] /\ where \in [Loot -> Places]
      /\ version = 0 /\ loaded = {} /\ stateCalls = EmptyBag /\ listCalls = EmptyBag
      /\ \A l \in Loot : where[l] = "none"
      /\ Blank /\ listed = {}
    BY DEF Init, Fates, Places, Blank, Nothing
<1>3. f \in [Nat -> [Players -> Fates]] /\ w \in [Nat -> [Loot -> Places]]
    BY <1>1, <1>2
<1>4. Ordered(f, w)
    <2>1. 0 .. version = {0} /\ f[0] = fate /\ w[0] = where
        BY <1>1, <1>2
    <2>2. Held(f[0], w[0]) /\ Follows(f[0], w[0], f[0], w[0])
        BY <1>2, <2>1, ClientAssumption DEF Held, Follows
    <2>3. \A j \in 0 .. version : j = 0 /\ \A i \in 0 .. j : i = 0
        BY <2>1
    <2> QED
        BY <2>2, <2>3 DEF Ordered
<1>5. History(f, w)
    BY <1>1, <1>2, <1>4, CallsFacts DEF History
<1>6. DrawnInv(f)
    BY <1>2 DEF DrawnInv, Blank
<1> QED
    BY <1>3, <1>5, <1>6 DEF SceneInv

LEMMA SceneNext ==
    SceneInv /\ OwnerInv /\ AnswersInv /\ PictureInv /\ [Next]_clientvars => SceneInv'
<1> SUFFICES ASSUME SceneInv, OwnerInv, AnswersInv, PictureInv, [Next]_clientvars
             PROVE  SceneInv'
    OBVIOUS
<1>1. PICK f \in [Nat -> [Players -> Fates]], w \in [Nat -> [Loot -> Places]] :
        History(f, w) /\ DrawnInv(f)
    BY DEF SceneInv
<1>2. CASE ~GameChanges
    BY <1>1, <1>2, OtherHistory, DrawnNext DEF SceneInv
<1>3. CASE GameChanges
    <2>2. PICK g \in [Nat -> [Players -> Fates]], v \in [Nat -> [Loot -> Places]] :
            History(g, v)' /\ \A k \in 0 .. version : g[k] = f[k]
        BY <1>1, <1>3, GameHistory
    <2>3. UNCHANGED <<loaded, view>>
        BY <1>3 DEF GameChanges, control
    <2>4. DrawnInv(g)
        <3>1. ASSUME "started" \in loaded, NEW l, KeepsLoot(f, l) PROVE KeepsLoot(g, l)
            <4>1. lastList \in 0 .. version /\ desired.no \in 0 .. version
                BY <1>1, <3>1 DEF History, IsList, IsState, Snapshots
            <4>2. g[lastList] = f[lastList] /\ g[desired.no] = f[desired.no]
                BY <2>2, <4>1
            <4> QED
                BY <3>1, <4>2 DEF KeepsLoot, CarriesDrawn
        <3> QED
            BY <1>1, <3>1 DEF DrawnInv
    <2> QED
        BY <2>2, <2>3, <2>4, DrawnStays DEF SceneInv
<1> QED
    BY <1>2, <1>3

LEMMA SceneDrawn == SceneInv => SceneIsKept
<1> SUFFICES ASSUME SceneInv, ~slipped
             PROVE  /\ \A o \in scene : o[2] \in Owned(o[1])
                    /\ \A l \in Loot : \A o \in ({bag[p][l] : p \in listed} \cup {lost[l]}) \ {0} :
                            <<l, o>> \in scene
    BY DEF SceneIsKept
<1>1. PICK f \in [Nat -> [Players -> Fates]], w \in [Nat -> [Loot -> Places]] :
        History(f, w) /\ DrawnInv(f)
    BY DEF SceneInv
<1>2. CASE "started" \notin loaded
    <2>1. Blank
        BY <1>1, <1>2 DEF DrawnInv
    <2>2. \A p \in listed : p \in Players
        BY <1>1 DEF DrawnInv
    <2> QED
        BY <2>1, <2>2 DEF Blank
<1>3. CASE "started" \in loaded
    <2>1. /\ scene \subseteq Loot \X Nat /\ listed \subseteq Players
          /\ \A l \in Loot : KeepsLoot(f, l)
        BY <1>1, <1>3 DEF DrawnInv
    <2>2. listed = PlayersAt(f, lastList)
        BY <1>1, <1>3 DEF History, IsList
    <2>3. ASSUME NEW l \in Loot, NEW p \in listed, bag[p][l] # 0 PROVE <<l, bag[p][l]>> \in scene
        <3>1. p \in Players /\ f[lastList][p] # "gone"
            BY <2>1, <2>2 DEF PlayersAt
        <3>2. CarriesDrawn(f, p, l)
            BY <2>1, <2>3, <3>1 DEF KeepsLoot
        <3> QED
            BY <3>1, <3>2 DEF CarriesDrawn
    <2>4. ASSUME NEW o \in scene PROVE o[2] \in Owned(o[1])
        <3>1. o[1] \in Loot /\ o[2] \in Nat /\ o = <<o[1], o[2]>>
            BY <2>1
        <3>2. KeepsLoot(f, o[1])
            BY <2>1, <3>1
        <3> QED
            BY <3>1, <3>2 DEF KeepsLoot
    <2>5. ASSUME NEW l \in Loot, lost[l] # 0 PROVE <<l, lost[l]>> \in scene
        BY <2>1, <2>5 DEF KeepsLoot
    <2> QED
        BY <2>3, <2>4, <2>5
<1> QED
    BY <1>2, <1>3

\* As long as no answer overtook a newer one and no dog came and went between two lists,
\* everything that a listed dog carries or that lies on the ground is drawn, and whatever
\* the scene draws is referred to by what will remove it, in whatever order answers to
\* the two requests come (_applyDesiredState, _updatePlayersList).
THEOREM SceneStaysInOrder == Spec => []SceneIsKept
<1> QED
    BY SceneInit, SceneNext, SceneDrawn, PictureInvariant, OwnerInvariant, PTL DEF Spec

-----------------------------------------------------------------------------
(* The types of the page, and of what is on its way to it.                   *)

\* The types of what is on its way to the page, beside those of its variables.
TypeInv ==
    /\ TypeOK
    /\ \A s \in BagToSet(stateCalls) \ {ASKED, REFUSED} : s.no \in 0 .. version /\ me \in s.players
    /\ \A a \in BagToSet(listCalls) \ {ASKED, REFUSED} :
          a.no \in 0 .. version /\ a.players \subseteq Players

LEMMA CallsAreBags ==
    ASSUME NEW calls, IsABag(calls), NEW c
    PROVE  IsABag(Put(calls, c)) /\ IsABag(Without(calls, c)) /\ IsABag(EmptyBag)
<1>1. IsABag(EmptyBag)
    BY DEF EmptyBag, SetToBag, IsABag
<1>2. IsABag(Put(calls, c))
    BY DEF Put, (+), SetToBag, IsABag
<1>3. IsABag(Without(calls, c))
    BY DEF Without, (-), SetToBag, IsABag
<1> QED
    BY <1>1, <1>2, <1>3

LEMMA CallsType ==
    ASSUME NEW calls, NEW after, NEW answer, IsABag(calls),
           \/ after = calls \/ after = EmptyBag \/ after = Put(calls, ASKED)
           \/ \E s : after = Without(calls, s)
           \/ after = Put(Without(calls, ASKED), answer)
    PROVE  IsABag(after)
BY CallsAreBags

\* What releasing a key leaves of the pressed ones.
LEMMA KeyGoes ==
    ASSUME pressed \in Seq(Keys), IsInjective(pressed), NEW i \in 1 .. Len(pressed)
    PROVE  RemoveAt(pressed, i) \in Seq(Keys) /\ IsInjective(RemoveAt(pressed, i))
<1> DEFINE rest == RemoveAt(pressed, i)
<1>1. /\ rest \in Seq(Keys) /\ Len(rest) = Len(pressed) - 1
      /\ \A j \in 1 .. Len(rest) : rest[j] = pressed[IF j < i THEN j ELSE j + 1]
    <2> DEFINE before == SubSeq(pressed, 1, i - 1)
               after == SubSeq(pressed, i + 1, Len(pressed))
    <2>1. /\ before \in Seq(Keys) /\ Len(before) = i - 1
          /\ \A j \in 1 .. i - 1 : before[j] = pressed[j]
        OBVIOUS
    <2>2. /\ after \in Seq(Keys) /\ Len(after) = Len(pressed) - i
          /\ \A j \in 1 .. Len(pressed) - i : after[j] = pressed[i + j]
        OBVIOUS
    <2>3. rest = before \o after
        BY DEF RemoveAt
    <2> HIDE DEF before, after, rest
    <2>4. rest \in Seq(Keys) /\ Len(rest) = Len(pressed) - 1
        BY <2>1, <2>2, <2>3
    <2>5. ASSUME NEW j \in 1 .. Len(rest)
          PROVE  rest[j] = pressed[IF j < i THEN j ELSE j + 1]
        <3>1. CASE j < i
            BY <2>1, <2>2, <2>3, <2>4, <3>1
        <3>2. CASE ~(j < i)
            <4>1. j - (i - 1) \in 1 .. Len(pressed) - i /\ rest[j] = after[j - (i - 1)]
                BY <2>1, <2>2, <2>3, <2>4, <3>2
            <4> QED
                BY <2>2, <3>2, <4>1
        <3> QED
            BY <3>1, <3>2
    <2> QED
        BY <2>4, <2>5
<1> HIDE DEF rest
<1>2. ASSUME NEW a \in DOMAIN rest, NEW b \in DOMAIN rest, rest[a] = rest[b] PROVE a = b
    <2>1. a \in 1 .. Len(rest) /\ b \in 1 .. Len(rest) /\ Len(pressed) \in Nat
        BY <1>1
    <2> DEFINE from(j) == IF j < i THEN j ELSE j + 1
    <2>2. from(a) \in 1 .. Len(pressed) /\ from(b) \in 1 .. Len(pressed)
        BY <1>1, <2>1
    <2>3. from(a) = from(b)
        <3>1. pressed[from(a)] = pressed[from(b)] /\ DOMAIN pressed = 1 .. Len(pressed)
            BY <1>1, <1>2, <2>1
        <3> QED
            BY <2>2, <3>1 DEF IsInjective
    <2> QED
        BY <2>1, <2>3
<1> QED
    BY <1>1, <1>2 DEF IsInjective, rest

LEMMA KeyCounts ==
    ASSUME pressed \in Seq(Keys), IsInjective(pressed), NEW k \in Keys, k \notin ToSet(pressed)
    PROVE  Append(pressed, k) \in Seq(Keys) /\ IsInjective(Append(pressed, k))
<1>1. /\ Append(pressed, k) \in Seq(Keys) /\ Len(Append(pressed, k)) = Len(pressed) + 1
      /\ \A j \in 1 .. Len(pressed) : Append(pressed, k)[j] = pressed[j]
      /\ Append(pressed, k)[Len(pressed) + 1] = k
    OBVIOUS
<1>2. \A j \in 1 .. Len(pressed) : pressed[j] # k
    BY DEF ToSet
<1> QED
    BY <1>1, <1>2 DEF IsInjective

LEMMA LastKeyType ==
    ASSUME NEW ks \in Seq(Keys) PROVE LastKey(ks) \in Keys \cup {STOP}
BY DEF LastKey, Last

\* Applying an answer keeps the types of the picture.
LEMMA AppliedType ==
    ASSUME OwnerInv, NEW s, s.players \subseteq Players, NEW ps, NEW late \in BOOLEAN,
           Apply(s, ps, late), slipped \in BOOLEAN,
           bag \in [Players -> Objects], lost \in Objects, vanishing \in Objects,
           scene \subseteq Loot \X Nat
    PROVE  /\ current' \subseteq Players /\ slipped' \in BOOLEAN
           /\ bag' \in [Players -> Objects] /\ lost' \in Objects /\ vanishing' \in Objects
           /\ scene' \subseteq Loot \X Nat
<1>1. \A l \in Loot : NewObject(l) \in Nat
    BY NewObjectFacts DEF OwnerInv
<1>2. \A l \in Loot : LostAfter(s, l) \in Nat /\ Abandoned(s, l) \in Nat
    BY <1>1 DEF LostAfter, Abandoned, Objects
<1>3. \A l \in Loot, p \in Players : Carried(p, l) \in Nat /\ BagAfter(s, p, l) \in Nat
    BY <1>1, <1>2 DEF BagAfter, Carried, Objects
<1>4. \A l \in Loot : Dropped(s, l) \subseteq Nat
    BY <1>2, <1>3 DEF Dropped
<1>5. lost' \in Objects
    BY <1>2 DEF Apply, Objects
<1>6. bag' \in [Players -> Objects]
    BY <1>3 DEF Apply, Objects, Nothing
<1>7. vanishing' \in Objects
    BY <1>4 DEF Apply, Objects
<1>8. scene' \subseteq Loot \X Nat
    BY AppliedScene DEF OwnerInv
<1> QED
    BY <1>5, <1>6, <1>7, <1>8 DEF Apply

LEMMA TypeInit == Init => TypeInv
<1> SUFFICES ASSUME Init PROVE TypeInv
    OBVIOUS
<1>1. IsABag(EmptyBag) /\ BagToSet(EmptyBag) = {}
    BY CallsFacts DEF EmptyBag, SetToBag, IsABag
<1>2. pressed \in Seq(Keys) /\ IsInjective(pressed)
    <2>1. pressed = <<>>
        BY DEF Init
    <2>2. <<>> \in Seq(Keys) /\ IsInjective(<<>>)
        BY DEF IsInjective
    <2> QED
        BY <2>1, <2>2
<1>3. /\ fate \in [Players -> Fates] /\ where \in [Loot -> Places]
      /\ bag \in [Players -> Objects] /\ lost \in Objects /\ vanishing \in Objects
    BY DEF Init, Fates, Places, Objects, Nothing
<1>6. BagToSet(posts) \subseteq Keys \cup {STOP}
    <2>1. posts = EmptyBag \/ \E k \in Keys \cup {STOP} : posts = SetToBag({k})
        BY DEF Init
    <2>2. \A k \in Keys \cup {STOP} : BagToSet(SetToBag({k})) = {k}
        BY OneInABag
    <2> QED
        BY <1>1, <2>1, <2>2
<1>4. /\ heading \in Keys \cup {STOP} /\ version \in 0 .. MaxEvents /\ presses \in 0 .. MaxEvents
      /\ lastList \in 0 .. MaxEvents
    BY ClientAssumption DEF Init
<1>5. TypeOK
    BY <1>1, <1>2, <1>3, <1>4, <1>6 DEF Init, TypeOK
<1> QED
    BY <1>1, <1>5 DEF Init, TypeInv

LEMMA TypeNext == TypeInv /\ OwnerInv /\ AnswersInv /\ [Next]_clientvars => TypeInv'
<1> SUFFICES ASSUME TypeInv, OwnerInv, AnswersInv, [Next]_clientvars PROVE TypeInv'
    OBVIOUS
<1>1. TypeOK
    BY DEF TypeInv
<1> DEFINE Server == /\ fate \in [Players -> Fates] /\ where \in [Loot -> Places]
                     /\ heading \in Keys \cup {STOP} /\ version \in 0 .. MaxEvents
                     /\ presses \in 0 .. MaxEvents
           Calls == /\ IsABag(stateCalls) /\ IsABag(listCalls)
                    /\ BagToSet(posts) \subseteq Keys \cup {STOP}
           Control == /\ page \in {"loading", "game", "records"} /\ missing \subseteq Assets
                      /\ loaded \subseteq {"state", "players", "started"}
                      /\ {halted, slipped, tangled} \subseteq BOOLEAN
           Pressed == pressed \in Seq(Keys) /\ IsInjective(pressed)
           Told == /\ desired # NIL => desired.no \in 0 .. version /\ me \in desired.players
                   /\ current \subseteq Players /\ listed \subseteq Players
                   /\ lastList \in 0 .. MaxEvents
           Drawn == /\ bag \in [Players -> Objects] /\ lost \in Objects /\ vanishing \in Objects
                    /\ scene \subseteq Loot \X Nat
           States == \A s \in BagToSet(stateCalls) \ {ASKED, REFUSED} :
                        s.no \in 0 .. version /\ me \in s.players
           Lists == \A a \in BagToSet(listCalls) \ {ASKED, REFUSED} :
                        a.no \in 0 .. version /\ a.players \subseteq Players
<1>2. /\ Server /\ Calls /\ Control /\ Pressed /\ Told /\ Drawn /\ States /\ Lists
    BY DEF TypeInv, TypeOK
<1>3. ASSUME Server', Calls', Control', Pressed', Told', Drawn', States', Lists'
      PROVE  TypeInv'
    BY <1>3 DEF TypeInv, TypeOK
<1> HIDE DEF Server, Calls, Control, Pressed, Told, Drawn, States, Lists
<1>4. Server'
    <2>1. CASE GameChanges
        <3>1. fate' \in [Players -> Fates] /\ where' \in [Loot -> Places]
            BY <1>2, <2>1 DEF Server, GameChanges, Fates, Places, Playing
        <3>2. version' \in 0 .. MaxEvents /\ UNCHANGED <<heading, presses>>
            BY <1>2, <2>1, ClientAssumption DEF Server, GameChanges, MayChange, MayHappen, keys
        <3> QED
            BY <1>2, <3>1, <3>2 DEF Server
    <2>2. CASE ServePost
        <3>1. heading' \in Keys \cup {STOP} /\ UNCHANGED <<fate, where, version, presses>>
            BY <1>2, <2>2 DEF Calls, ServePost, keys
        <3> QED
            BY <1>2, <3>1 DEF Server
    <2>3. CASE \E k \in Keys : KeyDown(k) \/ KeyUp(k)
        <3>1. presses' \in 0 .. MaxEvents /\ UNCHANGED server
            BY <1>2, <2>3, ClientAssumption DEF Server, KeyDown, KeyUp, PressKey, MayHappen
        <3> QED
            BY <1>2, <3>1 DEF Server, server
    <2>4. CASE ~(GameChanges \/ ServePost \/ \E k \in Keys : KeyDown(k) \/ KeyUp(k))
        <3>1. UNCHANGED <<server, presses>>
            BY <2>4 DEF Next, ServeState, ServeList, Serve, RequestFails, Load, Construct, StateArrives,
               StateRefused, ListArrives, ListRefused, Tick, server, keys, clientvars
        <3> QED
            BY <1>2, <3>1 DEF Server, server
    <2> QED
        BY <2>1, <2>2, <2>3, <2>4
<1>5. version' \in Nat /\ version <= version' /\ version \in 0 .. MaxEvents
    BY <1>2, <1>4, ClientAssumption
       DEF Server, Next, GameChanges, ServeState, ServeList, Serve, ServePost, RequestFails, Load,
           Construct, StateArrives, StateRefused, ListArrives, ListRefused, Tick, KeyDown, KeyUp,
           PressKey, server, clientvars
<1>6. \/ stateCalls' = stateCalls \/ stateCalls' = EmptyBag
      \/ stateCalls' = Put(stateCalls, ASKED)
      \/ \E s : stateCalls' = Without(stateCalls, s)
      \/ stateCalls' = Put(Without(stateCalls, ASKED), Snapshot) /\ me \in Playing
      \/ stateCalls' = Put(Without(stateCalls, ASKED), REFUSED)
    <2>1. CASE ServeState
        BY <2>1 DEF ServeState, Serve
    <2>2. CASE ServeList
        BY <2>2 DEF ServeList
    <2>3. CASE ~(ServeState \/ ServeList)
        BY <2>3 DEF Next, GameChanges, ServePost, RequestFails, Load, Construct, StateArrives,
           StateRefused, ListArrives, ListRefused, Tick, KeyDown, KeyUp, PressKey, clientvars
    <2> QED
        BY <2>1, <2>2, <2>3
<1>7. \/ listCalls' = listCalls \/ listCalls' = EmptyBag
       \/ listCalls' = Put(listCalls, ASKED)
       \/ \E s : listCalls' = Without(listCalls, s)
       \/ listCalls' = Put(Without(listCalls, ASKED), PlayerList)
       \/ listCalls' = Put(Without(listCalls, ASKED), REFUSED)
    <2>1. CASE ServeState
        BY <2>1 DEF ServeState
    <2>2. CASE ServeList
        BY <2>2 DEF ServeList, Serve
    <2>3. CASE ~(ServeState \/ ServeList)
        BY <2>3 DEF Next, GameChanges, ServePost, RequestFails, Load, Construct, StateArrives,
           StateRefused, ListArrives, ListRefused, Tick, KeyDown, KeyUp, PressKey, clientvars
    <2> QED
        BY <2>1, <2>2, <2>3
<1>8. Pressed'
    <2>1. CASE \E k \in Keys : KeyDown(k)
        BY <1>2, <2>1, KeyCounts DEF KeyDown, Pressed
    <2>2. CASE \E k \in Keys : KeyUp(k)
        BY <1>2, <2>2, KeyGoes DEF KeyUp, Pressed
    <2>3. CASE ~ \E k \in Keys : KeyDown(k) \/ KeyUp(k)
        <3>1. UNCHANGED pressed
            BY <2>3 DEF Next, GameChanges, ServeState, ServeList, Serve, ServePost, RequestFails, Load,
               Construct, StateArrives, StateRefused, ListArrives, ListRefused, Tick, keys, clientvars
        <3> QED
            BY <1>2, <3>1 DEF Pressed
    <2> QED
        BY <2>1, <2>2, <2>3
<1>9. Calls'
    <2>1. IsABag(stateCalls)' /\ IsABag(listCalls)'
        BY <1>2, <1>6, <1>7, CallsType DEF Calls
    <2>2. BagToSet(posts') \subseteq Keys \cup {STOP}
        <3>1. CASE \E k \in Keys : KeyDown(k) \/ KeyUp(k)
            <4>1. LastKey(pressed') \in Keys \cup {STOP} /\ posts' = Put(posts, LastKey(pressed'))
                BY <3>1, <1>8, LastKeyType DEF Pressed, KeyDown, KeyUp, PressKey
            <4> QED
                BY <1>2, <4>1, CallsFacts DEF Calls
        <3>2. CASE ~ \E k \in Keys : KeyDown(k) \/ KeyUp(k)
            <4>1. posts' = posts \/ \E c : posts' = Without(posts, c)
                BY <3>2 DEF Next, GameChanges, ServeState, ServeList, Serve, ServePost, RequestFails, Load,
                   Construct, StateArrives, StateRefused, ListArrives, ListRefused, Tick, clientvars
            <4> QED
                BY <1>2, <4>1, CallsFacts DEF Calls
        <3> QED
            BY <3>1, <3>2
    <2> QED
        BY <2>1, <2>2 DEF Calls
<1>10. Snapshot.no = version /\ Snapshot.players = Playing /\ PlayerList.no = version
      /\ PlayerList.players = Playing /\ Playing \subseteq Players
    BY DEF Snapshot, PlayerList, Playing
<1>11. States'
    <2>1. ASSUME NEW s \in BagToSet(stateCalls') \ {ASKED, REFUSED}
          PROVE  s \in BagToSet(stateCalls) \ {ASKED, REFUSED} \/ (s = Snapshot /\ me \in Playing)
        <3>1. BagToSet(Without(stateCalls, ASKED)) \subseteq BagToSet(stateCalls)
            BY CallsFacts
        <3>2. CASE \/ stateCalls' = stateCalls \/ stateCalls' = EmptyBag
                   \/ stateCalls' = Put(stateCalls, ASKED)
                   \/ \E c : stateCalls' = Without(stateCalls, c)
            BY <2>1, <3>2, CallsFacts
        <3>3. CASE stateCalls' = Put(Without(stateCalls, ASKED), Snapshot) /\ me \in Playing
            BY <2>1, <3>1, <3>3, CallsFacts
        <3>4. CASE stateCalls' = Put(Without(stateCalls, ASKED), REFUSED)
            BY <2>1, <3>1, <3>4, CallsFacts
        <3> QED
            BY <1>6, <3>2, <3>3, <3>4
    <2> QED
        BY <1>2, <1>5, <1>10, <2>1 DEF States
<1>12. Lists'
    <2>1. ASSUME NEW a \in BagToSet(listCalls') \ {ASKED, REFUSED}
          PROVE  a \in BagToSet(listCalls) \ {ASKED, REFUSED} \/ a = PlayerList
        BY <1>7, CallsFacts
    <2> QED
        BY <1>2, <1>5, <1>10, <2>1 DEF Lists
<1>13. ASSUME StateArrives \/ ListArrives
       PROVE  (Told /\ Drawn /\ Control)'
    <2>1. /\ \/ \E s, ps, late : /\ Apply(s, ps, late) /\ s.players \subseteq Players
                                 /\ late \in BOOLEAN
             \/ UNCHANGED <<current, objects, slipped>>
             \/ /\ \E ps : UpdatePlayersList(ps)
                /\ UNCHANGED <<current, lost, vanishing>> /\ slipped' \in BOOLEAN
          /\ \/ desired' = desired
             \/ /\ desired' \in BagToSet(stateCalls) \ {ASKED, REFUSED}
          /\ \/ UNCHANGED <<listed, lastList>>
             \/ /\ lastList' \in 0 .. version
                /\ listed' \subseteq Players
          /\ loaded' \subseteq loaded \cup {"state", "players", "started"}
          /\ UNCHANGED <<page, missing, halted, tangled, version>>
        <3>1. CASE StateArrives
            <4>1. PICK s \in BagToSet(stateCalls) \ {ASKED, REFUSED} :
                    /\ desired' = s
                    /\ \/ Apply(s, listed, Overtaken(s)) /\ UNCHANGED loaded
                       \/ StartGame(loaded \cup {"state"}, s, listed)
                    /\ UNCHANGED <<page, missing, halted, tangled, version, listed, lastList>>
                BY <3>1 DEF StateArrives, server
            <4>2. s.players \subseteq Players /\ Overtaken(s) \in BOOLEAN
                BY DEF AnswersInv, Overtaken
            <4>3. /\ \/ \E late : Apply(s, listed, late) /\ late \in BOOLEAN
                     \/ UNCHANGED <<current, objects, slipped>>
                  /\ loaded' \subseteq loaded \cup {"state", "players", "started"}
                <5>1. CASE Apply(s, listed, Overtaken(s)) /\ UNCHANGED loaded
                    BY <4>2, <5>1
                <5>2. CASE StartGame(loaded \cup {"state"}, s, listed)
                    BY <5>2 DEF StartGame
                <5> QED
                    BY <4>1, <5>1, <5>2
            <4> QED
                BY <4>1, <4>2, <4>3
        <3>2. CASE ListArrives
            <4>1. PICK a \in BagToSet(listCalls) \ {ASKED, REFUSED} :
                    /\ \/ /\ UpdatePlayersList(a.players) /\ slipped' = (slipped \/ a.no < lastList)
                          /\ UNCHANGED <<loaded, current, lost, vanishing>>
                       \/ StartGame(loaded \cup {"players"}, desired, a.players)
                    /\ listed' = a.players /\ lastList' = a.no /\ desired' = desired
                    /\ UNCHANGED <<page, missing, halted, tangled, version>>
                BY <3>2 DEF ListArrives, UpdatePlayersList, server
            <4>2. a.no \in 0 .. version /\ a.players \subseteq Players
                BY <1>2 DEF Lists
            <4>3. "state" \in loaded => desired.players \subseteq Players
                BY DEF AnswersInv
            <4>4. /\ \/ /\ Apply(desired, a.players, FALSE)
                        /\ desired.players \subseteq Players
                     \/ UNCHANGED <<current, objects, slipped>>
                     \/ /\ UpdatePlayersList(a.players)
                        /\ UNCHANGED <<current, lost, vanishing>> /\ slipped' \in BOOLEAN
                  /\ loaded' \subseteq loaded \cup {"state", "players", "started"}
                <5>1. CASE /\ UpdatePlayersList(a.players) /\ slipped' = (slipped \/ a.no < lastList)
                           /\ UNCHANGED <<loaded, current, lost, vanishing>>
                    BY <5>1
                <5>2. CASE StartGame(loaded \cup {"players"}, desired, a.players)
                    BY <4>3, <5>2 DEF StartGame
                <5> QED
                    BY <4>1, <5>1, <5>2
            <4> QED
                BY <4>1, <4>2, <4>4
        <3> QED
            BY <1>13, <3>1, <3>2
    <2>2. OwnerInv /\ slipped \in BOOLEAN
        BY <1>2 DEF Control
    <2>3. /\ current' \subseteq Players /\ slipped' \in BOOLEAN
          /\ bag' \in [Players -> Objects] /\ lost' \in Objects /\ vanishing' \in Objects
          /\ scene' \subseteq Loot \X Nat
        <3>1. CASE \E s, ps, late : /\ Apply(s, ps, late) /\ s.players \subseteq Players
                                    /\ late \in BOOLEAN
            BY <1>2, <2>2, <3>1, AppliedType DEF Drawn
        <3>2. CASE UNCHANGED <<current, objects, slipped>>
            BY <1>2, <2>2, <3>2 DEF Drawn, Told, objects
        <3>3. CASE /\ \E ps : UpdatePlayersList(ps)
                   /\ UNCHANGED <<current, lost, vanishing>> /\ slipped' \in BOOLEAN
            BY <1>2, <2>2, <3>3 DEF Drawn, Told, UpdatePlayersList, Objects, Nothing
        <3> QED
            BY <2>1, <3>1, <3>2, <3>3
    <2>4. Told'
        BY <1>2, <1>5, <2>1, <2>3, ClientAssumption DEF Told, States
    <2>5. Control'
        BY <1>2, <2>1, <2>3 DEF Control
    <2> QED
        BY <2>3, <2>4, <2>5 DEF Drawn
<1>14. ASSUME ListRefused PROVE (Told /\ Drawn /\ Control)'
    <2>1. Drawn'
        BY <1>14 DEF ListRefused, Drawn, Objects, Nothing
    <2>2. Control'
        BY <1>2, <1>14 DEF ListRefused, Control
    <2>3. Told'
        BY <1>14, ClientAssumption DEF ListRefused, Told
    <2> QED
        BY <2>1, <2>2, <2>3
<1>15. ASSUME NEW poll, NEW sync, Tick(poll, sync) PROVE (Told /\ Drawn /\ Control)'
    <2>1. PICK faded \in SUBSET Loot :
            /\ vanishing' = [l \in Loot |-> IF l \in faded THEN 0 ELSE vanishing[l]]
            /\ scene' = scene \ {<<l, vanishing[l]>> : l \in faded}
        BY <1>15 DEF Tick
    <2>2. /\ UNCHANGED <<page, missing, loaded, slipped, tangled, version>> /\ halted' \in BOOLEAN
          /\ UNCHANGED <<desired, current, listed, lastList, bag, lost>>
        BY <1>15 DEF Tick, Throws, server
    <2>3. Drawn'
        BY <1>2, <2>1, <2>2 DEF Drawn, Objects
    <2> QED
        BY <1>2, <2>2, <2>3 DEF Told, Control
<1>16. ASSUME \/ GameChanges \/ ServeState \/ ServeList \/ ServePost \/ RequestFails
              \/ \E a \in Assets : Load(a)
              \/ Construct \/ StateRefused
              \/ \E k \in Keys : KeyDown(k) \/ KeyUp(k)
              \/ UNCHANGED clientvars
       PROVE  (Told /\ Drawn /\ Control)'
    <2>1. /\ UNCHANGED <<view, loaded, halted>>
          /\ page' \in {page, "game"} /\ missing' \subseteq missing
          /\ tangled' = tangled \/ tangled' \in BOOLEAN
        BY <1>16 DEF GameChanges, ServeState, ServeList, Serve, ServePost, RequestFails, Load, Construct,
           StateRefused, KeyDown, KeyUp, PressKey, control, clientvars
    <2>2. Drawn'
        BY <1>2, <2>1 DEF Drawn, view, objects
    <2>3. Control'
        BY <1>2, <2>1 DEF Control, view
    <2>4. Told'
        BY <1>2, <1>5, <2>1 DEF Told, view
    <2> QED
        BY <2>2, <2>3, <2>4
<1>17. (Told /\ Drawn /\ Control)'
    BY <1>13, <1>14, <1>15, <1>16 DEF Next
<1> QED
    BY <1>3, <1>4, <1>9, <1>8, <1>11, <1>12, <1>17

\* The page and what travels to it keep their types, and the last answer told of a moment
\* in which I played.
THEOREM ClientTypeCorrect == Spec => []TypeOK
<1>1. TypeInv => TypeOK
    BY DEF TypeInv
<1> QED
    BY <1>1, TypeInit, TypeNext, OwnerInvariant, PTL DEF Spec

-----------------------------------------------------------------------------
(* How dogs and loot move between two answers (Motion).                    *)

\* A dog that is told nothing new for 300 ms looks where the server has it look,
\* wherever the turn began: even from an angle that turns cut short have wound
\* up beyond a circle.
THEOREM TurnsEnd ==
    ASSUME NEW base \in Int, NEW toward \in Int, NEW time \in Int, time > Half
    PROVE  ConvertedDir(base, toward, time) = toward
<1>1. Half \in Nat
    BY HalfAssumption
<1>2. RealDelta(base, toward) <= Half
    BY <1>1 DEF RealDelta, Magnitude
<1>3. time > RealDelta(base, toward)
    BY <1>1, <1>2 DEF RealDelta, Magnitude
<1> QED
    BY <1>3 DEF ConvertedDir

\* From an angle less than a circle away a dog turns the shorter way, by half a
\* circle at most, and the turn arrives: the last frame of it makes no jump.
THEOREM TurnsTheShorterWay ==
    ASSUME NEW base \in Int, NEW toward \in Int,
           Magnitude(toward - base) < 2 * Half
    PROVE  /\ RealDelta(base, toward) \in 0 .. Half
           /\ base + RotDir(base, toward) * RealDelta(base, toward)
                \in {toward, toward + 2 * Half, toward - 2 * Half}
<1>1. Half \in Nat \ {0}
    BY HalfAssumption
<1> DEFINE delta == toward - base
<1>2. CASE delta <= -Half
    BY <1>1, <1>2 DEF RealDelta, Magnitude, RotDir
<1>3. CASE -Half < delta /\ delta < 0
    BY <1>1, <1>3 DEF RealDelta, Magnitude, RotDir
<1>4. CASE 0 <= delta /\ delta < Half
    BY <1>1, <1>4 DEF RealDelta, Magnitude, RotDir
<1>5. CASE Half <= delta
    BY <1>1, <1>5 DEF RealDelta, Magnitude, RotDir
<1> QED
    BY <1>1, <1>2, <1>3, <1>4, <1>5

\* Angles do not wind up without end, however often a turn is cut short by the
\* next command: the angle drawn, from which the next turn starts, stays within
\* one circle of the circle.
THEOREM TurnsStayNear ==
    ASSUME NEW base \in -(2 * Half) .. 4 * Half, NEW toward \in 0 .. 2 * Half,
           NEW time \in Nat
    PROVE  ConvertedDir(base, toward, time) \in -(2 * Half) .. 4 * Half
<1>1. Half \in Nat \ {0}
    BY HalfAssumption
<1> DEFINE delta == toward - base
<1>2. CASE time > RealDelta(base, toward)
    BY <1>1, <1>2 DEF ConvertedDir
<1>3. CASE ~(time > RealDelta(base, toward))
    <2>1. ConvertedDir(base, toward, time) = base + RotDir(base, toward) * time
        BY <1>3 DEF ConvertedDir
    <2>2. time <= RealDelta(base, toward)
        BY <1>1, <1>3 DEF RealDelta, Magnitude
    <2>3. CASE delta <= -Half
        BY <1>1, <2>1, <2>2, <2>3 DEF RealDelta, Magnitude, RotDir
    <2>4. CASE -Half < delta /\ delta < 0
        BY <1>1, <2>1, <2>2, <2>4 DEF RealDelta, Magnitude, RotDir
    <2>5. CASE 0 <= delta /\ delta < Half
        BY <1>1, <2>1, <2>2, <2>5 DEF RealDelta, Magnitude, RotDir
    <2>6. CASE Half <= delta
        BY <1>1, <2>1, <2>2, <2>6 DEF RealDelta, Magnitude, RotDir
    <2> QED
        BY <1>1, <2>3, <2>4, <2>5, <2>6
<1> QED
    BY <1>2, <1>3

\* A product is no larger than that of two bounds.
LEMMA ProductBound ==
    ASSUME NEW a \in Int, NEW b \in Int, NEW m \in Nat, NEW n \in Nat,
           Magnitude(a) <= m, Magnitude(b) <= n
    PROVE  Magnitude(a * b) <= m * n
<1>1. ASSUME NEW x \in Nat, NEW y \in Nat, x <= m, y <= n PROVE x * y <= m * n
    <2>1. x * y <= m * y
        BY <1>1
    <2>2. m * y <= m * n
        BY <1>1
    <2> QED
        BY <2>1, <2>2
<1>2. PICK x \in Nat : x = Magnitude(a)
    BY DEF Magnitude
<1>3. PICK y \in Nat : y = Magnitude(b)
    BY DEF Magnitude
<1>4. x * y <= m * n
    BY <1>1, <1>2, <1>3
<1>5. (a = x \/ a = -x) /\ (b = y \/ b = -y)
    BY <1>2, <1>3 DEF Magnitude
<1>6. a * b = x * y \/ a * b = -(x * y)
    BY <1>5
<1>7. x * y \in Nat
    OBVIOUS
<1> QED
    BY <1>4, <1>6, <1>7 DEF Magnitude

\* However far from its place a dog was drawn, from the next answer on it is drawn
\* within near of it, as long as the answer after that does not take longer than
\* twice the time of catching up: what polls leave of an error does not add up, and
\* a dog that walks on does not jump again.
THEOREM StaysNear ==
    ASSUME NEW drawn \in Int, NEW pos \in Int, NEW speed \in Int, NEW slow \in Int,
           NEW near \in Nat, NEW dest \in Nat, NEW time \in 0 .. 2 * dest
    PROVE  Magnitude(DrawnAfter(drawn, pos, speed, slow, near, dest, time)
                     - (pos + speed * time) * dest) <= near * dest
<1> DEFINE there == (pos + speed * time) * dest
<1>1. CASE Jumps(drawn, pos, speed, slow, near)
    <2>1. DrawnAfter(drawn, pos, speed, slow, near, dest, time) = there
        BY <1>1 DEF DrawnAfter
    <2>2. there \in Int /\ near * dest >= 0
        OBVIOUS
    <2> HIDE DEF there
    <2>3. there - there = 0
        BY <2>2
    <2> QED
        BY <2>1, <2>2, <2>3 DEF Magnitude, there
<1>2. CASE ~Jumps(drawn, pos, speed, slow, near)
    <2>1. DrawnAfter(drawn, pos, speed, slow, near, dest, time) - there
            = (drawn - pos) * (dest - time)
        BY <1>2 DEF DrawnAfter, NewSpeed
    <2>2. Magnitude(drawn - pos) <= near /\ Magnitude(dest - time) <= dest
        BY <1>2 DEF Jumps, Magnitude
    <2>3. Magnitude((drawn - pos) * (dest - time)) <= near * dest
        BY <2>2, ProductBound
    <2> QED
        BY <2>1, <2>3
<1> QED
    BY <1>1, <1>2

\* Loot that follows a dog never overshoots the place it follows to, however
\* late the frame: it is drawn between its place and its target.
THEOREM LootNeverOvershoots ==
    ASSUME NEW pos \in Int, NEW target \in Int, NEW num \in Nat, NEW den \in Nat \ {0},
           pos <= target
    PROVE  pos * den <= DoMove(pos, target, num, den) /\ DoMove(pos, target, num, den) <= target * den
<1> DEFINE share == IF num < den THEN num ELSE den
<1>1. share \in 0 .. den
    OBVIOUS
<1> HIDE DEF share
<1>2. (target - pos) \in Nat
    OBVIOUS
<1>3. 0 <= (target - pos) * share /\ (target - pos) * share <= (target - pos) * den
    BY <1>1, <1>2
<1>4. (target - pos) * den = target * den - pos * den
    OBVIOUS
<1> QED
    BY <1>1, <1>3, <1>4 DEF DoMove, share
===============================================================================
