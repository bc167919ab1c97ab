-------------------------------- MODULE Loot --------------------------------
(***************************************************************************)
(* The loot of one game session: what lies on the map, what the dogs carry *)
(* and what they have turned into score.  OnTick retires dogs, lets the    *)
(* dogs gather along the way they walked and then spawns new loot.         *)
(* Geometry is left to Movement and CollisionDetector: a tick may bring    *)
(* about any set of gathering events, in any order of their times.         *)
(***************************************************************************)
EXTENDS Naturals, FiniteSets, FiniteSetsExt

CONSTANTS
    Dogs,          \* dogs that ever join
    Offices,       \* offices of the map
    Worths,        \* worths of the loot types
    Capacity,      \* bag capacity of the map
    Ticks,         \* deltas a tick may carry
    Chance,        \* 100 (1 - (1 - probability_) ^ (time / base_interval_))
    MayThrow,      \* whether the retirement of a dog may throw
    MaxLoot,       \* bound: objects spawned
    MaxQuiet       \* bound: longer times without loot are not told apart

Ids == 0 .. MaxLoot - 1

ASSUME LootAssumption ==
    /\ IsFiniteSet(Dogs)
    /\ Offices \cap Ids = {}
    /\ Worths \subseteq Nat /\ Ticks \subseteq Nat
    /\ Capacity \in Nat /\ MaxLoot \in Nat /\ MaxQuiet \in Nat
    /\ Chance \in [0 .. MaxQuiet -> 0 .. 100]
    /\ MayThrow \in BOOLEAN

VARIABLES
    looters,            \* dogs_ of the session
    retired,            \* dogs that have left it
    bag,                \* bagpack_ of every dog, ids only
    score,              \* score_
    on_map,             \* keys of loot_obj_id_to_obj_
    worth,              \* worth of every object, 0 before it is spawned
    spawned,            \* objects_spawned_
    time_without_loot,  \* of the LootGenerator
    at,                 \* where OnTick stands
    tick,               \* its argument
    events,             \* gathering events that are not handled yet
    banked              \* ghost: objects each dog has dropped at an office

loot == <<bag, score, on_map, worth, spawned, banked>>
vars == <<looters, retired, loot, time_without_loot, at, tick, events>>

AtMost(cap, x) == IF x > cap THEN cap ELSE x

Init ==
    /\ looters = {} /\ retired = {}
    /\ bag = [d \in Dogs |-> {}] /\ score = [d \in Dogs |-> 0]
    /\ on_map = {} /\ worth = [i \in Ids |-> 0] /\ spawned = 0
    /\ time_without_loot = 0
    /\ at = "idle" /\ tick = 0 /\ events = {}
    /\ banked = [d \in Dogs |-> {}]

Join(d) ==
    /\ at = "idle" /\ d \notin looters \cup retired
    /\ looters' = looters \cup {d}
    /\ UNCHANGED <<retired, loot, time_without_loot, at, tick, events>>

\* OnTick up to the end of RetireDogs: the dogs in left are due and go, with
\* what they carry.
StartTick(t, left) ==
    /\ at = "idle" /\ left \subseteq looters
    /\ spawned + Cardinality(Dogs) <= MaxLoot
    /\ looters' = looters \ left /\ retired' = retired \cup left
    /\ at' = "collide" /\ tick' = t
    /\ UNCHANGED <<loot, time_without_loot, events>>

\* do_on_retire_ throws for a dog that is due: those before it have gone, and
\* the rest of OnTick is skipped.
TickThrows(left) ==
    /\ MayThrow /\ at = "idle" /\ left \subseteq looters /\ left # looters
    /\ looters' = looters \ left /\ retired' = retired \cup left
    /\ UNCHANGED <<loot, time_without_loot, at, tick, events>>

\* What FindGatherEvents finds, in terms of dogs, loot objects and offices.
FindGatherEvents(found) ==
    /\ at = "collide" /\ found \subseteq looters \X (on_map \cup Offices)
    /\ events' = found /\ at' = "gather"
    /\ UNCHANGED <<looters, retired, loot, time_without_loot, tick>>

Event(d, item) ==
    /\ at = "gather" /\ <<d, item>> \in events
    /\ events' = events \ {<<d, item>>}
    /\ UNCHANGED <<looters, retired, time_without_loot, at, tick, worth, spawned>>

\* Mutant: the object is copied, not extracted.
CollectCopies(d, i) ==
    /\ Event(d, i) /\ i \in Ids
    /\ IF Cardinality(bag[d]) >= Capacity \/ i \notin on_map
       THEN UNCHANGED bag
       ELSE bag' = [bag EXCEPT ![d] = @ \cup {i}]
    /\ UNCHANGED <<on_map, score, banked>>
\* HandleLootColletc: another dog may have taken the object earlier in this tick.
Collect(d, i) ==
    /\ Event(d, i) /\ i \in Ids
    /\ IF Cardinality(bag[d]) >= Capacity \/ i \notin on_map
       THEN UNCHANGED <<bag, on_map>>
       ELSE bag' = [bag EXCEPT ![d] = @ \cup {i}] /\ on_map' = on_map \ {i}
    /\ UNCHANGED <<score, banked>>

WorthOf(objects) == MapThenSumSet(LAMBDA i : worth[i], objects)

\* Mutant: the bag is not emptied.
DropKeepsBag(d, office) ==
    /\ Event(d, office) /\ office \in Offices
    /\ score' = [score EXCEPT ![d] = @ + WorthOf(bag[d])]
    /\ banked' = [banked EXCEPT ![d] = @ \cup bag[d]]
    /\ UNCHANGED <<bag, on_map>>
\* HandleLootDrop: DropBagpackContent.
Drop(d, office) ==
    /\ Event(d, office) /\ office \in Offices
    /\ score' = [score EXCEPT ![d] = @ + WorthOf(bag[d])]
    /\ banked' = [banked EXCEPT ![d] = @ \cup bag[d]]
    /\ bag' = [bag EXCEPT ![d] = {}]
    /\ UNCHANGED on_map

\* Mutant: the loot on the map is not counted.
ShortageOfAll(loot_count, looter_count) == looter_count
Shortage(loot_count, looter_count) ==
    IF loot_count > looter_count THEN 0 ELSE looter_count - loot_count

\* std::round of the shortage times the probability.
Generated(shortage, time) == (2 * shortage * Chance[time] + 100) \div 200

\* Mutant: the time without loot starts again at every call.
TimeAfterAnyCall(time, generated) == 0
TimeAfter(time, generated) == IF generated > 0 THEN 0 ELSE time

\* SpawnLoot: Generate with the random generator that always returns 1, then
\* SpawnLootObject as often as it says, each of a random type.
SpawnLoot ==
    /\ at = "gather" /\ events = {}
    /\ LET time == AtMost(MaxQuiet, time_without_loot + tick)
           generated == Generated(Shortage(Cardinality(on_map), Cardinality(looters)), time)
           new == spawned .. spawned + generated - 1 IN
       /\ time_without_loot' = TimeAfter(time, generated)
       /\ on_map' = on_map \cup new /\ spawned' = spawned + generated
       /\ \E w \in [new -> Worths] :
             worth' = [i \in Ids |-> IF i \in new THEN w[i] ELSE worth[i]]
    /\ at' = "idle" /\ tick' = 0
    /\ UNCHANGED <<looters, retired, bag, score, events, banked>>

Step ==
    \/ \E found \in SUBSET (looters \X (on_map \cup Offices)) : FindGatherEvents(found)
    \/ \E e \in events : Collect(e[1], e[2]) \/ Drop(e[1], e[2])
    \/ SpawnLoot

NextTick == \E t \in Ticks, left \in SUBSET looters : StartTick(t, left)

Next ==
    \/ \E d \in Dogs : Join(d)
    \/ NextTick
    \/ \E left \in SUBSET looters : TickThrows(left)
    \/ Step

Spec == Init /\ [][Next]_vars

\* The ticker ticks again and again, and a tick runs to its end.
FairSpec == Spec /\ WF_vars(NextTick) /\ WF_vars(Step)

-----------------------------------------------------------------------------

\* Every object spawned is in at most one place: on the map, in one bag, or
\* spent at an office by one dog.  Two dogs that pass it in the same tick do
\* not both get it, and no bag is filled beyond its capacity.
LootInOnePlace ==
    /\ \A d \in Dogs : Cardinality(bag[d]) <= Capacity
    /\ \A i \in on_map : i < spawned /\ \A d \in Dogs : i \notin bag[d] \cup banked[d]
    /\ \A d, e \in Dogs :
        (bag[d] \cup banked[d]) \cap (bag[e] \cup banked[e]) # {} => d = e
    /\ \A d \in Dogs : bag[d] \cap banked[d] = {}

\* The score is the worth of what was dropped at offices, each object counted
\* once, however often a dog passes an office in a tick.
ScoreIsWorthOfBanked == \A d \in Dogs : score[d] = WorthOf(banked[d])

\* New loot fills the map up to one object for every looter and not beyond
\* (Generate is given the loot that is left after the gathering).
SpawnFillsUpToLooters ==
    [][spawned' > spawned => Cardinality(on_map') <= Cardinality(looters)]_vars

MissingLoot(k) ==
    spawned = k /\ k + Cardinality(Dogs) <= MaxLoot /\ Cardinality(on_map) < Cardinality(looters)

\* A shortage of loot ends, however short the ticks: the generator adds the
\* time up until something is spawned.
ShortageEnds == \A k \in 0 .. MaxLoot : MissingLoot(k) ~> ~MissingLoot(k)

=============================================================================
