------------------------------ MODULE LootProofs ------------------------------
(***************************************************************************)
(* What Loot guarantees for any number of dogs and offices, any bags, any  *)
(* lengths of ticks and any chances of the generator.                      *)
(***************************************************************************)
EXTENDS Loot, FiniteSetTheorems, WellFoundedInduction, TLAPS

Typed ==
    /\ looters \subseteq Dogs
    /\ bag \in [Dogs -> SUBSET Nat] /\ banked \in [Dogs -> SUBSET Nat]
    /\ on_map \subseteq Nat /\ spawned \in Nat
    /\ time_without_loot \in 0 .. MaxQuiet /\ tick \in Nat
    /\ \A e \in events : e[1] \in Dogs

\* What a dog carries or has banked was spawned, and bags stay finite.
SpawnedInv ==
    \A d \in Dogs : /\ \A i \in bag[d] \cup banked[d] : i < spawned
                    /\ IsFiniteSet(bag[d])

Inv == Typed /\ SpawnedInv /\ LootInOnePlace

-----------------------------------------------------------------------------
(* Generate.                                                               *)

LEMMA AtMostFacts ==
    ASSUME NEW cap \in Nat, NEW x \in Nat PROVE AtMost(cap, x) \in 0 .. cap
BY DEF AtMost

\* The generator is asked for as many objects as there are looters without one,
\* and never makes more, whatever the chance.
LEMMA GeneratedFacts ==
    ASSUME NEW shortage \in Nat, NEW time \in 0 .. MaxQuiet
    PROVE  Generated(shortage, time) \in 0 .. shortage
<1>1. Chance[time] \in 0 .. 100
  BY LootAssumption
<1> DEFINE product == shortage * Chance[time]
<1>2. product \in Nat /\ product <= 100 * shortage
  BY <1>1
<1>3. 2 * shortage * Chance[time] = 2 * product
  BY <1>1
<1>4. Generated(shortage, time) = (2 * product + 100) \div 200
  BY <1>3 DEF Generated
<1> HIDE DEF product
<1> QED
  BY <1>2, <1>4

LEMMA MapFinite == Inv => IsFiniteSet(on_map) /\ IsFiniteSet(looters)
<1> SUFFICES ASSUME Inv PROVE IsFiniteSet(on_map) /\ IsFiniteSet(looters)
  OBVIOUS
<1>1. on_map \subseteq 0 .. spawned - 1 /\ spawned - 1 \in Int
  BY DEF Inv, Typed, LootInOnePlace
<1>2. IsFiniteSet(0 .. spawned - 1)
  BY <1>1, FS_Interval
<1> QED
  BY <1>1, <1>2, FS_Subset, LootAssumption DEF Inv, Typed

LEMMA ShortageFacts ==
    Inv => LET shortage == Shortage(Cardinality(on_map), Cardinality(looters)) IN
           /\ shortage \in Nat
           /\ shortage > 0 => Cardinality(on_map) + shortage = Cardinality(looters)
BY MapFinite, FS_CardinalityType DEF Shortage

-----------------------------------------------------------------------------
LEMMA InitInv == Init => Inv
<1> SUFFICES ASSUME Init PROVE Inv
  OBVIOUS
<1>1. IsFiniteSet({}) /\ Cardinality({}) = 0
  BY FS_EmptySet
<1>2. Typed
  BY LootAssumption DEF Init, Typed
<1>3. SpawnedInv /\ LootInOnePlace
  BY <1>1, LootAssumption DEF Init, SpawnedInv, LootInOnePlace
<1> QED
  BY <1>2, <1>3 DEF Inv

\* The steps that move no loot.
LEMMA LooterInv ==
    ASSUME Inv,
           \/ \E d \in Dogs : Join(d)
           \/ NextTick
           \/ \E left \in SUBSET looters : TickThrows(left)
           \/ \E found \in SUBSET (looters \X (on_map \cup Offices)) : FindGatherEvents(found)
           \/ UNCHANGED vars
    PROVE  Inv'
<1>1. UNCHANGED <<loot, time_without_loot>>
  BY DEF Join, NextTick, StartTick, TickThrows, FindGatherEvents, vars
<1>2. SpawnedInv' /\ LootInOnePlace'
  BY <1>1 DEF loot, Inv, SpawnedInv, LootInOnePlace
<1>3. looters' \subseteq Dogs
  BY DEF Inv, Typed, Join, NextTick, StartTick, TickThrows, FindGatherEvents, vars
<1>4. tick' \in Nat
  BY LootAssumption DEF Inv, Typed, Join, NextTick, StartTick, TickThrows, FindGatherEvents, vars
<1>5. \A e \in events' : e[1] \in Dogs
  BY DEF Inv, Typed, Join, NextTick, StartTick, TickThrows, FindGatherEvents, vars
<1> QED
  BY <1>1, <1>2, <1>3, <1>4, <1>5 DEF loot, Inv, Typed

LEMMA EventFacts ==
    ASSUME Inv, NEW d, NEW item, Event(d, item)
    PROVE  /\ d \in Dogs /\ \A e \in events' : e[1] \in Dogs
           /\ UNCHANGED <<looters, time_without_loot, tick, spawned>>
BY DEF Event, Inv, Typed

\* An object goes from the map to a bag that has room.
LEMMA CollectInv ==
    ASSUME Inv, NEW d, NEW i, Collect(d, i)
    PROVE  Inv'
<1>1. /\ d \in Dogs /\ \A e \in events' : e[1] \in Dogs
      /\ UNCHANGED <<looters, time_without_loot, tick, spawned>>
  BY EventFacts DEF Collect
<1>2. CASE UNCHANGED <<bag, on_map>>
  <2>1. UNCHANGED banked
    BY DEF Collect
  <2> QED
    BY <1>1, <1>2, <2>1 DEF Inv, Typed, SpawnedInv, LootInOnePlace
<1>3. CASE ~UNCHANGED <<bag, on_map>>
  <2>1. /\ ~(Cardinality(bag[d]) >= Capacity) /\ i \in on_map
        /\ bag' = [bag EXCEPT ![d] = bag[d] \cup {i}] /\ on_map' = on_map \ {i}
        /\ UNCHANGED banked
    BY <1>3 DEF Collect
  <2>2. /\ i \in Nat /\ i < spawned
        /\ \A e \in Dogs : i \notin bag[e] \cup banked[e]
    BY <2>1 DEF Inv, Typed, LootInOnePlace
  <2>3. /\ bag'[d] = bag[d] \cup {i} /\ \A e \in Dogs \ {d} : bag'[e] = bag[e]
    BY <1>1, <2>1 DEF Inv, Typed
  <2>4. Typed'
    BY <1>1, <2>1, <2>2 DEF Inv, Typed
  <2>5. IsFiniteSet(bag'[d]) /\ Cardinality(bag'[d]) <= Capacity
    <3>1. IsFiniteSet(bag[d]) /\ i \notin bag[d] /\ Cardinality(bag[d]) \in Nat
      BY <1>1, <2>2, FS_CardinalityType DEF Inv, SpawnedInv
    <3>2. Cardinality(bag[d] \cup {i}) = Cardinality(bag[d]) + 1 /\ IsFiniteSet(bag[d] \cup {i})
      BY <3>1, FS_AddElement
    <3>3. Capacity \in Nat
      BY LootAssumption
    <3>4. Cardinality(bag[d]) + 1 <= Capacity
      BY <2>1, <3>1, <3>3
    <3> QED
      BY <2>3, <3>2, <3>4
  <2>6. SpawnedInv'
    BY <1>1, <2>1, <2>2, <2>3, <2>5 DEF Inv, SpawnedInv
  <2>7. LootInOnePlace'
    <3>1. \A e \in Dogs : Cardinality(bag'[e]) <= Capacity
      BY <2>3, <2>5 DEF Inv, LootInOnePlace
    <3>2. \A j \in on_map' : j < spawned' /\ \A e \in Dogs : j \notin bag'[e] \cup banked'[e]
      BY <1>1, <2>1, <2>3 DEF Inv, LootInOnePlace
    <3>3. \A e, f \in Dogs :
            (bag'[e] \cup banked'[e]) \cap (bag'[f] \cup banked'[f]) # {} => e = f
      BY <1>1, <2>1, <2>2, <2>3 DEF Inv, LootInOnePlace
    <3>4. \A e \in Dogs : bag'[e] \cap banked'[e] = {}
      BY <1>1, <2>1, <2>2, <2>3 DEF Inv, LootInOnePlace
    <3> QED
      BY <3>1, <3>2, <3>3, <3>4 DEF LootInOnePlace
  <2> QED
    BY <2>4, <2>6, <2>7 DEF Inv
<1> QED
  BY <1>2, <1>3

\* A bag is emptied at an office.
LEMMA DropInv ==
    ASSUME Inv, NEW d, NEW office, Drop(d, office)
    PROVE  Inv'
<1>1. /\ d \in Dogs /\ \A e \in events' : e[1] \in Dogs
      /\ UNCHANGED <<looters, time_without_loot, tick, spawned>>
  BY EventFacts DEF Drop
<1>2. /\ banked' = [banked EXCEPT ![d] = banked[d] \cup bag[d]]
      /\ bag' = [bag EXCEPT ![d] = {}] /\ UNCHANGED on_map
  BY DEF Drop
<1>3. /\ bag'[d] = {} /\ banked'[d] = banked[d] \cup bag[d]
      /\ \A e \in Dogs \ {d} : bag'[e] = bag[e] /\ banked'[e] = banked[e]
  BY <1>1, <1>2 DEF Inv, Typed
<1>4. Typed'
  BY <1>1, <1>2 DEF Inv, Typed
<1>5. SpawnedInv' /\ LootInOnePlace'
  <2>1. IsFiniteSet(bag'[d]) /\ Cardinality(bag'[d]) = 0
    BY <1>3, FS_EmptySet
  <2>2. SpawnedInv'
    BY <1>1, <1>3, <2>1 DEF Inv, SpawnedInv
  <2>3. LootInOnePlace'
    BY <1>1, <1>2, <1>3, <2>1, LootAssumption DEF Inv, LootInOnePlace
  <2> QED
    BY <2>2, <2>3
<1> QED
  BY <1>4, <1>5 DEF Inv

\* What SpawnLoot does, in short: it adds new objects under numbers not used before, at
\* most as many as the map is short of.
LEMMA SpawnFacts ==
    ASSUME Inv, SpawnLoot
    PROVE  \E generated \in Nat :
              /\ generated <= Shortage(Cardinality(on_map), Cardinality(looters))
              /\ on_map' = on_map \cup (spawned .. spawned + generated - 1)
              /\ spawned' = spawned + generated
              /\ time_without_loot' \in 0 .. MaxQuiet
<1> DEFINE time == AtMost(MaxQuiet, time_without_loot + tick)
           generated == Generated(Shortage(Cardinality(on_map), Cardinality(looters)), time)
<1>1. time \in 0 .. MaxQuiet
  <2>1. MaxQuiet \in Nat /\ time_without_loot + tick \in Nat
    BY LootAssumption DEF Inv, Typed
  <2> QED
    BY <2>1, AtMostFacts
<1>2. generated \in 0 .. Shortage(Cardinality(on_map), Cardinality(looters))
  BY <1>1, GeneratedFacts, ShortageFacts
<1>3. TimeAfter(time, generated) \in 0 .. MaxQuiet
  BY <1>1, LootAssumption DEF TimeAfter
<1>4. /\ time_without_loot' = TimeAfter(time, generated)
      /\ on_map' = on_map \cup (spawned .. spawned + generated - 1)
      /\ spawned' = spawned + generated
  BY DEF SpawnLoot
<1> QED
  BY <1>2, <1>3, <1>4, ShortageFacts

LEMMA SpawnInv ==
    ASSUME Inv, SpawnLoot
    PROVE  Inv'
<1>1. PICK generated \in Nat :
        /\ on_map' = on_map \cup (spawned .. spawned + generated - 1)
        /\ spawned' = spawned + generated
        /\ time_without_loot' \in 0 .. MaxQuiet
  BY SpawnFacts
<1>2. tick' = 0 /\ UNCHANGED <<looters, bag, events, banked>>
  BY DEF SpawnLoot
<1>3. spawned \in Nat /\ spawned' \in Nat
  BY <1>1 DEF Inv, Typed
<1>4. Typed'
  BY <1>1, <1>2, <1>3 DEF Inv, Typed
<1>5. SpawnedInv'
  BY <1>1, <1>2, <1>3 DEF Inv, Typed, SpawnedInv
<1>6. LootInOnePlace'
  <2> SUFFICES ASSUME NEW i \in on_map'
               PROVE  i < spawned' /\ \A d \in Dogs : i \notin bag[d] \cup banked[d]
    BY <1>2 DEF Inv, LootInOnePlace
  <2>1. CASE i \in on_map
    BY <1>1, <1>3, <2>1 DEF Inv, Typed, LootInOnePlace
  <2>2. CASE i \in spawned .. spawned + generated - 1
    BY <1>1, <1>3, <2>2 DEF Inv, Typed, SpawnedInv
  <2> QED
    BY <1>1, <2>1, <2>2
<1> QED
  BY <1>4, <1>5, <1>6 DEF Inv

LEMMA NextInv == Inv /\ [Next]_vars => Inv'
BY LooterInv, CollectInv, DropInv, SpawnInv DEF Next, Step

LEMMA Invariant == Spec => []Inv
BY InitInv, NextInv, PTL DEF Spec

\* An object lies on the map, in one bag or was spent at an office by one dog, and no bag
\* is overfull (HandleLootColletc, DropBagpackContent), in whatever order gathering
\* events are handled.
THEOREM OnePlaceEach == Spec => []LootInOnePlace
<1>1. Inv => LootInOnePlace
  BY DEF Inv
<1> QED
  BY <1>1, Invariant, PTL

\* Loot is generated for the looters that lack it and no more (LootGenerator::Generate
\* and SpawnLoot).
THEOREM NoMoreThanLooters == Spec => SpawnFillsUpToLooters
<1>1. Inv /\ [Next]_vars =>
        [spawned' > spawned => Cardinality(on_map') <= Cardinality(looters)]_vars
  <2> SUFFICES ASSUME Inv, Next, spawned' > spawned
               PROVE  Cardinality(on_map') <= Cardinality(looters)
    OBVIOUS
  <2>1. SpawnLoot
    <3>1. spawned \in Nat /\ spawned' # spawned
      BY DEF Inv, Typed
    <3> QED
      BY <3>1 DEF Next, Step, NextTick, Join, StartTick, TickThrows, FindGatherEvents, Collect,
         Drop, Event, loot
  <2>2. PICK generated \in Nat :
          /\ generated <= Shortage(Cardinality(on_map), Cardinality(looters))
          /\ on_map' = on_map \cup (spawned .. spawned + generated - 1)
          /\ spawned' = spawned + generated
    BY <2>1, SpawnFacts
  <2> DEFINE new == spawned .. spawned + generated - 1
  <2>3. IsFiniteSet(on_map) /\ Cardinality(on_map) \in Nat
    BY MapFinite, FS_CardinalityType
  <2>4. spawned \in Nat /\ generated > 0
    BY <2>2 DEF Inv, Typed
  <2>5. IsFiniteSet(new) /\ Cardinality(new) = generated
    BY <2>4, FS_Interval
  <2>6. Cardinality(on_map \cup new) <= Cardinality(on_map) + generated
    <3>1. IsFiniteSet(on_map \cap new) /\ Cardinality(on_map \cap new) \in Nat
      BY <2>3, FS_Intersection, FS_CardinalityType
    <3>2. Cardinality(on_map \cup new) =
            Cardinality(on_map) + Cardinality(new) - Cardinality(on_map \cap new)
      BY <2>3, <2>5, FS_Union
    <3> QED
      BY <2>3, <2>5, <3>1, <3>2
  <2>7. Cardinality(looters) \in Nat /\ Cardinality(on_map) + generated <= Cardinality(looters)
    BY <2>2, <2>3, <2>4, ShortageFacts, MapFinite, FS_CardinalityType
  <2>8. IsFiniteSet(on_map \cup new) /\ Cardinality(on_map \cup new) \in Nat
    BY <2>3, <2>5, FS_Union, FS_CardinalityType
  <2> QED
    BY <2>2, <2>3, <2>6, <2>7, <2>8
<1> QED
  BY <1>1, Invariant, PTL DEF Spec, SpawnFillsUpToLooters

-----------------------------------------------------------------------------
(* Sums over finite sets. WorthOf folds over a set in an order the CHOOSE  *)
(* of MapThenFoldSet picks; the lemmas say that the order does not matter. *)

\* Induction over a set of numbers: what is not in B would have a least element.
LEMMA NatSets ==
    ASSUME NEW B, B \subseteq Nat, 0 \in B, \A n \in B : n + 1 \in B
    PROVE  Nat \subseteq B
<1> SUFFICES ASSUME Nat \ B # {} PROVE FALSE
  OBVIOUS
<1> DEFINE T == Nat \ B
           R == OpToRel(<, Nat)
<1>1. PICK x \in T : \A y \in T : <<y, x>> \notin R
  <2>1. IsWellFoundedOn(R, Nat) /\ T \subseteq Nat /\ T # {}
    BY NatLessThanWellFounded
  <2> HIDE DEF T, R
  <2> QED
    BY <2>1, WFMin
<1>2. x \in Nat /\ x # 0 /\ x - 1 \in Nat /\ x - 1 \notin B
  OBVIOUS
<1>3. <<x - 1, x>> \in R
  BY <1>2 DEF OpToRel
<1> QED
  BY <1>1, <1>2, <1>3

Any(s) == CHOOSE x \in s : TRUE
Total(v, S) == MapThenSumSet(LAMBDA i : v[i], S)

\* f sums up v over the sets of S, element by element.
Sums(f, v, S) ==
    f = [s \in SUBSET S |-> IF s = {} THEN 0 ELSE v[Any(s)] + f[s \ {Any(s)}]]

LEMMA SumIter ==
    ASSUME NEW v, NEW S, NEW h, Sums(h, v, S)
    PROVE  \E f : Sums(f, v, S) /\ Total(v, S) = f[S]
BY DEF Sums, Total, MapThenSumSet, MapThenFoldSet, Any

LEMMA AnyFacts ==
    ASSUME NEW s, IsFiniteSet(s), s # {}
    PROVE  /\ Any(s) \in s /\ IsFiniteSet(s \ {Any(s)})
           /\ Cardinality(s \ {Any(s)}) = Cardinality(s) - 1 /\ Cardinality(s) \in Nat \ {0}
<1>1. Any(s) \in s
  BY DEF Any
<1> QED
  BY <1>1, FS_RemoveElement, FS_CardinalityType, FS_EmptySet

\* There is such a function: the values at larger sets follow from those at smaller ones.
LEMMA SumExists ==
    ASSUME NEW I, IsFiniteSet(I), NEW v \in [I -> Nat]
    PROVE  \E f \in [SUBSET I -> Nat] : Sums(f, v, I)
<1> DEFINE Upto(f, n) == \A s \in SUBSET I : Cardinality(s) <= n =>
                            f[s] = IF s = {} THEN 0 ELSE v[Any(s)] + f[s \ {Any(s)}]
           B == {n \in Nat : \E f \in [SUBSET I -> Nat] : Upto(f, n)}
<1>0. \A s \in SUBSET I : IsFiniteSet(s) /\ Cardinality(s) \in Nat
  BY FS_Subset, FS_CardinalityType
<1>1. 0 \in B
  <2>1. PICK f : f = [s \in SUBSET I |-> 0]
    OBVIOUS
  <2>2. \A s \in SUBSET I : Cardinality(s) <= 0 => s = {}
    BY <1>0, FS_EmptySet
  <2>3. f \in [SUBSET I -> Nat] /\ Upto(f, 0)
    BY <2>1, <2>2
  <2> QED
    BY <2>3
<1>2. ASSUME NEW n \in B PROVE n + 1 \in B
  <2>1. PICK f \in [SUBSET I -> Nat] : Upto(f, n)
    BY <1>2
  <2>2. PICK g : g = [s \in SUBSET I |->
                        IF Cardinality(s) <= n THEN f[s] ELSE v[Any(s)] + f[s \ {Any(s)}]]
    OBVIOUS
  <2>3. ASSUME NEW s \in SUBSET I
        PROVE  /\ g[s] \in Nat
               /\ Cardinality(s) <= n + 1 =>
                    g[s] = IF s = {} THEN 0 ELSE v[Any(s)] + g[s \ {Any(s)}]
    <3>1. CASE s = {}
      <4>1. Cardinality(s) = 0 /\ n \in Nat
        BY <3>1, FS_EmptySet
      <4> QED
        BY <2>1, <2>2, <3>1, <4>1
    <3>2. CASE s # {}
      <4>1. /\ Any(s) \in I /\ s \ {Any(s)} \in SUBSET I /\ Cardinality(s) \in Nat /\ n \in Nat
            /\ Cardinality(s \ {Any(s)}) = Cardinality(s) - 1
        BY <1>0, <3>2, AnyFacts
      <4>2. f[s] \in Nat /\ f[s \ {Any(s)}] \in Nat /\ v[Any(s)] \in Nat
        BY <4>1
      <4>3. g[s] = IF Cardinality(s) <= n THEN f[s] ELSE v[Any(s)] + f[s \ {Any(s)}]
        BY <2>2
      <4>4. g[s \ {Any(s)}] = IF Cardinality(s) - 1 <= n THEN f[s \ {Any(s)}]
                              ELSE g[s \ {Any(s)}]
        BY <2>2, <4>1
      <4>5. Cardinality(s) <= n => f[s] = v[Any(s)] + f[s \ {Any(s)}]
        BY <2>1, <3>2
      <4> QED
        BY <3>2, <4>1, <4>2, <4>3, <4>4, <4>5
    <3> QED
      BY <3>1, <3>2
  <2>4. g \in [SUBSET I -> Nat]
    BY <2>2, <2>3
  <2>5. Upto(g, n + 1) /\ n + 1 \in Nat
    BY <2>3
  <2> HIDE DEF Upto
  <2> QED
    BY <2>4, <2>5
<1>3. Cardinality(I) \in B
  <2>1. B \subseteq Nat
    OBVIOUS
  <2> HIDE DEF B
  <2> QED
    BY <1>0, <1>1, <1>2, <2>1, NatSets
<1>4. PICK f \in [SUBSET I -> Nat] : Upto(f, Cardinality(I))
  BY <1>3
<1>5. \A s \in SUBSET I : f[s] = IF s = {} THEN 0 ELSE v[Any(s)] + f[s \ {Any(s)}]
  BY <1>4, FS_Subset
<1>6. Sums(f, v, I)
  <2>1. f = [s \in SUBSET I |-> f[s]]
    OBVIOUS
  <2> QED
    BY <1>5, <2>1 DEF Sums
<1> QED
  BY <1>6

\* And only one.
LEMMA SumUnique ==
    ASSUME NEW I, IsFiniteSet(I), NEW v, NEW w, NEW f, Sums(f, v, I),
           NEW J, NEW g, Sums(g, w, J),
           NEW S \in SUBSET (I \cap J), \A i \in S : v[i] = w[i]
    PROVE  f[S] = g[S]
<1> DEFINE B == {n \in Nat : \A s \in SUBSET S : Cardinality(s) = n => f[s] = g[s]}
<1>0. \A s \in SUBSET S : IsFiniteSet(s) /\ Cardinality(s) \in Nat /\ s \in SUBSET I
                           /\ s \in SUBSET J
  BY FS_Subset, FS_CardinalityType
<1>1. /\ \A s \in SUBSET S : f[s] = IF s = {} THEN 0 ELSE v[Any(s)] + f[s \ {Any(s)}]
      /\ \A s \in SUBSET S : g[s] = IF s = {} THEN 0 ELSE w[Any(s)] + g[s \ {Any(s)}]
  BY <1>0 DEF Sums
<1>2. 0 \in B
  <2>1. \A s \in SUBSET S : Cardinality(s) = 0 => s = {}
    BY <1>0, FS_EmptySet
  <2> QED
    BY <1>1, <2>1
<1>3. ASSUME NEW n \in B PROVE n + 1 \in B
  <2>1. ASSUME NEW s \in SUBSET S, Cardinality(s) = n + 1 PROVE f[s] = g[s]
    <3>1. s # {}
      <4>1. n \in Nat
        OBVIOUS
      <4> HIDE DEF B
      <4> QED
        BY <2>1, <4>1, FS_EmptySet
    <3>2. /\ Any(s) \in S /\ s \ {Any(s)} \in SUBSET S
          /\ Cardinality(s \ {Any(s)}) = n
      BY <1>0, <2>1, <3>1, AnyFacts
    <3>3. f[s \ {Any(s)}] = g[s \ {Any(s)}]
      BY <3>2
    <3>4. f[s] = v[Any(s)] + f[s \ {Any(s)}] /\ g[s] = w[Any(s)] + g[s \ {Any(s)}]
      BY <1>1, <3>1
    <3> QED
      BY <3>2, <3>3, <3>4
  <2> QED
    BY <2>1
<1>4. Cardinality(S) \in B
  <2>1. B \subseteq Nat
    OBVIOUS
  <2> HIDE DEF B
  <2> QED
    BY <1>0, <1>2, <1>3, <2>1, NatSets
<1> QED
  BY <1>4

Totals(f, v, I) ==
    /\ f \in [SUBSET I -> Nat] /\ Sums(f, v, I)
    /\ \A S \in SUBSET I : Total(v, S) = f[S]

\* What MapThenSumSet computes is given by one function for all sets of numbers.
LEMMA TotalExists ==
    ASSUME NEW I, IsFiniteSet(I), NEW v \in [I -> Nat]
    PROVE  \E f : Totals(f, v, I)
<1>1. PICK f \in [SUBSET I -> Nat] : Sums(f, v, I)
  BY SumExists
<1>2. ASSUME NEW S \in SUBSET I PROVE Total(v, S) = f[S]
  <2>1. PICK h : h = [s \in SUBSET S |-> f[s]]
    OBVIOUS
  <2>2. \A s \in SUBSET S : f[s] = IF s = {} THEN 0 ELSE v[Any(s)] + f[s \ {Any(s)}]
    BY <1>1 DEF Sums
  <2>3. \A s \in SUBSET S : h[s] = IF s = {} THEN 0 ELSE v[Any(s)] + h[s \ {Any(s)}]
    BY <2>1, <2>2
  <2>4. Sums(h, v, S)
    BY <2>1, <2>3 DEF Sums
  <2>5. PICK g : Sums(g, v, S) /\ Total(v, S) = g[S]
    BY <2>4, SumIter
  <2> QED
    BY <1>1, <2>5, SumUnique
<1>3. Totals(f, v, I)
  BY <1>1, <1>2 DEF Totals
<1> QED
  BY <1>3, Zenon

\* The order of the summands does not matter.
LEMMA SumTakesAny ==
    ASSUME NEW I, IsFiniteSet(I), NEW v \in [I -> Nat],
           NEW f \in [SUBSET I -> Nat], Sums(f, v, I),
           NEW S \in SUBSET I, NEW x \in S
    PROVE  f[S] = v[x] + f[S \ {x}]
<1> DEFINE B == {n \in Nat : \A s \in SUBSET I : Cardinality(s) = n =>
                               \A i \in s : f[s] = v[i] + f[s \ {i}]}
<1>0. \A s \in SUBSET I : IsFiniteSet(s) /\ Cardinality(s) \in Nat
  BY FS_Subset, FS_CardinalityType
<1>1. 0 \in B
  BY <1>0, FS_EmptySet
<1>2. ASSUME NEW n \in B PROVE n + 1 \in B
  <2>1. ASSUME NEW s \in SUBSET I, Cardinality(s) = n + 1, NEW i \in s
        PROVE  f[s] = v[i] + f[s \ {i}]
    <3> DEFINE a == Any(s)
    <3>1. /\ a \in s /\ Cardinality(s \ {a}) = n /\ s \ {a} \in SUBSET I
      BY <1>0, <2>1, AnyFacts
    <3>2. f[s] = v[a] + f[s \ {a}]
      BY <2>1 DEF Sums
    <3> HIDE DEF a
    <3>3. CASE i # a
      <4>1. s \ {i} \in SUBSET I /\ Cardinality(s \ {i}) = n
        BY <1>0, <2>1, FS_RemoveElement
      <4>2. f[s \ {a}] = v[i] + f[(s \ {a}) \ {i}] /\ f[s \ {i}] = v[a] + f[(s \ {i}) \ {a}]
        BY <3>1, <3>3, <4>1
      <4>3. (s \ {a}) \ {i} = (s \ {i}) \ {a} /\ (s \ {i}) \ {a} \in SUBSET I
        OBVIOUS
      <4>5. f[(s \ {a}) \ {i}] = f[(s \ {i}) \ {a}]
        BY <4>3, Zenon
      <4>4. f[(s \ {i}) \ {a}] \in Nat /\ v[a] \in Nat /\ v[i] \in Nat
        BY <3>1, <4>3
      <4> QED
        BY <3>2, <4>2, <4>4, <4>5
    <3> QED
      BY <3>2, <3>3
  <2> QED
    BY <2>1
<1>3. Cardinality(S) \in B
  <2>1. B \subseteq Nat
    OBVIOUS
  <2> HIDE DEF B
  <2> QED
    BY <1>0, <1>1, <1>2, <2>1, NatSets
<1> QED
  BY <1>3

LEMMA SumFacts ==
    ASSUME NEW I, IsFiniteSet(I), NEW v \in [I -> Nat], NEW S \in SUBSET I
    PROVE  /\ Total(v, S) \in Nat
           /\ Total(v, {}) = 0
           /\ \A i \in I \ S : Total(v, S \cup {i}) = Total(v, S) + v[i]
<1>0. PICK f : Totals(f, v, I)
  BY TotalExists, Zenon
<1>1. f \in [SUBSET I -> Nat] /\ Sums(f, v, I) /\ \A s \in SUBSET I : Total(v, s) = f[s]
  BY <1>0 DEF Totals
<1>2. f[{}] = 0
  BY <1>1 DEF Sums
<1>3. ASSUME NEW i \in I \ S PROVE f[S \cup {i}] = f[S] + v[i]
  <2>1. f[S \cup {i}] = v[i] + f[(S \cup {i}) \ {i}]
    BY <1>1, SumTakesAny
  <2>2. (S \cup {i}) \ {i} = S
    OBVIOUS
  <2>3. f[S \cup {i}] = v[i] + f[S]
    BY <2>1, <2>2, Zenon
  <2>4. f[S] \in Nat /\ v[i] \in Nat
    BY <1>1
  <2> QED
    BY <2>3, <2>4
<1>4. \A i \in I \ S : S \cup {i} \in SUBSET I
  OBVIOUS
<1> QED
  BY <1>1, <1>2, <1>3, <1>4

\* The worth of two bags is the sum of their worths.
LEMMA SumOfTwo ==
    ASSUME NEW I, IsFiniteSet(I), NEW v \in [I -> Nat],
           NEW S \in SUBSET I, NEW T \in SUBSET I, S \cap T = {}
    PROVE  Total(v, S \cup T) = Total(v, S) + Total(v, T)
<1> DEFINE B == {n \in Nat : \A t \in SUBSET T : Cardinality(t) = n =>
                               Total(v, S \cup t) = Total(v, S) + Total(v, t)}
<1>0. \A t \in SUBSET T : IsFiniteSet(t) /\ Cardinality(t) \in Nat /\ t \in SUBSET I
  BY FS_Subset, FS_CardinalityType
<1>1. 0 \in B
  <2>1. \A t \in SUBSET T : Cardinality(t) = 0 => t = {}
    BY <1>0, FS_EmptySet
  <2>2. Total(v, S) \in Nat /\ Total(v, {}) = 0 /\ S \cup {} = S
    BY SumFacts
  <2> QED
    BY <2>1, <2>2
<1>2. ASSUME NEW n \in B PROVE n + 1 \in B
  <2>1. ASSUME NEW t \in SUBSET T, Cardinality(t) = n + 1
        PROVE  Total(v, S \cup t) = Total(v, S) + Total(v, t)
    <3>1. t # {} /\ n \in Nat
      <4>1. n \in Nat
        OBVIOUS
      <4> HIDE DEF B
      <4> QED
        BY <2>1, <4>1, FS_EmptySet
    <3>2. PICK a, u : a \in t /\ u = t \ {a} /\ Cardinality(u) = n
      <4> HIDE DEF B
      <4> QED
        <5>1. Any(t) \in t /\ Cardinality(t \ {Any(t)}) = n
          BY <1>0, <2>1, <3>1, AnyFacts
        <5> QED
          BY <5>1, Zenon
    <3>3. u \in SUBSET T /\ Total(v, S \cup u) = Total(v, S) + Total(v, u)
      BY <3>2
    <3>4. /\ u \in SUBSET I /\ S \cup u \in SUBSET I /\ a \in I /\ a \notin u /\ a \notin S \cup u
          /\ t = u \cup {a} /\ S \cup t = (S \cup u) \cup {a}
      BY <3>2
    <3>5. /\ Total(v, u) \in Nat /\ Total(v, S) \in Nat /\ v[a] \in Nat
          /\ Total(v, u \cup {a}) = Total(v, u) + v[a]
          /\ Total(v, (S \cup u) \cup {a}) = Total(v, S \cup u) + v[a]
      BY <3>4, SumFacts
    <3>6. /\ Total(v, t) = Total(v, u) + v[a]
          /\ Total(v, S \cup t) = Total(v, S \cup u) + v[a]
      BY <3>4, <3>5, Zenon
    <3> HIDE DEF B
    <3> QED
      BY <3>3, <3>5, <3>6
  <2> QED
    BY <2>1
<1>3. Cardinality(T) \in B
  <2>1. B \subseteq Nat
    OBVIOUS
  <2> HIDE DEF B
  <2> QED
    BY <1>0, <1>1, <1>2, <2>1, NatSets
<1> QED
  BY <1>3


\* Only the worth of the objects summed up matters.
LEMMA SumOfSame ==
    ASSUME NEW I, IsFiniteSet(I), NEW v \in [I -> Nat], NEW w \in [I -> Nat],
           NEW S \in SUBSET I, \A i \in S : v[i] = w[i]
    PROVE  Total(v, S) = Total(w, S)
<1>1. PICK f, g : Totals(f, v, I) /\ Totals(g, w, I)
  BY TotalExists
<1>2. f[S] = g[S]
  BY <1>1, SumUnique DEF Totals
<1> QED
  BY <1>1, <1>2 DEF Totals

-----------------------------------------------------------------------------
(* The scores.                                                             *)

LEMMA WorthIsTotal == \A S : WorthOf(S) = Total(worth, S) /\ WorthOf(S)' = Total(worth', S)
BY DEF WorthOf, Total, MapThenSumSet, MapThenFoldSet

\* Objects are counted by their worth, which stays what it was when they were spawned.
ScoreInv ==
    /\ worth \in [Ids -> Nat] /\ score \in [Dogs -> Nat]
    /\ \A d \in Dogs : bag[d] \cup banked[d] \subseteq Ids
    /\ ScoreIsWorthOfBanked

LEMMA IdsFinite == IsFiniteSet(Ids)
BY LootAssumption, FS_Interval DEF Ids

LEMMA ScoreInit == Init => ScoreInv
<1> SUFFICES ASSUME Init PROVE ScoreInv
  OBVIOUS
<1>1. /\ worth = [i \in Ids |-> 0] /\ score = [d \in Dogs |-> 0]
      /\ \A d \in Dogs : bag[d] = {} /\ banked[d] = {}
  BY DEF Init
<1>2. worth \in [Ids -> Nat] /\ score \in [Dogs -> Nat]
  BY <1>1
<1>3. Total(worth, {}) = 0
  BY <1>2, IdsFinite, SumFacts
<1> QED
  BY <1>1, <1>2, <1>3, WorthIsTotal DEF ScoreInv, ScoreIsWorthOfBanked

LEMMA ScoreNext == Inv /\ ScoreInv /\ [Next]_vars => ScoreInv'
<1> SUFFICES ASSUME Inv, ScoreInv, [Next]_vars PROVE ScoreInv'
  OBVIOUS
<1> DEFINE Same(d) == banked'[d] = banked[d] /\ score'[d] = score[d]
<1>1. ASSUME worth' = worth, score' \in [Dogs -> Nat],
             \A d \in Dogs : bag'[d] \cup banked'[d] \subseteq Ids,
             \A d \in Dogs : Same(d) \/ score'[d] = Total(worth, banked'[d])
      PROVE  ScoreInv'
  BY <1>1, WorthIsTotal DEF ScoreInv, ScoreIsWorthOfBanked
<1>2. ASSUME UNCHANGED <<worth, score, bag, banked>> PROVE ScoreInv'
  BY <1>1, <1>2 DEF ScoreInv
<1>3. ASSUME NEW d, NEW i, Collect(d, i) PROVE ScoreInv'
  <2>1. /\ i \in Ids /\ UNCHANGED <<worth, score, banked>>
        /\ bag' = bag \/ bag' = [bag EXCEPT ![d] = bag[d] \cup {i}]
    BY <1>3 DEF Collect, Event
  <2>2. \A e \in Dogs : bag'[e] \subseteq bag[e] \cup {i}
    BY <2>1 DEF Inv, Typed
  <2> QED
    BY <1>1, <2>1, <2>2 DEF ScoreInv
<1>4. ASSUME NEW d, NEW office, Drop(d, office) PROVE ScoreInv'
  <2>1. /\ d \in Dogs /\ worth' = worth
        /\ score' = [score EXCEPT ![d] = score[d] + WorthOf(bag[d])]
        /\ banked' = [banked EXCEPT ![d] = banked[d] \cup bag[d]]
        /\ bag' = [bag EXCEPT ![d] = {}]
    BY <1>4, EventFacts DEF Drop, Event
  <2>2. /\ score[d] = Total(worth, banked[d]) /\ WorthOf(bag[d]) = Total(worth, bag[d])
        /\ banked[d] \cap bag[d] = {} /\ worth \in [Ids -> Nat]
        /\ banked[d] \in SUBSET Ids /\ bag[d] \in SUBSET Ids
    BY <2>1, WorthIsTotal DEF Inv, LootInOnePlace, ScoreInv, ScoreIsWorthOfBanked
  <2>3. /\ Total(worth, banked[d] \cup bag[d]) = Total(worth, banked[d]) + Total(worth, bag[d])
        /\ Total(worth, bag[d]) \in Nat
    BY <2>2, IdsFinite, SumOfTwo, SumFacts
  <2>4. /\ score'[d] = score[d] + WorthOf(bag[d])
        /\ banked'[d] = banked[d] \cup bag[d] /\ bag'[d] = {}
        /\ \A e \in Dogs \ {d} : Same(e) /\ bag'[e] = bag[e]
    BY <2>1 DEF Inv, Typed, ScoreInv
  <2>5. score' \in [Dogs -> Nat]
    BY <2>1, <2>2, <2>3 DEF ScoreInv
  <2>6. score'[d] = Total(worth, banked'[d])
    BY <2>2, <2>3, <2>4, Zenon
  <2>7. \A e \in Dogs : bag'[e] \cup banked'[e] \subseteq Ids
    BY <2>1, <2>2, <2>4 DEF ScoreInv
  <2>8. \A e \in Dogs : Same(e) \/ score'[e] = Total(worth, banked'[e])
    <3> HIDE DEF Same
    <3> QED
      BY <2>4, <2>6, Zenon
  <2>9. worth' = worth
    BY <2>1
  <2> HIDE DEF Same
  <2> QED
    BY <1>1, <2>5, <2>7, <2>8, <2>9
<1>5. ASSUME SpawnLoot PROVE ScoreInv'
  <2>0. PICK generated : \E w \in [spawned .. spawned + generated - 1 -> Worths] :
          worth' = [i \in Ids |-> IF i \in spawned .. spawned + generated - 1
                                  THEN w[i] ELSE worth[i]]
    BY <1>5 DEF SpawnLoot
  <2>1. PICK w \in [spawned .. spawned + generated - 1 -> Worths] :
          worth' = [i \in Ids |-> IF i \in spawned .. spawned + generated - 1
                                  THEN w[i] ELSE worth[i]]
    BY <2>0
  <2>2. UNCHANGED <<score, bag, banked>>
    BY <1>5 DEF SpawnLoot
  <2>3. worth' \in [Ids -> Nat]
    BY <2>1, LootAssumption DEF ScoreInv
  <2>4. ASSUME NEW d \in Dogs PROVE Total(worth', banked[d]) = Total(worth, banked[d])
    <3>1. banked[d] \in SUBSET Ids /\ worth \in [Ids -> Nat]
      BY DEF ScoreInv
    <3>2. \A i \in banked[d] : i < spawned /\ i \in Nat /\ spawned \in Nat
      BY DEF Inv, Typed, SpawnedInv
    <3>3. \A i \in banked[d] : worth'[i] = worth[i]
      BY <2>1, <3>1, <3>2
    <3> QED
      BY <2>3, <3>1, <3>3, IdsFinite, SumOfSame
  <2> QED
    BY <2>2, <2>3, <2>4, WorthIsTotal DEF ScoreInv, ScoreIsWorthOfBanked
<1>6. CASE \/ \E d \in Dogs : Join(d)
           \/ NextTick
           \/ \E left \in SUBSET looters : TickThrows(left)
           \/ \E found \in SUBSET (looters \X (on_map \cup Offices)) : FindGatherEvents(found)
           \/ UNCHANGED vars
  BY <1>2, <1>6 DEF Join, NextTick, StartTick, TickThrows, FindGatherEvents, loot, vars
<1> QED
  BY <1>3, <1>4, <1>5, <1>6 DEF Next, Step

\* The score of a dog is the worth of what it dropped at offices, each object counted
\* once and at the worth it was spawned with (DropBagpackContent), for any worths.
THEOREM ScoreCountsBanked == Spec => []ScoreIsWorthOfBanked
<1>1. ScoreInv => ScoreIsWorthOfBanked
  BY DEF ScoreInv
<1> QED
  BY <1>1, ScoreInit, ScoreNext, Invariant, PTL DEF Spec
=============================================================================
