------------------------------- MODULE Movement -------------------------------
(***************************************************************************)
(* A dog on the roads of a map: src/src/model/model.cpp, GameSession::Move *)
(* and what it uses, with the commands that set a dog in motion and the    *)
(* loot a walk brings (src/src/app/app.cpp, HandleCollisions).             *)
(*                                                                         *)
(* Roads run between cells, the points of integer coordinates.  A position *)
(* counts in Unit-ths of the distance of two cells.  Dogs do not hinder    *)
(* each other, so one is enough.                                           *)
(***************************************************************************)
EXTENDS CollisionDetector, FiniteSets

CONSTANTS
  Roads,        \* the roads, as ranges of cells: records x1, x2, y1, y2
  First,        \* the start of the first road, a cell
  RandomSpawn,  \* whether a dog appears anywhere on the roads (GameSession::random_spawn_)
  Unit,         \* grid points between two cells
  Strides,      \* the distances the dog makes in a tick: speed times length of the tick
  Spots         \* the positions at which loot appears

Directions == {"NORTH", "SOUTH", "WEST", "EAST"}

Points == [x : Int, y : Int]

ASSUME MovementAssumption ==
  /\ Roads \subseteq [x1 : Int, x2 : Int, y1 : Int, y2 : Int]
  /\ \A r \in Roads : r.x1 <= r.x2 /\ r.y1 <= r.y2 /\ (r.x1 = r.x2 \/ r.y1 = r.y2)
  /\ \E r \in Roads : First.x \in {r.x1, r.x2} /\ First.y \in {r.y1, r.y2}
  /\ RandomSpawn \in BOOLEAN
  /\ Unit \in Nat /\ Unit % 10 = 0 /\ Unit > 0
  /\ Strides \subseteq Nat \ {0}
  /\ Spots \subseteq Points /\ IsFiniteSet(Spots)

VARIABLES
  coords,       \* where the dog is
  prev_coords,  \* where its last step began
  direction,
  moving,       \* its speed is not zero
  lying,        \* the spots where an object lies
  ahead         \* ghost: the spots with an object that lay ahead at the last command

vars == <<coords, prev_coords, direction, moving, lying, ahead>>

-----------------------------------------------------------------------------
(* Geometry.                                                               *)

Abs(n) == IF n < 0 THEN -n ELSE n

\* ROAD_SIDE and Dog::COLLISION_RADIUS; loot has no width.
RoadSide   == (4 * Unit) \div 10
DogRadius  == (3 * Unit) \div 10
LootRadius == 0

IsHorizontal(dir) == dir \in {"WEST", "EAST"}
Towards(dir) == IF dir \in {"SOUTH", "EAST"} THEN 1 ELSE -1

\* The coordinate that a walk in the direction changes, and the other one.
Along(p, dir)  == IF IsHorizontal(dir) THEN p.x ELSE p.y
Across(p, dir) == IF IsHorizontal(dir) THEN p.y ELSE p.x

\* Mutants: always up, always down.
RoundUp(c) == (c + Unit - 1) \div Unit
RoundDown(c) == c \div Unit
\* The nearest cell, the greater one for a point half way.
RoundRoadCoord(c) ==
  IF 2 * (c % Unit) < Unit THEN c \div Unit ELSE (c \div Unit) + 1

RoundRoadCoords(p) == [x |-> RoundRoadCoord(p.x), y |-> RoundRoadCoord(p.y)]

\* The index built by PrepareRoads: the columns it has, the roads of a cell.
HasColumn(x) == \E r \in Roads : r.x1 <= x /\ x <= r.x2
RoadsAt(cell) ==
  {r \in Roads : /\ r.x1 <= cell.x /\ cell.x <= r.x2
                 /\ r.y1 <= cell.y /\ cell.y <= r.y2}

\* The rectangle of a road (CalculateDimentions).
West(r)  == r.x1 * Unit - RoadSide
East(r)  == r.x2 * Unit + RoadSide
North(r) == r.y1 * Unit - RoadSide
South(r) == r.y2 * Unit + RoadSide

PossibleMoveDist(from, r, dir) ==
  CASE dir = "NORTH" -> North(r) - from.y
    [] dir = "SOUTH" -> South(r) - from.y
    [] dir = "WEST"  -> West(r) - from.x
    [] dir = "EAST"  -> East(r) - from.x

\* The farthest way a road of the cell offers; of two that are equally far in
\* opposite directions, the one the index yields first.
BestDists(p, dir) ==
  LET offered == {PossibleMoveDist(p, r, dir) : r \in RoadsAt(RoundRoadCoords(p))}
                   \cup {0}
  IN  {d \in offered : \A e \in offered : Abs(e) <= Abs(d)}

OnSomeRoad ==
  UNION {[x : West(r) .. East(r), y : North(r) .. South(r)] : r \in Roads}

GetDogSpawnPoints ==
  IF RandomSpawn THEN OnSomeRoad
                 ELSE {[x |-> First.x * Unit, y |-> First.y * Unit]}

-----------------------------------------------------------------------------
Init ==
  /\ coords \in GetDogSpawnPoints
  /\ prev_coords = coords
  /\ direction = "NORTH"
  /\ moving = FALSE
  /\ lying \in SUBSET Spots
  /\ ahead = {}

\* The dog would walk over the spot if it went straight on.
LiesAhead(s, dir) ==
  /\ Abs(Across(s, dir) - Across(coords, dir)) <= DogRadius + LootRadius
  /\ (Along(s, dir) - Along(coords, dir)) * Towards(dir) > 0

\* Application::MovePlayer: SetDirection, then SetSpeed with the map's speed.
MovePlayer(dir) ==
  /\ direction' = dir
  /\ moving' = TRUE
  /\ ahead' = {s \in lying : LiesAhead(s, dir)}
  /\ UNCHANGED <<coords, prev_coords, lying>>

\* Application::StopPlayer.
StopPlayer ==
  /\ moving' = FALSE
  /\ UNCHANGED <<coords, prev_coords, direction, lying, ahead>>

\* Mutant: a dog at the border keeps its speed.
MoveOnTheSpot(stride) ==
  IF ~moving
  THEN UNCHANGED <<coords, prev_coords, moving>>
  ELSE /\ HasColumn(RoundRoadCoord(coords.x))
       /\ \E best \in BestDists(coords, direction) :
            LET step == IF Abs(best) <= stride THEN best ELSE stride * Towards(direction)
            IN  coords' = IF IsHorizontal(direction)
                          THEN [coords EXCEPT !.x = @ + step]
                          ELSE [coords EXCEPT !.y = @ + step]
       /\ prev_coords' = coords
       /\ UNCHANGED moving
\* GameSession::Move.  A dog that stands keeps the end points of its last step.
Move(stride) ==
  IF ~moving
  THEN UNCHANGED <<coords, prev_coords, moving>>
  ELSE /\ HasColumn(RoundRoadCoord(coords.x))
       /\ \E best \in BestDists(coords, direction) :
            LET border == Abs(best) <= stride
                step   == IF border THEN best ELSE stride * Towards(direction)
            IN  /\ coords' = IF IsHorizontal(direction)
                             THEN [coords EXCEPT !.x = @ + step]
                             ELSE [coords EXCEPT !.y = @ + step]
                /\ moving' = ~border
       /\ prev_coords' = coords

\* GameSession::HandleCollisions: the spots the dog takes its loot from, walking
\* from p to q with room in its bag.
HandleCollisions(p, q) ==
  LET items  == SetToSeq(lying)
      events == GatheringEvents(
                  <<[start_pos |-> p, end_pos |-> q, radius |-> DogRadius]>>,
                  [i \in DOMAIN items |-> [position |-> items[i], radius |-> LootRadius]])
  IN  {items[event.item_id] : event \in events}

\* GameSession::OnTick: every dog moves, collects, and new loot may appear.
OnTick(stride) ==
  /\ Move(stride)
  /\ LET taken == HandleCollisions(prev_coords', coords')
     IN  /\ \E spawned \in SUBSET (Spots \ (lying \ taken)) :
              lying' = (lying \ taken) \cup spawned
         /\ ahead' = ahead \ taken
  /\ UNCHANGED direction

Next ==
  \/ \E dir \in Directions : MovePlayer(dir)
  \/ StopPlayer
  \/ \E stride \in Strides : OnTick(stride)

\* Ticks come for ever: the ticker schedules itself again, clients ask for more.
\* This is weak fairness of OnTick; a tick is possible whenever the walk in it is.
Ticking ==
  \/ []<>~ENABLED <<\E stride \in Strides : Move(stride)>>_<<coords, prev_coords, moving>>
  \/ []<><<\E stride \in Strides : OnTick(stride)>>_vars
Spec == Init /\ [][Next]_vars /\ Ticking

-----------------------------------------------------------------------------
(* Properties.                                                             *)

\* A dog is never in a column without any road: coords_to_roads_.at() does not
\* throw, which would end every tick of the game half way from then on.
LookupSucceeds == HasColumn(RoundRoadCoord(coords.x))

\* A dog may leave its road by less than a tenth of a cell, because its road is
\* looked up by rounding at 0.5 while a road ends at 0.4.  Only a step shorter
\* than that tenth can take it on to a cell that has no road, where no direction
\* leads away; steps of the usual length run into the border and bring it back.
StrandedByShortSteps ==
  RoadsAt(RoundRoadCoords(coords)) = {} =>
    Abs(coords.x - prev_coords.x) + Abs(coords.y - prev_coords.y)
      < (Unit \div 2) - RoadSide

\* The steps of a straight walk leave no gap, whatever the lengths of the ticks
\* and wherever stops and borders fall: what lay ahead when the dog set out and
\* is behind it now has been collected.
NothingSkipped ==
  \A s \in ahead :
    (Along(s, direction) - Along(coords, direction)) * Towards(direction) > 0

\* A dog that is not turned over and over comes to stand, at the end of some road
\* at the latest: nobody walks for ever, so whoever leaves is retired in the end.
ComesToRest == []<>~moving \/ []<><<direction' # direction>>_vars
=============================================================================
