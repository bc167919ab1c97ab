---------------------------- MODULE MovementProofs ----------------------------
(***************************************************************************)
(* Proofs about Movement, GameMap and DrawnRoads: walks that stay on the   *)
(* roads of the index and collect what they pass, for every map, spawn     *)
(* rule, stride and placing of the loot.                                   *)
(***************************************************************************)
EXTENDS DrawnRoads, FiniteSetTheorems, TLAPS

-----------------------------------------------------------------------------
(* Cells and the grid.                                                     *)

\* The widths are tenths of the distance of two cells.
LEMMA Tenths ==
  \E k \in Nat : /\ k > 0 /\ Unit = 10 * k
                 /\ RoadSide = 4 * k /\ DogRadius = 3 * k /\ Unit \div 2 = 5 * k
<1>1. Unit \in Nat /\ Unit % 10 = 0 /\ Unit > 0
  BY MovementAssumption
<1>2. PICK k \in Nat : Unit = 10 * k
  BY <1>1
<1>3. k > 0 /\ RoadSide = 4 * k /\ DogRadius = 3 * k /\ Unit \div 2 = 5 * k
  BY <1>1, <1>2 DEF RoadSide, DogRadius
<1> QED
  BY <1>2, <1>3

\* Cells are a Unit apart.
LEMMA CellsApart ==
  ASSUME NEW m \in Int, NEW n \in Int
  PROVE  /\ m * Unit \in Int
         /\ m < n => m * Unit + Unit <= n * Unit
         /\ m <= n => m * Unit <= n * Unit
<1>1. Unit \in Nat /\ Unit > 0
  BY MovementAssumption
<1>2. ASSUME NEW d \in Nat
      PROVE  d * Unit \in Nat /\ (d > 0 => d * Unit >= Unit)
  BY <1>1, <1>2
<1>3. n * Unit = m * Unit + (n - m) * Unit
  BY <1>1
<1>4. m <= n => (n - m) * Unit >= 0
  BY <1>2
<1>5. m < n => (n - m) * Unit >= Unit
  BY <1>2
<1>6. m * Unit \in Int /\ n * Unit \in Int /\ (n - m) * Unit \in Int
  BY <1>1
<1> QED
  BY <1>1, <1>3, <1>4, <1>5, <1>6

\* A point is nearer to its cell than half the way to the next.
LEMMA Rounds ==
  ASSUME NEW c \in Int, NEW k \in Nat, Unit = 10 * k, k > 0
  PROVE  /\ RoundRoadCoord(c) \in Int
         /\ RoundRoadCoord(c) * Unit - 5 * k <= c
         /\ c < RoundRoadCoord(c) * Unit + 5 * k
<1> DEFINE q == c \div Unit
           f == c % Unit
<1>1. q \in Int /\ f \in Int /\ 0 <= f /\ f < Unit /\ c = Unit * q + f
  OBVIOUS
<1>2. (q + 1) * Unit = q * Unit + Unit /\ q * Unit = Unit * q /\ q * Unit \in Int
  BY <1>1
<1>3. CASE 2 * f < Unit
  <2>1. RoundRoadCoord(c) = q
    BY <1>3 DEF RoundRoadCoord
  <2> QED
    BY <1>1, <1>2, <1>3, <2>1
<1>4. CASE ~(2 * f < Unit)
  <2>1. RoundRoadCoord(c) = q + 1
    BY <1>4 DEF RoundRoadCoord
  <2> QED
    BY <1>1, <1>2, <1>4, <2>1
<1> QED
  BY <1>3, <1>4

\* What bounds a point bounds its cell.
LEMMA RoundsWithin ==
  ASSUME NEW c \in Int, NEW n \in Int, NEW k \in Nat, Unit = 10 * k, k > 0
  PROVE  /\ c < n * Unit + 5 * k => RoundRoadCoord(c) <= n
         /\ n * Unit - 5 * k <= c => n <= RoundRoadCoord(c)
<1> DEFINE m == RoundRoadCoord(c)
<1>1. m \in Int /\ m * Unit - 5 * k <= c /\ c < m * Unit + 5 * k
  BY Rounds
<1>2. m * Unit \in Int /\ n * Unit \in Int
  BY <1>1, CellsApart
<1>3. n < m => n * Unit + Unit <= m * Unit
  BY <1>1, CellsApart
<1>4. m < n => m * Unit + Unit <= n * Unit
  BY <1>1, CellsApart
<1> HIDE DEF m
<1>5. c < n * Unit + 5 * k => m <= n
  BY <1>1, <1>2, <1>3
<1>6. n * Unit - 5 * k <= c => n <= m
  BY <1>1, <1>2, <1>4
<1> QED
  BY <1>5, <1>6 DEF m

-----------------------------------------------------------------------------
(* One step along an axis, from c to t, where a road of c's cell runs on to *)
(* the cell e.                                                             *)

Size(k) == k \in Nat /\ k > 0 /\ Unit = 10 * k /\ RoadSide = 4 * k

\* Left the road on the far side and went further, by less than k.
StrayedOn(c, t, k) ==
  RoundRoadCoord(c) * Unit + 4 * k < c /\ c < t /\ t < c + k
StrayedBack(c, t, k) ==
  c < RoundRoadCoord(c) * Unit - 4 * k /\ t < c /\ c - k < t

\* Kept to the road.
KeptOn(c, t, e) ==
  /\ RoundRoadCoord(c) <= RoundRoadCoord(t) /\ RoundRoadCoord(t) <= e
  /\ t <= e * Unit + RoadSide
  /\ c <= t \/ t = e * Unit + RoadSide
KeptBack(c, t, e) ==
  /\ e <= RoundRoadCoord(t) /\ RoundRoadCoord(t) <= RoundRoadCoord(c)
  /\ e * Unit - RoadSide <= t
  /\ t <= c \/ t = e * Unit - RoadSide

LEMMA WalkOn ==
  ASSUME NEW c \in Int, NEW e \in Int, NEW k, Size(k), NEW stride \in Nat \ {0},
         RoundRoadCoord(c) <= e, NEW t \in Int,
         LET best == e * Unit + RoadSide - c
         IN  t = c + (IF Abs(best) <= stride THEN best ELSE stride)
  PROVE  StrayedOn(c, t, k) \/ KeptOn(c, t, e)
<1> DEFINE n == RoundRoadCoord(c)
<1>0. k \in Nat /\ k > 0 /\ Unit = 10 * k /\ RoadSide = 4 * k
  BY DEF Size
<1>1. n \in Int /\ n * Unit - 5 * k <= c /\ c < n * Unit + 5 * k
  BY <1>0, Rounds
<1>2. PICK nU \in Int, eU \in Int : nU = n * Unit /\ eU = e * Unit /\ nU <= eU
  BY <1>1, CellsApart
<1>3. t = c + (IF Abs(eU + 4 * k - c) <= stride THEN eU + 4 * k - c ELSE stride)
  BY <1>0, <1>2
<1>4. t < eU + 5 * k => RoundRoadCoord(t) <= e
  BY <1>0, <1>2, RoundsWithin
<1>5. nU - 5 * k <= t => n <= RoundRoadCoord(t)
  BY <1>0, <1>1, <1>2, RoundsWithin
<1>6. \/ nU + 4 * k < c /\ c < t /\ t < c + k
      \/ nU - 5 * k <= t /\ t <= eU + 4 * k /\ (c <= t \/ t = eU + 4 * k)
  BY <1>0, <1>1, <1>2, <1>3 DEF Abs
<1> QED
  BY <1>0, <1>1, <1>2, <1>4, <1>5, <1>6 DEF StrayedOn, KeptOn

LEMMA WalkBack ==
  ASSUME NEW c \in Int, NEW e \in Int, NEW k, Size(k), NEW stride \in Nat \ {0},
         e <= RoundRoadCoord(c), NEW t \in Int,
         LET best == e * Unit - RoadSide - c
         IN  t = c + (IF Abs(best) <= stride THEN best ELSE -stride)
  PROVE  StrayedBack(c, t, k) \/ KeptBack(c, t, e)
<1> DEFINE n == RoundRoadCoord(c)
<1>0. k \in Nat /\ k > 0 /\ Unit = 10 * k /\ RoadSide = 4 * k
  BY DEF Size
<1>1. n \in Int /\ n * Unit - 5 * k <= c /\ c < n * Unit + 5 * k
  BY <1>0, Rounds
<1>2. PICK nU \in Int, eU \in Int : nU = n * Unit /\ eU = e * Unit /\ eU <= nU
  BY <1>1, CellsApart
<1>3. t = c + (IF Abs(eU - 4 * k - c) <= stride THEN eU - 4 * k - c ELSE -stride)
  BY <1>0, <1>2
<1>4. eU - 5 * k <= t => e <= RoundRoadCoord(t)
  BY <1>0, <1>2, RoundsWithin
<1>5. t < nU + 5 * k => RoundRoadCoord(t) <= n
  BY <1>0, <1>1, <1>2, RoundsWithin
<1>6. \/ c < nU - 4 * k /\ t < c /\ c - k < t
      \/ t < nU + 5 * k /\ eU - 4 * k <= t /\ (t <= c \/ t = eU - 4 * k)
  BY <1>0, <1>1, <1>2, <1>3 DEF Abs
<1> QED
  BY <1>0, <1>1, <1>2, <1>4, <1>5, <1>6 DEF StrayedBack, KeptBack

-----------------------------------------------------------------------------
(* One step of a dog, from p to q.                                         *)

StepTo(p, dir, stride, best) ==
  LET step == IF Abs(best) <= stride THEN best ELSE stride * Towards(dir)
  IN  IF IsHorizontal(dir) THEN [p EXCEPT !.x = @ + step] ELSE [p EXCEPT !.y = @ + step]

Strays(p, q, dir, k) ==
  \/ dir = "NORTH" /\ StrayedBack(p.y, q.y, k)
  \/ dir = "SOUTH" /\ StrayedOn(p.y, q.y, k)
  \/ dir = "WEST" /\ StrayedBack(p.x, q.x, k)
  \/ dir = "EAST" /\ StrayedOn(p.x, q.x, k)

Keeps(p, q, dir, r) ==
  \/ dir = "NORTH" /\ KeptBack(p.y, q.y, r.y1)
  \/ dir = "SOUTH" /\ KeptOn(p.y, q.y, r.y2)
  \/ dir = "WEST" /\ KeptBack(p.x, q.x, r.x1)
  \/ dir = "EAST" /\ KeptOn(p.x, q.x, r.x2)

LEMMA WhichDirection ==
  ASSUME NEW dir \in Directions
  PROVE  \/ dir = "NORTH" /\ ~IsHorizontal(dir) /\ Towards(dir) = -1
         \/ dir = "SOUTH" /\ ~IsHorizontal(dir) /\ Towards(dir) = 1
         \/ dir = "WEST" /\ IsHorizontal(dir) /\ Towards(dir) = -1
         \/ dir = "EAST" /\ IsHorizontal(dir) /\ Towards(dir) = 1
BY DEF Directions, IsHorizontal, Towards

LEMMA BestOffer ==
  ASSUME NEW p \in Points, NEW dir \in Directions, NEW best \in BestDists(p, dir)
  PROVE  \/ best = 0
         \/ \E r \in RoadsAt(RoundRoadCoords(p)) : best = PossibleMoveDist(p, r, dir)
BY DEF BestDists

LEMMA StepTaken ==
  ASSUME NEW p \in Points, NEW dir \in Directions, NEW stride \in Nat \ {0},
         NEW k, Size(k), NEW best \in BestDists(p, dir), NEW q,
         q = StepTo(p, dir, stride, best)
  PROVE  /\ q \in Points /\ Across(q, dir) = Across(p, dir)
         /\ \/ q = p
            \/ Strays(p, q, dir, k)
            \/ \E r \in RoadsAt(RoundRoadCoords(p)) : Keeps(p, q, dir, r)
<1>1. p.x \in Int /\ p.y \in Int /\ p = [x |-> p.x, y |-> p.y]
  BY DEF Points
<1>2. CASE best = 0
  <2>1. Abs(best) <= stride
    BY <1>2 DEF Abs
  <2>2. q = p
    BY <1>1, <1>2, <2>1 DEF StepTo
  <2> QED
    BY <2>2
<1>3. ASSUME NEW r \in RoadsAt(RoundRoadCoords(p)), best = PossibleMoveDist(p, r, dir)
      PROVE  q \in Points /\ Across(q, dir) = Across(p, dir)
               /\ (Strays(p, q, dir, k) \/ Keeps(p, q, dir, r))
  <2>1. r.x1 \in Int /\ r.x2 \in Int /\ r.y1 \in Int /\ r.y2 \in Int
    BY MovementAssumption DEF RoadsAt
  <2>2. /\ r.x1 <= RoundRoadCoord(p.x) /\ RoundRoadCoord(p.x) <= r.x2
        /\ r.y1 <= RoundRoadCoord(p.y) /\ RoundRoadCoord(p.y) <= r.y2
    BY DEF RoadsAt, RoundRoadCoords
  <2>3. RoadSide \in Int /\ r.x1 * Unit \in Int /\ r.x2 * Unit \in Int
          /\ r.y1 * Unit \in Int /\ r.y2 * Unit \in Int
    BY <2>1, CellsApart DEF Size
  <2>4. CASE dir = "NORTH"
    <3>1. best = r.y1 * Unit - RoadSide - p.y
      BY <1>1, <1>3, <2>1, <2>3, <2>4 DEF PossibleMoveDist, North
    <3>2. PICK d \in Int : d = IF Abs(best) <= stride THEN best ELSE -stride
      BY <1>1, <2>3, <3>1
    <3>3. q = [p EXCEPT !.y = @ + d]
      BY <2>4, <3>2 DEF StepTo, IsHorizontal, Towards
    <3>4. q = [x |-> p.x, y |-> p.y + d]
      BY <1>1, <3>3
    <3>5. q.y \in Int /\ q.y = p.y + (IF Abs(r.y1 * Unit - RoadSide - p.y) <= stride
                                    THEN r.y1 * Unit - RoadSide - p.y ELSE -stride)
      BY <1>1, <3>1, <3>2, <3>4
    <3>6. StrayedBack(p.y, q.y, k) \/ KeptBack(p.y, q.y, r.y1)
      BY <1>1, <2>1, <2>2, <3>5, WalkBack
    <3>7. q \in Points /\ Across(q, dir) = Across(p, dir)
      BY <1>1, <2>4, <3>2, <3>4 DEF Points, Across, IsHorizontal
    <3> QED
      BY <2>4, <3>6, <3>7 DEF Strays, Keeps
  <2>5. CASE dir = "SOUTH"
    <3>1. best = r.y2 * Unit + RoadSide - p.y
      BY <1>1, <1>3, <2>1, <2>3, <2>5 DEF PossibleMoveDist, South
    <3>2. PICK d \in Int : d = IF Abs(best) <= stride THEN best ELSE stride
      BY <1>1, <2>3, <3>1
    <3>3. q = [p EXCEPT !.y = @ + d]
      BY <2>5, <3>2 DEF StepTo, IsHorizontal, Towards
    <3>4. q = [x |-> p.x, y |-> p.y + d]
      BY <1>1, <3>3
    <3>5. q.y \in Int /\ q.y = p.y + (IF Abs(r.y2 * Unit + RoadSide - p.y) <= stride
                                    THEN r.y2 * Unit + RoadSide - p.y ELSE stride)
      BY <1>1, <3>1, <3>2, <3>4
    <3>6. StrayedOn(p.y, q.y, k) \/ KeptOn(p.y, q.y, r.y2)
      BY <1>1, <2>1, <2>2, <3>5, WalkOn
    <3>7. q \in Points /\ Across(q, dir) = Across(p, dir)
      BY <1>1, <2>5, <3>2, <3>4 DEF Points, Across, IsHorizontal
    <3> QED
      BY <2>5, <3>6, <3>7 DEF Strays, Keeps
  <2>6. CASE dir = "WEST"
    <3>1. best = r.x1 * Unit - RoadSide - p.x
      BY <1>1, <1>3, <2>1, <2>3, <2>6 DEF PossibleMoveDist, West
    <3>2. PICK d \in Int : d = IF Abs(best) <= stride THEN best ELSE -stride
      BY <1>1, <2>3, <3>1
    <3>3. q = [p EXCEPT !.x = @ + d]
      BY <2>6, <3>2 DEF StepTo, IsHorizontal, Towards
    <3>4. q = [x |-> p.x + d, y |-> p.y]
      BY <1>1, <3>3
    <3>5. q.x \in Int /\ q.x = p.x + (IF Abs(r.x1 * Unit - RoadSide - p.x) <= stride
                                    THEN r.x1 * Unit - RoadSide - p.x ELSE -stride)
      BY <1>1, <3>1, <3>2, <3>4
    <3>6. StrayedBack(p.x, q.x, k) \/ KeptBack(p.x, q.x, r.x1)
      BY <1>1, <2>1, <2>2, <3>5, WalkBack
    <3>7. q \in Points /\ Across(q, dir) = Across(p, dir)
      BY <1>1, <2>6, <3>2, <3>4 DEF Points, Across, IsHorizontal
    <3> QED
      BY <2>6, <3>6, <3>7 DEF Strays, Keeps
  <2>7. CASE dir = "EAST"
    <3>1. best = r.x2 * Unit + RoadSide - p.x
      BY <1>1, <1>3, <2>1, <2>3, <2>7 DEF PossibleMoveDist, East
    <3>2. PICK d \in Int : d = IF Abs(best) <= stride THEN best ELSE stride
      BY <1>1, <2>3, <3>1
    <3>3. q = [p EXCEPT !.x = @ + d]
      BY <2>7, <3>2 DEF StepTo, IsHorizontal, Towards
    <3>4. q = [x |-> p.x + d, y |-> p.y]
      BY <1>1, <3>3
    <3>5. q.x \in Int /\ q.x = p.x + (IF Abs(r.x2 * Unit + RoadSide - p.x) <= stride
                                    THEN r.x2 * Unit + RoadSide - p.x ELSE stride)
      BY <1>1, <3>1, <3>2, <3>4
    <3>6. StrayedOn(p.x, q.x, k) \/ KeptOn(p.x, q.x, r.x2)
      BY <1>1, <2>1, <2>2, <3>5, WalkOn
    <3>7. q \in Points /\ Across(q, dir) = Across(p, dir)
      BY <1>1, <2>7, <3>2, <3>4 DEF Points, Across, IsHorizontal
    <3> QED
      BY <2>7, <3>6, <3>7 DEF Strays, Keeps
  <2> QED
    BY <2>4, <2>5, <2>6, <2>7 DEF Directions
<1> QED
  BY <1>2, <1>3, BestOffer

-----------------------------------------------------------------------------
(* What a step collects.                                                   *)

\* Products of whole numbers.
LEMMA Squares ==
  ASSUME NEW a \in Nat, NEW b \in Nat, NEW c \in Nat, a <= b
  PROVE  /\ a * c \in Nat /\ b * c \in Nat /\ a * c <= b * c
         /\ a * a \in Nat /\ b * b \in Nat /\ a * a <= b * b
<1>1. b * c = a * c + (b - a) * c /\ (b - a) * c >= 0 /\ a * c >= 0
  OBVIOUS
<1>2. b * b = a * a + (b - a) * (b + a) /\ (b - a) * (b + a) >= 0 /\ a * a >= 0
  OBVIOUS
<1> QED
  BY <1>1, <1>2

\* A walk of length d along an axis, and a point at a along it and w beside it.
LEMMA Foot ==
  ASSUME NEW a \in Int, NEW d \in Int, NEW w \in Int, NEW R \in Nat,
         (0 < a /\ a <= d) \/ (d <= a /\ a < 0), Abs(w) <= R
  PROVE  /\ 0 <= a * d /\ a * d <= d * d
         /\ (a * a + w * w) * (d * d) - (a * d) * (a * d) <= R * R * (d * d)
<1>1. 0 <= a * d /\ a * d <= d * d
  <2>1. CASE 0 < a /\ a <= d
    BY <2>1, Squares
  <2>2. CASE d <= a /\ a < 0
    <3>1. (-a) * (-d) = a * d /\ (-d) * (-d) = d * d
      OBVIOUS
    <3> QED
      BY <2>2, <3>1, Squares
  <2> QED
    BY <2>1, <2>2
<1>2. (a * a + w * w) * (d * d) - (a * d) * (a * d) = (w * w) * (d * d)
  OBVIOUS
<1>3. w * w \in Nat /\ w * w <= R * R /\ R * R \in Nat
  <2>1. Abs(w) \in Nat /\ Abs(w) * Abs(w) = w * w
    BY DEF Abs
  <2> QED
    BY <2>1, Squares
<1>4. d * d \in Nat
  OBVIOUS
<1>5. (w * w) * (d * d) <= (R * R) * (d * d)
  BY <1>3, <1>4, Squares
<1> QED
  BY <1>1, <1>2, <1>5

\* SetToSeq lists every element.
LEMMA Listed ==
  ASSUME NEW S, IsFiniteSet(S), NEW s \in S
  PROVE  \E i \in DOMAIN SetToSeq(S) : SetToSeq(S)[i] = s
<1> DEFINE n == Cardinality(S)
           f == SetToSeq(S)
<1>1. n \in Nat /\ ExistsBijection(1 .. n, S)
  BY FS_CardinalityType
<1>2. \E g \in [1 .. n -> S] : IsInjective(g)
  BY <1>1 DEF ExistsBijection, Bijection, Injection
<1>3. f \in [1 .. n -> S] /\ IsInjective(f)
  BY <1>2 DEF SetToSeq
<1>4. f \in Injection(1 .. n, S)
  BY <1>3 DEF Injection
<1>5. Cardinality(1 .. n) = n
  BY <1>1, FS_Interval
<1>6. f \in Surjection(1 .. n, S)
  BY <1>4, <1>5, FS_Injection
<1> QED
  BY <1>3, <1>6 DEF Surjection

\* The dog has walked past the spot, near enough to take what lies there.
Passed(p, q, dir, s) ==
  /\ Abs(Across(s, dir) - Across(p, dir)) <= DogRadius + LootRadius
  /\ (Along(s, dir) - Along(p, dir)) * Towards(dir) > 0
  /\ ~ (Along(s, dir) - Along(q, dir)) * Towards(dir) > 0

LEMMA PassedIsCollected ==
  ASSUME NEW p \in Points, NEW q \in Points, NEW dir \in Directions, NEW s \in Points,
         Across(q, dir) = Across(p, dir), Passed(p, q, dir, s)
  PROVE  /\ p # q
         /\ IsCollected(TryCollectPoint(p, q, s), DogRadius + LootRadius)
<1>1. /\ p.x \in Int /\ p.y \in Int /\ q.x \in Int /\ q.y \in Int
      /\ s.x \in Int /\ s.y \in Int
  BY DEF Points
<1> DEFINE R == DogRadius + LootRadius
           a == Along(s, dir) - Along(p, dir)
           d == Along(q, dir) - Along(p, dir)
           w == Across(s, dir) - Across(p, dir)
<1>2. R \in Nat
  BY Tenths DEF LootRadius
<1>3. a \in Int /\ d \in Int /\ w \in Int
  BY <1>1 DEF Along, Across
<1>4. Along(s, dir) - Along(q, dir) = a - d
  BY <1>1 DEF Along
<1>5. (0 < a /\ a <= d) \/ (d <= a /\ a < 0)
  <2>1. a * Towards(dir) > 0 /\ ~ (a - d) * Towards(dir) > 0
    BY <1>4 DEF Passed
  <2> QED
    BY <1>3, <2>1, WhichDirection
<1>6. Abs(w) <= R
  BY DEF Passed
<1>7. p # q
  <2>1. p = q => d = 0
    BY <1>1 DEF Along
  <2> QED
    BY <1>3, <1>5, <2>1
<1> HIDE DEF a, d, w, R
<1>8. /\ 0 <= a * d /\ a * d <= d * d
      /\ (a * a + w * w) * (d * d) - (a * d) * (a * d) <= R * R * (d * d)
  BY <1>2, <1>3, <1>5, <1>6, Foot
<1>9. LET r == TryCollectPoint(p, q, s)
      IN  /\ r.proj_ratio = a * d /\ r.scale = d * d
          /\ r.sq_distance = (a * a + w * w) * (d * d) - (a * d) * (a * d)
  <2>1. CASE IsHorizontal(dir)
    <3>1. s.x - p.x = a /\ q.x - p.x = d /\ s.y - p.y = w /\ q.y - p.y = 0
      BY <1>1, <2>1 DEF Along, Across, a, d, w
    <3>2. a * d + w * 0 = a * d /\ d * d + 0 * 0 = d * d
      BY <1>3
    <3> QED
      BY <3>1, <3>2 DEF TryCollectPoint
  <2>2. CASE ~IsHorizontal(dir)
    <3>1. s.y - p.y = a /\ q.y - p.y = d /\ s.x - p.x = w /\ q.x - p.x = 0
      BY <1>1, <2>2 DEF Along, Across, a, d, w
    <3>2. w * 0 + a * d = a * d /\ 0 * 0 + d * d = d * d /\ w * w + a * a = a * a + w * w
      BY <1>3
    <3> QED
      BY <3>1, <3>2 DEF TryCollectPoint
  <2> QED
    BY <2>1, <2>2
<1> QED
  BY <1>7, <1>8, <1>9 DEF IsCollected, R

\* The detector reports every item a gatherer collects.
LEMMA Reported ==
  ASSUME NEW p \in Points, NEW q \in Points, NEW s \in lying, IsFiniteSet(lying), p # q,
         IsCollected(TryCollectPoint(p, q, s), DogRadius + LootRadius)
  PROVE  s \in HandleCollisions(p, q)
<1> DEFINE items == SetToSeq(lying)
           gatherers == <<[start_pos |-> p, end_pos |-> q, radius |-> DogRadius]>>
           offered == [i \in DOMAIN items |-> [position |-> items[i], radius |-> LootRadius]]
           events == GatheringEvents(gatherers, offered)
<1>1. PICK i \in DOMAIN items : items[i] = s
  BY Listed
<1>2. /\ DOMAIN gatherers = {1} /\ gatherers[1].start_pos = p /\ gatherers[1].end_pos = q
      /\ gatherers[1].radius = DogRadius
  OBVIOUS
<1>3. i \in DOMAIN offered /\ offered[i].position = s /\ offered[i].radius = LootRadius
  BY <1>1
<1> DEFINE event == [gatherer_id |-> 1, item_id |-> i, result |-> TryCollectPoint(p, q, s)]
<1>4. event \in events
  <2> HIDE DEF gatherers, offered, items
  <2>1. <<1, i>> \in (DOMAIN gatherers) \X (DOMAIN offered)
    BY <1>2, <1>3
  <2>2. <<1, i>>[1] = 1 /\ <<1, i>>[2] = i
    OBVIOUS
  <2> QED
    BY <1>2, <1>3, <2>1, <2>2 DEF GatheringEvents
<1>5. event.item_id = i
  OBVIOUS
<1>6. HandleCollisions(p, q) = {items[e.item_id] : e \in events}
  BY DEF HandleCollisions
<1> HIDE DEF events, event
<1> QED
  BY <1>1, <1>4, <1>5, <1>6

-----------------------------------------------------------------------------
(* The invariant.                                                          *)

Typed ==
  /\ coords \in Points /\ prev_coords \in Points
  /\ direction \in Directions
  /\ lying \subseteq Spots

\* The dog is in the column of a road, and not on the rim the road leaves free.
\* More than LookupSucceeds: from the rim a step could lead out of every column.
InColumn(x) == \E r \in Roads : West(r) <= x /\ x <= East(r)
ColumnInv == InColumn(coords.x)

\* What lay ahead lies there still, within reach of the straight way.
AheadInv ==
  \A s \in ahead :
    /\ s \in lying
    /\ Abs(Across(s, direction) - Across(coords, direction)) <= DogRadius + LootRadius
    /\ (Along(s, direction) - Along(coords, direction)) * Towards(direction) > 0

Inv == Typed /\ ColumnInv /\ StrandedByShortSteps /\ AheadInv

\* A step of the dog.
Stepped(k) ==
  /\ coords' \in Points
  /\ Across(coords', direction) = Across(coords, direction)
  /\ \/ coords' = coords
     \/ Strays(coords, coords', direction, k)
     \/ \E r \in RoadsAt(RoundRoadCoords(coords)) : Keeps(coords, coords', direction, r)

LEMMA MoveSteps ==
  ASSUME Typed, NEW stride \in Strides, NEW k, Size(k), moving, Move(stride)
  PROVE  prev_coords' = coords /\ Stepped(k)
<1>1. stride \in Nat \ {0}
  BY MovementAssumption
<1>2. coords \in Points /\ direction \in Directions
  BY DEF Typed
<1>3. PICK best \in BestDists(coords, direction) :
        coords' = StepTo(coords, direction, stride, best)
  BY DEF Move, StepTo
<1>4. Stepped(k)
  BY <1>1, <1>2, <1>3, StepTaken DEF Stepped
<1> QED
  BY <1>4 DEF Move

\* Which cell a road covers, as whole numbers.
LEMMA RoadFacts ==
  ASSUME NEW r \in Roads
  PROVE  /\ r.x1 \in Int /\ r.x2 \in Int /\ r.y1 \in Int /\ r.y2 \in Int
         /\ r.x1 <= r.x2 /\ r.y1 <= r.y2 /\ (r.x1 = r.x2 \/ r.y1 = r.y2)
BY MovementAssumption

\* A horizontal step leaves the columns of the roads nowhere.
LEMMA ColumnKept ==
  ASSUME NEW c \in Int, NEW t \in Int, NEW k, Size(k), InColumn(c),
         NEW r \in Roads, r.x1 <= RoundRoadCoord(c), RoundRoadCoord(c) <= r.x2,
         \/ StrayedOn(c, t, k) \/ StrayedBack(c, t, k)
         \/ KeptOn(c, t, r.x2) \/ KeptBack(c, t, r.x1)
  PROVE  InColumn(t)
<1> DEFINE n == RoundRoadCoord(c)
<1>0. k \in Nat /\ k > 0 /\ Unit = 10 * k /\ RoadSide = 4 * k
  BY DEF Size
<1>1. n \in Int /\ n * Unit - 5 * k <= c /\ c < n * Unit + 5 * k
  BY <1>0, Rounds
<1>2. PICK a \in Roads : West(a) <= c /\ c <= East(a)
  BY DEF InColumn
<1>3. /\ a.x1 \in Int /\ a.x2 \in Int /\ a.x1 <= a.x2
      /\ r.x1 \in Int /\ r.x2 \in Int /\ r.x1 <= r.x2
  BY RoadFacts
<1>4. PICK nU \in Int, a1 \in Int, a2 \in Int, r1 \in Int, r2 \in Int :
        /\ nU = n * Unit /\ a1 = a.x1 * Unit /\ a2 = a.x2 * Unit
        /\ r1 = r.x1 * Unit /\ r2 = r.x2 * Unit
  BY <1>1, <1>3, CellsApart
<1>5. r1 <= nU /\ nU <= r2
  BY <1>1, <1>3, <1>4, CellsApart
<1>6. /\ a2 < nU => a2 + Unit <= nU
      /\ nU < a2 => nU + Unit <= a2
      /\ a1 < nU => a1 + Unit <= nU
      /\ nU < a1 => nU + Unit <= a1
  BY <1>1, <1>3, <1>4, CellsApart
<1>7. /\ West(a) = a1 - 4 * k /\ East(a) = a2 + 4 * k
      /\ West(r) = r1 - 4 * k /\ East(r) = r2 + 4 * k
  BY <1>0, <1>4 DEF West, East
<1>8. \/ nU + 4 * k < c /\ c < t /\ t < c + k
      \/ c < nU - 4 * k /\ t < c /\ c - k < t
      \/ t <= r2 + 4 * k /\ (c <= t \/ t = r2 + 4 * k)
      \/ r1 - 4 * k <= t /\ (t <= c \/ t = r1 - 4 * k)
  BY <1>0, <1>4 DEF StrayedOn, StrayedBack, KeptOn, KeptBack
<1>9. \/ West(a) <= t /\ t <= East(a)
      \/ West(r) <= t /\ t <= East(r)
  BY <1>0, <1>1, <1>2, <1>4, <1>5, <1>6, <1>7, <1>8
<1> QED
  BY <1>9 DEF InColumn

\* A dog in the column of a road is in the column of a cell of that road.
LEMMA ColumnHasRoad ==
  ASSUME NEW c \in Int, InColumn(c)
  PROVE  HasColumn(RoundRoadCoord(c))
<1>1. PICK k \in Nat : k > 0 /\ Unit = 10 * k /\ RoadSide = 4 * k
  BY Tenths
<1>2. PICK a \in Roads : West(a) <= c /\ c <= East(a)
  BY DEF InColumn
<1>3. a.x1 \in Int /\ a.x2 \in Int
  BY RoadFacts
<1>4. PICK a1 \in Int, a2 \in Int : a1 = a.x1 * Unit /\ a2 = a.x2 * Unit
  BY <1>3, CellsApart
<1>5. a1 - 5 * k <= c /\ c < a2 + 5 * k
  BY <1>1, <1>2, <1>4 DEF West, East
<1>6. a.x1 <= RoundRoadCoord(c) /\ RoundRoadCoord(c) <= a.x2
  BY <1>1, <1>3, <1>4, <1>5, RoundsWithin
<1> QED
  BY <1>6 DEF HasColumn

LEMMA InitInv == Init => Inv
<1> SUFFICES ASSUME Init PROVE Inv
  OBVIOUS
<1>0. PICK k \in Nat : k > 0 /\ Unit = 10 * k /\ RoadSide = 4 * k /\ Unit \div 2 = 5 * k
  BY Tenths
<1>1. coords \in Points /\ InColumn(coords.x)
  <2>1. CASE RandomSpawn
    <3>1. PICK r \in Roads : coords \in [x : West(r) .. East(r), y : North(r) .. South(r)]
      BY <2>1 DEF Init, GetDogSpawnPoints, OnSomeRoad
    <3>2. coords.x \in Int /\ West(r) <= coords.x /\ coords.x <= East(r)
      BY <3>1
    <3>3. coords.y \in Int /\ coords = [x |-> coords.x, y |-> coords.y]
      BY <3>1
    <3> QED
      BY <3>2, <3>3 DEF Points, InColumn
  <2>2. CASE ~RandomSpawn
    <3>1. PICK r \in Roads : First.x \in {r.x1, r.x2} /\ First.y \in {r.y1, r.y2}
      BY MovementAssumption
    <3>2. coords = [x |-> First.x * Unit, y |-> First.y * Unit]
      BY <2>2 DEF Init, GetDogSpawnPoints
    <3>3. /\ r.x1 \in Int /\ r.x2 \in Int /\ r.y1 \in Int /\ r.y2 \in Int /\ r.x1 <= r.x2
          /\ First.x \in Int /\ First.y \in Int
      BY <3>1, RoadFacts
    <3>4. r.x1 * Unit <= First.x * Unit /\ First.x * Unit <= r.x2 * Unit
      BY <3>1, <3>3, CellsApart
    <3>5. First.x * Unit \in Int /\ First.y * Unit \in Int /\ r.x1 * Unit \in Int /\ r.x2 * Unit \in Int
      BY <3>3, CellsApart
    <3>6. West(r) <= coords.x /\ coords.x <= East(r)
      BY <1>0, <3>2, <3>4, <3>5 DEF West, East
    <3> QED
      BY <3>2, <3>5, <3>6 DEF Points, InColumn
  <2> QED
    BY <2>1, <2>2
<1>2. Typed
  BY <1>1 DEF Init, Typed, Directions
<1>3. StrandedByShortSteps
  <2>1. coords.x - prev_coords.x = 0 /\ coords.y - prev_coords.y = 0
    BY <1>1 DEF Init, Points
  <2>2. Abs(0) = 0
    BY DEF Abs
  <2> QED
    BY <1>0, <2>1, <2>2 DEF StrandedByShortSteps
<1>4. AheadInv
  BY DEF Init, AheadInv
<1> QED
  BY <1>1, <1>2, <1>3, <1>4 DEF Inv, ColumnInv

LEMMA StepColumn ==
  ASSUME Typed, ColumnInv, NEW k, Size(k), Stepped(k)
  PROVE  ColumnInv'
<1>1. coords.x \in Int /\ coords'.x \in Int
  BY DEF Typed, Points, Stepped
<1>2. CASE coords' = coords
  BY <1>2 DEF ColumnInv, InColumn
<1>3. CASE ~IsHorizontal(direction)
  <2>1. coords'.x = coords.x
    BY <1>3 DEF Stepped, Across
  <2> QED
    BY <2>1 DEF ColumnInv, InColumn
<1>4. CASE coords' # coords /\ IsHorizontal(direction)
  <2>1. HasColumn(RoundRoadCoord(coords.x))
    BY <1>1, ColumnHasRoad DEF ColumnInv
  <2>2. PICK r \in Roads :
          /\ r.x1 <= RoundRoadCoord(coords.x) /\ RoundRoadCoord(coords.x) <= r.x2
          /\ \/ StrayedOn(coords.x, coords'.x, k) \/ StrayedBack(coords.x, coords'.x, k)
             \/ KeptOn(coords.x, coords'.x, r.x2) \/ KeptBack(coords.x, coords'.x, r.x1)
    <3>1. CASE Strays(coords, coords', direction, k)
      BY <1>4, <2>1, <3>1 DEF Strays, HasColumn, IsHorizontal
    <3>2. CASE \E r \in RoadsAt(RoundRoadCoords(coords)) : Keeps(coords, coords', direction, r)
      BY <1>4, <3>2 DEF Keeps, RoadsAt, RoundRoadCoords, IsHorizontal
    <3> QED
      BY <1>4, <3>1, <3>2 DEF Stepped
  <2>3. InColumn(coords.x)
    BY DEF ColumnInv
  <2>4. InColumn(coords'.x)
    BY <1>1, <2>2, <2>3, ColumnKept
  <2> QED
    BY <2>4 DEF ColumnInv, InColumn, West, East
<1> QED
  BY <1>2, <1>3, <1>4

\* How far a step strays.
LEMMA StrayIsShort ==
  ASSUME NEW p \in Points, NEW q \in Points, NEW dir \in Directions, NEW k,
         Size(k), Across(q, dir) = Across(p, dir), Strays(p, q, dir, k) \/ q = p
  PROVE  Abs(q.x - p.x) + Abs(q.y - p.y) < (Unit \div 2) - RoadSide
<1>1. p.x \in Int /\ p.y \in Int /\ q.x \in Int /\ q.y \in Int
  BY DEF Points
<1>2. k \in Nat /\ k > 0 /\ (Unit \div 2) - RoadSide = k
  BY DEF Size
<1>3. \/ q.x = p.x /\ p.y - k < q.y /\ q.y < p.y + k
      \/ q.y = p.y /\ p.x - k < q.x /\ q.x < p.x + k
  <2>1. CASE q = p
    BY <1>1, <1>2, <2>1
  <2>2. CASE Strays(p, q, dir, k)
    BY <1>1, <1>2, <2>2 DEF Strays, StrayedOn, StrayedBack, Across, IsHorizontal
  <2> QED
    BY <2>1, <2>2
<1> QED
  BY <1>1, <1>2, <1>3 DEF Abs

\* A road that keeps a dog covers the cell it comes to.
LEMMA KeptCovers ==
  ASSUME NEW p \in Points, NEW q \in Points, NEW dir \in Directions,
         NEW r \in RoadsAt(RoundRoadCoords(p)), Keeps(p, q, dir, r),
         Across(q, dir) = Across(p, dir)
  PROVE  r \in RoadsAt(RoundRoadCoords(q))
<1>1. PICK k \in Nat : k > 0 /\ Unit = 10 * k
  BY Tenths
<1>2. p.x \in Int /\ p.y \in Int /\ q.x \in Int /\ q.y \in Int
  BY DEF Points
<1>3. /\ RoundRoadCoord(p.x) \in Int /\ RoundRoadCoord(p.y) \in Int
      /\ RoundRoadCoord(q.x) \in Int /\ RoundRoadCoord(q.y) \in Int
  BY <1>1, <1>2, Rounds
<1>4. /\ r \in Roads
      /\ r.x1 <= RoundRoadCoord(p.x) /\ RoundRoadCoord(p.x) <= r.x2
      /\ r.y1 <= RoundRoadCoord(p.y) /\ RoundRoadCoord(p.y) <= r.y2
  BY DEF RoadsAt, RoundRoadCoords
<1>5. r.x1 \in Int /\ r.x2 \in Int /\ r.y1 \in Int /\ r.y2 \in Int
  BY <1>4, RoadFacts
<1>6. \/ /\ q.x = p.x
         /\ r.y1 <= RoundRoadCoord(q.y) /\ RoundRoadCoord(q.y) <= r.y2
      \/ /\ q.y = p.y
         /\ r.x1 <= RoundRoadCoord(q.x) /\ RoundRoadCoord(q.x) <= r.x2
  BY <1>3, <1>4, <1>5 DEF Keeps, KeptOn, KeptBack, Across, IsHorizontal
<1> QED
  BY <1>4, <1>6 DEF RoadsAt, RoundRoadCoords

\* What lay ahead of a step and is not taken lies ahead still.
LEMMA StepAhead ==
  ASSUME Typed, AheadInv, NEW q \in Points, Across(q, direction) = Across(coords, direction),
         NEW s \in ahead, s \notin HandleCollisions(coords, q)
  PROVE  (Along(s, direction) - Along(q, direction)) * Towards(direction) > 0
<1>1. /\ s \in lying
      /\ Abs(Across(s, direction) - Across(coords, direction)) <= DogRadius + LootRadius
      /\ (Along(s, direction) - Along(coords, direction)) * Towards(direction) > 0
  BY DEF AheadInv
<1>2. s \in Points /\ IsFiniteSet(lying)
  BY <1>1, MovementAssumption, FS_Subset DEF Typed
<1>3. coords \in Points /\ direction \in Directions
  BY DEF Typed
<1> SUFFICES ASSUME ~ (Along(s, direction) - Along(q, direction)) * Towards(direction) > 0
             PROVE  FALSE
  OBVIOUS
<1>4. Passed(coords, q, direction, s)
  BY <1>1 DEF Passed
<1>5. /\ coords # q
      /\ IsCollected(TryCollectPoint(coords, q, s), DogRadius + LootRadius)
  BY <1>2, <1>3, <1>4, PassedIsCollected
<1> QED
  BY <1>1, <1>2, <1>3, <1>5, Reported

LEMMA TickInv ==
  ASSUME Inv, NEW stride \in Strides, OnTick(stride)
  PROVE  Inv'
<1> DEFINE taken == HandleCollisions(prev_coords', coords')
<1>0. Typed /\ ColumnInv /\ StrandedByShortSteps /\ AheadInv
  BY DEF Inv
<1>1. PICK k \in Nat : /\ k > 0 /\ Unit = 10 * k /\ RoadSide = 4 * k
                       /\ Unit \div 2 = 5 * k
  BY Tenths
<1>2. Size(k)
  BY <1>1 DEF Size
<1>3. /\ Move(stride)
      /\ lying' \subseteq Spots /\ lying \ taken \subseteq lying'
      /\ ahead' = ahead \ taken
      /\ direction' = direction
  BY <1>0 DEF OnTick, Typed
<1>4. CASE ~moving
  <2>1. coords' = coords /\ prev_coords' = prev_coords
    BY <1>3, <1>4 DEF Move
  <2>2. Typed'
    BY <1>0, <1>3, <2>1 DEF Typed
  <2>3. ColumnInv' /\ StrandedByShortSteps'
    BY <1>0, <2>1 DEF ColumnInv, InColumn, StrandedByShortSteps
  <2>4. AheadInv'
    BY <1>0, <1>3, <2>1 DEF AheadInv
  <2> QED
    BY <2>2, <2>3, <2>4 DEF Inv
<1>5. CASE moving
  <2>1. prev_coords' = coords /\ Stepped(k)
    BY <1>0, <1>2, <1>3, <1>5, MoveSteps
  <2>2. coords \in Points /\ coords' \in Points /\ direction \in Directions
          /\ Across(coords', direction) = Across(coords, direction)
    BY <1>0, <2>1 DEF Typed, Stepped
  <2>3. Typed'
    BY <1>0, <1>3, <2>1, <2>2 DEF Typed
  <2>4. ColumnInv'
    BY <1>0, <1>2, <2>1, StepColumn
  <2>5. StrandedByShortSteps'
    <3>1. CASE coords' = coords \/ Strays(coords, coords', direction, k)
      <4>1. Abs(coords'.x - coords.x) + Abs(coords'.y - coords.y) < (Unit \div 2) - RoadSide
        BY <1>2, <2>2, <3>1, StrayIsShort
      <4> QED
        BY <2>1, <4>1 DEF StrandedByShortSteps
    <3>2. CASE \E r \in RoadsAt(RoundRoadCoords(coords)) : Keeps(coords, coords', direction, r)
      <4>1. \E r \in Roads : r \in RoadsAt(RoundRoadCoords(coords'))
        BY <2>2, <3>2, KeptCovers DEF RoadsAt
      <4>2. RoadsAt(RoundRoadCoords(coords'))
              = RoadsAt(RoundRoadCoords(coords))'
        BY DEF RoadsAt, RoundRoadCoords, RoundRoadCoord
      <4> QED
        BY <4>1, <4>2 DEF StrandedByShortSteps
    <3> QED
      BY <2>1, <3>1, <3>2 DEF Stepped
  <2>6. AheadInv'
    <3>1. ASSUME NEW s \in ahead, s \notin taken
          PROVE  /\ s \in lying'
                 /\ Abs(Across(s, direction) - Across(coords', direction)) <= DogRadius + LootRadius
                 /\ (Along(s, direction) - Along(coords', direction)) * Towards(direction) > 0
      <4>1. s \notin HandleCollisions(coords, coords')
        BY <2>1, <3>1
      <4>2. (Along(s, direction) - Along(coords', direction)) * Towards(direction) > 0
        BY <1>0, <2>2, <3>1, <4>1, StepAhead
      <4>3. s \in lying
              /\ Abs(Across(s, direction) - Across(coords, direction)) <= DogRadius + LootRadius
        BY <1>0, <3>1 DEF AheadInv
      <4> QED
        BY <1>3, <2>2, <3>1, <4>2, <4>3
    <3> HIDE DEF taken
    <3> QED
      BY <1>3, <3>1 DEF AheadInv
  <2> QED
    BY <2>3, <2>4, <2>5, <2>6 DEF Inv
<1> QED
  BY <1>4, <1>5

LEMMA NextInv == Inv /\ [Next]_vars => Inv'
<1> SUFFICES ASSUME Inv, [Next]_vars PROVE Inv'
  OBVIOUS
<1>0. Typed /\ ColumnInv /\ StrandedByShortSteps /\ AheadInv
  BY DEF Inv
<1>1. ASSUME NEW dir \in Directions, MovePlayer(dir) PROVE Inv'
  <2>1. /\ coords' = coords /\ prev_coords' = prev_coords /\ lying' = lying
        /\ direction' = dir /\ ahead' = {s \in lying : LiesAhead(s, dir)}
    BY <1>1 DEF MovePlayer
  <2>2. Typed'
    BY <1>0, <2>1 DEF Typed
  <2>3. ColumnInv' /\ StrandedByShortSteps'
    BY <1>0, <2>1 DEF ColumnInv, InColumn, StrandedByShortSteps
  <2>4. AheadInv'
    BY <2>1 DEF AheadInv, LiesAhead
  <2> QED
    BY <2>2, <2>3, <2>4 DEF Inv
<1>2. ASSUME UNCHANGED <<coords, prev_coords, direction, lying, ahead>> PROVE Inv'
  <2>1. Typed' /\ ColumnInv' /\ StrandedByShortSteps'
    BY <1>0, <1>2 DEF Typed, ColumnInv, InColumn, StrandedByShortSteps
  <2>2. AheadInv'
    BY <1>0, <1>2 DEF AheadInv
  <2> QED
    BY <2>1, <2>2 DEF Inv
<1>3. CASE StopPlayer
  BY <1>2, <1>3 DEF StopPlayer
<1>4. CASE UNCHANGED vars
  BY <1>2, <1>4 DEF vars
<1> QED
  BY <1>1, <1>3, <1>4, TickInv DEF Next

LEMMA Invariant == Spec => []Inv
BY InitInv, NextInv, PTL DEF Spec

\* A dog is never in a column without a road: the look-up of the roads of its
\* cell in GameSession::Move does not throw.
THEOREM LookupNeverThrows == Spec => []LookupSucceeds
<1>1. Inv => LookupSucceeds
  BY ColumnHasRoad DEF Inv, Typed, Points, ColumnInv, LookupSucceeds
<1> QED
  BY <1>1, Invariant, PTL

\* Only a step shorter than a tenth of a cell can strand a dog where no road is.
THEOREM OnlyShortStepsStrand == Spec => []StrandedByShortSteps
<1>1. Inv => StrandedByShortSteps
  BY DEF Inv
<1> QED
  BY <1>1, Invariant, PTL

\* The steps of a straight walk leave no gap: GameSession::HandleCollisions takes
\* whatever the dog walks past, for every order of strides, stops and borders.
THEOREM NothingLeftBehind == Spec => []NothingSkipped
<1>1. Inv => NothingSkipped
  BY DEF Inv, AheadInv, NothingSkipped
<1> QED
  BY <1>1, Invariant, PTL

-----------------------------------------------------------------------------
(* The map that the page draws.                                            *)

Road == [x0 : Int, y0 : Int, x1 : Int] \cup [x0 : Int, y0 : Int, y1 : Int]

\* The ends of a road are whole numbers, the smaller one first.
LEMMA EndsInOrder ==
    ASSUME NEW r \in Road
    PROVE  /\ Min(Ends(r)) \in Int /\ Max(Ends(r)) \in Int
           /\ \A c \in Ends(r) : Min(Ends(r)) <= c /\ c <= Max(Ends(r))
<1>1. PICK a \in Int, b \in Int : Ends(r) = {a, b}
    BY DEF Road, Ends, RunsAlongX
<1>2. \E m \in {a, b} : \A c \in {a, b} : m <= c
    OBVIOUS
<1>3. \E m \in {a, b} : \A c \in {a, b} : m >= c
    OBVIOUS
<1> QED
    BY <1>1, <1>2, <1>3 DEF Min, Max

\* Two cells side by side agree on what is between them: where one is drawn open
\* to the other, the other is open to it, so no edge closes half a crossing.
THEOREM NeighboursAgree ==
    ASSUME NEW roads \in SUBSET Road, NEW x \in Int, NEW y \in Int
    PROVE  /\ Tile(roads, x, y).r = Tile(roads, x + 1, y).l
           /\ Tile(roads, x, y).d = Tile(roads, x, y + 1).u
<1>1. ASSUME NEW r \in roads, RunsAlongX(r)
      PROVE  (Covers(r, x, y) /\ x # Max(Ends(r)))
                <=> (Covers(r, x + 1, y) /\ x + 1 # Min(Ends(r)))
    BY <1>1, EndsInOrder DEF Covers, XCells, YCells
<1>2. ASSUME NEW r \in roads, ~RunsAlongX(r)
      PROVE  (Covers(r, x, y) /\ y # Max(Ends(r)))
                <=> (Covers(r, x, y + 1) /\ y + 1 # Min(Ends(r)))
    BY <1>2, EndsInOrder DEF Covers, XCells, YCells
<1> QED
    BY <1>1, <1>2 DEF Tile

LEMMA SentRoad ==
  ASSUME NEW r \in Roads
  PROVE  /\ AsSent(r) \in Road
         /\ r.y1 = r.y2 => /\ RunsAlongX(AsSent(r)) /\ Ends(AsSent(r)) = {r.x1, r.x2}
                           /\ AsSent(r).y0 = r.y1
         /\ r.y1 # r.y2 => /\ ~RunsAlongX(AsSent(r)) /\ Ends(AsSent(r)) = {r.y1, r.y2}
                           /\ AsSent(r).x0 = r.x1
<1>1. r.x1 \in Int /\ r.x2 \in Int /\ r.y1 \in Int /\ r.y2 \in Int
  BY RoadFacts
<1>2. /\ Start(r).x \in Int /\ Start(r).y \in Int /\ End(r).x \in Int /\ End(r).y \in Int
      /\ {Start(r).x, End(r).x} = {r.x1, r.x2} /\ {Start(r).y, End(r).y} = {r.y1, r.y2}
  BY <1>1 DEF Start, End
<1>3. r.x1 = r.x2 \/ r.y1 = r.y2
  BY RoadFacts
<1>4. CASE r.y1 = r.y2
  <2>1. AsSent(r) = [x0 |-> Start(r).x, y0 |-> Start(r).y, x1 |-> End(r).x]
    BY <1>4 DEF AsSent
  <2>2. Start(r).y = r.y1
    BY <1>2, <1>4
  <2>3. AsSent(r) \in Road /\ RunsAlongX(AsSent(r)) /\ AsSent(r).y0 = r.y1
    BY <1>2, <2>1, <2>2 DEF Road, RunsAlongX
  <2>4. Ends(AsSent(r)) = {Start(r).x, End(r).x}
    BY <2>1, <2>3 DEF Ends
  <2> QED
    BY <1>2, <1>4, <2>3, <2>4
<1>5. CASE r.y1 # r.y2
  <2>1. AsSent(r) = [x0 |-> Start(r).x, y0 |-> Start(r).y, y1 |-> End(r).y]
    BY <1>5 DEF AsSent
  <2>2. Start(r).x = r.x1
    BY <1>2, <1>3, <1>5
  <2>3. AsSent(r) \in Road /\ ~RunsAlongX(AsSent(r)) /\ AsSent(r).x0 = r.x1
    BY <1>2, <2>1, <2>2 DEF Road, RunsAlongX
  <2>4. Ends(AsSent(r)) = {Start(r).y, End(r).y}
    BY <2>1, <2>3 DEF Ends
  <2> QED
    BY <1>2, <1>5, <2>3, <2>4
<1> QED
  BY <1>4, <1>5

\* A road that goes on beyond a cell opens the cell to that side.
LEMMA OpensAlongX ==
  ASSUME NEW r \in Roads, NEW x \in Int, r.x1 <= x, x <= r.x2, r.y1 = r.y2
  PROVE  LET tile == Tile({AsSent(s) : s \in Roads}, x, r.y1)
         IN  (x < r.x2 => tile.r) /\ (r.x1 < x => tile.l)
<1> DEFINE sent == AsSent(r)
<1>1. /\ sent \in Road /\ RunsAlongX(sent) /\ Ends(sent) = {r.x1, r.x2} /\ sent.y0 = r.y1
  BY SentRoad
<1>2. /\ Min(Ends(sent)) \in Int /\ Max(Ends(sent)) \in Int
      /\ Min(Ends(sent)) <= r.x1 /\ r.x2 <= Max(Ends(sent))
  BY <1>1, EndsInOrder
<1>3. r.x1 \in Int /\ r.x2 \in Int
  BY RoadFacts
<1> HIDE DEF sent
<1>4. Covers(sent, x, r.y1)
  BY <1>1, <1>2, <1>3 DEF Covers, XCells, YCells
<1>5. sent \in {AsSent(s) : s \in Roads}
  BY DEF sent
<1>6. x < r.x2 => x # Max(Ends(sent))
  BY <1>2, <1>3
<1>7. r.x1 < x => x # Min(Ends(sent))
  BY <1>2, <1>3
<1> QED
  BY <1>1, <1>4, <1>5, <1>6, <1>7 DEF Tile

LEMMA OpensAlongY ==
  ASSUME NEW r \in Roads, NEW y \in Int, r.y1 <= y, y <= r.y2, r.y1 # r.y2
  PROVE  LET tile == Tile({AsSent(s) : s \in Roads}, r.x1, y)
         IN  (y < r.y2 => tile.d) /\ (r.y1 < y => tile.u)
<1> DEFINE sent == AsSent(r)
<1>1. /\ sent \in Road /\ ~RunsAlongX(sent) /\ Ends(sent) = {r.y1, r.y2} /\ sent.x0 = r.x1
  BY SentRoad
<1>2. /\ Min(Ends(sent)) \in Int /\ Max(Ends(sent)) \in Int
      /\ Min(Ends(sent)) <= r.y1 /\ r.y2 <= Max(Ends(sent))
  BY <1>1, EndsInOrder
<1>3. r.y1 \in Int /\ r.y2 \in Int
  BY RoadFacts
<1> HIDE DEF sent
<1>4. Covers(sent, r.x1, y)
  BY <1>1, <1>2, <1>3 DEF Covers, XCells, YCells
<1>5. sent \in {AsSent(s) : s \in Roads}
  BY DEF sent
<1>6. y < r.y2 => y # Max(Ends(sent))
  BY <1>2, <1>3
<1>7. r.y1 < y => y # Min(Ends(sent))
  BY <1>2, <1>3
<1> QED
  BY <1>1, <1>4, <1>5, <1>6, <1>7 DEF Tile

LEMMA CrossesOpen ==
  ASSUME NEW p \in Points, NEW q \in Points, NEW dir \in Directions,
         NEW r \in RoadsAt(RoundRoadCoords(p)), Keeps(p, q, dir, r),
         Across(q, dir) = Across(p, dir), RoundRoadCoords(q) # RoundRoadCoords(p)
  PROVE  LET from == RoundRoadCoords(p)
         IN  SideOf(dir) \notin ClosedSides({AsSent(s) : s \in Roads}, from.x, from.y)
<1> DEFINE x == RoundRoadCoord(p.x)
           y == RoundRoadCoord(p.y)
           sent == {AsSent(s) : s \in Roads}
<1>1. PICK k \in Nat : k > 0 /\ Unit = 10 * k
  BY Tenths
<1>2. p.x \in Int /\ p.y \in Int /\ q.x \in Int /\ q.y \in Int
  BY DEF Points
<1>3. /\ x \in Int /\ y \in Int
      /\ RoundRoadCoord(q.x) \in Int /\ RoundRoadCoord(q.y) \in Int
  BY <1>1, <1>2, Rounds
<1>4. r \in Roads /\ r.x1 <= x /\ x <= r.x2 /\ r.y1 <= y /\ y <= r.y2
  BY DEF RoadsAt, RoundRoadCoords
<1>5. /\ r.x1 \in Int /\ r.x2 \in Int /\ r.y1 \in Int /\ r.y2 \in Int
      /\ (r.x1 = r.x2 \/ r.y1 = r.y2)
  BY <1>4, RoadFacts
<1>6. \/ dir = "NORTH" /\ r.y1 < y /\ r.y1 # r.y2 /\ x = r.x1
      \/ dir = "SOUTH" /\ y < r.y2 /\ r.y1 # r.y2 /\ x = r.x1
      \/ dir = "WEST" /\ r.x1 < x /\ r.y1 = r.y2 /\ y = r.y1
      \/ dir = "EAST" /\ x < r.x2 /\ r.y1 = r.y2 /\ y = r.y1
  <2>1. \/ dir \in {"NORTH", "SOUTH"} /\ q.x = p.x /\ RoundRoadCoord(q.y) # y
        \/ dir \in {"WEST", "EAST"} /\ q.y = p.y /\ RoundRoadCoord(q.x) # x
    BY DEF Directions, Across, IsHorizontal, RoundRoadCoords
  <2> QED
    BY <1>3, <1>4, <1>5, <2>1 DEF Keeps, KeptOn, KeptBack
<1>7. /\ dir = "NORTH" => Tile(sent, x, y).u
      /\ dir = "SOUTH" => Tile(sent, x, y).d
      /\ dir = "WEST" => Tile(sent, x, y).l
      /\ dir = "EAST" => Tile(sent, x, y).r
  BY <1>3, <1>4, <1>6, OpensAlongX, OpensAlongY
<1>8. Tile(sent, x, y)[SideOf(dir)]
  BY <1>7 DEF Directions, SideOf
<1>9. RoundRoadCoords(p).x = x /\ RoundRoadCoords(p).y = y
  BY DEF RoundRoadCoords
<1> QED
  BY <1>8, <1>9 DEF ClosedSides

\* The page draws the roads as the server lets dogs walk on them: no step into
\* another cell crosses an edge drawn closed, unless it is one that may strand
\* the dog.
THEOREM WalksAreDrawn == Spec => WalksDrawnOpen
<1> DEFINE A == LET from == RoundRoadCoords(coords)
                IN  RoundRoadCoords(coords') # from =>
                      \/ Abs(coords'.x - coords.x) + Abs(coords'.y - coords.y)
                           < (Unit \div 2) - RoadSide
                      \/ SideOf(direction)
                           \notin ClosedSides({AsSent(r) : r \in Roads}, from.x, from.y)
<1>1. Inv /\ [Next]_vars => [A]_vars
  <2> SUFFICES ASSUME Inv, Next PROVE A
    OBVIOUS
  <2>1. CASE coords' = coords
    BY <2>1
  <2>2. ASSUME NEW stride \in Strides, OnTick(stride), moving PROVE A
    <3>1. PICK k \in Nat : /\ k > 0 /\ Unit = 10 * k /\ RoadSide = 4 * k
      BY Tenths
    <3>2. Size(k)
      BY <3>1 DEF Size
    <3>3. Typed /\ Move(stride)
      BY <2>2 DEF OnTick, Inv
    <3>4. Stepped(k)
      BY <2>2, <3>2, <3>3, MoveSteps
    <3>5. coords \in Points /\ coords' \in Points /\ direction \in Directions
            /\ Across(coords', direction) = Across(coords, direction)
      BY <3>3, <3>4 DEF Typed, Stepped
    <3>6. CASE coords' = coords \/ Strays(coords, coords', direction, k)
      BY <3>2, <3>5, <3>6, StrayIsShort
    <3>7. CASE \E r \in RoadsAt(RoundRoadCoords(coords)) : Keeps(coords, coords', direction, r)
      BY <3>5, <3>7, CrossesOpen
    <3> QED
      BY <3>4, <3>6, <3>7 DEF Stepped
  <2>3. coords' = coords \/ \E stride \in Strides : OnTick(stride) /\ moving
    BY DEF Next, MovePlayer, StopPlayer, OnTick, Move
  <2> QED
    BY <2>1, <2>2, <2>3
<1> QED
  BY <1>1, Invariant, PTL DEF Spec, WalksDrawnOpen
===============================================================================
