------------------------------- MODULE GameMap -------------------------------
(***************************************************************************)
(* The map as the page draws it, src/static/js/game_map.js: gameLoadMap    *)
(* marks the cells of every road and the sides on which a road goes on;    *)
(* makeRoads (game.js) draws each marked cell with a long edge on the      *)
(* sides where none does.  A road is the record the server sends.          *)
(***************************************************************************)
EXTENDS Integers, FiniteSets, FiniteSetsExt

\* rh, s and e: a road with x1 runs along x, from the smaller end to the greater.
RunsAlongX(r) == "x1" \in DOMAIN r
Ends(r) == IF RunsAlongX(r) THEN {r.x0, r.x1} ELSE {r.y0, r.y1}

\* A road as the half-open reach of its cells along its own axis.
XCells(r) == IF RunsAlongX(r) THEN Min(Ends(r)) .. Max(Ends(r)) ELSE {r.x0}
YCells(r) == IF RunsAlongX(r) THEN {r.y0} ELSE Min(Ends(r)) .. Max(Ends(r))

\* xmin .. xmax and ymin .. ymax of the roads and buildings of a map.
XRange(map) ==
    LET xs == UNION {XCells(r) : r \in map.roads} \cup UNION {{b.x, b.x + b.w} : b \in map.buildings}
    IN  Min(xs) .. Max(xs)
YRange(map) ==
    LET ys == UNION {YCells(r) : r \in map.roads} \cup UNION {{b.y, b.y + b.h} : b \in map.buildings}
    IN  Min(ys) .. Max(ys)

Covers(r, x, y) == x \in XCells(r) /\ y \in YCells(r)

\* Mutant: the last cell of a road is left out.
TileOpenShort(roads, x, y) ==
    [l |-> \E r \in roads : RunsAlongX(r) /\ Covers(r, x, y) /\ x # Min(Ends(r)),
     r |-> \E r \in roads : RunsAlongX(r) /\ Covers(r, x, y) /\ x + 1 < Max(Ends(r)),
     u |-> \E r \in roads : ~RunsAlongX(r) /\ Covers(r, x, y) /\ y # Min(Ends(r)),
     d |-> \E r \in roads : ~RunsAlongX(r) /\ Covers(r, x, y) /\ y + 1 < Max(Ends(r))]
\* map_tiles: the sides of a cell on which one of its roads goes on.
Tile(roads, x, y) ==
    [l |-> \E r \in roads : RunsAlongX(r) /\ Covers(r, x, y) /\ x # Min(Ends(r)),
     r |-> \E r \in roads : RunsAlongX(r) /\ Covers(r, x, y) /\ x # Max(Ends(r)),
     u |-> \E r \in roads : ~RunsAlongX(r) /\ Covers(r, x, y) /\ y # Min(Ends(r)),
     d |-> \E r \in roads : ~RunsAlongX(r) /\ Covers(r, x, y) /\ y # Max(Ends(r))]

IsRoad(roads, x, y) == \E r \in roads : Covers(r, x, y)

\* makeRoadTile2: the sides of a cell that a long edge closes.
ClosedSides(roads, x, y) == {side \in {"l", "r", "u", "d"} : ~Tile(roads, x, y)[side]}

=============================================================================
