------------------------------ MODULE DrawnRoads ------------------------------
(***************************************************************************)
(* The walks of the server on the map that the page draws: Movement and    *)
(* GameMap, with the roads on their way from one to the other              *)
(* (JsonifyRoads of src/src/http/request_handler.cpp).                     *)
(***************************************************************************)
EXTENDS Movement, GameMap

CONSTANT Backwards   \* the roads that config.json gives from the greater end

ASSUME BackwardsAssumption == Backwards \subseteq Roads

\* A road as the server sends it, from its start to its end as they are
\* configured: with x1 if it runs along x, else with y1.
Start(r) == IF r \in Backwards THEN [x |-> r.x2, y |-> r.y2] ELSE [x |-> r.x1, y |-> r.y1]
End(r) == IF r \in Backwards THEN [x |-> r.x1, y |-> r.y1] ELSE [x |-> r.x2, y |-> r.y2]
AsSent(r) ==
  IF r.y1 = r.y2 THEN [x0 |-> Start(r).x, y0 |-> Start(r).y, x1 |-> End(r).x]
                 ELSE [x0 |-> Start(r).x, y0 |-> Start(r).y, y1 |-> End(r).y]

SideOf(dir) ==
  CASE dir = "NORTH" -> "u" [] dir = "SOUTH" -> "d" [] dir = "WEST" -> "l" [] dir = "EAST" -> "r"

\* The page draws the roads as the server lets dogs walk on them: a step that
\* takes a dog into another cell crosses no edge that is drawn closed, unless it
\* is one of the short steps that may strand it.
WalksDrawnOpen ==
  [][LET from == RoundRoadCoords(coords)
     IN  RoundRoadCoords(coords') # from =>
           \/ Abs(coords'.x - coords.x) + Abs(coords'.y - coords.y) < (Unit \div 2) - RoadSide
           \/ SideOf(direction) \notin ClosedSides({AsSent(r) : r \in Roads}, from.x, from.y)]_vars
===============================================================================
