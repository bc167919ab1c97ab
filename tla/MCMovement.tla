------------------------------ MODULE MCMovement ------------------------------
EXTENDS DrawnRoads

\* Two corners: a road to the east, one to the south at either end of it; all but
\* the second are given from the greater end.
MCRoads == {[x1 |-> 0, x2 |-> 1, y1 |-> 0, y2 |-> 0],
            [x1 |-> 0, x2 |-> 0, y1 |-> 0, y2 |-> 1], [x1 |-> 1, x2 |-> 1, y1 |-> 1, y2 |-> 2]}
MCBackwards == {r \in MCRoads : r.x1 # r.x2 \/ r.y1 = 1}
MCFirst == [x |-> 0, y |-> 0]
MCSpots == {[x |-> 10, y |-> 6]}

\* Cases of src/tests/collision-detector-tests.cpp, in tenths.
Walk(x1, y1, x2, y2) ==
  [start_pos |-> [x |-> x1, y |-> y1], end_pos |-> [x |-> x2, y |-> y2], radius |-> 6]
Item(x, y, r) == [position |-> [x |-> x, y |-> y], radius |-> r]
Met(gatherers, items) ==
  LET events == FindGatherEvents(gatherers, items)
  IN  [e \in DOMAIN events |-> <<events[e].item_id, events[e].gatherer_id>>]

ASSUME DetectorTests ==
  /\ Met(<<Walk(0, 0, 0, 20)>>, <<Item(2, 10, 1)>>) = <<<<1, 1>>>>
  /\ Met(<<Walk(0, 0, 0, 20)>>,
         <<Item(50, 10, 1), Item(0, 30, 1), Item(2, 10, 10)>>) = <<<<3, 1>>>>
  /\ Met(<<Walk(0, 0, 0, 50)>>,
         <<Item(0, -10, 1), Item(0, 30, 1), Item(1, 20, 1), Item(-2, 10, 1)>>)
       = <<<<4, 1>>, <<3, 1>>, <<2, 1>>>>
  /\ Met(<<Walk(20, 40, 100, 40), Walk(80, 60, 80, 20)>>, <<Item(85, 35, 1)>>)
       = <<<<1, 2>>, <<1, 1>>>>
  /\ Met(<<Walk(10, 10, 50, 50)>>, <<Item(30, 30, 1)>>) = <<<<1, 1>>>>

\* gameLoadMap indexes map_tiles by the cells of the roads: none is outside it,
\* whether or not a building is the farthest thing in a direction.
ASSUME RoadsAreOnTheMap ==
  \A b \in {[x |-> 0, y |-> 0, w |-> 1, h |-> 1], [x |-> -2, y |-> 1, w |-> 1, h |-> 4]} :
    LET sent == [roads |-> {AsSent(r) : r \in Roads}, buildings |-> {b}]
    IN  \A r \in sent.roads : XCells(r) \subseteq XRange(sent) /\ YCells(r) \subseteq YRange(sent)

=============================================================================
