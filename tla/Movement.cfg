CONSTANTS
  Roads <- MCRoads
  Backwards <- MCBackwards
  First <- MCFirst
  RandomSpawn = TRUE
  Unit = 20
  Strides = {1, 7}
  Spots <- MCSpots
SPECIFICATION Spec
INVARIANTS
  LookupSucceeds
  StrandedByShortSteps
  NothingSkipped
PROPERTIES
  ComesToRest
  WalksDrawnOpen
