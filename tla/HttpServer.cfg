CONSTANTS
  Tokens = {t1}
  NoHeader = NoHeader
  Malformed = Malformed
  NoToken = NoToken
  Undecodable <- MCUndecodable
  Conns = {c1, c2}
  Requests <- MCRequests
  Maps <- MCMaps
  Ticker = FALSE
  MaxRequests = 2
SPECIFICATION Spec
CHECK_DEADLOCK FALSE
INVARIANTS
  OneAnswerEach
  JudgedByItself
PROPERTIES
  CloseIsHonoured
  EveryRequestEnds
