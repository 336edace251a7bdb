CONSTANTS
  a = a
  b = b
  x1 = x1
  x2 = x2
  none = none
  Nodes <- Pair
  Other <- Across
  Exchanges <- TwoExchanges
  NoId <- none
  Ids = {0, 2}
  MaxHops = 3
SPECIFICATION FairSpec
INVARIANTS
  ErrorsAreBounded
PROPERTIES
  CallIsSettled
CHECK_DEADLOCK FALSE
