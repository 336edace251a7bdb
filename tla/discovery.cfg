CONSTANTS
  None = None
  Empty = Empty
  Broken = Broken
  NPeers = 3
  Namespaces <- AllNamespaces
  Configs <- All
SPECIFICATION FairSpec
INVARIANTS
  OnlyFailedStayOpen
  DeadLeave
  CredentialsFollowEntry
PROPERTIES
  FailureMovesOn
CHECK_DEADLOCK FALSE
