CONSTANTS
  None = None
  Empty = Empty
  Broken = Broken
  NPeers = 3
  Namespaces <- AllNamespaces
  Configs <- Repository
SPECIFICATION FairSpec
PROPERTIES
  EveryPeerIsDialed
CHECK_DEADLOCK FALSE
