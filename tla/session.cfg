CONSTANTS
  MaxSent <- ServerSendsTwo
  Stopping <- ClientOnly
SPECIFICATION FairSpec
INVARIANTS
  AuthenticatedMeansAllowed
  DeadSessionLeaves
  FramesAccounted
PROPERTIES
  ListenEnds
  AllowedClientProceeds
  HandshakeEnds
CHECK_DEADLOCK FALSE
