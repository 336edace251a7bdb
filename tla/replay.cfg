CONSTANTS
  Keys = {1, 2}
  Ttl = 1
  MaxEntries = 1
  SetBacks <- ByTwo
  MaxTime = 3
  Clients <- TwoClients
  Skew <- SecondIsAhead
  Secrets <- TwoSecrets
  SignsWith <- SecondHasOwn
  Kid <- SecondHasKid
  NoKid = "none"
  Keyring <- Ring
  Default = "shared"
  MaxVersion <- TwoAreReplaced
SPECIFICATION HSpec
INVARIANTS
  CacheIsBounded
  FreshIsSeen
  NonceCountsOnce
PROPERTIES
  FirstIsAllowed
CHECK_DEADLOCK FALSE
