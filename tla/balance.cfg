CONSTANTS
  s1 = s1
  s2 = s2
  s3 = s3
  c1 = c1
  c2 = c2
  Callers <- TwoCallers
  Lanes <- TwoLanes
  A = A
  B = B
  Sessions <- Three
  Namespaces <- Spaces
  Roles <- TwoRoles
  NamespaceOf <- LastInB
  RoleOf <- SecondServes
  Wrap = 2
SPECIFICATION FairSpec
INVARIANTS
  TypeOK
PROPERTIES
  ChosenIsUsable
  FailsOnlyForWant
  ChoiceEnds
  SoleLaneIsFair
CHECK_DEADLOCK FALSE
