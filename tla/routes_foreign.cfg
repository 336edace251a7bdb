CONSTANTS
  Peers = {"a", "b"}
  Programs <- Some
  Patterns = {"get", "put"}
  Namespace = "core"
  MaxCalls = 1
SPECIFICATION RoutesSpec
INVARIANTS
  NoForeignHandler
CHECK_DEADLOCK FALSE
