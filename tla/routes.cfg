CONSTANTS
  Peers = {"a", "b"}
  Programs <- All
  Patterns = {"get", "put"}
  Namespace = "core"
  MaxCalls = 1
SPECIFICATION RoutesSpec
INVARIANTS
  RoutesTypeOK
  TablesAgree
  HandlerIsMeant
CHECK_DEADLOCK FALSE
