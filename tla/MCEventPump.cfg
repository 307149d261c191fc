SPECIFICATION Spec
CONSTANTS
  Names = {a, b}
  Ids = {i}
  a = a
  b = b
  i = i
  Configs <- HandlerConfigs
  None = None
  MaxLoop = 2
  MaxEvents = 3
  MaxHandlers = 3
  MaxBoth = 5
CHECK_DEADLOCK FALSE
INVARIANTS
  TypeOK
  NodesCounted
  MeetsHandlers
  RunsAsAllowed
  EventsKept
