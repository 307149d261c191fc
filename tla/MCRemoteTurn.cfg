SPECIFICATION MCSpec
CONSTANTS
  a = a  b = b  c = c
  None = None
  Machine = {a, b, c}
  Hosts = {a, c}
  LastSide = 2
  Home <- MCHome
  Scripts <- MCScripts
  MaxCommands = 2
  MayLeave = {a, b}
INVARIANTS TypeOK RecordIsGame NoError
PROPERTIES ImplementsSharedGame WaitsEnd
CHECK_DEADLOCK FALSE
