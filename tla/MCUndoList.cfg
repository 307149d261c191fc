SPECIFICATION Spec
CONSTANTS
  None = None
  Recruits = {r}
  Veterans = {v}
  Hexes = {a, b}
  MaxCommands = 5
  MaxMessages = 2
CHECK_DEADLOCK FALSE
SYMMETRY HexSymmetry
INVARIANTS
  TypeOK
  
  
  StackIsRecord
  UndoPossible
PROPERTY SentKept
