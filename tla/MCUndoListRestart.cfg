SPECIFICATION FairSpec
CONSTANTS
  None = None
  Recruits = {r}
  Veterans = {}
  Hexes = {a, b}
  MaxCommands = 3
  MaxMessages = 1
CHECK_DEADLOCK FALSE
PROPERTY LosingSideEnds
