SPECIFICATION Spec
CONSTANTS
  Units = {u}
  None = None
  MaxActions = 3
  MaxTurns = 3
  MaxCommands = 2
  MayDie = {u}
CONSTRAINT Follows
CHECK_DEADLOCK FALSE
INVARIANTS TypeOK AllyFollows
PROPERTY ImplementsTurnPlans
