SPECIFICATION FairSpec
CONSTANTS
  Ops = {o1, o2, o3}
CHECK_DEADLOCK FALSE
INVARIANTS
  TypeOK
  OutcomeKept
  NetworkNotShared
  ReachedOutlivesThread
PROPERTY CallReturns
