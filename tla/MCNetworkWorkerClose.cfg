SPECIFICATION Spec
CONSTANTS
  Workers = {w1}
  Sockets = {s1}
  MinThreads = 1
  MaxThreads = 1
  MaxQueued = 1
  MaxErrors = 1
  NULL = NULL
PROPERTY ClosedWhenFinished
