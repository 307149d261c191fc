SPECIFICATION FairSpec
CONSTANTS
  Workers = {w1}
  Sockets = {s1, s2}
  MinThreads = 1
  MaxThreads = 1
  MaxQueued = 2
  MaxErrors = 1
  NULL = NULL
INVARIANT NoStranded
PROPERTIES
  ShutdownEnds
  EventuallySent
