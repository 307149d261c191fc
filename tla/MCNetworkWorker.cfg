SPECIFICATION Spec
CONSTANTS
  Workers = {w1, w2, w3}
  Sockets = {s1, s2}
  MinThreads = 1
  MaxThreads = 3
  MaxQueued = 2
  MaxErrors = 1
  NULL = NULL
SYMMETRY Symmetry
INVARIANTS
  TypeOK
  HeldByOne
  BuffersKnown
  ReceivedOnce
  StreamIntact
  PoolBounded
PROPERTY JoinOwnsThreads
