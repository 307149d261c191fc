SPECIFICATION Spec
CONSTANTS
  Ops = {o1, o2}
CHECK_DEADLOCK FALSE
INVARIANT OperationOutlivesThread
