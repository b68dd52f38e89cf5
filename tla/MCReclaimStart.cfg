SPECIFICATION Spec
CONSTANTS
  IOS = {i1, i2}
  PerFile = 2
  Plans <- OneCrash
INVARIANTS Restartable
CHECK_DEADLOCK FALSE
