SPECIFICATION FairSpec
CONSTANTS
  IOS = {i1, i2}
  PerFile = 2
  Plans <- AllPlans
INVARIANTS Applied LogKept InStep
PROPERTIES Reclaimed
CHECK_DEADLOCK FALSE
