SPECIFICATION FairSpec
CONSTANTS
  Obj = {o1, o2}
  Item = {i1, i2, i3}
  Far = {i3}
  Size = 2
  MaxInflight = 1
  FaultPlans <- Plans
INVARIANTS FinishedOnce CalledOnce Throttled NoStalePointer
 
CHECK_DEADLOCK FALSE
