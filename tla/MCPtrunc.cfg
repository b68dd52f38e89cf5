SPECIFICATION FairSpec
CONSTANTS
  i1 = i1
  i2 = i2
  None = None
  IOS = {i1, i2}
  Truncators = {t1}
  Plans <- AllPlans
INVARIANTS HolesKept DataKept
  
CHECK_DEADLOCK FALSE
