SPECIFICATION Spec
CONSTANTS
  Thread = {t1, t2}
  Bno = {n1}
  Obj = {o1, o2}
  NoObj = NoObj
  Kinds = {"lookup", "rd", "wr", "preload"}
  FaultPlans = {{"fail", "enoent"}, {"fail", "invalidate"}}
  MaxGets = 3
  MaxExtends = 1
INVARIANTS RefsCounted TreeHolds FlagsOwned UpgradesRead
PROPERTIES KeepsPromise
SYMMETRY Symmetry
CHECK_DEADLOCK FALSE
