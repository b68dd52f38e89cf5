SPECIFICATION FairSpec
CONSTANTS
  Thread = {t1, t2}
  Bno = {n1}
  Obj = {o1, o2}
  NoObj = NoObj
  Kinds = {"lookup", "rd", "wr", "preload"}
  FaultPlans = {{"fail", "enoent", "invalidate"}}
  MaxGets = 2
  MaxExtends = 1
PROPERTIES BmapsDrain
CHECK_DEADLOCK FALSE
