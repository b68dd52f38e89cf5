SPECIFICATION FairSpec
CONSTANTS
  Thread = {t1, t2, t3}
  Fid = {x1, x2}
  Obj = {o1, o2, o3}
  NoObj = NoObj
  Reopens = TRUE
  MaxLookups = 3
INVARIANTS RefsCounted FreedOnce IdleExact
PROPERTIES KeepsPromise LookupsEnd
CHECK_DEADLOCK FALSE
