SPECIFICATION FairSpec
CONSTANTS
  Thread = {t1, t2}
  Total = 2
  NBuf = 2
  Work <- Pairs
  MaxTxg = 0
  NoThread = NoThread
INVARIANTS NextSlotFree LiveEntriesOnDisk SlotsSuffice 
PROPERTIES SettledBeforeReuse 
CHECK_DEADLOCK FALSE
