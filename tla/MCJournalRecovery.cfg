SPECIFICATION Spec
CONSTANTS
  Op = {o1, o2}
  NoOp = NoOp
  Kinds = {"ns", "unlink", "assign", "free"}
  Total = 2
  MaxCrash = 1
  MaxTxg = 0
  Torn = FALSE
INVARIANTS AckedDurable ReclaimDurable
SYMMETRY Symmetry
CHECK_DEADLOCK FALSE
