SPECIFICATION Spec
CONSTANTS
  Client = {c1, c2}
  Nobody = Nobody
  Ops = {"get", "chwr", "ext"}
  Faults = {"filecb", "lost", "forget", "ios"}
  MaxReq = 3
INVARIANTS Counted RefsHeld Coherent ValidIsLeased
SYMMETRY Symmetry
CHECK_DEADLOCK FALSE
