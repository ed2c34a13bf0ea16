SPECIFICATION Spec
CONSTANTS
  Thread = {t1, t2}
  NSlots = 2
  Cell = {c1}
  NoCell = NoCell
  LogSize = 1
  MaxCrash = 1
  CrashAnywhere = TRUE
  MaxForeign = 0
  Durability = "evict"
SYMMETRY ThreadSymmetry
INVARIANT HeaderExclusion
INVARIANT NoDoubleAllocation
CHECK_DEADLOCK FALSE
