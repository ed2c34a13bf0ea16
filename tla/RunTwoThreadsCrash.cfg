SPECIFICATION Spec
CONSTANTS
  Thread = {t1, t2}
  NSlots = 2
  Cell = {c1, c2}
  NoCell = NoCell
  LogSize = 2
  MaxCrash = 1
  CrashAnywhere = TRUE
  MaxForeign = 0
  Durability = "store"
INVARIANT LinksNameAllocatedObjects
