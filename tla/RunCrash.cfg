SPECIFICATION FairSpec
CONSTANTS
  Thread = {t1}
  NSlots = 2
  Cell = {c1, c2}
  NoCell = NoCell
  LogSize = 2
  MaxCrash = 2
  CrashAnywhere = FALSE
  MaxForeign = 1
  Durability = "store"
INVARIANT QuietHeaderIsFree
INVARIANT LinksNameAllocatedObjects
PROPERTY HeaderIsReleased
PROPERTY CallsAreFailureAtomic
