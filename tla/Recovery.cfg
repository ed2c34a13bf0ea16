SPECIFICATION MCSpec
CONSTANTS
  Kinds = {"huge", "block", "heap", "table", "space"}
  Thread = {t1, t2}
  Cell = {c1, c2}
  NoCell = NoCell
  Kind = "huge"
  AppWaits = FALSE
  CrashAnywhere = FALSE
  MaxCrash = 3
INVARIANT SingleOwner
INVARIANT QuietIsSettled
INVARIANT BlocksSettle
INVARIANT ChunksSurvive
PROPERTY CallsAreFailureAtomic
PROPERTY RecoveryReturns
CHECK_DEADLOCK FALSE
