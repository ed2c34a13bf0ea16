SPECIFICATION MCSpec
CONSTANTS
  Kinds = {"size"}
  Thread = {t1, t2}
  NoThread = NoThread
  VHeader = {h1, h2, h3}
  Pages = 3
  Sizes = {1, 2}
  AppWaits = TRUE
  MaxChunks = 2
  MaxRuns = 2
  MaxCrash = 1
INVARIANT RequestFits
CHECK_DEADLOCK FALSE
