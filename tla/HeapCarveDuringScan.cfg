SPECIFICATION Spec
CONSTANTS
  Thread = {t1, t2}
  NoThread = NoThread
  Pages = 3
  Sizes = {1}
  AppWaits = FALSE
  MaxChunks = 1
  MaxRuns = 0
  MaxCrash = 1
INVARIANT NoOverlap
