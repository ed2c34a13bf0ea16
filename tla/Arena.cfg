SPECIFICATION MCSpec
CONSTANTS
  Kinds = {"heap", "space", "bin", "table", "size"}
  Thread = {t1, t2}
  NoThread = NoThread
  VHeader = {h1, h2, h3}
  Pages = 3
  Sizes = {1, 2}
  AppWaits = TRUE
  MaxChunks = 2
  MaxRuns = 1
  MaxCrash = 1
SYMMETRY Interchangeable
INVARIANT PagesSurvive
INVARIANT ChunksApart
INVARIANT BinsAgree
INVARIANT SlotsConserved
INVARIANT NamesSurvive
INVARIANT RequestsPlaced
CHECK_DEADLOCK FALSE
