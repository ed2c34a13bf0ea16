SPECIFICATION FairMCSpec
CONSTANTS
  NWords = 2
  Value = {0, 1}
  NSlots = 1
  MaxEntries = 3
  MaxVersion = 2
  MaxCrash = 2
  Kinds = {"log", "blocks", "crashing", "life", "file"}
INVARIANT SectionsAreAtomic
INVARIANT BlocksConsistent
INVARIANT LiveIsMarked
INVARIANT RegionSurvives
PROPERTY CallsAreFailureAtomic
PROPERTY ComesUpAgain
CHECK_DEADLOCK FALSE
