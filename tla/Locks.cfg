SPECIFICATION MCSpec
CONSTANTS
  Thread = {t1, t2, t3}
  T = 4
  Kinds = {"ticket", "spin", "typed", "job"}
INVARIANT LocksExclude
INVARIANT ResultIsSum
PROPERTY ServesInOrder
PROPERTY WaitersGetIn
