SPECIFICATION FairSpec
CONSTANTS
  Thread = {t1, t2}
  None = None
  Exited = Exited
  MaxSearches = 3
INVARIANTS WorkersSound OwnResponse
PROPERTIES RetiresOnlyIdle SearchesEnd IdleReclaimed
CHECK_DEADLOCK FALSE
