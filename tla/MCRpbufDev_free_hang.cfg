SPECIFICATION FairSpec
CONSTANT
  Threads = {t1}
PROPERTIES
  FreeEnds
CHECK_DEADLOCK FALSE
