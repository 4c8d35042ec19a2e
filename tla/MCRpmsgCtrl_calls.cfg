SPECIFICATION FairSpec
CONSTANTS
  Threads = {t1, t2}
  Ids = {1, 2}
  Groups = {g}
  Nodes = {n1, n2}
  Anchor = Anchor
  Ctrl = Ctrl
  None = None
  MaxCalls = 2
  Timeouts = FALSE
  SendFails = FALSE
  Refuses = TRUE
  Resets = FALSE
  GoneFirst = FALSE
  Opens = FALSE
CHECK_DEADLOCK FALSE
INVARIANTS
  TypeOK
  CreateTruthful
  EntriesReal
PROPERTY
  Answered
