SPECIFICATION Spec
CONSTANTS
  Threads = {t1, t2}
  Ids = {1, 2}
  Groups = {g}
  Nodes = {n1, n2}
  Anchor = Anchor
  Ctrl = Ctrl
  None = None
  MaxCalls = 2
  Timeouts = TRUE
  SendFails = TRUE
  Refuses = TRUE
  Resets = FALSE
  GoneFirst = FALSE
  Opens = TRUE
CHECK_DEADLOCK FALSE
SYMMETRY Symmetry
INVARIANTS
  IdExclusive
  AckMatched
  NeverHung
