SPECIFICATION Spec
CONSTANTS
  Threads = {t1}
  Ids = {1, 2}
  Groups = {g1, g2}
  Nodes = {n1, n2}
  Anchor = Anchor
  Ctrl = Ctrl
  None = None
  MaxCalls = 3
  Timeouts = TRUE
  SendFails = TRUE
  Refuses = TRUE
  Resets = TRUE
  GoneFirst = TRUE
  Opens = TRUE
CHECK_DEADLOCK FALSE
SYMMETRY Symmetry
INVARIANT
  IdExclusive
