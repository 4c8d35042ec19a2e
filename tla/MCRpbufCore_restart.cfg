SPECIFICATION Spec
CONSTANTS
  Names = {a}
  Lens = {1, 2}
  Ids = {0}
  Mem = {m1, m2}
  NoPa = NoPa
  QLen = 1
  Throttled = FALSE
  Signals = FALSE
  AvailableCb = TRUE
  MaxXmit = 0
  MaxCrash = 1
SYMMETRY Symmetry
CONSTRAINT RestartBound
INVARIANTS
  OwnedIsTracked
  Exclusive
  PayloadOwnership
  UsableAccepts
CHECK_DEADLOCK FALSE
