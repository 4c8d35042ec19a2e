SPECIFICATION Spec
CONSTANTS
  Names = {a, b}
  Lens = {1}
  Ids = {0, 1}
  Mem = {m1, m2}
  NoPa = NoPa
  QLen = 2
  Throttled = TRUE
  Signals = FALSE
  AvailableCb = TRUE
  MaxXmit = 0
  MaxCrash = 0
SYMMETRY Symmetry
CONSTRAINT TakingTurns
INVARIANT DestroyedByName
