SPECIFICATION FairSpec
CONSTANTS
  Names = {a}
  Lens = {1}
  Ids = {0}
  Mem = {m1, m2}
  NoPa = NoPa
  QLen = 2
  Throttled = TRUE
  Signals = FALSE
  AvailableCb = TRUE
  MaxXmit = 1
  MaxCrash = 0
PROPERTY TransmitReturns
CHECK_DEADLOCK FALSE
