SPECIFICATION FairSpec
CONSTANTS
  Senders = {s1, s2}
  NBufs = 2
  RingSize = 2
  NoBuf = NoBuf
  Free = Free
  Remote = Remote
INVARIANTS
  TypeOK
  OnePlace
  NoLostWakeup
  RingHasRoom
  QuietWhenIdle
PROPERTIES
  SendReturns
  PoolSpec
