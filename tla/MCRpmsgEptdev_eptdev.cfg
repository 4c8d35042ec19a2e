SPECIFICATION FairSpec
CONSTANTS
  Users = {u1, u2}
  MaxLen = 1
  NoOne = NoOne
  Rx = Rx
  Rm = Rm
INVARIANTS
  TypeOK
  QueueBound
  NoLostWakeup
  EndpointHeld
  NoLateCall
  DeviceHeld
PROPERTIES
  ReadReturns
  RemovalEnds
CHECK_DEADLOCK FALSE
