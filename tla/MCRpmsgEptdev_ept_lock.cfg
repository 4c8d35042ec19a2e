SPECIFICATION Spec
CONSTANTS
  Users = {u1}
  MaxLen = 1
  NoOne = NoOne
  Rx = Rx
  Rm = Rm
INVARIANTS
  WriterHasEndpoint
CHECK_DEADLOCK FALSE
