SPECIFICATION FairSpec
CONSTANT
  Threads = {t1, t2}
INVARIANTS
  TypeOK
  OneUser
  NothingLeft
  NoLostWakeup
  TakenIsAcked
PROPERTIES
  ReceiveReturns
