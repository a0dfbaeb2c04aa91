\* two connections at most; three sends on either, from threads that know
\* nothing of each other
SPECIFICATION FactorySpec
CONSTANTS
  Send = {r1, r2, r3}
  Nobody = Nobody
  MaxConnects = 2
INVARIANTS
  ReplyCorrelation
  OneOperationAtATime
  ResolvedOnceUnlockedOnce
  FreshConnectionIsRun
PROPERTIES
  KeepsRequestReply
  EverySendResolved
  DestructorReturns
  ConnectReturns
  ExitReturns
CHECK_DEADLOCK FALSE
