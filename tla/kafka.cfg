SPECIFICATION FairSpec
CONSTANTS
  atomic = atomic  plain = plain
  NumMessages = 2
  Undecodable = {2}
  BatchSize = 1
  Groups = {atomic, plain}
  Atomic = {atomic}
  MaxAttempts = 1
  MaxCrashes = 1
INVARIANTS TypeOK NothingLost AtomicAtMostOnce
PROPERTIES EveryMessageSettles
CHECK_DEADLOCK FALSE
