SPECIFICATION FairSpec
CONSTANTS
  atomic = atomic  plain = plain  w1 = w1  w2 = w2
  NoRelay = NoRelay  NoConsumer = NoConsumer
  NumRows = 2
  Consumers = {atomic, plain}
  Subscribers <- WithUnrouted
  Atomic = {atomic}
  Relays = {w1, w2}
  BatchSize = 2
  MaxRounds = 1
  MaxFaults = 1
  MaxExpiries = 1
INVARIANTS TypeOK AtomicAtMostOnce NothingLost InboxMeansEffect
PROPERTIES DeliveredIsFinal EveryRowSettles
CHECK_DEADLOCK FALSE
