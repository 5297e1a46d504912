CONSTANTS
  p1 = p1
  p2 = p2
  w1 = w1
  w2 = w2
  a2 = a2
  a8 = a8
  Publishers <- OnePublisher
  Consumers = {a2}
  Workers <- OneWorker
  NameOf <- SoleWorker
  Poison <- PoisonIds
  BatchSize = 2
  MaxEvents = 3
  MaxAttempts = 2
  LiveResets = FALSE
  MaxId = 4
  MaxCrashes = 2
  MaxResets = 1
SPECIFICATION FairSpec
INVARIANT OnlyTailRedelivered
PROPERTY EveryEventSettles
