CONSTANTS
  p1 = p1
  p2 = p2
  w1 = w1
  w2 = w2
  a2 = a2
  a8 = a8
  Publishers <- TwoPublishers
  Consumers = {a2}
  Workers <- OneWorker
  NameOf <- SoleWorker
  Poison <- PoisonIds
  BatchSize = 2
  MaxEvents = 3
  MaxAttempts = 3
  LiveResets = FALSE
  MaxId = 2
  MaxCrashes = 0
  MaxResets = 0
SPECIFICATION Spec
INVARIANT NoEventSkipped
