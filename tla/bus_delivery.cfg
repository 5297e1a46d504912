CONSTANTS
  p1 = p1
  p2 = p2
  w1 = w1
  w2 = w2
  a2 = a2
  a8 = a8
  Publishers <- TwoPublishers
  Consumers = {a2}
  Workers <- TwoWorkers
  NameOf <- SameName
  Poison <- PoisonIds
  BatchSize = 2
  MaxEvents = 3
  MaxAttempts = 2
  LiveResets = FALSE
  MaxId = 4
  MaxCrashes = 1
  MaxResets = 1
SPECIFICATION Spec
SYMMETRY Symmetry
INVARIANTS NoEventSkipped PoisonLeavesEvidence
PROPERTY DeliverySpec
ACTION_CONSTRAINT InIdOrder
