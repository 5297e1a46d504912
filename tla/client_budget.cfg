CONSTANTS
  ingest = ingest
  Callers <- TheThread
  Client = ingest
  PerMinute = 2
  TicksPerMinute = 2
  Threshold = 2
  Cooldown = 3
  MaxFlight = 1
  MaxRetries = 3
  SessionMaxAge = 4
  Backoff <- OneTickEach
SPECIFICATION FairSpec
INVARIANT EveryFlightLands
PROPERTIES BreakerRecovers GetReturns
