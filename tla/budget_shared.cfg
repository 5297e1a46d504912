CONSTANTS
  t1 = t1
  t2 = t2
  Callers <- Threads
  PerMinute = 3
  TicksPerMinute = 4
  Threshold = 2
  Cooldown = 3
  MaxFlight = 2
SPECIFICATION BudgetSpec
INVARIANTS RateBounded SingleProbe
PROPERTY HostRested
