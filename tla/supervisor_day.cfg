CONSTANTS
  Days = 3
  TradingDays <- WeekDays
  Shown = 1
  MaxAlerts = 2
  MaxFailures = 1
  MaxRestarts = 1
  HostUp = 2
SPECIFICATION Spec
INVARIANTS OverflowDigested AskedUntilKept StancesOnFreshInputs MasterTriedDaily
PROPERTY DailyJobs
CHECK_DEADLOCK FALSE
