CONSTANTS
  Parts = {"fusion", "pledge", "scoring", "master", "triage", "results", "history", "pit"}
  Profiles = {"default"}
  ScoreValues = {72, 96}
  EventValues = {96}
  Facts = {"asm_lt_stage_1", "penny"}
  MaxNights = 3
  Symbols = {a, b, c}
  Listed = {a}
  Dead = {b}
  Active = {c}
  Limit = 2
  MaxRecords = 2
  MaxStops = 1
  Percents <- Rates
  Prices = {1, 3, 7, 40, 100}
  Holdings = {0, 50, 1001, 2500, 2501, 10000}
  OwnLimit = 2
  PeerLimit = 1
  Companies = {c1, c2}
  Sme = {c2}
  Tickers = {"A", "B", "C"}
  MayReturn = FALSE
  Seed = {1}
  HolidayDays = {2}
  MaxRenames = 2
  MaxMasterFaults = 2
  Feeds = {"announcements", "board_meetings", "offer_documents"}
  Vocabulary = {"auditor_resigns", "internal_auditor", "statutory_auditor", "enforcement_order", "citation", "fire", "routine"}
  Answers <- Replies
  Periods = {1, 2}
  Revenues <- Sales
  Factor = 10
  MaxFiled = 3
  MaxMisfiled = 1
  LastDay = 4
  Windows = {1, 2}
  MaxSignals = 1
  Filings = {f1}
  Versions = {"v4", "v5"}
  LastMoment = 3
SPECIFICATION Spec
INVARIANTS DefaultHeedsRisk LatestWithinHysteresis ScoresSound PledgeNeverUnderread KnownSymbolsResolve AuditorAlwaysBlocks NoHindsight
PROPERTIES EveryPledgeChecked RefreshStored HolidaysKept MisfilesNeverWin PastReadsFixed
CHECK_DEADLOCK FALSE
