CONSTANTS
  announcements = announcements
  results = results
  FeedOrder <- BothFeeds
  ApiFeed = announcements
  Attached <- AllAttached
  Numbered <- AllAttached
  Window = 2
  MaxItems = 2
  MaxFailures = 0
  MaxBackfills = 1
  MaxRestarts = 0
SPECIFICATION Spec
INVARIANT ValidatorCoversStored
