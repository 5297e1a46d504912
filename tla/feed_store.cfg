CONSTANTS
  announcements = announcements
  results = results
  FeedOrder <- BothFeeds
  ApiFeed = announcements
  Attached <- AllButOne
  Numbered <- AllButOne
  Window = 1
  MaxItems = 2
  MaxFailures = 1
  MaxBackfills = 1
  MaxRestarts = 1
SPECIFICATION FairSpec
INVARIANT ValidatorCoversCommitted
PROPERTIES EveryAnnouncementStored NoFeedStarves
