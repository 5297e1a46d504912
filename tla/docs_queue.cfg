CONSTANTS
  MaxDocs = 3
  Path <- TwoShareAFile
  Barred = {3}
  Retries = 2
  Limit = 2
  MaxAttempts = 2
  MaxDeferrals = 1
  MaxCrashes = 1
  MaxWriteErrors = 1
SPECIFICATION FairSpec
INVARIANTS FetchedIsStored LadderBoundsRequests
PROPERTIES BackoffHonoured EveryDocumentSettles
