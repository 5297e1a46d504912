CONSTANTS
  MaxFilings = 5
  Severity <- AllKinds
  TelegramOn = TRUE
  WebhookOn = TRUE
  MaxHigh = 1
  MaxAttempts = 2
  MaxFaults = 2
SPECIFICATION FairSpec
INVARIANTS NothingMaterialLost PushesBounded
PROPERTY MaterialAlerted
