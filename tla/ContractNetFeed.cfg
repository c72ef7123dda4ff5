SPECIFICATION NetSpec
CONSTANTS
  Ids = {t1}
  Attempts = {1}
  Prices = {1}
  Ests = {0, 1}
  EstStep = 1
  Scores = {7, 8}
  NoScore = NoScore
  None = None
  HasFeed = TRUE
  LoopingRoom = TRUE
  WorkerCanStop = FALSE
  MaxDrops = 2
  Buffer = 2
  PromptBidding = TRUE
INVARIANTS
  OfferAgreed
  AwardsHandled
CHECK_DEADLOCK FALSE
