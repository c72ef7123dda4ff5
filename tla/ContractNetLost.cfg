SPECIFICATION NetSpec
CONSTANTS
  Ids = {t1}
  Attempts = {1, 2}
  Prices = {1}
  Ests = {0}
  EstStep = 2
  Scores = {7}
  NoScore = NoScore
  None = None
  HasFeed = FALSE
  LoopingRoom = TRUE
  WorkerCanStop = FALSE
  MaxDrops = 2
  Buffer = 4
  PromptBidding = TRUE
INVARIANTS
  ResultsSafe
CHECK_DEADLOCK FALSE
