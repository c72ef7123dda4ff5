SPECIFICATION LiveNetSpec
CONSTANTS
  Ids = {t1, t2}
  Attempts = {1, 2}
  Prices = {1}
  Ests = {0}
  EstStep = 2
  Scores = {7}
  NoScore = NoScore
  None = None
  HasFeed = FALSE
  LoopingRoom = TRUE
  WorkerCanStop = FALSE
  MaxDrops = 0
  Buffer = 4
  PromptBidding = TRUE
INVARIANTS
  ResultsSafe
  ResultsForThisAttempt
PROPERTIES
  AwardsStart
  BidsResolve
  ContractsConclude
CHECK_DEADLOCK FALSE
