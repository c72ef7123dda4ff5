SPECIFICATION LiveSpec
CONSTANTS
  Ids = {t1}
  Attempts = {1, 2}
  Prices = {1}
  Ests = {0, 1, 2}
  EstStep = 2
  Scores = {7, 8}
  NoScore = NoScore
  None = None
  HasFeed = TRUE
  LoopingRoom = FALSE
  WorkerCanStop = TRUE
INVARIANTS
  ResponsesCurrent
PROPERTIES
  CompletesOnlyRunning
  ResultsWritten
