SPECIFICATION Spec
CONSTANTS
  Ids = {t1, t2, t3}
  Attempts = {1, 2}
  Prices = {1}
  Ests = {0}
  EstStep = 2
  Scores = {7}
  NoScore = NoScore
  None = None
  HasFeed = FALSE
  LoopingRoom = FALSE
  WorkerCanStop = FALSE
SYMMETRY Symmetry
INVARIANTS
  TypeOK
  QueueIsAwards
  WorkConserving
  WorkerHasContract
  ResultsBacked
  FlushedBeforeListening
  NothingUnsaved
  BidsNeedSession
PROPERTIES
  KeepsLedger
