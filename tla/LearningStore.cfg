SPECIFICATION Spec
CONSTANTS
  Procs = {p}
  HistoryLimit = 5
  MaxObs = 7
  WriteCanFail = TRUE
  LoadCanFail = FALSE
  None = None
  Torn = Torn
  Sample <- Clocked
  Tasks <- Offered
  Baseline = 10
INVARIANTS
  TypeOK
  FileWhole
  ForecastCovers
  QuoteWithinReserve
PROPERTIES
  NothingForgotten
