SPECIFICATION Spec
CONSTANTS
  Procs = {p, q}
  HistoryLimit = 2
  MaxObs = 3
  WriteCanFail = TRUE
  LoadCanFail = FALSE
  None = None
  Torn = Torn
  Sample <- Clocked
  Tasks <- Offered
  Baseline = 10
SYMMETRY Symmetry
INVARIANTS
  FileWhole
