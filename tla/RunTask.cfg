SPECIFICATION Spec
CONSTANTS
  Word = 255
  Segment = 20
  WordBits = 1
  Lows <- SomeLows
  Highs <- SomeHighs
  Orders <- SomeOrders
  Moduli <- SomeModuli
  Widths = {1, 2, 3}
INVARIANTS
  PrimesCounted
  ChecksumCorrect
  InRange
  DrawsUnbiased
CHECK_DEADLOCK FALSE
