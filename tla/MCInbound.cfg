\* Two delivery ids, two runs, half-second ticks; a tolerance of one second.
SPECIFICATION Spec
CONSTANTS
  Ids = {i1, i2}
  Runs = {r1, r2}
  Second = 2
  Tolerance = 2
  Floor = 4
  MaxTime = 7
  MaxWaiting = 1
  None = None
INVARIANTS ReceiptMatchesRun OnceInsideWindow
SYMMETRY RunSymmetry
CHECK_DEADLOCK FALSE
