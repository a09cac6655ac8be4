\* The interval may be changed when the run is resumed.
CONSTANTS
  r1 = r1  r2 = r2
  Ranks = {r1, r2}
  Intervals = {1, 2, 3, 4}
  KeepInterval = FALSE
  MaxSteps = 4
  MaxFaults = 3
SPECIFICATION Spec
SYMMETRY RankSymmetry
CHECK_DEADLOCK FALSE
INVARIANTS ConfirmedIsRecoverable
