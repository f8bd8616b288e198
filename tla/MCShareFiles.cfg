CONSTANTS
  w1 = w1
  w2 = w2
  Old = Old
  Absent = Absent
  Writer = {w1}
  n = 6
  MaxBlocks = 3
  threshold <- MCThreshold
  size <- MCSize
SPECIFICATION FilesSpec
INVARIANTS
  OneSetSurvives
  SuccessIsWhole
\* A writer ends.
CHECK_DEADLOCK FALSE
