CONSTANTS
  a1 = a1
  a2 = a2
  j1 = j1
  j2 = j2
  j3 = j3
  NULL = NULL
  App = {a1, a2}
  Job = {j1, j2, j3}
SPECIFICATION Spec
INVARIANTS
  TypeOK
  NoDanglingPointer
  OneJobPerWindow
  HoldsBalance
PROPERTIES
  ButtonComesBack
  ClosedIsFreed
  AllClosedEnds
\* After Exit the process is gone.
CHECK_DEADLOCK FALSE
