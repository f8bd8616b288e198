CONSTANTS
  Coefs <- MCCoefs
  Picks <- MCPicks
  MaxK = 3
SPECIFICATION Spec
INVARIANTS
  FieldArithmetic
  Recovered
  OneOfTwoSaysNothing
\* A combine returns.
CHECK_DEADLOCK FALSE
