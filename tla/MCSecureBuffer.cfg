CONSTANTS
  Char <- MCChar
  width <- MCWidth
  Pastes <- MCPastes
  MaxChars = 9
SPECIFICATION Spec
VIEW MCView
INVARIANTS
  TypeOK
  CountsAgree
  NothingLingers
PROPERTY EditsText
\* A buffer is freed.
CHECK_DEADLOCK FALSE
