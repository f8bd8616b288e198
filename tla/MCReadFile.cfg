CONSTANTS
  SetId = {}
  Secret = {}
  Phrase = {}
  NoPhrase = NoPhrase
  Junk = Junk
  Splits = {}
  Sizes <- MCSizes
SPECIFICATION ReadSpec
INVARIANTS
  ReadTypeOK
  ReadIsWhole
  CliReadsEveryShare
\* A read returns.
CHECK_DEADLOCK FALSE
