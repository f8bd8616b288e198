CONSTANTS
  SetId = {}
  Secret = {}
  Phrase = {}
  NoPhrase = NoPhrase
  Junk = Junk
  Splits = {}
  Sizes <- MCSizes
SPECIFICATION ReadSpec
INVARIANT GuiReadsEveryShare
CHECK_DEADLOCK FALSE
