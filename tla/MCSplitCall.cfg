CONSTANTS
  set1 = set1
  set2 = set2
  key = key
  pass = pass
  NoPhrase = NoPhrase
  Junk = Junk
  NULL = NULL
  SetId = {set1, set2}
  Secret = {key}
  Phrase = {pass}
  Splits = {}
  Requests <- MCRequests
SPECIFICATION Spec
INVARIANTS
  TypeOK
  SplitCleanExit
  RoundTrip
PROPERTY ImplementsAtomicSplit
