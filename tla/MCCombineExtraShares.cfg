CONSTANTS
  set1 = set1
  set2 = set2
  set3 = set3
  set4 = set4
  set5 = set5
  set6 = set6
  key = key
  note = note
  right = right
  wrong = wrong
  NoPhrase = NoPhrase
  Junk = Junk
  Refused = Refused
  SetId = {set1, set2, set3, set4, set5, set6}
  Secret = {key, note}
  Phrase = {right, wrong}
  Splits <- MCSplits
  Pools <- Repacked
  MaxBlobs = 3
SPECIFICATION Spec
INVARIANT ForeignSharesCaught
