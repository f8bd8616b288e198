CONSTANTS
  Thread = {t1, t2}
  Entries = 3
SPECIFICATION RaceSpec
INVARIANT TablesAreBuilt
