SPECIFICATION Spec
CONSTANTS
  Phrase = {p1, p2}
  X448Priv = {x1, x2, x3}
  LowOrder = low
  KeyRandom <- MCKeyRandom
  ZRandom <- MCZRandom
  EncRandom <- MCEncRandom
  Flips <- MCFlips
  Zero = zero
INVARIANTS
  OpenContract
  ImplicitRejection
  SecretsCleared
  HashesExact
  RingExact
  CodingExact
CHECK_DEADLOCK FALSE
