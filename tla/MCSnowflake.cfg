SPECIFICATION Spec
CONSTANTS
  p1 = p1
  p2 = p2
  Processes = {p1, p2}
  Shard <- MCShard
  MAX_SEQUENCE = 3
  MaxTime = 2
INVARIANTS
  IdsAreUnique
