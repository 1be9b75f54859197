\* Four snapshots of four worlds across the wrap of the ids.
CONSTANTS
  e1 = e1
  e2 = e2
  k1 = k1
  k2 = k2
  p1 = p1
  p2 = p2
  Modulus = 12
  SnapshotIds <- SequenceNumber
  EntityIds = {e1, e2}
  ComponentIds = {k1, k2}
  Generations = {0, 1}
  Payloads = {p1, p2}
  MaxEntities = 2
  MaxComponents = 2
  Refused = Refused
  Worlds <- FewWorlds
  FirstId = 11
  MaxSnapshots = 4
  ServerCapacity = 2
  ClientCapacity = 2
SPECIFICATION FairSpec
INVARIANTS ClientMirrorsServer BaselineIsShared
PROPERTY EventuallyCurrent
CHECK_DEADLOCK FALSE
