SPECIFICATION FairSpec
CHECK_DEADLOCK FALSE
CONSTANTS
  Options <- EveryOption
  SERVING_PODS = 4
  SHARDS = 2
  FLOOR = 1
  Indexed = {TRUE, FALSE}
  MaxSessions = 4
INVARIANTS TypeOK RomIsStaged ServesReadOnly
PROPERTIES ServingSpared SessionEnds
