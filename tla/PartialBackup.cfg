SPECIFICATION Spec
CHECK_DEADLOCK FALSE
CONSTANTS
  Options <- NoneSkips
  SERVING_PODS = 4
  SHARDS = 2
  FLOOR = 1
  Indexed = {TRUE}
  MaxSessions = 4
INVARIANTS SaidStaged
