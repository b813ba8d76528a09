SPECIFICATION FairSpec
CHECK_DEADLOCK FALSE
CONSTANTS
  Slots <- ThreeSlots
  FailureLimit = 2
  MaxRequests = 12
INVARIANTS TypeOK ConstantLoad EveryRequestCounted DeadServiceStops
PROPERTIES SoakEnds
