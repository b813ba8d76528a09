SPECIFICATION FairSpec
CONSTANTS
  Runners <- TwoRunners
  Labels <- TwoLabels
  LabelOf <- OwnLabels
  Stages <- DeployAndSweep
  Options <- AllOptions
  Operator = "impatient"
  KillPoints <- InStagesAndExit
  InterruptPoints <- InStages
  KillDuringCreate = FALSE
  MaxRetriedFailures = 1
  MaxUnretriedFailures = 0
  NoRunner = NoRunner
INVARIANTS
  TypeOK
  SoleMarker
  
PROPERTIES
  WatchdogSparesSuccessor
  HoldHonoured
  HoldNeedsConsent
  
CHECK_DEADLOCK FALSE
