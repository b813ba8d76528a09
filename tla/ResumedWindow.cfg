SPECIFICATION Spec
CONSTANTS
  Runners <- TwoRunners
  Labels <- OneLabel
  LabelOf <- SharedLabel
  Stages <- DeployAndSweep
  Options <- DefaultOnly
  Operator = "patient"
  KillPoints <- Nowhere
  InterruptPoints <- Nowhere
  KillDuringCreate = FALSE
  MaxRetriedFailures = 0
  MaxUnretriedFailures = 0
  NoRunner = NoRunner
PROPERTIES
  ResumesOnCluster
CHECK_DEADLOCK FALSE
