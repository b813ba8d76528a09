SPECIFICATION Spec
CONSTANTS
  Runners <- TwoRunners
  Labels <- TwoLabels
  LabelOf <- OwnLabels
  Stages <- DeployAndSweep
  Options <- DestroyingOnly
  Operator = "impatient"
  KillPoints <- Nowhere
  InterruptPoints <- Nowhere
  KillDuringCreate = FALSE
  MaxRetriedFailures = 0
  MaxUnretriedFailures = 0
  NoRunner = NoRunner
PROPERTIES
  LiveWindowKeepsCluster
CHECK_DEADLOCK FALSE
