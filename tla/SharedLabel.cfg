SPECIFICATION Spec
CONSTANTS
  Runners = {w1, w2, w3}
  Labels <- OneLabel
  LabelOf <- SharedLabel
  Stages <- DeployOnly
  Options <- ResumingOnly
  Operator = "patient"
  KillPoints <- InStagesAndRetry
  InterruptPoints <- InStages
  KillDuringCreate = TRUE
  MaxRetriedFailures = 1
  MaxUnretriedFailures = 1
  NoRunner = NoRunner
SYMMETRY Symmetry
PROPERTIES
  WatchdogSparesSuccessor
CHECK_DEADLOCK FALSE
