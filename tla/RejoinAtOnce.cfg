SPECIFICATION Spec
CHECK_DEADLOCK FALSE
CONSTANTS
  MaxBlackout = 1
  MaxResidual = 2
  MaxBaseline = 1
  MaxP99Ratio = 2
  MaxRejoin = 2
  BaselineTime = 1
  RecoveryTime = 2
  RequestTimeout = 0
  ThreadJoin = 1
  JoinTimeout = 2
  KillLimit = 0
  MaxInflight = 2
INVARIANTS RejoinIsReturn
