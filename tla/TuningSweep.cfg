SPECIFICATION FairSpecH
CONSTANTS
  Primary = 16
  Guards <- EightAnd32
  Table <- AutoTable
  Delta <- TableDelta
  Objective <- TableObjective
  Keys <- TableKeys
  Values <- TableValues
  Default = "default"
  AutoValue = "512"
  Grids <- AllGrids
  Committed <- NoResultsYet
  Plans <- WholeTable
  ResumeOptions <- BothOptions
  StopOptions <- BothOptions
  SilentBench <- LastSilent
  CtrlC = FALSE
  MaxDisruptions = 1
  NoVariant = NoVariant
  NoFile = NoFile
INVARIANTS
  TypeOK
  NoLeak
  BetterIsAccepted
  AcceptanceIsProgress
  BaselineIsStack
PROPERTIES
  SweepSettles
CHECK_DEADLOCK FALSE
