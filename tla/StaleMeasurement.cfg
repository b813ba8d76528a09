SPECIFICATION SpecH
CONSTANTS
  Primary = 16
  Guards <- EightAnd32
  Table <- AutoTable
  Delta <- TableDelta
  Objective <- TableObjective
  Keys <- TableKeys
  Values <- TableValues
  Default = "default"
  AutoValue = "512"
  Grids <- TwoGrids
  Committed <- NoResultsYet
  Plans <- WholeTable
  ResumeOptions <- OnlyTrue
  StopOptions <- OnlyFalse
  SilentBench <- LastSilent
  CtrlC = FALSE
  MaxDisruptions = 0
  NoVariant = NoVariant
  NoFile = NoFile
INVARIANTS
  JudgesOwnMeasurement
CHECK_DEADLOCK FALSE
