SPECIFICATION FairSpec
CHECK_DEADLOCK FALSE
CONSTANTS
  Attempts = 3
  InitialRows <- EmptyOrUsed
  MaxOthers = 1
  MaxRestarts = 1
INVARIANTS TypeOK EmptyMeansFresh CertifiedMeansServed
PROPERTIES ImplementsVerdict SuiteEnds
