CONSTANTS
  NumSpokes = 3
  MaxConcurrentSpokes = 2
SPECIFICATION FairSpec
INVARIANT CoverageHonest
PROPERTY Terminates
