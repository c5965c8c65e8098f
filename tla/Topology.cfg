SPECIFICATION FairSpec
CONSTANTS
  NCpus = 4
  MaxLvl = 2
  Topologies <- ThreeLevels
CHECK_DEADLOCK FALSE
INVARIANTS TypeOK TreeMatchesDescriptor LimitsAreExact
PROPERTY SetupCompletes
