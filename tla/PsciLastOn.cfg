SPECIFICATION Spec
CONSTANTS NCpus = 4
          MaxLvl = 1
          Nodes <- TwoClusters
          Level <- TwoClustersLevel
          Parents <- TwoClustersParents
          PowerStates = {}
          Calls = {"on", "off", "system"}
          BootCpu = 0
          Nobody = Nobody
CHECK_DEADLOCK FALSE
INVARIANT SystemSuspendIsLast
