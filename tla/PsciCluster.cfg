SPECIFICATION FairSpec
CONSTANTS NCpus = 2
          MaxLvl = 1
          Nodes <- OneCluster
          Level <- OneClusterLevel
          Parents <- OneClusterParents
          PowerStates <- StateInfo
          Calls = {"on", "off", "suspend", "system"}
          BootCpu = 0
          Nobody = Nobody
CHECK_DEADLOCK FALSE
INVARIANTS TypeOK SystemSuspendIsLast
PROPERTIES BootCompletes CallsEnd
