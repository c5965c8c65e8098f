SPECIFICATION Spec
CONSTANTS NCpus = 3
          MaxLvl = 2
          Nodes <- ThreeNodes
          Level <- ThreeNodesLevel
          Parents <- ThreeNodesParents
          PowerStates <- FourStates
          Calls = {"on", "off", "suspend", "system"}
          BootCpu = 0
          Nobody = Nobody
CHECK_DEADLOCK FALSE
INVARIANTS RunningDomains NothingLeftBehind OffDomainsAreEmpty
           CoordinationRespected ParentNotDeeper NoPanic ContextReady
           NoDeadlock
PROPERTY KeepsContract
