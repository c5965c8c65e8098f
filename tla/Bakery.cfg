SPECIFICATION FairSpec
CONSTANTS NCpus = 3
          MaxTicket = 6
INVARIANTS TypeOK MutualExclusion HolderHasPriority TicketFits AwaitedTicket
PROPERTIES ImplementsLock StarvationFree
