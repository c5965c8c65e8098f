SPECIFICATION Spec
CONSTANTS NCpus = 2
          MaxTicket = 7
INVARIANT ReleaseAssert
