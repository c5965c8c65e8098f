SPECIFICATION Spec
CONSTANTS
  Callers = {c1, c2}
  Nobody = nobody
INVARIANTS OffIsSeen
