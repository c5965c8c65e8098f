CONSTANTS
    CPU = {c0, c1}
    Primary = c0
    Clients = {c1}
    Args = {a1, a2}
SPECIFICATION FairSpec
INVARIANTS ResultIsOfTheCall OnlyStdPreempted NoPanic
PROPERTY StdCallEnds
CHECK_DEADLOCK FALSE
