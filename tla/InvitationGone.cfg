SPECIFICATION Spec
CONSTANTS
    k1 = k1
    k2 = k2
    c1 = c1
    c2 = c2
    c3 = c3
    Keys = {k1}
    Calls = {c1, c2}
    Deliveries = {"mail", "complete"}
    MaxRevision = 6
    MaxSubmissions = 2
    MaxFailures = 0
    MaxInterrupts = 0
INVARIANT TerminalIsGone
CHECK_DEADLOCK FALSE
