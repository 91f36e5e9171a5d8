SPECIFICATION FairSpec
CONSTANTS
    alice = alice
    root = root
    ops = ops
    c1 = c1
    c2 = c2
    i1 = i1
    i2 = i2
    i3 = i3
    NoId = NoId
    Applicants = {alice}
    Administrators = {root, ops}
    Calls = {c1, c2}
    Ids = {i1, i2, i3}
    ReuseIds = FALSE
    MaxRevision = 6
    MaxFailures = 1
    MaxInterrupts = 0
PROPERTY IntentConverges
CHECK_DEADLOCK FALSE
