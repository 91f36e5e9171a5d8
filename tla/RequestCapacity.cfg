\* The instance of Operations.cfg: what the documents say of a full limiter.
SPECIFICATION PartSpec
CONSTANTS
    s1 = s1
    s2 = s2
    None = None
    f1 = f1
    f2 = f2
    f3 = f3
    g2 = g2
    a1 = a1
    t1 = t1
    t2 = t2
    Disabled = Disabled
    proxy = proxy
    x1 = x1
    x2 = x2
    Slots = {s1, s2}
    Commands = {s1, s2}
    Posts = {1, 2, 3}
    Topics = {1}
    BatchSize = 2
    maximumAttempts = 2
    MaxFaults = 1
    Administrators = {a1}
    Calls = {s1, s2}
    Transports = {t1, t2}
    Shells = {"m", "n"}
    Period = 1
    MaxRevision = 3
    MaxTime = 1
    MaxTests = 2
    MaxInterrupts = 1
    Releases <- ThreeReleases
    Addresses = {proxy, x1, x2}
    trustedProxy = TRUE
    MaxClock = 2
    capacity = 2
    limit = 2
    window = 1
CONSTRAINT Few
PROPERTIES RefusedOnlyWithoutExpired
CHECK_DEADLOCK FALSE
