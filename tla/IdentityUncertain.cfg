CONSTANTS
    a1 = a1  a2 = a2  m1 = m1  u1 = u1  r1 = r1  r2 = r2  e1 = e1  e2 = e2
    Users = {a1, m1, u1}
    Administrators = {a1}
    Moderators = {m1}
    Requests = {r1, r2}
    Reconcilers = {e1}
    ClaimLimit = 1
    MaxRevision = 6
    MaxRequests = 2
    MaxFailures = 0
    MaxInterrupts = 0
SPECIFICATION Spec
INVARIANT UncertainOutcomeIsRetryable
CHECK_DEADLOCK FALSE
