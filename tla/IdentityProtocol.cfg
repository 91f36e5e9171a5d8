CONSTANTS
    a1 = a1  a2 = a2  m1 = m1  u1 = u1  r1 = r1  r2 = r2  e1 = e1  e2 = e2
    Users = {a1, a2}
    Administrators = {a1, a2}
    Moderators = {}
    Requests = {r1, r2}
    Reconcilers = {e1, e2}
    ClaimLimit = 1
    MaxRevision = 5
    MaxRequests = 2
    MaxFailures = 1
    MaxInterrupts = 1
SPECIFICATION Spec
CONSTRAINT FewTasks
SYMMETRY MCSymmetry
INVARIANTS TypeOK SessionsFollowAccess AdministratorContinuity SuspensionDenies IntentOwnsRow IntentsAreDistinct
PROPERTY ImplementsBoardAccess
CHECK_DEADLOCK FALSE
