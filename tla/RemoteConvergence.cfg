\* One applicant, two invitations, one administrator and one suspended account;
\* lost calls and failures as in each part.
SPECIFICATION PartSpec
CONSTANTS
    alice = alice
    root = root
    ops = ops
    c1 = c1
    c2 = c2
    i1 = i1
    i2 = i2
    i3 = i3
    k1 = k1
    k2 = k2
    a1 = a1
    u1 = u1
    r1 = r1
    e1 = e1
    NoId = NoId
    Applicants = {alice}
    Administrators = {root, ops}
    Calls = {c1, c2}
    Ids = {i1, i2, i3}
    ReuseIds = TRUE
    MaxRevision = 4
    MaxFailures = 1
    MaxInterrupts = 1
    Keys = {k1}
    Deliveries = {"mail"}
    MaxSubmissions = 2
    Users = {a1, u1}
    Moderators = {}
    Requests = {r1}
    Reconcilers = {e1}
    ClaimLimit = 1
    MaxRequests = 2
CONSTRAINT FewDisturbances
PROPERTIES RemoteConverges OutcomesStand
INVARIANTS PartTypeOK AccountIsApproved DecisionIsRemote InvitationsAreExact
CHECK_DEADLOCK FALSE
