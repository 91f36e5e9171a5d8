\* Governance: three accounts, two transactions at a time, at most three changes
\* of accounts.  Areas and groups: two administrators, two areas, two groups.
SPECIFICATION BoundedSpec
CONSTANTS
    Users <- ThreeUsers
    First = 2
    Tasks = {t1, t2}
    NoTask = NoTask
    MaxRevision = 3
    Accounts = {1, 2}
    FirstRoles <- BothAdministrators
    Areas = {1, 2}
    Groups = {1, 2}
    n1 = n1  n2 = n2
    Names = {n1, n2}
    Orders = {0, 1}
    PageSize = 1
    MaxChanges = 3
SYMMETRY TaskSymmetry
INVARIANTS TypeOK SingleBootstrap AdministratorContinuity  ViewsAreTrue
PROPERTIES FormsNeedAuthority NoStaleForm ChangesAreOfTheirPage
