\* Two calls at a time, three attempts, two sessions, two changes of the account,
\* and time for both sessions to run out.
SPECIFICATION Spec
CONSTANTS
    Tasks = {t1, t2}
    Idle = 2
    MaxAge = 3
    MaxTime = 3
    MaxAttempts = 3
    MaxSessions = 2
    MaxRevision = 3
SYMMETRY TaskSymmetry
CONSTRAINT FewCalls
INVARIANTS TypeOK OneSession SessionsOfThisAccount
PROPERTIES SessionsOnlyEnd
