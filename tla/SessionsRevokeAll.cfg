\* Revoking all sessions while the account uses them.
SPECIFICATION Spec
CONSTANTS
    Tasks = {t1, t2}
    Idle = 2
    MaxAge = 3
    MaxTime = 2
    MaxAttempts = 2
    MaxSessions = 2
    MaxRevision = 2
PROPERTIES RevokeAllEndsAll
