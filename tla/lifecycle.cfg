SPECIFICATION MCFairSpec

CONSTANTS
    a = a
    b = b
    c1 = c1
    c2 = c2
    Ids = {a, b}
    Conns = {c1, c2}
    Persistent = {b}
    IdleLimited = {a}
    Restarts = "on-failure"
    KeptRestarts = "always"
    MaxRetries = 1
    MaxAttempts = 2
    MaxTasks = 1
    Policy <- MCPolicy

INVARIANTS
    WaitersParked
    LiveIsStored
    OneInit
    ReapArmed

PROPERTIES
    CleanStart
    PersistentKept
    StopAnswers
    EphemeralLeaves
