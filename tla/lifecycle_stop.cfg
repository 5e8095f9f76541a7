SPECIFICATION MCSpec

CONSTANTS
    a = a
    c1 = c1
    c2 = c2
    Ids = {a}
    Conns = {c1, c2}
    Persistent = {a}
    IdleLimited = {}
    Restarts = "no"
    KeptRestarts = "always"
    MaxRetries = 0
    MaxAttempts = 1
    MaxTasks = 2
    Policy <- MCPolicy

PROPERTIES
    StopHonoured
