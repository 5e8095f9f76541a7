SPECIFICATION MCSpec

CONSTANTS
    MaxSurge = 1
    MaxUnavailable = 0
    Strategy = "rolling"
    OnFailure = "rollback"
    Desired = 2
    Revisions = {"a", "b", "c"}
    Bad = {"b"}
    HasDeadline = TRUE
    HasDelay = TRUE
    MaxEdits = 2
    MaxTroubles = 2
    MaxEvents = 3

INVARIANTS
    AvailabilityKept

PROPERTIES
    BadLeaves
    Converges
