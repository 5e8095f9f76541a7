SPECIFICATION MCSpec

CONSTANTS
    n1 = n1
    n2 = n2
    f1 = f1
    f2 = f2
    t1 = t1
    t2 = t2
    admin = admin
    viewer = viewer
    Names = {n1, n2}
    Fps = {f1, f2}
    Secrets = {t1, t2}
    Roles = {admin, viewer}
    MaxEnrollments = 2
    MaxKeys = 2
    None = None
    Local = Local
    k1 = k1
    k2 = k2
    k3 = k3
    pa = pa
    pb = pb
    p1 = p1
    p2 = p2
    r1 = r1
    r2 = r2
    s1 = s1
    u1 = u1
    u2 = u2
    Conns = {k1, k2, k3}
    ENROLL_FAILURES = 3
    ENROLL_WINDOW = 2
    Callers <- MCCallers
    Projects <- MCProjects
    LbNames <- MCLbNames
    CtrIds = {"w1"}
    Volumes = {"v"}
    ServerPath = ServerPath
    ImageNames = {"i"}
    MaxRequests = 3
    MaxErrors = 3
    Procs = {p1, p2}
    RemoteNames = {r1, r2}
    Servers = {s1}
    Inodes = {1, 2, 3}
    MaxTokens = 1
    MaxSurge = 1
    MaxUnavailable = 0
    OnFailure = "rollback"
    Desired = 2
    Revisions = {"a", "b"}
    Bad = {"b"}
    HasDeadline = TRUE
    HasDelay = TRUE
    MaxEdits = 2
    MaxTroubles = 2
    MinReplicas = 1
    MaxReplicas = 4
    UpWindow = 1
    DownWindow = 3
    UpStep = 2
    DownStep = 1
    Tolerance = 10
    Readings <- MCReadings
    Replicas = 5

CHECK_DEADLOCK FALSE

INVARIANTS
    TenFailures
