SPECIFICATION MCSpec

CONSTANTS
    c1 = c1
    c2 = c2
    c3 = c3
    l1 = l1
    l2 = l2
    b1 = b1
    b2 = b2
    s1 = s1
    s2 = s2
    h1 = h1
    h2 = h2
    m1 = m1
    m2 = m2
    None = None
    a1 = a1
    a2 = a2
    Containers = {c1, c2, c3}
    Balancers = {l1, l2}
    NoOwner = NoOwner
    Size = 16
    Hash <- MCHash
    Persistent = {c1}
    WantedAddrs = {2, 14, 15}
    WantedVips <- AnyVip

CHECK_DEADLOCK FALSE

INVARIANTS
    TableConsistent
    StoredReserved
    NothingLeaked

PROPERTIES
    StreamsDeliver
    ComesBack
    LaunchSettles
    Resumes
    Listens
