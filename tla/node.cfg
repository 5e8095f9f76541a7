SPECIFICATION MCSpec

CONSTANTS
    a = a
    b = b
    v1 = v1
    v2 = v2
    i1 = i1
    i2 = i2
    w1 = w1
    w2 = w2
    Stems = {a, b}
    Exts = {"", "key", "tmp"}
    Values = {v1, v2}
    Absent = Absent
    Torn = Torn
    MaxVersion = 1
    None = None
    NoDir = NoDir
    NoCall = NoCall
    Ids = {i1, i2}
    Specs <- MCSpecs
    Workers = {w1, w2}
    Images = {"x"}
    Digests = {"d", "e"}
    LayersOf <- MCLayersOf
    Committed = "dc"
    Faults = 1
    MaxStarts = 3
    MaxLines = 3
    Stamps = {0, 11, 12}
    MaxRuns = 2

CHECK_DEADLOCK FALSE

INVARIANTS
    ImagesWhole
    ExecInside
    FollowsWhole

PROPERTIES
    ImplementsMap
    ImplementsContainerMap
