SPECIFICATION Spec

CONSTANTS
    k1 = k1
    k2 = k2
    Conns = {k1, k2}
    f1 = f1
    Fps = {f1}
    Kinds = {"enroll", "images"}
    TTL = 2
    MaxLag = 1
    MAX_CONNECTIONS = 2

SYMMETRY Symmetry

INVARIANTS
    AllStreamsCutOff
