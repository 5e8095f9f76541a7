SPECIFICATION FairSpec

CONSTANTS
    a = a
    b = b
    l = l
    Ids = {a, b}
    Balancers = {l}
    Serves <- AllServe
    Published = {a}
    CheckKind <- ExecAndNet
    Retries = 1

INVARIANTS
    RulesCurrent

PROPERTIES
    UnfitLeaves
