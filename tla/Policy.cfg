CONSTANTS
    Proc = {p1, p2}
    Ip = {i1}
    Domain = {d1}
    Max = 1
    IdsMax = 1
    Rule = {r1, r2}
    Faults = {"api", "disk", "crash"}
SPECIFICATION Spec
SYMMETRY Symmetry
INVARIANT TypeOK
INVARIANT AllOrNothing
INVARIANT SoleSyncRepairs
