CONSTANTS
    p1 = p1
    a = a
    Port = {p1}
    Dst = {a}
    Conn = {c1, c2, c3}
    NoConn = NoConn
    TupleOf <- OneTuple
    Profile = "middle"
    Faults = TRUE
    MarksShown = FALSE
    GenericUdp = {}
    Active = {"fast", "detect", "judge", "policy"}
    LazyBudget = 1
    MarkBudget = 1
SPECIFICATION Spec
SYMMETRY Symmetry
INVARIANT TypeOK
INVARIANT TestHasRule
PROPERTY TestNeedsTwoFailures
PROPERTY ImplementsDecision
CHECK_DEADLOCK FALSE
