CONSTANTS
    p1 = p1
    a = a
    Port = {p1}
    Dst = {a}
    Conn = {c1, c2}
    NoConn = NoConn
    TupleOf <- OneTuple
    Profile = "fast"
    Faults = TRUE
    MarksShown = TRUE
    GenericUdp = {}
    Active = {"fast", "gc"}
    LazyBudget = 1
    MarkBudget = 1
SPECIFICATION Spec
SYMMETRY Symmetry
INVARIANT FailSafeStaysOpen
CHECK_DEADLOCK FALSE
