CONSTANTS
    p1 = p1
    a = a
    Port = {p1}
    Dst = {a}
    Conn = {c1, c2, c3}
    NoConn = NoConn
    TupleOf <- OneTuple
    Profile = "fast"
    Faults = FALSE
    MarksShown = TRUE
    GenericUdp = {}
    Active = {"fast", "judge", "gc"}
    LazyBudget = 1
    MarkBudget = 1
SPECIFICATION Spec
SYMMETRY Symmetry
INVARIANT OkHasRule
CHECK_DEADLOCK FALSE
