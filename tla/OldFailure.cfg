CONSTANTS
    p1 = p1
    a = a
    Port = {p1}
    Dst = {a}
    Conn = {c1, c2, c3, c4, c5}
    NoConn = NoConn
    TupleOf <- OneTuple
    Profile = "slow"
    Faults = FALSE
    MarksShown = TRUE
    GenericUdp = {}
    Active = {"fast", "judge"}
    LazyBudget = 1
    MarkBudget = 1
SPECIFICATION Spec
SYMMETRY Symmetry
PROPERTY RecheckByNewFailure
CHECK_DEADLOCK FALSE
