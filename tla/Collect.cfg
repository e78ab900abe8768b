CONSTANTS
    p1 = p1
    a = a
    Port = {p1}
    Dst = {a}
    Conn = {c1, c2}
    NoConn = NoConn
    TupleOf <- OneTuple
    Profile = "fast"
    Faults = FALSE
    MarksShown = TRUE
    GenericUdp = {p1}
    Active = {"fast", "judge", "gc"}
    LazyBudget = 1
    MarkBudget = 1
SPECIFICATION FairSpec
PROPERTY StaleMarksReclaimed
PROPERTY OrphanRulesReclaimed
CHECK_DEADLOCK FALSE
