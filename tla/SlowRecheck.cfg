CONSTANTS
    p1 = p1
    a = a
    Port = {p1}
    Dst = {a}
    Conn = {c1, c2, c3, c4, c5}
    NoConn = NoConn
    TupleOf <- OneTuple
    Profile = "slow"
    Faults = TRUE
    MarksShown = TRUE
    GenericUdp = {}
    Active = {"fast", "judge"}
    LazyBudget = 1
    MarkBudget = 1
SPECIFICATION Spec
SYMMETRY Symmetry
INVARIANT EvidenceInv
PROPERTY OkNeedsTwoTests
PROPERTY SlowOkNeedsRecheck
PROPERTY ImplementsDecision
CHECK_DEADLOCK FALSE
