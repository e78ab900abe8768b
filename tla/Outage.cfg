CONSTANTS
    p1 = p1
    a = a
    Port = {p1}
    Dst = {a}
    Conn = {c1, c2}
    NoConn = NoConn
    TupleOf <- OneTuple
    Profile = "fast"
    Faults = FALSE
    MarksShown = FALSE
    GenericUdp = {}
    Active = {"fast", "judge", "health", "outage"}
    LazyBudget = 1
    MarkBudget = 1
SPECIFICATION FairSpec
INVARIANT OkHasRule
 
PROPERTY FailsOpen
PROPERTY Recovers
PROPERTY DecidedThroughTarget
CHECK_DEADLOCK FALSE
