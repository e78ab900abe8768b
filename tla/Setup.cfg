CONSTANTS
    p1 = p1
    p2 = p2
    i1 = i1
    i2 = i2
    i3 = i3
    susanin = susanin
    t1 = t1
    None = None
    Proc = {p1, p2}
    Iface = {i1, i2, i3}
    Usable = {i1, i2}
    Table = {susanin, t1}
    Dedicated = susanin
    Profile = {"fast", "slow"}
    Routings <- TheRoutings
    Plans <- ThePlans
    Faults = {"api", "stale", "disk", "crash"}
    MaxTries = 2
    Job = {"health", "judge"}
    Rule = {"mark"}
    Bypass = {"private"}
    Addressed = {i1, i2}
    Masqueraded = {i2}
SPECIFICATION Spec
INVARIANT TypeOK
INVARIANT SavedTargetRoutes
INVARIANT InstalledRoutes
INVARIANT OneWayOut
INVARIANT SafetyFirst
INVARIANT StartsClean
INVARIANT FailedLeavesNothing
INVARIANT HelperUntilInstalled
PROPERTY SelectionKept
CHECK_DEADLOCK FALSE
