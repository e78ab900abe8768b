CONSTANTS
    Managed <- TwoScripts
    Version = {v1, v2}
    None = None
    Faults = {"backup", "api", "restore", "crash"}
SPECIFICATION Spec
SYMMETRY Symmetry
INVARIANT TypeOK
INVARIANT QuietWhileMutating
INVARIANT StateOfRunningVersion
INVARIANT ResumesClean
INVARIANT UnverifiedStaysOpen
PROPERTY OnlyStagedIsPromoted
PROPERTY ImplementsHandover
