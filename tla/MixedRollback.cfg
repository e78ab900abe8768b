CONSTANTS
    Managed <- TwoScripts
    Version = {v1, v2}
    None = None
    Faults = {"backup"}
SPECIFICATION Spec
SYMMETRY Symmetry
INVARIANT OneVersionRuns
