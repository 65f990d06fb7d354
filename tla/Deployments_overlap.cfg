SPECIFICATION Spec
CONSTANTS
    Handlers = {h1, h2}
    Versions = {v1, v2}
    MaxDeployments = 3
    FaultKinds = {"crash", "disconnect", "db"}
    MaxFaults = 1
    NoVersion = NoVersion
SYMMETRY Symmetry
INVARIANTS TypeOK DeployedAreBuilt
PROPERTIES ReleasesAreImmutable
CHECK_DEADLOCK FALSE
