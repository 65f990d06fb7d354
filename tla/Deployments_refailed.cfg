SPECIFICATION Spec
CONSTANTS
    Handlers = {h1}
    Versions = {v1}
    MaxDeployments = 2
    FaultKinds = {}
    MaxFaults = 0
    NoVersion = NoVersion
PROPERTIES FailedStaysInactive
CHECK_DEADLOCK FALSE
