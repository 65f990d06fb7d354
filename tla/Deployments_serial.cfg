SPECIFICATION FairSpec
CONSTANTS
    Handlers = {h1}
    Versions = {v1, v2}
    MaxDeployments = 3
    FaultKinds = {"crash", "disconnect"}
    MaxFaults = 2
    NoVersion = NoVersion
INVARIANTS SingleActive ActivatedIsServed SucceededJobsAreDeployable LastStatusIsLatest
PROPERTIES KeepsPromise BuildsComplete DeploymentsResolve
CHECK_DEADLOCK FALSE
