SPECIFICATION FairSpec
CONSTANTS
    Handlers = {h1}
    Functions = {f1}
    Tables = {t1, t2}
    MaxListeners = 3
    MaxChanges = 1
    FaultKinds = {"crash", "connection"}
    MaxFaults = 2
INVARIANTS ListenerMatchesSubscriptions
PROPERTIES CancelledEnd ListenersListen
CHECK_DEADLOCK FALSE
