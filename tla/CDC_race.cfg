SPECIFICATION Spec
CONSTANTS
    Handlers = {h1, h2}
    Functions = {f1}
    Tables = {t1, t2}
    MaxListeners = 2
    MaxChanges = 0
    FaultKinds = {}
    MaxFaults = 0
INVARIANTS ListenerMatchesSubscriptions
CHECK_DEADLOCK FALSE
