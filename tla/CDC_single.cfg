SPECIFICATION Spec
CONSTANTS
    Handlers = {h1, h2}
    Functions = {f1}
    Tables = {t1}
    MaxListeners = 3
    MaxChanges = 1
    FaultKinds = {"crash","statement","connection"}
    MaxFaults = 2
SYMMETRY Symmetry
INVARIANTS TypeOK OneListener RoutedOnce
CHECK_DEADLOCK FALSE
