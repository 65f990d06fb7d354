SPECIFICATION FairSpec
CONSTANTS
    Jobs = {j1}
    Triggers = {d1}
    Poison = {p1}
    MaxDeliver = 2
    FaultKinds = {"crash", "connect", "publish", "statement", "ack"}
    MaxFaults = 2
INVARIANTS TypeOK SettledWasServed RunsAreDelivered
PROPERTIES AcceptedAreServed
CHECK_DEADLOCK FALSE
