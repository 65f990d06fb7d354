SPECIFICATION FairSpec
CONSTANTS
    Jwts = {j1}
    Keys = {k1}
    StaffJwts = {j1}
    NoToken = NoToken
    Reqs = {r1, r2}
    NoReq = NoReq
    MaxRetries = 1
    MaxFaults = 1
    MaxLoads = 1
INVARIANTS TypeOK
PROPERTIES ValidSessionsEndForAReason ExpiredSessionsEnd RedirectsEnd
CHECK_DEADLOCK FALSE
