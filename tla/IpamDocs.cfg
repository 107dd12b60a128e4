CONSTANTS
    Clients = {c1, c2}
    PoolSize <- RacePoolSize
    NetSize <- RacePoolSize
    Start <- RaceStart
    End <- RaceEnd
    Gateways <- RaceGateways
    LateV6 = FALSE
    ManifestLastIps <- NoLastIp
    Requests <- RaceRequests
    MaxCalls = 5
    MaxFails = 0
SYMMETRY Symmetry
SPECIFICATION Spec
INVARIANTS AlwaysRecorded
CHECK_DEADLOCK FALSE
