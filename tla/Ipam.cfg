CONSTANTS
    Clients = {c1, c2}
    PoolSize <- DualPoolSize
    NetSize <- DualNetSize
    Start <- DualStart
    End <- DualEnd
    Gateways <- DualGateways
    LateV6 = TRUE
    ManifestLastIps <- DualLastIps
    Requests <- DualRequests
    MaxCalls = 4
    MaxFails = 1
SPECIFICATION Spec
INVARIANTS TypeOK Recorded Exclusive GatewaysStayReserved NoLeak
PROPERTIES OneBitPerWrite ImplementsAllocator CallsReturn
CHECK_DEADLOCK FALSE
