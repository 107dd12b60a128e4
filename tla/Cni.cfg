CONSTANTS
    c1 = c1
    c2 = c2
    c3 = c3
    Procs = {p1, p2}
    Cids = {c1, c2, c3}
    PodUid <- RestartedPod
    Nics = {"eth0"}
    Ips = {x1, x2}
    MaxCalls = 3
    MaxFails = 1
    MaxCrashes = 1
SYMMETRY Symmetry
SPECIFICATION Spec
INVARIANTS EpsReserved UpPodsConnected NoIpLeak
CHECK_DEADLOCK FALSE
