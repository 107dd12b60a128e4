CONSTANTS
    c1 = c1
    c2 = c2
    c3 = c3
    Procs = {p1, p2, p3}
    Cids = {c1, c2, c3}
    PodUid <- OwnPod
    Nics = {"eth0"}
    Ips = {x1, x2}
    MaxCalls = 5
    MaxFails = 0
    MaxCrashes = 0
SYMMETRY Symmetry
SPECIFICATION Spec
INVARIANTS FreedWithTheirEp
CHECK_DEADLOCK FALSE
