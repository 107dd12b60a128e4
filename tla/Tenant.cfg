CONSTANTS
    Workers = {w1, w2, w3}
    Names = {n1, n2}
    DeviceNames = {"", "nokia.k8s.io/vf", "ens4", "ens5", "ens6"}
    HostDevices <- MCHostDevices
    NetworkIds = {"sriov", "static"}
    Manifests <- MCManifests
    AdminEdits = {"keeps", "omits"}
    MaxRequests = 3
    MaxFails = 1
SYMMETRY Symmetry
SPECIFICATION Spec
INVARIANTS VniRecorded VniExclusive NoVniLeak
PROPERTIES ImplementsAllocator
CHECK_DEADLOCK FALSE
