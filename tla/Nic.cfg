CONSTANTS
    Pods <- MCPods
    PodDevices <- MCPodDevices
    DpdkDevices = {"vf1"}
    MaxFaults = 1
    MaxDels = 2
SPECIFICATION Spec
INVARIANTS UpPodsHaveLinks AddressesAgree AddressesOwned NothingLeft FreesOwnOnly PanicsHaveCause
CHECK_DEADLOCK FALSE
