CONSTANTS
    V4Bits = 4
    V6Bits = 5
    IndexBits = 4
    CapBits = 3
    ByteBits = 4
    Manifests <- MCManifests
    Edits <- MCEdits
    DeviceNames = {"", "ens3", "ens4", "pool"}
    MaxUpdates = 1
    MaxScans = 1
SPECIFICATION FairSpec
INVARIANTS AdmittedPoolsSound PanicsHaveCause ScanIsFreeIndex
PROPERTIES PodsKeepTheirLink ScanEnds
