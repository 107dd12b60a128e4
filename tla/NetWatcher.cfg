CONSTANTS
    Nodes = {n1, n2}
    Networks = {net}
    Specs <- OneNetwork
    Devices <- Cards
    DeviceIps <- Addresses
    MaxEdits = 3
    MaxUpsets = 1
SYMMETRY Symmetry
SPECIFICATION Spec
INVARIANTS NetworksHaveLinks NoOrphanLinks NadsNameTheirLink OnePatchPerEdit
PROPERTIES PatchesKeepEdits
CHECK_DEADLOCK FALSE
