CONSTANTS
    Nodes = {n1}
    Networks = {net}
    Specs <- TwoVlans
    Devices <- Cards
    DeviceIps <- Addresses
    MaxEdits = 3
    MaxUpsets = 0
SPECIFICATION Spec
INVARIANTS OldLinksDeleted
CHECK_DEADLOCK FALSE
