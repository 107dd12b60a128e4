CONSTANTS
    Pods = {"p1", "p2"}
    Services = {"s1"}
    DanmEps <- TwoEps
    Labels = {{"app"}, {}}
    Annotations <- Annos
    MaxChanges = 3
SPECIFICATION Spec
INVARIANTS EndpointsExact PanicsAfterMiss
PROPERTIES OthersKept
CHECK_DEADLOCK FALSE
