CONSTANTS
    Pods = {"p1"}
    Services = {"s1", "s2"}
    DanmEps <- PairEps
    Labels = {{"app"}, {}}
    Annotations <- PairAnnos
    MaxChanges = 2
SPECIFICATION Spec
INVARIANTS EndpointsExact
PROPERTIES ChangesHandled
CHECK_DEADLOCK FALSE
