CONSTANTS
    e1 = e1
    Executors = {e1, e2, e3}
    Eth0 <- OneEth0
    MaximumAllowedTime = 2
SPECIFICATION Spec
INVARIANTS ResultsKept SuccessIsComplete Eth0First
PROPERTIES Answers
CHECK_DEADLOCK FALSE
