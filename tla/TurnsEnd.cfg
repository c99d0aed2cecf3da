\* One delivery, submitted again and again, one restart, two attempts, a close.
SPECIFICATION FairSpec
CONSTANTS
    Delivery = {d1}
    Capacity = 2
    RelaySize = 2
    MaxAttempts = 2
    MaxRestarts = 1
    Requested = {"close"}
INVARIANTS AttemptsBounded DecisionUnderWay
PROPERTIES Answered
CHECK_DEADLOCK FALSE
