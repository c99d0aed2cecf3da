\* The smallest instance in which the actor fails while a result waits.
SPECIFICATION Spec
CONSTANTS
    Delivery = {d1}
    Capacity = 1
    RelaySize = 1
    MaxAttempts = 2
    MaxRestarts = 1
    Requested = {}
PROPERTIES AnsweredNotRun
CHECK_DEADLOCK FALSE
