SPECIFICATION FairSpec
CONSTANTS
    note = note
    order = order
    key = key
    Message = {note, order}
    Requests = {order}
    Deadlined = {order}
    Key = {key}
    KeyOf <- Keys
    Life <- Lives
    Ttl = 1
    Window = 2
    MaxItems = 2
    MaxAttempts = 2
    MaxTurns = 1
    Pulled = {note}
    SelfSettled = {order}
    MaxFaults = 1
INVARIANTS TypeOK CopyIsAnswered NoStrandedAnswer
PROPERTIES NotRunAgain RowLeaves DeliveryImplemented
CHECK_DEADLOCK FALSE
