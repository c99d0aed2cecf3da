SPECIFICATION FairSpec
CONSTANTS
    Cmd = {c1, c2, c3}
    Stop = Stop
    Capacity = 2
    MaxRestarts = 1
    MaxGen = 4

INVARIANTS TypeOK OneAuthority TokensBacked RestartOwed
PROPERTIES CustodyKept CommandsSettle RestartsHappen
CHECK_DEADLOCK FALSE
