SPECIFICATION FairSpec
CONSTANTS
    m1 = m1
    m2 = m2
    r1 = r1
    Msg = {m1, m2}
    RecipientOf <- SameRecipient
    Reply = {m1}
    OnlineOnly = {m2}
    SubmitReq = {s1}
    RetryReq = {t1}
    Modes = {"direct", "hold", "defer"}
    Mortal = {m1}
    Wakeable = {r1}
    BusyReads = TRUE
    Outcomes <- Linked
    MaxItems = 1
    HandoffCap = 1
    MaxSubmits <- Once
    MaxGen = 1
INVARIANTS HeldStaysHome WakeKept
PROPERTY EveryRowLeaves
CHECK_DEADLOCK FALSE
