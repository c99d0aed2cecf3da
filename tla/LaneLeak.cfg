SPECIFICATION FairSpec
CONSTANTS
    m1 = m1
    m2 = m2
    r1 = r1
    Msg = {m1, m2}
    RecipientOf <- SameRecipient
    Reply = {}
    OnlineOnly = {}
    SubmitReq = {s1}
    RetryReq = {t1}
    Modes = {"direct"}
    Mortal = {m2}
    Wakeable = {}
    BusyReads = FALSE
    Outcomes <- Leaky
    MaxItems = 2
    HandoffCap = 1
    MaxSubmits <- Once
    MaxGen = 2
PROPERTY EveryRowLeaves
CHECK_DEADLOCK FALSE
