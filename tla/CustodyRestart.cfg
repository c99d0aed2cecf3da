SPECIFICATION Spec
CONSTANTS
    m1 = m1
    m2 = m2
    r1 = r1
    Msg = {m1, m2}
    RecipientOf <- SameRecipient
    Reply = {m1}
    OnlineOnly = {}
    SubmitReq = {s1, s2}
    RetryReq = {t1}
    Modes = {"direct"}
    Mortal = {m1}
    Wakeable = {}
    BusyReads = TRUE
    Outcomes <- Deliverable
    MaxItems = 2
    HandoffCap = 1
    MaxSubmits <- ReplyTwice
    MaxGen = 2
SYMMETRY Symmetric
INVARIANTS TypeOK NoSilentLoss ClaimsBacked LaneSerial FetchedIsTrue
PROPERTY EvidenceKept
CHECK_DEADLOCK FALSE
