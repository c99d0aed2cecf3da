SPECIFICATION FairSpec
CONSTANTS
    Token = {t1, t2, t3}
    Worker = {w1, w2}
    Capacity = 2
    MailboxSize = 2
    MaxFailures = 1
INVARIANTS TypeOK RunsOnce CreditsKept
PROPERTIES RequestsSettle WorkersLeave
CHECK_DEADLOCK FALSE
