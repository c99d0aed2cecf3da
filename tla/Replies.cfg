SPECIFICATION FairSpec
CONSTANTS
    m1 = m1
    Request = {m1}
    MaxRestarts = 1
INVARIANTS TypeOK LedgerBacked
PROPERTIES DrainedNotReleased SeatFreed DrainLands HeldIsDecided
