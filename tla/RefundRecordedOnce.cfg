SPECIFICATION FairSpec
CONSTANTS
    m1 = m1
    m2 = m2
    job = job
    admin = admin
    Members = {m1, m2}
    Jobs = {job}
    Admins = {admin}
    REFUND_BATCH_SIZE = 1
    MAX_AUTOMATIC_ATTEMPTS = 2
    WorkersStall = FALSE
    MaxEntries = 3
    MaxAttempts = 2
    MaxFaults = 1
CHECK_DEADLOCK FALSE
INVARIANT
    RefundRecordedOnce
