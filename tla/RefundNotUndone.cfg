CONSTANTS
    ann = ann
    a1 = a1
    zed = zed
    Wallets = {ann, zed}
    Hashes = {a1}
    Sender <- MCSender
    MaxMembers = 1
    PageLimit = 2
    MaxFaults = 1
    MaxRequests = 2
    NoOne = NoOne
SPECIFICATION DepositSpec
PROPERTY RefundNotUndone
CHECK_DEADLOCK FALSE
