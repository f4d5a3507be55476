SPECIFICATION MCSpec
CONSTANTS
    ann = ann
    a1 = a1
    zed = zed
    Wallets = {ann, zed}
    Hashes = {a1}
    Sender <- MCSender
    MaxMembers = 1
    PageLimit = 2
    MaxFaults = 1
    MaxRequests = 1
    NoOne = NoOne
    Daemons = {d1, d2}
    BatchSize = 2
    MaxLedgers = 3
    MaxEvents = 3
    MaxTroubles = 1
    NoCursor = NoCursor
    first = first
    second = second
    Envelopes = {first}
    Workers = {w1, w2}
    SequenceOf <- MCSequenceOf
    MaxSequence = 1
    MaxPolls = 1
    MaxOutages = 1
    NoEnvelope = NoEnvelope
    Callers = {c1, c2}
    Prober = prober
    MinimumSamples = 2
    SuccessThreshold = 1
    MaxWindow = 3
INVARIANTS
    ConfirmedMeansPaid
    PaidMeansReturned
    TerminalTellsTruth
PROPERTIES
    
    PaidClaimStays
    KeepsEventLog
    LandedIsRecorded
    RecoversWithoutTraffic
CHECK_DEADLOCK FALSE
