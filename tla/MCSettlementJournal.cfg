SPECIFICATION FairSpec
CONSTANTS
    c1 = c1
    c2 = c2
    recovery = recovery
    Callers = {c1, c2}
    Recovery = recovery
    NoJournal = NoJournal
    ScanLimit = 1
    MaxTx = 2
    MaxStandings = 1
    MaxStuck = 1
    MaxFaults = 1
INVARIANT
    OnlyJournaledSent
    RowsMatchChain
PROPERTY
    JournalIsDurable
    LandedCompletes
    JournalFinalizes
CHECK_DEADLOCK FALSE
