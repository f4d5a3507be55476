SPECIFICATION MCSpec
CONSTANTS
    escrow = escrow
    treasury = treasury
    admin = admin
    l1 = l1
    l2 = l2
    ann = ann
    bob = bob
    cat = cat
    NoAddress = NoAddress
    Contracts <- MCContracts
    Addresses = {admin}
    SignerLists = {}
    EMERGENCY_UNPAUSE_DELAY = 1
    MaxTime = 1
    Self = escrow
    LeagueIds = {l1, l2}
    Participants = {ann, bob, cat}
    EntryFees = {0, 160}
    PlatformFees = {8}
    AffiliateCuts = {1}
    Distributions <- MCDistributions
    MaxWinners = 2
    PARTICIPANTS_PER_PAGE = 2
    EMERGENCY_REFUND_TIMELOCK = 1
    StroopsPerCent = 2
INVARIANT
    LeagueInv
    DepositorListed
    PartitionsSolvent
PROPERTY
    SettledOrRefunded
    PauseHoldsMoney
SYMMETRY PartitionPerms
