SPECIFICATION MCSpec
CONSTANTS
    escrow = escrow
    treasury = treasury
    s1 = s1
    s2 = s2
    l1 = l1
    ann = ann
    bob = bob
    NoAddress = NoAddress
    NoProposal = NoProposal
    Contracts = {escrow, treasury}
    Addresses = {s1, s2}
    SignerLists <- MCSignerLists
    EMERGENCY_UNPAUSE_DELAY = 2
    MaxTime = 3
    Self = escrow
    LeagueIds = {l1}
    Participants = {ann, bob}
    EntryFees = {50}
    PlatformFees = {0}
    AffiliateCuts = {}
    Distributions = {}
    MaxWinners = 1
    PARTICIPANTS_PER_PAGE = 2
    EMERGENCY_REFUND_TIMELOCK = 1
    StroopsPerCent = 2
    ProposalIds = {1, 2}
    WithdrawalAmounts <- MCWithdrawalAmounts
    WasmHashes = {"v2", "v3"}
    TIMELOCK_DELAY = 1
SYMMETRY Symmetry
INVARIANT
    ControlInv
    WithdrawalsAccounted
    WithdrawalNeedsQuorum
PROPERTY
    EmergencyHold
    RefundClockKept
    NeverHalfPaused
    UpgradeWaits
