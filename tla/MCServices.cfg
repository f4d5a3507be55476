SPECIFICATION ServicesSpec
CONSTANTS
    StroopsPerCent = 100
    MaxPaidMembers = 5
    EntryFees = {0, 1, 100, 175, 250, 500, 4000}
    CustomSplits <- MCCustomSplits
    SeasonLeagues <- MCSeasonLeagues
    EndGameweek = 3
    PointVectors <- MCPointVectors
    CustomPoints <- MCCustomPoints
    CupGameweeks = {2}
    MaxFaults = 1
    Users = {u1, u2, u3}
    Creator = creator
    Requests = {r1, r2}
    Invitations = {i1}
    UseLimits = {1, 2}
    MinMembers = 2
    MaxMembers = 3
    NoInvitation = NoInvitation
    Attempts = {a1, a2, a3}
    Bodies = {b1, b2}
    MaxLapses = 2
    NoRecord = NoRecord
    Fields <- MCFields
    TotalRounds = 3
    NoPairing = NoPairing
    Order <- MCOrder
    Rounds = 2
    Footballers = {1, 2, 3, 4, 5}
    PositionOf <- MCPositionOf
    Limits <- MCLimits
    TimePerPick = 1
    MaxOverlap = 2
    Nobody = Nobody
INVARIANTS
    PlanConserves
    EncodedPlanMatchesContract
    TableCountsResults
    SeasonPlaysOut
    InvitationsAccounted
    CountNeverOverstates
    RunsOnceUnlessLapsed
    RoundsAreFair
    EveryRoundServesAll
CHECK_DEADLOCK FALSE
