SPECIFICATION SettlementSpec
CONSTANTS
    SeasonLeagues <- MCSeasonLeagues
    EndGameweek = 3
    PointVectors <- MCPointVectors
    CustomPoints <- MCCustomPoints
    CupGameweeks = {2}
    MaxFaults = 0
INVARIANT
    ScoredByLeagueRules
CHECK_DEADLOCK FALSE
