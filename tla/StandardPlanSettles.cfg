SPECIFICATION PlanSpec
CONSTANTS
    StroopsPerCent = 100
    MaxPaidMembers = 5
    EntryFees = {500}
    CustomSplits <- MCCustomSplits
INVARIANT
    StandardPlanSettles
CHECK_DEADLOCK FALSE
