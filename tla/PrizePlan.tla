----------------------------- MODULE PrizePlan -----------------------------
(***************************************************************************)
(* The settlement plan of a league, from the backend to the contract:      *)
(* calculatePrizeDistribution and encodeSorobanPayoutAmounts               *)
(* (backend/src/services/league/prizeService.ts), the ties of              *)
(* prepareSettlement and the dispatch of executeSettlement                 *)
(* (financialService.ts), and what settle_internal makes of it             *)
(* (PrizeCurve).                                                           *)
(*                                                                         *)
(* The backend counts in cents and the contract in stroops.  The amounts   *)
(* the code carries as dollars are cents divided by 100 and multiplied     *)
(* back, exactly at these sizes.  The contract is taken to hold the entry  *)
(* fee of every paid member.                                               *)
(***************************************************************************)
EXTENDS PrizeCurve, SequencesExt

CONSTANTS
    MaxPaidMembers,                 \* bound on the paid members of a league
    EntryFees,                  \* entry fees, in cents
    CustomSplits                \* payoutSplitsBps of leagues with the custom preset

ASSUME PlanAssumption ==
    /\ MaxPaidMembers \in Nat
    /\ EntryFees \subseteq Nat
    /\ \A s \in CustomSplits : s \in Seq(Nat) /\ ValidDistribution(s)   \* validateSplits

VARIABLES
    league,                     \* the paid members' ranking and the prize options
    plan,                       \* SettlementPlan
    outcome                     \* where the settlement got to

planVars == <<league, plan, outcome>>

Presets == {"standard", "winner-takes-all", "top-five", "custom"}
NoPlan == [platformFee |-> 0, prizePool |-> 0, prizes |-> <<>>, winners |-> <<>>,
           distributionBps |-> <<>>]

\* tied: the ranks whose points equal those of the rank before.
PlanLeagues ==
    UNION {[count : {n}, entryFee : EntryFees, preset : Presets \ {"custom"},
            splits : {<<>>}, tied : SUBSET (2..n)]
             \cup [count : {n}, entryFee : EntryFees, preset : {"custom"},
                   splits : CustomSplits, tied : SUBSET (2..n)] : n \in 1..MaxPaidMembers}

PlanInit ==
    /\ league \in PlanLeagues
    /\ plan = NoPlan
    /\ outcome = "open"

-----------------------------------------------------------------------------
(* PrizeService.                                                           *)

STANDARD_SPLITS_BPS == <<6000, 3000, 1000>>
TWO_PLAYER_SPLITS_BPS == <<7000, 3000>>
TOP_FIVE_SPLITS_BPS == <<4500, 2500, 1500, 1000, 500>>

Gross == league.count * league.entryFee

\* Math.round rounds a half up.
PlatformFee == (Gross * 5 + 50) \div 100

\* The first n tiers scaled back to 10000.  Several tiers without weight
\* (0 / 0 is NaN in the code, and NaN prizes are dropped) give nothing.
FirstTiers(tiers, n) ==
    LET kept == SubSeq(tiers, 1, n)
        weight == SumFunction(kept)
        Scaled(i) == (kept[i] * 10000) \div weight
    IN  IF weight = 0 /\ n > 1 THEN [i \in 1..n |-> 0]
        ELSE [i \in 1..n |-> IF i < n THEN Scaled(i)
                             ELSE 10000 - SumFunction([j \in 1..(n - 1) |-> Scaled(j)])]

SplitsBps ==
    LET n == league.count
        base == CASE league.preset = "custom" -> league.splits
                  [] league.preset = "winner-takes-all" -> <<10000>>
                  [] league.preset = "top-five" -> TOP_FIVE_SPLITS_BPS
                  [] OTHER -> CASE n = 1 -> <<10000>>
                                [] n = 2 -> TWO_PLAYER_SPLITS_BPS
                                [] OTHER -> STANDARD_SPLITS_BPS
    IN  IF n < Len(base) THEN FirstTiers(base, n) ELSE base

\* Mutant: every tier is rounded down.
PayoutsRoundedDown(pool, splits) == [i \in DOMAIN splits |-> (pool * splits[i]) \div 10000]

\* Each tier is rounded down and the last one takes the rest.
Payouts(pool, splits) ==
    LET n == Len(splits)
        Share(i) == (pool * splits[i]) \div 10000
    IN  IF SumFunction(splits) = 0 THEN splits
        ELSE [i \in 1..n |-> IF i < n THEN Share(i)
                             ELSE pool - SumFunction([j \in 1..(n - 1) |-> Share(j)])]

\* The weight of a prize, rounded up.
BasisPoints(prize, pool) == (prize * 10000 + pool - 1) \div pool

\* encodeSorobanPayoutAmounts throws unless every weight but the last gives
\* its prize back and the weights leave something for the last one.
EncodeSorobanPayoutAmounts(winners, pool) ==
    LET n == Len(winners)
        Weight(i) == BasisPoints(winners[i], pool)
    IN  [i \in 1..n |-> IF i < n THEN Weight(i)
                        ELSE 10000 - SumFunction([j \in 1..(n - 1) |-> Weight(j)])]

\* Mutant: the weights are not checked against the prizes.
EncodableUnchecked(winners, pool) ==
    EncodeSorobanPayoutAmounts(winners, pool)[Len(winners)] >= 0

Encodable(winners, pool) ==
    LET bps == EncodeSorobanPayoutAmounts(winners, pool)
        n == Len(winners)
    IN  /\ \A i \in 1..(n - 1) : (pool * bps[i]) \div 10000 = winners[i]
        /\ bps[n] >= 0

-----------------------------------------------------------------------------
(* prepareSettlement.                                                      *)

\* The ranks that share the points of rank i.
FirstOfGroup(i) == CHOOSE f \in 1..i :
    f \notin league.tied /\ \A k \in (f + 1)..i : k \in league.tied
Group(i) == {k \in 1..league.count : FirstOfGroup(k) = FirstOfGroup(i)}

\* Tied ranks pool their payouts and share them; the first ones in order of
\* joining take the odd cents.
Prizes(payouts) ==
    [i \in 1..league.count |->
        LET pooled == SumFunctionOnSet(payouts, Group(i) \cap DOMAIN payouts)
            size == Cardinality(Group(i))
        IN  (pooled \div size) + (IF i - FirstOfGroup(i) < pooled % size THEN 1 ELSE 0)]

\* Ranks without a prize are not winners.
Winners(prizes) ==
    LET upTo[i \in 0..Len(prizes)] ==
            IF i = 0 THEN <<>>
            ELSE IF prizes[i] > 0 THEN Append(upTo[i - 1], prizes[i]) ELSE upTo[i - 1]
    IN  upTo[Len(prizes)]

\* Only other presets than the standard one carry weights.
PrepareSettlement ==
    LET pool == Gross - PlatformFee
        prizes == Prizes(Payouts(pool, SplitsBps))
        winners == Winners(prizes)
        encodes == league.preset # "standard" /\ winners # <<>>
    IN  /\ outcome = "open"
        /\ IF encodes /\ ~Encodable(winners, pool)
           THEN outcome' = "unrepresentable" /\ UNCHANGED plan
           ELSE /\ plan' = [platformFee |-> PlatformFee, prizePool |-> pool,
                            prizes |-> prizes, winners |-> winners,
                            distributionBps |->
                                IF encodes THEN EncodeSorobanPayoutAmounts(winners, pool)
                                ELSE <<>>]
                /\ outcome' = IF winners = <<>> THEN "noWinners" ELSE "planned"
        /\ UNCHANGED league

-----------------------------------------------------------------------------
(* The call to the contract.                                               *)

ToStroops(cents) == cents * StroopsPerCent

\* settle, or settle_with_distribution when the plan carries weights.
ContractAccepts ==
    LET total == ToStroops(Gross)
        fee == ToStroops(plan.platformFee)
        pool == total - fee
        amounts == [i \in DOMAIN plan.winners |-> ToStroops(plan.winners[i])]
    IN  /\ fee <= MaxPlatformFee(total)
        /\ IF plan.distributionBps = <<>>
           THEN amounts \in AcceptedPayouts(pool, Len(amounts))
           ELSE /\ ValidDistribution(plan.distributionBps)
                /\ amounts = DistributionPayouts(pool, plan.distributionBps)
        /\ fee + SumFunction(amounts) = total

SettleLeague ==
    /\ outcome = "planned"
    /\ outcome' = IF ContractAccepts THEN "settled" ELSE "rejected"
    /\ UNCHANGED <<league, plan>>

PlanNext == PrepareSettlement \/ SettleLeague

PlanSpec == PlanInit /\ [][PlanNext]_planVars

-----------------------------------------------------------------------------
(* Properties.                                                             *)

\* No cent is lost or made up between the entry fees and the prizes, for
\* every preset, rounding and pattern of ties, also when ties reach past the
\* last paid rank (prepareSettlement with calculatePrizeDistribution).
PlanConserves ==
    plan.winners # <<>> =>
        /\ plan.platformFee + SumFunction(plan.prizes) = Gross
        /\ SumFunction(plan.winners) = SumFunction(plan.prizes)

\* Weights that survive encodeSorobanPayoutAmounts are turned by the
\* contract back into exactly the planned prizes: the two roundings agree.
EncodedPlanMatchesContract ==
    plan.distributionBps # <<>> =>
        /\ ValidDistribution(plan.distributionBps)
        /\ DistributionPayouts(ToStroops(plan.prizePool), plan.distributionBps)
              = [i \in DOMAIN plan.winners |-> ToStroops(plan.winners[i])]

-----------------------------------------------------------------------------
(* What the documentation says, and the code does not.                     *)

\* "Uses integer stroop rounding to ensure zero dropped fractions": the
\* contract accepts every plan of the standard preset without ties.
StandardPlanSettles ==
    league.preset = "standard" /\ league.tied = {} => outcome # "rejected"
=============================================================================
