---------------------------- MODULE EscrowLeague ----------------------------
(***************************************************************************)
(* The league partitions of one escrow contract (contracts/src/lib.rs):    *)
(* creation, deposits and the participant pages, the two ways to settle    *)
(* and to claim, the five ways money goes back to a participant, and the   *)
(* dispute freeze.  The contract is Self; its pause state and its peers    *)
(* are those of EscrowControl.                                             *)
(*                                                                         *)
(* All leagues use one token, the worst case for keeping partitions apart. *)
(* The token is external: a transfer out of the contract reverts the call  *)
(* unless the balance covers it, and a participant can always pay the      *)
(* entry fee.  Storage TTLs, events and the settlement and gameweek hashes *)
(* are left out.                                                           *)
(***************************************************************************)
EXTENDS EscrowControl, PrizeCurve

CONSTANTS
    Self,                       \* the contract whose leagues are modelled
    LeagueIds, Participants,
    EntryFees,                  \* entry fees create_league is called with
    PlatformFees,               \* platform fees a settlement is called with
    AffiliateCuts,              \* affiliate cuts a settlement is called with
    Distributions,              \* basis-point vectors, for settle_with_distribution
    MaxWinners,                 \* bound on the winners of a settlement
    PARTICIPANTS_PER_PAGE,
    EMERGENCY_REFUND_TIMELOCK

ASSUME LeagueAssumption ==
    /\ Self \in Contracts
    /\ IsFiniteSet(LeagueIds)
    /\ IsFiniteSet(Participants)
    /\ EntryFees \subseteq Nat
    /\ PlatformFees \subseteq Int
    /\ AffiliateCuts \subseteq Int
    /\ PARTICIPANTS_PER_PAGE \in Nat \ {0}
    /\ EMERGENCY_REFUND_TIMELOCK \in Nat

VARIABLES
    status,                     \* LeagueState.status; "None" before create_league
    entry_fee,                  \* LeagueState.entry_fee
    total_deposited,            \* LeagueState.total_deposited
    participant_count,          \* LeagueState.participant_count
    deposits,                   \* Deposit(league, participant); None if absent
    pages,                      \* ParticipantPage(league, page): who is on which page
    claimable,                  \* ClaimablePrize(league, winner); None if absent
    frozen,                     \* LeagueFrozen(league)
    leaves,                     \* leaf amounts behind MerkleRoot(league)
    hasRoot,                    \* MerkleRoot(league) is present
    claimed,                    \* Claimed(league, winner)
    balance,                    \* the contract's token balance (external)
    held                        \* history: what a league paid in minus what left for it

leagueState == <<status, entry_fee, total_deposited, participant_count>>
prizeState == <<claimable, leaves, hasRoot, claimed>>
money == <<balance, held>>
leagueVars == <<leagueState, deposits, pages, frozen, prizeState, money>>
vars == <<controlVars, leagueVars>>

\* The contract never stores LeagueStatus::Active.
Statuses == {"None", "Upcoming", "Settled", "Cancelled"}

LeagueTypeOK ==
    /\ status \in [LeagueIds -> Statuses]
    /\ entry_fee \in [LeagueIds -> Nat]
    /\ total_deposited \in [LeagueIds -> Nat]
    /\ participant_count \in [LeagueIds -> Nat]
    /\ deposits \in [LeagueIds -> [Participants -> Nat \cup {None}]]
    /\ pages \in [LeagueIds -> SUBSET (Nat \X Participants)]
    /\ claimable \in [LeagueIds -> [Participants -> Nat \cup {None}]]
    /\ frozen \in [LeagueIds -> BOOLEAN]
    /\ leaves \in [LeagueIds -> [Participants -> Nat]]
    /\ hasRoot \in [LeagueIds -> BOOLEAN]
    /\ claimed \in [LeagueIds -> SUBSET Participants]
    /\ balance \in Int
    /\ held \in [LeagueIds -> Int]

LeagueStorageInit ==
    /\ status = [l \in LeagueIds |-> "None"]
    /\ entry_fee = [l \in LeagueIds |-> 0]
    /\ total_deposited = [l \in LeagueIds |-> 0]
    /\ participant_count = [l \in LeagueIds |-> 0]
    /\ deposits = [l \in LeagueIds |-> [p \in Participants |-> None]]
    /\ pages = [l \in LeagueIds |-> {}]
    /\ claimable = [l \in LeagueIds |-> [p \in Participants |-> None]]
    /\ frozen = [l \in LeagueIds |-> FALSE]
    /\ leaves = [l \in LeagueIds |-> [p \in Participants |-> 0]]
    /\ hasRoot = [l \in LeagueIds |-> FALSE]
    /\ claimed = [l \in LeagueIds |-> {}]
    /\ balance = 0
    /\ held = [l \in LeagueIds |-> 0]

Init == ControlInit /\ LeagueStorageInit

-----------------------------------------------------------------------------
(* Helpers.                                                                *)

Exists(l) == status[l] # "None"
HasDeposit(l, p) == deposits[l][p] # None
Depositors(l) == {p \in Participants : deposits[l][p] > 0}
Members(l) == {p \in Participants : HasDeposit(l, p)}

\* The number of pages a reader is told to walk.
GetParticipantPagesCount(l) ==
    IF participant_count[l] = 0 THEN 0
    ELSE (participant_count[l] - 1) \div PARTICIPANTS_PER_PAGE + 1

\* The token moves amount out of the contract on behalf of league l.
TransferOut(l, amount) ==
    /\ balance >= amount
    /\ balance' = balance - amount
    /\ held' = [held EXCEPT ![l] = @ - amount]

-----------------------------------------------------------------------------
(* Creation and deposits.                                                  *)

CreateLeague(l, fee) ==
    /\ fee >= 0
    /\ ~Exists(l)
    /\ status' = [status EXCEPT ![l] = "Upcoming"]
    /\ entry_fee' = [entry_fee EXCEPT ![l] = fee]
    /\ total_deposited' = [total_deposited EXCEPT ![l] = 0]
    /\ participant_count' = [participant_count EXCEPT ![l] = 0]
    /\ UNCHANGED <<controlVars, deposits, pages, frozen, prizeState, money>>

\* Mutant: a page is started afresh instead of extended.
DepositOverwritesPage(l, p) ==
    LET page == participant_count[l] \div PARTICIPANTS_PER_PAGE
    IN  /\ EnsureOperational(Self)
        /\ status[l] = "Upcoming"
        /\ ~HasDeposit(l, p)
        /\ deposits' = [deposits EXCEPT ![l][p] = entry_fee[l]]
        /\ pages' = [pages EXCEPT ![l] = {e \in @ : e[1] # page} \cup {<<page, p>>}]
        /\ total_deposited' = [total_deposited EXCEPT ![l] = @ + entry_fee[l]]
        /\ participant_count' = [participant_count EXCEPT ![l] = @ + 1]
        /\ balance' = balance + entry_fee[l]
        /\ held' = [held EXCEPT ![l] = @ + entry_fee[l]]
        /\ UNCHANGED <<controlVars, status, entry_fee, frozen, prizeState>>

\* A deposit looks at the pause, not at the freeze.
Deposit(l, p) ==
    /\ EnsureOperational(Self)
    /\ status[l] = "Upcoming"
    /\ ~HasDeposit(l, p)
    /\ deposits' = [deposits EXCEPT ![l][p] = entry_fee[l]]
    /\ pages' = [pages EXCEPT ![l] = @ \cup
                   {<<participant_count[l] \div PARTICIPANTS_PER_PAGE, p>>}]
    /\ total_deposited' = [total_deposited EXCEPT ![l] = @ + entry_fee[l]]
    /\ participant_count' = [participant_count EXCEPT ![l] = @ + 1]
    /\ balance' = balance + entry_fee[l]
    /\ held' = [held EXCEPT ![l] = @ + entry_fee[l]]
    /\ UNCHANGED <<controlVars, status, entry_fee, frozen, prizeState>>

-----------------------------------------------------------------------------
(* Settlement with claimable prizes.                                       *)

\* The winners are written in order, so a winner listed twice keeps the
\* last positive amount only.
WrittenPrizes(l, winners, amounts) ==
    [p \in Participants |->
        LET wins == {i \in DOMAIN winners : winners[i] = p /\ amounts[i] > 0}
        IN  IF wins = {} THEN claimable[l][p]
            ELSE amounts[CHOOSE i \in wins : \A j \in wins : j <= i]]

\* settle_internal after the freeze check.  paysAffiliate: the caller passed
\* an affiliate address; without one the cut stays in the contract.
SettleInternal(l, approvals, winners, amounts, platformFee, cut, paysAffiliate) ==
    /\ EnsureOperational(Self)
    /\ AuthorizeSigners(Self, approvals)
    /\ status[l] = "Upcoming"
    /\ platformFee <= MaxPlatformFee(total_deposited[l])
    /\ 0 <= cut /\ cut <= platformFee /\ cut <= MaxAffiliateCut(platformFee)
    /\ \A i \in DOMAIN winners : amounts[i] \in Nat
    /\ platformFee + SumFunction(amounts) = total_deposited[l]
    /\ TransferOut(l, IF paysAffiliate THEN platformFee ELSE platformFee - cut)
    /\ claimable' = [claimable EXCEPT ![l] = WrittenPrizes(l, winners, amounts)]
    /\ status' = [status EXCEPT ![l] = "Settled"]
    /\ UNCHANGED <<controlVars, entry_fee, total_deposited, participant_count,
                   deposits, pages, leaves, hasRoot, claimed>>

WinnerLists == UNION {[1..n -> Participants] : n \in 1..MaxWinners}

\* settle, settle_with_proof, settle_with_settlement_hash (one approval) and
\* the three multisig variants.
Settle(l, approvals, winners, platformFee) ==
    /\ ~frozen[l]
    /\ \E amounts \in AcceptedPayouts(total_deposited[l] - platformFee, Len(winners)) :
          SettleInternal(l, approvals, winners, amounts, platformFee, 0, FALSE)
    /\ UNCHANGED frozen

SettleWithAffiliate(l, a, winners, platformFee, cut, paysAffiliate) ==
    /\ ~frozen[l]
    /\ \E amounts \in AcceptedPayouts(total_deposited[l] - platformFee, Len(winners)) :
          SettleInternal(l, {a}, winners, amounts, platformFee, cut, paysAffiliate)
    /\ UNCHANGED frozen

SettleWithDistribution(l, a, winners, platformFee, bps) ==
    /\ ~frozen[l]
    /\ Len(bps) = Len(winners) /\ ValidDistribution(bps)
    /\ SettleInternal(l, {a}, winners,
                      DistributionPayouts(total_deposited[l] - platformFee, bps),
                      platformFee, 0, FALSE)
    /\ UNCHANGED frozen

\* The freeze is lifted before settle looks at it.
ResolveDisputePayout(l, a, winners, platformFee) ==
    /\ RequireAdmin(Self, a)
    /\ \E amounts \in AcceptedPayouts(total_deposited[l] - platformFee, Len(winners)) :
          SettleInternal(l, {a}, winners, amounts, platformFee, 0, FALSE)
    /\ frozen' = [frozen EXCEPT ![l] = FALSE]

\* Mutant: a prize is claimed although the contract is paused.
ClaimPrizeWhilePaused(l, p) ==
    /\ ~frozen[l]
    /\ claimable[l][p] # None
    /\ TransferOut(l, claimable[l][p])
    /\ claimable' = [claimable EXCEPT ![l][p] = None]
    /\ UNCHANGED <<controlVars, leagueState, deposits, pages, frozen, leaves,
                   hasRoot, claimed>>

\* Mutant: the claimable entry is not removed.
ClaimPrizeKeepsEntry(l, p) ==
    /\ EnsureOperational(Self)
    /\ ~frozen[l]
    /\ claimable[l][p] # None
    /\ TransferOut(l, claimable[l][p])
    /\ UNCHANGED <<controlVars, leagueState, deposits, pages, frozen, prizeState>>

ClaimPrize(l, p) ==
    /\ EnsureOperational(Self)
    /\ ~frozen[l]
    /\ claimable[l][p] # None
    /\ TransferOut(l, claimable[l][p])
    /\ claimable' = [claimable EXCEPT ![l][p] = None]
    /\ UNCHANGED <<controlVars, leagueState, deposits, pages, frozen, leaves,
                   hasRoot, claimed>>

-----------------------------------------------------------------------------
(* Settlement with a Merkle root.                                          *)

\* A proof verifies exactly for the leaves of the tree.  The contract sees
\* the root only; the backend builds the tree from the winners of a
\* settlement plan, whose prizes add up to the pool.
MerkleTrees(pool) ==
    {t \in [Participants -> {0, pool \div 2, pool - pool \div 2, pool}] :
        SumFunction(t) = pool}

\* The peers' pause is not looked at here.
SettleWithMerkleRoot(l, a, tree, platformFee) ==
    /\ RequireAdmin(Self, a)
    /\ ~isPaused[Self]
    /\ ~frozen[l]
    /\ status[l] = "Upcoming"
    /\ 0 <= platformFee /\ platformFee <= MaxPlatformFee(total_deposited[l])
    /\ TransferOut(l, platformFee)
    /\ leaves' = [leaves EXCEPT ![l] = tree]
    /\ hasRoot' = [hasRoot EXCEPT ![l] = TRUE]
    /\ status' = [status EXCEPT ![l] = "Settled"]
    /\ UNCHANGED <<controlVars, entry_fee, total_deposited, participant_count,
                   deposits, pages, frozen, claimable, claimed>>

\* Neither pause is looked at here.
ClaimPrizeMerkle(l, p) ==
    /\ leaves[l][p] > 0
    /\ ~frozen[l]
    /\ status[l] = "Settled"
    /\ p \notin claimed[l]
    /\ hasRoot[l]
    /\ claimed' = [claimed EXCEPT ![l] = @ \cup {p}]
    /\ TransferOut(l, leaves[l][p])
    /\ UNCHANGED <<controlVars, leagueState, deposits, pages, frozen, claimable,
                   leaves, hasRoot>>

-----------------------------------------------------------------------------
(* Refunds.                                                                *)

\* Mutant: the total is not reduced.
ReturnDepositKeepsTotal(l, p) ==
    /\ Exists(l)
    /\ status[l] # "Settled"
    /\ deposits[l][p] > 0
    /\ TransferOut(l, deposits[l][p])
    /\ deposits' = [deposits EXCEPT ![l][p] = None]
    /\ participant_count' = [participant_count EXCEPT ![l] = @ - 1]
    /\ UNCHANGED <<controlVars, status, entry_fee, total_deposited, pages, frozen,
                   prizeState>>

\* What emergency_refund_league and refund_deposit write: the deposit key
\* goes, and the counters follow.  The pages keep their entries.
ReturnDeposit(l, p) ==
    /\ Exists(l)
    /\ status[l] # "Settled"
    /\ deposits[l][p] > 0
    /\ TransferOut(l, deposits[l][p])
    /\ deposits' = [deposits EXCEPT ![l][p] = None]
    /\ total_deposited' = [total_deposited EXCEPT ![l] = @ - deposits[l][p]]
    /\ participant_count' = [participant_count EXCEPT ![l] = @ - 1]
    /\ UNCHANGED <<controlVars, status, entry_fee, pages, frozen, prizeState>>

EmergencyRefundLeague(l, p) ==
    /\ isPaused[Self]
    /\ pausedAt[Self] # None
    /\ now >= pausedAt[Self] + EMERGENCY_REFUND_TIMELOCK
    /\ ~frozen[l]
    /\ ReturnDeposit(l, p)

\* Neither the pause nor the freeze is looked at.
RefundDeposit(l, a, p) == RequireAdmin(Self, a) /\ ReturnDeposit(l, p)

\* refund: every listed participant with a deposit is paid and its key
\* removed; total_deposited and participant_count keep their values.  A
\* positive deposit is the entry fee (DepositIsFee).
RefundAll(l, listed) ==
    LET paid == listed \cap Depositors(l)
    IN  /\ Exists(l)
        /\ status[l] # "Settled"
        /\ TransferOut(l, entry_fee[l] * Cardinality(paid))
        /\ deposits' = [deposits EXCEPT ![l] =
                          [p \in Participants |-> IF p \in listed THEN None ELSE @[p]]]
        /\ status' = [status EXCEPT ![l] = "Cancelled"]
        /\ UNCHANGED <<controlVars, entry_fee, total_deposited, participant_count,
                       pages, prizeState>>

Refund(l, a, listed) ==
    /\ RequireAdmin(Self, a)
    /\ RefundAll(l, listed)
    /\ UNCHANGED frozen

ResolveDisputeRefund(l, a, listed) ==
    /\ RequireAdmin(Self, a)
    /\ RefundAll(l, listed)
    /\ frozen' = [frozen EXCEPT ![l] = FALSE]

\* Mutant: a settled league can be cancelled.
CancelLeagueAnytime(l) ==
    /\ Exists(l)
    /\ Initialized(Self)
    /\ status' = [status EXCEPT ![l] = "Cancelled"]
    /\ UNCHANGED <<controlVars, entry_fee, total_deposited, participant_count,
                   deposits, pages, frozen, prizeState, money>>

\* The admin or the league's creator; the creator can always make the call.
CancelLeague(l) ==
    /\ Exists(l)
    /\ status[l] # "Settled"
    /\ Initialized(Self)
    /\ status' = [status EXCEPT ![l] = "Cancelled"]
    /\ UNCHANGED <<controlVars, entry_fee, total_deposited, participant_count,
                   deposits, pages, frozen, prizeState, money>>

\* The key stays with amount 0, and participant_count keeps its value.
ClaimRefund(l, p) ==
    /\ status[l] = "Cancelled"
    /\ deposits[l][p] > 0
    /\ TransferOut(l, deposits[l][p])
    /\ deposits' = [deposits EXCEPT ![l][p] = 0]
    /\ total_deposited' = [total_deposited EXCEPT ![l] = @ - deposits[l][p]]
    /\ UNCHANGED <<controlVars, status, entry_fee, participant_count, pages,
                   frozen, prizeState>>

-----------------------------------------------------------------------------
(* The dispute freeze.                                                     *)

FreezeLeague(l, a) ==
    /\ RequireAdmin(Self, a)
    /\ status[l] = "Upcoming"
    /\ frozen' = [frozen EXCEPT ![l] = TRUE]
    /\ UNCHANGED <<controlVars, leagueState, deposits, pages, prizeState, money>>

UnfreezeLeague(l, a) ==
    /\ RequireAdmin(Self, a)
    /\ frozen[l]
    /\ frozen' = [frozen EXCEPT ![l] = FALSE]
    /\ UNCHANGED <<controlVars, leagueState, deposits, pages, prizeState, money>>

-----------------------------------------------------------------------------

\* No settlement gets past the status check of a league that is not open.
Settlements(l) ==
    status[l] = "Upcoming" /\ \E winners \in WinnerLists, fee \in PlatformFees :
        \/ \E approvals \in SUBSET Addresses : Settle(l, approvals, winners, fee)
        \/ \E a \in Addresses :
              \/ \E cut \in AffiliateCuts, paysAffiliate \in BOOLEAN :
                    SettleWithAffiliate(l, a, winners, fee, cut, paysAffiliate)
              \/ \E bps \in Distributions : SettleWithDistribution(l, a, winners, fee, bps)
              \/ ResolveDisputePayout(l, a, winners, fee)

LeagueNext ==
    \E l \in LeagueIds :
        \/ \E fee \in EntryFees : CreateLeague(l, fee)
        \/ \E p \in Participants :
              \/ Deposit(l, p)
              \/ ClaimPrize(l, p)
              \/ ClaimPrizeMerkle(l, p)
              \/ EmergencyRefundLeague(l, p)
              \/ ClaimRefund(l, p)
        \/ Settlements(l)
        \/ \E a \in Addresses :
              \/ \E fee \in PlatformFees :
                    \E tree \in MerkleTrees(total_deposited[l] - fee) :
                        SettleWithMerkleRoot(l, a, tree, fee)
              \/ \E p \in Participants : RefundDeposit(l, a, p)
              \/ \E listed \in SUBSET Participants :
                    Refund(l, a, listed) \/ ResolveDisputeRefund(l, a, listed)
              \/ FreezeLeague(l, a)
              \/ UnfreezeLeague(l, a)
        \/ CancelLeague(l)

Next == LeagueNext \/ (ControlNext /\ UNCHANGED leagueVars)

Spec == Init /\ [][Next]_vars

-----------------------------------------------------------------------------
(* Properties.                                                             *)

\* A stored deposit is the league's entry fee, or 0 once claim_refund paid
\* it back; only existing leagues have deposits.
DepositIsFee ==
    \A l \in LeagueIds, p \in Participants :
        /\ deposits[l][p] \in {None, 0, entry_fee[l]}
        /\ ~Exists(l) => deposits[l][p] = None

\* The counters of a league agree with its deposit keys, through every
\* order of deposits and refunds.  While the league is open, the total is
\* what its depositors paid and what the contract still holds for it, so a
\* settlement, which must pay out exactly total_deposited, is always
\* covered.  Once it is cancelled (refund leaves the counters stale) the
\* contract still holds one entry fee for every depositor, total_deposited
\* covers them, and participant_count cannot underflow in a later refund.
LeagueAccounted(l) ==
    /\ status[l] = "None" => held[l] = 0
    /\ status[l] = "Upcoming" =>
          /\ total_deposited[l] = entry_fee[l] * Cardinality(Depositors(l))
          /\ held[l] = total_deposited[l]
          /\ participant_count[l] = Cardinality(Members(l))
    /\ status[l] = "Cancelled" =>
          /\ held[l] = entry_fee[l] * Cardinality(Depositors(l))
          /\ total_deposited[l] >= held[l]
          /\ participant_count[l] >= Cardinality(Depositors(l))

DepositAccounting == \A l \in LeagueIds : LeagueAccounted(l)

\* A settled league is never frozen, so a dispute opened late cannot hold
\* prizes that are already claimable; and prizes and a root exist only in
\* settled leagues.
FreezeEndsAtSettlement ==
    \A l \in LeagueIds :
        /\ frozen[l] => status[l] # "Settled"
        /\ status[l] # "Settled" =>
              /\ ~hasRoot[l]
              /\ claimed[l] = {}
              /\ \A p \in Participants : claimable[l][p] = None

\* What the contract still owes the winners of a settled league.
OwedPrizes(l) ==
    SumFunctionOnSet(claimable[l], {p \in Participants : claimable[l][p] # None})
      + SumFunctionOnSet(leaves[l], Participants \ claimed[l])

\* What the contract owes on behalf of a league.
Owed(l) ==
    IF status[l] = "Settled" THEN OwedPrizes(l)
    ELSE SumFunctionOnSet(deposits[l], Depositors(l))

\* Partitions are kept apart although they share one token balance: no
\* league ever owes more than what was paid into it and has not left, and
\* the balance is exactly what is held for all leagues, so every refund and
\* every prize can be paid without another league's money.
PartitionsSolvent ==
    /\ \A l \in LeagueIds : held[l] >= Owed(l)
    /\ balance = SumFunction(held)

\* Settlement and cancellation are final and exclusive, and after a
\* settlement no deposit is ever paid back or changed by any of the five
\* refund paths: a league's money goes to prizes or to refunds, never both.
SettledOrRefunded ==
    [][\A l \in LeagueIds :
          /\ status[l] \in {"Settled", "Cancelled"} => status'[l] = status[l]
          /\ status[l] = "Settled" => deposits'[l] = deposits[l]]_vars

\* While the contract or a linked peer is paused, no deposit enters and no
\* claimable prize is paid: money leaves a league's books only by a refund, by
\* a Merkle claim, or, if only a peer is paused, as the fee of a Merkle
\* settlement.  While the contract itself is paused no league is settled.
\* (The books are all this speaks of: a decided withdrawal from the treasury
\* balance is EscrowGovernance's, and does not look at the pause either.)
PauseHoldsMoney ==
    [][~EnsureOperational(Self) =>
          \A l \in LeagueIds :
              /\ held'[l] <= held[l]
              /\ held'[l] # held[l] =>
                    \/ deposits'[l] # deposits[l]
                    \/ claimed'[l] # claimed[l]
                    \/ ~isPaused[Self] /\ ~hasRoot[l] /\ hasRoot'[l]
              /\ isPaused[Self] /\ status'[l] = "Settled" => status[l] = "Settled"]_vars

\* Everyone with a deposit is on a participant page, and on one of the pages
\* get_participant_pages_count announces as long as nobody listed was paid
\* back.  Refunds lower participant_count, from which deposit picks the page
\* and the count is computed, while the pages keep their entries: after one, a
\* reader that stops at the announced count can miss the last page.
DepositorListed ==
    \A l \in LeagueIds, p \in Participants :
        HasDeposit(l, p) =>
            \E entry \in pages[l] :
                /\ entry[2] = p
                /\ \/ entry[1] < GetParticipantPagesCount(l)
                   \/ \E other \in pages[l] : ~HasDeposit(l, other[2])

\* The inductive invariant behind the theorems of EscrowProofs: pause
\* bookkeeping, types, deposits, counters and the end of freezes together.
LeagueInv ==
    /\ ControlInv
    /\ LeagueTypeOK
    /\ DepositIsFee
    /\ DepositAccounting
    /\ FreezeEndsAtSettlement
=============================================================================
