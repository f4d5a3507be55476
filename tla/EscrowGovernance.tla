-------------------------- MODULE EscrowGovernance --------------------------
(***************************************************************************)
(* The timelocked decisions of the signers of an escrow contract           *)
(* (contracts/src/lib.rs): fee withdrawals, which take tokens out of the   *)
(* balance the leagues share, and upgrades of the contract code.           *)
(* Both timelocks count ledgers and the pauses of EscrowControl seconds;   *)
(* one clock, now, stands for the two, which only advance together.        *)
(***************************************************************************)
EXTENDS EscrowLeague

CONSTANTS
    ProposalIds,
    WithdrawalAmounts,          \* amounts proposed
    WasmHashes,
    NoProposal,                 \* an absent proposal
    TIMELOCK_DELAY              \* of withdrawals and of upgrades

\* TimelockProposal and PendingUpgrade.  Stored proposals have positive
\* amounts, as propose_fee_withdrawal demands: a negative one would raise
\* what execute_fee_withdrawal accounts for.
Withdrawals == [amount : Nat \ {0}, unlock_ledger : Nat, approvals : SUBSET Addresses,
                executed : BOOLEAN]
Upgrades == [wasm_hash : WasmHashes, unlock_ledger : Nat]

ASSUME GovernanceAssumption ==
    /\ IsFiniteSet(ProposalIds)
    /\ WithdrawalAmounts \subseteq Int
    /\ TIMELOCK_DELAY \in Nat
    /\ NoProposal \notin Withdrawals \cup Upgrades

VARIABLES
    withdrawal,                 \* TimelockProposal(id)
    pendingUpgrade,             \* PendingUpgrade
    withdrawn,                  \* history: total of the executed withdrawals
    upgradeProposedAt           \* history: the last propose_upgrade

governanceVars == <<withdrawal, pendingUpgrade, withdrawn, upgradeProposedAt>>
allVars == <<vars, governanceVars>>

GovernanceTypeOK ==
    /\ withdrawal \in [ProposalIds -> {NoProposal} \cup Withdrawals]
    /\ pendingUpgrade \in {NoProposal} \cup Upgrades
    /\ withdrawn \in Nat
    /\ upgradeProposedAt \in Nat \cup {None}

GovernanceInit ==
    /\ withdrawal = [i \in ProposalIds |-> NoProposal]
    /\ pendingUpgrade = NoProposal
    /\ withdrawn = 0
    /\ upgradeProposedAt = None

IsSigner(a) == Initialized(Self) /\ a \in SignerSet(Self)

\* Mutant: the configured threshold alone.
ConfiguredThreshold == threshold[Self]

\* With two signers or more, one approval never suffices.
RequiredThreshold ==
    IF Len(signers[Self]) >= 2 /\ threshold[Self] < 2 THEN 2 ELSE threshold[Self]

ProposeFeeWithdrawal(a, id, amount) ==
    /\ amount > 0
    /\ IsSigner(a)
    /\ withdrawal[id] = NoProposal
    /\ withdrawal' = [withdrawal EXCEPT ![id] =
          [amount |-> amount, unlock_ledger |-> now + TIMELOCK_DELAY,
           approvals |-> {a}, executed |-> FALSE]]
    /\ UNCHANGED <<vars, pendingUpgrade, withdrawn, upgradeProposedAt>>

ApproveFeeWithdrawal(a, id) ==
    /\ IsSigner(a)
    /\ withdrawal[id] # NoProposal
    /\ ~withdrawal[id].executed
    /\ a \notin withdrawal[id].approvals
    /\ withdrawal' = [withdrawal EXCEPT ![id].approvals = @ \cup {a}]
    /\ UNCHANGED <<vars, pendingUpgrade, withdrawn, upgradeProposedAt>>

\* Mutant: the proposal is not marked executed.
ExecuteAgain(a, id) ==
    /\ IsSigner(a)
    /\ withdrawal[id] # NoProposal
    /\ now >= withdrawal[id].unlock_ledger
    /\ Cardinality(withdrawal[id].approvals) >= RequiredThreshold
    /\ balance >= withdrawal[id].amount
    /\ balance' = balance - withdrawal[id].amount
    /\ withdrawn' = withdrawn + withdrawal[id].amount
    /\ UNCHANGED <<controlVars, leagueState, deposits, pages, frozen, prizeState,
                   held, withdrawal, pendingUpgrade, upgradeProposedAt>>

\* The pause is not looked at, and neither is what the leagues are owed.
ExecuteFeeWithdrawal(a, id) ==
    /\ IsSigner(a)
    /\ withdrawal[id] # NoProposal
    /\ ~withdrawal[id].executed
    /\ now >= withdrawal[id].unlock_ledger
    /\ Cardinality(withdrawal[id].approvals) >= RequiredThreshold
    /\ balance >= withdrawal[id].amount
    /\ balance' = balance - withdrawal[id].amount
    /\ withdrawn' = withdrawn + withdrawal[id].amount
    /\ withdrawal' = [withdrawal EXCEPT ![id].executed = TRUE]
    /\ UNCHANGED <<controlVars, leagueState, deposits, pages, frozen, prizeState,
                   held, pendingUpgrade, upgradeProposedAt>>

\* Mutant: a replaced proposal hands its unlock time on.
ProposeUpgradeKeepsTimer(a, hash) ==
    /\ IsSigner(a)
    /\ pendingUpgrade' = [wasm_hash |-> hash, unlock_ledger |->
          IF pendingUpgrade = NoProposal THEN now + TIMELOCK_DELAY
          ELSE pendingUpgrade.unlock_ledger]
    /\ upgradeProposedAt' = now
    /\ UNCHANGED <<vars, withdrawal, withdrawn>>

\* A new proposal replaces a pending one and restarts the timelock.
ProposeUpgrade(a, hash) ==
    /\ IsSigner(a)
    /\ pendingUpgrade' = [wasm_hash |-> hash, unlock_ledger |-> now + TIMELOCK_DELAY]
    /\ upgradeProposedAt' = now
    /\ UNCHANGED <<vars, withdrawal, withdrawn>>

\* State survives the upgrade; the new code is not modelled.
Upgrade(approvals, hash) ==
    /\ AuthorizeSigners(Self, approvals)
    /\ pendingUpgrade # NoProposal
    /\ pendingUpgrade.wasm_hash = hash
    /\ now >= pendingUpgrade.unlock_ledger
    /\ pendingUpgrade' = NoProposal
    /\ UNCHANGED <<vars, withdrawal, withdrawn, upgradeProposedAt>>

GovernanceNext ==
    \/ \E a \in Addresses :
          \/ \E id \in ProposalIds :
                \/ \E amount \in WithdrawalAmounts : ProposeFeeWithdrawal(a, id, amount)
                \/ ApproveFeeWithdrawal(a, id)
                \/ ExecuteFeeWithdrawal(a, id)
          \/ \E hash \in WasmHashes : ProposeUpgrade(a, hash)
    \/ \E approvals \in SUBSET Addresses, hash \in WasmHashes : Upgrade(approvals, hash)

GovernanceSpec ==
    /\ Init /\ GovernanceInit
    /\ [][(Next /\ UNCHANGED governanceVars) \/ GovernanceNext]_allVars

-----------------------------------------------------------------------------
(* Properties.                                                             *)

\* The executed withdrawals account for every token that left the contract
\* other than for a league: each proposal pays at most once, and league
\* flows stay balanced around it.
WithdrawalsAccounted ==
    /\ withdrawn = SumFunctionOnSet(
          [i \in ProposalIds |-> IF withdrawal[i] = NoProposal THEN 0 ELSE withdrawal[i].amount],
          {i \in ProposalIds : withdrawal[i] # NoProposal /\ withdrawal[i].executed})
    /\ balance + withdrawn = SumFunction(held)
    /\ \A l \in LeagueIds : held[l] >= Owed(l)

\* Every executed withdrawal waited for its timelock and carries the
\* approvals of distinct signers: the threshold, and never fewer than two
\* where there are two signers.
WithdrawalNeedsQuorum ==
    \A i \in ProposalIds :
        withdrawal[i] # NoProposal /\ withdrawal[i].executed =>
            /\ now >= withdrawal[i].unlock_ledger
            /\ withdrawal[i].approvals \subseteq SignerSet(Self)
            /\ Cardinality(withdrawal[i].approvals) >= threshold[Self]
            /\ Cardinality(SignerSet(Self)) >= 2 =>
                  Cardinality(withdrawal[i].approvals) >= 2

\* An upgrade runs only TIMELOCK_DELAY after the latest proposal, whichever
\* proposals it replaced.
UpgradeWaits ==
    [][pendingUpgrade # NoProposal /\ pendingUpgrade' = NoProposal =>
          now >= upgradeProposedAt + TIMELOCK_DELAY]_allVars
=============================================================================
