------------------------- MODULE MCEscrowGovernance -------------------------
(* Two instances, in one of two parts that never mix:                      *)
(*   control     the escrow and the treasury are initialised, linked,      *)
(*               paused and unpaused by two accounts, with quorums of one  *)
(*               and of two;                                               *)
(*   governance  two proposals that draw on the balance of a league, in an *)
(*               escrow with two signers and a threshold of one, and two   *)
(*               versions of new code.                                     *)
EXTENDS EscrowGovernance, TLC

CONSTANTS escrow, treasury, s1, s2, l1, ann, bob

VARIABLE part

MCSignerLists == {<<s1, s2>>}
MCWithdrawalAmounts == {-50, 50}

GovernedEscrow ==
    /\ LeagueStorageInit
    /\ now = 0
    /\ signers = [c \in Contracts |-> <<s1, s2>>]
    /\ threshold = [c \in Contracts |-> 1]
    /\ guardian = [c \in Contracts |-> NoAddress]
    /\ peers = [c \in Contracts |-> {}]
    /\ isPaused = [c \in Contracts |-> FALSE]
    /\ pausedAt = [c \in Contracts |-> None]
    /\ emergencyUnpauseAfter = [c \in Contracts |-> None]
    /\ engagedAt = [c \in Contracts |-> None]

MCInit ==
    /\ GovernanceInit
    /\ \/ part = "control" /\ Init
       \/ part = "governance" /\ GovernedEscrow

PauseNext == Tick \/ Pause(Self, s1) \/ Unpause(Self, s1)

MCNext ==
    /\ UNCHANGED part
    /\ \/ part = "control" /\ ControlNext /\ UNCHANGED <<leagueVars, governanceVars>>
       \/ part = "governance" /\ LeagueNext /\ UNCHANGED governanceVars
       \/ /\ part = "governance"
          /\ PauseNext /\ now' < MaxTime
          /\ UNCHANGED <<leagueVars, governanceVars>>
       \/ part = "governance" /\ GovernanceNext

MCSpec == MCInit /\ [][MCNext]_<<allVars, part>>

Symmetry == Permutations(LeagueIds) \cup Permutations(Participants)
=============================================================================
