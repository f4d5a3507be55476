--------------------------- MODULE MCEscrowLeague ---------------------------
(* An escrow that its admin has initialised and linked to a treasury, the  *)
(* configuration of the deployed system, with leagues that share its       *)
(* balance.  The clock, pausing and unpausing are those of EscrowControl;   *)
(* reconfiguring is explored in MCEscrowGovernance.                        *)
EXTENDS EscrowLeague, TLC

CONSTANTS escrow, treasury, admin, l1, l2, ann, bob, cat

MCContracts == {escrow, treasury}
MCDistributions == {<<5000, 5000>>, <<10000>>}

PartitionPerms == Permutations(LeagueIds) \cup Permutations(Participants)

MCInit ==
    /\ LeagueStorageInit
    /\ now = 0
    /\ signers = [c \in Contracts |-> <<admin>>]
    /\ threshold = [c \in Contracts |-> 1]
    /\ guardian = [c \in Contracts |-> NoAddress]
    /\ peers = [c \in Contracts |-> Contracts \ {c}]
    /\ isPaused = [c \in Contracts |-> FALSE]
    /\ pausedAt = [c \in Contracts |-> None]
    /\ emergencyUnpauseAfter = [c \in Contracts |-> None]
    /\ engagedAt = [c \in Contracts |-> None]

PauseNext ==
    /\ Tick \/ \E c \in Contracts : Pause(c, admin) \/ Unpause(c, admin)
    /\ UNCHANGED leagueVars

\* The bound of this instance: three participants in one league, enough to
\* start a second page, or two in two leagues, enough to mix up their money.
Scope ==
    LET Listed(l) == {e[2] : e \in pages[l]}
        Winning(l) == {p \in Participants : claimable[l][p] # None \/ leaves[l][p] > 0}
    IN  \/ Cardinality({l \in LeagueIds : status[l] # "None"}) <= 1
        \/ Cardinality(UNION {Listed(l) \cup Winning(l) : l \in LeagueIds}) <= 2

MCSpec == MCInit /\ [][(LeagueNext /\ Scope') \/ PauseNext]_vars
=============================================================================
