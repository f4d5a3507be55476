--------------------------- MODULE EscrowControl ---------------------------
(***************************************************************************)
(* Administration and pause control of the Soroban escrow contract         *)
(* (contracts/src/lib.rs): initialisation with one admin or M of N         *)
(* signers, the admin's and the signers' pause and unpause, the guardian,  *)
(* and the federation of contract instances that pause together.           *)
(*                                                                         *)
(* One instance of the contract is a member of Contracts.  A contract call *)
(* is atomic (the host reverts every write of a call that returns an       *)
(* error), so one call, with the calls it makes to its peers, is one       *)
(* action, and an error return is an action that is not enabled.           *)
(***************************************************************************)
EXTENDS Integers, FiniteSets, Sequences

CONSTANTS
    Contracts,          \* deployed instances of the contract
    Addresses,          \* accounts that sign calls: admins, signers, guardians
    NoAddress,          \* an address entry that was never written
    SignerLists,        \* the signer vectors initialize_multisig is called with
    EMERGENCY_UNPAUSE_DELAY,
    MaxTime             \* bound on the ledger clock

None == -1              \* an absent storage entry whose values are naturals

ASSUME ControlAssumption ==
    /\ NoAddress \notin Addresses
    /\ SignerLists \subseteq Seq(Addresses)
    /\ EMERGENCY_UNPAUSE_DELAY \in Nat
    /\ MaxTime \in Nat

VARIABLES
    now,                     \* ledger time
    signers,                 \* AdminConfig.signers; <<>> until initialised
    threshold,               \* AdminConfig.threshold
    guardian,                \* Guardian
    peers,                   \* FederationPeers
    isPaused,                \* IsPaused
    pausedAt,                \* PausedAt
    emergencyUnpauseAfter,   \* EmergencyUnpauseAfter
    engagedAt                \* history: the last emergency pause

configVars == <<signers, threshold, guardian, peers>>
pauseVars == <<isPaused, pausedAt, emergencyUnpauseAfter, engagedAt>>
controlVars == <<now, configVars, pauseVars>>

ControlTypeOK ==
    /\ now \in Nat
    /\ signers \in [Contracts -> Seq(Addresses)]
    /\ threshold \in [Contracts -> Nat]
    /\ guardian \in [Contracts -> Addresses \cup {NoAddress}]
    /\ peers \in [Contracts -> SUBSET Contracts]
    /\ isPaused \in [Contracts -> BOOLEAN]
    /\ pausedAt \in [Contracts -> Nat \cup {None}]
    /\ emergencyUnpauseAfter \in [Contracts -> Nat \cup {None}]
    /\ engagedAt \in [Contracts -> Nat \cup {None}]

ControlInit ==
    /\ now = 0
    /\ signers = [c \in Contracts |-> <<>>]
    /\ threshold = [c \in Contracts |-> 0]
    /\ guardian = [c \in Contracts |-> NoAddress]
    /\ peers = [c \in Contracts |-> {}]
    /\ isPaused = [c \in Contracts |-> FALSE]
    /\ pausedAt = [c \in Contracts |-> None]
    /\ emergencyUnpauseAfter = [c \in Contracts |-> None]
    /\ engagedAt = [c \in Contracts |-> None]

-----------------------------------------------------------------------------
(* Guards shared by the calls.                                             *)

Initialized(c) == signers[c] # <<>>
SignerSet(c) == {signers[c][i] : i \in DOMAIN signers[c]}

\* Both initialisers store the first signer under Admin.
RequireAdmin(c, a) == Initialized(c) /\ a = signers[c][1]

\* The approvals vector must be duplicate free, so a set stands for it.
AuthorizeSigners(c, approvals) ==
    /\ Initialized(c)
    /\ Cardinality(approvals) >= threshold[c]
    /\ Cardinality(approvals) <= Len(signers[c])
    /\ approvals \subseteq SignerSet(c)

EnsureOperational(c) == ~isPaused[c] /\ \A p \in peers[c] : ~isPaused[p]

-----------------------------------------------------------------------------
(* Initialisation and configuration.                                       *)

Initialize(c, a) ==
    /\ ~Initialized(c)
    /\ signers' = [signers EXCEPT ![c] = <<a>>]
    /\ threshold' = [threshold EXCEPT ![c] = 1]
    /\ UNCHANGED <<now, guardian, peers, pauseVars>>

InitializeMultisig(c, list, n) ==
    /\ ~Initialized(c)
    /\ 0 < n /\ n <= Len(list) /\ Len(list) <= 32
    /\ signers' = [signers EXCEPT ![c] = list]
    /\ threshold' = [threshold EXCEPT ![c] = n]
    /\ UNCHANGED <<now, guardian, peers, pauseVars>>

SetGuardian(c, approvals, g) ==
    /\ AuthorizeSigners(c, approvals)
    /\ guardian' = [guardian EXCEPT ![c] = g]
    /\ UNCHANGED <<now, signers, threshold, peers, pauseVars>>

LinkFederationPeer(c, approvals, p) ==
    /\ AuthorizeSigners(c, approvals)
    /\ p # c
    /\ peers' = [peers EXCEPT ![c] = @ \cup {p}]
    /\ UNCHANGED <<now, signers, threshold, guardian, pauseVars>>

-----------------------------------------------------------------------------
(* Pausing.                                                                *)

\* What pause and multisig_pause write.
EnterPause(c) ==
    /\ ~isPaused[c]
    /\ isPaused' = [isPaused EXCEPT ![c] = TRUE]
    /\ pausedAt' = [pausedAt EXCEPT ![c] = now]
    /\ UNCHANGED <<now, configVars, emergencyUnpauseAfter, engagedAt>>

Pause(c, a) == RequireAdmin(c, a) /\ EnterPause(c)

MultisigPause(c, approvals) == AuthorizeSigners(c, approvals) /\ EnterPause(c)

\* Mutant: the admin's unpause does not look at the timer.
UnpauseIgnoresTimer(c, a) ==
    /\ RequireAdmin(c, a)
    /\ isPaused[c]
    /\ isPaused' = [isPaused EXCEPT ![c] = FALSE]
    /\ pausedAt' = [pausedAt EXCEPT ![c] = None]
    /\ emergencyUnpauseAfter' = [emergencyUnpauseAfter EXCEPT ![c] = None]
    /\ UNCHANGED <<now, configVars, engagedAt>>

Unpause(c, a) ==
    /\ RequireAdmin(c, a)
    /\ isPaused[c]
    /\ emergencyUnpauseAfter[c] # None => now >= emergencyUnpauseAfter[c]
    /\ isPaused' = [isPaused EXCEPT ![c] = FALSE]
    /\ pausedAt' = [pausedAt EXCEPT ![c] = None]
    /\ emergencyUnpauseAfter' = [emergencyUnpauseAfter EXCEPT ![c] = None]
    /\ UNCHANGED <<now, configVars, engagedAt>>

\* Mutant: the quorum's unpause leaves PausedAt behind.
MultisigUnpauseKeepsPausedAt(c, approvals) ==
    /\ AuthorizeSigners(c, approvals)
    /\ isPaused[c]
    /\ isPaused' = [isPaused EXCEPT ![c] = FALSE]
    /\ UNCHANGED <<now, configVars, pausedAt, emergencyUnpauseAfter, engagedAt>>

\* The quorum's unpause neither reads nor removes EmergencyUnpauseAfter.
MultisigUnpause(c, approvals) ==
    /\ AuthorizeSigners(c, approvals)
    /\ isPaused[c]
    /\ isPaused' = [isPaused EXCEPT ![c] = FALSE]
    /\ pausedAt' = [pausedAt EXCEPT ![c] = None]
    /\ UNCHANGED <<now, configVars, emergencyUnpauseAfter, engagedAt>>

\* Mutant: an emergency pause writes PausedAt even if it is there.
EngageRestartsClock(S) ==
    /\ isPaused' = [c \in Contracts |-> c \in S \/ isPaused[c]]
    /\ pausedAt' = [c \in Contracts |-> IF c \in S THEN now ELSE pausedAt[c]]
    /\ emergencyUnpauseAfter' = [c \in Contracts |->
                      IF c \in S THEN now + EMERGENCY_UNPAUSE_DELAY
                                 ELSE emergencyUnpauseAfter[c]]
    /\ engagedAt' = [c \in Contracts |-> IF c \in S THEN now ELSE engagedAt[c]]

\* engage_emergency_pause on every contract of S in one call: a contract
\* that is already paused keeps its PausedAt.
EngageEmergencyPause(S) ==
    /\ isPaused' = [c \in Contracts |-> c \in S \/ isPaused[c]]
    /\ pausedAt' = [c \in Contracts |->
                      IF c \in S /\ ~isPaused[c] THEN now ELSE pausedAt[c]]
    /\ emergencyUnpauseAfter' = [c \in Contracts |->
                      IF c \in S THEN now + EMERGENCY_UNPAUSE_DELAY
                                 ELSE emergencyUnpauseAfter[c]]
    /\ engagedAt' = [c \in Contracts |-> IF c \in S THEN now ELSE engagedAt[c]]

\* Mutant: a peer that rejects the pause is skipped.
EmergencyPauseSkipsPeers(c, g) ==
    /\ guardian[c] # NoAddress /\ g = guardian[c]
    /\ EngageEmergencyPause({c} \cup {p \in peers[c] : c \in peers[p]})
    /\ UNCHANGED <<now, configVars>>

\* federated_pause at a peer is rejected unless the peer has linked the
\* source back, and one rejection reverts the whole emergency pause.
EmergencyPause(c, g) ==
    /\ guardian[c] # NoAddress /\ g = guardian[c]
    /\ \A p \in peers[c] : c \in peers[p]
    /\ EngageEmergencyPause({c} \cup peers[c])
    /\ UNCHANGED <<now, configVars>>

Tick ==
    /\ now < MaxTime
    /\ now' = now + 1
    /\ UNCHANGED <<configVars, pauseVars>>

ControlNext ==
    \/ Tick
    \/ \E c \in Contracts, a \in Addresses :
          \/ Initialize(c, a)
          \/ Pause(c, a)
          \/ Unpause(c, a)
          \/ EmergencyPause(c, a)
    \/ \E c \in Contracts, list \in SignerLists : \E n \in 1..Len(list) :
          InitializeMultisig(c, list, n)
    \/ \E c \in Contracts, approvals \in SUBSET Addresses :
          \/ \E g \in Addresses : SetGuardian(c, approvals, g)
          \/ \E p \in Contracts : LinkFederationPeer(c, approvals, p)
          \/ MultisigPause(c, approvals)
          \/ MultisigUnpause(c, approvals)

ControlSpec == ControlInit /\ [][ControlNext]_controlVars

-----------------------------------------------------------------------------
(* Properties.                                                             *)

\* A contract is paused exactly when it has a PausedAt, which is never in
\* the future: emergency_refund_league unlocks deposits from PausedAt, so a
\* pause without it, or with a later one, would lock the deposits of a
\* stopped contract.  pause, unpause, multisig_pause, multisig_unpause and
\* the two emergency entry points each write the two keys separately.
PauseBookkeeping ==
    \A c \in Contracts :
        /\ isPaused[c] <=> pausedAt[c] # None
        /\ pausedAt[c] <= now

\* The timer the guardian's pause leaves behind always runs from the last
\* engagement, even when it outlives the pause (multisig_unpause keeps it).
TimerFromLastEngagement ==
    \A c \in Contracts :
        emergencyUnpauseAfter[c] # None =>
            /\ engagedAt[c] # None
            /\ emergencyUnpauseAfter[c] = engagedAt[c] + EMERGENCY_UNPAUSE_DELAY

\* An engagement whose timer is gone is at least EMERGENCY_UNPAUSE_DELAY
\* old: only unpause removes the timer, and not before it has run out.
ExpiredBeforeRemoval ==
    \A c \in Contracts :
        engagedAt[c] # None /\ emergencyUnpauseAfter[c] = None =>
            now >= engagedAt[c] + EMERGENCY_UNPAUSE_DELAY

\* Within EMERGENCY_UNPAUSE_DELAY of a guardian's emergency pause, wherever
\* in the federation it was triggered and however often it was repeated while
\* the contract was already paused, nothing ends the pause but
\* multisig_unpause: the admin's unpause waits, the signers' does not look at
\* the timer (an admin who is the only signer needed has both).
EmergencyHold ==
    [][\A c \in Contracts :
          isPaused[c] /\ ~isPaused'[c] /\ engagedAt[c] # None =>
              \/ now >= engagedAt[c] + EMERGENCY_UNPAUSE_DELAY
              \/ \E approvals \in SUBSET Addresses : MultisigUnpause(c, approvals)]_controlVars

\* Pausing a contract that is already paused (a guardian's pause on top of
\* an admin's, or a pause propagated by a peer) never moves PausedAt, so it
\* never restarts the clock of the depositors' emergency refund.
RefundClockKept ==
    [][\A c \in Contracts :
          isPaused[c] /\ isPaused'[c] => pausedAt'[c] = pausedAt[c]]_controlVars

\* The federation is never half paused: whenever an emergency pause is
\* engaged at some contract, there is a source contract whose whole
\* federation, itself included, is paused in the same step with the same
\* timer.
NeverHalfPaused ==
    [][\A c \in Contracts :
          engagedAt'[c] # engagedAt[c] =>
              \E s \in Contracts :
                  /\ guardian[s] # NoAddress
                  /\ c \in {s} \cup peers[s]
                  /\ \A d \in {s} \cup peers[s] :
                        /\ isPaused'[d]
                        /\ emergencyUnpauseAfter'[d]
                              = now + EMERGENCY_UNPAUSE_DELAY]_controlVars

\* The inductive invariant behind the theorems of EscrowProofs.
ControlInv ==
    /\ ControlTypeOK
    /\ PauseBookkeeping
    /\ TimerFromLastEngagement
    /\ ExpiredBeforeRemoval
=============================================================================
