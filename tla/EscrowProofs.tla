---------------------------- MODULE EscrowProofs ----------------------------
(***************************************************************************)
(* Proofs about the escrow contract, one layer after the other: its pause  *)
(* control, for any number of linked contracts, signers and guardians; its *)
(* league partitions, for any set of leagues, any finite set of            *)
(* participants, any entry fee and any page size; and the timelocked       *)
(* decisions of the signers, for any thresholds, proposals, amounts and    *)
(* delay.                                                                  *)
(*                                                                         *)
(* Money is counted per league through cardinalities: a positive deposit   *)
(* is always the entry fee, so what a league holds is the fee times the    *)
(* number of its depositors, and no sum is needed.                         *)
(***************************************************************************)
EXTENDS EscrowGovernance, SumTheorems, FiniteSetTheorems,
        WellFoundedInduction, TLAPS

-----------------------------------------------------------------------------
(* Pausing.                                                                *)

\* The disjuncts of ControlNext, with the parameters they are taken for.
LEMMA ControlSteps ==
  ASSUME ControlNext
  PROVE  \/ Tick
         \/ \E c \in Contracts, a \in Addresses :
              Initialize(c, a) \/ Pause(c, a) \/ Unpause(c, a) \/ EmergencyPause(c, a)
         \/ \E c \in Contracts, list \in SignerLists, n \in Nat :
              InitializeMultisig(c, list, n)
         \/ \E c \in Contracts, approvals \in SUBSET Addresses, g \in Addresses :
              SetGuardian(c, approvals, g)
         \/ \E c, p \in Contracts, approvals \in SUBSET Addresses :
              LinkFederationPeer(c, approvals, p)
         \/ \E c \in Contracts, approvals \in SUBSET Addresses :
              MultisigPause(c, approvals) \/ MultisigUnpause(c, approvals)
<1>1. \A list \in SignerLists : 1..Len(list) \subseteq Nat
  BY ControlAssumption
<1>. QED  BY <1>1 DEF ControlNext

\* A step that changes neither the clock nor the pause state keeps the
\* invariants on pausing.
LEMMA ConfigStep ==
  ASSUME ControlInv, ControlTypeOK', UNCHANGED <<now, pauseVars>>
  PROVE  ControlInv'
BY DEF ControlInv, PauseBookkeeping, TimerFromLastEngagement, ExpiredBeforeRemoval,
       pauseVars

\* A pause that was not on: the admin's or the quorum's.
LEMMA EnterPauseStep ==
  ASSUME ControlInv, NEW c \in Contracts, EnterPause(c)
  PROVE  ControlInv'
<1>. USE DEF ControlInv, ControlTypeOK, EnterPause, configVars, None
<1>1. ControlTypeOK'
  OBVIOUS
<1>2. PauseBookkeeping'
  BY DEF PauseBookkeeping
<1>3. TimerFromLastEngagement'
  BY DEF TimerFromLastEngagement
<1>4. ExpiredBeforeRemoval'
  BY DEF ExpiredBeforeRemoval
<1>. QED  BY <1>1, <1>2, <1>3, <1>4

\* Each action preserves the invariant.
LEMMA ControlInvStep ==
  ASSUME ControlInv, [ControlNext]_controlVars
  PROVE  ControlInv'
<1>. USE ControlAssumption
<1>1. CASE Tick
  BY <1>1 DEF Tick, configVars, pauseVars, ControlInv, ControlTypeOK, PauseBookkeeping,
              TimerFromLastEngagement, ExpiredBeforeRemoval, None
<1>2. ASSUME NEW c \in Contracts, NEW a \in Addresses, Initialize(c, a)
      PROVE  ControlInv'
  <2>1. <<a>> \in Seq(Addresses)
    OBVIOUS
  <2>2. ControlTypeOK'
    BY <1>2, <2>1 DEF Initialize, pauseVars, ControlInv, ControlTypeOK
  <2>. QED  BY <1>2, <2>2, ConfigStep DEF Initialize
<1>3. ASSUME NEW c \in Contracts, NEW list \in SignerLists, NEW n \in Nat,
             InitializeMultisig(c, list, n)
      PROVE  ControlInv'
  <2>1. ControlTypeOK'
    BY <1>3 DEF InitializeMultisig, pauseVars, ControlInv, ControlTypeOK
  <2>. QED  BY <1>3, <2>1, ConfigStep DEF InitializeMultisig
<1>4. ASSUME NEW c \in Contracts, NEW approvals \in SUBSET Addresses, NEW g \in Addresses,
             SetGuardian(c, approvals, g)
      PROVE  ControlInv'
  <2>1. ControlTypeOK'
    BY <1>4 DEF SetGuardian, pauseVars, ControlInv, ControlTypeOK
  <2>. QED  BY <1>4, <2>1, ConfigStep DEF SetGuardian
<1>5. ASSUME NEW c \in Contracts, NEW p \in Contracts, NEW approvals \in SUBSET Addresses,
             LinkFederationPeer(c, approvals, p)
      PROVE  ControlInv'
  <2>1. ControlTypeOK'
    BY <1>5 DEF LinkFederationPeer, pauseVars, ControlInv, ControlTypeOK
  <2>. QED  BY <1>5, <2>1, ConfigStep DEF LinkFederationPeer
<1>6. ASSUME NEW c \in Contracts, NEW a \in Addresses, Pause(c, a)
      PROVE  ControlInv'
  BY <1>6, EnterPauseStep DEF Pause
<1>7. ASSUME NEW c \in Contracts, NEW approvals \in SUBSET Addresses,
             MultisigPause(c, approvals)
      PROVE  ControlInv'
  BY <1>7, EnterPauseStep DEF MultisigPause
<1>8. ASSUME NEW c \in Contracts, NEW a \in Addresses, Unpause(c, a)
      PROVE  ControlInv'
  <2>. USE <1>8 DEF Unpause, configVars, ControlInv, ControlTypeOK, None
  <2>1. ControlTypeOK'
    OBVIOUS
  <2>2. PauseBookkeeping'
    BY DEF PauseBookkeeping
  <2>3. TimerFromLastEngagement'
    BY DEF TimerFromLastEngagement
  <2>4. ExpiredBeforeRemoval'
    BY DEF ExpiredBeforeRemoval, TimerFromLastEngagement
  <2>. QED  BY <2>1, <2>2, <2>3, <2>4
<1>9. ASSUME NEW c \in Contracts, NEW approvals \in SUBSET Addresses,
             MultisigUnpause(c, approvals)
      PROVE  ControlInv'
  <2>. USE <1>9 DEF MultisigUnpause, configVars, ControlInv, ControlTypeOK, None
  <2>1. ControlTypeOK'
    OBVIOUS
  <2>2. PauseBookkeeping'
    BY DEF PauseBookkeeping
  <2>3. TimerFromLastEngagement' /\ ExpiredBeforeRemoval'
    BY DEF TimerFromLastEngagement, ExpiredBeforeRemoval
  <2>. QED  BY <2>1, <2>2, <2>3
<1>10. ASSUME NEW c \in Contracts, NEW a \in Addresses, EmergencyPause(c, a)
       PROVE  ControlInv'
  <2>. DEFINE S == {c} \cup peers[c]
  <2>1. EngageEmergencyPause(S) /\ UNCHANGED <<now, configVars>>
    BY <1>10 DEF EmergencyPause
  <2>. HIDE DEF S
  <2>. USE <2>1 DEF EngageEmergencyPause, configVars, ControlInv, ControlTypeOK, None
  <2>2. ControlTypeOK'
    OBVIOUS
  <2>3. PauseBookkeeping'
    <3>1. SUFFICES ASSUME NEW d \in Contracts
                   PROVE  (isPaused'[d] <=> pausedAt'[d] # None) /\ pausedAt'[d] <= now
      BY DEF PauseBookkeeping
    <3>2. CASE d \in S
      <4>1. isPaused'[d] = TRUE
        BY <3>2
      <4>2. pausedAt'[d] \in {now, pausedAt[d]} /\ pausedAt'[d] # None
        BY <3>2 DEF PauseBookkeeping
      <4>. QED  BY <4>1, <4>2 DEF PauseBookkeeping
    <3>3. CASE d \notin S
      <4>1. isPaused'[d] = isPaused[d] /\ pausedAt'[d] = pausedAt[d]
        BY <3>3
      <4>. QED  BY <4>1 DEF PauseBookkeeping
    <3>. QED  BY <3>2, <3>3
  <2>4. TimerFromLastEngagement'
    BY DEF TimerFromLastEngagement
  <2>5. ExpiredBeforeRemoval'
    BY DEF ExpiredBeforeRemoval
  <2>. QED  BY <2>2, <2>3, <2>4, <2>5
<1>11. CASE UNCHANGED controlVars
  BY <1>11 DEF controlVars, configVars, pauseVars, ControlInv, ControlTypeOK,
               PauseBookkeeping, TimerFromLastEngagement, ExpiredBeforeRemoval
<1>. QED  BY <1>1, <1>2, <1>3, <1>4, <1>5, <1>6, <1>7, <1>8, <1>9, <1>10, <1>11,
             ControlSteps

\* The pause bookkeeping of every contract in a federation is right in
\* every reachable state: PausedAt exists exactly during a pause, and the
\* emergency timer runs from the last engagement.
THEOREM ControlInvariant == ControlSpec => []ControlInv
<1>1. ControlInit => ControlInv
  BY ControlAssumption DEF ControlInit, ControlInv, ControlTypeOK, PauseBookkeeping,
         TimerFromLastEngagement, ExpiredBeforeRemoval, None
<1>2. ControlInv /\ [ControlNext]_controlVars => ControlInv'
  BY ControlInvStep
<1>. QED  BY <1>1, <1>2, PTL DEF ControlSpec

\* Before the delay of an emergency pause has passed, only the signers'
\* multisig_unpause ends the pause; the admin's unpause does not.
THEOREM EmergencyHoldTheorem == ControlSpec => EmergencyHold
<1>. DEFINE Hold == \A c \in Contracts :
          isPaused[c] /\ ~isPaused'[c] /\ engagedAt[c] # None =>
              \/ now >= engagedAt[c] + EMERGENCY_UNPAUSE_DELAY
              \/ \E approvals \in SUBSET Addresses : MultisigUnpause(c, approvals)
<1>1. ControlInv /\ [ControlNext]_controlVars => Hold
  <2>. SUFFICES ASSUME ControlInv, [ControlNext]_controlVars, NEW c \in Contracts,
                       isPaused[c], ~isPaused'[c], engagedAt[c] # None
                PROVE  \/ now >= engagedAt[c] + EMERGENCY_UNPAUSE_DELAY
                       \/ \E approvals \in SUBSET Addresses : MultisigUnpause(c, approvals)
    OBVIOUS
  <2>0. isPaused \in [Contracts -> BOOLEAN]
    BY DEF ControlInv, ControlTypeOK
  <2>1. ASSUME NEW d \in Contracts, NEW a \in Addresses, Unpause(d, a)
        PROVE  now >= engagedAt[c] + EMERGENCY_UNPAUSE_DELAY
    <3>1. d = c
      BY <2>0, <2>1 DEF Unpause
    <3>. QED  BY <2>1, <3>1 DEF ControlInv, TimerFromLastEngagement, ExpiredBeforeRemoval, Unpause
  <2>2. ASSUME NEW d \in Contracts, NEW approvals \in SUBSET Addresses,
               MultisigUnpause(d, approvals)
        PROVE  MultisigUnpause(c, approvals)
    <3>1. d = c
      BY <2>0, <2>2 DEF MultisigUnpause
    <3>. QED  BY <2>2, <3>1
  <2>3. ASSUME NEW d \in Contracts, EnterPause(d) PROVE FALSE
    BY <2>0, <2>3 DEF EnterPause
  <2>4. ASSUME NEW S, EngageEmergencyPause(S) PROVE FALSE
    BY <2>4 DEF EngageEmergencyPause
  <2>5. isPaused' # isPaused
    OBVIOUS
  <2>. QED
    BY <2>1, <2>2, <2>3, <2>4, <2>5
       DEF ControlNext, controlVars, pauseVars, Tick, Initialize, Pause, EmergencyPause,
           InitializeMultisig, SetGuardian, LinkFederationPeer, MultisigPause
<1>. QED  BY <1>1, ControlInvariant, PTL DEF ControlSpec, EmergencyHold

\* No step moves PausedAt of a contract that stays paused.
THEOREM RefundClockTheorem == ControlSpec => RefundClockKept
<1>1. ControlInv /\ [ControlNext]_controlVars =>
        \A c \in Contracts : isPaused[c] /\ isPaused'[c] => pausedAt'[c] = pausedAt[c]
  <2>1. SUFFICES ASSUME ControlInv, [ControlNext]_controlVars,
                        NEW d \in Contracts, isPaused[d], isPaused'[d]
                 PROVE  pausedAt'[d] = pausedAt[d]
    OBVIOUS
  <2>2. CASE UNCHANGED pausedAt
    BY <2>2
  <2>3. ASSUME NEW c \in Contracts, EnterPause(c)
        PROVE  pausedAt'[d] = pausedAt[d]
    BY <2>1, <2>3 DEF EnterPause, ControlInv, ControlTypeOK
  <2>4. ASSUME NEW c \in Contracts, NEW a \in Addresses, Unpause(c, a)
        PROVE  pausedAt'[d] = pausedAt[d]
    BY <2>1, <2>4 DEF Unpause, ControlInv, ControlTypeOK
  <2>5. ASSUME NEW c \in Contracts, NEW approvals \in SUBSET Addresses,
               MultisigUnpause(c, approvals)
        PROVE  pausedAt'[d] = pausedAt[d]
    BY <2>1, <2>5 DEF MultisigUnpause, ControlInv, ControlTypeOK
  <2>6. ASSUME NEW c \in Contracts, NEW a \in Addresses, EmergencyPause(c, a)
        PROVE  pausedAt'[d] = pausedAt[d]
    BY <2>1, <2>6 DEF EmergencyPause, EngageEmergencyPause
  <2>7. CASE \/ Tick
             \/ \E c \in Contracts, a \in Addresses : Initialize(c, a)
             \/ \E c \in Contracts, list \in SignerLists, n \in Nat :
                  InitializeMultisig(c, list, n)
             \/ \E c \in Contracts, approvals \in SUBSET Addresses, g \in Addresses :
                  SetGuardian(c, approvals, g)
             \/ \E c, p \in Contracts, approvals \in SUBSET Addresses :
                  LinkFederationPeer(c, approvals, p)
             \/ UNCHANGED controlVars
    BY <2>2, <2>7 DEF Tick, Initialize, InitializeMultisig, SetGuardian,
                      LinkFederationPeer, controlVars, pauseVars
  <2>. QED  BY <2>1, <2>3, <2>4, <2>5, <2>6, <2>7, ControlSteps DEF Pause, MultisigPause
<1>. QED  BY <1>1, ControlInvariant, PTL DEF ControlSpec, RefundClockKept

\* An emergency pause reaches the whole federation of its source or nobody.
THEOREM NeverHalfPausedTheorem == ControlSpec => NeverHalfPaused
<1>. DEFINE Whole(c) ==
        engagedAt'[c] # engagedAt[c] =>
              \E s \in Contracts :
                  /\ guardian[s] # NoAddress
                  /\ c \in {s} \cup peers[s]
                  /\ \A d \in {s} \cup peers[s] :
                        /\ isPaused'[d]
                        /\ emergencyUnpauseAfter'[d]
                              = now + EMERGENCY_UNPAUSE_DELAY
<1>1. ControlInv /\ [ControlNext]_controlVars => \A c \in Contracts : Whole(c)
  <2>1. SUFFICES ASSUME ControlInv, [ControlNext]_controlVars, NEW c \in Contracts,
                        engagedAt'[c] # engagedAt[c]
                 PROVE  Whole(c)
    OBVIOUS
  <2>2. PICK s \in Contracts, a \in Addresses : EmergencyPause(s, a)
    BY <2>1, ControlSteps DEF Tick, Initialize, Pause, EnterPause, Unpause,
         InitializeMultisig, SetGuardian, LinkFederationPeer, MultisigPause,
         MultisigUnpause, controlVars, pauseVars
  <2>3. guardian[s] # NoAddress
    BY <2>2 DEF EmergencyPause
  <2>4. EngageEmergencyPause({s} \cup peers[s])
    BY <2>2 DEF EmergencyPause
  <2>5. c \in {s} \cup peers[s]
    BY <2>1, <2>4 DEF EngageEmergencyPause
  <2>6. {s} \cup peers[s] \subseteq Contracts
    BY <2>1 DEF ControlInv, ControlTypeOK
  <2>7. ASSUME NEW d \in {s} \cup peers[s]
        PROVE  isPaused'[d] /\ emergencyUnpauseAfter'[d] = now + EMERGENCY_UNPAUSE_DELAY
    <3>1. isPaused'[d] = TRUE
      BY <2>4, <2>6 DEF EngageEmergencyPause
    <3>2. emergencyUnpauseAfter'[d] = now + EMERGENCY_UNPAUSE_DELAY
      BY <2>4, <2>6 DEF EngageEmergencyPause
    <3>. QED  BY <3>1, <3>2
  <2>. QED  BY <2>3, <2>5, <2>7
<1>. QED  BY <1>1, ControlInvariant, PTL DEF ControlSpec, NeverHalfPaused

-----------------------------------------------------------------------------
(* Facts about the operators.                                              *)

\* A platform fee within the cap leaves a prize pool that is not negative.
LEMMA FeeWithinTotal ==
  ASSUME NEW total \in Nat, NEW fee \in Int, fee <= MaxPlatformFee(total)
  PROVE  fee <= total
BY DEF MaxPlatformFee

\* The page a participant is listed on.
LEMMA PageIndex ==
  ASSUME NEW n \in Nat
  PROVE  n \div PARTICIPANTS_PER_PAGE \in Nat
<1>1. PARTICIPANTS_PER_PAGE \in Nat \ {0}
  BY LeagueAssumption
<1>. QED  BY <1>1

\* Multiplication by a count that grows or shrinks by one, or is split.
LEMMA TimesSucc ==
  ASSUME NEW f \in Nat, NEW n \in Nat
  PROVE  f * (n + 1) = f * n + f
OBVIOUS

\* A product with a sum of two counts.
LEMMA TimesSplit ==
  ASSUME NEW f \in Nat, NEW m \in Nat, NEW n \in Nat
  PROVE  f * (m + n) = f * m + f * n
OBVIOUS

\* A product of counts is a count.
LEMMA TimesNat ==
  ASSUME NEW f \in Nat, NEW n \in Nat
  PROVE  f * n \in Nat
OBVIOUS

\* A positive count has a predecessor.
LEMMA Predecessor ==
  ASSUME NEW c \in Nat, c >= 1
  PROVE  \E n \in Nat : c = n + 1
<1>1. c - 1 \in Nat /\ c = (c - 1) + 1
  OBVIOUS
<1>. QED  BY <1>1

\* Depositors and members are finite and depositors are members.
LEMMA MembersFinite ==
  ASSUME LeagueTypeOK, NEW l \in LeagueIds
  PROVE  /\ IsFiniteSet(Members(l)) /\ Cardinality(Members(l)) \in Nat
         /\ IsFiniteSet(Depositors(l)) /\ Cardinality(Depositors(l)) \in Nat
         /\ Depositors(l) \subseteq Members(l)
         /\ Cardinality(Depositors(l)) <= Cardinality(Members(l))
<1>1. Members(l) \subseteq Participants /\ Depositors(l) \subseteq Participants
  BY DEF Members, Depositors
<1>2. Depositors(l) \subseteq Members(l)
  BY DEF Members, Depositors, HasDeposit, None, LeagueTypeOK
<1>3. IsFiniteSet(Members(l)) /\ IsFiniteSet(Depositors(l))
  BY <1>1, FS_Subset, LeagueAssumption
<1>. QED  BY <1>2, <1>3, FS_Subset, FS_CardinalityType

\* What LeagueAccounted reads of a league.
LeagueFields(l) ==
  <<status[l], entry_fee[l], total_deposited[l], participant_count[l],
    deposits[l], held[l]>>

\* A step that leaves the fields of a league alone keeps its accounting.
LEMMA AccountedFrame ==
  ASSUME NEW l \in LeagueIds, LeagueAccounted(l), UNCHANGED LeagueFields(l)
  PROVE  LeagueAccounted(l)'
<1>1. Depositors(l)' = Depositors(l) /\ Members(l)' = Members(l)
  BY DEF LeagueFields, Depositors, Members, HasDeposit
<1>. QED  BY <1>1 DEF LeagueFields, LeagueAccounted

-----------------------------------------------------------------------------
(* The league part of the invariant, apart from the pause control.         *)

LedgerInv ==
    /\ LeagueTypeOK
    /\ DepositIsFee
    /\ DepositAccounting
    /\ FreezeEndsAtSettlement

\* create_league starts a league with nothing paid in and nothing held.
LEMMA CreateLeagueStep ==
  ASSUME LedgerInv, NEW l \in LeagueIds, NEW fee \in EntryFees, CreateLeague(l, fee)
  PROVE  LedgerInv'
<1>. USE DEF CreateLeague, LedgerInv, LeagueTypeOK, Exists, prizeState, money
<1>1. fee \in Nat
  BY LeagueAssumption
<1>2. LeagueTypeOK'
  BY <1>1 DEF Statuses
<1>3. DepositIsFee'
  BY DEF DepositIsFee
<1>4. LeagueAccounted(l)'
  <2>1. Depositors(l)' = {} /\ Members(l)' = {}
    BY DEF DepositIsFee, Depositors, Members, HasDeposit, None
  <2>2. fee * 0 = 0
    BY <1>1
  <2>. QED  BY <1>1, <2>1, <2>2, FS_EmptySet DEF DepositAccounting, LeagueAccounted
<1>5. ASSUME NEW m \in LeagueIds \ {l} PROVE LeagueAccounted(m)'
  <2>1. UNCHANGED LeagueFields(m)
    BY <1>5 DEF LeagueFields
  <2>. QED  BY <1>5, <2>1, AccountedFrame DEF DepositAccounting
<1>6. DepositAccounting'
  BY <1>4, <1>5 DEF DepositAccounting
<1>7. FreezeEndsAtSettlement'
  BY DEF FreezeEndsAtSettlement
<1>. QED  BY <1>2, <1>3, <1>6, <1>7

\* deposit adds one entry fee to the total and to what is held, and one
\* depositor and member.
LEMMA DepositStep ==
  ASSUME LedgerInv, NEW l \in LeagueIds, NEW p \in Participants, Deposit(l, p)
  PROVE  LedgerInv'
<1>. USE DEF Deposit, LedgerInv, LeagueTypeOK, prizeState
<1>0. participant_count[l] \div PARTICIPANTS_PER_PAGE \in Nat
  BY PageIndex
<1>1. LeagueTypeOK'
  BY <1>0
<1>2. DepositIsFee'
  BY DEF DepositIsFee, Exists
<1>3. LeagueAccounted(l)'
  <2>1. deposits[l][p] = None /\ deposits'[l][p] = entry_fee[l]
        /\ \A q \in Participants \ {p} : deposits'[l][q] = deposits[l][q]
    BY DEF HasDeposit
  <2>2. Members(l)' = Members(l) \cup {p} /\ p \notin Members(l)
    BY <2>1 DEF Members, HasDeposit, None
  <2>3. Cardinality(Members(l)') = Cardinality(Members(l)) + 1
    BY <2>2, MembersFinite, FS_AddElement, ZenonT(60)
  <2>4. total_deposited'[l] = entry_fee[l] * Cardinality(Depositors(l)')
    <3>1. CASE entry_fee[l] = 0
      <4>1. Depositors(l)' = Depositors(l)
        BY <2>1, <3>1 DEF Depositors, None
      <4>. QED  BY <3>1, <4>1, MembersFinite DEF DepositAccounting, LeagueAccounted
    <3>2. CASE entry_fee[l] > 0
      <4>1. Depositors(l)' = Depositors(l) \cup {p} /\ p \notin Depositors(l)
        BY <2>1, <3>2 DEF Depositors, None
      <4>2. Cardinality(Depositors(l)') = Cardinality(Depositors(l)) + 1
        BY <4>1, MembersFinite, FS_AddElement, ZenonT(60)
      <4>. QED  BY <4>2, MembersFinite, TimesSucc DEF DepositAccounting, LeagueAccounted
    <3>. QED  BY <3>1, <3>2
  <2>. QED  BY <2>3, <2>4 DEF DepositAccounting, LeagueAccounted
<1>4. ASSUME NEW m \in LeagueIds \ {l} PROVE LeagueAccounted(m)'
  <2>1. UNCHANGED LeagueFields(m)
    BY <1>4 DEF LeagueFields
  <2>. QED  BY <1>4, <2>1, AccountedFrame DEF DepositAccounting
<1>5. DepositAccounting'
  BY <1>3, <1>4 DEF DepositAccounting
<1>6. FreezeEndsAtSettlement'
  BY DEF FreezeEndsAtSettlement
<1>. QED  BY <1>1, <1>2, <1>5, <1>6

\* A depositor of a league that is not settled is owed the entry fee, and
\* the counters cover it.
LEMMA DepositorCovered ==
  ASSUME LedgerInv, NEW l \in LeagueIds, NEW p \in Participants,
         status[l] \in {"Upcoming", "Cancelled"}, deposits[l][p] > 0
  PROVE  /\ deposits[l][p] = entry_fee[l]
         /\ p \in Depositors(l)
         /\ Cardinality(Depositors(l)) >= 1
         /\ held[l] >= entry_fee[l]
         /\ total_deposited[l] >= entry_fee[l]
         /\ participant_count[l] >= 1
<1>. USE DEF LedgerInv, LeagueTypeOK
<1>1. deposits[l][p] = entry_fee[l] /\ entry_fee[l] \in Nat
  BY DEF DepositIsFee, None
<1>2. p \in Depositors(l)
  BY DEF Depositors
<1>3. Cardinality(Depositors(l)) \in Nat /\ Cardinality(Depositors(l)) >= 1
  <2>1. Cardinality(Depositors(l)) # 0
    BY <1>2, MembersFinite, FS_EmptySet
  <2>. QED  BY <2>1, MembersFinite
<1>4. PICK n \in Nat : Cardinality(Depositors(l)) = n + 1
  BY <1>3, Predecessor, Zenon
<1>5. entry_fee[l] * Cardinality(Depositors(l)) = entry_fee[l] * n + entry_fee[l]
      /\ entry_fee[l] * n \in Nat
  BY <1>1, <1>4, TimesSucc, TimesNat
<1>6. held[l] >= entry_fee[l] /\ total_deposited[l] >= entry_fee[l]
  BY <1>1, <1>5 DEF DepositAccounting, LeagueAccounted
<1>7. participant_count[l] >= 1
  BY <1>3, MembersFinite DEF DepositAccounting, LeagueAccounted
<1>. QED  BY <1>1, <1>2, <1>3, <1>6, <1>7

\* refund_deposit and emergency_refund_league take one entry fee and one
\* member off again, whatever the league's status allows.
LEMMA ReturnDepositStep ==
  ASSUME LedgerInv, NEW l \in LeagueIds, NEW p \in Participants, ReturnDeposit(l, p)
  PROVE  LedgerInv'
<1>. USE DEF ReturnDeposit, TransferOut, LedgerInv, LeagueTypeOK, Exists, prizeState
<1>1. status[l] \in {"Upcoming", "Cancelled"}
  BY DEF Statuses
<1>2. /\ deposits[l][p] = entry_fee[l] /\ p \in Depositors(l)
      /\ total_deposited[l] >= entry_fee[l] /\ participant_count[l] >= 1
  BY <1>1, DepositorCovered
<1>3. LeagueTypeOK'
  <2>1. total_deposited[l] - deposits[l][p] \in Nat /\ participant_count[l] - 1 \in Nat
    BY <1>2
  <2>2. total_deposited' \in [LeagueIds -> Nat] /\ participant_count' \in [LeagueIds -> Nat]
    BY <2>1
  <2>3. deposits' \in [LeagueIds -> [Participants -> Nat \cup {None}]]
    OBVIOUS
  <2>4. balance' \in Int /\ held' \in [LeagueIds -> Int]
    BY <1>2
  <2>. QED  BY <2>2, <2>3, <2>4
<1>4. DepositIsFee'
  BY DEF DepositIsFee
<1>5. LeagueAccounted(l)'
  <2>1. \A q \in Participants : deposits'[l][q] = IF q = p THEN None ELSE deposits[l][q]
    OBVIOUS
  <2>2. Depositors(l)' = Depositors(l) \ {p} /\ Members(l)' = Members(l) \ {p}
    BY <2>1 DEF Depositors, Members, HasDeposit, None
  <2>3. p \in Members(l)
    BY <1>2, MembersFinite
  <2>4. /\ Cardinality(Depositors(l)') = Cardinality(Depositors(l)) - 1
        /\ Cardinality(Members(l)') = Cardinality(Members(l)) - 1
    BY <1>2, <2>2, <2>3, MembersFinite, FS_RemoveElement
  <2>5. PICK n \in Nat : Cardinality(Depositors(l)) = n + 1
    <3>1. Cardinality(Depositors(l)) \in Nat /\ Cardinality(Depositors(l)) >= 1
      BY <1>1, DepositorCovered, MembersFinite
    <3>. QED  BY <3>1, Predecessor, Zenon
  <2>6. entry_fee[l] * Cardinality(Depositors(l)) = entry_fee[l] * n + entry_fee[l]
    BY <2>5, TimesSucc
  <2>7. Cardinality(Depositors(l)') = n
    BY <2>4, <2>5
  <2>8. held'[l] = held[l] - entry_fee[l] /\ total_deposited'[l] = total_deposited[l] - entry_fee[l]
        /\ participant_count'[l] = participant_count[l] - 1
    BY <1>2
  <2>9. entry_fee[l] * n \in Nat
    BY TimesNat
  <2>10. CASE status[l] = "Upcoming"
    BY <2>4, <2>6, <2>7, <2>8, <2>9, <2>10, MembersFinite DEF DepositAccounting, LeagueAccounted
  <2>11. CASE status[l] = "Cancelled"
    BY <2>5, <2>6, <2>7, <2>8, <2>9, <2>11 DEF DepositAccounting, LeagueAccounted
  <2>. QED  BY <1>1, <2>10, <2>11
<1>6. ASSUME NEW m \in LeagueIds \ {l} PROVE LeagueAccounted(m)'
  <2>1. UNCHANGED LeagueFields(m)
    BY <1>6 DEF LeagueFields
  <2>. QED  BY <1>6, <2>1, AccountedFrame DEF DepositAccounting
<1>7. DepositAccounting'
  BY <1>5, <1>6 DEF DepositAccounting
<1>8. FreezeEndsAtSettlement'
  BY DEF FreezeEndsAtSettlement
<1>. QED  BY <1>3, <1>4, <1>7, <1>8

\* claim_refund of a cancelled league zeroes the deposit and lowers the
\* total, which still covers the other depositors.
LEMMA ClaimRefundStep ==
  ASSUME LedgerInv, NEW l \in LeagueIds, NEW p \in Participants, ClaimRefund(l, p)
  PROVE  LedgerInv'
<1>. USE DEF ClaimRefund, TransferOut, LedgerInv, LeagueTypeOK, Exists, prizeState
<1>2. /\ deposits[l][p] = entry_fee[l] /\ p \in Depositors(l)
      /\ total_deposited[l] >= entry_fee[l]
  BY DepositorCovered
<1>3. LeagueTypeOK'
  <2>1. total_deposited[l] - deposits[l][p] \in Nat
    BY <1>2
  <2>2. total_deposited' \in [LeagueIds -> Nat]
    BY <2>1
  <2>3. deposits' \in [LeagueIds -> [Participants -> Nat \cup {None}]]
    OBVIOUS
  <2>4. balance' \in Int /\ held' \in [LeagueIds -> Int]
    BY <1>2
  <2>. QED  BY <2>2, <2>3, <2>4
<1>4. DepositIsFee'
  BY DEF DepositIsFee
<1>5. LeagueAccounted(l)'
  <2>1. \A q \in Participants : deposits'[l][q] = IF q = p THEN 0 ELSE deposits[l][q]
    OBVIOUS
  <2>2. Depositors(l)' = Depositors(l) \ {p}
    BY <2>1 DEF Depositors
  <2>4. Cardinality(Depositors(l)') = Cardinality(Depositors(l)) - 1
    BY <1>2, <2>2, MembersFinite, FS_RemoveElement
  <2>5. PICK n \in Nat : Cardinality(Depositors(l)) = n + 1
    <3>1. Cardinality(Depositors(l)) \in Nat /\ Cardinality(Depositors(l)) >= 1
      BY DepositorCovered, MembersFinite
    <3>. QED  BY <3>1, Predecessor, Zenon
  <2>6. entry_fee[l] * Cardinality(Depositors(l)) = entry_fee[l] * n + entry_fee[l]
    BY <2>5, TimesSucc
  <2>7. Cardinality(Depositors(l)') = n
    BY <2>4, <2>5
  <2>8. held'[l] = held[l] - entry_fee[l] /\ total_deposited'[l] = total_deposited[l] - entry_fee[l]
    BY <1>2
  <2>9. entry_fee[l] * n \in Nat
    BY TimesNat
  <2>. QED  BY <2>5, <2>6, <2>7, <2>8, <2>9 DEF DepositAccounting, LeagueAccounted
<1>6. ASSUME NEW m \in LeagueIds \ {l} PROVE LeagueAccounted(m)'
  <2>1. UNCHANGED LeagueFields(m)
    BY <1>6 DEF LeagueFields
  <2>. QED  BY <1>6, <2>1, AccountedFrame DEF DepositAccounting
<1>7. DepositAccounting'
  BY <1>5, <1>6 DEF DepositAccounting
<1>8. FreezeEndsAtSettlement'
  BY DEF FreezeEndsAtSettlement
<1>. QED  BY <1>3, <1>4, <1>7, <1>8

\* refund and resolve_dispute_refund: the deposits of the listed leave, the
\* counters stay, and the rest of the depositors are still covered.
LEMMA RefundAllStep ==
  ASSUME LedgerInv, NEW l \in LeagueIds, NEW listed \in SUBSET Participants,
         RefundAll(l, listed),
         frozen' = frozen \/ frozen' = [frozen EXCEPT ![l] = FALSE]
  PROVE  LedgerInv'
<1>. DEFINE paid == listed \cap Depositors(l)
            rest == Depositors(l) \ listed
<1>. USE DEF RefundAll, TransferOut, LedgerInv, LeagueTypeOK, Exists, prizeState
<1>1. Cardinality(paid) \in Nat /\ Cardinality(rest) \in Nat
      /\ Cardinality(Depositors(l)) = Cardinality(paid) + Cardinality(rest)
  <2>1. IsFiniteSet(Depositors(l)) /\ Cardinality(Depositors(l)) \in Nat
    BY MembersFinite
  <2>2. Depositors(l) \cap listed = paid
    OBVIOUS
  <2>3. IsFiniteSet(rest) /\ Cardinality(rest) = Cardinality(Depositors(l)) - Cardinality(paid)
    BY <2>1, <2>2, FS_Difference, ZenonT(60)
  <2>4. IsFiniteSet(paid)
    BY <2>1, FS_Intersection
  <2>. QED  BY <2>1, <2>3, <2>4, FS_CardinalityType
<1>2. entry_fee[l] * Cardinality(paid) \in Nat /\ entry_fee[l] * Cardinality(rest) \in Nat
  BY <1>1, TimesNat
<1>3. entry_fee[l] * Cardinality(Depositors(l))
        = entry_fee[l] * Cardinality(paid) + entry_fee[l] * Cardinality(rest)
  BY <1>1, TimesSplit
<1>4. deposits' = [deposits EXCEPT ![l] =
                     [p \in Participants |-> IF p \in listed THEN None ELSE deposits[l][p]]]
  OBVIOUS
<1>5. LeagueTypeOK'
  <2>1. deposits' \in [LeagueIds -> [Participants -> Nat \cup {None}]]
    BY <1>4
  <2>2. status' \in [LeagueIds -> Statuses]
    BY DEF Statuses
  <2>3. balance' \in Int /\ held' \in [LeagueIds -> Int]
    BY <1>2
  <2>4. frozen' \in [LeagueIds -> BOOLEAN]
    OBVIOUS
  <2>. QED  BY <2>1, <2>2, <2>3, <2>4
<1>6. DepositIsFee'
  BY <1>4 DEF DepositIsFee
<1>7. LeagueAccounted(l)'
  <2>1. Depositors(l)' = rest
    BY <1>4 DEF Depositors, None
  <2>2. held'[l] = held[l] - entry_fee[l] * Cardinality(paid)
    BY <1>2
  <2>3. status[l] \in {"Upcoming", "Cancelled"} /\ status'[l] = "Cancelled"
    BY DEF Statuses
  <2>4. participant_count[l] >= Cardinality(Depositors(l))
        /\ held[l] = entry_fee[l] * Cardinality(Depositors(l))
        /\ total_deposited[l] >= held[l]
    BY <2>3, MembersFinite DEF DepositAccounting, LeagueAccounted
  <2>. QED  BY <1>1, <1>2, <1>3, <2>1, <2>2, <2>3, <2>4 DEF LeagueAccounted
<1>8. ASSUME NEW m \in LeagueIds \ {l} PROVE LeagueAccounted(m)'
  <2>1. UNCHANGED LeagueFields(m)
    BY <1>4, <1>8 DEF LeagueFields
  <2>. QED  BY <1>8, <2>1, AccountedFrame DEF DepositAccounting
<1>9. DepositAccounting'
  BY <1>7, <1>8 DEF DepositAccounting
<1>10. FreezeEndsAtSettlement'
  BY DEF FreezeEndsAtSettlement
<1>. QED  BY <1>5, <1>6, <1>9, <1>10

\* cancel_league keeps every deposit, so the accounts of an open league are
\* those of a cancelled one.
LEMMA CancelLeagueStep ==
  ASSUME LedgerInv, NEW l \in LeagueIds, CancelLeague(l)
  PROVE  LedgerInv'
<1>. USE DEF CancelLeague, LedgerInv, LeagueTypeOK, Exists, prizeState, money
<1>1. LeagueTypeOK'
  BY DEF Statuses
<1>2. DepositIsFee'
  BY DEF DepositIsFee
<1>3. LeagueAccounted(l)'
  <2>1. Depositors(l)' = Depositors(l)
    BY DEF Depositors
  <2>2. status[l] \in {"Upcoming", "Cancelled"} /\ status'[l] = "Cancelled"
    BY DEF Statuses
  <2>. QED  BY <2>1, <2>2, MembersFinite DEF DepositAccounting, LeagueAccounted
<1>4. ASSUME NEW m \in LeagueIds \ {l} PROVE LeagueAccounted(m)'
  <2>1. UNCHANGED LeagueFields(m)
    BY <1>4 DEF LeagueFields
  <2>. QED  BY <1>4, <2>1, AccountedFrame DEF DepositAccounting
<1>5. DepositAccounting'
  BY <1>3, <1>4 DEF DepositAccounting
<1>6. FreezeEndsAtSettlement'
  BY DEF FreezeEndsAtSettlement
<1>. QED  BY <1>1, <1>2, <1>5, <1>6

\* freeze_league and unfreeze_league touch no money, and only unsettled
\* leagues are frozen.
LEMMA FreezeStep ==
  ASSUME LedgerInv, NEW l \in LeagueIds, NEW a \in Addresses,
         FreezeLeague(l, a) \/ UnfreezeLeague(l, a)
  PROVE  LedgerInv'
<1>. USE DEF FreezeLeague, UnfreezeLeague, LedgerInv, LeagueTypeOK, leagueState,
             prizeState, money
<1>1. LeagueTypeOK'
  OBVIOUS
<1>2. DepositIsFee'
  BY DEF DepositIsFee, Exists
<1>3. DepositAccounting'
  <2>1. SUFFICES ASSUME NEW m \in LeagueIds PROVE LeagueAccounted(m)'
    BY DEF DepositAccounting
  <2>2. UNCHANGED LeagueFields(m)
    BY DEF LeagueFields
  <2>. QED  BY <2>2, AccountedFrame DEF DepositAccounting
<1>4. FreezeEndsAtSettlement'
  BY ZenonT(60) DEF FreezeEndsAtSettlement
<1>. QED  BY <1>1, <1>2, <1>3, <1>4

-----------------------------------------------------------------------------
(* Settlement and claims.                                                  *)

\* The indices at which a winner is written include a last one.
LEMMA LastIndex ==
  ASSUME NEW n \in Int, NEW S \in SUBSET (1..n), S # {}
  PROVE  \E i \in S : \A j \in S : j <= i
<1>. DEFINE R == OpToRel(<, Nat)
            T == {n - i : i \in S}
<1>1. T \subseteq Nat /\ T # {}
  <2>1. \A i \in S : n - i \in Nat
    OBVIOUS
  <2>2. PICK i \in S : TRUE
    OBVIOUS
  <2>3. n - i \in T
    BY <2>2
  <2>. QED  BY <2>1, <2>3
<1>2. PICK x \in T : \A y \in T : ~ (<<y, x>> \in R)
  <2>. HIDE DEF T, R
  <2>. QED  BY <1>1, NatLessThanWellFounded, WFMin DEF R
<1>3. PICK i \in S : x = n - i
  BY <1>2
<1>4. ASSUME NEW j \in S PROVE j <= i
  <2>1. n - j \in T /\ n - j \in Nat /\ x \in Nat
    BY <1>1, <1>2
  <2>2. ~ (n - j < x)
    <3>1. <<n - j, x>> \notin R
      BY <1>2, <2>1
    <3>. QED  BY <2>1, <3>1 DEF OpToRel
  <2>. QED  BY <1>3, <2>1, <2>2
<1>. QED  BY <1>4

\* Prizes written by a settlement are amounts.
LEMMA WrittenPrizesType ==
  ASSUME LeagueTypeOK, NEW l \in LeagueIds, NEW winners \in WinnerLists, NEW amounts,
         \A i \in DOMAIN winners : amounts[i] \in Nat
  PROVE  WrittenPrizes(l, winners, amounts) \in [Participants -> Nat \cup {None}]
<1>1. PICK n \in 1..MaxWinners : winners \in [1..n -> Participants]
  BY DEF WinnerLists
<1>2. SUFFICES ASSUME NEW p \in Participants
               PROVE  WrittenPrizes(l, winners, amounts)[p] \in Nat \cup {None}
  BY DEF WrittenPrizes
<1>. DEFINE wins == {i \in DOMAIN winners : winners[i] = p /\ amounts[i] > 0}
<1>3. CASE wins = {}
  BY <1>3 DEF WrittenPrizes, LeagueTypeOK
<1>4. CASE wins # {}
  <2>1. wins \in SUBSET (1..n) /\ n \in Int
    BY <1>1
  <2>2. \E i \in wins : \A j \in wins : j <= i
    <3>. HIDE DEF wins
    <3>. QED  BY <1>4, <2>1, LastIndex
  <2>3. (CHOOSE i \in wins : \A j \in wins : j <= i) \in wins
    BY <2>2
  <2>4. amounts[CHOOSE i \in wins : \A j \in wins : j <= i] \in Nat
    BY <2>3
  <2>. QED  BY <1>4, <2>4 DEF WrittenPrizes
<1>. QED  BY <1>3, <1>4

\* settle_internal ends an open league that is not frozen, and writes prizes
\* that are natural numbers.
LEMMA SettleInternalStep ==
  ASSUME LedgerInv, NEW l \in LeagueIds, NEW approvals, NEW winners \in WinnerLists,
         NEW amounts, NEW platformFee \in Int, NEW cut \in Int, NEW paysAffiliate \in BOOLEAN,
         SettleInternal(l, approvals, winners, amounts, platformFee, cut, paysAffiliate),
         \/ ~frozen[l] /\ frozen' = frozen
         \/ frozen' = [frozen EXCEPT ![l] = FALSE]
  PROVE  LedgerInv'
<1>. DEFINE written == WrittenPrizes(l, winners, amounts)
            fees == IF paysAffiliate THEN platformFee ELSE platformFee - cut
<1>1. /\ status[l] = "Upcoming"
      /\ status' = [status EXCEPT ![l] = "Settled"]
      /\ claimable' = [claimable EXCEPT ![l] = written]
      /\ balance' = balance - fees /\ held' = [held EXCEPT ![l] = @ - fees]
      /\ UNCHANGED <<entry_fee, total_deposited, participant_count, deposits, pages,
                     leaves, hasRoot, claimed>>
  BY DEF SettleInternal, TransferOut
<1>2. written \in [Participants -> Nat \cup {None}]
  BY WrittenPrizesType DEF SettleInternal, LedgerInv
<1>3. fees \in Int
  OBVIOUS
<1>. HIDE DEF written, fees
<1>. USE DEF LedgerInv, LeagueTypeOK
<1>4. frozen' \in [LeagueIds -> BOOLEAN] /\ frozen'[l] = FALSE
      /\ \A m \in LeagueIds \ {l} : frozen'[m] = frozen[m]
  OBVIOUS
<1>5. LeagueTypeOK'
  <2>1. status' \in [LeagueIds -> Statuses]
    BY <1>1 DEF Statuses
  <2>2. claimable' \in [LeagueIds -> [Participants -> Nat \cup {None}]]
    BY <1>1, <1>2
  <2>3. balance' \in Int /\ held' \in [LeagueIds -> Int]
    BY <1>1, <1>3
  <2>. QED  BY <1>1, <1>4, <2>1, <2>2, <2>3
<1>6. DepositIsFee'
  BY <1>1 DEF DepositIsFee, Exists
<1>7. LeagueAccounted(l)'
  BY <1>1 DEF LeagueAccounted
<1>8. ASSUME NEW m \in LeagueIds \ {l} PROVE LeagueAccounted(m)'
  <2>1. UNCHANGED LeagueFields(m)
    BY <1>1, <1>3, <1>8 DEF LeagueFields
  <2>. QED  BY <1>8, <2>1, AccountedFrame DEF DepositAccounting
<1>9. DepositAccounting'
  BY <1>7, <1>8 DEF DepositAccounting
<1>10. FreezeEndsAtSettlement'
  BY <1>1, <1>2, <1>4 DEF FreezeEndsAtSettlement
<1>. QED  BY <1>5, <1>6, <1>9, <1>10

\* Every entry point that ends in settle_internal inherits it.
LEMMA SettlementsStep ==
  ASSUME LedgerInv, NEW l \in LeagueIds, Settlements(l)
  PROVE  LedgerInv'
<1>1. PICK winners \in WinnerLists, fee \in PlatformFees :
        \/ \E approvals \in SUBSET Addresses : Settle(l, approvals, winners, fee)
        \/ \E a \in Addresses :
              \/ \E cut \in AffiliateCuts, paysAffiliate \in BOOLEAN :
                    SettleWithAffiliate(l, a, winners, fee, cut, paysAffiliate)
              \/ \E bps \in Distributions : SettleWithDistribution(l, a, winners, fee, bps)
              \/ ResolveDisputePayout(l, a, winners, fee)
  BY DEF Settlements
<1>2. fee \in Int /\ 0 \in Int /\ FALSE \in BOOLEAN
  BY LeagueAssumption
<1>3. ASSUME NEW approvals \in SUBSET Addresses, Settle(l, approvals, winners, fee)
      PROVE  LedgerInv'
  <2>1. PICK amounts \in AcceptedPayouts(total_deposited[l] - fee, Len(winners)) :
          SettleInternal(l, approvals, winners, amounts, fee, 0, FALSE)
    BY <1>3, Zenon DEF Settle
  <2>. QED  BY <1>2, <1>3, <2>1, SettleInternalStep DEF Settle
<1>4. ASSUME NEW a \in Addresses, NEW cut \in AffiliateCuts, NEW paysAffiliate \in BOOLEAN,
             SettleWithAffiliate(l, a, winners, fee, cut, paysAffiliate)
      PROVE  LedgerInv'
  <2>1. PICK amounts \in AcceptedPayouts(total_deposited[l] - fee, Len(winners)) :
          SettleInternal(l, {a}, winners, amounts, fee, cut, paysAffiliate)
    BY <1>4, Zenon DEF SettleWithAffiliate
  <2>2. cut \in Int
    BY LeagueAssumption
  <2>. QED  BY <1>2, <1>4, <2>1, <2>2, SettleInternalStep DEF SettleWithAffiliate
<1>5. ASSUME NEW a \in Addresses, NEW bps \in Distributions,
             SettleWithDistribution(l, a, winners, fee, bps)
      PROVE  LedgerInv'
  BY <1>2, <1>5, SettleInternalStep DEF SettleWithDistribution
<1>6. ASSUME NEW a \in Addresses, ResolveDisputePayout(l, a, winners, fee)
      PROVE  LedgerInv'
  <2>1. PICK amounts \in AcceptedPayouts(total_deposited[l] - fee, Len(winners)) :
          SettleInternal(l, {a}, winners, amounts, fee, 0, FALSE)
    BY <1>6, Zenon DEF ResolveDisputePayout
  <2>. QED  BY <1>2, <1>6, <2>1, SettleInternalStep DEF ResolveDisputePayout
<1>. QED  BY <1>1, <1>3, <1>4, <1>5, <1>6

\* settle_with_merkle_root stores a root and ends an open league.
LEMMA SettleWithMerkleRootStep ==
  ASSUME LedgerInv, NEW l \in LeagueIds, NEW a \in Addresses, NEW fee \in PlatformFees,
         NEW tree \in MerkleTrees(total_deposited[l] - fee),
         SettleWithMerkleRoot(l, a, tree, fee)
  PROVE  LedgerInv'
<1>. DEFINE pool == total_deposited[l] - fee
<1>1. /\ status[l] = "Upcoming" /\ ~frozen[l]
      /\ fee <= MaxPlatformFee(total_deposited[l])
      /\ status' = [status EXCEPT ![l] = "Settled"]
      /\ leaves' = [leaves EXCEPT ![l] = tree]
      /\ hasRoot' = [hasRoot EXCEPT ![l] = TRUE]
      /\ balance' = balance - fee /\ held' = [held EXCEPT ![l] = @ - fee]
      /\ UNCHANGED <<entry_fee, total_deposited, participant_count, deposits, pages,
                     frozen, claimable, claimed>>
  BY DEF SettleWithMerkleRoot, TransferOut
<1>2. total_deposited[l] \in Nat /\ fee \in Int
  BY LeagueAssumption DEF LedgerInv, LeagueTypeOK
<1>3. pool \in Nat
  BY <1>1, <1>2, FeeWithinTotal
<1>4. tree \in [Participants -> Nat]
  <2>1. pool \div 2 \in Nat /\ pool - pool \div 2 \in Nat
    BY <1>3
  <2>. QED  BY <1>3, <2>1 DEF MerkleTrees
<1>. USE DEF LedgerInv, LeagueTypeOK
<1>5. LeagueTypeOK'
  BY <1>1, <1>2, <1>4 DEF Statuses
<1>6. DepositIsFee'
  BY <1>1 DEF DepositIsFee, Exists
<1>7. LeagueAccounted(l)'
  BY <1>1 DEF LeagueAccounted
<1>8. ASSUME NEW m \in LeagueIds \ {l} PROVE LeagueAccounted(m)'
  <2>1. UNCHANGED LeagueFields(m)
    BY <1>1, <1>8 DEF LeagueFields
  <2>. QED  BY <1>8, <2>1, AccountedFrame DEF DepositAccounting
<1>9. DepositAccounting'
  BY <1>7, <1>8 DEF DepositAccounting
<1>10. FreezeEndsAtSettlement'
  BY <1>1 DEF FreezeEndsAtSettlement
<1>. QED  BY <1>5, <1>6, <1>9, <1>10

\* The two claims: only a settled league pays prizes.
LEMMA ClaimPrizeStep ==
  ASSUME LedgerInv, NEW l \in LeagueIds, NEW p \in Participants, ClaimPrize(l, p)
  PROVE  LedgerInv'
<1>1. /\ status[l] = "Settled"
      /\ claimable[l][p] \in Nat
      /\ claimable' = [claimable EXCEPT ![l][p] = None]
      /\ balance' = balance - claimable[l][p]
      /\ held' = [held EXCEPT ![l] = @ - claimable[l][p]]
      /\ UNCHANGED <<status, entry_fee, total_deposited, participant_count, deposits, pages,
                     frozen, leaves, hasRoot, claimed>>
  BY DEF ClaimPrize, TransferOut, leagueState, LedgerInv, LeagueTypeOK, FreezeEndsAtSettlement
<1>. USE DEF LedgerInv, LeagueTypeOK
<1>2. LeagueTypeOK'
  BY <1>1
<1>3. DepositIsFee'
  BY <1>1 DEF DepositIsFee, Exists
<1>4. LeagueAccounted(l)'
  BY <1>1 DEF LeagueAccounted
<1>5. ASSUME NEW m \in LeagueIds \ {l} PROVE LeagueAccounted(m)'
  <2>1. UNCHANGED LeagueFields(m)
    BY <1>1, <1>5 DEF LeagueFields
  <2>. QED  BY <1>5, <2>1, AccountedFrame DEF DepositAccounting
<1>6. DepositAccounting'
  BY <1>4, <1>5 DEF DepositAccounting
<1>7. FreezeEndsAtSettlement'
  BY <1>1 DEF FreezeEndsAtSettlement
<1>. QED  BY <1>2, <1>3, <1>6, <1>7

\* claim_prize_merkle only marks the winner of a settled league as paid.
LEMMA ClaimPrizeMerkleStep ==
  ASSUME LedgerInv, NEW l \in LeagueIds, NEW p \in Participants, ClaimPrizeMerkle(l, p)
  PROVE  LedgerInv'
<1>1. /\ status[l] = "Settled"
      /\ leaves[l][p] \in Nat
      /\ claimed' = [claimed EXCEPT ![l] = @ \cup {p}]
      /\ balance' = balance - leaves[l][p]
      /\ held' = [held EXCEPT ![l] = @ - leaves[l][p]]
      /\ UNCHANGED <<status, entry_fee, total_deposited, participant_count, deposits, pages,
                     frozen, claimable, leaves, hasRoot>>
  BY DEF ClaimPrizeMerkle, TransferOut, leagueState, LedgerInv, LeagueTypeOK
<1>. USE DEF LedgerInv, LeagueTypeOK
<1>2. LeagueTypeOK'
  BY <1>1
<1>3. DepositIsFee'
  BY <1>1 DEF DepositIsFee, Exists
<1>4. LeagueAccounted(l)'
  BY <1>1 DEF LeagueAccounted
<1>5. ASSUME NEW m \in LeagueIds \ {l} PROVE LeagueAccounted(m)'
  <2>1. UNCHANGED LeagueFields(m)
    BY <1>1, <1>5 DEF LeagueFields
  <2>. QED  BY <1>5, <2>1, AccountedFrame DEF DepositAccounting
<1>6. DepositAccounting'
  BY <1>4, <1>5 DEF DepositAccounting
<1>7. FreezeEndsAtSettlement'
  BY <1>1 DEF FreezeEndsAtSettlement
<1>. QED  BY <1>2, <1>3, <1>6, <1>7

-----------------------------------------------------------------------------
(* The invariant.                                                          *)

\* Every call on a league preserves its part of the invariant.
LEMMA LeagueNextStep ==
  ASSUME LedgerInv, LeagueNext
  PROVE  LedgerInv'
<1>1. PICK l \in LeagueIds :
        \/ \E fee \in EntryFees : CreateLeague(l, fee)
        \/ \E p \in Participants :
              \/ Deposit(l, p) \/ ClaimPrize(l, p) \/ ClaimPrizeMerkle(l, p)
              \/ EmergencyRefundLeague(l, p) \/ ClaimRefund(l, p)
        \/ Settlements(l)
        \/ \E a \in Addresses :
              \/ \E fee \in PlatformFees :
                    \E tree \in MerkleTrees(total_deposited[l] - fee) :
                        SettleWithMerkleRoot(l, a, tree, fee)
              \/ \E p \in Participants : RefundDeposit(l, a, p)
              \/ \E listed \in SUBSET Participants :
                    Refund(l, a, listed) \/ ResolveDisputeRefund(l, a, listed)
              \/ FreezeLeague(l, a)
              \/ UnfreezeLeague(l, a)
        \/ CancelLeague(l)
  BY DEF LeagueNext
<1>2. CASE \E fee \in EntryFees : CreateLeague(l, fee)
  BY <1>2, CreateLeagueStep
<1>3. ASSUME NEW p \in Participants,
             \/ Deposit(l, p) \/ ClaimPrize(l, p) \/ ClaimPrizeMerkle(l, p)
             \/ EmergencyRefundLeague(l, p) \/ ClaimRefund(l, p)
      PROVE  LedgerInv'
  BY <1>3, DepositStep, ClaimPrizeStep, ClaimPrizeMerkleStep, ReturnDepositStep,
     ClaimRefundStep DEF EmergencyRefundLeague
<1>4. CASE Settlements(l)
  BY <1>4, SettlementsStep
<1>5. ASSUME NEW a \in Addresses, NEW fee \in PlatformFees,
             NEW tree \in MerkleTrees(total_deposited[l] - fee),
             SettleWithMerkleRoot(l, a, tree, fee)
      PROVE  LedgerInv'
  BY <1>5, SettleWithMerkleRootStep
<1>6. ASSUME NEW a \in Addresses, NEW p \in Participants, RefundDeposit(l, a, p)
      PROVE  LedgerInv'
  BY <1>6, ReturnDepositStep DEF RefundDeposit
<1>7. ASSUME NEW a \in Addresses, NEW listed \in SUBSET Participants,
             Refund(l, a, listed) \/ ResolveDisputeRefund(l, a, listed)
      PROVE  LedgerInv'
  BY <1>7, RefundAllStep DEF Refund, ResolveDisputeRefund
<1>8. ASSUME NEW a \in Addresses, FreezeLeague(l, a) \/ UnfreezeLeague(l, a)
      PROVE  LedgerInv'
  BY <1>8, FreezeStep
<1>9. CASE CancelLeague(l)
  BY <1>9, CancelLeagueStep
<1>. QED  BY <1>1, <1>2, <1>3, <1>4, <1>5, <1>6, <1>7, <1>8, <1>9

\* No call on a league touches the pause state or the configuration.
LEMMA LeagueKeepsControl ==
  ASSUME LeagueNext
  PROVE  UNCHANGED controlVars
<1>1. ASSUME NEW l \in LeagueIds, Settlements(l) PROVE UNCHANGED controlVars
  <2>1. \E approvals, winners, amounts, fee, cut, pays :
           SettleInternal(l, approvals, winners, amounts, fee, cut, pays)
    BY <1>1, Zenon DEF Settlements, Settle, SettleWithAffiliate, SettleWithDistribution,
                ResolveDisputePayout
  <2>. QED  BY <2>1 DEF SettleInternal
<1>2. ASSUME NEW l \in LeagueIds,
             NEW p \in Participants, ReturnDeposit(l, p) PROVE UNCHANGED controlVars
  BY <1>2 DEF ReturnDeposit
<1>3. ASSUME NEW l \in LeagueIds,
             NEW S \in SUBSET Participants, RefundAll(l, S) PROVE UNCHANGED controlVars
  BY <1>3 DEF RefundAll
<1>. QED
  BY <1>1, <1>2, <1>3 DEF LeagueNext, CreateLeague, Deposit, ClaimPrize, ClaimPrizeMerkle,
     EmergencyRefundLeague, ClaimRefund, SettleWithMerkleRoot, RefundDeposit, Refund,
     ResolveDisputeRefund, FreezeLeague, UnfreezeLeague, CancelLeague

\* A step that leaves the leagues alone keeps their invariant.
LEMMA LedgerFrame ==
  ASSUME LedgerInv, UNCHANGED leagueVars
  PROVE  LedgerInv'
<1>. USE DEF leagueVars, leagueState, prizeState, money, LedgerInv
<1>1. LeagueTypeOK'
  BY DEF LeagueTypeOK
<1>2. DepositIsFee'
  BY DEF DepositIsFee, Exists
<1>3. DepositAccounting'
  <2>1. SUFFICES ASSUME NEW m \in LeagueIds PROVE LeagueAccounted(m)'
    BY DEF DepositAccounting
  <2>2. UNCHANGED LeagueFields(m)
    BY DEF LeagueFields
  <2>. QED  BY <2>2, AccountedFrame DEF DepositAccounting
<1>4. FreezeEndsAtSettlement'
  BY DEF FreezeEndsAtSettlement
<1>. QED  BY <1>1, <1>2, <1>3, <1>4

\* The invariant holds before the first call.
LEMMA LeagueInvInit == Init => LeagueInv
<1>1. SUFFICES ASSUME Init PROVE LeagueInv
  OBVIOUS
<1>2. ControlInv
  BY <1>1, ControlAssumption DEF Init, ControlInit, ControlInv, ControlTypeOK,
     PauseBookkeeping, TimerFromLastEngagement, ExpiredBeforeRemoval, None
<1>. QED  BY <1>1, <1>2 DEF Init, LeagueStorageInit, LeagueInv, LeagueTypeOK, Statuses,
     DepositIsFee, DepositAccounting, LeagueAccounted, FreezeEndsAtSettlement, Exists

\* Every step, on a league or on the administration, preserves the invariant.
LEMMA LeagueInvStep ==
  ASSUME LeagueInv, [Next]_vars
  PROVE  LeagueInv'
<1>1. ControlInv /\ LedgerInv
  BY DEF LeagueInv, LedgerInv
<1>2. CASE LeagueNext
  BY <1>1, <1>2, LeagueNextStep, LeagueKeepsControl, ControlInvStep DEF LeagueInv, LedgerInv
<1>3. CASE ControlNext /\ UNCHANGED leagueVars
  BY <1>1, <1>3, LedgerFrame, ControlInvStep DEF LeagueInv, LedgerInv
<1>4. CASE UNCHANGED vars
  BY <1>1, <1>4, LedgerFrame, ControlInvStep DEF vars, LeagueInv, LedgerInv
<1>. QED  BY <1>2, <1>3, <1>4 DEF Next

\* The counters, the deposit keys and what the contract holds of every
\* league agree, whatever the order of deposits, settlements, claims, the
\* refund paths, freezes and pauses.
THEOREM LeagueInvariant == Spec => []LeagueInv
<1>1. Init => LeagueInv
  BY LeagueInvInit
<1>2. LeagueInv /\ [Next]_vars => LeagueInv'
  BY LeagueInvStep
<1>. QED  BY <1>1, <1>2, PTL DEF Spec

\* Money that entered an open or cancelled league can always be paid back:
\* total_deposited and participant_count never underflow in a refund.
THEOREM DepositAccountingTheorem == Spec => []DepositAccounting
<1>1. LeagueInv => DepositAccounting
  BY DEF LeagueInv
<1>. QED  BY <1>1, LeagueInvariant, PTL

-----------------------------------------------------------------------------
(* Action properties.                                                      *)

\* What every settlement with claimable prizes has in common.
LEMMA SettlementsShape ==
  ASSUME NEW l \in LeagueIds, Settlements(l)
  PROVE  /\ EnsureOperational(Self)
         /\ status[l] = "Upcoming"
         /\ status' = [status EXCEPT ![l] = "Settled"]
         /\ deposits' = deposits
<1>1. \E approvals, winners, amounts, fee, cut, pays :
         SettleInternal(l, approvals, winners, amounts, fee, cut, pays)
  BY Zenon DEF Settlements, Settle, SettleWithAffiliate, SettleWithDistribution,
               ResolveDisputePayout
<1>. QED  BY <1>1 DEF SettleInternal

\* No call leaves Settled or Cancelled, or changes a deposit of a settled
\* league.
LEMMA FinalStep ==
  ASSUME LeagueInv, [Next]_vars, NEW m \in LeagueIds
  PROVE  /\ status[m] \in {"Settled", "Cancelled"} => status'[m] = status[m]
         /\ status[m] = "Settled" => deposits'[m] = deposits[m]
<1>. DEFINE Final == /\ status[m] \in {"Settled", "Cancelled"} => status'[m] = status[m]
                     /\ status[m] = "Settled" => deposits'[m] = deposits[m]
<1>. USE DEF LeagueInv, LeagueTypeOK
<1>1. CASE UNCHANGED leagueVars
  BY <1>1 DEF leagueVars, leagueState
<1>2. ASSUME NEW l \in LeagueIds, NEW fee \in EntryFees, CreateLeague(l, fee) PROVE Final
  BY <1>2 DEF CreateLeague, Exists
<1>3. ASSUME NEW l \in LeagueIds, NEW p \in Participants,
             Deposit(l, p) \/ ClaimRefund(l, p) \/ ReturnDeposit(l, p) PROVE Final
  BY <1>3 DEF Deposit, ClaimRefund, ReturnDeposit
<1>4. ASSUME NEW l \in LeagueIds, NEW p \in Participants,
             ClaimPrize(l, p) \/ ClaimPrizeMerkle(l, p) PROVE Final
  BY <1>4 DEF ClaimPrize, ClaimPrizeMerkle, leagueState
<1>5. ASSUME NEW l \in LeagueIds, Settlements(l) PROVE Final
  BY <1>5, SettlementsShape
<1>6. ASSUME NEW l \in LeagueIds, NEW a, NEW tree, NEW fee,
             SettleWithMerkleRoot(l, a, tree, fee) PROVE Final
  BY <1>6 DEF SettleWithMerkleRoot
<1>7. ASSUME NEW l \in LeagueIds, NEW listed \in SUBSET Participants, RefundAll(l, listed)
      PROVE  Final
  BY <1>7 DEF RefundAll
<1>8. ASSUME NEW l \in LeagueIds, NEW a, FreezeLeague(l, a) \/ UnfreezeLeague(l, a) PROVE Final
  BY <1>8 DEF FreezeLeague, UnfreezeLeague, leagueState
<1>9. ASSUME NEW l \in LeagueIds, CancelLeague(l) PROVE Final
  BY <1>9 DEF CancelLeague
<1>10. ASSUME LeagueNext PROVE Final
  <2>. HIDE DEF Final
  <2>. QED  BY <1>10, <1>2, <1>3, <1>4, <1>5, <1>6, <1>7, <1>8, <1>9
            DEF LeagueNext, EmergencyRefundLeague, RefundDeposit, Refund, ResolveDisputeRefund
<1>. QED  BY <1>1, <1>10 DEF Next, vars

\* A league's money goes to prizes or to refunds, never both.
THEOREM SettledOrRefundedTheorem == Spec => SettledOrRefunded
<1>1. LeagueInv /\ [Next]_vars =>
        \A l \in LeagueIds :
          /\ status[l] \in {"Settled", "Cancelled"} => status'[l] = status[l]
          /\ status[l] = "Settled" => deposits'[l] = deposits[l]
  BY FinalStep
<1>. QED  BY <1>1, LeagueInvariant, PTL DEF Spec, SettledOrRefunded

\* While the contract or a peer is paused, what leaves a league's books is a
\* refund, a Merkle claim or the fee of a Merkle settlement that only a peer's
\* pause could have stopped, and none settles while the contract is paused.
LEMMA PausedStep ==
  ASSUME LeagueInv, [Next]_vars, ~EnsureOperational(Self), NEW m \in LeagueIds
  PROVE  /\ held'[m] <= held[m]
         /\ held'[m] # held[m] =>
               \/ deposits'[m] # deposits[m]
               \/ claimed'[m] # claimed[m]
               \/ ~isPaused[Self] /\ ~hasRoot[m] /\ hasRoot'[m]
         /\ isPaused[Self] /\ status'[m] = "Settled" => status[m] = "Settled"
<1>. DEFINE Held == /\ held'[m] <= held[m]
                    /\ held'[m] # held[m] =>
                          \/ deposits'[m] # deposits[m]
                          \/ claimed'[m] # claimed[m]
                          \/ ~isPaused[Self] /\ ~hasRoot[m] /\ hasRoot'[m]
                    /\ isPaused[Self] /\ status'[m] = "Settled" => status[m] = "Settled"
<1>. USE DEF LeagueInv, LeagueTypeOK
<1>1. CASE UNCHANGED leagueVars
  BY <1>1 DEF leagueVars, leagueState, money
<1>2. ASSUME NEW l \in LeagueIds, NEW fee \in EntryFees, CreateLeague(l, fee) PROVE Held
  BY <1>2 DEF CreateLeague, money
<1>3. ASSUME NEW l \in LeagueIds, NEW p \in Participants,
             Deposit(l, p) \/ ClaimPrize(l, p) PROVE Held
  BY <1>3 DEF Deposit, ClaimPrize
<1>4. ASSUME NEW l \in LeagueIds, NEW p \in Participants,
             ClaimRefund(l, p) \/ ReturnDeposit(l, p) PROVE Held
  <2>1. deposits[l][p] \in Nat /\ deposits[l][p] > 0
        /\ held' = [held EXCEPT ![l] = @ - deposits[l][p]] /\ status' = status
    BY <1>4 DEF ClaimRefund, ReturnDeposit, TransferOut, None
  <2>2. deposits'[l][p] # deposits[l][p]
    BY <1>4, <2>1 DEF ClaimRefund, ReturnDeposit, None
  <2>3. CASE m = l
    BY <2>1, <2>2, <2>3
  <2>4. CASE m # l
    BY <2>1, <2>4
  <2>. QED  BY <2>3, <2>4
<1>5. ASSUME NEW l \in LeagueIds, NEW p \in Participants, ClaimPrizeMerkle(l, p) PROVE Held
  <2>1. leaves[l][p] \in Nat
        /\ held' = [held EXCEPT ![l] = @ - leaves[l][p]] /\ status' = status
    BY <1>5 DEF ClaimPrizeMerkle, TransferOut, leagueState
  <2>2. p \notin claimed[l] /\ p \in claimed'[l]
    BY <1>5 DEF ClaimPrizeMerkle
  <2>3. CASE m = l
    BY <2>1, <2>2, <2>3
  <2>4. CASE m # l
    BY <2>1, <2>4
  <2>. QED  BY <2>3, <2>4
<1>6. ASSUME NEW l \in LeagueIds, Settlements(l) PROVE Held
  BY <1>6, SettlementsShape
<1>7. ASSUME NEW l \in LeagueIds, NEW a, NEW tree, NEW fee \in PlatformFees,
             SettleWithMerkleRoot(l, a, tree, fee) PROVE Held
  <2>1. fee \in Int /\ fee >= 0 /\ status[l] = "Upcoming" /\ ~isPaused[Self]
        /\ held' = [held EXCEPT ![l] = @ - fee] /\ hasRoot'[l]
    BY <1>7, LeagueAssumption DEF SettleWithMerkleRoot, TransferOut
  <2>2. ~hasRoot[l]
    BY <2>1 DEF FreezeEndsAtSettlement
  <2>3. CASE m = l
    BY <2>1, <2>2, <2>3
  <2>4. CASE m # l
    BY <2>1, <2>4
  <2>. QED  BY <2>3, <2>4
<1>8. ASSUME NEW l \in LeagueIds, NEW listed \in SUBSET Participants, RefundAll(l, listed)
      PROVE  Held
  <2>. DEFINE paid == listed \cap Depositors(l)
  <2>1. Cardinality(paid) \in Nat
    BY MembersFinite, FS_Intersection, FS_CardinalityType
  <2>2. entry_fee[l] * Cardinality(paid) \in Nat
    BY <2>1, TimesNat
  <2>3. /\ status' = [status EXCEPT ![l] = "Cancelled"]
        /\ held' = [held EXCEPT ![l] = @ - entry_fee[l] * Cardinality(paid)]
        /\ deposits' = [deposits EXCEPT ![l] =
                           [p \in Participants |-> IF p \in listed THEN None ELSE @[p]]]
    BY <1>8 DEF RefundAll, TransferOut
  <2>4. deposits'[l] = deposits[l] => paid = {}
    <3>1. ASSUME NEW p \in paid PROVE deposits'[l][p] # deposits[l][p]
      BY <2>3, <3>1 DEF Depositors, None
    <3>. QED  BY <3>1
  <2>5. paid = {} => entry_fee[l] * Cardinality(paid) = 0
    <3>1. Cardinality({}) = 0
      BY FS_EmptySet
    <3>2. entry_fee[l] * 0 = 0
      OBVIOUS
    <3>. QED  BY <3>1, <3>2
  <2>. HIDE DEF paid
  <2>6. CASE m = l
    BY <2>2, <2>3, <2>4, <2>5, <2>6
  <2>7. CASE m # l
    BY <2>2, <2>3, <2>7
  <2>. QED  BY <2>6, <2>7
<1>9. ASSUME NEW l \in LeagueIds, NEW a, FreezeLeague(l, a) \/ UnfreezeLeague(l, a) PROVE Held
  BY <1>9 DEF FreezeLeague, UnfreezeLeague, leagueState, money
<1>10. ASSUME NEW l \in LeagueIds, CancelLeague(l) PROVE Held
  BY <1>10 DEF CancelLeague, money
<1>11. ASSUME LeagueNext PROVE Held
  <2>. HIDE DEF Held
  <2>. QED  BY <1>11, <1>2, <1>3, <1>4, <1>5, <1>6, <1>7, <1>8, <1>9, <1>10
            DEF LeagueNext, EmergencyRefundLeague, RefundDeposit, Refund, ResolveDisputeRefund
<1>. QED  BY <1>1, <1>11 DEF Next, vars

\* While the contract or a linked peer is paused, a league's books only lose
\* refunds, Merkle claims and, if only a peer is paused, the fee of a Merkle
\* settlement; while the contract is paused no league is settled.
THEOREM PauseHoldsMoneyTheorem == Spec => PauseHoldsMoney
<1>1. LeagueInv /\ [Next]_vars =>
        (~EnsureOperational(Self) =>
          \A l \in LeagueIds :
              /\ held'[l] <= held[l]
              /\ held'[l] # held[l] =>
                    \/ deposits'[l] # deposits[l]
                    \/ claimed'[l] # claimed[l]
                    \/ ~isPaused[Self] /\ ~hasRoot[l] /\ hasRoot'[l]
              /\ isPaused[Self] /\ status'[l] = "Settled" => status[l] = "Settled")
  BY PausedStep
<1>. QED  BY <1>1, LeagueInvariant, PTL DEF Spec, PauseHoldsMoney

-----------------------------------------------------------------------------
(* Solvency.  Claimable prizes and Merkle leaves differ from winner to     *)
(* winner, so what a settled league owes is a sum (SumTheorems).           *)

\* A league without a root has no leaves.
LeavesNeedRoot ==
    \A l \in LeagueIds : ~hasRoot[l] => \A p \in Participants : leaves[l][p] = 0

\* A settled league holds what its winners have not claimed yet.
PrizesCovered(l) == status[l] = "Settled" => held[l] >= OwedPrizes(l)

PrizeInv ==
    /\ LeagueInv
    /\ LeavesNeedRoot
    /\ \A l \in LeagueIds : PrizesCovered(l)

Claimants(l) == {p \in Participants : claimable[l][p] # None}

\* The two sums of OwedPrizes are numbers.
LEMMA OwedPrizesTerms ==
  ASSUME LeagueTypeOK, NEW l \in LeagueIds
  PROVE  /\ IsFiniteSet(Claimants(l)) /\ IsFiniteSet(Participants \ claimed[l])
         /\ \A p \in Claimants(l) : claimable[l][p] \in Nat
         /\ \A p \in Participants : leaves[l][p] \in Nat
         /\ SumFunctionOnSet(claimable[l], Claimants(l)) \in Nat
         /\ SumFunctionOnSet(leaves[l], Participants \ claimed[l]) \in Nat
         /\ OwedPrizes(l) = SumFunctionOnSet(claimable[l], Claimants(l))
                              + SumFunctionOnSet(leaves[l], Participants \ claimed[l])
<1>1. IsFiniteSet(Claimants(l)) /\ IsFiniteSet(Participants \ claimed[l])
  BY LeagueAssumption, FS_Subset DEF Claimants
<1>2. \A p \in Claimants(l) : claimable[l][p] \in Nat
  BY DEF Claimants, LeagueTypeOK
<1>3. \A p \in Participants : leaves[l][p] \in Nat
  BY DEF LeagueTypeOK
<1>4. SumFunctionOnSet(claimable[l], Claimants(l)) \in Nat
  BY <1>1, <1>2, SumNat
<1>5. SumFunctionOnSet(leaves[l], Participants \ claimed[l]) \in Nat
  BY <1>1, <1>3, SumNat
<1>. QED  BY <1>1, <1>2, <1>3, <1>4, <1>5 DEF OwedPrizes, Claimants

\* Before a settlement a league holds at least the deposits it would refund.
LEMMA RefundsCovered ==
  ASSUME LeagueInv, NEW l \in LeagueIds, status[l] # "Settled"
  PROVE  held[l] >= Owed(l)
<1>. USE DEF LeagueInv, LeagueTypeOK
<1>. DEFINE n == Cardinality(Depositors(l))
<1>1. IsFiniteSet(Depositors(l)) /\ n \in Nat
  BY MembersFinite
<1>2. ASSUME NEW p \in Depositors(l) PROVE deposits[l][p] = entry_fee[l]
  <2>1. p \in Participants /\ deposits[l][p] > 0
    BY <1>2 DEF Depositors
  <2>2. deposits[l][p] \in {None, 0, entry_fee[l]}
    BY <2>1 DEF DepositIsFee
  <2>. QED  BY <2>1, <2>2 DEF None
<1>3. entry_fee[l] \in Nat /\ held[l] \in Int
  OBVIOUS
<1>4. SumFunctionOnSet(deposits[l], Depositors(l)) = entry_fee[l] * n
  BY <1>1, <1>2, <1>3, SumConstant
<1>5. held[l] = entry_fee[l] * n
  <2>1. CASE status[l] = "None"
    <3>1. Depositors(l) = {}
      BY <2>1 DEF Depositors, DepositIsFee, Exists, None
    <3>2. n = 0
      BY <3>1, FS_EmptySet
    <3>. QED  BY <1>3, <2>1, <3>2 DEF DepositAccounting, LeagueAccounted
  <2>2. CASE status[l] = "Upcoming" \/ status[l] = "Cancelled"
    BY <2>2 DEF DepositAccounting, LeagueAccounted
  <2>. QED  BY <2>1, <2>2 DEF Statuses
<1>6. entry_fee[l] * n \in Nat
  BY <1>1, <1>3, TimesNat
<1>. HIDE DEF n
<1>. QED  BY <1>4, <1>5, <1>6 DEF Owed

\* A step that leaves the prizes of a league and its money alone.
LEMMA PrizesFrame ==
  ASSUME NEW l \in LeagueIds, PrizesCovered(l), status'[l] = "Settled" => status[l] = "Settled",
         held'[l] = held[l], claimable'[l] = claimable[l], leaves'[l] = leaves[l],
         claimed'[l] = claimed[l]
  PROVE  PrizesCovered(l)'
BY DEF PrizesCovered, OwedPrizes

\* claim_prize pays one claimable prize and removes it.
LEMMA ClaimPrizeCovered ==
  ASSUME LeagueTypeOK, NEW l \in LeagueIds, NEW p \in Participants, PrizesCovered(l),
         ClaimPrize(l, p)
  PROVE  PrizesCovered(l)'
<1>. DEFINE prize == claimable[l][p]
            rest == Claimants(l) \ {p}
<1>0. /\ IsFiniteSet(Claimants(l)) /\ IsFiniteSet(Participants \ claimed[l])
      /\ \A q \in Claimants(l) : claimable[l][q] \in Nat
      /\ \A q \in Participants : leaves[l][q] \in Nat
      /\ SumFunctionOnSet(claimable[l], Claimants(l)) \in Nat
      /\ SumFunctionOnSet(leaves[l], Participants \ claimed[l]) \in Nat
      /\ OwedPrizes(l) = SumFunctionOnSet(claimable[l], Claimants(l))
                           + SumFunctionOnSet(leaves[l], Participants \ claimed[l])
  BY OwedPrizesTerms, Zenon
<1>1. /\ claimable[l][p] # None
      /\ held' = [held EXCEPT ![l] = held[l] - prize]
      /\ claimable' = [claimable EXCEPT ![l][p] = None]
      /\ UNCHANGED <<status, leaves, claimed>>
  BY DEF ClaimPrize, TransferOut, leagueState
<1>2. p \in Claimants(l) /\ prize \in Nat
  BY <1>1 DEF Claimants, LeagueTypeOK
<1>3. Claimants(l)' = rest
  BY <1>1 DEF Claimants, LeagueTypeOK
<1>4. SumFunctionOnSet(claimable[l], Claimants(l)) = prize + SumFunctionOnSet(claimable[l], rest)
  <2>1. \A q \in Claimants(l) : claimable[l][q] \in Int
    BY <1>0
  <2>. QED  BY <1>2, <2>1, <1>0, SumRemove
<1>5. IsFiniteSet(rest)
  BY <1>0, FS_Subset
<1>6. SumFunctionOnSet(claimable'[l], rest) = SumFunctionOnSet(claimable[l], rest)
  <2>1. \A q \in rest : claimable'[l][q] = claimable[l][q]
    BY <1>1 DEF Claimants, LeagueTypeOK
  <2>. QED  BY <1>5, <2>1, SumCongruence
<1>7. SumFunctionOnSet(claimable[l], rest) \in Nat
  BY <1>5, <1>0, SumNat
<1>8. OwedPrizes(l)' = SumFunctionOnSet(claimable[l], rest)
                         + SumFunctionOnSet(leaves[l], Participants \ claimed[l])
  BY <1>1, <1>3, <1>6 DEF OwedPrizes, Claimants
<1>9. held[l] \in Int /\ held'[l] = held[l] - prize
  BY <1>1 DEF LeagueTypeOK
<1>. HIDE DEF prize, rest
<1>. QED  BY <1>1, <1>2, <1>4, <1>7, <1>8, <1>9, <1>0 DEF PrizesCovered

\* claim_prize_merkle pays one leaf and marks it claimed.
LEMMA ClaimMerkleCovered ==
  ASSUME LeagueTypeOK, NEW l \in LeagueIds, NEW p \in Participants, PrizesCovered(l),
         ClaimPrizeMerkle(l, p)
  PROVE  PrizesCovered(l)'
<1>. DEFINE prize == leaves[l][p]
            open == Participants \ claimed[l]
<1>0. /\ IsFiniteSet(Claimants(l)) /\ IsFiniteSet(Participants \ claimed[l])
      /\ \A q \in Claimants(l) : claimable[l][q] \in Nat
      /\ \A q \in Participants : leaves[l][q] \in Nat
      /\ SumFunctionOnSet(claimable[l], Claimants(l)) \in Nat
      /\ SumFunctionOnSet(leaves[l], Participants \ claimed[l]) \in Nat
      /\ OwedPrizes(l) = SumFunctionOnSet(claimable[l], Claimants(l))
                           + SumFunctionOnSet(leaves[l], Participants \ claimed[l])
  BY OwedPrizesTerms, Zenon
<1>1. /\ p \notin claimed[l]
      /\ held' = [held EXCEPT ![l] = held[l] - prize]
      /\ claimed' = [claimed EXCEPT ![l] = @ \cup {p}]
      /\ UNCHANGED <<status, leaves, claimable>>
  BY DEF ClaimPrizeMerkle, TransferOut, leagueState
<1>2. p \in open /\ prize \in Nat /\ open \ {p} = Participants \ claimed'[l]
  BY <1>1 DEF LeagueTypeOK
<1>3. SumFunctionOnSet(leaves[l], open) = prize + SumFunctionOnSet(leaves[l], open \ {p})
  <2>1. \A q \in open : leaves[l][q] \in Int
    BY <1>0
  <2>. QED  BY <1>2, <2>1, <1>0, SumRemove
<1>4. SumFunctionOnSet(leaves[l], open \ {p}) \in Nat
  <2>1. IsFiniteSet(open \ {p})
    BY <1>0, FS_Subset
  <2>. QED  BY <2>1, <1>0, SumNat
<1>5. OwedPrizes(l)' = SumFunctionOnSet(claimable[l], Claimants(l))
                         + SumFunctionOnSet(leaves[l], open \ {p})
  BY <1>1, <1>2 DEF OwedPrizes, Claimants
<1>6. held[l] \in Int /\ held'[l] = held[l] - prize
  BY <1>1 DEF LeagueTypeOK
<1>. HIDE DEF prize
<1>. QED  BY <1>1, <1>2, <1>3, <1>4, <1>5, <1>6, <1>0 DEF PrizesCovered

\* The accepted amounts are one per winner.
LEMMA PayoutsDomain ==
  ASSUME NEW pool, NEW n \in Nat \ {0}, NEW amounts \in AcceptedPayouts(pool, n)
  PROVE  DOMAIN amounts = 1..n
<1>1. DOMAIN ExpectedPayouts(pool, n) = 1..n
  <2>1. CASE n = 1
    BY <2>1 DEF ExpectedPayouts
  <2>2. CASE n = 2
    BY <2>2 DEF ExpectedPayouts
  <2>3. CASE n > 2
    BY <2>3 DEF ExpectedPayouts
  <2>. QED  BY <2>1, <2>2, <2>3
<1>2. n >= 2 => DOMAIN TiedFirstPayouts(pool, n) = 1..n
  <2>1. CASE n = 2
    BY <2>1 DEF TiedFirstPayouts
  <2>2. CASE n # 2
    BY <1>1, <2>2 DEF TiedFirstPayouts
  <2>. QED  BY <2>1, <2>2
<1>. QED  BY <1>1, <1>2 DEF AcceptedPayouts

\* The prizes written for the winners are distinct amounts of the vector
\* whose sum the contract has checked.
LEMMA WrittenWithinAmounts ==
  ASSUME NEW l \in LeagueIds, NEW n \in Nat, NEW winners \in [1..n -> Participants],
         NEW amounts, \A i \in 1..n : amounts[i] \in Nat,
         \A p \in Participants : claimable[l][p] = None
  PROVE  LET written == WrittenPrizes(l, winners, amounts)
             paid == {p \in Participants : written[p] # None}
         IN  SumFunctionOnSet(written, paid) <= SumFunctionOnSet(amounts, 1..n)
<1>. DEFINE written == WrittenPrizes(l, winners, amounts)
            paid == {p \in Participants : written[p] # None}
            Wins(p) == {i \in 1..n : winners[i] = p /\ amounts[i] > 0}
            Last(p) == CHOOSE i \in Wins(p) : \A j \in Wins(p) : j <= i
            k == [p \in paid |-> Last(p)]
<1>1. \A p \in Participants :
         written[p] = IF Wins(p) = {} THEN None ELSE amounts[Last(p)]
  BY DEF WrittenPrizes
<1>2. ASSUME NEW p \in paid
      PROVE  k[p] \in 1..n /\ winners[k[p]] = p /\ written[p] = amounts[k[p]]
  <2>1. p \in Participants /\ Wins(p) # {} /\ written[p] = amounts[Last(p)]
    BY <1>1, <1>2
  <2>2. Wins(p) \in SUBSET (1..n) /\ n \in Int
    OBVIOUS
  <2>3. \E i \in Wins(p) : \A j \in Wins(p) : j <= i
    <3>. HIDE DEF Wins
    <3>. QED  BY <2>1, <2>2, LastIndex
  <2>4. Last(p) \in Wins(p)
    BY <2>3
  <2>. QED  BY <1>2, <2>1, <2>4
<1>3. IsFiniteSet(paid) /\ IsFiniteSet(1..n)
  BY LeagueAssumption, FS_Subset, FS_Interval
<1>. HIDE DEF written, paid, k
<1>4. \A p, q \in paid : k[p] = k[q] => p = q
  <2>1. \A p \in paid : winners[k[p]] = p
    BY <1>2
  <2>. QED  BY <2>1, Zenon
<1>5. SumFunctionOnSet(written, paid) <= SumFunctionOnSet(amounts, 1..n)
  BY <1>2, <1>3, <1>4, SumSelected
<1>. QED  BY <1>5 DEF written, paid

\* settle_internal checks that fee and amounts add up to total_deposited,
\* which is what the league holds, and sends at most the fee.
LEMMA SettleInternalCovered ==
  ASSUME PrizeInv, NEW l \in LeagueIds, NEW approvals, NEW winners \in WinnerLists,
         NEW amounts, DOMAIN amounts = DOMAIN winners, NEW platformFee \in Int,
         NEW cut \in Int, NEW paysAffiliate \in BOOLEAN,
         SettleInternal(l, approvals, winners, amounts, platformFee, cut, paysAffiliate)
  PROVE  PrizesCovered(l)'
<1>. USE DEF PrizeInv, LeagueInv
<1>. DEFINE written == WrittenPrizes(l, winners, amounts)
            paid == {p \in Participants : written[p] # None}
            fees == IF paysAffiliate THEN platformFee ELSE platformFee - cut
            open == Participants \ claimed[l]
<1>1. PICK n \in 1..MaxWinners : winners \in [1..n -> Participants]
  BY DEF WinnerLists
<1>2. n \in Nat /\ DOMAIN amounts = 1..n /\ DOMAIN winners = 1..n
  BY <1>1
<1>3. /\ status[l] = "Upcoming"
      /\ 0 <= cut
      /\ \A i \in 1..n : amounts[i] \in Nat
      /\ platformFee + SumFunction(amounts) = total_deposited[l]
      /\ held' = [held EXCEPT ![l] = held[l] - fees]
      /\ claimable' = [claimable EXCEPT ![l] = written]
      /\ UNCHANGED <<leaves, claimed>>
  BY <1>2 DEF SettleInternal, TransferOut
<1>4. ~hasRoot[l] /\ \A p \in Participants : claimable[l][p] = None
  BY <1>3 DEF FreezeEndsAtSettlement
<1>5. held[l] = total_deposited[l] /\ held[l] \in Int /\ held'[l] = held[l] - fees
  BY <1>3 DEF DepositAccounting, LeagueAccounted, LeagueTypeOK
<1>6. SumFunctionOnSet(written, paid) <= SumFunctionOnSet(amounts, 1..n)
  BY <1>1, <1>2, <1>3, <1>4, WrittenWithinAmounts
<1>7. SumFunctionOnSet(amounts, 1..n) \in Nat
      /\ SumFunction(amounts) = SumFunctionOnSet(amounts, 1..n)
  <2>1. IsFiniteSet(1..n)
    BY <1>2, FS_Interval
  <2>2. SumFunctionOnSet(amounts, 1..n) \in Nat
    BY <1>3, <2>1, SumNat
  <2>. QED  BY <1>2, <2>2 DEF SumFunction
<1>8. SumFunctionOnSet(leaves[l], open) = 0
  <2>1. IsFiniteSet(open) /\ Cardinality(open) \in Nat
    BY LeagueAssumption, FS_Subset, FS_CardinalityType
  <2>2. \A p \in open : leaves[l][p] = 0
    BY <1>4 DEF LeavesNeedRoot
  <2>3. SumFunctionOnSet(leaves[l], open) = 0 * Cardinality(open)
    BY <2>1, <2>2, SumConstant
  <2>. QED  BY <2>1, <2>3
<1>9. OwedPrizes(l)' = SumFunctionOnSet(written, paid) + 0
  <2>1. claimable'[l] = written
    BY <1>3 DEF LeagueTypeOK
  <2>. QED  BY <1>3, <1>8, <2>1 DEF OwedPrizes
<1>10. SumFunctionOnSet(written, paid) \in Int
  <2>1. written \in [Participants -> Nat \cup {None}]
    BY <1>2, <1>3, WrittenPrizesType
  <2>2. \A p \in paid : written[p] \in Int
    BY <2>1
  <2>3. IsFiniteSet(paid)
    BY LeagueAssumption, FS_Subset
  <2>. HIDE DEF written, paid
  <2>. QED  BY <2>2, <2>3, SumInt
<1>11. fees \in Int /\ fees <= platformFee
  BY <1>3
<1>. HIDE DEF written, paid, fees, open
<1>12. held'[l] >= OwedPrizes(l)'
  BY <1>3, <1>5, <1>6, <1>7, <1>9, <1>10, <1>11
<1>. QED  BY <1>12 DEF PrizesCovered

\* Every entry point that ends in settle_internal pays within the deposits.
LEMMA SettlementsCovered ==
  ASSUME PrizeInv, NEW l \in LeagueIds, Settlements(l)
  PROVE  PrizesCovered(l)'
<1>1. PICK winners \in WinnerLists, fee \in PlatformFees :
        \/ \E approvals \in SUBSET Addresses : Settle(l, approvals, winners, fee)
        \/ \E a \in Addresses :
              \/ \E cut \in AffiliateCuts, paysAffiliate \in BOOLEAN :
                    SettleWithAffiliate(l, a, winners, fee, cut, paysAffiliate)
              \/ \E bps \in Distributions : SettleWithDistribution(l, a, winners, fee, bps)
              \/ ResolveDisputePayout(l, a, winners, fee)
  BY DEF Settlements
<1>2. fee \in Int /\ 0 \in Int /\ FALSE \in BOOLEAN /\ AffiliateCuts \subseteq Int
  BY LeagueAssumption
<1>3. PICK n \in 1..MaxWinners : winners \in [1..n -> Participants]
  BY DEF WinnerLists
<1>4. n \in Nat \ {0} /\ Len(winners) = n /\ DOMAIN winners = 1..n
  BY <1>3
<1>. DEFINE pool == total_deposited[l] - fee
<1>5. \A amounts \in AcceptedPayouts(pool, Len(winners)) : DOMAIN amounts = DOMAIN winners
  BY <1>4, PayoutsDomain
<1>6. ASSUME NEW approvals, NEW amounts \in AcceptedPayouts(pool, Len(winners)),
             NEW cut \in Int, NEW pays \in BOOLEAN,
             SettleInternal(l, approvals, winners, amounts, fee, cut, pays)
      PROVE  PrizesCovered(l)'
  BY <1>2, <1>5, <1>6, SettleInternalCovered
<1>7. ASSUME NEW a \in Addresses, NEW bps \in Distributions,
             SettleWithDistribution(l, a, winners, fee, bps)
      PROVE  PrizesCovered(l)'
  <2>. DEFINE amounts == DistributionPayouts(pool, bps)
  <2>1. DOMAIN amounts = DOMAIN winners
    BY <1>4, <1>7 DEF SettleWithDistribution, DistributionPayouts
  <2>2. SettleInternal(l, {a}, winners, amounts, fee, 0, FALSE)
    BY <1>7 DEF SettleWithDistribution
  <2>. HIDE DEF amounts
  <2>. QED  BY <1>2, <2>1, <2>2, SettleInternalCovered
<1>. HIDE DEF pool
<1>8. ASSUME NEW approvals, Settle(l, approvals, winners, fee) PROVE PrizesCovered(l)'
  BY <1>2, <1>6, <1>8 DEF Settle, pool
<1>9. ASSUME NEW a, NEW cut \in AffiliateCuts, NEW pays \in BOOLEAN,
             SettleWithAffiliate(l, a, winners, fee, cut, pays)
      PROVE  PrizesCovered(l)'
  BY <1>2, <1>6, <1>9 DEF SettleWithAffiliate, pool
<1>10. ASSUME NEW a, ResolveDisputePayout(l, a, winners, fee) PROVE PrizesCovered(l)'
  BY <1>2, <1>6, <1>10 DEF ResolveDisputePayout, pool
<1>. QED  BY <1>1, <1>7, <1>8, <1>9, <1>10

\* The leaves of an accepted root add up to what is left after the fee.
LEMMA SettleMerkleCovered ==
  ASSUME PrizeInv, NEW l \in LeagueIds, NEW a, NEW fee \in Int,
         NEW tree \in MerkleTrees(total_deposited[l] - fee),
         SettleWithMerkleRoot(l, a, tree, fee)
  PROVE  PrizesCovered(l)'
<1>. USE DEF PrizeInv, LeagueInv
<1>1. /\ status[l] = "Upcoming"
      /\ held' = [held EXCEPT ![l] = held[l] - fee]
      /\ leaves' = [leaves EXCEPT ![l] = tree]
      /\ UNCHANGED <<claimable, claimed>>
  BY DEF SettleWithMerkleRoot, TransferOut
<1>2. claimed[l] = {} /\ \A p \in Participants : claimable[l][p] = None
  BY <1>1 DEF FreezeEndsAtSettlement
<1>3. held[l] = total_deposited[l] /\ held[l] \in Int /\ held'[l] = held[l] - fee
  BY <1>1 DEF DepositAccounting, LeagueAccounted, LeagueTypeOK
<1>4. DOMAIN tree = Participants /\ SumFunction(tree) = total_deposited[l] - fee
  BY DEF MerkleTrees
<1>5. leaves'[l] = tree /\ {p \in Participants : claimable'[l][p] # None} = {}
      /\ Participants \ claimed'[l] = Participants
  BY <1>1, <1>2 DEF LeagueTypeOK
<1>6. OwedPrizes(l)' = 0 + SumFunctionOnSet(tree, Participants)
  BY <1>5, SumEmpty DEF OwedPrizes
<1>7. OwedPrizes(l)' = held'[l]
  BY <1>3, <1>4, <1>6 DEF SumFunction
<1>. QED  BY <1>3, <1>7 DEF PrizesCovered

\* What PrizeInv reads of a league besides LeagueInv.
PrizeFields(l) == <<status[l], held[l], claimable[l], leaves[l], hasRoot[l], claimed[l]>>

\* A call on one league keeps the prizes of the others covered.
LEMMA OneLeagueCovered ==
  ASSUME PrizeInv, NEW l \in LeagueIds,
         \A m \in LeagueIds \ {l} : UNCHANGED PrizeFields(m),
         PrizesCovered(l)', ~hasRoot'[l] => \A p \in Participants : leaves'[l][p] = 0
  PROVE  LeavesNeedRoot' /\ (\A m \in LeagueIds : PrizesCovered(m))'
<1>1. ASSUME NEW m \in LeagueIds \ {l}
      PROVE  PrizesCovered(m)' /\ (~hasRoot'[m] => \A p \in Participants : leaves'[m][p] = 0)
  <2>1. /\ status'[m] = status[m] /\ held'[m] = held[m] /\ claimable'[m] = claimable[m]
        /\ leaves'[m] = leaves[m] /\ hasRoot'[m] = hasRoot[m] /\ claimed'[m] = claimed[m]
    BY <1>1 DEF PrizeFields
  <2>2. PrizesCovered(m) /\ m \in LeagueIds
    BY <1>1 DEF PrizeInv
  <2>3. PrizesCovered(m)'
    BY <2>1, <2>2, PrizesFrame
  <2>. QED  BY <1>1, <2>1, <2>3 DEF PrizeInv, LeavesNeedRoot
<1>. QED  BY <1>1 DEF LeavesNeedRoot

\* A call that does not settle and writes no prize.
LEMMA NoPrizeWritten ==
  ASSUME PrizeInv, NEW l \in LeagueIds, status'[l] # "Settled",
         \A m \in LeagueIds \ {l} : status'[m] = status[m] /\ held'[m] = held[m],
         UNCHANGED prizeState
  PROVE  LeavesNeedRoot' /\ (\A m \in LeagueIds : PrizesCovered(m))'
<1>1. PrizesCovered(l)'
  BY DEF PrizesCovered
<1>2. \A m \in LeagueIds \ {l} : UNCHANGED PrizeFields(m)
  BY DEF PrizeFields, prizeState
<1>3. ~hasRoot'[l] => \A p \in Participants : leaves'[l][p] = 0
  BY DEF prizeState, PrizeInv, LeavesNeedRoot
<1>. QED  BY <1>1, <1>2, <1>3, OneLeagueCovered

\* The owed prizes stay covered in every call.
LEMMA PrizeInvStep ==
  ASSUME PrizeInv, [Next]_vars
  PROVE  PrizeInv'
<1>. DEFINE Covered == LeavesNeedRoot' /\ (\A m \in LeagueIds : PrizesCovered(m))'
<1>0. LeagueInv /\ LeagueTypeOK /\ LeagueInv'
  BY LeagueInvStep DEF PrizeInv, LeagueInv
<1>1. CASE UNCHANGED leagueVars
  <2>1. ASSUME NEW m \in LeagueIds PROVE PrizesCovered(m)'
    BY <1>1, <2>1, PrizesFrame DEF PrizeInv, leagueVars, leagueState, prizeState, money
  <2>. QED  BY <1>0, <1>1, <2>1 DEF PrizeInv, LeavesNeedRoot, leagueVars, prizeState
<1>2. ASSUME NEW l \in LeagueIds, NEW fee \in EntryFees, CreateLeague(l, fee) PROVE Covered
  BY <1>0, <1>2, NoPrizeWritten DEF CreateLeague, LeagueTypeOK, money
<1>3. ASSUME NEW l \in LeagueIds, NEW p \in Participants,
             Deposit(l, p) \/ ClaimRefund(l, p) \/ ReturnDeposit(l, p) PROVE Covered
  BY <1>0, <1>3, NoPrizeWritten
     DEF Deposit, ClaimRefund, ReturnDeposit, TransferOut, LeagueTypeOK
<1>4. ASSUME NEW l \in LeagueIds, NEW p \in Participants, ClaimPrize(l, p) PROVE Covered
  <2>1. PrizesCovered(l)'
    BY <1>0, <1>4, ClaimPrizeCovered DEF PrizeInv
  <2>2. \A m \in LeagueIds \ {l} : UNCHANGED PrizeFields(m)
    BY <1>0, <1>4 DEF ClaimPrize, TransferOut, leagueState, PrizeFields, LeagueTypeOK
  <2>3. ~hasRoot'[l] => \A q \in Participants : leaves'[l][q] = 0
    BY <1>4 DEF ClaimPrize, PrizeInv, LeavesNeedRoot
  <2>. QED  BY <2>1, <2>2, <2>3, OneLeagueCovered
<1>5. ASSUME NEW l \in LeagueIds, NEW p \in Participants, ClaimPrizeMerkle(l, p) PROVE Covered
  <2>1. PrizesCovered(l)'
    BY <1>0, <1>5, ClaimMerkleCovered DEF PrizeInv
  <2>2. \A m \in LeagueIds \ {l} : UNCHANGED PrizeFields(m)
    BY <1>0, <1>5 DEF ClaimPrizeMerkle, TransferOut, leagueState, PrizeFields, LeagueTypeOK
  <2>3. ~hasRoot'[l] => \A q \in Participants : leaves'[l][q] = 0
    BY <1>5 DEF ClaimPrizeMerkle, PrizeInv, LeavesNeedRoot
  <2>. QED  BY <2>1, <2>2, <2>3, OneLeagueCovered
<1>6. ASSUME NEW l \in LeagueIds, Settlements(l) PROVE Covered
  <2>1. PrizesCovered(l)'
    BY <1>6, SettlementsCovered
  <2>2. PICK approvals, winners, amounts, fee, cut, pays :
           SettleInternal(l, approvals, winners, amounts, fee, cut, pays)
    BY <1>6, Zenon DEF Settlements, Settle, SettleWithAffiliate, SettleWithDistribution,
                       ResolveDisputePayout
  <2>3. \A m \in LeagueIds \ {l} : UNCHANGED PrizeFields(m)
    BY <1>0, <2>2 DEF SettleInternal, TransferOut, PrizeFields, LeagueTypeOK
  <2>4. ~hasRoot'[l] => \A q \in Participants : leaves'[l][q] = 0
    BY <2>2 DEF SettleInternal, PrizeInv, LeavesNeedRoot
  <2>. QED  BY <2>1, <2>3, <2>4, OneLeagueCovered
<1>7. ASSUME NEW l \in LeagueIds, NEW a \in Addresses, NEW fee \in PlatformFees,
             NEW tree \in MerkleTrees(total_deposited[l] - fee),
             SettleWithMerkleRoot(l, a, tree, fee) PROVE Covered
  <2>1. PrizesCovered(l)'
    BY <1>7, SettleMerkleCovered, LeagueAssumption
  <2>2. \A m \in LeagueIds \ {l} : UNCHANGED PrizeFields(m)
    BY <1>0, <1>7 DEF SettleWithMerkleRoot, TransferOut, PrizeFields, LeagueTypeOK
  <2>3. hasRoot'[l]
    BY <1>0, <1>7 DEF SettleWithMerkleRoot, LeagueTypeOK
  <2>. QED  BY <2>1, <2>2, <2>3, OneLeagueCovered
<1>8. ASSUME NEW l \in LeagueIds, NEW listed \in SUBSET Participants, RefundAll(l, listed)
      PROVE  Covered
  BY <1>0, <1>8, NoPrizeWritten DEF RefundAll, TransferOut, LeagueTypeOK
<1>9. ASSUME NEW l \in LeagueIds, NEW a, FreezeLeague(l, a) \/ UnfreezeLeague(l, a)
      PROVE  Covered
  <2>1. UNCHANGED <<leagueState, prizeState, money>>
    BY <1>9 DEF FreezeLeague, UnfreezeLeague
  <2>2. ASSUME NEW m \in LeagueIds PROVE PrizesCovered(m)'
    BY <2>1, <2>2, PrizesFrame DEF PrizeInv, leagueState, prizeState, money
  <2>. QED  BY <2>1, <2>2 DEF PrizeInv, LeavesNeedRoot, prizeState
<1>10. ASSUME NEW l \in LeagueIds, CancelLeague(l) PROVE Covered
  BY <1>0, <1>10, NoPrizeWritten DEF CancelLeague, LeagueTypeOK, money
<1>11. ASSUME LeagueNext PROVE Covered
  <2>. HIDE DEF Covered
  <2>. QED  BY <1>11, <1>2, <1>3, <1>4, <1>5, <1>6, <1>7, <1>8, <1>9, <1>10
            DEF LeagueNext, EmergencyRefundLeague, RefundDeposit, Refund, ResolveDisputeRefund
<1>. QED  BY <1>0, <1>1, <1>11 DEF Next, vars, PrizeInv

\* Every token that enters or leaves the contract in a league call is booked
\* on that league.
LEMMA MoneyMoves ==
  ASSUME LeagueInv, LeagueNext
  PROVE  \E l \in LeagueIds : \E d \in Int :
            /\ held' = [held EXCEPT ![l] = held[l] + d]
            /\ balance' = balance + d
<1>. DEFINE Moves == \E l \in LeagueIds : \E d \in Int :
                        /\ held' = [held EXCEPT ![l] = held[l] + d]
                        /\ balance' = balance + d
<1>0. LeagueTypeOK
  BY DEF LeagueInv
<1>1. ASSUME NEW l \in LeagueIds, NEW amount \in Int, TransferOut(l, amount) PROVE Moves
  <2>. DEFINE d == -amount
  <2>0. held[l] \in Int /\ balance \in Int
    BY <1>0 DEF LeagueTypeOK
  <2>1. d \in Int /\ held[l] - amount = held[l] + d /\ balance - amount = balance + d
    BY <2>0
  <2>2. held' = [held EXCEPT ![l] = held[l] - amount] /\ balance' = balance - amount
    BY <1>1 DEF TransferOut
  <2>3. held' = [held EXCEPT ![l] = held[l] + d] /\ balance' = balance + d
    BY <2>1, <2>2
  <2>. HIDE DEF d
  <2>. QED  BY <2>1, <2>3
<1>2. ASSUME NEW l \in LeagueIds, UNCHANGED money PROVE Moves
  <2>1. held' = [held EXCEPT ![l] = held[l] + 0] /\ balance' = balance + 0
    BY <1>0, <1>2 DEF money, LeagueTypeOK
  <2>2. 0 \in Int
    OBVIOUS
  <2>. QED  BY <2>1, <2>2, Zenon
<1>3. ASSUME NEW l \in LeagueIds, NEW p \in Participants, Deposit(l, p) PROVE Moves
  <2>1. entry_fee[l] \in Int /\ held' = [held EXCEPT ![l] = held[l] + entry_fee[l]]
        /\ balance' = balance + entry_fee[l]
    BY <1>0, <1>3 DEF Deposit, LeagueTypeOK
  <2>. QED  BY <2>1
<1>4. ASSUME NEW l \in LeagueIds, NEW p \in Participants,
             ClaimPrize(l, p) \/ ClaimPrizeMerkle(l, p) \/ ClaimRefund(l, p) \/ ReturnDeposit(l, p)
      PROVE  Moves
  <2>1. claimable[l][p] \in Int /\ leaves[l][p] \in Int /\ deposits[l][p] \in Int
    BY <1>0 DEF LeagueTypeOK, None
  <2>. HIDE DEF Moves
  <2>. QED  BY <1>1, <1>4, <2>1 DEF ClaimPrize, ClaimPrizeMerkle, ClaimRefund, ReturnDeposit
<1>5. ASSUME NEW l \in LeagueIds, Settlements(l) PROVE Moves
  <2>1. \E approvals, winners, amounts : \E fee \in PlatformFees :
           \E cut \in AffiliateCuts \cup {0}, pays \in BOOLEAN :
              SettleInternal(l, approvals, winners, amounts, fee, cut, pays)
    BY <1>5, ZenonT(60) DEF Settlements, Settle, SettleWithAffiliate, SettleWithDistribution,
                       ResolveDisputePayout
  <2>2. PICK fee \in PlatformFees, cut \in AffiliateCuts \cup {0}, pays \in BOOLEAN :
           TransferOut(l, IF pays THEN fee ELSE fee - cut)
    BY <2>1, ZenonT(60) DEF SettleInternal
  <2>3. (IF pays THEN fee ELSE fee - cut) \in Int
    BY LeagueAssumption
  <2>. HIDE DEF Moves
  <2>. QED  BY <1>1, <2>2, <2>3
<1>6. ASSUME NEW l \in LeagueIds, NEW a, NEW fee \in PlatformFees, NEW tree,
             SettleWithMerkleRoot(l, a, tree, fee) PROVE Moves
  <2>. HIDE DEF Moves
  <2>. QED  BY <1>1, <1>6, LeagueAssumption DEF SettleWithMerkleRoot
<1>7. ASSUME NEW l \in LeagueIds, NEW listed \in SUBSET Participants, RefundAll(l, listed)
      PROVE  Moves
  <2>. DEFINE paid == listed \cap Depositors(l)
  <2>1. Cardinality(paid) \in Nat
    BY <1>0, MembersFinite, FS_Intersection, FS_CardinalityType
  <2>2. entry_fee[l] * Cardinality(paid) \in Int
    BY <1>0, <2>1, TimesNat DEF LeagueTypeOK
  <2>3. TransferOut(l, entry_fee[l] * Cardinality(paid))
    BY <1>7 DEF RefundAll
  <2>. HIDE DEF paid, Moves
  <2>. QED  BY <1>1, <2>2, <2>3
<1>8. ASSUME NEW l \in LeagueIds, NEW a,
             FreezeLeague(l, a) \/ UnfreezeLeague(l, a) \/ CancelLeague(l) PROVE Moves
  <2>. HIDE DEF Moves
  <2>. QED  BY <1>2, <1>8 DEF FreezeLeague, UnfreezeLeague, CancelLeague
<1>9. ASSUME NEW l \in LeagueIds, NEW fee \in EntryFees, CreateLeague(l, fee) PROVE Moves
  <2>. HIDE DEF Moves
  <2>. QED  BY <1>2, <1>9 DEF CreateLeague
<1>. HIDE DEF Moves
<1>10. Moves
  BY <1>3, <1>4, <1>5, <1>6, <1>7, <1>8, <1>9
     DEF LeagueNext, EmergencyRefundLeague, RefundDeposit, Refund, ResolveDisputeRefund
<1>. QED  BY <1>10 DEF Moves

\* The books of all leagues together move with the token balance.
LEMMA BooksMove ==
  ASSUME LeagueInv, [Next]_vars
  PROVE  SumFunction(held') - SumFunction(held) = balance' - balance
<1>0. LeagueTypeOK /\ balance \in Int /\ held \in [LeagueIds -> Int] /\ IsFiniteSet(LeagueIds)
  BY LeagueAssumption DEF LeagueInv, LeagueTypeOK
<1>1. SumFunction(held) \in Int
  BY <1>0, SumInt DEF SumFunction
<1>2. CASE LeagueNext
  <2>1. PICK l \in LeagueIds, d \in Int :
           /\ held' = [held EXCEPT ![l] = held[l] + d]
           /\ balance' = balance + d
    BY <1>2, MoneyMoves
  <2>2. /\ DOMAIN held' = LeagueIds /\ DOMAIN held = LeagueIds
        /\ \A m \in LeagueIds : held[m] \in Int
        /\ held'[l] = held[l] + d /\ held'[l] \in Int
        /\ \A m \in LeagueIds \ {l} : held'[m] = held[m]
    BY <1>0, <2>1
  <2>3. SumFunctionOnSet(held', LeagueIds) =
          SumFunctionOnSet(held, LeagueIds) - held[l] + held'[l]
    BY <1>0, <2>2, SumUpdate
  <2>4. SumFunctionOnSet(held, LeagueIds) \in Int /\ held[l] \in Int
    BY <1>0, <1>1, <2>2 DEF SumFunction
  <2>. QED  BY <1>0, <2>1, <2>2, <2>3, <2>4 DEF SumFunction
<1>3. CASE UNCHANGED money
  BY <1>0, <1>1, <1>3 DEF money
<1>. QED  BY <1>2, <1>3 DEF Next, vars, leagueVars

\* What PartitionsSolvent says of every single league.
LEMMA LeagueCovered ==
  ASSUME PrizeInv, NEW l \in LeagueIds
  PROVE  held[l] >= Owed(l)
<1>1. CASE status[l] = "Settled"
  BY <1>1 DEF PrizeInv, PrizesCovered, Owed
<1>2. CASE status[l] # "Settled"
  BY <1>2, RefundsCovered DEF PrizeInv
<1>. QED  BY <1>1, <1>2

\* The initial books are empty.
LEMMA PrizeInvInit ==
  ASSUME Init
  PROVE  PrizeInv /\ balance = SumFunction(held)
<1>1. LeagueInv
  BY LeagueInvInit
<1>2. LeavesNeedRoot /\ \A l \in LeagueIds : PrizesCovered(l)
  BY DEF Init, LeagueStorageInit, LeavesNeedRoot, PrizesCovered
<1>3. SumFunctionOnSet(held, LeagueIds) = 0 * Cardinality(LeagueIds)
  BY LeagueAssumption, SumConstant DEF Init, LeagueStorageInit
<1>4. Cardinality(LeagueIds) \in Nat
  BY LeagueAssumption, FS_CardinalityType
<1>5. DOMAIN held = LeagueIds /\ balance = 0
  BY DEF Init, LeagueStorageInit
<1>6. SumFunctionOnSet(held, LeagueIds) = 0
  BY <1>3, <1>4
<1>. QED  BY <1>1, <1>2, <1>5, <1>6 DEF PrizeInv, SumFunction

\* Partitions that share one token balance are kept apart: no league owes
\* more than what it paid in and has not left, through settlements with
\* every curve, affiliate cuts, distributions and Merkle roots, and the
\* balance is what is held for all of them.
THEOREM PartitionsSolventTheorem == Spec => []PartitionsSolvent
<1>. DEFINE Inv == PrizeInv /\ balance = SumFunction(held)
<1>1. Init => Inv
  BY PrizeInvInit
<1>2. Inv /\ [Next]_vars => Inv'
  <2>1. SUFFICES ASSUME Inv, [Next]_vars PROVE Inv'
    OBVIOUS
  <2>2. PrizeInv'
    BY <2>1, PrizeInvStep
  <2>3. SumFunction(held') - SumFunction(held) = balance' - balance
    BY <2>1, BooksMove DEF PrizeInv
  <2>4. balance \in Int /\ balance' \in Int /\ SumFunction(held') \in Int
    <3>1. LeagueTypeOK /\ LeagueTypeOK'
      BY <2>1, <2>2 DEF PrizeInv, LeagueInv
    <3>2. DOMAIN held' = LeagueIds /\ \A l \in LeagueIds : held'[l] \in Int
      BY <3>1 DEF LeagueTypeOK
    <3>3. SumFunctionOnSet(held', LeagueIds) \in Int
      BY <3>2, LeagueAssumption, SumInt
    <3>. QED  BY <3>1, <3>2, <3>3 DEF LeagueTypeOK, SumFunction
  <2>. QED  BY <2>1, <2>2, <2>3, <2>4
<1>3. Inv => PartitionsSolvent
  BY LeagueCovered DEF PartitionsSolvent
<1>. QED  BY <1>1, <1>2, <1>3, PTL DEF Spec

-----------------------------------------------------------------------------
(* The participant pages.                                                  *)

\* The participants on the pages of a league.
Listed(l) == {entry[2] : entry \in pages[l]}

\* Every depositor is listed; no page starts beyond the number of people ever
\* listed, and the count covers the deposits that are still there.
PagesInv(l) ==
    /\ Cardinality(Members(l)) <= participant_count[l]
    /\ Members(l) \subseteq Listed(l)
    /\ \A entry \in pages[l] :
          entry[1] * PARTICIPANTS_PER_PAGE < Cardinality(Listed(l))

\* The page deposit picks does not start beyond the count.
LEMMA PageStart ==
  ASSUME NEW n \in Nat, NEW d \in Nat \ {0}
  PROVE  (n \div d) \in Nat /\ (n \div d) * d <= n
BY SMT

\* A page that starts within n entries is among the first n \div d + 1 pages.
LEMMA PageWithin ==
  ASSUME NEW n \in Nat, NEW d \in Nat \ {0}, NEW e \in Nat, e * d <= n
  PROVE  e <= n \div d
<1>1. PICK q \in Nat : q = n \div d /\ n < (q + 1) * d
  BY SMT
<1>2. ASSUME e > q PROVE FALSE
  <2>1. e >= q + 1
    BY <1>2
  <2>2. e * d >= (q + 1) * d
    BY <2>1
  <2>. QED  BY <1>1, <2>2
<1>. QED  BY <1>1, <1>2

\* The listed participants are finitely many.
LEMMA ListedFinite ==
  ASSUME LeagueTypeOK, NEW l \in LeagueIds
  PROVE  /\ Listed(l) \subseteq Participants
         /\ IsFiniteSet(Listed(l)) /\ Cardinality(Listed(l)) \in Nat
<1>1. Listed(l) \subseteq Participants
  BY DEF Listed, LeagueTypeOK
<1>. QED  BY <1>1, FS_Subset, FS_CardinalityType, LeagueAssumption

\* A step that adds no member and no entry, and keeps the count above what is
\* left of the members, keeps the pages.
LEMMA PagesFrame ==
  ASSUME NEW l \in LeagueIds, PagesInv(l), pages'[l] = pages[l],
         Members(l)' \subseteq Members(l), Cardinality(Members(l)') <= participant_count'[l]
  PROVE  PagesInv(l)'
<1>1. Listed(l)' = Listed(l)
  BY DEF Listed
<1>. QED  BY <1>1 DEF PagesInv

\* A deposit lists its participant on a page that starts within the count.
LEMMA PagesDeposit ==
  ASSUME LeagueInv, LeagueTypeOK', NEW l \in LeagueIds, NEW p \in Participants,
         Deposit(l, p), PagesInv(l)
  PROVE  PagesInv(l)'
<1>. DEFINE new == <<participant_count[l] \div PARTICIPANTS_PER_PAGE, p>>
<1>1. LeagueTypeOK /\ LeagueAccounted(l)
  BY DEF LeagueInv, DepositAccounting
<1>2. /\ pages'[l] = pages[l] \cup {new}
      /\ participant_count'[l] = participant_count[l] + 1
      /\ participant_count[l] \in Nat
      /\ participant_count[l] = Cardinality(Members(l))
      /\ p \notin Members(l)
  BY <1>1 DEF Deposit, LeagueTypeOK, LeagueAccounted, Members
<1>3. Members(l)' = Members(l) \cup {p}
  <2>1. entry_fee[l] # None /\ deposits'[l] = [deposits[l] EXCEPT ![p] = entry_fee[l]]
    BY <1>1 DEF Deposit, LeagueTypeOK, None
  <2>. QED  BY <1>1, <2>1 DEF Members, HasDeposit, LeagueTypeOK
<1>4. /\ IsFiniteSet(Members(l)')
      /\ Cardinality(Members(l)') = participant_count[l] + 1
  BY <1>1, <1>2, <1>3, MembersFinite, FS_AddElement
<1>5. Listed(l)' = Listed(l) \cup {p}
  <2>1. Listed(l)' = {entry[2] : entry \in pages[l] \cup {new}}
    BY <1>2 DEF Listed
  <2>2. new[2] = p
    OBVIOUS
  <2>. HIDE DEF new
  <2>. QED  BY <2>1, <2>2, Zenon DEF Listed
<1>6. /\ Members(l)' \subseteq Listed(l)'
      /\ Cardinality(Listed(l)') \in Nat /\ Cardinality(Listed(l)) \in Nat
      /\ Cardinality(Listed(l)) <= Cardinality(Listed(l)')
      /\ participant_count[l] + 1 <= Cardinality(Listed(l)')
  <2>1. Members(l)' \subseteq Listed(l)'
    BY <1>3, <1>5 DEF PagesInv
  <2>2. /\ IsFiniteSet(Listed(l)) /\ Cardinality(Listed(l)) \in Nat
        /\ IsFiniteSet(Listed(l) \cup {p}) /\ Cardinality(Listed(l) \cup {p}) \in Nat
    BY <1>1, ListedFinite, FS_AddElement, FS_CardinalityType
  <2>3. Cardinality(Listed(l)) <= Cardinality(Listed(l) \cup {p})
    BY <2>2, FS_Subset
  <2>4. Cardinality(Members(l)') <= Cardinality(Listed(l)')
    BY <1>5, <2>1, <2>2, FS_Subset
  <2>. QED  BY <1>4, <1>5, <2>1, <2>2, <2>3, <2>4
<1>7. ASSUME NEW entry \in pages'[l]
      PROVE  entry[1] * PARTICIPANTS_PER_PAGE < Cardinality(Listed(l)')
  <2>1. CASE entry = new
    <3>1. /\ (participant_count[l] \div PARTICIPANTS_PER_PAGE) * PARTICIPANTS_PER_PAGE
                <= participant_count[l]
          /\ participant_count[l] \div PARTICIPANTS_PER_PAGE \in Nat
      BY <1>2, PageStart, LeagueAssumption
    <3>2. entry[1] = participant_count[l] \div PARTICIPANTS_PER_PAGE
      BY <2>1
    <3>3. PICK start : start = entry[1] * PARTICIPANTS_PER_PAGE
      OBVIOUS
    <3>4. start \in Nat /\ start <= participant_count[l]
      BY <3>1, <3>2, <3>3, TimesNat, LeagueAssumption
    <3>. QED  BY <1>2, <1>6, <3>3, <3>4
  <2>2. CASE entry \in pages[l]
    <3>1. entry[1] \in Nat
      BY <1>1, <2>2 DEF LeagueTypeOK
    <3>2. PICK start : start = entry[1] * PARTICIPANTS_PER_PAGE
      OBVIOUS
    <3>3. start \in Nat
      BY <3>1, <3>2, TimesNat, LeagueAssumption
    <3>4. start < Cardinality(Listed(l))
      BY <2>2, <3>2 DEF PagesInv
    <3>. QED  BY <1>6, <3>2, <3>3, <3>4
  <2>. QED  BY <1>2, <2>1, <2>2
<1>8. Cardinality(Members(l)') <= participant_count'[l]
  BY <1>2, <1>4
<1>. QED  BY <1>6, <1>7, <1>8 DEF PagesInv

\* Each step keeps the pages: only deposit makes someone a member, and it
\* writes the page entry with it; no refund removes an entry.
LEMMA PagesStep ==
  ASSUME LeagueInv, LeagueTypeOK', [Next]_vars, NEW m \in LeagueIds, PagesInv(m)
  PROVE  PagesInv(m)'
<1>0. LeagueTypeOK
  BY DEF LeagueInv
<1>1. ASSUME pages'[m] = pages[m], deposits'[m] = deposits[m],
             participant_count'[m] = participant_count[m]
      PROVE  PagesInv(m)'
  <2>1. Members(m)' = Members(m)
    BY <1>1 DEF Members, HasDeposit
  <2>. QED  BY <1>1, <2>1, PagesFrame DEF PagesInv
<1>2. CASE UNCHANGED leagueVars
  BY <1>1, <1>2 DEF leagueVars, leagueState
<1>3. ASSUME NEW l \in LeagueIds, NEW p \in Participants, Deposit(l, p)
      PROVE  PagesInv(m)'
  <2>1. CASE m = l
    BY <1>3, <2>1, PagesDeposit
  <2>2. CASE m # l
    BY <1>0, <1>1, <1>3, <2>2 DEF Deposit, LeagueTypeOK
  <2>. QED  BY <2>1, <2>2
<1>4. ASSUME NEW l \in LeagueIds, NEW fee \in EntryFees, CreateLeague(l, fee)
      PROVE  PagesInv(m)'
  <2>1. CASE m = l
    <3>1. /\ pages'[m] = pages[m] /\ participant_count'[m] = 0
          /\ deposits'[m] = deposits[m] /\ ~Exists(m)
      BY <1>0, <1>4, <2>1 DEF CreateLeague, LeagueTypeOK
    <3>2. Members(m)' = {}
      BY <3>1 DEF Members, HasDeposit, LeagueInv, DepositIsFee
    <3>3. Cardinality(Members(m)') <= participant_count'[m]
      BY <3>1, <3>2, FS_EmptySet
    <3>. QED  BY <3>1, <3>2, <3>3, PagesFrame
  <2>2. CASE m # l
    BY <1>0, <1>1, <1>4, <2>2 DEF CreateLeague, LeagueTypeOK
  <2>. QED  BY <2>1, <2>2
<1>5. ASSUME NEW l \in LeagueIds, NEW p \in Participants, ReturnDeposit(l, p)
      PROVE  PagesInv(m)'
  <2>1. CASE m = l
    <3>1. /\ pages'[m] = pages[m] /\ participant_count'[m] = participant_count[m] - 1
          /\ deposits'[m] = [deposits[m] EXCEPT ![p] = None]
          /\ deposits[m][p] # None /\ participant_count[m] \in Nat
      BY <1>0, <1>5, <2>1 DEF ReturnDeposit, LeagueTypeOK, None
    <3>2. Members(m)' = Members(m) \ {p} /\ p \in Members(m)
      BY <1>0, <3>1 DEF Members, HasDeposit, LeagueTypeOK
    <3>3. Cardinality(Members(m)') = Cardinality(Members(m)) - 1
      BY <1>0, <3>2, MembersFinite, FS_RemoveElement
    <3>4. Cardinality(Members(m)') <= participant_count'[m]
      BY <1>0, <3>1, <3>3, MembersFinite DEF PagesInv
    <3>. QED  BY <3>1, <3>2, <3>4, PagesFrame
  <2>2. CASE m # l
    BY <1>0, <1>1, <1>5, <2>2 DEF ReturnDeposit, LeagueTypeOK
  <2>. QED  BY <2>1, <2>2
<1>6. ASSUME pages' = pages, participant_count' = participant_count,
             \A q \in Participants : deposits'[m][q] # None => deposits[m][q] # None
      PROVE  PagesInv(m)'
  <2>1. Members(m)' \subseteq Members(m)
    BY <1>6 DEF Members, HasDeposit
  <2>2. Cardinality(Members(m)') <= Cardinality(Members(m))
    BY <1>0, <2>1, MembersFinite, FS_Subset
  <2>3. /\ Cardinality(Members(m)') \in Nat /\ Cardinality(Members(m)) \in Nat
        /\ participant_count[m] \in Nat
    BY <1>0, <2>1, MembersFinite, FS_Subset, FS_CardinalityType DEF LeagueTypeOK
  <2>4. Cardinality(Members(m)') <= participant_count'[m]
    BY <1>6, <2>2, <2>3 DEF PagesInv
  <2>. QED  BY <1>6, <2>1, <2>4, PagesFrame
<1>7. ASSUME NEW l \in LeagueIds, NEW p \in Participants, ClaimRefund(l, p)
      PROVE  PagesInv(m)'
  <2>1. deposits[l][p] # None /\ deposits' = [deposits EXCEPT ![l][p] = 0]
    BY <1>7 DEF ClaimRefund, None
  <2>2. \A q \in Participants : deposits'[m][q] # None => deposits[m][q] # None
    BY <1>0, <2>1 DEF LeagueTypeOK
  <2>. QED  BY <1>6, <1>7, <2>2 DEF ClaimRefund
<1>8. ASSUME NEW l \in LeagueIds, NEW listed \in SUBSET Participants, RefundAll(l, listed)
      PROVE  PagesInv(m)'
  <2>1. \A q \in Participants : deposits'[m][q] = None \/ deposits'[m][q] = deposits[m][q]
    BY <1>0, <1>8 DEF RefundAll, LeagueTypeOK
  <2>. QED  BY <1>6, <1>8, <2>1 DEF RefundAll
<1>9. ASSUME NEW l \in LeagueIds, Settlements(l)
      PROVE  UNCHANGED <<deposits, pages, participant_count>>
  <2>1. \E approvals, winners, amounts, fee, cut, pays :
           SettleInternal(l, approvals, winners, amounts, fee, cut, pays)
    BY <1>9, Zenon DEF Settlements, Settle, SettleWithAffiliate, SettleWithDistribution,
                       ResolveDisputePayout
  <2>. QED  BY <2>1 DEF SettleInternal
<1>10. ASSUME NEW l \in LeagueIds, NEW p \in Participants,
              ClaimPrize(l, p) \/ ClaimPrizeMerkle(l, p)
       PROVE  UNCHANGED <<deposits, pages, participant_count>>
  BY <1>10 DEF ClaimPrize, ClaimPrizeMerkle, leagueState
<1>11. ASSUME UNCHANGED <<deposits, pages, participant_count>> PROVE PagesInv(m)'
  BY <1>1, <1>11
<1>12. CASE LeagueNext
  <2>1. ASSUME NEW l \in LeagueIds, NEW a,
               \/ \E fee \in PlatformFees :
                    \E tree \in MerkleTrees(total_deposited[l] - fee) :
                        SettleWithMerkleRoot(l, a, tree, fee)
               \/ FreezeLeague(l, a) \/ UnfreezeLeague(l, a) \/ CancelLeague(l)
        PROVE  UNCHANGED <<deposits, pages, participant_count>>
    BY <2>1 DEF SettleWithMerkleRoot, FreezeLeague, UnfreezeLeague, CancelLeague, leagueState
  <2>2. PICK l \in LeagueIds :
           \/ \E fee \in EntryFees : CreateLeague(l, fee)
           \/ \E p \in Participants :
                 \/ Deposit(l, p) \/ ClaimPrize(l, p) \/ ClaimPrizeMerkle(l, p)
                 \/ ReturnDeposit(l, p) \/ ClaimRefund(l, p)
           \/ Settlements(l)
           \/ \E a \in Addresses :
                 \/ \E fee \in PlatformFees :
                       \E tree \in MerkleTrees(total_deposited[l] - fee) :
                           SettleWithMerkleRoot(l, a, tree, fee)
                 \/ FreezeLeague(l, a) \/ UnfreezeLeague(l, a)
           \/ CancelLeague(l)
           \/ \E listed \in SUBSET Participants : RefundAll(l, listed)
    BY <1>12, Zenon DEF LeagueNext, EmergencyRefundLeague, RefundDeposit, Refund,
                        ResolveDisputeRefund
  <2>. QED  BY <1>3, <1>4, <1>5, <1>7, <1>8, <1>9, <1>10, <1>11, <2>1, <2>2
<1>. QED  BY <1>2, <1>12 DEF Next, vars

\* A reader of the announced participant pages misses nobody with a deposit
\* in a league in which nobody who is listed was paid back, and every
\* depositor is on some page however refunds moved participant_count, from
\* which deposit picks the page.
THEOREM DepositorListedTheorem == Spec => []DepositorListed
<1>. DEFINE Inv == \A l \in LeagueIds : PagesInv(l)
<1>1. Init => Inv
  <2>. SUFFICES ASSUME Init, NEW l \in LeagueIds PROVE PagesInv(l)
    OBVIOUS
  <2>1. pages[l] = {} /\ participant_count[l] = 0 /\ \A p \in Participants : deposits[l][p] = None
    BY DEF Init, LeagueStorageInit
  <2>2. Members(l) = {}
    BY <2>1 DEF Members, HasDeposit
  <2>. QED  BY <2>1, <2>2, FS_EmptySet DEF PagesInv
<1>2. LeagueInv /\ LeagueInv' /\ Inv /\ [Next]_vars => Inv'
  BY PagesStep DEF LeagueInv
<1>3. LeagueInv /\ Inv => DepositorListed
  <2>. SUFFICES ASSUME LeagueInv, Inv, NEW l \in LeagueIds, NEW p \in Participants,
                       HasDeposit(l, p),
                       \A other \in pages[l] : HasDeposit(l, other[2]) \/ other[2] \notin Participants
                PROVE  \E entry \in pages[l] :
                          entry[2] = p /\ entry[1] < GetParticipantPagesCount(l)
    <3>1. ASSUME LeagueInv, Inv, NEW l \in LeagueIds, NEW p \in Participants, HasDeposit(l, p)
          PROVE  \E entry \in pages[l] : entry[2] = p
      <4>1. p \in Members(l) /\ Members(l) \subseteq Listed(l)
        BY <3>1, Zenon DEF PagesInv, Members
      <4>2. p \in Listed(l)
        BY <4>1
      <4>. QED  BY <4>2 DEF Listed
    <3>. QED  BY <3>1 DEF DepositorListed
  <2>1. LeagueTypeOK /\ PagesInv(l)
    BY DEF LeagueInv
  <2>2. PICK entry \in pages[l] : entry[2] = p
    <3>1. p \in Members(l) /\ Members(l) \subseteq Listed(l)
      BY <2>1, Zenon DEF PagesInv, Members
    <3>. QED  BY <3>1, Zenon DEF Listed
  <2>3. Listed(l) \subseteq Members(l)
    BY <2>1, ListedFinite DEF Listed, Members
  <2>4. Cardinality(Listed(l)) <= Cardinality(Members(l))
    BY <2>1, <2>3, MembersFinite, FS_Subset
  <2>5. PICK start : start = entry[1] * PARTICIPANTS_PER_PAGE
    OBVIOUS
  <2>6. entry[1] \in Nat /\ start \in Nat /\ participant_count[l] \in Nat
    BY <2>1, <2>5, TimesNat, LeagueAssumption DEF LeagueTypeOK
  <2>7. start < participant_count[l]
    <3>1. start < Cardinality(Listed(l)) /\ Cardinality(Members(l)) <= participant_count[l]
      BY <2>1, <2>5 DEF PagesInv
    <3>2. Cardinality(Listed(l)) \in Nat /\ Cardinality(Members(l)) \in Nat
      BY <2>1, ListedFinite, MembersFinite
    <3>. QED  BY <2>4, <2>6, <3>1, <3>2
  <2>8. entry[1] <= (participant_count[l] - 1) \div PARTICIPANTS_PER_PAGE
    <3>1. participant_count[l] - 1 \in Nat /\ start <= participant_count[l] - 1
      BY <2>6, <2>7
    <3>. QED  BY <2>5, <2>6, <3>1, PageWithin, LeagueAssumption
  <2>9. (participant_count[l] - 1) \div PARTICIPANTS_PER_PAGE \in Nat
    BY <2>6, <2>7, PageStart, LeagueAssumption
  <2>10. entry[1] < GetParticipantPagesCount(l)
    BY <2>6, <2>7, <2>8, <2>9 DEF GetParticipantPagesCount
  <2>. QED  BY <2>2, <2>10
<1>. HIDE DEF Inv
<1>. QED  BY <1>1, <1>2, <1>3, LeagueInvariant, PTL DEF Spec

-----------------------------------------------------------------------------
(* Timelocked decisions, interleaved with every call on the leagues and on *)
(* the administration.                                                     *)

Executed == {i \in ProposalIds : withdrawal[i] # NoProposal /\ withdrawal[i].executed}
Amounts == [i \in ProposalIds |->
              IF withdrawal[i] = NoProposal THEN 0 ELSE withdrawal[i].amount]

\* Approvals are those of signers from the start, and an executed proposal
\* had enough of them after its timelock.
QuorumOf(i) ==
    withdrawal[i] # NoProposal =>
        /\ Initialized(Self)
        /\ withdrawal[i].approvals \subseteq SignerSet(Self)
        /\ withdrawal[i].executed =>
              /\ now >= withdrawal[i].unlock_ledger
              /\ Cardinality(withdrawal[i].approvals) >= threshold[Self]
              /\ Cardinality(SignerSet(Self)) >= 2 =>
                    Cardinality(withdrawal[i].approvals) >= 2

\* The pending upgrade carries the timelock of the last proposal.
UpgradeTimer ==
    pendingUpgrade # NoProposal =>
        /\ upgradeProposedAt \in Nat
        /\ pendingUpgrade.unlock_ledger = upgradeProposedAt + TIMELOCK_DELAY

\* What was withdrawn is the sum of the executed proposals, and with the
\* balance it makes up what the leagues' books say.
Accounts ==
    /\ withdrawn = SumFunctionOnSet(Amounts, Executed)
    /\ balance + withdrawn = SumFunction(held)

GovernanceInv ==
    /\ PrizeInv
    /\ GovernanceTypeOK
    /\ \A i \in ProposalIds : QuorumOf(i)
    /\ UpgradeTimer
    /\ Accounts

-----------------------------------------------------------------------------
(* Facts about the signers.                                                *)

\* The signers of an initialised contract are finitely many, and with two of
\* them the signer vector has two entries.
LEMMA SignersFinite ==
  ASSUME ControlTypeOK, Initialized(Self)
  PROVE  /\ IsFiniteSet(SignerSet(Self))
         /\ Cardinality(SignerSet(Self)) >= 2 => Len(signers[Self]) >= 2
<1>. DEFINE s == signers[Self]
            n == Len(s)
<1>1. s \in Seq(Addresses) /\ s # <<>>
  BY LeagueAssumption DEF ControlTypeOK, Initialized
<1>2. n \in Nat /\ DOMAIN s = 1..n /\ n # 0
  BY <1>1
<1>3. IsFiniteSet(1..n) /\ Cardinality(1..n) = n
  BY <1>2, FS_Interval
<1>4. s \in Surjection(1..n, SignerSet(Self))
  <2>1. s \in [1..n -> SignerSet(Self)]
    BY <1>1, <1>2 DEF SignerSet
  <2>2. \A a \in SignerSet(Self) : \E i \in 1..n : s[i] = a
    BY <1>2 DEF SignerSet
  <2>. QED  BY <2>1, <2>2 DEF Surjection
<1>. HIDE DEF n, s
<1>5. IsFiniteSet(SignerSet(Self)) /\ Cardinality(SignerSet(Self)) <= n
  BY <1>3, <1>4, FS_Surjection
<1>6. Cardinality(SignerSet(Self)) \in Nat
  BY <1>5, FS_CardinalityType
<1>. QED  BY <1>2, <1>5, <1>6 DEF n, s

\* No call changes the signers or the threshold of an initialised contract,
\* and the clock does not run backwards.
LEMMA ConfigFixed ==
  ASSUME ControlTypeOK, [Next]_vars, Initialized(Self)
  PROVE  /\ signers'[Self] = signers[Self]
         /\ threshold'[Self] = threshold[Self]
         /\ now' \in Nat /\ now' >= now
<1>. DEFINE Fixed == /\ signers'[Self] = signers[Self]
                     /\ threshold'[Self] = threshold[Self]
                     /\ now' \in Nat /\ now' >= now
<1>. USE DEF ControlTypeOK
<1>1. CASE UNCHANGED controlVars
  BY <1>1 DEF controlVars, configVars
<1>2. CASE LeagueNext
  BY <1>1, <1>2, LeagueKeepsControl
<1>3. ASSUME Tick PROVE Fixed
  BY <1>3 DEF Tick, configVars
<1>4. ASSUME NEW c \in Contracts, NEW a \in Addresses,
             Initialize(c, a) \/ Pause(c, a) \/ Unpause(c, a) \/ EmergencyPause(c, a)
      PROVE  Fixed
  <2>1. CASE Initialize(c, a)
    BY <2>1, LeagueAssumption DEF Initialize, Initialized
  <2>2. CASE Pause(c, a) \/ Unpause(c, a) \/ EmergencyPause(c, a)
    <3>1. UNCHANGED <<now, configVars>>
      BY <2>2 DEF Pause, Unpause, EmergencyPause, EnterPause
    <3>. QED  BY <3>1 DEF configVars
  <2>. QED  BY <1>4, <2>1, <2>2
<1>5. ASSUME NEW c \in Contracts, NEW list \in SignerLists, NEW n \in Nat,
             InitializeMultisig(c, list, n)
      PROVE  Fixed
  BY <1>5 DEF InitializeMultisig, Initialized
<1>6. ASSUME NEW c \in Contracts, NEW approvals \in SUBSET Addresses, NEW g,
             SetGuardian(c, approvals, g) \/ LinkFederationPeer(c, approvals, g)
      PROVE  Fixed
  BY <1>6 DEF SetGuardian, LinkFederationPeer
<1>7. ASSUME NEW c \in Contracts, NEW approvals \in SUBSET Addresses,
             MultisigPause(c, approvals) \/ MultisigUnpause(c, approvals)
      PROVE  Fixed
  BY <1>7 DEF MultisigPause, MultisigUnpause, EnterPause, configVars
<1>8. ASSUME ControlNext PROVE Fixed
  <2>. HIDE DEF Fixed
  <2>. QED  BY <1>3, <1>4, <1>5, <1>6, <1>7, <1>8, ControlSteps
<1>. QED  BY <1>1, <1>2, <1>8 DEF Next, vars

\* What RequiredThreshold asks for is the threshold, and two approvals where
\* there are two signers.
LEMMA RequiredIsQuorum ==
  ASSUME ControlTypeOK, Initialized(Self), NEW S \in SUBSET SignerSet(Self),
         Cardinality(S) >= RequiredThreshold
  PROVE  /\ Cardinality(S) >= threshold[Self]
         /\ Cardinality(SignerSet(Self)) >= 2 => Cardinality(S) >= 2
<1>1. Cardinality(S) \in Nat
  BY SignersFinite, FS_Subset, FS_CardinalityType
<1>2. threshold[Self] \in Nat
  BY LeagueAssumption DEF ControlTypeOK
<1>. QED  BY <1>1, <1>2, SignersFinite DEF RequiredThreshold

-----------------------------------------------------------------------------
(* The steps.                                                              *)

\* Reading the sum over the proposals.
LEMMA AccountTerms ==
  ASSUME GovernanceTypeOK
  PROVE  /\ IsFiniteSet(Executed)
         /\ \A i \in ProposalIds : Amounts[i] \in Nat
<1>1. IsFiniteSet(Executed)
  BY GovernanceAssumption, FS_Subset DEF Executed
<1>2. ASSUME NEW i \in ProposalIds PROVE Amounts[i] \in Nat
  BY <1>2 DEF Amounts, GovernanceTypeOK, Withdrawals
<1>. QED  BY <1>1, <1>2

\* A step of the leagues or of the administration.
LEMMA LeagueStepGoverned ==
  ASSUME GovernanceInv, [Next]_vars, UNCHANGED governanceVars
  PROVE  GovernanceInv'
<1>. USE DEF GovernanceInv
<1>0. ControlTypeOK /\ LeagueInv
  BY DEF PrizeInv, LeagueInv, ControlInv
<1>1. PrizeInv'
  BY PrizeInvStep
<1>2. GovernanceTypeOK'
  BY DEF GovernanceTypeOK, governanceVars
<1>3. ASSUME NEW i \in ProposalIds PROVE QuorumOf(i)'
  <2>1. SUFFICES ASSUME withdrawal[i] # NoProposal PROVE QuorumOf(i)'
    BY DEF QuorumOf, governanceVars
  <2>2. withdrawal' = withdrawal /\ QuorumOf(i) /\ Initialized(Self)
    BY <2>1 DEF governanceVars, QuorumOf
  <2>3. /\ signers'[Self] = signers[Self] /\ threshold'[Self] = threshold[Self]
        /\ now' \in Nat /\ now' >= now
    BY <1>0, <2>2, ConfigFixed
  <2>4. SignerSet(Self)' = SignerSet(Self) /\ Initialized(Self)'
    BY <2>2, <2>3 DEF SignerSet, Initialized
  <2>5. now \in Nat /\ withdrawal[i].unlock_ledger \in Nat
    BY <1>0, <2>1 DEF ControlTypeOK, GovernanceTypeOK, Withdrawals
  <2>. QED  BY <2>1, <2>2, <2>3, <2>4, <2>5 DEF QuorumOf
<1>4. UpgradeTimer'
  BY DEF UpgradeTimer, governanceVars
<1>5. Accounts'
  <2>1. Amounts' = Amounts /\ Executed' = Executed /\ withdrawn' = withdrawn
    BY DEF Amounts, Executed, governanceVars
  <2>2. SumFunction(held') - SumFunction(held) = balance' - balance
    BY <1>0, BooksMove
  <2>3. balance \in Int /\ balance' \in Int /\ withdrawn \in Int
    BY <1>1 DEF PrizeInv, LeagueInv, LeagueTypeOK, GovernanceTypeOK
  <2>4. SumFunction(held') \in Int
    <3>1. DOMAIN held' = LeagueIds /\ \A l \in LeagueIds : held'[l] \in Int
      BY <1>1 DEF PrizeInv, LeagueInv, LeagueTypeOK
    <3>2. SumFunctionOnSet(held', LeagueIds) \in Int
      BY <3>1, LeagueAssumption, SumInt
    <3>. QED  BY <3>1, <3>2 DEF SumFunction
  <2>. QED  BY <2>1, <2>2, <2>3, <2>4 DEF Accounts
<1>. QED  BY <1>1, <1>2, <1>3, <1>4, <1>5

\* A step that keeps the accounts of the leagues and all executed proposals:
\* the books of the withdrawals do not move.
LEMMA AccountsKept ==
  ASSUME Accounts, GovernanceTypeOK, Executed' = Executed,
         \A i \in Executed : Amounts'[i] = Amounts[i], UNCHANGED <<withdrawn, balance, held>>
  PROVE  Accounts'
<1>1. SumFunctionOnSet(Amounts', Executed) = SumFunctionOnSet(Amounts, Executed)
  BY AccountTerms, SumCongruence
<1>. QED  BY <1>1 DEF Accounts

\* propose_fee_withdrawal stores a proposal with one approval.
LEMMA ProposeFeeWithdrawalStep ==
  ASSUME GovernanceInv, NEW a \in Addresses, NEW id \in ProposalIds,
         NEW amount \in WithdrawalAmounts, ProposeFeeWithdrawal(a, id, amount)
  PROVE  GovernanceInv'
<1>. USE DEF GovernanceInv
<1>0. ControlTypeOK /\ now \in Nat
  BY DEF PrizeInv, LeagueInv, ControlInv, ControlTypeOK
<1>1. PICK new : new = [amount |-> amount, unlock_ledger |-> now + TIMELOCK_DELAY,
                        approvals |-> {a}, executed |-> FALSE]
  OBVIOUS
<1>2. new \in Withdrawals
  BY <1>0, <1>1, GovernanceAssumption DEF ProposeFeeWithdrawal, Withdrawals
<1>3. new # NoProposal
  BY <1>2, GovernanceAssumption
<1>4. new.approvals = {a} /\ new.executed = FALSE
  BY <1>1
<1>5. /\ withdrawal' = [withdrawal EXCEPT ![id] = new]
      /\ withdrawal[id] = NoProposal
      /\ Initialized(Self) /\ a \in SignerSet(Self)
      /\ UNCHANGED <<vars, pendingUpgrade, withdrawn, upgradeProposedAt>>
  BY <1>1 DEF ProposeFeeWithdrawal, IsSigner
<1>6. PrizeInv'
  BY <1>5, PrizeInvStep
<1>7. GovernanceTypeOK'
  BY <1>2, <1>5 DEF GovernanceTypeOK
<1>8. /\ withdrawal'[id] = new
      /\ \A i \in ProposalIds \ {id} : withdrawal'[i] = withdrawal[i]
  BY <1>5 DEF GovernanceTypeOK
<1>9. UNCHANGED <<signers, threshold, now>>
  BY <1>5 DEF vars, controlVars, configVars
<1>10. ASSUME NEW i \in ProposalIds PROVE QuorumOf(i)'
  <2>1. SignerSet(Self)' = SignerSet(Self) /\ Initialized(Self)' = Initialized(Self)
    BY <1>9 DEF SignerSet, Initialized
  <2>2. CASE i = id
    BY <1>4, <1>5, <1>8, <2>1, <2>2 DEF QuorumOf
  <2>3. CASE i # id
    <3>1. withdrawal'[i] = withdrawal[i] /\ QuorumOf(i)
      BY <1>8, <2>3
    <3>. QED  BY <1>9, <2>1, <3>1 DEF QuorumOf
  <2>. QED  BY <2>2, <2>3
<1>11. UpgradeTimer'
  BY <1>5 DEF UpgradeTimer
<1>12. Accounts'
  <2>1. id \notin Executed /\ id \notin Executed'
    BY <1>4, <1>5, <1>8 DEF Executed
  <2>2. Executed' = Executed
    BY <1>8, <2>1 DEF Executed
  <2>3. \A i \in Executed : Amounts'[i] = Amounts[i]
    BY <1>8, <2>1 DEF Amounts, Executed
  <2>4. UNCHANGED <<withdrawn, balance, held>>
    BY <1>5 DEF vars, leagueVars, money
  <2>. QED  BY <2>2, <2>3, <2>4, AccountsKept
<1>. QED  BY <1>6, <1>7, <1>10, <1>11, <1>12

\* approve_fee_withdrawal adds one signer to an open proposal.
LEMMA ApproveFeeWithdrawalStep ==
  ASSUME GovernanceInv, NEW a \in Addresses, NEW id \in ProposalIds,
         ApproveFeeWithdrawal(a, id)
  PROVE  GovernanceInv'
<1>. USE DEF GovernanceInv
<1>1. PICK old : old = withdrawal[id]
  OBVIOUS
<1>2. old \in Withdrawals /\ old # NoProposal /\ ~old.executed
  BY <1>1 DEF ApproveFeeWithdrawal, GovernanceTypeOK
<1>3. PICK new : new = [old EXCEPT !.approvals = old.approvals \cup {a}]
  OBVIOUS
<1>4. new \in Withdrawals /\ new.approvals = old.approvals \cup {a}
      /\ new.executed = old.executed /\ new.amount = old.amount
  BY <1>2, <1>3 DEF Withdrawals
<1>5. new # NoProposal
  BY <1>4, GovernanceAssumption
<1>6. /\ withdrawal' = [withdrawal EXCEPT ![id] = new]
      /\ Initialized(Self) /\ a \in SignerSet(Self)
      /\ UNCHANGED <<vars, pendingUpgrade, withdrawn, upgradeProposedAt>>
  BY <1>1, <1>3 DEF ApproveFeeWithdrawal, IsSigner
<1>7. PrizeInv'
  BY <1>6, PrizeInvStep
<1>8. GovernanceTypeOK'
  BY <1>4, <1>6 DEF GovernanceTypeOK
<1>9. /\ withdrawal'[id] = new
      /\ \A i \in ProposalIds \ {id} : withdrawal'[i] = withdrawal[i]
  BY <1>6 DEF GovernanceTypeOK
<1>10. UNCHANGED <<signers, threshold, now>>
  BY <1>6 DEF vars, controlVars, configVars
<1>11. ASSUME NEW i \in ProposalIds PROVE QuorumOf(i)'
  <2>1. SignerSet(Self)' = SignerSet(Self) /\ Initialized(Self)' = Initialized(Self)
    BY <1>10 DEF SignerSet, Initialized
  <2>2. CASE i = id
    <3>1. old.approvals \subseteq SignerSet(Self)
      BY <1>1, <1>2 DEF QuorumOf
    <3>. QED  BY <1>2, <1>4, <1>6, <1>9, <2>1, <2>2, <3>1 DEF QuorumOf
  <2>3. CASE i # id
    <3>1. withdrawal'[i] = withdrawal[i] /\ QuorumOf(i)
      BY <1>9, <2>3
    <3>. QED  BY <1>10, <2>1, <3>1 DEF QuorumOf
  <2>. QED  BY <2>2, <2>3
<1>12. UpgradeTimer'
  BY <1>6 DEF UpgradeTimer
<1>13. Accounts'
  <2>1. id \notin Executed /\ id \notin Executed'
    BY <1>1, <1>2, <1>4, <1>9 DEF Executed
  <2>2. Executed' = Executed
    BY <1>9, <2>1 DEF Executed
  <2>3. \A i \in Executed : Amounts'[i] = Amounts[i]
    BY <1>9, <2>1 DEF Amounts, Executed
  <2>4. UNCHANGED <<withdrawn, balance, held>>
    BY <1>6 DEF vars, leagueVars, money
  <2>. QED  BY <2>2, <2>3, <2>4, AccountsKept
<1>. QED  BY <1>7, <1>8, <1>11, <1>12, <1>13

\* The books of the leagues do not read the balance.
LEMMA BalanceOnly ==
  ASSUME PrizeInv, balance' \in Int,
         UNCHANGED <<controlVars, leagueState, deposits, pages, frozen, prizeState, held>>
  PROVE  PrizeInv'
<1>. USE DEF leagueState, prizeState, PrizeInv, LeagueInv
<1>1. ControlInv'
  BY ControlInvStep
<1>2. LeagueTypeOK'
  BY DEF LeagueTypeOK
<1>3. DepositIsFee'
  BY DEF DepositIsFee, Exists
<1>4. DepositAccounting'
  <2>1. SUFFICES ASSUME NEW m \in LeagueIds PROVE LeagueAccounted(m)'
    BY DEF DepositAccounting
  <2>2. UNCHANGED LeagueFields(m)
    BY DEF LeagueFields
  <2>. QED  BY <2>2, AccountedFrame DEF DepositAccounting
<1>5. FreezeEndsAtSettlement'
  BY DEF FreezeEndsAtSettlement
<1>6. ASSUME NEW m \in LeagueIds PROVE PrizesCovered(m)'
  BY <1>6, PrizesFrame
<1>7. LeavesNeedRoot'
  BY DEF LeavesNeedRoot
<1>. QED  BY <1>1, <1>2, <1>3, <1>4, <1>5, <1>6, <1>7

\* execute_fee_withdrawal takes the amount of one proposal, once.
LEMMA ExecuteFeeWithdrawalStep ==
  ASSUME GovernanceInv, NEW a \in Addresses, NEW id \in ProposalIds,
         ExecuteFeeWithdrawal(a, id)
  PROVE  GovernanceInv'
<1>. USE DEF GovernanceInv
<1>0. ControlTypeOK /\ now \in Nat /\ balance \in Int /\ withdrawn \in Nat
  BY DEF PrizeInv, LeagueInv, ControlInv, ControlTypeOK, LeagueTypeOK, GovernanceTypeOK
<1>1. PICK old : old = withdrawal[id]
  OBVIOUS
<1>2. old \in Withdrawals /\ old # NoProposal /\ ~old.executed
  BY <1>1 DEF ExecuteFeeWithdrawal, GovernanceTypeOK
<1>3. PICK new : new = [old EXCEPT !.executed = TRUE]
  OBVIOUS
<1>4. /\ new \in Withdrawals /\ new.executed
      /\ new.approvals = old.approvals /\ new.amount = old.amount
      /\ new.unlock_ledger = old.unlock_ledger
  BY <1>2, <1>3 DEF Withdrawals
<1>5. new # NoProposal /\ old.amount \in Nat
  BY <1>2, <1>4, GovernanceAssumption DEF Withdrawals
<1>6. /\ withdrawal' = [withdrawal EXCEPT ![id] = new]
      /\ now >= old.unlock_ledger
      /\ Cardinality(old.approvals) >= RequiredThreshold
      /\ balance' = balance - old.amount
      /\ withdrawn' = withdrawn + old.amount
      /\ UNCHANGED <<controlVars, leagueState, deposits, pages, frozen, prizeState,
                     held, pendingUpgrade, upgradeProposedAt>>
  BY <1>1, <1>3 DEF ExecuteFeeWithdrawal
<1>7. PrizeInv'
  BY <1>0, <1>5, <1>6, BalanceOnly
<1>8. GovernanceTypeOK'
  BY <1>0, <1>4, <1>5, <1>6 DEF GovernanceTypeOK
<1>9. /\ withdrawal'[id] = new
      /\ \A i \in ProposalIds \ {id} : withdrawal'[i] = withdrawal[i]
  BY <1>6 DEF GovernanceTypeOK
<1>10. UNCHANGED <<signers, threshold, now>>
  BY <1>6 DEF controlVars, configVars
<1>11. ASSUME NEW i \in ProposalIds PROVE QuorumOf(i)'
  <2>1. SignerSet(Self)' = SignerSet(Self) /\ Initialized(Self)' = Initialized(Self)
    BY <1>10 DEF SignerSet, Initialized
  <2>2. CASE i = id
    <3>1. Initialized(Self) /\ old.approvals \subseteq SignerSet(Self)
      BY <1>1, <1>2 DEF QuorumOf
    <3>2. /\ Cardinality(old.approvals) >= threshold[Self]
          /\ Cardinality(SignerSet(Self)) >= 2 => Cardinality(old.approvals) >= 2
      BY <1>0, <1>6, <3>1, RequiredIsQuorum
    <3>. QED  BY <1>4, <1>6, <1>9, <1>10, <2>1, <2>2, <3>1, <3>2 DEF QuorumOf
  <2>3. CASE i # id
    <3>1. withdrawal'[i] = withdrawal[i] /\ QuorumOf(i)
      BY <1>9, <2>3
    <3>. QED  BY <1>10, <2>1, <3>1 DEF QuorumOf
  <2>. QED  BY <2>2, <2>3
<1>12. UpgradeTimer'
  BY <1>6 DEF UpgradeTimer
<1>13. Accounts'
  <2>1. id \notin Executed /\ id \in Executed'
    BY <1>1, <1>2, <1>4, <1>5, <1>9 DEF Executed
  <2>2. Executed' \ {id} = Executed
    BY <1>9, <2>1 DEF Executed
  <2>3. Amounts'[id] = old.amount /\ \A i \in Executed : Amounts'[i] = Amounts[i]
    BY <1>4, <1>5, <1>9, <2>1 DEF Amounts, Executed
  <2>4. IsFiniteSet(Executed) /\ IsFiniteSet(Executed')
        /\ \A i \in Executed' : Amounts'[i] \in Int
    <3>1. IsFiniteSet(Executed)
      BY AccountTerms
    <3>2. IsFiniteSet(Executed')
      BY <2>1, <2>2, <3>1, FS_AddElement
    <3>3. ASSUME NEW i \in ProposalIds PROVE Amounts'[i] \in Nat
      BY <1>8, <3>3 DEF Amounts, GovernanceTypeOK, Withdrawals
    <3>4. Executed' \subseteq ProposalIds
      BY DEF Executed
    <3>. QED  BY <3>1, <3>2, <3>3, <3>4
  <2>5. SumFunctionOnSet(Amounts', Executed') =
           Amounts'[id] + SumFunctionOnSet(Amounts', Executed' \ {id})
    BY <2>1, <2>4, SumRemove
  <2>6. SumFunctionOnSet(Amounts', Executed) = SumFunctionOnSet(Amounts, Executed)
    BY <2>3, <2>4, SumCongruence
  <2>7. withdrawn' = SumFunctionOnSet(Amounts', Executed')
    <3>1. withdrawn = SumFunctionOnSet(Amounts, Executed)
      BY DEF Accounts
    <3>2. SumFunctionOnSet(Amounts', Executed') = old.amount + withdrawn
      BY <2>2, <2>3, <2>5, <2>6, <3>1
    <3>. QED  BY <1>0, <1>5, <1>6, <3>2
  <2>8. balance' + withdrawn' = balance + withdrawn
    BY <1>0, <1>5, <1>6
  <2>. QED  BY <1>6, <2>7, <2>8 DEF Accounts
<1>. QED  BY <1>7, <1>8, <1>11, <1>12, <1>13

\* propose_upgrade and upgrade.
LEMMA UpgradeStep ==
  ASSUME GovernanceInv, NEW hash \in WasmHashes,
         \/ \E a \in Addresses : ProposeUpgrade(a, hash)
         \/ \E approvals \in SUBSET Addresses : Upgrade(approvals, hash)
  PROVE  GovernanceInv'
<1>. USE DEF GovernanceInv
<1>0. now \in Nat
  BY DEF PrizeInv, LeagueInv, ControlInv, ControlTypeOK
<1>1. UNCHANGED <<vars, withdrawal, withdrawn>>
  BY DEF ProposeUpgrade, Upgrade
<1>2. PrizeInv'
  BY <1>1, PrizeInvStep
<1>3. GovernanceTypeOK' /\ UpgradeTimer'
  <2>1. CASE \E a \in Addresses : ProposeUpgrade(a, hash)
    <3>1. PICK new : new = [wasm_hash |-> hash, unlock_ledger |-> now + TIMELOCK_DELAY]
      OBVIOUS
    <3>2. pendingUpgrade' = new /\ upgradeProposedAt' = now
      BY <2>1, <3>1 DEF ProposeUpgrade
    <3>3. now + TIMELOCK_DELAY \in Nat
      BY <1>0, GovernanceAssumption
    <3>4. new \in Upgrades /\ new.unlock_ledger = now + TIMELOCK_DELAY
      BY <3>1, <3>3 DEF Upgrades
    <3>. QED  BY <1>0, <1>1, <3>2, <3>4 DEF GovernanceTypeOK, UpgradeTimer
  <2>2. CASE \E approvals \in SUBSET Addresses : Upgrade(approvals, hash)
    BY <1>1, <2>2 DEF Upgrade, GovernanceTypeOK, UpgradeTimer
  <2>. QED  BY <2>1, <2>2
<1>4. ASSUME NEW i \in ProposalIds PROVE QuorumOf(i)'
  <2>1. UNCHANGED <<signers, threshold, now, withdrawal>>
    BY <1>1 DEF vars, controlVars, configVars
  <2>. QED  BY <2>1, ZenonT(60) DEF QuorumOf, SignerSet, Initialized
<1>5. Accounts'
  <2>1. UNCHANGED <<balance, held>>
    BY <1>1 DEF vars, leagueVars, money
  <2>. QED  BY <1>1, <2>1 DEF Accounts, Amounts, Executed
<1>. QED  BY <1>2, <1>3, <1>4, <1>5

-----------------------------------------------------------------------------
(* The theorems.                                                           *)

GovernedNext == (Next /\ UNCHANGED governanceVars) \/ GovernanceNext

\* The invariant holds before the first call.
LEMMA GovernanceInvInit ==
  ASSUME Init, GovernanceInit
  PROVE  GovernanceInv
<1>1. PrizeInv /\ balance = SumFunction(held)
  BY PrizeInvInit
<1>2. Executed = {}
  BY DEF GovernanceInit, Executed
<1>3. balance \in Int
  BY <1>1 DEF PrizeInv, LeagueInv, LeagueTypeOK
<1>4. Accounts
  BY <1>1, <1>2, <1>3, SumEmpty DEF Accounts, GovernanceInit
<1>. QED  BY <1>1, <1>4 DEF GovernanceInv, GovernanceInit, GovernanceTypeOK, QuorumOf,
                            UpgradeTimer, None

\* Every step, of the governance or of the rest of the contract, preserves it.
LEMMA GovernanceInvStep ==
  ASSUME GovernanceInv, [GovernedNext]_allVars
  PROVE  GovernanceInv'
<1>1. CASE Next /\ UNCHANGED governanceVars
  BY <1>1, LeagueStepGoverned
<1>2. CASE UNCHANGED allVars
  BY <1>2, LeagueStepGoverned DEF allVars
<1>3. CASE GovernanceNext
  BY <1>3, ProposeFeeWithdrawalStep, ApproveFeeWithdrawalStep, ExecuteFeeWithdrawalStep,
     UpgradeStep DEF GovernanceNext
<1>. QED  BY <1>1, <1>2, <1>3 DEF GovernedNext

\* The decisions of the signers, the leagues and the pause control together
\* keep the invariant: types, quorums, timelocks and accounts.
THEOREM GovernanceInvariant == GovernanceSpec => []GovernanceInv
<1>1. Init /\ GovernanceInit => GovernanceInv
  BY GovernanceInvInit
<1>2. GovernanceInv /\ [GovernedNext]_allVars => GovernanceInv'
  BY GovernanceInvStep
<1>. QED  BY <1>1, <1>2, PTL DEF GovernanceSpec, GovernedNext

\* Every token that left the contract other than for a league belongs to an
\* executed proposal, each of which was paid once; no league's books notice.
THEOREM WithdrawalsAccountedTheorem == GovernanceSpec => []WithdrawalsAccounted
<1>1. GovernanceInv => WithdrawalsAccounted
  BY LeagueCovered DEF GovernanceInv, Accounts, Amounts, Executed, WithdrawalsAccounted
<1>. QED  BY <1>1, GovernanceInvariant, PTL

\* No withdrawal is executed before its timelock, with fewer approvals than
\* the threshold, with an approval of somebody else, or by one signer of two.
THEOREM WithdrawalNeedsQuorumTheorem == GovernanceSpec => []WithdrawalNeedsQuorum
<1>1. GovernanceInv => WithdrawalNeedsQuorum
  BY DEF GovernanceInv, QuorumOf, WithdrawalNeedsQuorum
<1>. QED  BY <1>1, GovernanceInvariant, PTL

\* The only step that ends a pending upgrade waits for the timelock of the
\* last proposal.
LEMMA UpgradeWaitsStep ==
  ASSUME GovernanceInv, [GovernedNext]_allVars, pendingUpgrade # NoProposal,
         pendingUpgrade' = NoProposal
  PROVE  now >= upgradeProposedAt + TIMELOCK_DELAY
<1>1. ASSUME NEW a, NEW hash \in WasmHashes, ProposeUpgrade(a, hash) PROVE FALSE
  <2>1. now + TIMELOCK_DELAY \in Nat
    BY GovernanceAssumption DEF GovernanceInv, PrizeInv, LeagueInv, ControlInv, ControlTypeOK
  <2>2. [wasm_hash |-> hash, unlock_ledger |-> now + TIMELOCK_DELAY] \in Upgrades
    BY <2>1 DEF Upgrades
  <2>. QED  BY <1>1, <2>2, GovernanceAssumption DEF ProposeUpgrade
<1>2. ASSUME NEW approvals, NEW hash, Upgrade(approvals, hash)
      PROVE  now >= upgradeProposedAt + TIMELOCK_DELAY
  BY <1>2 DEF Upgrade, GovernanceInv, UpgradeTimer
<1>3. pendingUpgrade' # pendingUpgrade
  OBVIOUS
<1>. QED  BY <1>1, <1>2, <1>3 DEF GovernedNext, GovernanceNext, allVars, governanceVars,
              ProposeFeeWithdrawal, ApproveFeeWithdrawal, ExecuteFeeWithdrawal

\* An upgrade runs only TIMELOCK_DELAY after the latest proposal, whichever
\* proposals it replaced.
THEOREM UpgradeWaitsTheorem == GovernanceSpec => UpgradeWaits
<1>1. GovernanceInv /\ [GovernedNext]_allVars =>
        (pendingUpgrade # NoProposal /\ pendingUpgrade' = NoProposal =>
           now >= upgradeProposedAt + TIMELOCK_DELAY)
  BY UpgradeWaitsStep
<1>. QED  BY <1>1, GovernanceInvariant, PTL DEF GovernanceSpec, GovernedNext, UpgradeWaits
=============================================================================
