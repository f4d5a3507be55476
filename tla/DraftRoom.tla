------------------------------ MODULE DraftRoom ------------------------------
(* A snake draft: DraftRoomManager keeps the clock, the turn and the       *)
(* position quotas, DraftService the owners and a turn of its own, behind  *)
(* one queue per league (withLeagueLock).  makePick checks, waits for the  *)
(* service, and only then counts the pick, so picks sent together overlap. *)
EXTENDS Naturals, Sequences, FiniteSets

CONSTANTS
    Order,          \* participants, in draft order
    Rounds,         \* rounds
    Footballers,    \* availablePlayers, as numbers: the best has the lowest
    PositionOf,     \* position of each
    Limits,         \* SQUAD_POSITION_LIMITS
    TimePerPick,    \* timePerPickSec
    MaxOverlap,     \* bound: picks under way at a time
    Nobody

ASSUME DraftAssumption ==
    /\ Order \in Seq({Order[i] : i \in DOMAIN Order})
    /\ Len(Order) > 0 /\ Rounds \in Nat \ {0} /\ TimePerPick \in Nat \ {0}
    /\ Footballers \subseteq Nat
    /\ MaxOverlap \in Nat /\ \A i \in DOMAIN Order : Order[i] # Nobody

VARIABLES
    draft,        \* status of the manager
    pickIndex,    \* currentPickIndex of the manager
    seconds,      \* remainingSeconds
    squad,        \* squadDraftedPlayers
    owner,        \* ownershipMap
    picks,        \* the squads of room.picks, in order
    waiting,      \* executeDraftPick calls behind the lock
    picked        \* executed picks that makePick has not counted yet
draftVars == <<draft, pickIndex, seconds, squad, owner, picks, waiting, picked>>

Size == Len(Order)
Squads == {Order[i] : i \in 1..Size}
Pick(s, p) == [squad |-> s, player |-> p]
PickSet == [squad : Squads, player : Footballers]

\* Types of every variable.
DraftTypeOK ==
    /\ draft \in {"NOT_STARTED", "IN_PROGRESS", "COMPLETED"}
    /\ pickIndex \in Nat /\ seconds \in 0..TimePerPick
    /\ squad \in [Squads -> SUBSET Footballers]
    /\ owner \in [Footballers -> Squads \cup {Nobody}]
    /\ picks \in Seq(Squads)
    /\ waiting \in Seq(PickSet) /\ picked \in Seq(PickSet)

\* The constructor: createDraftRoom starts the room of the service.
DraftInit ==
    /\ draft = "NOT_STARTED"
    /\ pickIndex = 0
    /\ seconds = TimePerPick
    /\ squad = [s \in Squads |-> {}]
    /\ owner = [p \in Footballers |-> Nobody]
    /\ picks = <<>> /\ waiting = <<>> /\ picked = <<>>

\* buildSnakePickOrder, for a pick counted from 0.
DraftSequence(k) ==
    LET place == k % Size
    IN  IF (k \div Size) % 2 = 0 THEN Order[place + 1] ELSE Order[Size - place]

\* currentTurnSquadId of the room, from its own index.
RoomTurn ==
    LET nextRound == Len(picks) \div Size + 1
        roundIndex == Len(picks) % Size
    IN  IF nextRound % 2 = 1 THEN Order[roundIndex + 1] ELSE Order[Size - roundIndex]

IsPlayerEligibleForSquad(s, p) ==
    Cardinality({q \in squad[s] : PositionOf[q] = PositionOf[p]}) < Limits[PositionOf[p]]

\* makePick up to the call of the service.
MakePick(s, p) ==
    /\ Len(waiting) + Len(picked) < MaxOverlap
    /\ pickIndex < Size * Rounds
    /\ DraftSequence(pickIndex) = s
    /\ IsPlayerEligibleForSquad(s, p)
    /\ waiting' = Append(waiting, Pick(s, p))

ManagerPicks(s, p) ==
    /\ MakePick(s, p)
    /\ UNCHANGED <<draft, pickIndex, seconds, squad, owner, picks, picked>>

StartDraft ==
    /\ draft # "COMPLETED"
    /\ draft' = "IN_PROGRESS"
    /\ seconds' = TimePerPick
    /\ UNCHANGED <<pickIndex, squad, owner, picks, waiting, picked>>

\* tick and autoPickCurrentTurn: out of time, the best free player the quota
\* allows is picked; without one the draft waits.
Eligible(s) == {p \in Footballers : owner[p] = Nobody /\ IsPlayerEligibleForSquad(s, p)}
DraftTick ==
    /\ draft = "IN_PROGRESS"
    /\ seconds' = IF seconds > 0 THEN seconds - 1 ELSE 0
    /\ LET s == DraftSequence(pickIndex)
       IN  IF seconds' = 0 /\ pickIndex < Size * Rounds /\ Eligible(s) # {}
           THEN MakePick(s, CHOOSE p \in Eligible(s) : \A q \in Eligible(s) : p <= q)
           ELSE UNCHANGED waiting
    /\ UNCHANGED <<draft, pickIndex, squad, owner, picks, picked>>

\* Mutant: the room trusts the turn the manager checked.
ExecuteDraftPickUnchecked ==
    /\ waiting # <<>>
    /\ waiting' = Tail(waiting)
    /\ LET pick == Head(waiting)
       IN  IF owner[pick.player] # Nobody
           THEN UNCHANGED <<owner, picks, picked>>
           ELSE /\ owner' = [owner EXCEPT ![pick.player] = pick.squad]
                /\ picks' = Append(picks, pick.squad)
                /\ picked' = Append(picked, pick)
    /\ UNCHANGED <<draft, pickIndex, seconds, squad>>
\* executeDraftPick, one at a time: the turn and the owner are checked again.
ExecuteDraftPick ==
    /\ waiting # <<>>
    /\ waiting' = Tail(waiting)
    /\ LET pick == Head(waiting)
       IN  IF pick.squad # RoomTurn \/ owner[pick.player] # Nobody
           THEN UNCHANGED <<owner, picks, picked>>
           ELSE /\ owner' = [owner EXCEPT ![pick.player] = pick.squad]
                /\ picks' = Append(picks, pick.squad)
                /\ picked' = Append(picked, pick)
    /\ UNCHANGED <<draft, pickIndex, seconds, squad>>

\* makePick after the service answered.
CountPick ==
    /\ picked # <<>>
    /\ picked' = Tail(picked)
    /\ LET pick == Head(picked)
       IN  squad' = [squad EXCEPT ![pick.squad] = @ \cup {pick.player}]
    /\ pickIndex' = pickIndex + 1
    /\ seconds' = TimePerPick
    /\ draft' = IF pickIndex' >= Size * Rounds THEN "COMPLETED" ELSE draft
    /\ UNCHANGED <<owner, picks, waiting>>

DraftNext ==
    \/ StartDraft \/ DraftTick \/ ExecuteDraftPick \/ CountPick
    \/ \E s \in Squads, p \in Footballers : ManagerPicks(s, p)

DraftSpec == DraftInit /\ [][DraftNext]_draftVars

-----------------------------------------------------------------------------
(* Properties.                                                             *)

\* However picks overlap with each other and with the clock, every complete
\* round of the draft gave each squad one pick, the manager's turn is the
\* room's once all picks are counted, and then the squads are the owners.
EveryRoundServesAll ==
    /\ \A r \in 1..(Len(picks) \div Size) :
          {picks[k] : k \in ((r - 1) * Size + 1)..(r * Size)} = Squads
    /\ pickIndex + Len(picked) = Len(picks)
    /\ picked = <<>> =>
          \A s \in Squads : squad[s] = {p \in Footballers : owner[p] = s}
=============================================================================
