--------------------------- MODULE SwissTournament ---------------------------
(* SwissTournamentEngine: standings, byes, pairings and results of one     *)
(* tournament.  A match is won, drawn or lost.  The tie-breakers behind    *)
(* the match points and the Buchholz score depend on fantasy points, so    *)
(* any order among players level on those two is a possible standing.      *)
EXTENDS Integers, Sequences, FiniteSets, FiniteSetsExt, SequencesExt

CONSTANTS
    Fields,        \* the participants to choose from, each field in seed order
    TotalRounds,   \* totalRounds
    NoPairing      \* null

ASSUME SwissAssumption ==
    /\ \A f \in Fields : /\ f \in Seq(ToSet(f)) /\ Len(f) >= 2 /\ IsInjective(f)
                        /\ NoPairing \notin Seq(Seq(ToSet(f)))
    /\ TotalRounds \in Nat \ {0}

VARIABLES
    field,         \* the participants in seed order
    round,         \* currentRound
    stage,         \* status
    matchPoints,
    byes,
    met,           \* how often two players are among each other's opponentsFaced
    matchups       \* the current round: pairs, and <<player>> for the bye
swissVars == <<field, round, stage, matchPoints, byes, met, matchups>>

Entrants == ToSet(field)

\* Types of every variable.
SwissTypeOK ==
    /\ field \in Fields
    /\ round \in 0..TotalRounds
    /\ stage \in {"CREATED", "ROUND_ACTIVE", "ROUND_COMPLETED", "TOURNAMENT_COMPLETED"}
    /\ matchPoints \in [Entrants -> Nat] /\ byes \in [Entrants -> Nat]
    /\ met \in [Entrants \X Entrants -> Nat]
    /\ \A i \in DOMAIN matchups : Len(matchups[i]) \in 1..2 /\ ToSet(matchups[i]) \subseteq Entrants

SwissInit ==
    /\ field \in Fields
    /\ round = 0
    /\ stage = "CREATED"
    /\ matchPoints = [p \in Entrants |-> 0]
    /\ byes = [p \in Entrants |-> 0]
    /\ met = [m \in Entrants \X Entrants |-> 0]
    /\ matchups = <<>>

\* How often q is among the opponentsFaced of p.
Meetings(p, q) == met[<<p, q>>]

\* recomputeStandingsAndTieBreakers.  Before the first round everybody is
\* level and the seeds decide.
Buchholz(p) == MapThenSumSet(LAMBDA q : Meetings(p, q) * matchPoints[q], Entrants)
Before(p, q) ==
    \/ matchPoints[p] > matchPoints[q]
    \/ matchPoints[p] = matchPoints[q] /\ Buchholz(p) > Buchholz(q)
Standings ==
    IF round = 0 THEN {field}
    ELSE {s \in SetToSeqs(Entrants) :
            \A i, j \in DOMAIN s : Before(s[i], s[j]) => i < j}

-----------------------------------------------------------------------------
(* computePairings                                                         *)

\* The place of the lowest-ranked player without a bye, or of the last one.
ByePlace(standing) ==
    LET without == {i \in DOMAIN standing : byes[standing[i]] = 0}
    IN  IF without = {} THEN Len(standing) ELSE Max(without)

TopHalfAgainstBottomHalf(s) ==
    [i \in 1..(Len(s) \div 2) |-> <<s[i], s[i + Len(s) \div 2]>>]

\* The players left when the first one meets the one at place i.
Remaining(s, i) == Tail(RemoveAt(s, i))

\* solveBacktrackPairings: the first candidate the head has not met whose
\* removal leaves players that can be paired.
SolveBacktrackPairings(s) ==
    LET solve[t \in BoundedSeq(ToSet(s), Len(s))] ==
            LET candidates == {i \in 2..Len(t) :
                                 /\ Meetings(t[1], t[i]) = 0
                                 /\ solve[Remaining(t, i)] # NoPairing}
            IN  IF t = <<>> THEN <<>>
                ELSE IF candidates = {} THEN NoPairing
                ELSE <<<<t[1], t[Min(candidates)]>>>> \o solve[Remaining(t, Min(candidates))]
    IN  solve[s]

\* greedyPairingFallback: the head meets the one it met least.
GreedyPairingFallback(s) ==
    LET Best(t) == CHOOSE i \in 2..Len(t) : \A j \in 2..Len(t) :
                        \/ Meetings(t[1], t[i]) < Meetings(t[1], t[j])
                        \/ Meetings(t[1], t[i]) = Meetings(t[1], t[j]) /\ i <= j
        greedy[t \in BoundedSeq(ToSet(s), Len(s))] ==
            IF Len(t) < 2 THEN <<>>
            ELSE <<<<t[1], t[Best(t)]>>>> \o greedy[Remaining(t, Best(t))]
    IN  greedy[s]

\* Mutant: pairs are never taken back.
PairWithoutLookahead(s) == GreedyPairingFallback(s)
\* pairByScoreBrackets
PairByScoreBrackets(s) ==
    IF SolveBacktrackPairings(s) = NoPairing
    THEN GreedyPairingFallback(s) ELSE SolveBacktrackPairings(s)

Pairings(s) == IF round = 0 THEN TopHalfAgainstBottomHalf(s) ELSE PairByScoreBrackets(s)

\* generateNextRound.  A bye counts at once.
GenerateNextRound ==
    /\ stage \in {"CREATED", "ROUND_COMPLETED"}
    /\ round < TotalRounds
    /\ \E standing \in Standings :
          IF Len(standing) % 2 = 0
          THEN /\ matchups' = Pairings(standing)
               /\ UNCHANGED <<byes, matchPoints>>
          ELSE LET place == ByePlace(standing)
                   resting == standing[place]
               IN  /\ matchups' = <<<<resting>>>> \o Pairings(RemoveAt(standing, place))
                   /\ byes' = [byes EXCEPT ![resting] = @ + 1]
                   /\ matchPoints' = [matchPoints EXCEPT ![resting] = @ + 3]
    /\ round' = round + 1
    /\ stage' = "ROUND_ACTIVE"
    /\ UNCHANGED <<field, met>>

\* submitRoundResults: a result for every match, once.
PointsFor(side, result) ==
    IF result = "draw" THEN 1 ELSE IF result = side THEN 3 ELSE 0
SubmitRoundResults ==
    /\ stage = "ROUND_ACTIVE"
    /\ LET matches == {m \in ToSet(matchups) : Len(m) = 2}
           MatchOf(p) == {m \in matches : p \in ToSet(m)}
       IN  /\ \E result \in [matches -> {"home", "away", "draw"}] :
                 matchPoints' = [p \in Entrants |-> matchPoints[p] + MapThenSumSet(
                     LAMBDA m : PointsFor(IF m[1] = p THEN "home" ELSE "away", result[m]), MatchOf(p))]
           /\ met' = [pair \in Entrants \X Entrants |->
                 met[pair] + Cardinality({m \in matches : ToSet(m) = {pair[1], pair[2]}})]
    /\ stage' = IF round >= TotalRounds THEN "TOURNAMENT_COMPLETED" ELSE "ROUND_COMPLETED"
    /\ UNCHANGED <<field, round, byes, matchups>>

SwissNext == GenerateNextRound \/ SubmitRoundResults
SwissSpec == SwissInit /\ [][SwissNext]_swissVars

-----------------------------------------------------------------------------
(* Properties.                                                             *)

\* The ways to pair a set of players, from the definition of a pairing.
PairingsOf(S) ==
    LET pairs == {e \in SUBSET S : Cardinality(e) = 2}
    IN  {P \in SUBSET pairs : UNION P = S /\ \A d, e \in P : d = e \/ d \cap e = {}}

\* Every round is fair: everybody is in it exactly once, nobody rests a
\* second time while somebody has not rested, and two players meet again only
\* if every way of pairing the players of that round repeats a match.
RoundsAreFair ==
    stage = "ROUND_ACTIVE" =>
        LET matches == {m \in ToSet(matchups) : Len(m) = 2}
            playing == UNION {ToSet(m) : m \in matches}
            Repeats(P) == \E e \in P : \E p, q \in e : p # q /\ Meetings(p, q) > 0
        IN  /\ \A p \in Entrants : Cardinality({i \in DOMAIN matchups : p \in ToSet(matchups[i])}) = 1
            /\ \A p, q \in Entrants : byes[p] > 1 => byes[q] > 0
            /\ Repeats({ToSet(m) : m \in matches}) => \A P \in PairingsOf(playing) : Repeats(P)
=============================================================================
