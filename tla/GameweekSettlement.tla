------------------------- MODULE GameweekSettlement -------------------------
(* The gameweek-settlement job (jobs/gameweekSettlement.ts), the           *)
(* subscribers it publishes to (services/events/gameweekEventHandlers.ts)  *)
(* and what they do to one head-to-head league: the round-robin fixtures,  *)
(* the table, the end-of-season playoffs (leagueService.ts) and the        *)
(* knockout cup (tournamentService.ts).                                    *)
(*                                                                         *)
(* The job queue runs one job at a time ("stately" policy) and starts it   *)
(* again after a failure, so the job is one process whose steps are its    *)
(* database transactions, and a fault may end it before any of them.  FPL  *)
(* decides when a gameweek's fixtures are all finished, in any order, and  *)
(* an administrator may pay the prizes out once the last one is, which     *)
(* completes the league (financialService.ts) while the job is anywhere.   *)
EXTENDS Integers, Sequences, FiniteSets, FiniteSetsExt, SequencesExt

CONSTANTS
    SeasonLeagues,   \* leagues explored: their members by joinedAt, and whether
                     \* they have a custom scoring config
    EndGameweek,     \* the league plays gameweeks 1 .. EndGameweek
    PointVectors,    \* the points FPL may give the members, per gameweek
    CustomPoints,    \* the points a custom scoring config gives for FPL's
    CupGameweeks,    \* gameweeks in which a cup may start
    MaxFaults        \* bound: failures and crashes of the job

NoMember == "none"     \* a null member: no winner, a bye, or the Average team

\* Members are rows of their own, and every member has points.
ASSUME SettlementAssumption ==
    /\ EndGameweek \in Nat \ {0}
    /\ MaxFaults \in Nat
    /\ \A l \in SeasonLeagues :
        /\ l.members \in Seq(ToSet(l.members)) /\ IsInjective(l.members)
        /\ NoMember \notin ToSet(l.members) /\ l.custom \in BOOLEAN
        /\ \A g \in 1 .. EndGameweek : \A v \in PointVectors[g] : \A m \in ToSet(l.members) :
            v[m] \in Int /\ CustomPoints[v[m]] \in Int

VARIABLES
    roster,          \* league.members, all ACTIVE, by joinedAt
    custom,          \* league.scoringConfig # null
    seasonStatus,    \* league.status: "ACTIVE" or "COMPLETED"
    fixtures,        \* leagueFixture rows
    table,           \* the H2H statistics of each leagueMember
    ranks,           \* leagueMember.rank
    gwPoints,        \* FPL's final points of the finished gameweeks
    squadScores,     \* squadGameweekScore rows
    leagueScores,    \* leagueGameweekScore rows
    settledAt,       \* gameweeks with settledAt # null
    inOrder,         \* history: no gameweek was taken up before an earlier one
    paidOut,         \* history: the payout completed the league, not the job
    skipped,         \* history: gameweeks settled without the league, paid out
    job,             \* the running job
    faults

leagueTable == <<fixtures, table, ranks>>
scores == <<squadScores, leagueScores>>
settlementVars == <<roster, custom, seasonStatus, fixtures, table, ranks, gwPoints,
                    squadScores, leagueScores, settledAt, inOrder, paidOut, skipped,
                    job, faults>>

NoScore == -1          \* the null score of a fixture, which no step reads

Gameweeks == 1 .. EndGameweek
Active == ToSet(roster)
IsCup(f) == f.kind = "cup"

-----------------------------------------------------------------------------
(* Schedules and brackets: the pure functions of the two services.         *)

\* One fixture row before it is played.
Unplayed(kind, g, home, away, round, slot) ==
    [kind |-> kind, gw |-> g, home |-> home, away |-> away, round |-> round,
     slot |-> slot, homeScore |-> NoScore, awayScore |-> NoScore,
     finished |-> FALSE, winner |-> NoMember]

\* "Keep the first team fixed, rotate the rest clockwise".
Rotated(teams) ==
    <<teams[1], teams[Len(teams)]>> \o SubSeq(teams, 2, Len(teams) - 1)

\* The circle method: gameweek g plays round (g - 1) % (n - 1); sides alternate
\* by round and are reversed in every second cycle; the Average team that
\* completes an odd membership is always away.
GenerateRoundRobinSchedule(ids) ==
    LET teams == IF Len(ids) % 2 = 1 THEN Append(ids, NoMember) ELSE ids
        n == Len(teams)
        rotation[r \in 0 .. n - 2] ==
            IF r = 0 THEN teams ELSE Rotated(rotation[r - 1])
        Match(g, i) ==
            LET r == (g - 1) % (n - 1)
                reversed == ((g - 1) \div (n - 1)) % 2 = 1
                a == rotation[r][i]
                b == rotation[r][n + 1 - i]
                swap == \/ a = NoMember
                        \/ b # NoMember /\ (r % 2 = 1) # reversed
            IN  IF swap THEN Unplayed("league", g, b, a, 0, 0)
                        ELSE Unplayed("league", g, a, b, 0, 0)
    IN  IF Len(ids) < 2 THEN {}
        ELSE {Match(g, i) : g \in Gameweeks, i \in 1 .. n \div 2}

\* Largest of 2, 4, 8 that the membership fills, or 0; and log2 of it.
ComputeBracketSize(n) ==
    IF n < 2 THEN 0 ELSE Max({size \in {2, 4, 8} : size <= n})
BracketRounds(size) == CHOOSE r \in 1 .. 6 : 2 ^ r = size

\* "seed 1 plays the lowest seed, seed 2 the second-lowest, and so on".
SeedPlayoffPairings(ids, g, round) ==
    {Unplayed("playoff", g, ids[i], ids[Len(ids) + 1 - i], round, i - 1) :
        i \in 1 .. Len(ids) \div 2}

\* a stands above b in the table t: h2hPoints, pointsFor, pointsDifference.
Lexicographic(x, y) ==
    \E i \in DOMAIN x : x[i] > y[i] /\ \A j \in 1 .. i - 1 : x[j] = y[j]
Metrics(t, m) == <<t[m].pts, t[m].pf, t[m].pf - t[m].pa>>

\* sortH2HStandings: rows equal on all three keys keep the order in which the
\* database returned them, which no query fixes.
H2HStandings(t) ==
    {s \in SetToSeqs(Active) :
        \A i, j \in DOMAIN s : i < j => ~ Lexicographic(Metrics(t, s[j]), Metrics(t, s[i]))}

\* Equal scores are decided by the table, then for the home side.
ResolvePlayoffWinner(f) ==
    LET Full(m) == Append(Metrics(table, m), table[m].won)
    IN  IF f.homeScore # f.awayScore
        THEN IF f.homeScore > f.awayScore THEN f.home ELSE f.away
        ELSE IF Lexicographic(Full(f.away), Full(f.home)) THEN f.away ELSE f.home

\* Seeds in bracket order: 2 -> <<1, 2>>, 4 -> <<1, 4, 2, 3>>, ...
StandardSeedOrder(size) ==
    LET order[r \in 1 .. 6] ==
            IF r = 1 THEN <<1, 2>>
            ELSE [i \in 1 .. 2 ^ r |->
                    IF i % 2 = 1 THEN order[r - 1][(i + 1) \div 2]
                    ELSE 2 ^ r + 1 - order[r - 1][i \div 2]]
    IN  order[BracketRounds(size)]

KnockoutBracketSize(n) == Min({2 ^ r : r \in {q \in 1 .. 6 : 2 ^ q >= n}})

\* The better seed is at home; a missing entrant is a bye.
GenerateKnockoutFirstRound(seeds, g) ==
    LET size == KnockoutBracketSize(Len(seeds))
        order == StandardSeedOrder(size)
        Entrant(seed) == IF seed <= Len(seeds) THEN seeds[seed] ELSE NoMember
        Slot(k) == {order[2 * k + 1], order[2 * k + 2]}
    IN  {Unplayed("cup", g, Entrant(Min(Slot(k))), Entrant(Max(Slot(k))), 1, k) :
            k \in 0 .. size \div 2 - 1}

\* Winners of slots 2k and 2k + 1 meet in slot k.
NextRoundPairings(winners, g, round) ==
    {Unplayed("cup", g, winners[2 * k + 1], winners[2 * k + 2], round, k) :
        k \in 0 .. Len(winners) \div 2 - 1}

\* The orders in which rows sorted by a key may come: equal rows in any order.
Sorted(S, key) ==
    {s \in SetToSeqs(S) : \A i, j \in DOMAIN s : i < j => key[s[i]] <= key[s[j]]}

\* The rows of one round, by slot.
BySlot(F) == Sorted(F, [f \in F |-> f.slot])

-----------------------------------------------------------------------------
(* Database transactions of the league services.                           *)

\* Mutant: the gameweek's unfinished rows are not deleted first.
ReplaceFixturesKeepingOld(g, new) ==
    LET clash == \E f \in fixtures, p \in new : f.gw = g /\ ~ IsCup(f) /\ f.home = p.home
    IN  fixtures' = IF clash THEN fixtures ELSE fixtures \cup new

\* createMany after deleteMany of the gameweek's unfinished non-cup rows: the
\* unique key (gameweek, home, isCup) makes it fail as a whole when a finished
\* fixture or another new one has the same home member, and the job logs the
\* error.
ReplaceFixtures(g, new) ==
    LET kept == {f \in fixtures : f.gw # g \/ f.finished \/ IsCup(f)}
        clash == \/ \E f \in kept, p \in new : f.gw = g /\ ~ IsCup(f) /\ f.home = p.home
                 \/ \E p, q \in new : p # q /\ p.home = q.home
    IN  fixtures' = IF clash THEN fixtures ELSE kept \cup new

\* The points a member has in gameweek g, 0 when no row exists.
ScoreOf(rows, g, m) == IF m \in DOMAIN rows[g] THEN rows[g][m] ELSE 0
Rows(useLeagueScoring) == IF useLeagueScoring THEN leagueScores ELSE squadScores

\* Math.round of the mean of the active members' points.
AverageScore(rows, g) ==
    LET total == MapThenSumSet(LAMBDA m : ScoreOf(rows, g, m), Active)
        n == Cardinality(Active)
    IN  (2 * total + n) \div (2 * n)

\* resolveHeadToHead.
Outcome(scored, conceded) ==
    IF scored > conceded THEN 3 ELSE IF scored = conceded THEN 1 ELSE 0

\* What the played fixtures F add to the row of member m.
SideOf(f, m) == IF f.home = m THEN <<f.homeScore, f.awayScore>>
                              ELSE <<f.awayScore, f.homeScore>>
Played(F, m) == {f \in F : m \in {f.home, f.away}}
Tally(F, m) ==
    LET own == Played(F, m)
        Points(f) == Outcome(SideOf(f, m)[1], SideOf(f, m)[2])
    IN  [pts |-> MapThenSumSet(Points, own),
         won |-> Cardinality({f \in own : Points(f) = 3}),
         drawn |-> Cardinality({f \in own : Points(f) = 1}),
         lost |-> Cardinality({f \in own : Points(f) = 0}),
         pf  |-> MapThenSumSet(LAMBDA f : SideOf(f, m)[1], own),
         pa  |-> MapThenSumSet(LAMBDA f : SideOf(f, m)[2], own)]
Sum(a, b) == [k \in DOMAIN a |-> a[k] + b[k]]

\* The row of a fixture with its points written.
Scored(f, rows, g) ==
    [f EXCEPT !.homeScore = ScoreOf(rows, g, f.home),
              !.awayScore = IF f.away = NoMember THEN AverageScore(rows, g)
                            ELSE ScoreOf(rows, g, f.away),
              !.finished = TRUE]

\* Mutant: the retried job takes the finished fixtures too.
SettleH2HGameweekAgain(g, useLeagueScoring) ==
    LET due == {f \in fixtures : f.gw = g /\ ~ IsCup(f)}
        done == {Scored(f, Rows(useLeagueScoring), g) : f \in due}
    IN  IF due = {} THEN UNCHANGED leagueTable
        ELSE /\ fixtures' = (fixtures \ due) \cup done
             /\ table' = [m \in Active |-> Sum(table[m], Tally(done, m))]
             /\ \E s \in H2HStandings(table') :
                    ranks' = [m \in Active |-> CHOOSE i \in DOMAIN s : s[i] = m]

\* settleH2HGameweek: score the unfinished league and playoff fixtures, add
\* them to the table, refresh every rank.
SettleH2HGameweek(g, useLeagueScoring) ==
    LET due == {f \in fixtures : f.gw = g /\ ~ f.finished /\ ~ IsCup(f)}
        done == {Scored(f, Rows(useLeagueScoring), g) : f \in due}
    IN  IF due = {} THEN UNCHANGED leagueTable
        ELSE /\ fixtures' = (fixtures \ due) \cup done
             /\ table' = [m \in Active |-> Sum(table[m], Tally(done, m))]
             /\ \E s \in H2HStandings(table') :
                    ranks' = [m \in Active |-> CHOOSE i \in DOMAIN s : s[i] = m]

\* generatePlayoffBracket, for the last gameweek before the playoff rounds.
GeneratePlayoffBracket(g) ==
    LET size == ComputeBracketSize(Len(roster)) IN
    \E s \in H2HStandings(table) :
        ReplaceFixtures(g, SeedPlayoffPairings(SubSeq(s, 1, size), g, 1))

\* advancePlayoffRound: it throws, and the job goes on, when gameweek g has no
\* playoff fixture or an unfinished one; the final's winner is only returned.
AdvancePlayoffRound(g) ==
    LET round == {f \in fixtures : f.gw = g /\ f.kind = "playoff"}
        Winners(slots) == [i \in DOMAIN slots |-> ResolvePlayoffWinner(slots[i])]
    IN  IF Cardinality(round) > 1 /\ \A f \in round : f.finished
        THEN \E slots \in BySlot(round) :
                ReplaceFixtures(g + 1, SeedPlayoffPairings(Winners(slots), g + 1,
                                                           slots[1].round + 1))
        ELSE UNCHANGED fixtures

\* resolvePlayoffAction.
PlayoffAction(g) ==
    LET size == ComputeBracketSize(Len(roster))
        first == EndGameweek - BracketRounds(size) + 1
    IN  IF size = 0 THEN "none"
        ELSE IF g = first - 1 THEN "generate"
        ELSE IF g >= first THEN "advance" ELSE "none"

-----------------------------------------------------------------------------
NoRows == [g \in Gameweeks |-> <<>>]
IdleJob == [pc |-> "idle", todo |-> <<>>, listed |-> FALSE, failed |-> FALSE]

\* A league just activated by transitionStatus, which wrote its schedule.
SettlementInit ==
    /\ \E l \in SeasonLeagues : roster = l.members /\ custom = l.custom
    /\ seasonStatus = "ACTIVE"
    /\ fixtures = GenerateRoundRobinSchedule(roster)
    /\ table = [m \in Active |-> [pts |-> 0, won |-> 0, drawn |-> 0, lost |-> 0,
                                   pf |-> 0, pa |-> 0]]
    /\ ranks = [m \in Active |-> 0]
    /\ gwPoints = [g \in Gameweeks |-> <<>>]
    /\ squadScores = NoRows
    /\ leagueScores = NoRows
    /\ settledAt = {}
    /\ inOrder = TRUE /\ paidOut = FALSE /\ skipped = {}
    /\ job = IdleJob
    /\ faults = 0

Current == Head(job.todo)
At(pc) == job.pc = pc
GoTo(pc) == job' = [job EXCEPT !.pc = pc]

Ready == {g \in Gameweeks : gwPoints[g] # <<>>}

\* FPL reports the last fixture of gameweek g as finished; its deadline has
\* passed, so deadline-lock has locked the gameweek.
GameweekFinishes(g) ==
    /\ g \notin Ready
    /\ \E v \in PointVectors[g] : gwPoints' = [gwPoints EXCEPT ![g] = v]
    /\ UNCHANGED <<roster, custom, seasonStatus, leagueTable, scores, settledAt,
                   inOrder, paidOut, skipped, job, faults>>

\* createKnockoutCup: active members seeded by h2hPoints, pointsFor, joinedAt
\* (totalPoints is 0 in a head-to-head league), one cup per league.
CreateKnockoutCup(g) ==
    LET Before(a, b) ==
            LET x == <<table[a].pts, table[a].pf>>
                y == <<table[b].pts, table[b].pf>>
                Joined(m) == CHOOSE i \in DOMAIN roster : roster[i] = m
            IN  Lexicographic(x, y) \/ (x = y /\ Joined(a) < Joined(b))
        seeds == SetToSortSeq(Active, Before)
    IN  /\ g + BracketRounds(KnockoutBracketSize(Len(seeds))) - 1 <= EndGameweek
        /\ ~ \E f \in fixtures : IsCup(f)
        /\ fixtures' = fixtures \cup GenerateKnockoutFirstRound(seeds, g)
        /\ UNCHANGED <<roster, custom, seasonStatus, table, ranks, gwPoints, scores,
                       settledAt, inOrder, paidOut, skipped, job, faults>>

\* settleCompletedGameweeks lists the finished, unsettled gameweeks, by id.
JobStarts ==
    /\ At("idle")
    /\ Ready # settledAt
    /\ \E ids \in Sorted(Ready \ settledAt, [g \in Gameweeks |-> g]) :
        job' = [IdleJob EXCEPT !.pc = "list", !.todo = ids]
    /\ UNCHANGED <<roster, custom, seasonStatus, leagueTable, gwPoints, scores,
                   settledAt, inOrder, paidOut, skipped, faults>>

\* settleGameweek syncs the final stats, lists the ACTIVE leagues, and scores
\* the listed ones that have rules of their own.
ListLeagues ==
    /\ At("list")
    /\ job' = [job EXCEPT !.pc = "score", !.listed = seasonStatus = "ACTIVE"]
    /\ leagueScores' =
        IF custom /\ seasonStatus = "ACTIVE"
        THEN [leagueScores EXCEPT ![Current] =
                [m \in Active |-> CustomPoints[gwPoints[Current][m]]]]
        ELSE leagueScores
    /\ inOrder' = (inOrder /\ \A g \in 1 .. Current - 1 : g \in settledAt)
    /\ UNCHANGED <<roster, custom, seasonStatus, leagueTable, gwPoints, squadScores,
                   settledAt, paidOut, skipped, faults>>

\* handleScoreSquads, the first subscriber, scores the squads one by one.
ScoreSquads ==
    /\ At("score")
    /\ squadScores' = [squadScores EXCEPT ![Current] =
                        [m \in Active |-> gwPoints[Current][m]]]
    /\ GoTo("settleLeagues")
    /\ UNCHANGED <<roster, custom, seasonStatus, leagueTable, gwPoints, leagueScores,
                   settledAt, inOrder, paidOut, skipped, faults>>

\* It throws at one squad, or handleRevertFreeHits after it does.  The bus
\* records the failure and goes on with the other subscribers; publishOrThrow
\* throws after the last of them.
ScoreSquadsFails ==
    /\ At("score")
    /\ faults < MaxFaults
    /\ faults' = faults + 1
    /\ \E k \in 0 .. Len(roster) :
        LET done == ToSet(SubSeq(roster, 1, k)) IN
        squadScores' = [squadScores EXCEPT ![Current] =
            [m \in DOMAIN @ \cup done |-> IF m \in done THEN gwPoints[Current][m] ELSE @[m]]]
    /\ job' = [job EXCEPT !.pc = "settleLeagues", !.failed = TRUE]
    /\ UNCHANGED <<roster, custom, seasonStatus, leagueTable, gwPoints, leagueScores,
                   settledAt, inOrder, paidOut, skipped>>

\* After the subscribers: publishOrThrow throws, or the job goes on with the
\* leagues it listed.
AfterHandlers ==
    IF job.failed THEN IdleJob
    ELSE [job EXCEPT !.pc = IF job.listed THEN "seed" ELSE "finish"]

\* handleSettleLeagues, for the leagues that are ACTIVE now: first the H2H
\* results, always with the global scores ...
HandlerSettles ==
    /\ At("settleLeagues")
    /\ IF seasonStatus = "ACTIVE"
       THEN SettleH2HGameweek(Current, FALSE) /\ GoTo("completeLeagues")
       ELSE UNCHANGED leagueTable /\ job' = AfterHandlers
    /\ UNCHANGED <<roster, custom, seasonStatus, gwPoints, scores, settledAt, inOrder,
                   paidOut, skipped, faults>>

\* transitionStatus(COMPLETED), a no-op for a league that is COMPLETED.  (It
\* throws for a CANCELLED one; only UPCOMING leagues are cancelled.)
CompleteIfLast(g) ==
    seasonStatus' = IF g = EndGameweek THEN "COMPLETED" ELSE seasonStatus

\* ... then the completion of a league that ends with this gameweek.
HandlerCompletes ==
    /\ At("completeLeagues")
    /\ CompleteIfLast(Current)
    /\ job' = AfterHandlers
    /\ UNCHANGED <<roster, custom, leagueTable, gwPoints, scores, settledAt, inOrder,
                   paidOut, skipped, faults>>

\* The loop over the listed leagues: seed the bracket of the next gameweek, ...
SeedPlayoffs ==
    /\ At("seed")
    /\ IF PlayoffAction(Current) = "generate" THEN GeneratePlayoffBracket(Current + 1)
                                              ELSE UNCHANGED fixtures
    /\ GoTo("settle")
    /\ UNCHANGED <<roster, custom, seasonStatus, table, ranks, gwPoints, scores,
                   settledAt, inOrder, paidOut, skipped, faults>>

\* ... settle what is still unfinished, with the league's own scores, ...
SettleFixtures ==
    /\ At("settle")
    /\ SettleH2HGameweek(Current, custom)
    /\ GoTo("advance")
    /\ UNCHANGED <<roster, custom, seasonStatus, gwPoints, scores, settledAt, inOrder,
                   paidOut, skipped, faults>>

\* ... pair the winners of a playoff round, ...
AdvancePlayoffs ==
    /\ At("advance")
    /\ IF PlayoffAction(Current) = "advance" THEN AdvancePlayoffRound(Current)
                                             ELSE UNCHANGED fixtures
    /\ GoTo("cup")
    /\ UNCHANGED <<roster, custom, seasonStatus, table, ranks, gwPoints, scores,
                   settledAt, inOrder, paidOut, skipped, faults>>

\* ... settle the cup round: equal scores go to goals scored, goals conceded
\* and a coin toss, here either side.  Without an unfinished cup fixture
\* settleKnockoutGameweek returns before it looks at the next round.
SettleCup ==
    LET g == Current
        due == {f \in fixtures : f.gw = g /\ IsCup(f) /\ ~ f.finished}
        Score(m) == IF m = NoMember THEN NoScore ELSE ScoreOf(Rows(custom), g, m)
        Winners(f) == IF f.away = NoMember \/ Score(f.home) > Score(f.away) THEN {f.home}
                      ELSE IF Score(f.home) < Score(f.away) THEN {f.away}
                      ELSE {f.home, f.away}
    IN  /\ At("cup")
        /\ \E w \in [due -> Active] :
            /\ \A f \in due : w[f] \in Winners(f)
            /\ fixtures' = (fixtures \ due) \cup
                {[f EXCEPT !.homeScore = Score(f.home), !.awayScore = Score(f.away),
                           !.finished = TRUE, !.winner = w[f]] : f \in due}
        /\ GoTo(IF due = {} THEN "complete" ELSE "cupAdvance")
        /\ UNCHANGED <<roster, custom, seasonStatus, table, ranks, gwPoints, scores,
                       settledAt, inOrder, paidOut, skipped, faults>>

\* advanceKnockoutRound, a transaction of its own.
AdvanceCup ==
    LET g == Current
        round == {f \in fixtures : f.gw = g /\ IsCup(f)}
        Winners(slots) == [i \in DOMAIN slots |-> slots[i].winner]
    IN  /\ At("cupAdvance")
        /\ IF \/ \E f \in round : ~ f.finished
              \/ Cardinality(round) = 1
              \/ \E f \in fixtures : f.gw = g + 1 /\ IsCup(f)
           THEN UNCHANGED fixtures
           ELSE \E slots \in BySlot(round) :
                    fixtures' = fixtures \cup NextRoundPairings(Winners(slots), g + 1,
                                                                slots[1].round + 1)
        /\ GoTo("complete")
        /\ UNCHANGED <<roster, custom, seasonStatus, table, ranks, gwPoints, scores,
                       settledAt, inOrder, paidOut, skipped, faults>>

\* ... and complete the league after its last gameweek.
CompleteLeague ==
    /\ At("complete")
    /\ CompleteIfLast(Current)
    /\ GoTo("finish")
    /\ UNCHANGED <<roster, custom, leagueTable, gwPoints, scores, settledAt, inOrder,
                   paidOut, skipped, faults>>

\* Ratings, classic standings and the oracle are done: the gameweek is settled.
FinishGameweek ==
    /\ At("finish")
    /\ settledAt' = settledAt \cup {Current}
    /\ skipped' = IF paidOut /\ ~ job.listed THEN skipped \cup {Current} ELSE skipped
    /\ job' = IF Len(job.todo) = 1 THEN IdleJob
              ELSE [IdleJob EXCEPT !.pc = "list", !.todo = Tail(job.todo)]
    /\ UNCHANGED <<roster, custom, seasonStatus, leagueTable, gwPoints, scores, inOrder,
                   paidOut, faults>>

\* The sync, a query or the oracle throws, or the process stops: the job ends
\* between two transactions and pg-boss, or the next cron tick, starts it anew.
JobFails ==
    /\ ~ At("idle")
    /\ faults < MaxFaults
    /\ faults' = faults + 1
    /\ job' = IdleJob
    /\ UNCHANGED <<roster, custom, seasonStatus, leagueTable, gwPoints, scores,
                   settledAt, inOrder, paidOut, skipped>>

\* commitSettlement: the prizes are paid out and the league is COMPLETED.  The
\* payout only waits for isFinished of the last gameweek, which the FPL sync
\* sets, and not for the job.
CommitSettlement ==
    /\ seasonStatus # "COMPLETED"
    /\ EndGameweek \in Ready
    /\ seasonStatus' = "COMPLETED"
    /\ paidOut' = TRUE
    /\ UNCHANGED <<roster, custom, leagueTable, gwPoints, scores, settledAt, inOrder,
                   skipped, job, faults>>

JobStep ==
    \/ JobStarts \/ ListLeagues \/ ScoreSquads \/ HandlerSettles \/ HandlerCompletes
    \/ SeedPlayoffs \/ SettleFixtures \/ AdvancePlayoffs \/ SettleCup \/ AdvanceCup
    \/ CompleteLeague \/ FinishGameweek

SettlementNext ==
    \/ \E g \in Gameweeks : GameweekFinishes(g)
    \/ \E g \in CupGameweeks : CreateKnockoutCup(g)
    \/ JobStep
    \/ CommitSettlement
    \/ ScoreSquadsFails
    \/ JobFails

SettlementSpec == SettlementInit /\ [][SettlementNext]_settlementVars

-----------------------------------------------------------------------------
(* Properties.                                                             *)

\* "Every step is idempotent, so a retried job does not double count"
\* (settleGameweek): however often the job stops and is run again, a member's
\* row is the sum of the finished league and playoff fixtures it played, and
\* the ranks follow the table.
TableCountsResults ==
    LET results == {f \in fixtures : f.finished /\ ~ IsCup(f)} IN
    /\ \A m \in Active : table[m] = Tally(results, m)
    /\ results # {} =>
        \A m, n \in Active : ranks[m] < ranks[n] =>
            ~ Lexicographic(Metrics(table, n), Metrics(table, m))

\* A season whose gameweeks are taken up in order plays out: nobody has two
\* league or playoff matches in one gameweek, the gameweek after a settled
\* playoff round is contested by one side of each of its matches, the winner,
\* and once the last gameweek is settled no match is left to play.  This needs
\* settleH2HGameweek, the bracket functions and the job's order of calls to
\* fit together across retries and a payout that completes the league in the
\* middle of them.  The gameweeks the job settles without the league, because
\* the payout completed it before the job listed it, are not played.
SeasonPlaysOut ==
    LET matches == {f \in fixtures : ~ IsCup(f)}
        Sides(F) == (UNION {{f.home, f.away} : f \in F}) \ {NoMember}
        Playoff(g) == {f \in matches : f.gw = g /\ f.kind = "playoff"}
    IN  inOrder =>
        /\ \A f, h \in matches :
            f.gw = h.gw /\ f # h => {f.home, f.away} \cap {h.home, h.away} = {}
        /\ \A g \in settledAt \ (skipped \cup {EndGameweek}) :
            Playoff(g) # {} =>
                /\ Cardinality(Sides(Playoff(g + 1))) = Cardinality(Playoff(g))
                /\ \A f \in Playoff(g) :
                    \E w \in {f.home, f.away} \cap Sides(Playoff(g + 1)) :
                        f.homeScore # f.awayScore => SideOf(f, w)[1] > SideOf(f, w)[2]
        /\ EndGameweek \in settledAt \ skipped =>
            seasonStatus = "COMPLETED" /\ \A f \in matches : f.finished

\* "Leagues with custom scoring rules keep their own per-league scores,
\* isolated from the global squad scores the event subscribers compute"
\* (settleGameweek): a finished match carries the league's own scores.
ScoredByLeagueRules ==
    \A f \in fixtures : f.finished /\ f.kind = "league" =>
        f.homeScore = IF custom THEN CustomPoints[gwPoints[f.gw][f.home]]
                                ELSE gwPoints[f.gw][f.home]
=============================================================================
