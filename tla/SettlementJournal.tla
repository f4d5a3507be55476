-------------------------- MODULE SettlementJournal --------------------------
(***************************************************************************)
(* Settling one league from the backend: executeSettlement with its        *)
(* journal, recoverSettlement, the settlement-recovery job and             *)
(* commitSettlement (backend/src/services/financial/financialService.ts),  *)
(* submission and polling (sorobanContractClient.ts), the poller of        *)
(* transactionCoordinatorService.ts, and the others that move the league   *)
(* meanwhile: the gameweek settlement (jobs/gameweekSettlement.ts), the    *)
(* retroactive score adjustments, and the settle and claimed cases of the  *)
(* contract event indexer (workers/eventIndexer.ts).                       *)
(*                                                                         *)
(* Every database call and every network call is a step of its own.  The   *)
(* plan of a settlement is abstracted to the standings it was computed     *)
(* from.  A signed transaction lands at most once, not after its time      *)
(* bound, and the contract accepts one settlement of the league.           *)
(***************************************************************************)
EXTENDS Integers, Sequences, FiniteSets

CONSTANTS
    Callers,                    \* executeSettlement requests
    Recovery,                   \* the settlement-recovery job
    NoJournal,                  \* no coordinated_transactions row for the league
    ScanLimit,                  \* rows one recovery scan takes (50)
    MaxTx,                      \* bound on the transactions signed
    MaxStandings,               \* bound on changes of the standings
    MaxStuck,                   \* bound on other leagues' rows stuck in the scan
    MaxFaults                   \* bound on process deaths and failed commits

\* The coordinated_transactions row: the signed transaction, the plan stored
\* with it, and whether the commit has linked the two to the league.
JournalRows == [tx : Nat, plan : Nat, status : {"PENDING", "SUCCESS", "FAILED", "DROPPED"},
                linked : BOOLEAN]

\* Payout and fee rows of the transactions table: who wrote them, the
\* settlement they belong to and the plan their amounts come from.
LedgerRows == [by : {"commit", "settle", "claimed"}, tx : Nat, plan : Nat]

ASSUME SettlementAssumption ==
    /\ Recovery \notin Callers
    /\ NoJournal \notin JournalRows
    /\ MaxTx \in Nat /\ MaxStandings \in Nat /\ MaxFaults \in Nat
    /\ ScanLimit \in Nat \ {0} /\ MaxStuck \in Nat

VARIABLES
    status,                     \* League.status: ACTIVE or COMPLETED
    isFinished,                 \* endGameweek.isFinished
    standings,                  \* the points the plan is computed from
    journal,                    \* the row with settlementKey = leagueId
    rows,                       \* the payout and fee rows written
    stuck,                      \* rows of other leagues ahead in the scan for good
    txs,                        \* transactions signed: their plan and their fate
    run,                        \* local state of the callers and the recovery job
    observed,                   \* what the coordinator's poll read of the journaled hash
    faults

backend == <<status, isFinished, standings, journal, rows, stuck>>
vars == <<backend, txs, run, observed, faults>>

Workers == Callers \cup {Recovery}

\* tx: index into txs; plan: the plan the worker will commit.
Idle == [pc |-> "idle", plan |-> 0, tx |-> 0]

Init ==
    /\ status = "ACTIVE"
    /\ isFinished = FALSE
    /\ standings = 0
    /\ journal = NoJournal
    /\ rows = <<>>
    /\ stuck = 0
    /\ txs = <<>>
    /\ run = [w \in Workers |-> Idle]
    /\ observed = "none"
    /\ faults = 0

-----------------------------------------------------------------------------
(* executeSettlement.                                                      *)

\* The league is read and checked; the journal is read afterwards.
CheckLeague(c) ==
    /\ run[c].pc = "idle"
    /\ status # "COMPLETED"
    /\ isFinished
    /\ run' = [run EXCEPT ![c].pc = "lookup"]
    /\ UNCHANGED <<backend, txs, observed, faults>>

\* A previous attempt is recovered, never replaced.
Lookup(c) ==
    /\ run[c].pc = "lookup"
    /\ run' = [run EXCEPT ![c] =
          IF journal = NoJournal THEN [@ EXCEPT !.pc = "prepare"]
          ELSE [pc |-> "recover", plan |-> journal.plan, tx |-> journal.tx]]
    /\ UNCHANGED <<backend, txs, observed, faults>>

\* prepareSettlement, then building and signing the invocation.
Prepare(c) ==
    /\ run[c].pc = "prepare"
    /\ Len(txs) < MaxTx
    /\ txs' = Append(txs, [plan |-> standings, state |-> "signed"])
    /\ run' = [run EXCEPT ![c] = [pc |-> "journal", plan |-> standings, tx |-> Len(txs) + 1]]
    /\ UNCHANGED <<backend, observed, faults>>

\* Mutant: a foreign hash in the journal does not end the call.
JournalSendsAnyway(c) ==
    /\ run[c].pc = "journal"
    /\ journal' = IF journal = NoJournal
                  THEN [tx |-> run[c].tx, plan |-> run[c].plan, status |-> "PENDING",
                        linked |-> FALSE]
                  ELSE journal
    /\ run' = [run EXCEPT ![c].pc = "send"]
    /\ UNCHANGED <<status, isFinished, standings, rows, stuck, txs, observed, faults>>

\* Mutant: the upsert overwrites the row that is there.
JournalOverwrites(c) ==
    /\ run[c].pc = "journal"
    /\ journal' = [tx |-> run[c].tx, plan |-> run[c].plan, status |-> "PENDING",
                   linked |-> FALSE]
    /\ run' = [run EXCEPT ![c].pc = "send"]
    /\ UNCHANGED <<status, isFinished, standings, rows, stuck, txs, observed, faults>>

\* beforeSubmit: the upsert creates the row or leaves the one that is there,
\* and a foreign hash ends the call before anything is sent.
Journal(c) ==
    /\ run[c].pc = "journal"
    /\ IF journal = NoJournal
       THEN /\ journal' = [tx |-> run[c].tx, plan |-> run[c].plan, status |-> "PENDING",
                           linked |-> FALSE]
            /\ run' = [run EXCEPT ![c].pc = "send"]
       ELSE /\ run' = [run EXCEPT ![c] = Idle]
            /\ UNCHANGED journal
    /\ UNCHANGED <<status, isFinished, standings, rows, stuck, txs, observed, faults>>

-----------------------------------------------------------------------------
(* Submission, polling and the commit, shared with the recovery.           *)

\* sendTransaction hands over the signed envelope; one past its time bound
\* is refused, and a repeated one is still the same transaction.
Send(w) ==
    /\ run[w].pc = "send"
    /\ IF txs[run[w].tx].state \in {"expired", "failed"}
       THEN /\ run' = [run EXCEPT ![w] = Idle]
            /\ UNCHANGED txs
       ELSE /\ txs' = [txs EXCEPT ![run[w].tx].state = IF @ = "signed" THEN "sent" ELSE @]
            /\ run' = [run EXCEPT ![w].pc = "poll"]
    /\ UNCHANGED <<backend, observed, faults>>

\* The call is lost, or refused, before it reaches the network.
SendLost(w) ==
    /\ run[w].pc = "send"
    /\ run' = [run EXCEPT ![w] = Idle]
    /\ UNCHANGED <<backend, txs, observed, faults>>

PollLanded(w) ==
    /\ run[w].pc = "poll"
    /\ txs[run[w].tx].state = "landed"
    /\ run' = [run EXCEPT ![w].pc = "commit"]
    /\ UNCHANGED <<backend, txs, observed, faults>>

\* A failed transaction, no answer within maxPollAttempts, or a lost
\* connection: the hash is already journaled, so tracking it changes nothing.
PollEnds(w) ==
    /\ run[w].pc = "poll"
    /\ run' = [run EXCEPT ![w] = Idle]
    /\ UNCHANGED <<backend, txs, observed, faults>>

\* Mutant: the league row is not claimed first.
CommitWithoutClaim(w) ==
    /\ run[w].pc = "commit"
    /\ status' = "COMPLETED"
    /\ rows' = Append(rows, [by |-> "commit", tx |-> run[w].tx, plan |-> run[w].plan])
    /\ journal' = [journal EXCEPT !.status = "SUCCESS", !.linked = TRUE]
    /\ run' = [run EXCEPT ![w] = Idle]
    /\ UNCHANGED <<isFinished, standings, stuck, txs, observed, faults>>

\* commitSettlement: the league row is claimed inside the transaction that
\* writes the ledger rows.
CommitSettlement(w) ==
    /\ run[w].pc = "commit"
    /\ IF status # "COMPLETED"
       THEN /\ status' = "COMPLETED"
            /\ rows' = Append(rows, [by |-> "commit", tx |-> run[w].tx, plan |-> run[w].plan])
            /\ journal' = [journal EXCEPT !.status = "SUCCESS", !.linked = TRUE]
       ELSE UNCHANGED <<status, rows, journal>>
    /\ run' = [run EXCEPT ![w] = Idle]
    /\ UNCHANGED <<isFinished, standings, stuck, txs, observed, faults>>

\* recoverSettlement: only the journaled envelope is looked up and replayed.
Recover(w) ==
    /\ run[w].pc = "recover"
    /\ run' = [run EXCEPT ![w] =
          CASE txs[@.tx].state = "landed" -> [@ EXCEPT !.pc = "commit"]
            [] txs[@.tx].state = "failed" -> Idle
            [] OTHER -> [@ EXCEPT !.pc = "send"]]
    /\ UNCHANGED <<backend, txs, observed, faults>>

\* Mutant: only attempts that are still PENDING are recovered.
RecoveryScanPendingOnly ==
    /\ run[Recovery].pc = "idle"
    /\ journal # NoJournal
    /\ journal.status = "PENDING"
    /\ ~journal.linked
    /\ stuck < ScanLimit
    /\ status # "COMPLETED"
    /\ run' = [run EXCEPT ![Recovery] =
          [pc |-> "recover", plan |-> journal.plan, tx |-> journal.tx]]
    /\ UNCHANGED <<backend, txs, observed, faults>>

\* recoverPendingSettlements picks the journaled attempt up, if it is among
\* the ScanLimit rows with the earliest nextPollAt.
RecoveryScan ==
    /\ run[Recovery].pc = "idle"
    /\ journal # NoJournal
    /\ journal.status \in {"PENDING", "SUCCESS", "DROPPED"}
    /\ ~journal.linked
    /\ stuck < ScanLimit
    /\ status # "COMPLETED"
    /\ run' = [run EXCEPT ![Recovery] =
          [pc |-> "recover", plan |-> journal.plan, tx |-> journal.tx]]
    /\ UNCHANGED <<backend, txs, observed, faults>>

\* A process dies, or the database rejects the commit.
Fault(w) ==
    /\ run[w].pc # "idle"
    /\ faults < MaxFaults
    /\ faults' = faults + 1
    /\ run' = [run EXCEPT ![w] = Idle]
    /\ UNCHANGED <<backend, txs, observed>>

-----------------------------------------------------------------------------
(* The transaction coordinator.                                            *)

\* Mutant: a hash that is not found stays pending however old it is.
CoordinatorPollWaits ==
    /\ observed = "none"
    /\ journal # NoJournal /\ journal.status = "PENDING"
    /\ observed' \in CASE txs[journal.tx].state = "landed" -> {"SUCCESS"}
                       [] txs[journal.tx].state = "failed" -> {"FAILED"}
                       [] OTHER -> {"none"}
    /\ UNCHANGED <<backend, txs, run, faults>>

CoordinatorPoll ==
    /\ observed = "none"
    /\ journal # NoJournal /\ journal.status = "PENDING"
    /\ observed' \in CASE txs[journal.tx].state = "landed" -> {"SUCCESS"}
                       [] txs[journal.tx].state = "failed" -> {"FAILED"}
                       [] txs[journal.tx].state = "expired" -> {"DROPPED"}
                       [] OTHER -> {"none"}
    /\ UNCHANGED <<backend, txs, run, faults>>

\* finalize changes a row that is still PENDING.
CoordinatorFinalize ==
    /\ observed # "none"
    /\ journal' = IF journal.status = "PENDING" THEN [journal EXCEPT !.status = observed]
                  ELSE journal
    /\ observed' = "none"
    /\ UNCHANGED <<status, isFinished, standings, rows, stuck, txs, run, faults>>

-----------------------------------------------------------------------------
(* The contract event indexer, if it runs: its settle and claimed cases.   *)
(* Each upserts a row of its own, keyed by the hash, so that a replayed    *)
(* event writes nothing new.                                               *)

Written(by, t) == \E i \in DOMAIN rows : rows[i].by = by /\ rows[i].tx = t

Upsert(by, t) ==
    rows' = IF Written(by, t) THEN rows
            ELSE Append(rows, [by |-> by, tx |-> t, plan |-> txs[t].plan])

\* The settle event: the league is completed and the fee recorded.
IndexerSettles(t) ==
    /\ txs[t].state = "landed"
    /\ status' = "COMPLETED"
    /\ Upsert("settle", t)
    /\ UNCHANGED <<isFinished, standings, journal, stuck, txs, run, observed, faults>>

\* A winner's claim of the prize the settlement set aside.
IndexerClaims(t) ==
    /\ txs[t].state = "landed"
    /\ Upsert("claimed", t)
    /\ UNCHANGED <<status, isFinished, standings, journal, stuck, txs, run, observed, faults>>

-----------------------------------------------------------------------------
(* The network, the contract and the other jobs.                           *)

\* The contract settles a league once.
Include(t) ==
    /\ txs[t].state = "sent"
    /\ \E result \in {"landed", "failed"} :
          /\ result = "landed" => \A u \in DOMAIN txs : txs[u].state # "landed"
          /\ txs' = [txs EXCEPT ![t].state = result]
    /\ UNCHANGED <<backend, run, observed, faults>>

\* The time bound passes before the transaction is included.
Expire(t) ==
    /\ txs[t].state \in {"signed", "sent"}
    /\ txs' = [txs EXCEPT ![t].state = "expired"]
    /\ UNCHANGED <<backend, run, observed, faults>>

\* The FPL sync marks the last gameweek finished.
SyncGameweek ==
    /\ ~isFinished
    /\ isFinished' = TRUE
    /\ UNCHANGED <<status, standings, journal, rows, stuck, txs, run, observed, faults>>

\* settleGameweek completes the leagues that end with the gameweek, and at
\* the end marks the gameweek finished; neither looks at the journal.
CompleteLeague ==
    /\ status = "ACTIVE"
    /\ status' = "COMPLETED"
    /\ UNCHANGED <<isFinished, standings, journal, rows, stuck, txs, run, observed, faults>>

FinishGameweek ==
    /\ status = "COMPLETED" /\ ~isFinished
    /\ isFinished' = TRUE
    /\ UNCHANGED <<status, standings, journal, rows, stuck, txs, run, observed, faults>>

\* Another league's attempt stays in the scan ahead of this one for good: it
\* was DROPPED, or its league was completed without the commit linking it.
\* Such a row is skipped or fails in every scan, and its nextPollAt is final.
OtherAttemptSticks ==
    /\ stuck < MaxStuck
    /\ stuck' = stuck + 1
    /\ UNCHANGED <<status, isFinished, standings, journal, rows, txs, run, observed, faults>>

\* A late correction of the squads' points.  League standings that were paid
\* are protected from it, the points the plan is computed from are not.
AdjustStandings ==
    /\ standings < MaxStandings
    /\ standings' = standings + 1
    /\ UNCHANGED <<status, isFinished, journal, rows, stuck, txs, run, observed, faults>>

-----------------------------------------------------------------------------

WorkerStep(w) ==
    \/ Send(w) \/ SendLost(w) \/ PollLanded(w) \/ PollEnds(w)
    \/ CommitSettlement(w) \/ Recover(w)

CallerStep(c) == CheckLeague(c) \/ Lookup(c) \/ Prepare(c) \/ Journal(c)

CoordinatorStep == CoordinatorPoll \/ CoordinatorFinalize

Next ==
    \/ \E w \in Workers : WorkerStep(w) \/ Fault(w)
    \/ \E c \in Callers : CallerStep(c)
    \/ RecoveryScan
    \/ CoordinatorStep
    \/ \E t \in DOMAIN txs :
          Include(t) \/ Expire(t) \/ IndexerSettles(t) \/ IndexerClaims(t)
    \/ SyncGameweek
    \/ CompleteLeague \/ FinishGameweek
    \/ AdjustStandings \/ OtherAttemptSticks

Spec == Init /\ [][Next]_vars

\* The recovery job is scheduled every minute and the coordinator polls
\* every two seconds; every call they make returns.  Nothing is assumed of
\* the callers, the network, the indexer or the other jobs.
FairSpec ==
    /\ Spec
    /\ WF_vars(RecoveryScan \/ WorkerStep(Recovery))
    /\ WF_vars(CoordinatorStep)

-----------------------------------------------------------------------------
(* Properties.                                                             *)

\* Types, and that the journal row and every worker refer to a transaction
\* that was signed (executeSettlement journals inside beforeSubmit).
TypeOK ==
    /\ status \in {"ACTIVE", "COMPLETED"}
    /\ standings \in 0..MaxStandings
    /\ journal = NoJournal \/ journal.tx \in DOMAIN txs
    /\ \A t \in DOMAIN txs :
          txs[t].state \in {"signed", "sent", "landed", "failed", "expired"}
    /\ \A w \in Workers : run[w].tx \in {0} \cup DOMAIN txs

\* Only the journaled transaction ever reaches the network, whatever callers
\* race, die or retry: there is never a second signed payout in flight.
OnlyJournaledSent ==
    \A t \in DOMAIN txs :
        txs[t].state \in {"sent", "landed", "failed"} =>
            journal # NoJournal /\ journal.tx = t

\* Every payout and fee row is the plan that settled on chain, even if the
\* standings moved after it was signed, and no writer records it twice:
\* neither racing commits nor a replayed event.  (commitSettlement and the
\* indexer do record the same fee once each, under different hashes.)
RowsMatchChain ==
    /\ \A i, j \in DOMAIN rows : rows[i].by = rows[j].by => i = j
    /\ \A i \in DOMAIN rows :
          /\ rows[i].tx \in DOMAIN txs
          /\ txs[rows[i].tx].state = "landed" /\ txs[rows[i].tx].plan = rows[i].plan

\* The journal keeps its hash and its plan for good, and a linked attempt is
\* never reopened.
JournalIsDurable ==
    [][journal # NoJournal =>
          /\ journal' # NoJournal
          /\ journal'.tx = journal.tx /\ journal'.plan = journal.plan
          /\ journal.linked => journal' = journal]_vars

\* A settlement that landed eventually completes the league, although its
\* caller died or never got the answer, unless ScanLimit rows that no scan
\* gets rid of are ahead of it in recoverPendingSettlements.
LandedCompletes ==
    \A t \in 1..MaxTx :
        (t \in DOMAIN txs /\ txs[t].state = "landed")
            ~> (status = "COMPLETED" \/ stuck >= ScanLimit)

\* The journal row of a transaction that is final on chain, or expired, does
\* not stay PENDING.
JournalFinalizes ==
    (journal # NoJournal /\ txs[journal.tx].state \in {"landed", "failed", "expired"})
        ~> (journal # NoJournal /\ journal.status # "PENDING")

-----------------------------------------------------------------------------
(* What the documentation says, and the code does not.                     *)

\* "A confirmed hash atomically marks the league completed and creates
\* payouts/fees": a completed league whose settlement landed has some row.
ConfirmedIsRecorded ==
    status = "COMPLETED" /\ (\E t \in DOMAIN txs : txs[t].state = "landed") => rows # <<>>
=============================================================================
