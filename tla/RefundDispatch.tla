--------------------------- MODULE RefundDispatch ---------------------------
(***************************************************************************)
(* Refunding the members of a cancelled league from the backend:           *)
(* processLeagueRefunds and redispatchRefundEntry                          *)
(* (backend/src/services/financial/financialService.ts) and the payout     *)
(* dead-letter queue (payoutDeadLetterService.ts).                         *)
(*                                                                         *)
(* The refund job and administrators' retries run concurrently against one *)
(* database; every database call and every contract call is a step of its  *)
(* own.  A refund transaction may be rejected, land and be confirmed, or   *)
(* get no answer in time, in which case it may still land later.           *)
(* A process may die between any two steps.                                *)
(*                                                                         *)
(* Time enters only through the age of a claim: an entry in RETRYING       *)
(* becomes stale once STALE_RETRY_MS have passed.  WorkersStall says       *)
(* whether a live worker may take longer than that over one entry.         *)
(***************************************************************************)
EXTENDS Integers, FiniteSets, Sequences, FiniteSetsExt

CONSTANTS
    Members,                    \* paid members of the league
    Jobs, Admins,               \* refund job runs; administrators' requests
    REFUND_BATCH_SIZE,
    MAX_AUTOMATIC_ATTEMPTS,
    WorkersStall,
    MaxEntries,                 \* bound on the entries of failed_payouts
    MaxAttempts,                \* bound on the attempts of an entry
    MaxFaults                   \* bound on process deaths and failed commits

ASSUME RefundAssumption ==
    /\ IsFiniteSet(Members)
    /\ REFUND_BATCH_SIZE \in Nat \ {0}
    /\ MAX_AUTOMATIC_ATTEMPTS \in Nat
    /\ WorkersStall \in BOOLEAN

VARIABLES
    escrowed,                   \* members whose deposit is in the escrow contract
    paid,                       \* history: on-chain payments to a member
    late,                       \* unanswered transactions that may still land
    owed,                       \* paymentStatus is REFUND_PENDING or PAYMENT_CONFIRMED
    rows,                       \* REFUND rows of the transactions table
    wallet,                     \* members with a linked Stellar address
    entries,                    \* failed_payouts, in order of creation
    run,                        \* the local state of every worker
    faults

chain == <<escrowed, paid, late>>
books == <<owed, rows>>
vars == <<chain, books, wallet, entries, run, faults>>

Workers == Jobs \cup Admins
NoEntry == 0
Open == {"PENDING", "RETRYING"}
Closed == {"RESOLVED", "DISCARDED"}
ISOLATING_DEAD_LETTER_STATUSES == {"PENDING", "RETRYING", "DISCARDED"}

\* pc       what the worker does next
\* owed, wallet  the members as processLeagueRefunds loaded them
\* queue    entries listed for automatic retry and not reached yet
\* refunded members this run has refunded
\* todo     members still to dispatch
\* entry    the claimed entry, or NoEntry; attempts: as read at the claim
\* batch    the members of the dispatched transaction; tx: its fate so far
\* recoverable  classification of the failure to be recorded
Idle == [pc |-> "idle", owed |-> {}, wallet |-> {}, queue |-> {}, refunded |-> {},
         todo |-> {}, entry |-> NoEntry, attempts |-> 0, batch |-> {}, tx |-> "none",
         recoverable |-> FALSE]

Init ==
    /\ escrowed = Members
    /\ paid = [m \in Members |-> 0]
    /\ late = {}
    /\ owed = Members
    /\ rows = [m \in Members |-> 0]
    /\ wallet \in SUBSET Members
    /\ entries = <<>>
    /\ run = [w \in Workers |-> Idle]
    /\ faults = 0

-----------------------------------------------------------------------------
(* The dead-letter queue.                                                  *)

\* deadLetter
NewEntry(members, recoverable) ==
    [memberIds |-> members, status |-> "PENDING", recoverable |-> recoverable,
     attempts |-> 1, stale |-> FALSE]

\* Mutant: a written-off entry no longer isolates its members.
IsolatedWhileOpen ==
    UNION {entries[e].memberIds : e \in {d \in DOMAIN entries : entries[d].status \in Open}}

\* getIsolatedMemberIds
IsolatedMemberIds ==
    UNION {entries[e].memberIds : e \in {d \in DOMAIN entries :
              entries[d].status \in ISOLATING_DEAD_LETTER_STATUSES}}

\* getAutoRetryable
AutoRetryable(e) ==
    /\ entries[e].status = "PENDING"
    /\ entries[e].recoverable
    /\ entries[e].attempts < MAX_AUTOMATIC_ATTEMPTS

\* Mutant: a retry that is under way can be claimed.
ClaimableWhileRetrying(e) == entries[e].status \in {"PENDING", "RETRYING"}

\* Mutant: only resolved entries are refused.
ClaimableUnlessResolved(e) == entries[e].status \in {"PENDING", "DISCARDED"}

\* The condition of the update in claimForRetry.
Claimable(e) ==
    \/ entries[e].status = "PENDING"
    \/ entries[e].status = "RETRYING" /\ entries[e].stale

Claim(e) == [entries EXCEPT ![e].status = "RETRYING", ![e].stale = FALSE]

\* markRetryFailed writes the entry whatever its status, from the attempts
\* read at the claim.
RetryFailed(e, attempts, recoverable) ==
    [entries EXCEPT ![e].status = "PENDING", ![e].attempts = attempts + 1,
                    ![e].recoverable = recoverable, ![e].stale = FALSE]

\* An administrator writes an entry off.
Discard(e) ==
    /\ entries[e].status = "PENDING"
    /\ entries' = [entries EXCEPT ![e].status = "DISCARDED"]
    /\ UNCHANGED <<chain, books, wallet, run, faults>>

\* STALE_RETRY_MS pass since the claim.
BecomeStale(e) ==
    /\ entries[e].status = "RETRYING" /\ ~entries[e].stale
    /\ WorkersStall \/ \A w \in Workers : run[w].entry # e
    /\ entries' = [entries EXCEPT ![e].stale = TRUE]
    /\ UNCHANGED <<chain, books, wallet, run, faults>>

-----------------------------------------------------------------------------
(* The escrow contract and the network (external).                         *)

\* The contract's refund: a participant without a deposit is skipped.
ContractRefund(members) ==
    /\ paid' = [m \in Members |-> paid[m] + (IF m \in members \cap escrowed THEN 1 ELSE 0)]
    /\ escrowed' = escrowed \ members

Land(w) ==
    /\ run[w].tx = "open"
    /\ ContractRefund(run[w].batch)
    /\ run' = [run EXCEPT ![w].tx = "landed"]
    /\ UNCHANGED <<late, books, wallet, entries, faults>>

LandLate(members) ==
    /\ ContractRefund(members)
    /\ late' = late \ {members}
    /\ UNCHANGED <<books, wallet, entries, run, faults>>

\* The time bound of the transaction passes.
Expire(members) ==
    /\ late' = late \ {members}
    /\ UNCHANGED <<escrowed, paid, books, wallet, entries, run, faults>>

-----------------------------------------------------------------------------
(* Steps shared by the job and the retries.                                *)

\* A worker hands members to dispatchRefund.
Dispatched(w, members) == [run[w] EXCEPT !.pc = "sent", !.batch = members, !.tx = "open"]

\* A worker is done with an entry: the job goes on with its queue.
AfterEntry(w, refunded) ==
    IF w \in Jobs
    THEN [run[w] EXCEPT !.pc = "queue", !.refunded = @ \cup refunded, !.entry = NoEntry,
                        !.attempts = 0, !.batch = {}, !.tx = "none", !.recoverable = FALSE]
    ELSE Idle

AfterBatch(w) ==
    [run[w] EXCEPT !.pc = "batches", !.batch = {}, !.tx = "none", !.recoverable = FALSE]

\* Mutant: members without a wallet are dropped from the retry.
LoadEntryDropsWalletless(w) ==
    LET members == entries[run[w].entry].memberIds \cap owed \cap wallet
    IN  /\ run[w].pc = "claimed"
        /\ run' = [run EXCEPT ![w] = IF members = {} THEN [@ EXCEPT !.pc = "resolve"]
                                     ELSE Dispatched(w, members)]
        /\ UNCHANGED <<chain, books, wallet, entries, faults>>

\* redispatchRefundEntry after the claim: members are loaded afresh.
LoadEntry(w) ==
    LET members == entries[run[w].entry].memberIds \cap owed
    IN  /\ run[w].pc = "claimed"
        /\ run' = [run EXCEPT ![w] =
              IF members = {} THEN [@ EXCEPT !.pc = "resolve"]
              ELSE IF members \subseteq wallet THEN Dispatched(w, members)
              ELSE [@ EXCEPT !.pc = "fail", !.recoverable = FALSE]]
        /\ UNCHANGED <<chain, books, wallet, entries, faults>>

\* Mutant: a submitted transaction is taken for a confirmed one.
ConfirmedOnSubmit(w) ==
    /\ run[w].pc = "sent"
    /\ run' = [run EXCEPT ![w].pc = "commit"]
    /\ UNCHANGED <<chain, books, wallet, entries, faults>>

Confirmed(w) ==
    /\ run[w].pc = "sent" /\ run[w].tx = "landed"
    /\ run' = [run EXCEPT ![w].pc = "commit"]
    /\ UNCHANGED <<chain, books, wallet, entries, faults>>

\* The call fails before or at submission: nothing lands.
Rejected(w) ==
    /\ run[w].pc = "sent" /\ run[w].tx = "open"
    /\ \E recoverable \in BOOLEAN :
          run' = [run EXCEPT ![w].pc = "fail", ![w].tx = "none", ![w].batch =
                      IF run[w].entry = NoEntry THEN @ ELSE {},
                      ![w].recoverable = recoverable]
    /\ UNCHANGED <<chain, books, wallet, entries, faults>>

\* No answer in time, or the connection is lost after submission.
Unanswered(w) ==
    /\ run[w].pc = "sent"
    /\ late' = IF run[w].tx = "open" THEN late \cup {run[w].batch} ELSE late
    /\ \E recoverable \in BOOLEAN :
          run' = [run EXCEPT ![w].pc = "fail", ![w].tx = "none", ![w].batch =
                      IF run[w].entry = NoEntry THEN @ ELSE {},
                      ![w].recoverable = recoverable]
    /\ UNCHANGED <<escrowed, paid, books, wallet, entries, faults>>

\* commitRefundBatch, one database transaction.
CommitRefundBatch(w) ==
    /\ run[w].pc = "commit"
    /\ owed' = owed \ run[w].batch
    /\ rows' = [m \in Members |-> rows[m] + (IF m \in run[w].batch THEN 1 ELSE 0)]
    /\ run' = [run EXCEPT ![w] = IF run[w].entry = NoEntry THEN AfterBatch(w)
                                 ELSE [@ EXCEPT !.pc = "resolve", !.tx = "none"]]
    /\ UNCHANGED <<chain, wallet, entries, faults>>

\* The database rejects the loading of an entry's members, the commit, or the
\* resolution after it: a retry releases its entry before it throws, a batch of
\* the job throws at once.
DatabaseFails(w) ==
    /\ run[w].pc \in {"claimed", "commit", "resolve"}
    /\ faults < MaxFaults
    /\ faults' = faults + 1
    /\ \E recoverable \in BOOLEAN :
          run' = [run EXCEPT ![w] =
              IF run[w].entry = NoEntry THEN Idle
              ELSE [@ EXCEPT !.pc = "release", !.tx = "none", !.batch = {},
                             !.recoverable = recoverable]]
    /\ UNCHANGED <<chain, books, wallet, entries>>

\* markResolved writes the entry whatever its status.
MarkResolved(w) ==
    /\ run[w].pc = "resolve"
    /\ entries' = [entries EXCEPT ![run[w].entry].status = "RESOLVED",
                                  ![run[w].entry].stale = FALSE]
    /\ run' = [run EXCEPT ![w] = AfterEntry(w, run[w].batch)]
    /\ UNCHANGED <<chain, books, wallet, faults>>

\* A failed retry goes back to its entry; an error that is thrown on also
\* ends the run of the job.
MarkRetryFailed(w) ==
    /\ run[w].pc \in {"fail", "release"} /\ run[w].entry # NoEntry
    /\ entries' = RetryFailed(run[w].entry, run[w].attempts, run[w].recoverable)
    /\ run' = [run EXCEPT ![w] = IF run[w].pc = "release" THEN Idle ELSE AfterEntry(w, {})]
    /\ UNCHANGED <<chain, books, wallet, faults>>

-----------------------------------------------------------------------------
(* processLeagueRefunds.                                                   *)

\* The job picks cancelled leagues with owed members and loads them.
JobStart(j) ==
    /\ run[j].pc = "idle"
    /\ owed # {}
    /\ run' = [run EXCEPT ![j] = [Idle EXCEPT !.pc = "list", !.owed = owed,
                                              !.wallet = wallet \cap owed]]
    /\ UNCHANGED <<chain, books, wallet, entries, faults>>

JobList(j) ==
    /\ run[j].pc = "list"
    /\ run' = [run EXCEPT ![j].pc = "queue",
                          ![j].queue = {e \in DOMAIN entries : AutoRetryable(e)}]
    /\ UNCHANGED <<chain, books, wallet, entries, faults>>

\* A conflict leaves the entry to whoever claimed or closed it.
JobClaim(j) ==
    /\ run[j].pc = "queue" /\ run[j].queue # {}
    /\ LET e == Min(run[j].queue)
       IN  IF Claimable(e)
           THEN /\ entries' = Claim(e)
                /\ run' = [run EXCEPT ![j].pc = "claimed", ![j].queue = @ \ {e},
                                      ![j].entry = e, ![j].attempts = entries[e].attempts]
           ELSE /\ run' = [run EXCEPT ![j].queue = @ \ {e}]
                /\ UNCHANGED entries
    /\ UNCHANGED <<chain, books, wallet, faults>>

\* Whoever is owed a refund and not isolated is dispatched, from the members
\* as they were loaded at the start; those without a wallet are
\* dead-lettered at once.
JobSelect(j) ==
    LET dispatchable == (run[j].owed \ run[j].refunded) \ IsolatedMemberIds
        missingWallet == dispatchable \ run[j].wallet
    IN  /\ run[j].pc = "queue" /\ run[j].queue = {}
        /\ IF missingWallet = {} THEN UNCHANGED entries
           ELSE /\ Len(entries) < MaxEntries
                /\ entries' = Append(entries, NewEntry(missingWallet, FALSE))
        /\ run' = [run EXCEPT ![j] = [Idle EXCEPT !.pc = "batches",
                                                  !.todo = dispatchable \cap run[j].wallet]]
        /\ UNCHANGED <<chain, books, wallet, faults>>

JobDispatch(j) ==
    /\ run[j].pc = "batches" /\ run[j].todo # {}
    /\ \E batch \in SUBSET run[j].todo :
          /\ Cardinality(batch) = Min({REFUND_BATCH_SIZE, Cardinality(run[j].todo)})
          /\ run' = [run EXCEPT ![j] = [Dispatched(j, batch) EXCEPT !.todo = @ \ batch]]
    /\ UNCHANGED <<chain, books, wallet, entries, faults>>

\* Mutant: a failed batch is only logged.
LogFailedBatch(j) ==
    /\ run[j].pc = "fail" /\ run[j].entry = NoEntry
    /\ run' = [run EXCEPT ![j] = AfterBatch(j)]
    /\ UNCHANGED <<chain, books, wallet, entries, faults>>

\* A failed batch is isolated and the job goes on with the next one.
DeadLetterBatch(j) ==
    /\ run[j].pc = "fail" /\ run[j].entry = NoEntry
    /\ Len(entries) < MaxEntries
    /\ entries' = Append(entries, NewEntry(run[j].batch, run[j].recoverable))
    /\ run' = [run EXCEPT ![j] = AfterBatch(j)]
    /\ UNCHANGED <<chain, books, wallet, faults>>

JobDone(j) ==
    /\ run[j].pc = "batches" /\ run[j].todo = {}
    /\ run' = [run EXCEPT ![j] = Idle]
    /\ UNCHANGED <<chain, books, wallet, entries, faults>>

-----------------------------------------------------------------------------
(* Administrators, wallets and faults.                                     *)

\* retryDeadLetteredPayout.
AdminRetry(a, e) ==
    /\ run[a].pc = "idle"
    /\ entries[e].attempts < MaxAttempts
    /\ Claimable(e)
    /\ entries' = Claim(e)
    /\ run' = [run EXCEPT ![a] = [Idle EXCEPT !.pc = "claimed", !.entry = e,
                                              !.attempts = entries[e].attempts]]
    /\ UNCHANGED <<chain, books, wallet, faults>>

\* External: "Wallets may have been linked since the failure", says
\* redispatchRefundEntry; no service of the backend does it.
LinkWallet(m) ==
    /\ m \notin wallet
    /\ wallet' = wallet \cup {m}
    /\ UNCHANGED <<chain, books, entries, run, faults>>

\* A worker dies; a transaction it submitted may still land, and an entry it
\* had claimed stays in RETRYING.
Crash(w) ==
    /\ run[w].pc # "idle"
    /\ faults < MaxFaults
    /\ faults' = faults + 1
    /\ late' = IF run[w].tx = "open" THEN late \cup {run[w].batch} ELSE late
    /\ run' = [run EXCEPT ![w] = Idle]
    /\ UNCHANGED <<escrowed, paid, books, wallet, entries>>

-----------------------------------------------------------------------------

Answer(w) == Confirmed(w) \/ Rejected(w) \/ Unanswered(w)

EntryStep(w) ==
    \/ LoadEntry(w) \/ Answer(w)
    \/ CommitRefundBatch(w) \/ DatabaseFails(w)
    \/ MarkResolved(w) \/ MarkRetryFailed(w)

JobStep(j) ==
    \/ JobStart(j) \/ JobList(j) \/ JobClaim(j)
    \/ JobSelect(j) \/ JobDispatch(j) \/ DeadLetterBatch(j) \/ JobDone(j)

Next ==
    \/ \E w \in Workers : EntryStep(w) \/ Land(w) \/ Crash(w)
    \/ \E j \in Jobs : JobStep(j)
    \/ \E e \in DOMAIN entries :
          \/ \E a \in Admins : AdminRetry(a, e)
          \/ Discard(e)
          \/ BecomeStale(e)
    \/ \E members \in late : LandLate(members) \/ Expire(members)
    \/ \E m \in Members : LinkWallet(m)

Spec == Init /\ [][Next]_vars

\* pg-boss starts the job every five minutes, and every database and
\* network call returns: polling a transaction is bounded by
\* maxPollAttempts.
Fairness ==
    /\ \A j \in Jobs : WF_vars(JobStep(j))
    /\ \A w \in Workers : WF_vars(EntryStep(w))

FairSpec == Spec /\ Fairness

-----------------------------------------------------------------------------
(* Properties.                                                             *)

\* Types, and that a worker's claimed entry exists in failed_payouts and an
\* entry's attempts never fall below the one that created it.
TypeOK ==
    /\ escrowed \subseteq Members /\ owed \subseteq Members /\ wallet \subseteq Members
    /\ paid \in [Members -> Nat] /\ rows \in [Members -> Nat]
    /\ late \subseteq SUBSET Members
    /\ \A e \in DOMAIN entries :
          /\ entries[e].memberIds \subseteq Members
          /\ entries[e].status \in Open \cup Closed
          /\ entries[e].attempts \in Nat \ {0}
    /\ \A w \in Workers : run[w].entry \in {NoEntry} \cup DOMAIN entries
    /\ faults \in 0..MaxFaults

\* The books follow the chain: a member is paid at most once on chain
\* whatever is retried, re-claimed or lands late, and is marked REFUNDED only
\* after that payment, with a REFUND row.
BooksFollowChain ==
    \A m \in Members :
        /\ paid[m] <= 1
        /\ m \notin owed => paid[m] = 1 /\ rows[m] >= 1
        /\ paid[m] = 0 => m \in escrowed

\* Closing an entry as RESOLVED leaves none of its members owed, so leaving
\* the isolation never drops a member whose refund failed.
ResolvedMeansRefunded ==
    \A e \in DOMAIN entries :
        entries[e].status = "RESOLVED" => entries[e].memberIds \cap owed = {}

\* While no worker outlives its claim, an entry is retried by one worker at
\* a time, who finds it as it left it.
OneRetryAtATime ==
    \A w \in Workers : run[w].entry # NoEntry =>
        /\ entries[run[w].entry].status = "RETRYING"
        /\ \A v \in Workers \ {w} : run[v].entry # run[w].entry

\* RESOLVED and DISCARDED are final: a written-off payout is never taken up
\* again.
ClosedIsFinal ==
    [][\A e \in DOMAIN entries :
          entries[e].status \in Closed => entries'[e].status = entries[e].status]_vars

\* A written-off member is never paid by a transaction dispatched after the
\* write-off.
WrittenOff(m) ==
    \E e \in DOMAIN entries : entries[e].status = "DISCARDED" /\ m \in entries[e].memberIds

DiscardHolds ==
    [][\A w \in Workers :
          run[w].pc # "sent" /\ run'[w].pc = "sent" =>
              \A m \in run'[w].batch : ~WrittenOff(m)]_vars

\* An entry the job will not touch again by itself: left to an
\* administrator, written off, or claimed (by a retry that died, too).
LeftToAdmin(m) ==
    \E e \in DOMAIN entries :
        /\ m \in entries[e].memberIds
        /\ entries[e].status \in ISOLATING_DEAD_LETTER_STATUSES
        /\ ~AutoRetryable(e)

\* Every member is eventually refunded in the books or left to an
\* administrator, for good: automatic retries never go on forever and no
\* failed batch is lost.
EventuallyHandled ==
    \A m \in Members : <>[](m \notin owed \/ LeftToAdmin(m))

-----------------------------------------------------------------------------
(* What the tests say, and the code does not.                              *)

\* "never pays a member twice when they were refunded in the meantime": the
\* ledger has one REFUND row for a member.
RefundRecordedOnce == \A m \in Members : rows[m] <= 1
=============================================================================
