--------------------------- MODULE DepositPipeline ---------------------------
(* Entry fees of one league, from the wallet's deposit to the books.  Four *)
(* writers set a member's paymentStatus: the member's own submit, verify   *)
(* and reconcile requests (financialService.ts), the transaction           *)
(* coordinator, which verifies a deposit whose wallet never reported back, *)
(* the event indexer, which applies the contract's events, may apply them  *)
(* again and may pass over some, and the refunds.  Deposits nobody can be  *)
(* credited for become exceptions whose sender may claim the money back    *)
(* (depositRefundService.ts).  Nothing in the repository starts the        *)
(* indexer, so it may take its steps or never take one.                    *)
(*                                                                         *)
(* Members register their own wallet and hashes.  The contract charges the *)
(* entry fee of the database, so AMOUNT_MISMATCH does not occur.           *)
EXTENDS Integers, Sequences, FiniteSets

CONSTANTS
    Wallets,     \* senders; each belongs to one user
    Hashes,      \* deposit transactions
    Sender,      \* the wallet of each hash
    MaxMembers,  \* maxMembers of the league
    PageLimit,   \* batchSize of the indexer
    MaxRequests, \* bound: requests past their checks at a time
    MaxFaults,   \* bound: crashes, lost answers and calls of resetCursor
    NoOne        \* the subject of an event about the whole league

ASSUME DepositAssumption ==
    /\ Sender \in [Hashes -> Wallets]
    /\ MaxMembers \in Nat /\ MaxFaults \in Nat /\ MaxRequests \in Nat
    /\ PageLimit \in Nat \ {0}

VARIABLES
    leagueStatus,  \* the league's status in the database
    payment,       \* paymentStatus per wallet's user, NONE without a membership
    address,       \* the users whose membership carries a stellarAddress
    row,           \* ENTRY_FEE transaction of each hash
    unhashed,      \* users with the hashless ENTRY_FEE row of a reconciliation
    tracked,       \* coordinated_transactions
    exception,     \* the hashes in deposit_exceptions
    claim          \* deposit_refund_claims, by exception
booksVars == <<leagueStatus, payment, address, row, unhashed, tracked, exception, claim>>

VARIABLES
    chainStatus,  \* the league's status in the contract
    tx,           \* each deposit transaction: not on chain yet, or its outcome
    deposit,      \* the wallets whose deposit the contract holds
    events        \* the contract's events, in ledger order
chainVars == <<chainStatus, tx, deposit, events>>

VARIABLES
    cursor,       \* events the saved cursor is past, -1 without a cursor
    page,         \* the page the indexer is applying, <<>> between polls
    decided,      \* what the indexer, having read the member, does of a deposit
    submitting,   \* submit requests past their checks: the write that is next
    verifying,    \* verifications past their checks
    reconciling,  \* reconciliations that saw the deposit
    claiming,     \* claim requests: the state of the refund_deposit call
    faults
workVars == <<cursor, page, decided, submitting, verifying, reconciling, claiming, faults>>

depositVars == <<booksVars, chainVars, workVars>>

PaymentStatuses == {"NONE", "PAYMENT_INITIATED", "PAYMENT_SUBMITTED", "PAYMENT_CONFIRMED",
                    "PAYMENT_FAILED", "REFUND_PENDING", "REFUNDED"}
RowStatuses == {"none", "SUBMITTED", "CONFIRMED", "FAILED"}
TxStates == {"pending", "success", "failed"}
TrackStates == {"none", "PENDING", "final"}  \* SUCCESS, FAILED or DROPPED
ClaimStates == {"none", "PROCESSING", "PAID", "FAILED"}

\* The next write of submitPayment: the member (new, known: whether the hash
\* had a row when it looked), the row (insert, update), the coordinator.
SubmitStates == {"none", "new", "known", "insert", "update", "track"}

Event(kind, of) == [kind |-> kind, of |-> of]
EventSet == {Event("deposit", h) : h \in Hashes}
            \cup {Event(k, w) : k \in {"EmergencyRefund", "DepositRefunded"}, w \in Wallets}
            \cup {Event("refund", NoOne)}

\* Types of every variable.
DepositTypeOK ==
    /\ leagueStatus \in {"UPCOMING", "CANCELLED"}
    /\ payment \in [Wallets -> PaymentStatuses]
    /\ address \subseteq Wallets /\ unhashed \subseteq Wallets /\ deposit \subseteq Wallets
    /\ row \in [Hashes -> RowStatuses]
    /\ tracked \in [Hashes -> TrackStates]
    /\ exception \subseteq Hashes
    /\ claim \in [Hashes -> ClaimStates]
    /\ chainStatus \in {"Upcoming", "Cancelled"}
    /\ tx \in [Hashes -> TxStates]
    /\ events \in Seq(EventSet)
    /\ cursor \in -1..Len(events)
    /\ page \in {<<>>} \cup ((1..Len(events) + 1) \X (0..Len(events)))
    /\ decided \in {"none", "flag", "confirm"}
    /\ submitting \in [Hashes -> SubmitStates]
    /\ verifying \subseteq Hashes /\ reconciling \subseteq Wallets
    /\ claiming \in [Hashes -> {"none", "calling", "landed", "rejected"}]
    /\ faults \in 0..MaxFaults

DepositInit ==
    /\ leagueStatus = "UPCOMING" /\ chainStatus = "Upcoming"
    /\ payment = [w \in Wallets |-> "NONE"]
    /\ address = {} /\ unhashed = {} /\ deposit = {} /\ exception = {}
    /\ row = [h \in Hashes |-> "none"]
    /\ tracked = [h \in Hashes |-> "none"]
    /\ claim = [h \in Hashes |-> "none"]
    /\ tx = [h \in Hashes |-> "pending"]
    /\ events = <<>>
    /\ cursor = -1 /\ page = <<>> /\ decided = "none"
    /\ submitting = [h \in Hashes |-> "none"]
    /\ verifying = {} /\ reconciling = {}
    /\ claiming = [h \in Hashes |-> "none"]
    /\ faults = 0

Fault == faults < MaxFaults /\ faults' = faults + 1
SetPayment(w, s) == payment' = [payment EXCEPT ![w] = s]
Submitting == {h \in Hashes : submitting[h] # "none"}
Requests == Cardinality(Submitting) + Cardinality(verifying) + Cardinality(reconciling)
CanRequest == Requests < MaxRequests
Members == {w \in Wallets : payment[w] # "NONE"}

-----------------------------------------------------------------------------
(* The chain.                                                              *)

\* deposit: one per participant, while the league is Upcoming.
ChainDeposits(h) ==
    /\ tx[h] = "pending"
    /\ chainStatus = "Upcoming" /\ Sender[h] \notin deposit
    /\ tx' = [tx EXCEPT ![h] = "success"]
    /\ deposit' = deposit \cup {Sender[h]}
    /\ events' = Append(events, Event("deposit", h))
    /\ UNCHANGED <<booksVars, chainStatus, workVars>>

ChainRejects(h) ==
    /\ tx[h] = "pending"
    /\ chainStatus # "Upcoming" \/ Sender[h] \in deposit
    /\ tx' = [tx EXCEPT ![h] = "failed"]
    /\ UNCHANGED <<booksVars, chainStatus, deposit, events, workVars>>

\* emergency_refund_league, during a pause: the league stays Upcoming.
ChainEmergencyRefunds(w) ==
    /\ w \in deposit
    /\ deposit' = deposit \ {w}
    /\ events' = Append(events, Event("EmergencyRefund", w))
    /\ UNCHANGED <<booksVars, chainStatus, tx, workVars>>

-----------------------------------------------------------------------------
(* Requests of the member.                                                 *)

\* createPaymentRequirement, for a league with an entry fee.
CreatePaymentRequirement(w) ==
    /\ leagueStatus = "UPCOMING"
    /\ payment[w] \in {"NONE", "PAYMENT_FAILED"}
    /\ SetPayment(w, "PAYMENT_INITIATED")
    /\ UNCHANGED <<leagueStatus, address, row, unhashed, tracked, exception, claim,
                   chainVars, workVars>>

\* submitPayment up to its writes.
SubmitStarts(h) ==
    /\ CanRequest
    /\ submitting[h] = "none"
    /\ payment[Sender[h]] \notin {"NONE", "PAYMENT_CONFIRMED"}
    /\ submitting' = [submitting EXCEPT ![h] = IF row[h] = "none" THEN "new" ELSE "known"]
    /\ UNCHANGED <<booksVars, chainVars, cursor, page, decided, verifying, reconciling,
                   claiming, faults>>

\* The member, as it was read before the checks.
SubmitWritesMember(h) ==
    /\ submitting[h] \in {"new", "known"}
    /\ SetPayment(Sender[h], "PAYMENT_SUBMITTED")
    /\ address' = address \cup {Sender[h]}
    /\ submitting' = [submitting EXCEPT ![h] = IF @ = "new" THEN "insert" ELSE "update"]
    /\ UNCHANGED <<leagueStatus, row, unhashed, tracked, exception, claim, chainVars,
                   cursor, page, decided, verifying, reconciling, claiming, faults>>

\* The transaction row.  An insert fails, and the request with it, if the
\* hash got a row meanwhile.
SubmitWritesRow(h) ==
    /\ submitting[h] \in {"insert", "update"}
    /\ IF submitting[h] = "insert" /\ row[h] # "none"
       THEN /\ submitting' = [submitting EXCEPT ![h] = "none"]
            /\ UNCHANGED row
       ELSE /\ submitting' = [submitting EXCEPT ![h] = "track"]
            /\ row' = [row EXCEPT ![h] = "SUBMITTED"]
    /\ UNCHANGED <<leagueStatus, payment, address, unhashed, tracked, exception, claim,
                   chainVars, cursor, page, decided, verifying, reconciling, claiming, faults>>

\* The hash is handed to the coordinator.
SubmitTracks(h) ==
    /\ submitting[h] = "track"
    /\ submitting' = [submitting EXCEPT ![h] = "none"]
    /\ tracked' = [tracked EXCEPT ![h] = IF @ = "none" THEN "PENDING" ELSE @]
    /\ UNCHANGED <<leagueStatus, payment, address, row, unhashed, exception, claim,
                   chainVars, cursor, page, decided, verifying, reconciling, claiming, faults>>

\* The process dies between two of the writes.
SubmitCrashes(h) ==
    /\ submitting[h] # "none"
    /\ Fault
    /\ submitting' = [submitting EXCEPT ![h] = "none"]
    /\ UNCHANGED <<booksVars, chainVars, cursor, page, decided, verifying, reconciling, claiming>>

\* verifyAndConfirmPayment up to the network call.
VerifyStarts(h) ==
    /\ CanRequest
    /\ payment[Sender[h]] \notin {"NONE", "PAYMENT_CONFIRMED"}
    /\ verifying' = verifying \cup {h}
    /\ UNCHANGED <<booksVars, chainVars, cursor, page, decided, submitting, reconciling, claiming,
                   faults>>

\* Mutant: the payment is confirmed whatever the network says.
VerifyEndsUnchecked(h) ==
    /\ h \in verifying
    /\ verifying' = verifying \ {h}
    /\ SetPayment(Sender[h], "PAYMENT_CONFIRMED")
    /\ row' = [row EXCEPT ![h] = IF @ = "none" THEN @ ELSE "CONFIRMED"]
    /\ UNCHANGED <<leagueStatus, address, unhashed, tracked, exception, claim, chainVars,
                   cursor, page, decided, submitting, reconciling, claiming, faults>>

\* What the network says decides; the member is written as it was read
\* before the call.  A transaction not found is retryable and writes nothing.
VerifyEnds(h) ==
    /\ h \in verifying
    /\ verifying' = verifying \ {h}
    /\ \/ /\ tx[h] = "success"
          /\ SetPayment(Sender[h], "PAYMENT_CONFIRMED")
          /\ row' = [row EXCEPT ![h] = IF @ = "none" THEN @ ELSE "CONFIRMED"]
       \/ /\ tx[h] = "failed"
          /\ SetPayment(Sender[h], "PAYMENT_FAILED")
          /\ row' = [row EXCEPT ![h] = IF @ = "none" THEN @ ELSE "FAILED"]
       \/ /\ tx[h] = "pending"
          /\ UNCHANGED <<payment, row>>
    /\ UNCHANGED <<leagueStatus, address, unhashed, tracked, exception, claim, chainVars,
                   cursor, page, decided, submitting, reconciling, claiming, faults>>

\* reconcileDeposit up to the contract's answer.
ReconcileStarts(w) ==
    /\ CanRequest
    /\ payment[w] \notin {"NONE", "PAYMENT_CONFIRMED"}
    /\ w \in address
    /\ w \in deposit
    /\ reconciling' = reconciling \cup {w}
    /\ UNCHANGED <<booksVars, chainVars, cursor, page, decided, submitting, verifying, claiming,
                   faults>>

\* The conditional claim, then one of the member's rows, whichever comes
\* first, or a new one.
ReconcileEnds(w) ==
    LET rows == {h \in Hashes : Sender[h] = w /\ row[h] # "none"}
    IN  /\ w \in reconciling
        /\ reconciling' = reconciling \ {w}
        /\ \/ payment[w] = "PAYMENT_CONFIRMED" /\ UNCHANGED <<payment, row, unhashed>>
           \/ /\ payment[w] # "PAYMENT_CONFIRMED"
              /\ SetPayment(w, "PAYMENT_CONFIRMED")
              /\ \/ \E h \in rows : row' = [row EXCEPT ![h] = "CONFIRMED"] /\ UNCHANGED unhashed
                 \/ w \in unhashed /\ UNCHANGED <<row, unhashed>>
                 \/ rows = {} /\ w \notin unhashed /\ unhashed' = unhashed \cup {w} /\ UNCHANGED row
        /\ UNCHANGED <<leagueStatus, address, tracked, exception, claim, chainVars,
                       cursor, page, decided, submitting, verifying, claiming, faults>>

-----------------------------------------------------------------------------
(* The transaction coordinator.                                            *)


\* pollOne and finalize: the first instance to move the record emits the
\* change, and a landed deposit is verified for its member.  A transaction
\* not found within maxPendingMs is given up, although it may still land.
CoordinatorFinalizes(h) ==
    /\ tracked[h] = "PENDING"
    /\ tracked' = [tracked EXCEPT ![h] = "final"]
    /\ verifying' = IF tx[h] = "success" /\ payment[Sender[h]] # "PAYMENT_CONFIRMED"
                    THEN verifying \cup {h} ELSE verifying
    /\ UNCHANGED <<leagueStatus, payment, address, row, unhashed, exception, claim, chainVars,
                   cursor, page, decided, submitting, reconciling, claiming, faults>>

\* The process dies between the update and emit: nobody verifies.
CoordinatorCrashes(h) ==
    /\ tracked[h] = "PENDING" /\ tx[h] = "success"
    /\ Fault
    /\ tracked' = [tracked EXCEPT ![h] = "final"]
    /\ UNCHANGED <<leagueStatus, payment, address, row, unhashed, exception, claim, chainVars,
                   cursor, page, decided, submitting, verifying, reconciling, claiming>>

-----------------------------------------------------------------------------
(* The event indexer.                                                      *)

\* pollOnce: loads the cursor and fetches a page, which may be empty.
\* Without a cursor it starts at the configured or at the latest ledger, and
\* a cursor the node no longer retains is moved up to the oldest ledger it
\* has: either way events may be passed over.
IndexerPolls ==
    /\ page = <<>>
    /\ \E from \in 0..Len(events) :
          /\ cursor <= from
          /\ cursor < Len(events)
          /\ page' = <<from + 1, IF from + PageLimit < Len(events)
                                 THEN from + PageLimit ELSE Len(events)>>
    /\ UNCHANGED <<booksVars, chainVars, cursor, decided, submitting, verifying, reconciling,
                   claiming, faults>>

Handling(kind) == page # <<>> /\ page[1] <= page[2] /\ events[page[1]].kind = kind
Subject == events[page[1]].of
EventDone ==
    /\ page' = [page EXCEPT ![1] = @ + 1]
    /\ decided' = "none"
    /\ UNCHANGED <<leagueStatus, unhashed, tracked, chainVars, cursor, submitting, verifying,
                   reconciling, claiming, faults>>

\* A deposit event: the member is looked up and the members are counted.  A
\* deposit nobody can be credited for will be flagged; one of a member who
\* was refunded is skipped; any other will be confirmed.
ReadDeposit ==
    /\ Handling("deposit") /\ decided = "none"
    /\ LET w == Sender[Subject]
           flag == payment[w] = "NONE" \/ Cardinality(Members) > MaxMembers
       IN  IF payment[w] \in {"REFUND_PENDING", "REFUNDED"} /\ ~flag
           THEN UNCHANGED booksVars /\ EventDone
           ELSE /\ decided' = IF flag THEN "flag" ELSE "confirm"
                /\ UNCHANGED <<booksVars, chainVars, cursor, page, submitting, verifying,
                               reconciling, claiming, faults>>

\* flagDeposit: an exception that already exists is left as it is.
FlagDeposit ==
    /\ Handling("deposit") /\ decided = "flag"
    /\ exception' = exception \cup {Subject}
    /\ UNCHANGED <<payment, address, row, claim>>
    /\ EventDone

\* The member is written as decided, whatever it is by now.  The exception
\* takes its claim with it when it goes.
ConfirmDeposit ==
    /\ Handling("deposit") /\ decided = "confirm"
    /\ SetPayment(Sender[Subject], "PAYMENT_CONFIRMED")
    /\ address' = address \cup {Sender[Subject]}
    /\ row' = [row EXCEPT ![Subject] = "CONFIRMED"]
    /\ exception' = exception \ {Subject}
    /\ claim' = [claim EXCEPT ![Subject] = "none"]
    /\ EventDone

ApplyEmergencyRefund ==
    /\ Handling("EmergencyRefund")
    /\ payment' = [payment EXCEPT ![Subject] = IF @ = "NONE" THEN @ ELSE "REFUNDED"]
    /\ UNCHANGED <<address, row, exception, claim>>
    /\ EventDone

\* refund names nobody: every member still owed money counts as refunded.
ApplyRefund ==
    /\ Handling("refund")
    /\ leagueStatus' = "CANCELLED"
    /\ payment' = [w \in Wallets |->
                     IF payment[w] \in {"PAYMENT_CONFIRMED", "REFUND_PENDING"}
                     THEN "REFUNDED" ELSE payment[w]]
    /\ page' = [page EXCEPT ![1] = @ + 1]
    /\ UNCHANGED <<address, row, unhashed, tracked, exception, claim, chainVars, cursor,
                   decided, submitting, verifying, reconciling, claiming, faults>>

\* DepositRefunded: some claim of the sender, whichever comes first.
ClaimsOf(w) == {h \in Hashes : Sender[h] = w /\ claim[h] # "none"}

\* The claim is PAID whatever it was before.
ApplyDepositRefunded ==
    /\ Handling("DepositRefunded")
    /\ \/ ClaimsOf(Subject) = {} /\ UNCHANGED claim
       \/ \E h \in ClaimsOf(Subject) : claim' = [claim EXCEPT ![h] = "PAID"]
    /\ UNCHANGED <<payment, address, row, exception>>
    /\ EventDone

IndexerSaves ==
    /\ page # <<>> /\ page[1] > page[2]
    /\ cursor' = page[2]
    /\ page' = <<>>
    /\ UNCHANGED <<booksVars, chainVars, decided, submitting, verifying, reconciling, claiming,
                   faults>>

\* The worker dies within a page: the page is applied again.
IndexerCrashes ==
    /\ page # <<>>
    /\ Fault
    /\ page' = <<>> /\ decided' = "none"
    /\ UNCHANGED <<booksVars, chainVars, cursor, submitting, verifying, reconciling, claiming>>

\* resetCursor, by an operator: to a ledger, or to none.
ResetCursor ==
    /\ Fault
    /\ cursor' \in -1..Len(events) /\ cursor' # cursor
    /\ UNCHANGED <<booksVars, chainVars, page, decided, submitting, verifying, reconciling,
                   claiming>>

-----------------------------------------------------------------------------
(* Refunds.                                                                *)

\* The league is called off: what was paid is owed back.
CancelLeague ==
    /\ leagueStatus = "UPCOMING"
    /\ leagueStatus' = "CANCELLED"
    /\ payment' = [w \in Wallets |-> IF payment[w] = "PAYMENT_CONFIRMED"
                                     THEN "REFUND_PENDING" ELSE payment[w]]
    /\ UNCHANGED <<address, row, unhashed, tracked, exception, claim, chainVars, workVars>>

\* refund, for the members owed (RefundDispatch models the dispatch).
RefundLeague ==
    LET owed == {w \in Wallets : payment[w] = "REFUND_PENDING"}
    IN  /\ owed # {}
        /\ chainStatus = "Upcoming"
        /\ chainStatus' = "Cancelled"
        /\ deposit' = deposit \ owed
        /\ events' = Append(events, Event("refund", NoOne))
        /\ UNCHANGED <<booksVars, tx, workVars>>

\* claimDepositRefund: takes the claim.
ClaimStarts(h) ==
    /\ h \in exception
    /\ claim[h] \in {"none", "FAILED"}
    /\ claiming[h] = "none"
    /\ claim' = [claim EXCEPT ![h] = "PROCESSING"]
    /\ claiming' = [claiming EXCEPT ![h] = "calling"]
    /\ UNCHANGED <<leagueStatus, payment, address, row, unhashed, tracked, exception, chainVars,
                   cursor, page, decided, submitting, verifying, reconciling, faults>>

\* refund_deposit returns whatever the sender has in the league.
ClaimExecutes(h) ==
    /\ claiming[h] = "calling"
    /\ IF Sender[h] \in deposit
       THEN /\ deposit' = deposit \ {Sender[h]}
            /\ events' = Append(events, Event("DepositRefunded", Sender[h]))
            /\ claiming' = [claiming EXCEPT ![h] = "landed"]
       ELSE /\ claiming' = [claiming EXCEPT ![h] = "rejected"]
            /\ UNCHANGED <<deposit, events>>
    /\ UNCHANGED <<booksVars, chainStatus, tx, cursor, page, decided, submitting, verifying, reconciling,
                   faults>>

\* Mutant: a call that the contract rejected counts as paid.
ClaimPaidUnchecked(h) ==
    /\ claiming[h] \in {"landed", "rejected"}
    /\ claim' = [claim EXCEPT ![h] = IF @ = "none" THEN @ ELSE "PAID"]
    /\ claiming' = [claiming EXCEPT ![h] = "none"]
    /\ UNCHANGED <<leagueStatus, payment, address, row, unhashed, tracked, exception, chainVars,
                   cursor, page, decided, submitting, verifying, reconciling, faults>>

\* The answer: PAID, whatever the claim was.
ClaimPaid(h) ==
    /\ claiming[h] = "landed"
    /\ claim' = [claim EXCEPT ![h] = IF @ = "none" THEN @ ELSE "PAID"]
    /\ claiming' = [claiming EXCEPT ![h] = "none"]
    /\ UNCHANGED <<leagueStatus, payment, address, row, unhashed, tracked, exception, chainVars,
                   cursor, page, decided, submitting, verifying, reconciling, faults>>

\* Mutant: the failure is written over any state of the claim.
ClaimFailsAnyway(h) ==
    /\ \/ claiming[h] = "rejected" /\ UNCHANGED faults
       \/ claiming[h] = "landed" /\ Fault  \* the confirmation timed out
    /\ claim' = [claim EXCEPT ![h] = IF @ = "none" THEN @ ELSE "FAILED"]
    /\ claiming' = [claiming EXCEPT ![h] = "none"]
    /\ UNCHANGED <<leagueStatus, payment, address, row, unhashed, tracked, exception, chainVars,
                   cursor, page, decided, submitting, verifying, reconciling>>

\* A failure is only written while the claim is PROCESSING.
ClaimFails(h) ==
    /\ \/ claiming[h] = "rejected" /\ UNCHANGED faults
       \/ claiming[h] = "landed" /\ Fault  \* the confirmation timed out
    /\ claim' = [claim EXCEPT ![h] = IF @ = "PROCESSING" THEN "FAILED" ELSE @]
    /\ claiming' = [claiming EXCEPT ![h] = "none"]
    /\ UNCHANGED <<leagueStatus, payment, address, row, unhashed, tracked, exception, chainVars,
                   cursor, page, decided, submitting, verifying, reconciling>>

-----------------------------------------------------------------------------
IndexerStep ==
    \/ IndexerPolls \/ IndexerSaves
    \/ ReadDeposit \/ FlagDeposit \/ ConfirmDeposit
    \/ ApplyEmergencyRefund \/ ApplyRefund \/ ApplyDepositRefunded

DepositNext ==
    \/ IndexerStep \/ IndexerCrashes \/ ResetCursor
    \/ CancelLeague \/ RefundLeague
    \/ \E w \in Wallets : \/ ChainEmergencyRefunds(w) \/ CreatePaymentRequirement(w)
                          \/ ReconcileStarts(w) \/ ReconcileEnds(w)
    \/ \E h \in Hashes : \/ ChainDeposits(h) \/ ChainRejects(h)
                         \/ SubmitStarts(h) \/ SubmitWritesMember(h) \/ SubmitWritesRow(h)
                         \/ SubmitTracks(h) \/ SubmitCrashes(h)
                         \/ VerifyStarts(h) \/ VerifyEnds(h)
                         \/ CoordinatorFinalizes(h) \/ CoordinatorCrashes(h)
                         \/ ClaimStarts(h) \/ ClaimExecutes(h) \/ ClaimPaid(h) \/ ClaimFails(h)

\* The coordinator, which the server starts, polls on a timer and gives up
\* on a hash in the end, and a verification ends.  Nothing else is sure to
\* happen: requests are up to their users, and the indexer may not run.
DepositSpec ==
    /\ DepositInit /\ [][DepositNext]_depositVars
    /\ \A h \in Hashes :
          WF_depositVars(CoordinatorFinalizes(h)) /\ WF_depositVars(VerifyEnds(h))

-----------------------------------------------------------------------------
(* Properties.                                                             *)

\* No writer confirms a member whose wallet never had a deposit land,
\* whatever verification, reconciliation, coordinator and indexer read and
\* wrote in between.
ConfirmedMeansPaid ==
    \A w \in Wallets : payment[w] = "PAYMENT_CONFIRMED" =>
        \E h \in Hashes : Sender[h] = w /\ tx[h] = "success"


\* A claim that was paid stays paid, or goes with its exception.
PaidClaimStays ==
    [][\A h \in Hashes : claim[h] = "PAID" => claim'[h] = "PAID" \/ h \notin exception']_depositVars

\* A claim is PAID only if the contract did pay its sender a deposit back,
\* whatever answers were lost, events replayed and claims repeated.
PaidMeansReturned ==
    \A h \in Hashes : claim[h] = "PAID" =>
        \E i \in DOMAIN events :
            events[i].kind = "DepositRefunded" /\ events[i].of = Sender[h]

\* eventIndexer.ts: "A replayed deposit must never undo a refund".
RefundNotUndone ==
    [][\A w \in Wallets : payment[w] \in {"REFUND_PENDING", "REFUNDED"} /\ w \notin deposit
            => payment'[w] # "PAYMENT_CONFIRMED"]_depositVars
=============================================================================
