------------------------ MODULE RefundDispatchProofs ------------------------
(***************************************************************************)
(* Proofs about the refunds of a cancelled league, for any number of       *)
(* members, of runs of the refund job and of administrators, and for every *)
(* sequence of failures, late transactions and process deaths.             *)
(***************************************************************************)
EXTENDS RefundDispatch, WellFoundedInduction, TLAPS

RefundPcs == {"idle", "list", "queue", "claimed", "sent", "commit", "resolve", "fail",
              "release", "batches"}

EntryRecords ==
    [memberIds : SUBSET Members, status : Open \cup Closed, recoverable : BOOLEAN,
     attempts : Nat, stale : BOOLEAN]

WorkerStates ==
    [pc : RefundPcs, owed : SUBSET Members, wallet : SUBSET Members, queue : SUBSET Nat,
     refunded : SUBSET Members, todo : SUBSET Members, entry : Nat, attempts : Nat,
     batch : SUBSET Members, tx : {"none", "open", "landed"}, recoverable : BOOLEAN]

RefundTypeOK ==
    /\ escrowed \subseteq Members /\ owed \subseteq Members /\ wallet \subseteq Members
    /\ paid \in [Members -> Nat] /\ rows \in [Members -> Nat]
    /\ late \subseteq SUBSET Members
    /\ entries \in Seq(EntryRecords)
    /\ run \in [Workers -> WorkerStates]
    /\ faults \in Nat

\* The contract pays a member out of the deposit, so a member is paid once;
\* the books close a member only after that.
PaidFromDeposit ==
    \A m \in Members :
        /\ paid[m] <= 1
        /\ m \in escrowed <=> paid[m] = 0
        /\ m \notin owed => paid[m] = 1 /\ rows[m] >= 1

\* What a worker's local state says of the shared state.  It commits a batch
\* only after the batch landed.  While it retries an entry, every member of
\* the entry that is still owed is in its batch, so none is left owed once
\* the batch is committed.
WorkerOK(r) ==
    /\ r.entry \in {NoEntry} \cup DOMAIN entries
    /\ r.queue \subseteq DOMAIN entries
    /\ r.pc = "commit" => r.tx = "landed"
    /\ r.tx = "landed" => r.batch \cap escrowed = {}
    /\ r.pc \in {"claimed", "resolve"} => r.entry # NoEntry
    /\ r.pc = "batches" => r.entry = NoEntry
    /\ r.entry # NoEntry /\ r.pc \in {"sent", "commit"} =>
          entries[r.entry].memberIds \cap owed \subseteq r.batch
    /\ r.pc = "resolve" => entries[r.entry].memberIds \cap owed = {}
    /\ r.entry = NoEntry => r.todo \cap r.batch = {}

\* The members a run of the job has selected and not yet answered for.
InHand(r) == r.todo \cup (IF r.entry = NoEntry THEN r.batch ELSE {})

WorkersOK ==
    /\ \A w \in Workers : WorkerOK(run[w])
    /\ \A a \in Workers \ Jobs : InHand(run[a]) = {}

RefundInv == RefundTypeOK /\ PaidFromDeposit /\ ResolvedMeansRefunded /\ WorkersOK

\* A claimed entry is not stale while a live worker holds it.
HeldOnce ==
    \A w \in Workers : run[w].entry # NoEntry =>
        /\ entries[run[w].entry].status = "RETRYING"
        /\ ~entries[run[w].entry].stale
        /\ \A v \in Workers \ {w} : run[v].entry # run[w].entry

\* A member is in one isolating entry at most, and in none while the job
\* has it in hand.
IsolatedOnce ==
    /\ \A d, e \in DOMAIN entries :
          /\ d # e
          /\ entries[d].status \in ISOLATING_DEAD_LETTER_STATUSES
          /\ entries[e].status \in ISOLATING_DEAD_LETTER_STATUSES
          => entries[d].memberIds \cap entries[e].memberIds = {}
    /\ \A w \in Workers : InHand(run[w]) \cap IsolatedMemberIds = {}

-----------------------------------------------------------------------------
(* Operators and local moves.                                              *)

\* The first entry of a nonempty queue is an entry of the queue.
LEMMA MinOfQueue ==
  ASSUME NEW S \in SUBSET Nat, S # {}
  PROVE  Min(S) \in S
<1>1. PICK x \in S : \A y \in S : <<y, x>> \notin OpToRel(<, Nat)
  BY NatLessThanWellFounded, WFMin
<1>2. ASSUME NEW y \in S
      PROVE  x <= y
  <2>1. <<y, x>> \in Nat \X Nat /\ <<y, x>>[1] = y /\ <<y, x>>[2] = x
    OBVIOUS
  <2>2. y < x => <<y, x>> \in OpToRel(<, Nat)
    BY <2>1, Zenon DEF OpToRel
  <2>3. ~(y < x)
    BY <1>1, <2>2, Zenon
  <2>. QED  BY <2>3
<1>. QED  BY <1>2 DEF Min

\* An entry of the queue is a record, and no entry has the number 0.
LEMMA EntryType ==
  ASSUME RefundTypeOK, NEW e \in DOMAIN entries
  PROVE  entries[e] \in EntryRecords /\ e \in Nat \ {0}
BY DEF RefundTypeOK

\* What the update of one field of a dead-letter entry does to the queue.
LEMMA EntryUpdate ==
  ASSUME RefundTypeOK, NEW e \in DOMAIN entries, NEW r \in EntryRecords,
         r.memberIds = entries[e].memberIds, entries' = [entries EXCEPT ![e] = r]
  PROVE  /\ entries' \in Seq(EntryRecords)
         /\ DOMAIN entries' = DOMAIN entries
         /\ entries'[e] = r
         /\ \A d \in DOMAIN entries : d # e => entries'[d] = entries[d]
         /\ \A d \in DOMAIN entries : entries'[d].memberIds = entries[d].memberIds
<1>1. entries \in Seq(EntryRecords)
  BY DEF RefundTypeOK
<1>. QED  BY <1>1

-----------------------------------------------------------------------------
(* Local moves: a worker changes its own state and no dead-letter entry.   *)

\* What a worker has in hand after a step: nothing new, unless it is a job
\* that selects members who are not isolated.
Selects(w, r) ==
    \/ InHand(r) \subseteq InHand(run[w])
    \/ w \in Jobs /\ InHand(r) \cap IsolatedMemberIds = {}

\* The worker keeps its entry or lets go of it.
LocalMove(w) ==
    \E r \in WorkerStates :
        /\ run' = [run EXCEPT ![w] = r]
        /\ WorkerOK(r)'
        /\ r.entry \in {NoEntry, run[w].entry}
        /\ Selects(w, r)

\* An idle worker holds nothing.
LEMMA IdleOK == Idle \in WorkerStates /\ WorkerOK(Idle)' /\ InHand(Idle) = {}
BY DEF Idle, WorkerStates, RefundPcs, NoEntry, WorkerOK, InHand

LEMMA LoadEntryMoves ==
  ASSUME RefundInv, NEW w \in Workers, LoadEntry(w)
  PROVE  LocalMove(w)
<1>1. PICK old : old = run[w]
  OBVIOUS
<1>2. PICK members : members = entries[old.entry].memberIds \cap owed
  OBVIOUS
<1>3. PICK r : r = IF members = {} THEN [old EXCEPT !.pc = "resolve"]
                   ELSE IF members \subseteq wallet THEN
                      [old EXCEPT !.pc = "sent", !.batch = members, !.tx = "open"]
                   ELSE [old EXCEPT !.pc = "fail", !.recoverable = FALSE]
  OBVIOUS
<1>4. run' = [run EXCEPT ![w] = r]
  BY <1>1, <1>2, <1>3 DEF LoadEntry, Dispatched
<1>5. /\ old \in WorkerStates /\ WorkerOK(old) /\ old.pc = "claimed"
      /\ members \in SUBSET Members
      /\ UNCHANGED <<entries, owed, escrowed>>
  BY <1>1, <1>2 DEF RefundInv, RefundTypeOK, WorkersOK, LoadEntry, chain, books
<1>6. r \in WorkerStates
  BY <1>3, <1>5 DEF WorkerStates, RefundPcs
<1>7. /\ r.entry = old.entry /\ r.todo = old.todo /\ r.queue = old.queue
      /\ \/ r.pc = "resolve" /\ r.tx = old.tx /\ r.batch = old.batch /\ members = {}
         \/ r.pc = "sent" /\ r.tx = "open" /\ r.batch = members
         \/ r.pc = "fail" /\ r.tx = old.tx /\ r.batch = old.batch
  BY <1>3, <1>5 DEF WorkerStates
<1>8. WorkerOK(r)'
  BY <1>2, <1>5, <1>7 DEF WorkerOK
<1>9. InHand(r) \subseteq InHand(old)
  BY <1>5, <1>7 DEF InHand, WorkerOK
<1>. QED  BY <1>1, <1>4, <1>6, <1>7, <1>8, <1>9 DEF LocalMove, Selects

LEMMA AnswerMoves ==
  ASSUME RefundInv, NEW w \in Workers, Answer(w)
  PROVE  LocalMove(w)
<1>1. PICK old : old = run[w]
  OBVIOUS
<1>2. PICK b \in BOOLEAN :
         \/ Confirmed(w)
         \/ run' = [run EXCEPT ![w] = [old EXCEPT !.pc = "fail", !.tx = "none",
                           !.batch = IF old.entry = NoEntry THEN old.batch ELSE {},
                           !.recoverable = b]]
  BY <1>1, ZenonT(60) DEF Answer, Rejected, Unanswered
<1>3. PICK r : r = IF Confirmed(w) THEN [old EXCEPT !.pc = "commit"]
                   ELSE [old EXCEPT !.pc = "fail", !.tx = "none",
                                  !.batch = IF old.entry = NoEntry THEN old.batch ELSE {},
                                  !.recoverable = b]
  OBVIOUS
<1>4. run' = [run EXCEPT ![w] = r]
  BY <1>1, <1>2, <1>3 DEF Confirmed
<1>5. /\ old \in WorkerStates /\ WorkerOK(old) /\ old.pc = "sent"
      /\ Confirmed(w) => old.tx = "landed"
      /\ UNCHANGED <<entries, owed, escrowed>>
  BY <1>1 DEF RefundInv, RefundTypeOK, WorkersOK, Answer, Confirmed, Rejected, Unanswered,
              chain, books
<1>6. r \in WorkerStates
  BY <1>3, <1>5 DEF WorkerStates, RefundPcs
<1>7. /\ r.entry = old.entry /\ r.todo = old.todo /\ r.queue = old.queue
      /\ \/ r.pc = "commit" /\ r.tx = "landed" /\ r.batch = old.batch /\ old.tx = "landed"
         \/ /\ r.pc = "fail" /\ r.tx = "none"
            /\ r.batch = IF old.entry = NoEntry THEN old.batch ELSE {}
  BY <1>3, <1>5 DEF WorkerStates
<1>8. WorkerOK(r)'
  BY <1>5, <1>7 DEF WorkerOK
<1>9. InHand(r) \subseteq InHand(old)
  BY <1>5, <1>7 DEF InHand
<1>. QED  BY <1>1, <1>4, <1>6, <1>7, <1>8, <1>9 DEF LocalMove, Selects

\* A worker that dies, ends its run or fails outside a retry.
LEMMA GoesIdle ==
  ASSUME NEW w \in Workers, run' = [run EXCEPT ![w] = Idle]
  PROVE  LocalMove(w)
BY IdleOK DEF LocalMove, Selects, Idle

LEMMA DatabaseFailsMoves ==
  ASSUME RefundInv, NEW w \in Workers, DatabaseFails(w)
  PROVE  LocalMove(w)
<1>1. PICK old : old = run[w]
  OBVIOUS
<1>2. PICK b \in BOOLEAN :
         run' = [run EXCEPT ![w] =
                    IF old.entry = NoEntry THEN Idle
                    ELSE [old EXCEPT !.pc = "release", !.tx = "none", !.batch = {},
                                     !.recoverable = b]]
  BY <1>1 DEF DatabaseFails
<1>3. CASE old.entry = NoEntry
  BY <1>2, <1>3, GoesIdle
<1>4. CASE old.entry # NoEntry
  <2>1. PICK r : r = [old EXCEPT !.pc = "release", !.tx = "none", !.batch = {},
                                 !.recoverable = b]
    OBVIOUS
  <2>2. run' = [run EXCEPT ![w] = r]
    BY <1>2, <1>4, <2>1
  <2>3. old \in WorkerStates /\ WorkerOK(old) /\ UNCHANGED <<entries, owed, escrowed>>
    BY <1>1 DEF RefundInv, RefundTypeOK, WorkersOK, DatabaseFails, chain, books
  <2>4. r \in WorkerStates
    BY <2>1, <2>3 DEF WorkerStates, RefundPcs
  <2>5. /\ r.entry = old.entry /\ r.todo = old.todo /\ r.queue = old.queue
        /\ r.pc = "release" /\ r.tx = "none" /\ r.batch = {}
    BY <2>1, <2>3 DEF WorkerStates
  <2>6. WorkerOK(r)'
    BY <2>3, <2>5 DEF WorkerOK
  <2>7. InHand(r) \subseteq InHand(old)
    BY <1>4, <2>5 DEF InHand
  <2>. QED  BY <1>1, <2>2, <2>4, <2>5, <2>6, <2>7 DEF LocalMove, Selects
<1>. QED  BY <1>3, <1>4

\* commitRefundBatch closes the members of the batch in the books.
LEMMA CommitMoves ==
  ASSUME RefundInv, NEW w \in Workers, CommitRefundBatch(w)
  PROVE  LocalMove(w)
<1>1. PICK old : old = run[w]
  OBVIOUS
<1>2. PICK r : r = IF old.entry = NoEntry
                   THEN [old EXCEPT !.pc = "batches", !.batch = {}, !.tx = "none",
                                    !.recoverable = FALSE]
                   ELSE [old EXCEPT !.pc = "resolve", !.tx = "none"]
  OBVIOUS
<1>3. run' = [run EXCEPT ![w] = r]
  BY <1>1, <1>2 DEF CommitRefundBatch, AfterBatch
<1>4. /\ old \in WorkerStates /\ WorkerOK(old) /\ old.pc = "commit"
      /\ UNCHANGED <<entries, escrowed>> /\ owed' = owed \ old.batch
  BY <1>1 DEF RefundInv, RefundTypeOK, WorkersOK, CommitRefundBatch, chain
<1>5. r \in WorkerStates
  BY <1>2, <1>4 DEF WorkerStates, RefundPcs
<1>6. /\ r.entry = old.entry /\ r.todo = old.todo /\ r.queue = old.queue /\ r.tx = "none"
      /\ \/ r.pc = "batches" /\ r.batch = {} /\ old.entry = NoEntry
         \/ r.pc = "resolve" /\ r.batch = old.batch /\ old.entry # NoEntry
  BY <1>2, <1>4 DEF WorkerStates
<1>7. WorkerOK(r)'
  BY <1>4, <1>6 DEF WorkerOK
<1>8. InHand(r) \subseteq InHand(old)
  BY <1>6 DEF InHand
<1>. QED  BY <1>1, <1>3, <1>5, <1>6, <1>7, <1>8 DEF LocalMove, Selects

\* The transaction of a worker that is still waiting for it lands.
LEMMA LandMoves ==
  ASSUME RefundInv, NEW w \in Workers, Land(w)
  PROVE  LocalMove(w)
<1>1. PICK old : old = run[w]
  OBVIOUS
<1>2. PICK r : r = [old EXCEPT !.tx = "landed"]
  OBVIOUS
<1>3. run' = [run EXCEPT ![w] = r]
  BY <1>1, <1>2 DEF Land
<1>4. /\ old \in WorkerStates /\ WorkerOK(old) /\ old.tx = "open"
      /\ UNCHANGED <<entries, owed>> /\ escrowed' = escrowed \ old.batch
  BY <1>1 DEF RefundInv, RefundTypeOK, WorkersOK, Land, ContractRefund, books
<1>5. r \in WorkerStates
  BY <1>2, <1>4 DEF WorkerStates
<1>6. /\ r.entry = old.entry /\ r.todo = old.todo /\ r.queue = old.queue
      /\ r.pc = old.pc /\ r.batch = old.batch /\ r.tx = "landed"
  BY <1>2, <1>4 DEF WorkerStates
<1>7. WorkerOK(r)'
  BY <1>4, <1>6 DEF WorkerOK
<1>8. InHand(r) \subseteq InHand(old)
  BY <1>6 DEF InHand
<1>. QED  BY <1>1, <1>3, <1>5, <1>6, <1>7, <1>8 DEF LocalMove, Selects

\* processLeagueRefunds: loading the members and listing the entries.
LEMMA JobStartMoves ==
  ASSUME RefundInv, NEW j \in Jobs, JobStart(j) \/ JobList(j)
  PROVE  LocalMove(j)
<1>. j \in Workers
  BY DEF Workers
<1>1. PICK old : old = run[j]
  OBVIOUS
<1>2. old \in WorkerStates /\ WorkerOK(old) /\ UNCHANGED <<entries, owed, escrowed>>
  BY <1>1 DEF RefundInv, RefundTypeOK, WorkersOK, JobStart, JobList, chain, books
<1>3. CASE JobStart(j)
  <2>1. PICK r : r = [Idle EXCEPT !.pc = "list", !.owed = owed, !.wallet = wallet \cap owed]
    OBVIOUS
  <2>2. run' = [run EXCEPT ![j] = r]
    BY <1>3, <2>1 DEF JobStart
  <2>3. r \in WorkerStates
    BY <2>1, IdleOK DEF WorkerStates, RefundPcs, RefundInv, RefundTypeOK
  <2>4. /\ r.entry = NoEntry /\ r.todo = {} /\ r.queue = {}
        /\ r.pc = "list" /\ r.batch = {} /\ r.tx = "none"
    BY <2>1 DEF Idle
  <2>5. WorkerOK(r)' /\ InHand(r) \subseteq InHand(old)
    BY <2>4 DEF WorkerOK, InHand
  <2>. QED  BY <1>1, <2>2, <2>3, <2>4, <2>5 DEF LocalMove, Selects
<1>4. CASE JobList(j)
  <2>1. PICK q : q = {e \in DOMAIN entries : AutoRetryable(e)}
    OBVIOUS
  <2>2. PICK r : r = [old EXCEPT !.pc = "queue", !.queue = q]
    OBVIOUS
  <2>3. run' = [run EXCEPT ![j] = r]
    BY <1>1, <1>4, <2>1, <2>2 DEF JobList
  <2>4. q \in SUBSET Nat /\ q \subseteq DOMAIN entries
    BY <2>1 DEF RefundInv, RefundTypeOK
  <2>5. r \in WorkerStates
    BY <1>2, <2>2, <2>4 DEF WorkerStates, RefundPcs
  <2>6. /\ r.entry = old.entry /\ r.todo = old.todo /\ r.queue = q
        /\ r.pc = "queue" /\ r.batch = old.batch /\ r.tx = old.tx
    BY <1>2, <2>2 DEF WorkerStates
  <2>7. WorkerOK(r)' /\ InHand(r) \subseteq InHand(old)
    BY <1>2, <2>4, <2>6 DEF WorkerOK, InHand
  <2>. QED  BY <1>1, <2>3, <2>5, <2>6, <2>7 DEF LocalMove, Selects
<1>. QED  BY <1>3, <1>4

\* A batch is cut off the members still to dispatch.
LEMMA JobDispatchMoves ==
  ASSUME RefundInv, NEW j \in Jobs, JobDispatch(j)
  PROVE  /\ LocalMove(j)
         /\ run'[j].batch \subseteq run[j].todo
<1>. j \in Workers
  BY DEF Workers
<1>1. PICK old : old = run[j]
  OBVIOUS
<1>2. PICK batch \in SUBSET old.todo :
         run' = [run EXCEPT ![j] =
                   [[old EXCEPT !.pc = "sent", !.batch = batch, !.tx = "open"]
                        EXCEPT !.todo = @ \ batch]]
  BY <1>1 DEF JobDispatch, Dispatched
<1>3. PICK r : r = [[old EXCEPT !.pc = "sent", !.batch = batch, !.tx = "open"]
                        EXCEPT !.todo = @ \ batch]
  OBVIOUS
<1>4. run' = [run EXCEPT ![j] = r]
  BY <1>2, <1>3
<1>5. /\ old \in WorkerStates /\ WorkerOK(old) /\ old.pc = "batches"
      /\ UNCHANGED <<entries, owed, escrowed>>
  BY <1>1 DEF RefundInv, RefundTypeOK, WorkersOK, JobDispatch, chain, books
<1>6. r \in WorkerStates
  BY <1>3, <1>5 DEF WorkerStates, RefundPcs
<1>7. /\ r.entry = old.entry /\ r.todo = old.todo \ batch /\ r.queue = old.queue
      /\ r.pc = "sent" /\ r.batch = batch /\ r.tx = "open"
  BY <1>3, <1>5 DEF WorkerStates
<1>8. WorkerOK(r)'
  BY <1>5, <1>7 DEF WorkerOK
<1>9. InHand(r) \subseteq InHand(old)
  BY <1>7 DEF InHand
<1>10. run'[j] = r
  BY <1>4 DEF RefundInv, RefundTypeOK
<1>. QED  BY <1>1, <1>2, <1>4, <1>6, <1>7, <1>8, <1>9, <1>10 DEF LocalMove, Selects

-----------------------------------------------------------------------------
(* Moves that write the dead-letter queue.                                 *)

\* claimForRetry: the worker takes an entry that may be claimed.
ClaimMove(w) ==
    \E e \in DOMAIN entries, r \in WorkerStates :
        /\ Claimable(e) /\ entries' = Claim(e)
        /\ run' = [run EXCEPT ![w] = r]
        /\ WorkerOK(r)'
        /\ r.entry = e
        /\ Selects(w, r)

\* markResolved and markRetryFailed: the worker gives its entry back.
ReleaseMove(w) ==
    \E n \in EntryRecords, r \in WorkerStates :
        /\ run[w].entry \in DOMAIN entries
        /\ entries' = [entries EXCEPT ![run[w].entry] = n]
        /\ n.memberIds = entries[run[w].entry].memberIds
        /\ n.status \in {"PENDING", "RESOLVED"}
        /\ n.status = "RESOLVED" => n.memberIds \cap owed = {}
        /\ run' = [run EXCEPT ![w] = r]
        /\ WorkerOK(r)'
        /\ r.entry = NoEntry
        /\ Selects(w, r)

\* deadLetter: members the job had in hand, or selected and found without a
\* wallet, are isolated in an entry of their own.
IsolateMove(w) ==
    /\ w \in Jobs
    /\ \E n \in EntryRecords, r \in WorkerStates :
           /\ entries' = Append(entries, n)
           /\ n.status = "PENDING"
           /\ \/ n.memberIds \subseteq InHand(run[w])
              \/ n.memberIds \cap IsolatedMemberIds = {}
           /\ n.memberIds \cap InHand(r) = {}
           /\ run' = [run EXCEPT ![w] = r]
           /\ WorkerOK(r)'
           /\ r.entry = NoEntry
           /\ Selects(w, r)

\* What a claim does to the queue.
LEMMA ClaimUpdate ==
  ASSUME RefundTypeOK, NEW e \in DOMAIN entries, entries' = Claim(e)
  PROVE  /\ entries' \in Seq(EntryRecords)
         /\ DOMAIN entries' = DOMAIN entries
         /\ entries'[e].status = "RETRYING" /\ ~entries'[e].stale
         /\ \A d \in DOMAIN entries : d # e => entries'[d] = entries[d]
         /\ \A d \in DOMAIN entries : entries'[d].memberIds = entries[d].memberIds
<1>1. PICK old : old = entries[e]
  OBVIOUS
<1>2. PICK n : n = [old EXCEPT !.status = "RETRYING", !.stale = FALSE]
  OBVIOUS
<1>3. old \in EntryRecords
  BY <1>1 DEF RefundTypeOK
<1>4. /\ n \in EntryRecords /\ n.memberIds = old.memberIds
      /\ n.status = "RETRYING" /\ n.stale = FALSE
  BY <1>2, <1>3 DEF EntryRecords, Open, Closed
<1>5. entries' = [entries EXCEPT ![e] = n]
  BY <1>1, <1>2 DEF Claim
<1>. QED  BY <1>1, <1>4, <1>5, EntryUpdate

\* Appending an entry keeps the others in place.
LEMMA EntryAppend ==
  ASSUME RefundTypeOK, NEW n \in EntryRecords, entries' = Append(entries, n)
  PROVE  /\ entries' \in Seq(EntryRecords)
         /\ DOMAIN entries' = DOMAIN entries \cup {Len(entries) + 1}
         /\ Len(entries) + 1 \notin DOMAIN entries
         /\ entries'[Len(entries) + 1] = n
         /\ \A d \in DOMAIN entries : entries'[d] = entries[d]
BY DEF RefundTypeOK

LEMMA JobClaimMoves ==
  ASSUME RefundInv, NEW j \in Jobs, JobClaim(j)
  PROVE  ClaimMove(j) \/ (LocalMove(j) /\ UNCHANGED entries)
<1>. j \in Workers
  BY DEF Workers
<1>1. PICK old : old = run[j]
  OBVIOUS
<1>2. PICK e : e = Min(old.queue)
  OBVIOUS
<1>3. /\ old \in WorkerStates /\ WorkerOK(old)
      /\ old.pc = "queue" /\ old.queue # {}
      /\ UNCHANGED <<owed, escrowed>>
  BY <1>1 DEF RefundInv, RefundTypeOK, WorkersOK, JobClaim, chain, books
<1>4. e \in DOMAIN entries /\ e \in Nat \ {0}
  <2>1. old.queue \in SUBSET Nat /\ old.queue \subseteq DOMAIN entries
    BY <1>3 DEF WorkerStates, WorkerOK
  <2>2. e \in old.queue
    BY <1>2, <1>3, <2>1, MinOfQueue
  <2>. QED  BY <2>1, <2>2 DEF RefundInv, RefundTypeOK
<1>5. CASE Claimable(e)
  <2>1. PICK n : n = entries[e].attempts
    OBVIOUS
  <2>2. PICK r : r = [old EXCEPT !.pc = "claimed", !.queue = @ \ {e}, !.entry = e,
                                 !.attempts = n]
    OBVIOUS
  <2>3. run' = [run EXCEPT ![j] = r] /\ entries' = Claim(e)
    BY <1>1, <1>2, <1>5, <2>1, <2>2, ZenonT(60) DEF JobClaim
  <2>4. n \in Nat
    <3>1. entries[e] \in EntryRecords
      BY <1>4, EntryType DEF RefundInv
    <3>. QED  BY <2>1, <3>1 DEF EntryRecords
  <2>5. r \in WorkerStates
    BY <1>3, <1>4, <2>2, <2>4 DEF WorkerStates, RefundPcs
  <2>6. /\ r.entry = e /\ r.todo = old.todo /\ r.queue \subseteq old.queue
        /\ r.pc = "claimed" /\ r.batch = old.batch /\ r.tx = old.tx
    BY <1>3, <2>2 DEF WorkerStates
  <2>7. DOMAIN entries' = DOMAIN entries
    BY <1>4, <2>3, ClaimUpdate DEF RefundInv
  <2>8. WorkerOK(r)' /\ InHand(r) \subseteq InHand(old)
    BY <1>3, <1>4, <2>6, <2>7 DEF WorkerOK, InHand, NoEntry
  <2>. QED  BY <1>1, <1>4, <1>5, <2>3, <2>5, <2>6, <2>8 DEF ClaimMove, Selects
<1>6. CASE ~Claimable(e)
  <2>1. PICK r : r = [old EXCEPT !.queue = @ \ {e}]
    OBVIOUS
  <2>2. run' = [run EXCEPT ![j] = r] /\ entries' = entries
    BY <1>1, <1>2, <1>6, <2>1 DEF JobClaim
  <2>3. r \in WorkerStates
    BY <1>3, <2>1 DEF WorkerStates
  <2>4. /\ r.entry = old.entry /\ r.todo = old.todo /\ r.queue \subseteq old.queue
        /\ r.pc = old.pc /\ r.batch = old.batch /\ r.tx = old.tx
    BY <1>3, <2>1 DEF WorkerStates
  <2>5. WorkerOK(r)' /\ InHand(r) \subseteq InHand(old)
    BY <1>3, <2>2, <2>4 DEF WorkerOK, InHand
  <2>. QED  BY <1>1, <2>2, <2>3, <2>4, <2>5 DEF LocalMove, Selects
<1>. QED  BY <1>5, <1>6

LEMMA AdminRetryMoves ==
  ASSUME RefundInv, NEW a \in Admins, NEW e \in DOMAIN entries, AdminRetry(a, e)
  PROVE  ClaimMove(a)
<1>1. PICK n : n = entries[e].attempts
  OBVIOUS
<1>2. PICK r : r = [Idle EXCEPT !.pc = "claimed", !.entry = e, !.attempts = n]
  OBVIOUS
<1>3. run' = [run EXCEPT ![a] = r] /\ entries' = Claim(e) /\ Claimable(e)
  BY <1>1, <1>2 DEF AdminRetry
<1>4. n \in Nat /\ e \in Nat \ {0}
  <2>1. entries[e] \in EntryRecords /\ e \in Nat \ {0}
    BY EntryType DEF RefundInv
  <2>. QED  BY <1>1, <2>1 DEF EntryRecords
<1>5. r \in WorkerStates
  BY <1>2, <1>4, IdleOK DEF WorkerStates, RefundPcs
<1>6. /\ r.entry = e /\ r.todo = {} /\ r.queue = {}
      /\ r.pc = "claimed" /\ r.batch = {} /\ r.tx = "none"
  BY <1>2 DEF Idle
<1>7. DOMAIN entries' = DOMAIN entries
  BY <1>3, ClaimUpdate DEF RefundInv
<1>8. WorkerOK(r)' /\ InHand(r) = {}
  BY <1>4, <1>6, <1>7 DEF WorkerOK, InHand, NoEntry
<1>. QED  BY <1>3, <1>5, <1>6, <1>8 DEF ClaimMove, Selects

\* The worker's state once it is done with its entry.
LEMMA AfterEntryOK ==
  ASSUME RefundInv, NEW w \in Workers, NEW refunded \in SUBSET Members, NEW r,
         r = AfterEntry(w, refunded), DOMAIN entries' = DOMAIN entries
  PROVE  /\ r \in WorkerStates /\ WorkerOK(r)'
         /\ r.entry = NoEntry /\ Selects(w, r)
<1>1. PICK old : old = run[w]
  OBVIOUS
<1>2. old \in WorkerStates /\ WorkerOK(old)
  BY <1>1 DEF RefundInv, RefundTypeOK, WorkersOK
<1>3. CASE w \in Jobs
  <2>0. PICK all : all = old.refunded \cup refunded
    OBVIOUS
  <2>1. r = [old EXCEPT !.pc = "queue", !.refunded = all, !.entry = NoEntry,
                        !.attempts = 0, !.batch = {}, !.tx = "none", !.recoverable = FALSE]
    BY <1>1, <1>3, <2>0 DEF AfterEntry
  <2>2. r \in WorkerStates
    <3>1. all \in SUBSET Members
      BY <1>2, <2>0 DEF WorkerStates
    <3>2. old \in WorkerStates
      BY <1>2
    <3>3. PICK mid : mid = [old EXCEPT !.refunded = all, !.entry = NoEntry, !.attempts = 0]
      OBVIOUS
    <3>4. mid \in WorkerStates
      BY <3>1, <3>2, <3>3 DEF WorkerStates, NoEntry
    <3>5. r = [mid EXCEPT !.pc = "queue", !.batch = {}, !.tx = "none", !.recoverable = FALSE]
      BY <2>1, <3>2, <3>3 DEF WorkerStates
    <3>. QED  BY <3>4, <3>5, ZenonT(60) DEF WorkerStates, RefundPcs
  <2>3. /\ r.entry = NoEntry /\ r.todo = old.todo /\ r.queue = old.queue
        /\ r.pc = "queue" /\ r.batch = {} /\ r.tx = "none"
    BY <1>2, <2>1 DEF WorkerStates
  <2>4. WorkerOK(r)' /\ InHand(r) \subseteq InHand(old)
    BY <1>2, <2>3 DEF WorkerOK, InHand
  <2>. QED  BY <1>1, <2>2, <2>3, <2>4 DEF Selects
<1>4. CASE w \notin Jobs
  <2>1. r = Idle
    BY <1>4 DEF AfterEntry
  <2>2. r \in WorkerStates /\ WorkerOK(r)' /\ InHand(r) = {}
    BY <2>1, IdleOK, Zenon
  <2>3. r.entry = NoEntry
    BY <2>1 DEF Idle
  <2>. QED  BY <2>2, <2>3 DEF Selects
<1>. QED  BY <1>3, <1>4

LEMMA MarkResolvedMoves ==
  ASSUME RefundInv, NEW w \in Workers, MarkResolved(w)
  PROVE  ReleaseMove(w)
<1>1. PICK old : old = run[w]
  OBVIOUS
<1>2. PICK e : e = old.entry
  OBVIOUS
<1>3. /\ old \in WorkerStates /\ WorkerOK(old) /\ old.pc = "resolve"
      /\ UNCHANGED <<owed, escrowed>>
  BY <1>1 DEF RefundInv, RefundTypeOK, WorkersOK, MarkResolved, chain, books
<1>4. e \in DOMAIN entries /\ entries[e].memberIds \cap owed = {}
  BY <1>2, <1>3 DEF WorkerOK
<1>5. PICK was : was = entries[e]
  OBVIOUS
<1>6. PICK n : n = [was EXCEPT !.status = "RESOLVED", !.stale = FALSE]
  OBVIOUS
<1>7. was \in EntryRecords
  BY <1>4, <1>5, EntryType DEF RefundInv
<1>8. n \in EntryRecords /\ n.memberIds = was.memberIds /\ n.status = "RESOLVED"
  BY <1>6, <1>7 DEF EntryRecords, Open, Closed
<1>9. entries' = [entries EXCEPT ![e] = n]
  BY <1>1, <1>2, <1>5, <1>6 DEF MarkResolved
<1>10. DOMAIN entries' = DOMAIN entries
  BY <1>4, <1>5, <1>8, <1>9, EntryUpdate DEF RefundInv
<1>11. PICK r : r = AfterEntry(w, old.batch)
  OBVIOUS
<1>12. run' = [run EXCEPT ![w] = r]
  BY <1>1, <1>11 DEF MarkResolved
<1>13. old.batch \in SUBSET Members
  BY <1>3 DEF WorkerStates
<1>14. /\ r \in WorkerStates /\ WorkerOK(r)'
       /\ r.entry = NoEntry /\ Selects(w, r)
  BY <1>10, <1>11, <1>13, AfterEntryOK
<1>. QED
  BY <1>1, <1>2, <1>4, <1>5, <1>8, <1>9, <1>12, <1>14 DEF ReleaseMove

LEMMA MarkRetryFailedMoves ==
  ASSUME RefundInv, NEW w \in Workers, MarkRetryFailed(w)
  PROVE  ReleaseMove(w)
<1>1. PICK old : old = run[w]
  OBVIOUS
<1>2. PICK e : e = old.entry
  OBVIOUS
<1>3. /\ old \in WorkerStates /\ WorkerOK(old) /\ e # NoEntry
      /\ UNCHANGED <<owed, escrowed>>
  BY <1>1, <1>2 DEF RefundInv, RefundTypeOK, WorkersOK, MarkRetryFailed, chain, books
<1>4. e \in DOMAIN entries
  BY <1>2, <1>3 DEF WorkerOK
<1>5. PICK was : was = entries[e]
  OBVIOUS
<1>6. PICK n : n = [was EXCEPT !.status = "PENDING", !.attempts = old.attempts + 1,
                               !.recoverable = old.recoverable, !.stale = FALSE]
  OBVIOUS
<1>7. was \in EntryRecords
  BY <1>4, <1>5, EntryType DEF RefundInv
<1>8. n \in EntryRecords /\ n.memberIds = was.memberIds /\ n.status = "PENDING"
  <2>1. old.attempts + 1 \in Nat /\ old.recoverable \in BOOLEAN
    BY <1>3 DEF WorkerStates
  <2>. QED  BY <1>6, <1>7, <2>1 DEF EntryRecords, Open, Closed
<1>9. entries' = [entries EXCEPT ![e] = n]
  BY <1>1, <1>2, <1>5, <1>6 DEF MarkRetryFailed, RetryFailed
<1>10. DOMAIN entries' = DOMAIN entries
  BY <1>4, <1>5, <1>8, <1>9, EntryUpdate DEF RefundInv
<1>11. PICK r : r = IF old.pc = "release" THEN Idle ELSE AfterEntry(w, {})
  OBVIOUS
<1>12. run' = [run EXCEPT ![w] = r]
  BY <1>1, <1>11 DEF MarkRetryFailed
<1>13. /\ r \in WorkerStates /\ WorkerOK(r)'
       /\ r.entry = NoEntry /\ Selects(w, r)
  <2>1. CASE old.pc = "release"
    BY <1>11, <2>1, IdleOK DEF Selects, Idle
  <2>2. CASE old.pc # "release"
    BY <1>10, <1>11, <2>2, AfterEntryOK
  <2>. QED  BY <2>1, <2>2
<1>. QED
  BY <1>1, <1>2, <1>4, <1>5, <1>8, <1>9, <1>12, <1>13 DEF ReleaseMove

\* The entries the job creates.
LEMMA NewEntryType ==
  ASSUME NEW S \in SUBSET Members, NEW b \in BOOLEAN
  PROVE  /\ NewEntry(S, b) \in EntryRecords
         /\ NewEntry(S, b).memberIds = S
         /\ NewEntry(S, b).status = "PENDING"
BY DEF NewEntry, EntryRecords, Open, Closed

LEMMA JobSelectMoves ==
  ASSUME RefundInv, NEW j \in Jobs, JobSelect(j)
  PROVE  IsolateMove(j) \/ (LocalMove(j) /\ UNCHANGED entries)
<1>. j \in Workers
  BY DEF Workers
<1>1. PICK old : old = run[j]
  OBVIOUS
<1>2. PICK chosen : chosen = (old.owed \ old.refunded) \ IsolatedMemberIds
  OBVIOUS
<1>3. PICK r : r = [Idle EXCEPT !.pc = "batches", !.todo = chosen \cap old.wallet]
  OBVIOUS
<1>4. run' = [run EXCEPT ![j] = r]
  BY <1>1, <1>2, <1>3 DEF JobSelect
<1>5. old \in WorkerStates /\ UNCHANGED <<owed, escrowed>>
  BY <1>1 DEF RefundInv, RefundTypeOK, JobSelect, chain, books
<1>6. chosen \in SUBSET Members
  BY <1>2, <1>5 DEF WorkerStates
<1>7. r \in WorkerStates
  BY <1>3, <1>6, IdleOK DEF WorkerStates, RefundPcs
<1>8. /\ r.entry = NoEntry /\ r.todo = chosen \cap old.wallet /\ r.queue = {}
      /\ r.pc = "batches" /\ r.batch = {} /\ r.tx = "none"
  BY <1>3 DEF Idle
<1>9. WorkerOK(r)' /\ InHand(r) = chosen \cap old.wallet
  BY <1>8 DEF WorkerOK, InHand
<1>10. Selects(j, r)
  BY <1>2, <1>9 DEF Selects
<1>11. CASE chosen \ old.wallet = {}
  <2>1. entries' = entries
    BY <1>1, <1>2, <1>11 DEF JobSelect
  <2>. QED  BY <1>4, <1>7, <1>8, <1>9, <1>10, <2>1 DEF LocalMove
<1>12. CASE chosen \ old.wallet # {}
  <2>1. PICK n : n = NewEntry(chosen \ old.wallet, FALSE)
    OBVIOUS
  <2>2. entries' = Append(entries, n)
    BY <1>1, <1>2, <1>12, <2>1 DEF JobSelect
  <2>3. n \in EntryRecords /\ n.memberIds = chosen \ old.wallet /\ n.status = "PENDING"
    BY <1>6, <2>1, NewEntryType
  <2>4. n.memberIds \cap IsolatedMemberIds = {} /\ n.memberIds \cap InHand(r) = {}
    BY <1>2, <1>9, <2>3
  <2>. QED  BY <1>4, <1>7, <1>8, <1>9, <1>10, <2>2, <2>3, <2>4 DEF IsolateMove
<1>. QED  BY <1>11, <1>12

LEMMA DeadLetterBatchMoves ==
  ASSUME RefundInv, NEW j \in Jobs, DeadLetterBatch(j)
  PROVE  IsolateMove(j)
<1>. j \in Workers
  BY DEF Workers
<1>1. PICK old : old = run[j]
  OBVIOUS
<1>2. PICK r : r = [old EXCEPT !.pc = "batches", !.batch = {}, !.tx = "none",
                               !.recoverable = FALSE]
  OBVIOUS
<1>3. run' = [run EXCEPT ![j] = r]
  BY <1>1, <1>2 DEF DeadLetterBatch, AfterBatch
<1>4. /\ old \in WorkerStates /\ WorkerOK(old) /\ old.entry = NoEntry
      /\ UNCHANGED <<owed, escrowed>>
  BY <1>1 DEF RefundInv, RefundTypeOK, WorkersOK, DeadLetterBatch, chain, books
<1>5. r \in WorkerStates
  BY <1>2, <1>4 DEF WorkerStates, RefundPcs
<1>6. /\ r.entry = NoEntry /\ r.todo = old.todo /\ r.queue = old.queue
      /\ r.pc = "batches" /\ r.batch = {} /\ r.tx = "none"
  BY <1>2, <1>4 DEF WorkerStates
<1>7. PICK n : n = NewEntry(old.batch, old.recoverable)
  OBVIOUS
<1>8. entries' = Append(entries, n)
  BY <1>1, <1>7 DEF DeadLetterBatch
<1>9. n \in EntryRecords /\ n.memberIds = old.batch /\ n.status = "PENDING"
  <2>1. old.batch \in SUBSET Members /\ old.recoverable \in BOOLEAN
    BY <1>4 DEF WorkerStates
  <2>. QED  BY <1>7, <2>1, NewEntryType
<1>10. DOMAIN entries \subseteq DOMAIN entries'
  BY <1>8, <1>9, EntryAppend DEF RefundInv
<1>11. WorkerOK(r)' /\ InHand(r) = old.todo
  BY <1>4, <1>6, <1>10 DEF WorkerOK, InHand
<1>12. /\ InHand(r) \subseteq InHand(old) /\ n.memberIds \subseteq InHand(old)
       /\ n.memberIds \cap InHand(r) = {}
  BY <1>4, <1>9, <1>11 DEF InHand, WorkerOK
<1>. QED  BY <1>1, <1>3, <1>5, <1>6, <1>8, <1>9, <1>11, <1>12 DEF IsolateMove, Selects

-----------------------------------------------------------------------------
(* The books, the chain and the entries.                                   *)

\* Entries are never removed and keep their members, and owed members and
\* deposits only ever decrease: what a worker knows stays true.
Monotone ==
    /\ DOMAIN entries \subseteq DOMAIN entries'
    /\ \A d \in DOMAIN entries : entries'[d].memberIds = entries[d].memberIds
    /\ owed' \subseteq owed
    /\ escrowed' \subseteq escrowed

LEMMA WorkerStaysOK ==
  ASSUME NEW r, WorkerOK(r), Monotone
  PROVE  WorkerOK(r)'
BY DEF WorkerOK, Monotone

\* A step that leaves the workers alone.
LEMMA QuietWorkers ==
  ASSUME RefundInv, UNCHANGED run, Monotone
  PROVE  WorkersOK'
<1>1. ASSUME NEW v \in Workers
      PROVE  WorkerOK(run[v])'
  <2>1. PICK r : r = run[v]
    OBVIOUS
  <2>2. WorkerOK(r)'
    BY <2>1, WorkerStaysOK DEF RefundInv, WorkersOK
  <2>. QED  BY <2>1, <2>2
<1>. QED  BY <1>1 DEF RefundInv, WorkersOK, InHand

\* A step of one worker.
LEMMA MovedWorkers ==
  ASSUME RefundInv, NEW w \in Workers, NEW r \in WorkerStates,
         run' = [run EXCEPT ![w] = r], WorkerOK(r)', Selects(w, r), Monotone
  PROVE  run' \in [Workers -> WorkerStates] /\ WorkersOK'
<1>1. /\ run' \in [Workers -> WorkerStates] /\ run'[w] = r
      /\ \A v \in Workers \ {w} : run'[v] = run[v]
  BY DEF RefundInv, RefundTypeOK
<1>2. ASSUME NEW v \in Workers
      PROVE  WorkerOK(run[v])'
  <2>1. PICK o : o = run'[v]
    OBVIOUS
  <2>2. WorkerOK(o)'
    BY <1>1, <2>1, WorkerStaysOK DEF RefundInv, WorkersOK
  <2>. QED  BY <2>1, <2>2
<1>3. ASSUME NEW a \in Workers \ Jobs
      PROVE  InHand(run[a])' = {}
  <2>1. PICK o : o = run'[a]
    OBVIOUS
  <2>2. InHand(o) = {}
    BY <1>1, <2>1 DEF RefundInv, WorkersOK, Selects
  <2>. QED  BY <2>1, <2>2 DEF InHand
<1>. QED  BY <1>1, <1>2, <1>3 DEF WorkersOK

\* The entries that are resolved stay so while no member becomes owed.
LEMMA EntriesUnchanged ==
  ASSUME RefundInv, UNCHANGED entries, owed' \subseteq owed
  PROVE  ResolvedMeansRefunded'
BY DEF RefundInv, ResolvedMeansRefunded

\* The contract's refund pays out of the deposit.
LEMMA ContractRefundStep ==
  ASSUME RefundInv, NEW members, ContractRefund(members), UNCHANGED <<owed, rows>>
  PROVE  /\ PaidFromDeposit' /\ paid' \in [Members -> Nat]
         /\ escrowed' \subseteq escrowed
<1>. USE DEF RefundInv, RefundTypeOK, ContractRefund
<1>1. paid' \in [Members -> Nat] /\ escrowed' \subseteq escrowed
  OBVIOUS
<1>2. ASSUME NEW m \in Members
      PROVE  /\ paid'[m] <= 1
             /\ m \in escrowed' <=> paid'[m] = 0
             /\ m \notin owed => paid'[m] = 1 /\ rows[m] >= 1
  <2>1. paid[m] \in Nat /\ paid[m] <= 1 /\ (m \in escrowed <=> paid[m] = 0)
        /\ (m \notin owed => paid[m] = 1 /\ rows[m] >= 1)
    BY DEF PaidFromDeposit
  <2>2. CASE m \in members \cap escrowed
    <3>1. paid'[m] = paid[m] + 1 /\ m \notin escrowed'
      BY <2>2
    <3>. QED  BY <2>1, <2>2, <3>1
  <2>3. CASE m \notin members \cap escrowed
    <3>1. paid'[m] = paid[m] /\ (m \in escrowed' <=> m \in escrowed)
      BY <2>1, <2>3
    <3>. QED  BY <2>1, <3>1
  <2>. QED  BY <2>2, <2>3
<1>. QED  BY <1>1, <1>2 DEF PaidFromDeposit

\* A local move that leaves the books and the chain alone.
LEMMA LocalStep ==
  ASSUME RefundInv, NEW w \in Workers, LocalMove(w),
         UNCHANGED <<escrowed, paid, books, wallet, entries>>,
         late' \subseteq SUBSET Members, faults' \in Nat
  PROVE  RefundInv'
<1>1. Monotone
  BY DEF Monotone, books
<1>2. run' \in [Workers -> WorkerStates] /\ WorkersOK'
  BY <1>1, MovedWorkers DEF LocalMove
<1>3. ResolvedMeansRefunded'
  BY EntriesUnchanged DEF books
<1>4. RefundTypeOK'
  BY <1>2 DEF RefundInv, RefundTypeOK, books
<1>5. PaidFromDeposit'
  BY DEF RefundInv, PaidFromDeposit, books
<1>. QED  BY <1>2, <1>3, <1>4, <1>5 DEF RefundInv

\* commitRefundBatch: the batch has landed, so its members were paid.
LEMMA CommitStep ==
  ASSUME RefundInv, NEW w \in Workers, CommitRefundBatch(w)
  PROVE  RefundInv'
<1>1. PICK batch : batch = run[w].batch
  OBVIOUS
<1>2. /\ owed' = owed \ batch
      /\ rows' = [m \in Members |-> rows[m] + (IF m \in batch THEN 1 ELSE 0)]
      /\ UNCHANGED <<escrowed, paid, late, wallet, entries, faults>>
  BY <1>1 DEF CommitRefundBatch, chain
<1>3. batch \cap escrowed = {}
  BY <1>1 DEF RefundInv, WorkersOK, WorkerOK, CommitRefundBatch
<1>4. Monotone
  BY <1>2 DEF Monotone
<1>5. run' \in [Workers -> WorkerStates] /\ WorkersOK'
  BY <1>4, CommitMoves, MovedWorkers DEF LocalMove
<1>6. ResolvedMeansRefunded'
  BY <1>2, EntriesUnchanged
<1>7. RefundTypeOK'
  BY <1>2, <1>5 DEF RefundInv, RefundTypeOK
<1>8. ASSUME NEW m \in Members
      PROVE  /\ paid[m] <= 1
             /\ m \in escrowed <=> paid[m] = 0
             /\ m \notin owed' => paid[m] = 1 /\ rows'[m] >= 1
  <2>1. /\ paid[m] \in Nat /\ rows[m] \in Nat /\ paid[m] <= 1
        /\ m \in escrowed <=> paid[m] = 0
        /\ m \notin owed => paid[m] = 1 /\ rows[m] >= 1
    BY DEF RefundInv, RefundTypeOK, PaidFromDeposit
  <2>2. rows'[m] = rows[m] + (IF m \in batch THEN 1 ELSE 0)
    BY <1>2
  <2>3. CASE m \in batch
    BY <1>3, <2>1, <2>2, <2>3
  <2>4. CASE m \notin batch
    BY <1>2, <2>1, <2>2, <2>4
  <2>. QED  BY <2>3, <2>4
<1>9. PaidFromDeposit'
  BY <1>2, <1>8 DEF PaidFromDeposit
<1>. QED  BY <1>5, <1>6, <1>7, <1>9 DEF RefundInv

\* A refund transaction lands, in time or late.
LEMMA LandStep ==
  ASSUME RefundInv, NEW w \in Workers, Land(w)
  PROVE  RefundInv'
<1>1. UNCHANGED <<late, owed, rows, wallet, entries, faults>>
  BY DEF Land, books
<1>2. PaidFromDeposit' /\ paid' \in [Members -> Nat] /\ escrowed' \subseteq escrowed
  BY <1>1, ContractRefundStep DEF Land
<1>3. Monotone
  BY <1>1, <1>2 DEF Monotone
<1>4. run' \in [Workers -> WorkerStates] /\ WorkersOK'
  BY <1>3, LandMoves, MovedWorkers DEF LocalMove
<1>5. ResolvedMeansRefunded'
  BY <1>1, EntriesUnchanged
<1>6. RefundTypeOK'
  BY <1>1, <1>2, <1>4 DEF RefundInv, RefundTypeOK
<1>. QED  BY <1>2, <1>4, <1>5, <1>6 DEF RefundInv

LEMMA LandLateStep ==
  ASSUME RefundInv, NEW members \in late, LandLate(members) \/ Expire(members)
  PROVE  RefundInv'
<1>1. UNCHANGED <<owed, rows, wallet, entries, run, faults>> /\ late' \subseteq late
  BY DEF LandLate, Expire, books
<1>2. PaidFromDeposit' /\ paid' \in [Members -> Nat] /\ escrowed' \subseteq escrowed
  <2>1. CASE LandLate(members)
    BY <1>1, <2>1, ContractRefundStep DEF LandLate
  <2>2. CASE Expire(members)
    BY <1>1, <2>2 DEF Expire, RefundInv, RefundTypeOK, PaidFromDeposit
  <2>. QED  BY <2>1, <2>2
<1>3. WorkersOK'
  BY <1>1, <1>2, QuietWorkers DEF Monotone
<1>4. ResolvedMeansRefunded'
  BY <1>1, EntriesUnchanged
<1>5. RefundTypeOK'
  BY <1>1, <1>2 DEF RefundInv, RefundTypeOK
<1>. QED  BY <1>2, <1>3, <1>4, <1>5 DEF RefundInv

\* What a step on the dead-letter queue leaves to show.
LEMMA QueueStep ==
  ASSUME RefundInv, UNCHANGED <<chain, books, wallet, faults>>,
         entries' \in Seq(EntryRecords), run' \in [Workers -> WorkerStates],
         WorkersOK', ResolvedMeansRefunded'
  PROVE  RefundInv'
BY DEF RefundInv, RefundTypeOK, PaidFromDeposit, chain, books

LEMMA ClaimStep ==
  ASSUME RefundInv, NEW w \in Workers, ClaimMove(w),
         UNCHANGED <<chain, books, wallet, faults>>
  PROVE  RefundInv'
<1>1. PICK e \in DOMAIN entries, r \in WorkerStates :
         /\ Claimable(e) /\ entries' = Claim(e)
         /\ run' = [run EXCEPT ![w] = r]
         /\ WorkerOK(r)' /\ Selects(w, r)
  BY DEF ClaimMove
<1>2. /\ entries' \in Seq(EntryRecords)
      /\ DOMAIN entries' = DOMAIN entries
      /\ entries'[e].status = "RETRYING"
      /\ \A d \in DOMAIN entries : d # e => entries'[d] = entries[d]
      /\ \A d \in DOMAIN entries : entries'[d].memberIds = entries[d].memberIds
  BY <1>1, ClaimUpdate DEF RefundInv
<1>3. Monotone
  BY <1>2 DEF Monotone, chain, books
<1>4. run' \in [Workers -> WorkerStates] /\ WorkersOK'
  BY <1>1, <1>3, MovedWorkers
<1>5. ResolvedMeansRefunded'
  BY <1>2 DEF RefundInv, ResolvedMeansRefunded, books
<1>. QED  BY <1>2, <1>4, <1>5, QueueStep

LEMMA ReleaseStep ==
  ASSUME RefundInv, NEW w \in Workers, ReleaseMove(w),
         UNCHANGED <<chain, books, wallet, faults>>
  PROVE  RefundInv'
<1>1. PICK e : e = run[w].entry
  OBVIOUS
<1>2. PICK n \in EntryRecords, r \in WorkerStates :
         /\ e \in DOMAIN entries
         /\ entries' = [entries EXCEPT ![e] = n]
         /\ n.memberIds = entries[e].memberIds
         /\ n.status = "RESOLVED" => n.memberIds \cap owed = {}
         /\ run' = [run EXCEPT ![w] = r]
         /\ WorkerOK(r)' /\ Selects(w, r)
  BY <1>1 DEF ReleaseMove
<1>3. /\ entries' \in Seq(EntryRecords)
      /\ DOMAIN entries' = DOMAIN entries
      /\ entries'[e] = n
      /\ \A d \in DOMAIN entries : d # e => entries'[d] = entries[d]
      /\ \A d \in DOMAIN entries : entries'[d].memberIds = entries[d].memberIds
  BY <1>2, EntryUpdate DEF RefundInv
<1>4. Monotone
  BY <1>3 DEF Monotone, chain, books
<1>5. run' \in [Workers -> WorkerStates] /\ WorkersOK'
  BY <1>2, <1>4, MovedWorkers
<1>6. ResolvedMeansRefunded'
  BY <1>2, <1>3 DEF RefundInv, ResolvedMeansRefunded, books
<1>. QED  BY <1>3, <1>5, <1>6, QueueStep

LEMMA IsolateStep ==
  ASSUME RefundInv, NEW w \in Workers, IsolateMove(w),
         UNCHANGED <<chain, books, wallet, faults>>
  PROVE  RefundInv'
<1>1. PICK n \in EntryRecords, r \in WorkerStates :
         /\ entries' = Append(entries, n) /\ n.status = "PENDING"
         /\ run' = [run EXCEPT ![w] = r]
         /\ WorkerOK(r)' /\ Selects(w, r)
  BY DEF IsolateMove
<1>2. /\ entries' \in Seq(EntryRecords)
      /\ DOMAIN entries' = DOMAIN entries \cup {Len(entries) + 1}
      /\ entries'[Len(entries) + 1] = n
      /\ \A d \in DOMAIN entries : entries'[d] = entries[d]
  BY <1>1, EntryAppend DEF RefundInv
<1>3. Monotone
  BY <1>2 DEF Monotone, chain, books
<1>4. run' \in [Workers -> WorkerStates] /\ WorkersOK'
  BY <1>1, <1>3, MovedWorkers
<1>5. ResolvedMeansRefunded'
  BY <1>1, <1>2 DEF RefundInv, ResolvedMeansRefunded, books
<1>. QED  BY <1>2, <1>4, <1>5, QueueStep

\* An administrator writes an entry off, or a claim grows old.
LEMMA AgeingUpdate ==
  ASSUME RefundTypeOK, NEW e \in DOMAIN entries, Discard(e) \/ BecomeStale(e)
  PROVE  /\ entries' \in Seq(EntryRecords)
         /\ DOMAIN entries' = DOMAIN entries
         /\ entries'[e].status = IF Discard(e) THEN "DISCARDED" ELSE entries[e].status
         /\ \A d \in DOMAIN entries : d # e => entries'[d] = entries[d]
         /\ \A d \in DOMAIN entries : entries'[d].memberIds = entries[d].memberIds
<1>1. PICK was : was = entries[e]
  OBVIOUS
<1>2. was \in EntryRecords
  BY <1>1, EntryType
<1>3. PICK n : n = IF Discard(e) THEN [was EXCEPT !.status = "DISCARDED"]
                   ELSE [was EXCEPT !.stale = TRUE]
  OBVIOUS
<1>4. /\ n \in EntryRecords /\ n.memberIds = was.memberIds
      /\ n.status = IF Discard(e) THEN "DISCARDED" ELSE was.status
  BY <1>2, <1>3 DEF EntryRecords, Open, Closed
<1>5. entries' = [entries EXCEPT ![e] = n]
  BY <1>1, <1>3 DEF Discard, BecomeStale
<1>. QED  BY <1>1, <1>4, <1>5, EntryUpdate

LEMMA AgeingStep ==
  ASSUME RefundInv, NEW e \in DOMAIN entries, Discard(e) \/ BecomeStale(e)
  PROVE  RefundInv'
<1>1. /\ entries' \in Seq(EntryRecords)
      /\ DOMAIN entries' = DOMAIN entries
      /\ entries'[e].status = IF Discard(e) THEN "DISCARDED" ELSE entries[e].status
      /\ \A d \in DOMAIN entries : d # e => entries'[d] = entries[d]
      /\ \A d \in DOMAIN entries : entries'[d].memberIds = entries[d].memberIds
  BY AgeingUpdate DEF RefundInv
<1>2. UNCHANGED <<chain, books, wallet, run, faults>>
  BY DEF Discard, BecomeStale
<1>3. WorkersOK'
  BY <1>1, <1>2, QuietWorkers DEF Monotone, chain, books
<1>4. ResolvedMeansRefunded'
  BY <1>1, <1>2 DEF RefundInv, ResolvedMeansRefunded, books
<1>. QED  BY <1>1, <1>2, <1>3, <1>4, QueueStep DEF RefundInv, RefundTypeOK

-----------------------------------------------------------------------------
(* The steps of Next, by what they do to the workers and the queue.        *)

LEMMA RefundSteps ==
  ASSUME RefundInv, [Next]_vars
  PROVE  \/ \E w \in Workers :
               LocalMove(w) /\ UNCHANGED entries
         \/ \E w \in Workers :
               /\ ClaimMove(w) \/ ReleaseMove(w) \/ IsolateMove(w)
               /\ UNCHANGED <<chain, books, wallet, faults>>
         \/ \E e \in DOMAIN entries : Discard(e) \/ BecomeStale(e)
         \/ UNCHANGED <<entries, run>>
<1>1. ASSUME NEW w \in Workers, EntryStep(w) \/ Land(w) \/ Crash(w)
      PROVE  \/ LocalMove(w) /\ UNCHANGED entries
             \/ ReleaseMove(w) /\ UNCHANGED <<chain, books, wallet, faults>>
  <2>1. CASE LoadEntry(w)
    BY <2>1, LoadEntryMoves DEF LoadEntry
  <2>2. CASE Answer(w)
    BY <2>2, AnswerMoves DEF Answer, Confirmed, Rejected, Unanswered
  <2>3. CASE CommitRefundBatch(w)
    BY <2>3, CommitMoves DEF CommitRefundBatch
  <2>4. CASE DatabaseFails(w)
    BY <2>4, DatabaseFailsMoves DEF DatabaseFails
  <2>5. CASE MarkResolved(w)
    BY <2>5, MarkResolvedMoves DEF MarkResolved
  <2>6. CASE MarkRetryFailed(w)
    BY <2>6, MarkRetryFailedMoves DEF MarkRetryFailed
  <2>7. CASE Land(w)
    BY <2>7, LandMoves DEF Land
  <2>8. CASE Crash(w)
    BY <2>8, GoesIdle DEF Crash
  <2>. QED  BY <1>1, <2>1, <2>2, <2>3, <2>4, <2>5, <2>6, <2>7, <2>8 DEF EntryStep
<1>2. ASSUME NEW j \in Jobs, JobStep(j)
      PROVE  \/ LocalMove(j) /\ UNCHANGED entries
             \/ /\ ClaimMove(j) \/ IsolateMove(j)
                /\ UNCHANGED <<chain, books, wallet, faults>>
  <2>1. CASE JobStart(j) \/ JobList(j)
    BY <2>1, JobStartMoves DEF JobStart, JobList
  <2>2. CASE JobClaim(j)
    BY <2>2, JobClaimMoves DEF JobClaim
  <2>3. CASE JobSelect(j)
    BY <2>3, JobSelectMoves DEF JobSelect
  <2>4. CASE JobDispatch(j)
    BY <2>4, JobDispatchMoves DEF JobDispatch
  <2>5. CASE DeadLetterBatch(j)
    BY <2>5, DeadLetterBatchMoves DEF DeadLetterBatch
  <2>6. CASE JobDone(j)
    BY <2>6, GoesIdle DEF JobDone, Workers
  <2>. QED  BY <1>2, <2>1, <2>2, <2>3, <2>4, <2>5, <2>6 DEF JobStep
<1>3. ASSUME NEW e \in DOMAIN entries, NEW a \in Admins, AdminRetry(a, e)
      PROVE  ClaimMove(a) /\ UNCHANGED <<chain, books, wallet, faults>>
  BY <1>3, AdminRetryMoves DEF AdminRetry
<1>4. ASSUME NEW members \in late, LandLate(members) \/ Expire(members)
      PROVE  UNCHANGED <<entries, run>>
  BY <1>4 DEF LandLate, Expire
<1>5. ASSUME NEW m \in Members, LinkWallet(m)
      PROVE  UNCHANGED <<entries, run>>
  BY <1>5 DEF LinkWallet
<1>6. CASE UNCHANGED vars
  BY <1>6 DEF vars
<1>. QED  BY <1>1, <1>2, <1>3, <1>4, <1>5, <1>6 DEF Next, Workers

\* Each step preserves the invariant.
LEMMA RefundInvStep ==
  ASSUME RefundInv, [Next]_vars
  PROVE  RefundInv'
<1>1. ASSUME NEW w \in Workers, EntryStep(w) \/ Crash(w)
      PROVE  RefundInv'
  <2>1. CASE LoadEntry(w)
    BY <2>1, LoadEntryMoves, LocalStep DEF LoadEntry, chain, RefundInv, RefundTypeOK
  <2>2. CASE Answer(w)
    <3>1. /\ UNCHANGED <<escrowed, paid, books, wallet, entries, faults>>
          /\ late' = late \/ late' = late \cup {run[w].batch}
      BY <2>2 DEF Answer, Confirmed, Rejected, Unanswered, chain
    <3>2. run[w].batch \in SUBSET Members
      BY DEF RefundInv, RefundTypeOK, WorkerStates
    <3>3. late' \subseteq SUBSET Members /\ faults' \in Nat
      BY <3>1, <3>2 DEF RefundInv, RefundTypeOK
    <3>. QED  BY <2>2, <3>1, <3>3, AnswerMoves, LocalStep
  <2>3. CASE CommitRefundBatch(w)
    BY <2>3, CommitStep
  <2>4. CASE DatabaseFails(w)
    <3>1. UNCHANGED <<escrowed, paid, books, wallet, entries>>
      BY <2>4 DEF DatabaseFails, chain
    <3>2. late' \subseteq SUBSET Members /\ faults' \in Nat
      BY <2>4 DEF DatabaseFails, chain, RefundInv, RefundTypeOK
    <3>. QED  BY <2>4, <3>1, <3>2, DatabaseFailsMoves, LocalStep
  <2>5. CASE MarkResolved(w)
    BY <2>5, MarkResolvedMoves, ReleaseStep DEF MarkResolved
  <2>6. CASE MarkRetryFailed(w)
    BY <2>6, MarkRetryFailedMoves, ReleaseStep DEF MarkRetryFailed
  <2>7. CASE Crash(w)
    <3>1. /\ UNCHANGED <<escrowed, paid, books, wallet, entries>>
          /\ late' = late \/ late' = late \cup {run[w].batch}
          /\ run' = [run EXCEPT ![w] = Idle]
          /\ faults' = faults + 1
      BY <2>7 DEF Crash
    <3>2. run[w].batch \in SUBSET Members
      BY DEF RefundInv, RefundTypeOK, WorkerStates
    <3>3. late \subseteq SUBSET Members /\ faults \in Nat
      BY DEF RefundInv, RefundTypeOK
    <3>4. late' \subseteq SUBSET Members
      BY <3>1, <3>2, <3>3
    <3>5. faults' \in Nat
      BY <3>1, <3>3
    <3>6. LocalMove(w)
      BY <3>1, GoesIdle
    <3>. QED  BY <3>1, <3>4, <3>5, <3>6, LocalStep
  <2>. QED  BY <1>1, <2>1, <2>2, <2>3, <2>4, <2>5, <2>6, <2>7 DEF EntryStep
<1>2. ASSUME NEW j \in Jobs, JobStep(j)
      PROVE  RefundInv'
  <2>. j \in Workers
    BY DEF Workers
  <2>. USE DEF chain
  <2>0. late \subseteq SUBSET Members /\ faults \in Nat
    BY DEF RefundInv, RefundTypeOK
  <2>1. CASE JobStart(j) \/ JobList(j)
    BY <2>0, <2>1, JobStartMoves, LocalStep DEF JobStart, JobList
  <2>2. CASE JobClaim(j)
    BY <2>0, <2>2, JobClaimMoves, ClaimStep, LocalStep DEF JobClaim
  <2>3. CASE JobSelect(j)
    BY <2>0, <2>3, JobSelectMoves, IsolateStep, LocalStep DEF JobSelect
  <2>4. CASE JobDispatch(j)
    BY <2>0, <2>4, JobDispatchMoves, LocalStep DEF JobDispatch
  <2>5. CASE DeadLetterBatch(j)
    BY <2>5, DeadLetterBatchMoves, IsolateStep DEF DeadLetterBatch
  <2>6. CASE JobDone(j)
    BY <2>0, <2>6, GoesIdle, LocalStep DEF JobDone
  <2>. QED  BY <1>2, <2>1, <2>2, <2>3, <2>4, <2>5, <2>6 DEF JobStep
<1>3. ASSUME NEW e \in DOMAIN entries, NEW a \in Admins, AdminRetry(a, e)
      PROVE  RefundInv'
  BY <1>3, AdminRetryMoves, ClaimStep DEF AdminRetry, Workers
<1>4. ASSUME NEW m \in Members, LinkWallet(m)
      PROVE  RefundInv'
  <2>1. WorkersOK'
    BY <1>4, QuietWorkers DEF LinkWallet, Monotone, chain, books
  <2>. QED
    BY <1>4, <2>1 DEF LinkWallet, RefundInv, RefundTypeOK, PaidFromDeposit,
                      ResolvedMeansRefunded, chain, books
<1>5. CASE UNCHANGED vars
  <2>1. WorkersOK'
    BY <1>5, QuietWorkers DEF vars, Monotone, chain, books
  <2>. QED
    BY <1>5, <2>1 DEF vars, RefundInv, RefundTypeOK, PaidFromDeposit,
                      ResolvedMeansRefunded, chain, books
<1>. QED  BY <1>1, <1>2, <1>3, <1>4, <1>5, LandStep, LandLateStep, AgeingStep DEF Next

\* Every state the refunds can reach satisfies RefundInv.
THEOREM RefundInvariant == Spec => []RefundInv
<1>1. Init => RefundInv
  <2>. SUFFICES ASSUME Init PROVE RefundInv
    OBVIOUS
  <2>1. RefundTypeOK
    BY IdleOK DEF Init, RefundTypeOK
  <2>2. PaidFromDeposit
    BY DEF Init, PaidFromDeposit
  <2>3. ResolvedMeansRefunded /\ WorkersOK
    BY DEF Init, ResolvedMeansRefunded, WorkersOK, WorkerOK, InHand, Idle, NoEntry
  <2>. QED  BY <2>1, <2>2, <2>3 DEF RefundInv
<1>2. RefundInv /\ [Next]_vars => RefundInv'
  BY RefundInvStep
<1>. QED  BY <1>1, <1>2, PTL DEF Spec

\* The books follow the chain: a member is paid once at most, whatever the
\* job and the administrators retry, re-claim or see land late, and is marked
\* REFUNDED only after that payment.
THEOREM BooksFollowChainHolds == Spec => []BooksFollowChain
<1>1. RefundInv => BooksFollowChain
  BY DEF RefundInv, PaidFromDeposit, BooksFollowChain
<1>. QED  BY <1>1, RefundInvariant, PTL

\* markResolved leaves no member of the entry owed, also when the worker was
\* overtaken while its transaction was under way.
THEOREM ResolvedMeansRefundedHolds == Spec => []ResolvedMeansRefunded
<1>1. RefundInv => ResolvedMeansRefunded
  BY DEF RefundInv
<1>. QED  BY <1>1, RefundInvariant, PTL

-----------------------------------------------------------------------------
(* One retry of an entry at a time, while no worker outlives its claim.    *)

\* An entry that may be claimed is in nobody's hands.
LEMMA ClaimableIsFree ==
  ASSUME HeldOnce, NEW e, Claimable(e)
  PROVE  \A w \in Workers : run[w].entry # NoEntry => run[w].entry # e
BY DEF HeldOnce, Claimable

\* Each step keeps the holders of entries apart.
LEMMA HeldOnceStep ==
  ASSUME ~WorkersStall, RefundInv, HeldOnce, [Next]_vars
  PROVE  HeldOnce'
<1>. USE DEF HeldOnce
<1>0. run \in [Workers -> WorkerStates] /\ RefundTypeOK
  BY DEF RefundInv, RefundTypeOK
<1>1. ASSUME NEW w \in Workers, LocalMove(w), UNCHANGED entries
      PROVE  HeldOnce'
  <2>1. PICK r \in WorkerStates :
           run' = [run EXCEPT ![w] = r] /\ r.entry \in {NoEntry, run[w].entry}
    BY <1>1 DEF LocalMove
  <2>2. run'[w] = r /\ \A v \in Workers \ {w} : run'[v] = run[v]
    BY <1>0, <2>1
  <2>. QED  BY <1>1, <2>1, <2>2
<1>2. ASSUME NEW w \in Workers, ClaimMove(w)
      PROVE  HeldOnce'
  <2>1. PICK e \in DOMAIN entries, r \in WorkerStates :
           /\ Claimable(e) /\ entries' = Claim(e)
           /\ run' = [run EXCEPT ![w] = r] /\ r.entry = e
    BY <1>2 DEF ClaimMove
  <2>2. run'[w] = r /\ \A v \in Workers \ {w} : run'[v] = run[v]
    BY <1>0, <2>1
  <2>3. /\ DOMAIN entries' = DOMAIN entries
        /\ entries'[e].status = "RETRYING" /\ ~entries'[e].stale
        /\ \A d \in DOMAIN entries : d # e => entries'[d] = entries[d]
    BY <1>0, <2>1, ClaimUpdate
  <2>4. \A v \in Workers \ {w} : run[v].entry # NoEntry =>
           run[v].entry # e /\ run[v].entry \in DOMAIN entries
    BY <2>1, ClaimableIsFree DEF RefundInv, WorkersOK, WorkerOK
  <2>5. e # NoEntry
    BY <1>0, <2>1, EntryType DEF NoEntry
  <2>. QED  BY <2>1, <2>2, <2>3, <2>4, <2>5
<1>3. ASSUME NEW w \in Workers, ReleaseMove(w)
      PROVE  HeldOnce'
  <2>1. PICK e : e = run[w].entry
    OBVIOUS
  <2>2. PICK n \in EntryRecords, r \in WorkerStates :
           /\ e \in DOMAIN entries
           /\ entries' = [entries EXCEPT ![e] = n]
           /\ n.memberIds = entries[e].memberIds
           /\ run' = [run EXCEPT ![w] = r] /\ r.entry = NoEntry
    BY <1>3, <2>1 DEF ReleaseMove
  <2>3. run'[w] = r /\ \A v \in Workers \ {w} : run'[v] = run[v]
    BY <1>0, <2>2
  <2>4. \A d \in DOMAIN entries : d # e => entries'[d] = entries[d]
    BY <1>0, <2>2, EntryUpdate
  <2>5. e # NoEntry
    BY <1>0, <2>2, EntryType DEF NoEntry
  <2>6. \A v \in Workers \ {w} : run[v].entry # NoEntry =>
           run[v].entry # e /\ run[v].entry \in DOMAIN entries
    BY <2>1, <2>5 DEF RefundInv, WorkersOK, WorkerOK
  <2>. QED  BY <2>2, <2>3, <2>4, <2>6
<1>4. ASSUME NEW w \in Workers, IsolateMove(w)
      PROVE  HeldOnce'
  <2>1. PICK n \in EntryRecords, r \in WorkerStates :
           /\ entries' = Append(entries, n)
           /\ run' = [run EXCEPT ![w] = r] /\ r.entry = NoEntry
    BY <1>4 DEF IsolateMove
  <2>2. run'[w] = r /\ \A v \in Workers \ {w} : run'[v] = run[v]
    BY <1>0, <2>1
  <2>3. \A d \in DOMAIN entries : entries'[d] = entries[d]
    BY <1>0, <2>1, EntryAppend
  <2>4. \A v \in Workers : run[v].entry # NoEntry => run[v].entry \in DOMAIN entries
    BY DEF RefundInv, WorkersOK, WorkerOK
  <2>. QED  BY <2>1, <2>2, <2>3, <2>4
<1>5. ASSUME NEW e \in DOMAIN entries, Discard(e) \/ BecomeStale(e)
      PROVE  HeldOnce'
  <2>1. UNCHANGED run /\ \A d \in DOMAIN entries : d # e => entries'[d] = entries[d]
    BY <1>0, <1>5, AgeingUpdate DEF Discard, BecomeStale
  <2>2. \A v \in Workers : run[v].entry # NoEntry =>
           run[v].entry # e /\ run[v].entry \in DOMAIN entries
    <3>1. \A v \in Workers : run[v].entry # NoEntry => run[v].entry \in DOMAIN entries
      BY DEF RefundInv, WorkersOK, WorkerOK
    <3>2. CASE Discard(e)
      BY <3>1, <3>2 DEF Discard
    <3>3. CASE BecomeStale(e)
      BY <3>1, <3>3 DEF BecomeStale
    <3>. QED  BY <1>5, <3>2, <3>3
  <2>. QED  BY <2>1, <2>2
<1>6. CASE UNCHANGED <<entries, run>>
  BY <1>6
<1>. QED  BY <1>1, <1>2, <1>3, <1>4, <1>5, <1>6, RefundSteps

LEMMA HeldOnceInvariant ==
  ASSUME ~WorkersStall
  PROVE  Spec => [](RefundInv /\ HeldOnce)
<1>1. Init => HeldOnce
  BY DEF Init, HeldOnce, Idle, NoEntry
<1>2. RefundInv /\ HeldOnce /\ [Next]_vars => HeldOnce'
  BY HeldOnceStep
<1>. QED  BY <1>1, <1>2, RefundInvariant, PTL DEF Spec

\* While no worker outlives its claim (STALE_RETRY_MS), claimForRetry lets
\* one worker at a time retry an entry, and finds it as it left it.
THEOREM OneRetryAtATimeHolds ==
  ASSUME ~WorkersStall
  PROVE  Spec => []OneRetryAtATime
<1>1. HeldOnce => OneRetryAtATime
  BY DEF HeldOnce, OneRetryAtATime
<1>. QED  BY <1>1, HeldOnceInvariant, PTL

\* RESOLVED and DISCARDED are final although markResolved and markRetryFailed
\* write an entry whatever its status: the claim excludes everybody else.
THEOREM ClosedIsFinalHolds ==
  ASSUME ~WorkersStall
  PROVE  Spec => ClosedIsFinal
<1>1. RefundInv /\ HeldOnce /\ [Next]_vars =>
         \A e \in DOMAIN entries :
            entries[e].status \in Closed => entries'[e].status = entries[e].status
  <2>. SUFFICES ASSUME RefundInv, HeldOnce, [Next]_vars, NEW d \in DOMAIN entries,
                       entries[d].status \in Closed
                PROVE  entries'[d].status = entries[d].status
    OBVIOUS
  <2>0. RefundTypeOK
    BY DEF RefundInv
  <2>1. ASSUME NEW w \in Workers, ClaimMove(w)
        PROVE  entries'[d] = entries[d]
    <3>1. PICK e \in DOMAIN entries : Claimable(e) /\ entries' = Claim(e)
      BY <2>1 DEF ClaimMove
    <3>2. d # e
      BY <3>1 DEF Claimable, Closed
    <3>. QED  BY <2>0, <3>1, <3>2, ClaimUpdate
  <2>2. ASSUME NEW w \in Workers, ReleaseMove(w)
        PROVE  entries'[d] = entries[d]
    <3>1. PICK e : e = run[w].entry
      OBVIOUS
    <3>2. PICK n \in EntryRecords :
             /\ e \in DOMAIN entries
             /\ entries' = [entries EXCEPT ![e] = n]
             /\ n.memberIds = entries[e].memberIds
      BY <2>2, <3>1 DEF ReleaseMove
    <3>3. d # e
      <4>1. e # NoEntry
        BY <2>0, <3>2, EntryType DEF NoEntry
      <4>. QED  BY <3>1, <4>1 DEF HeldOnce, Closed
    <3>. QED  BY <2>0, <3>2, <3>3, EntryUpdate
  <2>3. ASSUME NEW w \in Workers, IsolateMove(w)
        PROVE  entries'[d] = entries[d]
    BY <2>0, <2>3, EntryAppend DEF IsolateMove
  <2>4. ASSUME NEW e \in DOMAIN entries, Discard(e) \/ BecomeStale(e)
        PROVE  entries'[d] = entries[d]
    <3>1. d # e
      BY <2>4 DEF Discard, BecomeStale, Closed
    <3>. QED  BY <2>0, <2>4, <3>1, AgeingUpdate
  <2>. QED  BY <2>1, <2>2, <2>3, <2>4, RefundSteps
<1>. QED  BY <1>1, HeldOnceInvariant, PTL DEF Spec, ClosedIsFinal

-----------------------------------------------------------------------------
(* A written-off member is not dispatched again, with one run of the job   *)
(* at a time.                                                              *)

\* A step that makes no entry isolating.
LEMMA IsolationShrinks ==
  ASSUME IsolatedOnce, DOMAIN entries' = DOMAIN entries,
         \A d \in DOMAIN entries :
            /\ entries'[d].memberIds = entries[d].memberIds
            /\ entries'[d].status \in ISOLATING_DEAD_LETTER_STATUSES =>
                  entries[d].status \in ISOLATING_DEAD_LETTER_STATUSES
  PROVE  /\ IsolatedMemberIds' \subseteq IsolatedMemberIds
         /\ \A d, e \in DOMAIN entries' :
               /\ d # e
               /\ entries'[d].status \in ISOLATING_DEAD_LETTER_STATUSES
               /\ entries'[e].status \in ISOLATING_DEAD_LETTER_STATUSES
               => entries'[d].memberIds \cap entries'[e].memberIds = {}
<1>. USE DEF IsolatedOnce
<1>1. IsolatedMemberIds' \subseteq IsolatedMemberIds
  BY DEF IsolatedMemberIds
<1>. QED  BY <1>1

\* Each step keeps the members in hand and the isolated ones apart.
LEMMA IsolatedOnceStep ==
  ASSUME \A i, j \in Jobs : i = j,
         RefundInv, HeldOnce, IsolatedOnce, [Next]_vars
  PROVE  IsolatedOnce'
<1>0. run \in [Workers -> WorkerStates] /\ RefundTypeOK
  BY DEF RefundInv, RefundTypeOK
<1>1. ASSUME NEW w \in Workers, NEW r \in WorkerStates,
             run' = [run EXCEPT ![w] = r], Selects(w, r),
             DOMAIN entries' = DOMAIN entries,
             \A d \in DOMAIN entries :
                /\ entries'[d].memberIds = entries[d].memberIds
                /\ entries'[d].status \in ISOLATING_DEAD_LETTER_STATUSES =>
                      entries[d].status \in ISOLATING_DEAD_LETTER_STATUSES
      PROVE  IsolatedOnce'
  <2>1. run'[w] = r /\ \A v \in Workers \ {w} : run'[v] = run[v]
    BY <1>0, <1>1
  <2>2. IsolatedMemberIds' \subseteq IsolatedMemberIds
    BY <1>1, IsolationShrinks
  <2>3. ASSUME NEW v \in Workers
        PROVE  (InHand(run[v]) \cap IsolatedMemberIds)' = {}
    <3>1. PICK o : o = run'[v]
      OBVIOUS
    <3>2. InHand(o) \cap IsolatedMemberIds = {}
      BY <1>1, <2>1, <3>1 DEF Selects, IsolatedOnce
    <3>3. InHand(run[v])' = InHand(o)
      BY <3>1 DEF InHand
    <3>. QED  BY <2>2, <3>2, <3>3
  <2>. QED  BY <1>1, <2>3, IsolationShrinks DEF IsolatedOnce
<1>2. ASSUME NEW w \in Workers, LocalMove(w), UNCHANGED entries
      PROVE  IsolatedOnce'
  BY <1>1, <1>2 DEF LocalMove
<1>3. ASSUME NEW w \in Workers, ClaimMove(w)
      PROVE  IsolatedOnce'
  <2>1. PICK e \in DOMAIN entries, r \in WorkerStates :
           /\ Claimable(e) /\ entries' = Claim(e)
           /\ run' = [run EXCEPT ![w] = r] /\ Selects(w, r)
    BY <1>3 DEF ClaimMove
  <2>2. /\ DOMAIN entries' = DOMAIN entries
        /\ \A d \in DOMAIN entries : d # e => entries'[d] = entries[d]
        /\ \A d \in DOMAIN entries : entries'[d].memberIds = entries[d].memberIds
    BY <1>0, <2>1, ClaimUpdate
  <2>3. entries[e].status \in ISOLATING_DEAD_LETTER_STATUSES
    BY <2>1 DEF Claimable, ISOLATING_DEAD_LETTER_STATUSES
  <2>. QED  BY <1>1, <2>1, <2>2, <2>3
<1>4. ASSUME NEW w \in Workers, ReleaseMove(w)
      PROVE  IsolatedOnce'
  <2>1. PICK e : e = run[w].entry
    OBVIOUS
  <2>2. PICK n \in EntryRecords, r \in WorkerStates :
           /\ e \in DOMAIN entries
           /\ entries' = [entries EXCEPT ![e] = n]
           /\ n.memberIds = entries[e].memberIds
           /\ run' = [run EXCEPT ![w] = r] /\ Selects(w, r)
    BY <1>4, <2>1 DEF ReleaseMove
  <2>3. /\ DOMAIN entries' = DOMAIN entries
        /\ \A d \in DOMAIN entries : d # e => entries'[d] = entries[d]
        /\ \A d \in DOMAIN entries : entries'[d].memberIds = entries[d].memberIds
    BY <1>0, <2>2, EntryUpdate
  <2>4. entries[e].status \in ISOLATING_DEAD_LETTER_STATUSES
    <3>1. e # NoEntry
      BY <1>0, <2>2, EntryType DEF NoEntry
    <3>. QED  BY <2>1, <3>1 DEF HeldOnce, ISOLATING_DEAD_LETTER_STATUSES
  <2>. QED  BY <1>1, <2>2, <2>3, <2>4
<1>5. ASSUME NEW w \in Workers, IsolateMove(w)
      PROVE  IsolatedOnce'
  <2>1. PICK n \in EntryRecords, r \in WorkerStates :
           /\ entries' = Append(entries, n)
           /\ \/ n.memberIds \subseteq InHand(run[w])
              \/ n.memberIds \cap IsolatedMemberIds = {}
           /\ n.memberIds \cap InHand(r) = {}
           /\ run' = [run EXCEPT ![w] = r] /\ Selects(w, r)
    BY <1>5 DEF IsolateMove
  <2>2. run'[w] = r /\ \A v \in Workers \ {w} : run'[v] = run[v]
    BY <1>0, <2>1
  <2>3. PICK k : k = Len(entries) + 1
    OBVIOUS
  <2>4. /\ DOMAIN entries' = DOMAIN entries \cup {k} /\ k \notin DOMAIN entries
        /\ entries'[k] = n
        /\ \A d \in DOMAIN entries : entries'[d] = entries[d]
    BY <1>0, <2>1, <2>3, EntryAppend
  <2>5. n.memberIds \cap IsolatedMemberIds = {}
    BY <2>1 DEF IsolatedOnce
  <2>6. \A d \in DOMAIN entries :
           entries[d].status \in ISOLATING_DEAD_LETTER_STATUSES =>
              n.memberIds \cap entries[d].memberIds = {}
    BY <2>5 DEF IsolatedMemberIds
  <2>7. IsolatedMemberIds' \subseteq IsolatedMemberIds \cup n.memberIds
    BY <2>4 DEF IsolatedMemberIds
  <2>8. ASSUME NEW v \in Workers
        PROVE  (InHand(run[v]) \cap IsolatedMemberIds)' = {}
    <3>1. PICK o : o = run'[v]
      OBVIOUS
    <3>2. InHand(run[v])' = InHand(o)
      BY <3>1 DEF InHand
    <3>3. CASE v = w
      <4>1. o = r /\ InHand(r) \cap IsolatedMemberIds = {}
        BY <2>1, <2>2, <3>1, <3>3 DEF Selects, IsolatedOnce
      <4>. QED  BY <2>1, <2>7, <3>2, <4>1
    <3>4. CASE v # w
      <4>1. v \notin Jobs
        BY <1>5, <3>4 DEF IsolateMove
      <4>2. InHand(o) = {}
        BY <2>2, <3>1, <3>4, <4>1 DEF RefundInv, WorkersOK
      <4>. QED  BY <3>2, <4>2
    <3>. QED  BY <3>3, <3>4
  <2>9. \A d, e \in DOMAIN entries' :
           /\ d # e
           /\ entries'[d].status \in ISOLATING_DEAD_LETTER_STATUSES
           /\ entries'[e].status \in ISOLATING_DEAD_LETTER_STATUSES
           => entries'[d].memberIds \cap entries'[e].memberIds = {}
    BY <2>4, <2>6 DEF IsolatedOnce
  <2>. QED  BY <2>8, <2>9 DEF IsolatedOnce
<1>6. ASSUME NEW e \in DOMAIN entries, Discard(e) \/ BecomeStale(e)
      PROVE  IsolatedOnce'
  <2>1. /\ DOMAIN entries' = DOMAIN entries
        /\ \A d \in DOMAIN entries : d # e => entries'[d] = entries[d]
        /\ \A d \in DOMAIN entries : entries'[d].memberIds = entries[d].memberIds
    BY <1>0, <1>6, AgeingUpdate
  <2>2. entries[e].status \in ISOLATING_DEAD_LETTER_STATUSES /\ UNCHANGED run
    BY <1>6 DEF Discard, BecomeStale, ISOLATING_DEAD_LETTER_STATUSES
  <2>3. /\ IsolatedMemberIds' \subseteq IsolatedMemberIds
        /\ \A d, b \in DOMAIN entries' :
              /\ d # b
              /\ entries'[d].status \in ISOLATING_DEAD_LETTER_STATUSES
              /\ entries'[b].status \in ISOLATING_DEAD_LETTER_STATUSES
              => entries'[d].memberIds \cap entries'[b].memberIds = {}
    BY <2>1, <2>2, IsolationShrinks
  <2>. QED  BY <2>2, <2>3 DEF IsolatedOnce, InHand
<1>7. CASE UNCHANGED <<entries, run>>
  BY <1>7 DEF IsolatedOnce, IsolatedMemberIds, InHand
<1>. QED  BY <1>2, <1>3, <1>4, <1>5, <1>6, <1>7, RefundSteps

LEMMA IsolatedOnceInvariant ==
  ASSUME ~WorkersStall, \A i, j \in Jobs : i = j
  PROVE  Spec => [](RefundInv /\ HeldOnce /\ IsolatedOnce)
<1>1. Init => IsolatedOnce
  BY DEF Init, IsolatedOnce, IsolatedMemberIds, InHand, Idle, NoEntry
<1>2. RefundInv /\ HeldOnce /\ IsolatedOnce /\ [Next]_vars => IsolatedOnce'
  BY IsolatedOnceStep
<1>. QED  BY <1>1, <1>2, HeldOnceInvariant, PTL DEF Spec

\* With one run of the job at a time and no worker outliving its claim, no
\* transaction dispatched after an administrator wrote a payout off pays one
\* of its members.
THEOREM DiscardHoldsTheorem ==
  ASSUME ~WorkersStall, \A i, j \in Jobs : i = j
  PROVE  Spec => DiscardHolds
<1>1. RefundInv /\ HeldOnce /\ IsolatedOnce /\ [Next]_vars =>
         \A w \in Workers :
            run[w].pc # "sent" /\ run'[w].pc = "sent" =>
                \A m \in run'[w].batch : ~WrittenOff(m)
  <2>. SUFFICES ASSUME RefundInv, HeldOnce, IsolatedOnce, [Next]_vars, NEW w \in Workers,
                       run[w].pc # "sent", run'[w].pc = "sent",
                       NEW m \in run'[w].batch, WrittenOff(m)
                PROVE  FALSE
    OBVIOUS
  <2>0. run \in [Workers -> WorkerStates]
    BY DEF RefundInv, RefundTypeOK
  <2>1. PICK d \in DOMAIN entries : entries[d].status = "DISCARDED" /\ m \in entries[d].memberIds
    BY DEF WrittenOff
  <2>2. CASE LoadEntry(w)
    <3>1. PICK e : e = run[w].entry
      OBVIOUS
    <3>2. e \in DOMAIN entries /\ e # NoEntry
      BY <2>2, <3>1 DEF LoadEntry, RefundInv, WorkersOK, WorkerOK
    <3>3. m \in entries[e].memberIds
      <4>1. PICK old : old = run[w]
        OBVIOUS
      <4>2. PICK members : members = entries[e].memberIds \cap owed
        OBVIOUS
      <4>3. run'[w] = IF members = {} THEN [old EXCEPT !.pc = "resolve"]
                      ELSE IF members \subseteq wallet THEN
                         [old EXCEPT !.pc = "sent", !.batch = members, !.tx = "open"]
                      ELSE [old EXCEPT !.pc = "fail", !.recoverable = FALSE]
        BY <2>0, <2>2, <3>1, <4>1, <4>2 DEF LoadEntry, Dispatched
      <4>4. old \in WorkerStates
        BY <2>0, <4>1
      <4>5. run'[w].batch = members
        BY <4>3, <4>4 DEF WorkerStates
      <4>. QED  BY <4>2, <4>5
    <3>4. entries[e].status = "RETRYING"
      BY <3>1, <3>2 DEF HeldOnce
    <3>. QED  BY <2>1, <3>2, <3>3, <3>4 DEF IsolatedOnce, ISOLATING_DEAD_LETTER_STATUSES
  <2>3. CASE w \in Jobs /\ JobDispatch(w)
    <3>1. m \in InHand(run[w])
      BY <2>3, JobDispatchMoves DEF InHand
    <3>2. m \in IsolatedMemberIds
      BY <2>1 DEF IsolatedMemberIds, ISOLATING_DEAD_LETTER_STATUSES
    <3>. QED  BY <3>1, <3>2 DEF IsolatedOnce
  <2>4. LoadEntry(w) \/ (w \in Jobs /\ JobDispatch(w))
    <3>1. ASSUME NEW v \in Workers, NEW r, run' = [run EXCEPT ![v] = r]
          PROVE  v = w /\ r.pc = "sent"
      BY <2>0, <3>1
    <3>2. ASSUME NEW v \in Workers, NEW r, run' = [run EXCEPT ![v] = r],
                 r.pc \in RefundPcs \ {"sent"}
          PROVE  FALSE
      BY <3>1, <3>2
    <3>3. ASSUME NEW v \in Workers, EntryStep(v) \/ Land(v) \/ Crash(v)
          PROVE  v = w /\ LoadEntry(v)
      <4>1. PICK old : old = run[v]
        OBVIOUS
      <4>2. old \in WorkerStates
        BY <2>0, <4>1
      <4>3. CASE Answer(v)
        <5>1. CASE Confirmed(v)
          <6>1. run' = [run EXCEPT ![v] = [old EXCEPT !.pc = "commit"]]
            BY <4>1, <5>1 DEF Confirmed
          <6>2. [old EXCEPT !.pc = "commit"].pc = "commit"
            BY <4>2 DEF WorkerStates
          <6>. QED  BY <3>2, <6>1, <6>2 DEF RefundPcs
        <5>2. CASE Rejected(v) \/ Unanswered(v)
          <6>1. PICK b \in BOOLEAN :
                   run' = [run EXCEPT ![v] = [old EXCEPT !.pc = "fail", !.tx = "none",
                              !.batch = IF old.entry = NoEntry THEN old.batch ELSE {},
                              !.recoverable = b]]
            BY <4>1, <5>2, ZenonT(60) DEF Rejected, Unanswered
          <6>2. PICK r : r = [old EXCEPT !.pc = "fail", !.tx = "none",
                              !.batch = IF old.entry = NoEntry THEN old.batch ELSE {},
                              !.recoverable = b]
            OBVIOUS
          <6>3. r.pc = "fail"
            BY <4>2, <6>2 DEF WorkerStates
          <6>. QED  BY <3>2, <6>1, <6>2, <6>3 DEF RefundPcs
        <5>. QED  BY <4>3, <5>1, <5>2 DEF Answer
      <4>4. CASE CommitRefundBatch(v)
        <5>1. PICK r : run' = [run EXCEPT ![v] = r] /\ r.pc \in {"batches", "resolve"}
          BY <4>1, <4>2, <4>4 DEF CommitRefundBatch, AfterBatch, WorkerStates
        <5>. QED  BY <3>2, <5>1 DEF RefundPcs
      <4>5. CASE DatabaseFails(v)
        <5>1. PICK r : run' = [run EXCEPT ![v] = r] /\ r.pc \in {"idle", "release"}
          BY <4>1, <4>2, <4>5 DEF DatabaseFails, Idle, WorkerStates
        <5>. QED  BY <3>2, <5>1 DEF RefundPcs
      <4>6. CASE MarkResolved(v) \/ MarkRetryFailed(v)
        <5>1. PICK refunded, r :
                 run' = [run EXCEPT ![v] = r] /\ r \in {Idle, AfterEntry(v, refunded)}
          BY <4>6 DEF MarkResolved, MarkRetryFailed
        <5>2. CASE r = Idle
          BY <3>2, <5>1, <5>2 DEF Idle, RefundPcs
        <5>3. CASE r # Idle
          <6>1. r = [old EXCEPT !.pc = "queue", !.refunded = @ \cup refunded,
                                !.entry = NoEntry, !.attempts = 0, !.batch = {},
                                !.tx = "none", !.recoverable = FALSE]
            BY <4>1, <5>1, <5>3 DEF AfterEntry
          <6>2. r.pc = "queue"
            BY <4>2, <6>1 DEF WorkerStates
          <6>. QED  BY <3>2, <5>1, <6>2 DEF RefundPcs
        <5>. QED  BY <5>2, <5>3
      <4>7. CASE Crash(v)
        BY <3>2, <4>7, IdleOK DEF Crash, Idle, RefundPcs
      <4>8. CASE Land(v)
        BY <2>0, <4>8 DEF Land
      <4>9. CASE LoadEntry(v)
        BY <2>0, <4>9 DEF LoadEntry
      <4>. QED  BY <3>3, <4>3, <4>4, <4>5, <4>6, <4>7, <4>8, <4>9 DEF EntryStep
    <3>4. ASSUME NEW j \in Jobs, JobStep(j)
          PROVE  j = w /\ JobDispatch(j)
      <4>. j \in Workers
        BY DEF Workers
      <4>1. PICK old : old = run[j]
        OBVIOUS
      <4>2. old \in WorkerStates
        BY <2>0, <4>1
      <4>3. CASE JobStart(j) \/ JobSelect(j) \/ JobDone(j)
        <5>1. CASE JobStart(j)
          <6>1. PICK r : /\ r = [Idle EXCEPT !.pc = "list", !.owed = owed,
                                            !.wallet = wallet \cap owed]
                         /\ run' = [run EXCEPT ![j] = r]
            BY <5>1 DEF JobStart
          <6>2. r.pc = "list"
            BY <6>1 DEF Idle
          <6>. QED  BY <3>2, <6>1, <6>2 DEF RefundPcs
        <5>2. CASE JobSelect(j)
          <6>1. PICK todo, r : /\ r = [Idle EXCEPT !.pc = "batches", !.todo = todo]
                               /\ run' = [run EXCEPT ![j] = r]
            BY <5>2 DEF JobSelect
          <6>2. r.pc = "batches"
            BY <6>1 DEF Idle
          <6>. QED  BY <3>2, <6>1, <6>2 DEF RefundPcs
        <5>3. CASE JobDone(j)
          BY <3>2, <5>3 DEF JobDone, Idle, RefundPcs
        <5>. QED  BY <4>3, <5>1, <5>2, <5>3
      <4>4. CASE JobList(j) \/ JobClaim(j) \/ DeadLetterBatch(j)
        <5>1. PICK r : run' = [run EXCEPT ![j] = r] /\ r.pc \in {"queue", "claimed", "batches"}
          <6>1. CASE JobList(j)
            <7>1. PICK q, r : /\ r = [old EXCEPT !.pc = "queue", !.queue = q]
                              /\ run' = [run EXCEPT ![j] = r]
              BY <4>1, <6>1 DEF JobList
            <7>2. r.pc = "queue"
              BY <4>2, <7>1 DEF WorkerStates
            <7>. QED  BY <7>1, <7>2
          <6>2. CASE JobClaim(j)
            BY <4>1, <4>2, <6>2 DEF JobClaim, WorkerStates
          <6>3. CASE DeadLetterBatch(j)
            BY <4>1, <4>2, <6>3 DEF DeadLetterBatch, AfterBatch, WorkerStates
          <6>. QED  BY <4>4, <6>1, <6>2, <6>3
        <5>. QED  BY <3>2, <5>1 DEF RefundPcs
      <4>5. CASE JobDispatch(j)
        BY <2>0, <4>5 DEF JobDispatch
      <4>. QED  BY <3>4, <4>3, <4>4, <4>5 DEF JobStep
    <3>5. ASSUME NEW a \in Admins, NEW e \in DOMAIN entries, AdminRetry(a, e)
          PROVE  FALSE
      <4>1. PICK r : run' = [run EXCEPT ![a] = r] /\ r.pc = "claimed"
        BY <3>5 DEF AdminRetry, Idle
      <4>. QED  BY <3>2, <4>1 DEF Workers, RefundPcs
    <3>6. run' # run
      OBVIOUS
    <3>7. ASSUME NEW e \in DOMAIN entries, Discard(e) \/ BecomeStale(e)
          PROVE  FALSE
      BY <3>6, <3>7 DEF Discard, BecomeStale
    <3>8. ASSUME NEW members \in late, LandLate(members) \/ Expire(members)
          PROVE  FALSE
      BY <3>6, <3>8 DEF LandLate, Expire
    <3>9. ASSUME NEW x \in Members, LinkWallet(x)
          PROVE  FALSE
      BY <3>6, <3>9 DEF LinkWallet
    <3>10. ~UNCHANGED vars
      BY <3>6 DEF vars
    <3>. QED  BY <3>3, <3>4, <3>5, <3>7, <3>8, <3>9, <3>10 DEF Next
  <2>. QED  BY <2>2, <2>3, <2>4
<1>. QED  BY <1>1, IsolatedOnceInvariant, PTL DEF Spec, DiscardHolds
=============================================================================
