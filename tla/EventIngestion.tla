--------------------------- MODULE EventIngestion ---------------------------
(* SorobanEventIngestionService: daemons that page through the contract's  *)
(* events and store them with a checkpoint.  Every server process runs one *)
(* and all share the checkpoint.  Modelled: the fetch by cursor and the    *)
(* fallback by ledger, a checkpoint that fell out of the node's retention, *)
(* a page that ends within a ledger, failing polls, and crashes before the *)
(* commit.                                                                 *)
EXTENDS Naturals, Sequences, FiniteSets

CONSTANTS
    Daemons,      \* server processes
    BatchSize,    \* batchSize
    MaxLedgers,   \* bound: ledgers closed
    MaxEvents,    \* bound: events of the contract
    MaxTroubles,  \* bound: failed polls, crashes and lost cursors
    NoCursor      \* null

ASSUME IngestionAssumption ==
    /\ BatchSize \in Nat \ {0}
    /\ MaxLedgers \in Nat \ {0} /\ MaxEvents \in Nat /\ MaxTroubles \in Nat
    /\ NoCursor \notin [ledger : Nat, event : Nat]

VARIABLES
    ledgerOf,      \* the ledger of each event, in order
    latestLedger,  \* the node's newest ledger
    oldestLedger,  \* the node's oldest ledger
    stored,        \* the events in soroban_contract_events
    checkpoint,    \* the row in indexer_cursors; lastLedger 0 before there is one
    poll,          \* each daemon's pollOnce
    troubles
ingestionVars == <<ledgerOf, latestLedger, oldestLedger, stored, checkpoint, poll, troubles>>

Idle == [at |-> "idle"]
Checkpoint(ledger, cursor) == [lastLedger |-> ledger, cursor |-> cursor]
Cursor(ledger, event) == [ledger |-> ledger, event |-> event]
Cursors == [ledger : 0..MaxLedgers, event : 0..MaxEvents] \cup {NoCursor}
Checkpoints == [lastLedger : 0..MaxLedgers, cursor : Cursors]

\* Types of every variable.
IngestionTypeOK ==
    /\ ledgerOf \in Seq(1..MaxLedgers) /\ Len(ledgerOf) <= MaxEvents
    /\ latestLedger \in 1..MaxLedgers /\ oldestLedger \in 1..MaxLedgers
    /\ stored \subseteq 1..Len(ledgerOf)
    /\ checkpoint \in Checkpoints
    /\ poll \in [Daemons -> {Idle}
                    \cup [at : {"loaded"}, from : Checkpoints]
                    \cup [at : {"fetched"}, page : SUBSET (1..MaxEvents), to : Checkpoints]]
    /\ troubles \in 0..MaxTroubles

IngestionInit ==
    /\ ledgerOf = <<>>
    /\ latestLedger = 1 /\ oldestLedger = 1
    /\ stored = {}
    /\ checkpoint = Checkpoint(0, NoCursor)
    /\ poll = [d \in Daemons |-> Idle]
    /\ troubles = 0

Trouble == troubles < MaxTroubles /\ troubles' = troubles + 1

-----------------------------------------------------------------------------
(* The node (external).                                                    *)

\* A ledger closes with n more events of the contract.
LedgerCloses(n) ==
    /\ latestLedger < MaxLedgers
    /\ Len(ledgerOf) + n <= MaxEvents
    /\ latestLedger' = latestLedger + 1
    /\ ledgerOf' = ledgerOf \o [i \in 1..n |-> latestLedger + 1]
    /\ UNCHANGED <<oldestLedger, stored, checkpoint, poll, troubles>>

NodePrunes ==
    /\ oldestLedger < latestLedger
    /\ oldestLedger' = oldestLedger + 1
    /\ UNCHANGED <<ledgerOf, latestLedger, stored, checkpoint, poll, troubles>>

\* getEvents: up to BatchSize events after the given one.  A page that is
\* not full ends at the newest ledger.
PageAfter(e) == {p \in 1..Len(ledgerOf) : e < p /\ p <= e + BatchSize}
FullPage(page) == Cardinality(page) >= BatchSize
LastOf(page) == CHOOSE p \in page : \A q \in page : q <= p
CursorAfter(page) ==
    IF FullPage(page) THEN Cursor(ledgerOf[LastOf(page)], LastOf(page))
    ELSE Cursor(latestLedger, Len(ledgerOf))
EventsBefore(ledger) == Cardinality({p \in 1..Len(ledgerOf) : ledgerOf[p] < ledger})

-----------------------------------------------------------------------------
(* pollOnce.                                                               *)

LoadCheckpoint(d) ==
    /\ poll[d] = Idle
    /\ poll' = [poll EXCEPT ![d] = [at |-> "loaded", from |-> checkpoint]]
    /\ UNCHANGED <<ledgerOf, latestLedger, oldestLedger, stored, checkpoint, troubles>>

\* Mutant: the ledger a full page ends in counts as read.
LastLedgerWithinPage(from, page) ==
    IF page = {} THEN IF from.lastLedger > latestLedger THEN from.lastLedger ELSE latestLedger
    ELSE ledgerOf[LastOf(page)]

\* A full page may end within a ledger: one ledger back.
LastLedger(from, page) ==
    IF page = {} THEN IF from.lastLedger > latestLedger THEN from.lastLedger ELSE latestLedger
    ELSE IF FullPage(page) THEN ledgerOf[LastOf(page)] - 1
    ELSE ledgerOf[LastOf(page)]

Fetched(d, page) ==
    /\ poll' = [poll EXCEPT ![d] =
                  [at |-> "fetched", page |-> page,
                   to |-> Checkpoint(LastLedger(poll[d].from, page), CursorAfter(page))]]
    /\ UNCHANGED <<ledgerOf, latestLedger, oldestLedger, stored, checkpoint, troubles>>

\* fetchPage with the cursor, which the node serves while it has its ledger.
InRetention(from) ==
    IF from.cursor # NoCursor THEN from.cursor.ledger >= oldestLedger
    ELSE from.lastLedger + 1 >= oldestLedger /\ from.lastLedger + 1 <= latestLedger

FetchPage(d) ==
    /\ poll[d].at = "loaded"
    /\ InRetention(poll[d].from)
    /\ LET from == poll[d].from
       IN  Fetched(d, PageAfter(IF from.cursor # NoCursor THEN from.cursor.event
                                ELSE EventsBefore(from.lastLedger + 1)))

\* Out of retention: the oldest ledger still served, or the next one wanted.
ResumeAtOldest(d) ==
    LET next == poll[d].from.lastLedger + 1
        resumeAt == IF oldestLedger > next THEN oldestLedger ELSE next
    IN  /\ poll[d].at = "loaded"
        /\ ~InRetention(poll[d].from)
        /\ resumeAt <= latestLedger
        /\ Fetched(d, PageAfter(EventsBefore(resumeAt)))

\* The next ledger wanted has not closed yet: the poll fails and comes back.
NothingToResume(d) ==
    /\ poll[d].at = "loaded"
    /\ ~InRetention(poll[d].from)
    /\ poll[d].from.lastLedger + 1 > latestLedger
    /\ poll' = [poll EXCEPT ![d] = Idle]
    /\ UNCHANGED <<ledgerOf, latestLedger, oldestLedger, stored, checkpoint, troubles>>

\* commitBatch: one transaction; events stored already are skipped.
CommitBatch(d) ==
    /\ poll[d].at = "fetched"
    /\ stored' = stored \cup poll[d].page
    /\ checkpoint' = poll[d].to
    /\ poll' = [poll EXCEPT ![d] = Idle]
    /\ UNCHANGED <<ledgerOf, latestLedger, oldestLedger, troubles>>

\* The node or the database fails, the rate limit is hit, or the process
\* dies; the next tick polls again.
PollFails(d) ==
    /\ poll[d] # Idle
    /\ Trouble
    /\ poll' = [poll EXCEPT ![d] = Idle]
    /\ UNCHANGED <<ledgerOf, latestLedger, oldestLedger, stored, checkpoint>>

\* The cursor is lost and only the ledger is left.
CursorLost ==
    /\ checkpoint.cursor # NoCursor
    /\ Trouble
    /\ checkpoint' = [checkpoint EXCEPT !.cursor = NoCursor]
    /\ UNCHANGED <<ledgerOf, latestLedger, oldestLedger, stored, poll>>

PollOnce(d) ==
    \/ LoadCheckpoint(d) \/ FetchPage(d) \/ ResumeAtOldest(d) \/ NothingToResume(d)
    \/ CommitBatch(d)

IngestionNext ==
    \/ \E n \in 0..MaxEvents : LedgerCloses(n)
    \/ NodePrunes \/ CursorLost
    \/ \E d \in Daemons : PollOnce(d) \/ PollFails(d)

\* Each daemon polls on a timer and backs off, at most a minute, after a
\* failure.
IngestionSpec ==
    /\ IngestionInit /\ [][IngestionNext]_ingestionVars
    /\ \A d \in Daemons : WF_ingestionVars(PollOnce(d))

-----------------------------------------------------------------------------
(* Properties.                                                             *)

Log == INSTANCE ContractEventLog
           WITH emitted <- Len(ledgerOf),
                pruned <- EventsBefore(oldestLedger),
                recorded <- stored

\* The daemons keep the promise of ContractEventLog: with any number of
\* them, crashes, lost cursors and stale checkpoints, no event the node still
\* serves is passed over, and none waits for ever.
KeepsEventLog == Log!LogSpec
=============================================================================
