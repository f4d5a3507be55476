---------------------- MODULE SettlementJournalProofs ----------------------
(***************************************************************************)
(* Proofs about the settlement journal, for any number of concurrent       *)
(* executeSettlement requests, signed transactions, corrections of the     *)
(* standings and process deaths.                                           *)
(***************************************************************************)
EXTENDS SettlementJournal, TLAPS

TxStates == {"signed", "sent", "landed", "failed", "expired"}
Transactions == [plan : Nat, state : TxStates]
Pcs == {"idle", "lookup", "prepare", "journal", "send", "poll", "commit", "recover"}

WorkerRecords == [pc : Pcs, plan : Nat, tx : Nat]

JournalTypeOK ==
    /\ status \in {"ACTIVE", "COMPLETED"}
    /\ standings \in Nat
    /\ rows \in Seq(LedgerRows)
    /\ stuck \in Nat
    /\ txs \in Seq(Transactions)
    /\ run \in [Workers -> WorkerRecords]
    /\ journal \in {NoJournal} \cup JournalRows
    /\ observed \in {"none", "SUCCESS", "FAILED", "DROPPED"}
    /\ faults \in Nat

\* The journal row names a signed transaction and the plan it was signed for;
\* it is linked by the commit that completes the league, and the coordinator
\* only holds an answer for a row that exists.
JournalNamesTx ==
    /\ journal # NoJournal =>
          /\ journal.tx \in DOMAIN txs
          /\ txs[journal.tx].plan = journal.plan
          /\ journal.linked => journal.status = "SUCCESS" /\ status = "COMPLETED"
    /\ observed # "none" => journal # NoJournal

\* A worker that is about to journal holds a transaction it signed; one past
\* the journal holds the journaled transaction, and commits it only if it
\* landed.
WorkersFollowJournal ==
    \A w \in Workers :
        /\ run[w].pc = "journal" =>
              /\ run[w].tx \in DOMAIN txs
              /\ txs[run[w].tx].plan = run[w].plan
        /\ run[w].pc \in {"send", "poll", "commit", "recover"} =>
              /\ journal # NoJournal
              /\ run[w].tx = journal.tx /\ run[w].plan = journal.plan
        /\ run[w].pc = "commit" => txs[run[w].tx].state = "landed"

\* Every ledger row is of the journaled plan, which landed; a writer has one
\* row, and the commit writes its row only as it completes the league.
RowsFromJournal ==
    /\ \A i, j \in DOMAIN rows : rows[i].by = rows[j].by => i = j
    /\ \A i \in DOMAIN rows :
          /\ journal # NoJournal
          /\ txs[journal.tx].state = "landed"
          /\ rows[i].tx = journal.tx /\ rows[i].plan = journal.plan
          /\ rows[i].by = "commit" => status = "COMPLETED"

JournalInv ==
    /\ JournalTypeOK
    /\ JournalNamesTx
    /\ WorkersFollowJournal
    /\ OnlyJournaledSent
    /\ RowsFromJournal

-----------------------------------------------------------------------------

\* What updating the fate of one signed transaction does to the list of them.
LEMMA TxUpdate ==
  ASSUME NEW list \in Seq(Transactions), NEW t \in DOMAIN list,
         NEW s \in TxStates, NEW new, new = [list EXCEPT ![t].state = s]
  PROVE  /\ new \in Seq(Transactions)
         /\ DOMAIN new = DOMAIN list
         /\ new[t].plan = list[t].plan /\ new[t].state = s
         /\ \A u \in DOMAIN list \ {t} : new[u] = list[u]
<1>. DEFINE old == list[t]
            upd == [old EXCEPT !.state = s]
<1>1. new = [list EXCEPT ![t] = upd]
  OBVIOUS
<1>2. t \in 1..Len(list)
  OBVIOUS
<1>3. old \in Transactions
  BY <1>2
<1>4. upd \in Transactions /\ upd.plan = old.plan /\ upd.state = s
  <2>. HIDE DEF old
  <2>. QED  BY <1>3 DEF Transactions
<1>. QED
  <2>. HIDE DEF upd
  <2>. QED  BY <1>1, <1>2, <1>4

\* A worker goes on with the transaction and the plan it holds.
LEMMA PcUpdate ==
  ASSUME JournalTypeOK, NEW w \in Workers, NEW pc \in Pcs,
         run' = [run EXCEPT ![w].pc = pc]
  PROVE  /\ run' \in [Workers -> WorkerRecords]
         /\ run'[w].pc = pc /\ run'[w].tx = run[w].tx /\ run'[w].plan = run[w].plan
         /\ \A v \in Workers \ {w} : run'[v] = run[v]
<1>1. PICK old : old = run[w]
  OBVIOUS
<1>2. PICK new : new = [old EXCEPT !.pc = pc]
  OBVIOUS
<1>3. run' = [run EXCEPT ![w] = new] /\ run \in [Workers -> WorkerRecords]
  BY <1>1, <1>2 DEF JournalTypeOK
<1>4. new \in WorkerRecords /\ new.pc = pc /\ new.tx = old.tx /\ new.plan = old.plan
  BY <1>1, <1>2, <1>3 DEF WorkerRecords
<1>. QED  BY <1>1, <1>3, <1>4

\* A row of a writer that has none yet, for the journaled transaction that
\* landed.
LEMMA RowAdded ==
  ASSUME JournalTypeOK, JournalNamesTx, RowsFromJournal,
         NEW by \in {"commit", "settle", "claimed"},
         \A i \in DOMAIN rows : rows[i].by # by,
         journal # NoJournal, txs[journal.tx].state = "landed",
         rows' = Append(rows, [by |-> by, tx |-> journal.tx, plan |-> journal.plan]),
         txs' = txs, journal' # NoJournal,
         journal'.tx = journal.tx, journal'.plan = journal.plan,
         by = "commit" => status' = "COMPLETED",
         status' \in {status, "COMPLETED"}
  PROVE  rows' \in Seq(LedgerRows) /\ RowsFromJournal'
<1>1. PICK new : new = [by |-> by, tx |-> journal.tx, plan |-> journal.plan]
  OBVIOUS
<1>2. /\ new \in LedgerRows
      /\ new.by = by /\ new.tx = journal.tx /\ new.plan = journal.plan
  BY <1>1 DEF LedgerRows, JournalTypeOK, JournalRows
<1>3. rows \in Seq(LedgerRows) /\ rows' = Append(rows, new)
  BY <1>1 DEF JournalTypeOK
<1>4. /\ rows' \in Seq(LedgerRows)
      /\ DOMAIN rows = 1..Len(rows) /\ Len(rows) \in Nat
      /\ DOMAIN rows' = 1..(Len(rows) + 1)
      /\ \A i \in 1..Len(rows) : rows'[i] = rows[i]
      /\ rows'[Len(rows) + 1] = new
  BY <1>2, <1>3
<1>5. \A i, j \in DOMAIN rows' : rows'[i].by = rows'[j].by => i = j
  <2>. SUFFICES ASSUME NEW i \in DOMAIN rows', NEW j \in DOMAIN rows',
                       rows'[i].by = rows'[j].by
                PROVE  i = j
    OBVIOUS
  <2>1. i \in 1..Len(rows) \/ i = Len(rows) + 1
    BY <1>4
  <2>2. j \in 1..Len(rows) \/ j = Len(rows) + 1
    BY <1>4
  <2>. QED  BY <1>2, <1>4, <2>1, <2>2 DEF RowsFromJournal
<1>6. ASSUME NEW i \in DOMAIN rows'
      PROVE  /\ rows'[i].tx = journal.tx /\ rows'[i].plan = journal.plan
             /\ rows'[i].by = "commit" => status' = "COMPLETED"
  <2>1. i \in 1..Len(rows) \/ i = Len(rows) + 1
    BY <1>4
  <2>. QED  BY <1>2, <1>4, <2>1 DEF RowsFromJournal
<1>. QED  BY <1>4, <1>5, <1>6 DEF RowsFromJournal

\* A step that leaves the journal, the rows, the league and the transactions
\* alone keeps the invariant when it keeps what is said of the workers.
LEMMA LocalStep ==
  ASSUME JournalInv, JournalTypeOK', WorkersFollowJournal', observed' = observed,
         UNCHANGED <<status, journal, rows, txs>>
  PROVE  JournalInv'
BY DEF JournalInv, JournalNamesTx, OnlyJournaledSent, RowsFromJournal

\* A worker that gives up is idle again and holds nothing.
LEMMA IdleStep ==
  ASSUME JournalInv, NEW w \in Workers, run' = [run EXCEPT ![w] = Idle],
         UNCHANGED <<backend, txs, observed>>, faults' \in Nat
  PROVE  JournalInv'
<1>. USE DEF JournalInv, Idle, backend
<1>1. JournalTypeOK'
  BY DEF JournalTypeOK, Pcs, WorkerRecords
<1>2. WorkersFollowJournal'
  BY DEF WorkersFollowJournal, JournalTypeOK
<1>. QED  BY <1>1, <1>2, LocalStep

\* executeSettlement up to the journal: checking, looking the journal up and
\* signing.
LEMMA BeforeJournalStep ==
  ASSUME JournalInv, NEW c \in Callers, CheckLeague(c) \/ Lookup(c) \/ Prepare(c)
  PROVE  JournalInv'
<1>. c \in Workers
  BY DEF Workers
<1>1. CASE CheckLeague(c)
  <2>. USE <1>1 DEF CheckLeague, JournalInv, JournalTypeOK, backend
  <2>0. /\ run' \in [Workers -> WorkerRecords] /\ run'[c].pc = "lookup"
        /\ \A v \in Workers \ {c} : run'[v] = run[v]
    BY PcUpdate DEF Pcs
  <2>1. JournalTypeOK'
    BY <2>0
  <2>2. WorkersFollowJournal'
    BY <2>0 DEF WorkersFollowJournal
  <2>. QED  BY <2>1, <2>2, LocalStep
<1>2. CASE Lookup(c)
  <2>. USE <1>2 DEF Lookup, JournalInv, JournalTypeOK, backend
  <2>0. PICK new \in WorkerRecords :
           /\ run' = [run EXCEPT ![c] = new]
           /\ \/ new.pc = "prepare"
              \/ /\ journal # NoJournal /\ new.pc = "recover"
                 /\ new.tx = journal.tx /\ new.plan = journal.plan
    <3>1. CASE journal = NoJournal
      <4>1. PICK old : old = run[c]
        OBVIOUS
      <4>2. run' = [run EXCEPT ![c] = [old EXCEPT !.pc = "prepare"]]
        BY <3>1, <4>1
      <4>3. /\ [old EXCEPT !.pc = "prepare"] \in WorkerRecords
            /\ [old EXCEPT !.pc = "prepare"].pc = "prepare"
        BY <4>1 DEF WorkerRecords, Pcs
      <4>. QED  BY <4>2, <4>3
    <3>2. CASE journal # NoJournal
      <4>1. PICK new : new = [pc |-> "recover", plan |-> journal.plan, tx |-> journal.tx]
        OBVIOUS
      <4>2. new \in WorkerRecords /\ new.pc = "recover" /\ new.tx = journal.tx
            /\ new.plan = journal.plan
        BY <3>2, <4>1 DEF WorkerRecords, Pcs, JournalRows
      <4>. QED  BY <3>2, <4>1, <4>2
    <3>. QED  BY <3>1, <3>2
  <2>1. JournalTypeOK'
    BY <2>0
  <2>2. WorkersFollowJournal'
    BY <2>0 DEF WorkersFollowJournal
  <2>. QED  BY <2>1, <2>2, LocalStep
<1>3. CASE Prepare(c)
  <2>. USE <1>3 DEF Prepare, JournalInv, JournalTypeOK, backend
  <2>. DEFINE new == [plan |-> standings, state |-> "signed"]
  <2>1. new \in Transactions
    BY DEF Transactions, TxStates
  <2>2. /\ DOMAIN txs' = DOMAIN txs \cup {Len(txs) + 1}
        /\ DOMAIN txs = 1..Len(txs)
        /\ \A t \in DOMAIN txs : txs'[t] = txs[t]
        /\ txs'[Len(txs) + 1] = new
        /\ txs' \in Seq(Transactions)
    BY <2>1
  <2>3. JournalTypeOK'
    BY <2>2 DEF Pcs, WorkerRecords
  <2>4. JournalNamesTx'
    BY <2>2 DEF JournalNamesTx
  <2>5. WorkersFollowJournal'
    BY <2>2 DEF WorkersFollowJournal, JournalNamesTx
  <2>6. OnlyJournaledSent'
    BY <2>2 DEF OnlyJournaledSent
  <2>7. RowsFromJournal'
    BY <2>2 DEF RowsFromJournal, JournalNamesTx
  <2>. QED  BY <2>3, <2>4, <2>5, <2>6, <2>7
<1>. QED  BY <1>1, <1>2, <1>3

\* beforeSubmit: as long as there is no journal nothing was ever sent.
LEMMA JournalStep ==
  ASSUME JournalInv, NEW c \in Callers, Journal(c)
  PROVE  JournalInv'
<1>. c \in Workers
  BY DEF Workers
<1>. USE DEF JournalInv, JournalTypeOK, Journal
<1>1. CASE journal # NoJournal
  BY <1>1, IdleStep DEF backend
<1>2. CASE journal = NoJournal
  <2>. USE <1>2, SettlementAssumption
  <2>0. run[c].tx \in Nat /\ run[c].plan \in Nat
    <3>1. run[c] \in WorkerRecords
      OBVIOUS
    <3>. QED  BY ONLY <3>1 DEF WorkerRecords
  <2>1. journal' \in JournalRows /\ journal' # NoJournal
    <3>1. journal' = [tx |-> run[c].tx, plan |-> run[c].plan, status |-> "PENDING",
                      linked |-> FALSE]
      OBVIOUS
    <3>2. journal' \in JournalRows
      BY ONLY <2>0, <3>1 DEF JournalRows
    <3>. QED  BY <3>2
  <2>2. /\ run' \in [Workers -> WorkerRecords]
        /\ run'[c].pc = "send" /\ run'[c].tx = run[c].tx /\ run'[c].plan = run[c].plan
        /\ \A v \in Workers \ {c} : run'[v] = run[v]
    BY PcUpdate DEF Pcs
  <2>7. JournalTypeOK'
    BY <2>1, <2>2
  <2>3. JournalNamesTx'
    BY <2>1 DEF JournalNamesTx, WorkersFollowJournal
  <2>4. WorkersFollowJournal'
    BY <2>1, <2>2 DEF WorkersFollowJournal
  <2>5. OnlyJournaledSent'
    BY DEF OnlyJournaledSent
  <2>6. RowsFromJournal'
    BY DEF RowsFromJournal
  <2>. QED  BY <2>7, <2>3, <2>4, <2>5, <2>6
<1>. QED  BY <1>1, <1>2

\* The submission touches the journaled transaction only.
LEMMA SendStep ==
  ASSUME JournalInv, NEW w \in Workers, Send(w)
  PROVE  JournalInv'
<1>. USE DEF JournalInv, Send, backend
<1>1. CASE txs[run[w].tx].state \in {"expired", "failed"}
  BY <1>1, IdleStep DEF JournalTypeOK
<1>2. CASE txs[run[w].tx].state \notin {"expired", "failed"}
  <2>. USE DEF JournalTypeOK
  <2>1. /\ journal # NoJournal
        /\ run[w].tx = journal.tx /\ journal.tx \in DOMAIN txs
    BY DEF WorkersFollowJournal, JournalNamesTx
  <2>2. /\ txs' \in Seq(Transactions)
        /\ DOMAIN txs' = DOMAIN txs
        /\ \A t \in DOMAIN txs : txs'[t].plan = txs[t].plan
        /\ \A t \in DOMAIN txs : txs[t].state = "landed" => txs'[t].state = "landed"
        /\ \A t \in DOMAIN txs : t # journal.tx => txs'[t] = txs[t]
    <3>. DEFINE old == txs[journal.tx].state
                s == IF old = "signed" THEN "sent" ELSE old
    <3>1. txs' = [txs EXCEPT ![journal.tx].state = s]
      BY <1>2, <2>1
    <3>2. old \in TxStates /\ s \in TxStates /\ (old = "landed" => s = "landed")
      <4>1. txs[journal.tx] \in Transactions
        BY <2>1
      <4>. QED  BY <4>1 DEF Transactions, TxStates
    <3>3. txs \in Seq(Transactions)
      OBVIOUS
    <3>. HIDE DEF s
    <3>4. /\ txs' \in Seq(Transactions)
          /\ DOMAIN txs' = DOMAIN txs
          /\ txs'[journal.tx].plan = txs[journal.tx].plan /\ txs'[journal.tx].state = s
          /\ \A u \in DOMAIN txs \ {journal.tx} : txs'[u] = txs[u]
      BY ONLY <2>1, <3>1, <3>2, <3>3, TxUpdate
    <3>. QED  BY ONLY <3>2, <3>4
  <2>8. /\ run' \in [Workers -> WorkerRecords]
        /\ run'[w].pc = "poll" /\ run'[w].tx = run[w].tx /\ run'[w].plan = run[w].plan
        /\ \A v \in Workers \ {w} : run'[v] = run[v]
    BY <1>2, PcUpdate DEF Pcs
  <2>3. JournalTypeOK'
    BY <2>2, <2>8
  <2>4. JournalNamesTx'
    BY <2>1, <2>2 DEF JournalNamesTx
  <2>5. WorkersFollowJournal'
    <3>2. \A v \in Workers : run[v].pc = "commit" => run[v].tx \in DOMAIN txs
      BY <2>1 DEF WorkersFollowJournal
    <3>. SUFFICES ASSUME NEW v \in Workers
                  PROVE  /\ run'[v].pc = "journal" =>
                               /\ run'[v].tx \in DOMAIN txs
                               /\ txs[run'[v].tx].plan = run'[v].plan
                         /\ run'[v].pc \in {"send", "poll", "commit", "recover"} =>
                               run'[v].tx = journal.tx /\ run'[v].plan = journal.plan
                         /\ run'[v].pc = "commit" =>
                               run'[v].tx \in DOMAIN txs /\ txs[run'[v].tx].state = "landed"
      BY <2>1, <2>2 DEF WorkersFollowJournal
    <3>3. CASE v = w
      BY <2>1, <2>8, <3>3 DEF WorkersFollowJournal
    <3>4. CASE v # w
      BY <2>1, <2>8, <3>2, <3>4 DEF WorkersFollowJournal
    <3>. QED  BY <3>3, <3>4
  <2>6. OnlyJournaledSent'
    BY <2>1, <2>2 DEF OnlyJournaledSent
  <2>7. RowsFromJournal'
    BY <2>1, <2>2 DEF RowsFromJournal
  <2>. QED  BY <2>3, <2>4, <2>5, <2>6, <2>7
<1>. QED  BY <1>1, <1>2

\* The commit claims the league: rows are written only where there are none,
\* by a worker that holds the journaled transaction and saw it landed.
LEMMA CommitStep ==
  ASSUME JournalInv, NEW w \in Workers, CommitSettlement(w)
  PROVE  JournalInv'
<1>. USE DEF JournalInv, CommitSettlement
<1>1. CASE status = "COMPLETED"
  BY <1>1, IdleStep DEF backend, JournalTypeOK
<1>2. CASE status # "COMPLETED"
  <2>. USE <1>2 DEF JournalTypeOK
  <2>1. /\ journal # NoJournal /\ journal \in JournalRows
        /\ run[w].tx = journal.tx /\ run[w].plan = journal.plan
        /\ journal.tx \in DOMAIN txs
        /\ txs[journal.tx].state = "landed" /\ txs[journal.tx].plan = journal.plan
    BY DEF WorkersFollowJournal, JournalNamesTx
  <2>2. /\ journal' \in JournalRows /\ journal' # NoJournal
        /\ journal'.tx = journal.tx /\ journal'.plan = journal.plan
        /\ journal'.status = "SUCCESS"
    <3>1. journal' = [journal EXCEPT !.status = "SUCCESS", !.linked = TRUE]
      OBVIOUS
    <3>2. /\ journal' \in JournalRows
          /\ journal'.tx = journal.tx /\ journal'.plan = journal.plan
          /\ journal'.status = "SUCCESS"
      BY <2>1, <3>1 DEF JournalRows
    <3>. QED  BY <3>2, SettlementAssumption
  <2>3. \A i \in DOMAIN rows : rows[i].by # "commit"
    BY DEF RowsFromJournal
  <2>4. rows' \in Seq(LedgerRows) /\ RowsFromJournal'
    <3>1. /\ rows' = Append(rows, [by |-> "commit", tx |-> journal.tx, plan |-> journal.plan])
          /\ status' = "COMPLETED" /\ txs' = txs
      BY <2>1
    <3>2. JournalTypeOK /\ JournalNamesTx /\ RowsFromJournal
      OBVIOUS
    <3>. QED  BY ONLY <2>1, <2>2, <2>3, <3>1, <3>2, RowAdded
  <2>5. JournalTypeOK'
    BY <2>2, <2>4 DEF Pcs, Idle, WorkerRecords
  <2>6. JournalNamesTx'
    BY <2>1, <2>2 DEF JournalNamesTx
  <2>7. WorkersFollowJournal'
    BY <2>1, <2>2 DEF WorkersFollowJournal, Idle
  <2>8. OnlyJournaledSent'
    BY <2>1, <2>2 DEF OnlyJournaledSent
  <2>. QED  BY <2>4, <2>5, <2>6, <2>7, <2>8
<1>. QED  BY <1>1, <1>2

\* The poll and the recovery move a worker that holds the journaled
\* transaction, to the commit only after it landed.
LEMMA PollStep ==
  ASSUME JournalInv, NEW w \in Workers, PollLanded(w) \/ Recover(w)
  PROVE  JournalInv'
<1>. USE DEF JournalInv, JournalTypeOK, backend
<1>1. CASE PollLanded(w)
  <2>. USE <1>1 DEF PollLanded
  <2>0. /\ run' \in [Workers -> WorkerRecords]
        /\ run'[w].pc = "commit" /\ run'[w].tx = run[w].tx /\ run'[w].plan = run[w].plan
        /\ \A v \in Workers \ {w} : run'[v] = run[v]
    BY PcUpdate DEF Pcs
  <2>1. JournalTypeOK'
    BY <2>0
  <2>2. WorkersFollowJournal'
    BY <2>0 DEF WorkersFollowJournal
  <2>. QED  BY <2>1, <2>2, LocalStep
<1>2. CASE Recover(w)
  <2>. USE <1>2 DEF Recover
  <2>1. CASE txs[run[w].tx].state = "failed"
    BY <2>1, IdleStep
  <2>2. CASE txs[run[w].tx].state = "landed"
    <3>1. run' = [run EXCEPT ![w].pc = "commit"]
      BY <2>2
    <3>2. /\ run' \in [Workers -> WorkerRecords]
          /\ run'[w].pc = "commit" /\ run'[w].tx = run[w].tx /\ run'[w].plan = run[w].plan
          /\ \A v \in Workers \ {w} : run'[v] = run[v]
      BY <3>1, PcUpdate DEF Pcs
    <3>3. JournalTypeOK'
      BY <3>2
    <3>4. WorkersFollowJournal'
      BY <2>2, <3>2 DEF WorkersFollowJournal
    <3>. QED  BY <3>3, <3>4, LocalStep
  <2>3. CASE txs[run[w].tx].state \notin {"landed", "failed"}
    <3>1. run' = [run EXCEPT ![w].pc = "send"]
      BY <2>3
    <3>2. /\ run' \in [Workers -> WorkerRecords]
          /\ run'[w].pc = "send" /\ run'[w].tx = run[w].tx /\ run'[w].plan = run[w].plan
          /\ \A v \in Workers \ {w} : run'[v] = run[v]
      BY <3>1, PcUpdate DEF Pcs
    <3>3. JournalTypeOK'
      BY <3>2
    <3>4. WorkersFollowJournal'
      BY <3>2 DEF WorkersFollowJournal
    <3>. QED  BY <3>3, <3>4, LocalStep
  <2>. QED  BY <2>1, <2>2, <2>3
<1>. QED  BY <1>1, <1>2

\* The recovery job takes over exactly what the journal holds.
LEMMA RecoveryScanStep ==
  ASSUME JournalInv, RecoveryScan
  PROVE  JournalInv'
<1>. Recovery \in Workers
  BY DEF Workers
<1>. USE DEF JournalInv, JournalTypeOK, backend, RecoveryScan
<1>0. PICK new \in WorkerRecords :
         /\ run' = [run EXCEPT ![Recovery] = new] /\ new.pc = "recover"
         /\ new.tx = journal.tx /\ new.plan = journal.plan
  <2>1. PICK new : new = [pc |-> "recover", plan |-> journal.plan, tx |-> journal.tx]
    OBVIOUS
  <2>2. /\ new \in WorkerRecords /\ new.pc = "recover"
        /\ new.tx = journal.tx /\ new.plan = journal.plan
    BY <2>1 DEF WorkerRecords, Pcs, JournalRows
  <2>. QED  BY <2>1, <2>2
<1>1. JournalTypeOK'
  BY <1>0
<1>2. WorkersFollowJournal'
  BY <1>0 DEF WorkersFollowJournal
<1>. QED  BY <1>1, <1>2, LocalStep

\* The coordinator only ever changes the status of a row that is not linked.
LEMMA CoordinatorInvStep ==
  ASSUME JournalInv, CoordinatorStep
  PROVE  JournalInv'
<1>. USE DEF JournalInv, JournalTypeOK, CoordinatorStep
<1>1. CASE CoordinatorPoll
  <2>. USE <1>1 DEF CoordinatorPoll, backend
  <2>1. observed' \in {"none", "SUCCESS", "FAILED", "DROPPED"}
    OBVIOUS
  <2>2. JournalTypeOK'
    BY <2>1
  <2>3. JournalNamesTx' /\ WorkersFollowJournal' /\ OnlyJournaledSent' /\ RowsFromJournal'
    BY DEF JournalNamesTx, WorkersFollowJournal, OnlyJournaledSent, RowsFromJournal
  <2>. QED  BY <2>2, <2>3
<1>2. CASE CoordinatorFinalize
  <2>. USE <1>2 DEF CoordinatorFinalize
  <2>1. /\ journal # NoJournal /\ journal \in JournalRows
        /\ journal' \in JournalRows /\ journal' # NoJournal
        /\ journal'.tx = journal.tx /\ journal'.plan = journal.plan
        /\ journal'.linked = journal.linked
        /\ journal.status # "PENDING" => journal' = journal
    BY SettlementAssumption DEF JournalNamesTx, JournalRows
  <2>2. JournalTypeOK'
    BY <2>1
  <2>3. JournalNamesTx'
    BY <2>1 DEF JournalNamesTx
  <2>4. WorkersFollowJournal' /\ OnlyJournaledSent' /\ RowsFromJournal'
    BY <2>1 DEF WorkersFollowJournal, OnlyJournaledSent, RowsFromJournal
  <2>. QED  BY <2>2, <2>3, <2>4
<1>. QED  BY <1>1, <1>2

\* The network includes a transaction that was sent, hence the journaled one,
\* and expires one that did not land.
LEMMA NetworkStep ==
  ASSUME JournalInv, NEW t \in DOMAIN txs, Include(t) \/ Expire(t)
  PROVE  JournalInv'
<1>. USE DEF JournalInv, JournalTypeOK, Include, Expire, backend
<1>1. /\ txs' \in Seq(Transactions)
      /\ DOMAIN txs' = DOMAIN txs
      /\ \A u \in DOMAIN txs : txs'[u].plan = txs[u].plan
      /\ \A u \in DOMAIN txs : txs[u].state = "landed" => txs'[u].state = "landed"
      /\ \A u \in DOMAIN txs :
            txs'[u].state \in {"sent", "landed", "failed"} =>
                txs[u].state \in {"sent", "landed", "failed"}
  <2>1. PICK s \in TxStates :
           /\ txs' = [txs EXCEPT ![t].state = s]
           /\ txs[t].state # "landed"
           /\ s = "expired" \/ txs[t].state = "sent"
           /\ s # "sent"
    BY DEF TxStates
  <2>2. /\ txs' \in Seq(Transactions)
        /\ DOMAIN txs' = DOMAIN txs
        /\ txs'[t].plan = txs[t].plan /\ txs'[t].state = s
        /\ \A u \in DOMAIN txs \ {t} : txs'[u] = txs[u]
    <3>1. txs \in Seq(Transactions) /\ t \in DOMAIN txs
      OBVIOUS
    <3>2. s \in TxStates /\ txs' = [txs EXCEPT ![t].state = s]
      BY ONLY <2>1
    <3>. QED  BY ONLY <3>1, <3>2, TxUpdate
  <2>. QED  BY <2>1, <2>2
<1>2. JournalTypeOK'
  BY <1>1
<1>3. JournalNamesTx'
  BY <1>1 DEF JournalNamesTx
<1>4. WorkersFollowJournal'
  <2>1. \A w \in Workers : run[w].pc = "commit" => run[w].tx \in DOMAIN txs
    BY DEF WorkersFollowJournal, JournalNamesTx
  <2>2. UNCHANGED <<run, journal>>
    OBVIOUS
  <2>. QED  BY ONLY WorkersFollowJournal, <1>1, <2>1, <2>2 DEF WorkersFollowJournal
<1>5. OnlyJournaledSent'
  BY <1>1 DEF OnlyJournaledSent
<1>6. RowsFromJournal'
  BY <1>1 DEF RowsFromJournal, JournalNamesTx
<1>. QED  BY <1>2, <1>3, <1>4, <1>5, <1>6

\* The indexer's rows are of a transaction that landed, hence of the
\* journaled one, and there is one of each kind.
LEMMA IndexerStep ==
  ASSUME JournalInv, NEW t \in DOMAIN txs, IndexerSettles(t) \/ IndexerClaims(t)
  PROVE  JournalInv'
<1>. USE DEF JournalInv, JournalTypeOK
<1>1. PICK by \in {"settle", "claimed"} : Upsert(by, t)
  BY DEF IndexerSettles, IndexerClaims
<1>2. /\ txs[t].state = "landed"
      /\ status' \in {status, "COMPLETED"}
      /\ UNCHANGED <<standings, journal, stuck, txs, run, observed, faults>>
  BY DEF IndexerSettles, IndexerClaims
<1>3. /\ journal # NoJournal /\ journal.tx = t /\ txs[t].plan = journal.plan
  BY <1>2 DEF OnlyJournaledSent, JournalNamesTx
<1>4. rows' \in Seq(LedgerRows) /\ RowsFromJournal'
  <2>1. CASE Written(by, t)
    BY <1>1, <1>2, <2>1 DEF Upsert, RowsFromJournal
  <2>2. CASE ~Written(by, t)
    <3>1. rows' = Append(rows, [by |-> by, tx |-> journal.tx, plan |-> journal.plan])
      BY <1>1, <1>3, <2>2 DEF Upsert
    <3>2. \A i \in DOMAIN rows : rows[i].by # by
      BY <1>3, <2>2 DEF Written, RowsFromJournal
    <3>3. by \in {"commit", "settle", "claimed"} /\ by # "commit"
      OBVIOUS
    <3>4. JournalTypeOK /\ JournalNamesTx /\ RowsFromJournal
      OBVIOUS
    <3>. QED  BY ONLY <1>2, <1>3, <3>1, <3>2, <3>3, <3>4, RowAdded
  <2>. QED  BY <2>1, <2>2
<1>5. JournalTypeOK'
  BY <1>2, <1>4
<1>6. JournalNamesTx'
  BY <1>2 DEF JournalNamesTx
<1>7. WorkersFollowJournal' /\ OnlyJournaledSent'
  BY <1>2 DEF WorkersFollowJournal, OnlyJournaledSent
<1>. QED  BY <1>4, <1>5, <1>6, <1>7

\* Each step preserves the invariant.
LEMMA JournalInvStep ==
  ASSUME JournalInv, [Next]_vars
  PROVE  JournalInv'
<1>1. ASSUME NEW w \in Workers, WorkerStep(w)
      PROVE  JournalInv'
  <2>1. CASE SendLost(w) \/ PollEnds(w)
    BY <2>1, IdleStep DEF SendLost, PollEnds, JournalInv, JournalTypeOK
  <2>. QED  BY <1>1, <2>1, SendStep, CommitStep, PollStep DEF WorkerStep
<1>2. ASSUME NEW w \in Workers, Fault(w)
      PROVE  JournalInv'
  <2>1. faults' \in Nat
    BY <1>2 DEF Fault, JournalInv, JournalTypeOK
  <2>. QED  BY <1>2, <2>1, IdleStep DEF Fault
<1>3. ASSUME NEW c \in Callers, CallerStep(c)
      PROVE  JournalInv'
  BY <1>3, BeforeJournalStep, JournalStep DEF CallerStep
<1>4. CASE SyncGameweek \/ CompleteLeague \/ FinishGameweek \/ AdjustStandings
            \/ OtherAttemptSticks
  <2>. USE <1>4 DEF SyncGameweek, CompleteLeague, FinishGameweek, AdjustStandings,
                    OtherAttemptSticks, JournalInv
  <2>1. JournalTypeOK'
    BY DEF JournalTypeOK
  <2>2. JournalNamesTx' /\ RowsFromJournal'
    BY DEF JournalNamesTx, RowsFromJournal
  <2>3. WorkersFollowJournal' /\ OnlyJournaledSent'
    BY DEF WorkersFollowJournal, OnlyJournaledSent
  <2>. QED  BY <2>1, <2>2, <2>3
<1>5. CASE UNCHANGED vars
  BY <1>5 DEF vars, backend, JournalInv, JournalTypeOK, JournalNamesTx,
              WorkersFollowJournal, OnlyJournaledSent, RowsFromJournal
<1>. QED
  BY <1>1, <1>2, <1>3, <1>4, <1>5, RecoveryScanStep, CoordinatorInvStep, NetworkStep,
     IndexerStep DEF Next

\* Every state the settlement can reach satisfies JournalInv, whatever the
\* number of callers racing executeSettlement.
THEOREM JournalInvariant == Spec => []JournalInv
<1>1. Init => JournalInv
  BY SettlementAssumption
     DEF Init, Idle, JournalInv, JournalTypeOK, JournalNamesTx, WorkersFollowJournal,
         OnlyJournaledSent, RowsFromJournal, Pcs, WorkerRecords
<1>2. JournalInv /\ [Next]_vars => JournalInv'
  BY JournalInvStep
<1>. QED  BY <1>1, <1>2, PTL DEF Spec

\* executeSettlement never puts a second signed payout in flight: what
\* reaches the network is the transaction the journal names.
THEOREM OnlyJournaledSentHolds == Spec => []OnlyJournaledSent
<1>1. JournalInv => OnlyJournaledSent
  BY DEF JournalInv
<1>. QED  BY <1>1, JournalInvariant, PTL

\* Every payout and fee row is the plan of the transaction that landed, and
\* neither commitSettlement nor the indexer's settle and claimed cases write
\* theirs twice.
THEOREM RowsMatchChainHolds == Spec => []RowsMatchChain
<1>1. JournalInv => RowsMatchChain
  BY DEF JournalInv, RowsMatchChain, RowsFromJournal, JournalNamesTx
<1>. QED  BY <1>1, JournalInvariant, PTL

\* The settlement journal keeps its hash and its plan for good, and an
\* attempt that was linked to the ledger is never reopened.
THEOREM JournalIsDurableHolds == Spec => JournalIsDurable
<1>. DEFINE Durable == journal # NoJournal =>
                          /\ journal' # NoJournal
                          /\ journal'.tx = journal.tx /\ journal'.plan = journal.plan
                          /\ journal.linked => journal' = journal
<1>1. JournalInv /\ [Next]_vars => Durable
  <2>. SUFFICES ASSUME JournalInv, [Next]_vars, journal # NoJournal, journal' # journal
                PROVE  /\ journal' # NoJournal
                       /\ journal'.tx = journal.tx /\ journal'.plan = journal.plan
                       /\ ~journal.linked
    OBVIOUS
  <2>1. journal \in JournalRows
    BY DEF JournalInv, JournalTypeOK
  <2>2. \/ CoordinatorFinalize
        \/ \E w \in Workers : CommitSettlement(w)
    BY DEF Next, vars, backend, WorkerStep, CallerStep, CoordinatorStep, Send, SendLost,
           PollLanded, PollEnds, Recover, Fault, CheckLeague, Lookup, Prepare, Journal,
           RecoveryScan, CoordinatorPoll, Include, Expire, SyncGameweek, CompleteLeague,
           FinishGameweek, AdjustStandings, OtherAttemptSticks, IndexerSettles, IndexerClaims
  <2>3. CASE CoordinatorFinalize
    BY <2>1, <2>3, SettlementAssumption
       DEF CoordinatorFinalize, JournalInv, JournalTypeOK, JournalNamesTx, JournalRows
  <2>4. ASSUME NEW w \in Workers, CommitSettlement(w)
        PROVE  /\ journal' # NoJournal
               /\ journal'.tx = journal.tx /\ journal'.plan = journal.plan
               /\ ~journal.linked
    <3>1. /\ journal' = [journal EXCEPT !.status = "SUCCESS", !.linked = TRUE]
          /\ status # "COMPLETED"
      BY <2>4 DEF CommitSettlement
    <3>2. ~journal.linked
      BY <3>1 DEF JournalInv, JournalNamesTx
    <3>3. /\ journal' \in JournalRows
          /\ journal'.tx = journal.tx /\ journal'.plan = journal.plan
      BY ONLY <2>1, <3>1 DEF JournalRows
    <3>. QED  BY <3>2, <3>3, SettlementAssumption
  <2>. QED  BY <2>2, <2>3, <2>4
<1>. QED  BY <1>1, JournalInvariant, PTL DEF Spec, JournalIsDurable
=============================================================================
