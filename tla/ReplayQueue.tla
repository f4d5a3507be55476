----------------------------- MODULE ReplayQueue -----------------------------
(* SorobanTransactionReplayQueue: signed envelopes of one source account   *)
(* are persisted before they are sent, and every API process polls the due *)
(* ones under a lease until the network decided.  An envelope that expired *)
(* with its sequence number unused is DROPPED, so that a new one may be    *)
(* signed.  Modelled: crashes, failing RPC calls, a lease that ends while  *)
(* its holder still works, other transactions of the account, and the      *)
(* node's retention, after which a landed hash is NOT_FOUND again.         *)
EXTENDS Naturals, FiniteSets

CONSTANTS
    Workers,       \* API processes
    Envelopes,     \* signed transactions of the source account
    SequenceOf,    \* the sequence number of each
    MaxSequence,   \* bound: transactions of the account
    MaxPolls,      \* maxPollAttempts
    MaxOutages,    \* bound: crashes and failed RPC calls
    NoEnvelope

ASSUME ReplayAssumption ==
    /\ SequenceOf \in [Envelopes -> Nat \ {0}]
    /\ MaxSequence \in Nat /\ MaxPolls \in Nat \ {0} /\ MaxOutages \in Nat
    /\ NoEnvelope \notin Envelopes

VARIABLES
    sequence,   \* sequence number of the account
    fate,       \* outcome of each envelope on the ledger
    mempool,    \* envelopes the network may still include
    expired,    \* envelopes whose maxTime the latest ledger is past
    forgotten   \* landed envelopes the node no longer knows
networkVars == <<sequence, fate, mempool, expired, forgotten>>

VARIABLES
    status,     \* the row of each envelope, NONE before it is persisted
    leased,     \* rows with an unexpired lease
    due,        \* rows whose nextAttemptAt is past
    refused,    \* envelopes whose enqueue failed on the unique sequence
    worker,     \* what each process is doing
    outages
queueVars == <<status, leased, due, refused, worker, outages>>
replayVars == <<networkVars, queueVars>>

Terminal == {"SUCCESS", "FAILED", "DROPPED"}
Open == {"PENDING_VERIFICATION", "SUBMITTED"}
Resting == [at |-> "idle", envelope |-> NoEnvelope, polls |-> 0, note |-> "none"]

WorkerStates ==
    [at : {"idle", "claim submit", "claim due", "broadcast", "poll", "account", "send",
           "record", "release"},
     envelope : Envelopes \cup {NoEnvelope}, polls : 0..(MaxPolls + 1),
     note : {"none", "in time", "too late"} \cup Open \cup Terminal]

\* Types of every variable.
ReplayTypeOK ==
    /\ sequence \in Nat
    /\ fate \in [Envelopes -> {"open", "SUCCESS", "FAILED"}]
    /\ mempool \subseteq Envelopes /\ expired \subseteq Envelopes
    /\ forgotten \subseteq Envelopes
    /\ status \in [Envelopes -> {"NONE"} \cup Open \cup Terminal]
    /\ leased \subseteq Envelopes /\ due \subseteq Envelopes /\ refused \subseteq Envelopes
    /\ worker \in [Workers -> WorkerStates]
    /\ outages \in 0..MaxOutages

ReplayInit ==
    /\ sequence = 0
    /\ fate = [e \in Envelopes |-> "open"]
    /\ mempool = {} /\ expired = {} /\ forgotten = {}
    /\ status = [e \in Envelopes |-> "NONE"]
    /\ leased = {} /\ due = {} /\ refused = {}
    /\ worker = [w \in Workers |-> Resting]
    /\ outages = 0

-----------------------------------------------------------------------------
(* The network (external).                                                 *)

IsNext(e) == e \notin expired /\ SequenceOf[e] = sequence + 1

\* A ledger includes an envelope; a failed one uses its sequence number too.
Include(e, outcome) ==
    /\ e \in mempool /\ IsNext(e)
    /\ fate' = [fate EXCEPT ![e] = outcome]
    /\ sequence' = sequence + 1
    /\ mempool' = mempool \ {e}
    /\ UNCHANGED <<expired, forgotten, queueVars>>

\* The account sends something else, past the queue.
OtherTransaction ==
    /\ sequence < MaxSequence
    /\ sequence' = sequence + 1
    /\ UNCHANGED <<fate, mempool, expired, forgotten, queueVars>>

TimeBoundPasses(e) ==
    /\ e \notin expired /\ status[e] # "NONE"
    /\ expired' = expired \cup {e}
    /\ mempool' = mempool \ {e}
    /\ UNCHANGED <<sequence, fate, forgotten, queueVars>>

\* The hash leaves the node's retention, long after its time bound.
NodeForgets(e) ==
    /\ fate[e] # "open" /\ e \in expired /\ e \notin forgotten
    /\ forgotten' = forgotten \cup {e}
    /\ UNCHANGED <<sequence, fate, mempool, expired, queueVars>>

-----------------------------------------------------------------------------
(* The queue.                                                              *)

Doing(w, e) == worker[w].envelope = e
Goto(w, step, note) == worker' = [worker EXCEPT ![w].at = step, ![w].note = note]
Outage == outages < MaxOutages /\ outages' = outages + 1

\* enqueue: the row exists, or is created, or another envelope took its
\* sequence number.  The transaction was built from the account's current
\* sequence.
Submit(w, e) ==
    /\ worker[w].at = "idle"
    /\ IsNext(e)
    /\ \/ /\ status[e] \in Open
          /\ worker' = [worker EXCEPT ![w] = [at |-> "claim submit", envelope |-> e,
                                             polls |-> MaxPolls + 1, note |-> status[e]]]
          /\ UNCHANGED <<status, due, refused>>
       \/ /\ status[e] = "NONE"
          /\ \A f \in Envelopes : status[f] # "NONE" => SequenceOf[f] # SequenceOf[e]
          /\ status' = [status EXCEPT ![e] = "PENDING_VERIFICATION"]
          /\ due' = due \cup {e}
          /\ worker' = [worker EXCEPT ![w] = [at |-> "claim submit", envelope |-> e,
                              polls |-> MaxPolls + 1, note |-> "PENDING_VERIFICATION"]]
          /\ UNCHANGED refused
       \/ /\ status[e] = "NONE" /\ e \notin refused
          /\ \E f \in Envelopes : status[f] # "NONE" /\ SequenceOf[f] = SequenceOf[e]
          /\ refused' = refused \cup {e}
          /\ UNCHANGED <<status, due, worker>>
    /\ UNCHANGED <<networkVars, leased, outages>>

\* Mutant: only rows that wait for verification are taken up.
ListDuePendingOnly(w, e) ==
    /\ worker[w].at = "idle"
    /\ status[e] = "PENDING_VERIFICATION" /\ e \in due /\ e \notin leased
    /\ worker' = [worker EXCEPT ![w] = [at |-> "claim due", envelope |-> e,
                                       polls |-> 1, note |-> status[e]]]
    /\ UNCHANGED <<networkVars, status, leased, due, refused, outages>>

\* processDueSubmissions, for one row of listDue.
ListDue(w, e) ==
    /\ worker[w].at = "idle"
    /\ status[e] \in Open /\ e \in due /\ e \notin leased
    /\ worker' = [worker EXCEPT ![w] = [at |-> "claim due", envelope |-> e,
                                       polls |-> 1, note |-> status[e]]]
    /\ UNCHANGED <<networkVars, status, leased, due, refused, outages>>

\* claim: the row must still be as it was read, due and unleased.
Claim(w, e) ==
    /\ worker[w].at \in {"claim submit", "claim due"} /\ Doing(w, e)
    /\ IF status[e] = worker[w].note /\ e \in due /\ e \notin leased
       THEN /\ leased' = leased \cup {e}
            /\ Goto(w, IF worker[w].at = "claim due" THEN "poll" ELSE "broadcast", "none")
       ELSE UNCHANGED leased /\ worker' = [worker EXCEPT ![w] = Resting]
    /\ UNCHANGED <<networkVars, status, due, refused, outages>>

\* sendTransaction.  It may reach the network though the call fails, and not
\* reach it though the answer is TRY_AGAIN_LATER.
Send(w, e) ==
    /\ worker[w].at \in {"broadcast", "send"} /\ Doing(w, e)
    /\ \/ UNCHANGED mempool
       \/ IsNext(e) /\ mempool' = mempool \cup {e}
    /\ \E answer \in Open :
          (answer = "SUBMITTED" => IsNext(e)) /\ Goto(w, "record", answer)
    /\ UNCHANGED <<sequence, fate, expired, forgotten, status, leased, due, refused, outages>>

\* processSubmission up to getTransaction.
Poll(w, e) ==
    /\ worker[w].at = "poll" /\ Doing(w, e)
    /\ \/ status[e] \in Terminal /\ Goto(w, "release", "none") /\ UNCHANGED outages
       \/ status[e] \notin Terminal /\ Outage /\ Goto(w, "record", "PENDING_VERIFICATION")
       \/ /\ status[e] \notin Terminal
          /\ IF fate[e] # "open" /\ e \notin forgotten
             THEN Goto(w, "record", fate[e])
             ELSE Goto(w, "account", IF e \in expired THEN "too late" ELSE "in time")
          /\ UNCHANGED outages
    /\ UNCHANGED <<networkVars, status, leased, due, refused>>

\* Mutant: an expired envelope is dropped without a look at the account.
DropExpired(w, e) ==
    /\ worker[w].at = "account" /\ Doing(w, e)
    /\ \/ Outage /\ Goto(w, "record", "PENDING_VERIFICATION")
       \/ /\ IF worker[w].note = "in time" THEN Goto(w, "send", "none")
             ELSE Goto(w, "record", "DROPPED")
          /\ UNCHANGED outages
    /\ UNCHANGED <<networkVars, status, leased, due, refused>>

\* processSubmission after getAccount.
CheckAccount(w, e) ==
    /\ worker[w].at = "account" /\ Doing(w, e)
    /\ \/ Outage /\ Goto(w, "record", "PENDING_VERIFICATION")
       \/ /\ IF worker[w].note = "in time" THEN Goto(w, "send", "none")
             ELSE Goto(w, "record", IF sequence < SequenceOf[e] THEN "DROPPED"
                                    ELSE "PENDING_VERIFICATION")
          /\ UNCHANGED outages
    /\ UNCHANGED <<networkVars, status, leased, due, refused>>

\* update: a terminal row stays; deferring pushes nextAttemptAt, deciding
\* ends the lease.  submit goes on to its MaxPolls polls, a due row is done.
Update(w, e) ==
    /\ worker[w].at = "record" /\ Doing(w, e)
    /\ \/ status[e] \in Terminal /\ UNCHANGED <<status, due, leased>>
       \/ /\ status[e] \notin Terminal
          /\ status' = [status EXCEPT ![e] = worker[w].note]
          /\ due' = IF worker[w].note \in Terminal THEN due ELSE due \ {e}
          /\ leased' = IF worker[w].note \in Terminal THEN leased \ {e} ELSE leased
    /\ worker' = [worker EXCEPT ![w].note = "none", ![w].polls = @ - 1,
                     ![w].at = IF worker[w].polls > 1 /\ status'[e] \notin Terminal
                               THEN "poll" ELSE "release"]
    /\ UNCHANGED <<networkVars, refused, outages>>

\* release, whoever holds the lease by now.
Release(w, e) ==
    /\ worker[w].at = "release" /\ Doing(w, e)
    /\ leased' = leased \ {e}
    /\ worker' = [worker EXCEPT ![w] = Resting]
    /\ UNCHANGED <<networkVars, status, due, refused, outages>>

WorkerCrashes(w) ==
    /\ worker[w] # Resting
    /\ Outage
    /\ worker' = [worker EXCEPT ![w] = Resting]
    /\ UNCHANGED <<networkVars, status, leased, due, refused>>

LeaseExpires(e) ==
    /\ e \in leased
    /\ leased' = leased \ {e}
    /\ UNCHANGED <<networkVars, status, due, refused, worker, outages>>

BecomesDue(e) ==
    /\ status[e] \in Open /\ e \notin due
    /\ due' = due \cup {e}
    /\ UNCHANGED <<networkVars, status, leased, refused, worker, outages>>

WorkerStep(w) ==
    \E e \in Envelopes :
        \/ ListDue(w, e) \/ Claim(w, e) \/ Send(w, e) \/ Poll(w, e)
        \/ CheckAccount(w, e) \/ Update(w, e) \/ Release(w, e)

TimePasses == \E e \in Envelopes : LeaseExpires(e) \/ BecomesDue(e)

ReplayNext ==
    \/ OtherTransaction \/ TimePasses
    \/ \E e \in Envelopes :
          \/ TimeBoundPasses(e) \/ NodeForgets(e)
          \/ \E outcome \in {"SUCCESS", "FAILED"} : Include(e, outcome)
    \/ \E w \in Workers : WorkerStep(w) \/ WorkerCrashes(w)
    \/ \E w \in Workers, e \in Envelopes : Submit(w, e)

\* The daemon of every process is rescheduled by its timer; leases end and
\* rows become due with time.
ReplayFairness ==
    /\ \A w \in Workers : WF_replayVars(WorkerStep(w))
    /\ \A e \in Envelopes : WF_replayVars(LeaseExpires(e)) /\ WF_replayVars(BecomesDue(e))

ReplaySpec == ReplayInit /\ [][ReplayNext]_replayVars /\ ReplayFairness

-----------------------------------------------------------------------------
(* Properties.                                                             *)

\* A final status is what the ledger says, also when two processes work on
\* one envelope and the node has forgotten the hash: SUCCESS and FAILED name
\* the outcome, and a DROPPED envelope is not on the ledger nor ever will be.
TerminalTellsTruth ==
    \A e \in Envelopes :
        /\ status[e] \in {"SUCCESS", "FAILED"} => fate[e] = status[e]
        /\ status[e] = "DROPPED" => fate[e] = "open" /\ e \in expired

\* A landed envelope is recorded, whoever crashed, unless the node forgot it
\* first.
LandedIsRecorded ==
    \A e \in Envelopes :
        fate[e] # "open" ~> status[e] \in {"SUCCESS", "FAILED"} \/ e \in forgotten

\* What toResult tells the caller of a DROPPED submission: "Submit a newly
\* signed transaction using the account's current sequence."
DroppedSequenceIsFree ==
    \A e \in refused :
        \E f \in Envelopes :
            SequenceOf[f] = SequenceOf[e] /\ status[f] \notin {"NONE", "DROPPED"}
=============================================================================
