------------------------- MODULE IntegrationsProofs -------------------------
(***************************************************************************)
(* Proofs about the parts of the backend that follow the chain: the replay *)
(* queue, the deposits of a league and the ingestion of contract events.   *)
(* They hold for any number of processes, envelopes, wallets, transactions *)
(* and events, and for every sequence of crashes and failed calls.         *)
(***************************************************************************)
EXTENDS ReplayQueue, DepositPipeline, EventIngestion, FiniteSetTheorems,
        WellFoundedInduction, TLAPS

(***************************************************************************)
(* The replay queue.                                                       *)
(***************************************************************************)

\* A landed envelope has used up its sequence number, so it never lands again
\* and an envelope whose number is unused never landed.
LandedUsesSequence ==
    \A e \in Envelopes : fate[e] # "open" => SequenceOf[e] <= sequence

\* What a process is about to write is true, however long ago it asked the
\* node: an outcome is final, and so is the end of a time bound.
NoteOK(r) ==
    /\ r.at \notin {"idle", "release"} => r.polls >= 1
    /\ r.at = "account" /\ r.note # "in time" => r.envelope \in expired
    /\ r.at = "record" => r.note \in Open \cup Terminal
    /\ r.at = "record" /\ r.note \in {"SUCCESS", "FAILED"} => fate[r.envelope] = r.note
    /\ r.at = "record" /\ r.note = "DROPPED" =>
          fate[r.envelope] = "open" /\ r.envelope \in expired

NotesOK == \A w \in Workers : NoteOK(worker[w])

ReplayInv == ReplayTypeOK /\ LandedUsesSequence /\ TerminalTellsTruth /\ NotesOK

-----------------------------------------------------------------------------

\* The queue starts empty.
LEMMA ReplayInitially ==
  ASSUME ReplayInit
  PROVE  ReplayInv
<1>. USE ReplayAssumption DEF ReplayInit
<1>1. Resting \in WorkerStates
  BY DEF Resting, WorkerStates
<1>2. ReplayTypeOK
  BY <1>1 DEF ReplayTypeOK
<1>3. LandedUsesSequence /\ TerminalTellsTruth
  BY DEF LandedUsesSequence, TerminalTellsTruth
<1>4. NotesOK
  BY DEF NotesOK, NoteOK, Resting
<1>. QED  BY <1>2, <1>3, <1>4 DEF ReplayInv

\* A process that moves to another state changes no other process.
LEMMA WorkerMoves ==
  ASSUME ReplayTypeOK, NEW w \in Workers, NEW r \in WorkerStates,
         worker' = [worker EXCEPT ![w] = r]
  PROVE  /\ worker' \in [Workers -> WorkerStates]
         /\ worker'[w] = r
         /\ \A v \in Workers \ {w} : worker'[v] = worker[v]
BY DEF ReplayTypeOK

\* A step that leaves the outcomes and the rows alone, extends the time
\* bounds passed and moves one process to a state that may be noted.
LEMMA NoteStep ==
  ASSUME ReplayInv, NEW w \in Workers, NEW r \in WorkerStates,
         worker' \in [Workers -> WorkerStates], worker'[w] = r,
         \A v \in Workers \ {w} : worker'[v] = worker[v],
         UNCHANGED <<sequence, fate, expired, forgotten, status, refused>>,
         mempool' \subseteq Envelopes, leased' \subseteq Envelopes, due' \subseteq Envelopes,
         outages' \in 0..MaxOutages,
         NoteOK(r)
  PROVE  ReplayInv'
<1>. USE DEF ReplayInv
<1>1. ReplayTypeOK'
  BY DEF ReplayTypeOK
<1>2. LandedUsesSequence' /\ TerminalTellsTruth'
  BY DEF LandedUsesSequence, TerminalTellsTruth
<1>3. NotesOK'
  BY ZenonT(60) DEF NotesOK, NoteOK
<1>. QED  BY <1>1, <1>2, <1>3

\* The network: an envelope lands once, and never after its time bound.
LEMMA IncludeStep ==
  ASSUME ReplayInv, NEW e \in Envelopes,
         NEW outcome \in {"SUCCESS", "FAILED"}, Include(e, outcome)
  PROVE  ReplayInv'
<1>. USE ReplayAssumption DEF ReplayInv, queueVars, Include, IsNext
<1>1. fate[e] = "open"
  BY DEF LandedUsesSequence, ReplayTypeOK
<1>2. /\ fate' \in [Envelopes -> {"open", "SUCCESS", "FAILED"}]
      /\ fate'[e] = outcome
      /\ \A f \in Envelopes \ {e} : fate'[f] = fate[f]
  BY DEF ReplayTypeOK
<1>3. ReplayTypeOK'
  BY <1>2 DEF ReplayTypeOK
<1>4. LandedUsesSequence'
  BY <1>2 DEF LandedUsesSequence, ReplayTypeOK
<1>5. TerminalTellsTruth'
  BY <1>1, <1>2 DEF TerminalTellsTruth, ReplayTypeOK
<1>6. ASSUME NEW v \in Workers
      PROVE  NoteOK(worker[v])'
  <2>1. NoteOK(worker[v]) /\ worker[v] \in WorkerStates
    BY DEF NotesOK, ReplayTypeOK
  <2>2. worker[v].envelope \in Envelopes \/ worker[v].envelope = NoEnvelope
    BY <2>1 DEF WorkerStates
  <2>3. CASE worker[v].envelope = e
    BY <1>1, <2>1, <2>3 DEF NoteOK
  <2>4. CASE worker[v].envelope \in Envelopes \ {e}
    BY <1>2, <2>1, <2>4 DEF NoteOK
  <2>5. CASE worker[v].envelope = NoEnvelope
    <3>1. fate'[NoEnvelope] = fate[NoEnvelope]
      BY DEF ReplayTypeOK
    <3>. QED  BY <2>1, <2>5, <3>1 DEF NoteOK
  <2>. QED  BY <2>2, <2>3, <2>4, <2>5
<1>. QED  BY <1>3, <1>4, <1>5, <1>6 DEF NotesOK

\* The other transactions of the account, time bounds and the node's
\* retention change no outcome.
LEMMA LedgerStep ==
  ASSUME ReplayInv,
         OtherTransaction \/ \E e \in Envelopes : TimeBoundPasses(e) \/ NodeForgets(e)
  PROVE  ReplayInv'
<1>. USE ReplayAssumption DEF ReplayInv, queueVars, OtherTransaction, TimeBoundPasses,
                              NodeForgets
<1>1. ReplayTypeOK'
  BY DEF ReplayTypeOK
<1>2. LandedUsesSequence'
  BY DEF LandedUsesSequence, ReplayTypeOK
<1>3. TerminalTellsTruth'
  BY DEF TerminalTellsTruth
<1>4. NotesOK'
  BY DEF NotesOK, NoteOK
<1>. QED  BY <1>1, <1>2, <1>3, <1>4

\* The lease of a row and its nextAttemptAt say nothing about its status.
LEMMA TimeStep ==
  ASSUME ReplayInv, TimePasses
  PROVE  ReplayInv'
<1>. USE DEF ReplayInv, TimePasses, LeaseExpires, BecomesDue, networkVars
<1>1. ReplayTypeOK'
  BY DEF ReplayTypeOK
<1>2. LandedUsesSequence' /\ TerminalTellsTruth' /\ NotesOK'
  BY DEF LandedUsesSequence, TerminalTellsTruth, NotesOK, NoteOK
<1>. QED  BY <1>1, <1>2

\* enqueue: a row is created without an outcome.
LEMMA SubmitStep ==
  ASSUME ReplayInv, NEW w \in Workers, NEW e \in Envelopes, Submit(w, e)
  PROVE  ReplayInv'
<1>. USE ReplayAssumption DEF ReplayInv, Submit, networkVars
<1>1. ASSUME NEW note \in Open
      PROVE  LET r == [at |-> "claim submit", envelope |-> e, polls |-> MaxPolls + 1,
                       note |-> note]
             IN  r \in WorkerStates /\ NoteOK(r)
  <2>1. MaxPolls + 1 \in 0..(MaxPolls + 1) /\ MaxPolls + 1 >= 1
    BY ONLY ReplayAssumption
  <2>. QED  BY ONLY <2>1, note \in Open, e \in Envelopes DEF WorkerStates, NoteOK
<1>2. CASE status[e] \in Open
  <2>1. worker' = [worker EXCEPT ![w] = [at |-> "claim submit", envelope |-> e,
                                         polls |-> MaxPolls + 1, note |-> status[e]]]
        /\ UNCHANGED <<status, due, refused>>
    BY <1>2 DEF Open
  <2>. QED  BY <1>1, <1>2, <2>1, WorkerMoves, NoteStep DEF ReplayTypeOK
<1>3. CASE refused' = refused \cup {e} /\ UNCHANGED <<status, due, worker>>
  BY <1>3 DEF ReplayTypeOK, LandedUsesSequence, TerminalTellsTruth, NotesOK, NoteOK
<1>4. CASE /\ status[e] = "NONE"
           /\ status' = [status EXCEPT ![e] = "PENDING_VERIFICATION"]
           /\ due' = due \cup {e}
           /\ worker' = [worker EXCEPT ![w] = [at |-> "claim submit", envelope |-> e,
                              polls |-> MaxPolls + 1, note |-> "PENDING_VERIFICATION"]]
           /\ UNCHANGED refused
  <2>1. PICK r : r = [at |-> "claim submit", envelope |-> e, polls |-> MaxPolls + 1,
                      note |-> "PENDING_VERIFICATION"]
    OBVIOUS
  <2>2. r \in WorkerStates /\ NoteOK(r)
    BY <1>1, <2>1 DEF Open
  <2>3. /\ worker' \in [Workers -> WorkerStates] /\ worker'[w] = r
        /\ \A v \in Workers \ {w} : worker'[v] = worker[v]
    BY <1>4, <2>1, <2>2, WorkerMoves
  <2>4. ReplayTypeOK'
    BY <1>4, <2>3 DEF ReplayTypeOK, Open
  <2>5. LandedUsesSequence'
    BY DEF LandedUsesSequence
  <2>6. TerminalTellsTruth'
    BY <1>4 DEF TerminalTellsTruth, ReplayTypeOK
  <2>7. NotesOK'
    BY <2>2, <2>3, ZenonT(60) DEF NotesOK, NoteOK
  <2>. QED  BY <2>4, <2>5, <2>6, <2>7
<1>. QED  BY <1>2, <1>3, <1>4

\* A process rests again: after a release, a lost claim or a crash.
LEMMA RestingStep ==
  ASSUME ReplayInv, NEW w \in Workers, worker' = [worker EXCEPT ![w] = Resting],
         UNCHANGED <<sequence, fate, mempool, expired, forgotten, status, due, refused>>,
         leased' \subseteq Envelopes, outages' \in 0..MaxOutages
  PROVE  ReplayInv'
<1>1. Resting \in WorkerStates /\ NoteOK(Resting)
  BY ReplayAssumption DEF Resting, WorkerStates, NoteOK
<1>2. mempool' \subseteq Envelopes /\ due' \subseteq Envelopes
  BY DEF ReplayInv, ReplayTypeOK
<1>. QED  BY <1>1, <1>2, WorkerMoves, NoteStep DEF ReplayInv

\* Goto keeps the envelope and the polls left.
LEMMA GotoStep ==
  ASSUME ReplayInv, NEW w \in Workers,
         NEW step \in {"poll", "broadcast", "record", "account", "send", "release"},
         NEW note \in {"none", "in time", "too late"} \cup Open \cup Terminal,
         Goto(w, step, note),
         worker[w].at \notin {"idle", "release"},
         step = "account" /\ note # "in time" => worker[w].envelope \in expired,
         step = "record" => note \in Open \cup Terminal,
         step = "record" /\ note \in {"SUCCESS", "FAILED"} => fate[worker[w].envelope] = note,
         step = "record" /\ note = "DROPPED" =>
            fate[worker[w].envelope] = "open" /\ worker[w].envelope \in expired,
         UNCHANGED <<sequence, fate, expired, forgotten, status, due, refused>>,
         mempool' \subseteq Envelopes, leased' \subseteq Envelopes,
         outages' \in 0..MaxOutages
  PROVE  ReplayInv'
<1>0. ReplayTypeOK /\ due' \subseteq Envelopes
  BY DEF ReplayInv, ReplayTypeOK
<1>1. PICK old : old = worker[w]
  OBVIOUS
<1>2. old \in WorkerStates /\ old.polls >= 1
  BY <1>1 DEF ReplayInv, ReplayTypeOK, NotesOK, NoteOK
<1>3. PICK r : r = [old EXCEPT !.at = step, !.note = note]
  OBVIOUS
<1>4. /\ r \in WorkerStates
      /\ r.at = step /\ r.note = note /\ r.envelope = old.envelope /\ r.polls = old.polls
  BY <1>2, <1>3 DEF WorkerStates
<1>5. worker' = [worker EXCEPT ![w] = r]
  BY <1>1, <1>3 DEF Goto
<1>6. /\ worker' \in [Workers -> WorkerStates] /\ worker'[w] = r
      /\ \A v \in Workers \ {w} : worker'[v] = worker[v]
  BY <1>0, <1>4, <1>5, WorkerMoves
<1>7. NoteOK(r)
  BY <1>1, <1>2, <1>4 DEF NoteOK
<1>. QED  BY <1>0, <1>4, <1>6, <1>7, NoteStep

\* claim: a process that gets the row goes on, any other gives up.
LEMMA ClaimStep ==
  ASSUME ReplayInv, NEW w \in Workers, NEW e \in Envelopes, Claim(w, e)
  PROVE  ReplayInv'
<1>. USE DEF Claim, networkVars
<1>0. mempool' \subseteq Envelopes /\ outages' \in 0..MaxOutages
  BY DEF ReplayInv, ReplayTypeOK
<1>1. CASE status[e] = worker[w].note /\ e \in due /\ e \notin leased
  <2>1. PICK step \in {"poll", "broadcast"} : Goto(w, step, "none")
    BY <1>1
  <2>2. leased' \subseteq Envelopes
    BY <1>1 DEF ReplayInv, ReplayTypeOK
  <2>. QED  BY <1>0, <2>1, <2>2, GotoStep
<1>2. CASE ~(status[e] = worker[w].note /\ e \in due /\ e \notin leased)
  <2>1. leased' \subseteq Envelopes
    BY <1>2 DEF ReplayInv, ReplayTypeOK
  <2>. QED  BY <1>0, <1>2, <2>1, RestingStep
<1>. QED  BY <1>1, <1>2

\* sendTransaction leads to another attempt, never to a final status.
LEMMA SendStep ==
  ASSUME ReplayInv, NEW w \in Workers, NEW e \in Envelopes, Send(w, e)
  PROVE  ReplayInv'
<1>. USE DEF Send
<1>0. /\ mempool' \subseteq Envelopes /\ leased' \subseteq Envelopes
      /\ outages' \in 0..MaxOutages
  BY DEF ReplayInv, ReplayTypeOK
<1>1. PICK answer \in Open : Goto(w, "record", answer)
  OBVIOUS
<1>. QED  BY <1>0, <1>1, GotoStep DEF Open

\* A failed call counts against MaxOutages.
LEMMA OutageCounts ==
  ASSUME ReplayInv, Outage \/ UNCHANGED outages
  PROVE  outages' \in 0..MaxOutages
BY ReplayAssumption DEF ReplayInv, ReplayTypeOK, Outage

\* What getTransaction answers is noted: the outcome, or whether the time
\* bound has passed.
LEMMA PollStep ==
  ASSUME ReplayInv, NEW w \in Workers, NEW e \in Envelopes, Poll(w, e)
  PROVE  ReplayInv'
<1>. USE DEF networkVars
<1>0. /\ mempool' \subseteq Envelopes /\ leased' \subseteq Envelopes
      /\ outages' \in 0..MaxOutages
      /\ UNCHANGED <<sequence, fate, expired, forgotten, status, due, refused>>
      /\ worker[w].at = "poll" /\ worker[w].envelope = e
  BY OutageCounts DEF ReplayInv, ReplayTypeOK, Poll, Doing
<1>2. CASE Goto(w, "release", "none")
  BY <1>0, <1>2, GotoStep
<1>3. CASE Goto(w, "record", "PENDING_VERIFICATION")
  BY <1>0, <1>3, GotoStep DEF Open
<1>4. CASE fate[e] # "open" /\ Goto(w, "record", fate[e])
  <2>1. fate[e] \in {"SUCCESS", "FAILED"}
    BY <1>4 DEF ReplayInv, ReplayTypeOK
  <2>. QED  BY <1>0, <1>4, <2>1, GotoStep DEF Terminal
<1>5. CASE Goto(w, "account", IF e \in expired THEN "too late" ELSE "in time")
  <2>1. PICK note \in {"too late", "in time"} :
            note = (IF e \in expired THEN "too late" ELSE "in time")
    OBVIOUS
  <2>. QED  BY <1>0, <1>5, <2>1, GotoStep
<1>. QED  BY <1>2, <1>3, <1>4, <1>5 DEF Poll

\* An envelope whose time bound passed and whose sequence number is unused
\* has not landed.
LEMMA CheckAccountStep ==
  ASSUME ReplayInv, NEW w \in Workers, NEW e \in Envelopes, CheckAccount(w, e)
  PROVE  ReplayInv'
<1>. USE DEF networkVars
<1>0. /\ mempool' \subseteq Envelopes /\ leased' \subseteq Envelopes
      /\ outages' \in 0..MaxOutages
      /\ UNCHANGED <<sequence, fate, expired, forgotten, status, due, refused>>
      /\ worker[w].at = "account" /\ worker[w].envelope = e
  BY OutageCounts DEF ReplayInv, ReplayTypeOK, CheckAccount, Doing
<1>2. CASE Goto(w, "send", "none")
  BY <1>0, <1>2, GotoStep
<1>3. CASE Goto(w, "record", "PENDING_VERIFICATION")
  BY <1>0, <1>3, GotoStep DEF Open
<1>4. CASE /\ worker[w].note # "in time" /\ sequence < SequenceOf[e]
           /\ Goto(w, "record", "DROPPED")
  <2>1. fate[e] = "open"
    <3>1. SequenceOf[e] \in Nat /\ sequence \in Nat /\ ~(SequenceOf[e] <= sequence)
      <4>1. SequenceOf[e] \in Nat
        BY ReplayAssumption
      <4>2. sequence \in Nat
        BY DEF ReplayInv, ReplayTypeOK
      <4>3. sequence < SequenceOf[e]
        BY <1>4
      <4>. QED  BY ONLY <4>1, <4>2, <4>3
    <3>. QED  BY <3>1 DEF ReplayInv, LandedUsesSequence
  <2>2. e \in expired
    BY <1>0, <1>4 DEF ReplayInv, NotesOK, NoteOK
  <2>. QED  BY <1>0, <1>4, <2>1, <2>2, GotoStep DEF Terminal
<1>. QED  BY <1>2, <1>3, <1>4 DEF CheckAccount

\* processDueSubmissions takes up an open row.
LEMMA ListDueStep ==
  ASSUME ReplayInv, NEW w \in Workers, NEW e \in Envelopes, ListDue(w, e)
  PROVE  ReplayInv'
<1>. USE DEF ListDue, networkVars
<1>1. PICK r : r = [at |-> "claim due", envelope |-> e, polls |-> 1, note |-> status[e]]
  OBVIOUS
<1>2. r \in WorkerStates /\ NoteOK(r)
  <2>1. 1 \in 0..(MaxPolls + 1) /\ 1 >= 1
    BY ONLY ReplayAssumption
  <2>. QED  BY ONLY <1>1, <2>1, status[e] \in Open, e \in Envelopes DEF WorkerStates, NoteOK
<1>3. ReplayTypeOK /\ worker' = [worker EXCEPT ![w] = r]
  BY <1>1 DEF ReplayInv
<1>4. /\ worker' \in [Workers -> WorkerStates] /\ worker'[w] = r
      /\ \A v \in Workers \ {w} : worker'[v] = worker[v]
  BY <1>2, <1>3, WorkerMoves
<1>5. /\ mempool' \subseteq Envelopes /\ leased' \subseteq Envelopes /\ due' \subseteq Envelopes
      /\ outages' \in 0..MaxOutages
  BY DEF ReplayInv, ReplayTypeOK
<1>. QED  BY <1>2, <1>4, <1>5, NoteStep

\* update writes what the process noted, which is still true.
LEMMA UpdateStep ==
  ASSUME ReplayInv, NEW w \in Workers, NEW e \in Envelopes, Update(w, e)
  PROVE  ReplayInv'
<1>. USE DEF networkVars
<1>1. PICK old : old = worker[w]
  OBVIOUS
<1>2. /\ old \in WorkerStates /\ NoteOK(old) /\ old.at = "record" /\ old.envelope = e
      /\ ReplayTypeOK
  BY <1>1 DEF ReplayInv, ReplayTypeOK, NotesOK, Update, Doing
<1>3. PICK step \in {"poll", "release"} :
          /\ step = "poll" => old.polls > 1
          /\ worker' = [worker EXCEPT ![w].note = "none", ![w].polls = @ - 1, ![w].at = step]
  BY <1>1 DEF Update
<1>4. PICK r : r = [old EXCEPT !.note = "none", !.polls = @ - 1, !.at = step]
  OBVIOUS
<1>5. old.polls \in 1..(MaxPolls + 1)
  <2>1. old.polls \in 0..(MaxPolls + 1) /\ old.polls >= 1
    BY <1>2 DEF WorkerStates, NoteOK
  <2>. QED  BY ONLY <2>1, ReplayAssumption
<1>6. r.at = step /\ r.note = "none" /\ r.envelope = e /\ r.polls = old.polls - 1
  BY <1>2, <1>4 DEF WorkerStates
<1>7. r \in WorkerStates
  <2>1. old.polls - 1 \in 0..(MaxPolls + 1)
    BY <1>5, ReplayAssumption
  <2>. QED  BY <1>2, <1>4, <2>1 DEF WorkerStates
<1>8. NoteOK(r)
  BY <1>3, <1>5, <1>6 DEF NoteOK
<1>9. worker' = [worker EXCEPT ![w] = r]
  BY <1>1, <1>3, <1>4
<1>10. /\ worker' \in [Workers -> WorkerStates] /\ worker'[w] = r
       /\ \A v \in Workers \ {w} : worker'[v] = worker[v]
  BY <1>2, <1>7, <1>9, WorkerMoves
<1>11. old.note \in Open \cup Terminal
  BY <1>2 DEF NoteOK
<1>12. /\ UNCHANGED <<sequence, fate, mempool, expired, forgotten, refused, outages>>
       /\ leased' \subseteq Envelopes /\ due' \subseteq Envelopes
  BY <1>2 DEF Update, ReplayTypeOK
<1>13. status' = status \/ status' = [status EXCEPT ![e] = old.note]
  BY <1>1 DEF Update
<1>14. ReplayTypeOK'
  BY <1>2, <1>10, <1>11, <1>12, <1>13 DEF ReplayTypeOK
<1>15. TerminalTellsTruth'
  <2>1. CASE status' = status
    BY <1>12, <2>1 DEF ReplayInv, TerminalTellsTruth
  <2>2. CASE status' = [status EXCEPT ![e] = old.note]
    <3>1. status'[e] = old.note /\ \A f \in Envelopes \ {e} : status'[f] = status[f]
      BY <1>2, <2>2 DEF ReplayTypeOK
    <3>. QED  BY <1>2, <1>12, <3>1 DEF ReplayInv, TerminalTellsTruth, NoteOK
  <2>. QED  BY <1>13, <2>1, <2>2
<1>16. LandedUsesSequence'
  BY <1>12 DEF ReplayInv, LandedUsesSequence
<1>17. NotesOK'
  BY <1>8, <1>10, <1>12, ZenonT(60) DEF ReplayInv, NotesOK, NoteOK
<1>. QED  BY <1>14, <1>15, <1>16, <1>17 DEF ReplayInv

\* release and a crash end what the process was doing.
LEMMA EndStep ==
  ASSUME ReplayInv, NEW w \in Workers,
         WorkerCrashes(w) \/ \E e \in Envelopes : Release(w, e)
  PROVE  ReplayInv'
<1>. USE DEF networkVars
<1>1. outages' \in 0..MaxOutages
  BY OutageCounts DEF WorkerCrashes, Release
<1>2. leased' \subseteq Envelopes
  BY DEF ReplayInv, ReplayTypeOK, WorkerCrashes, Release
<1>. QED  BY <1>1, <1>2, RestingStep DEF WorkerCrashes, Release

\* ReplayInv is inductive.
LEMMA ReplayNextKeeps ==
  ASSUME ReplayInv, [ReplayNext]_replayVars
  PROVE  ReplayInv'
<1>1. CASE UNCHANGED replayVars
  BY <1>1 DEF replayVars, networkVars, queueVars, ReplayInv, ReplayTypeOK, LandedUsesSequence,
              TerminalTellsTruth, NotesOK, NoteOK
<1>2. CASE OtherTransaction
  BY <1>2, LedgerStep
<1>3. CASE TimePasses
  BY <1>3, TimeStep
<1>4. CASE \E e \in Envelopes :
              \/ TimeBoundPasses(e) \/ NodeForgets(e)
              \/ \E outcome \in {"SUCCESS", "FAILED"} : Include(e, outcome)
  BY <1>4, IncludeStep, LedgerStep
<1>5. CASE \E w \in Workers : WorkerStep(w) \/ WorkerCrashes(w)
  BY <1>5, ListDueStep, ClaimStep, SendStep, PollStep, CheckAccountStep, UpdateStep, EndStep
     DEF WorkerStep
<1>6. CASE \E w \in Workers, e \in Envelopes : Submit(w, e)
  BY <1>6, SubmitStep
<1>. QED  BY <1>1, <1>2, <1>3, <1>4, <1>5, <1>6 DEF ReplayNext

\* Every state of the queue satisfies ReplayInv.
THEOREM ReplayInvariant == ReplaySpec => []ReplayInv
<1>. QED  BY ReplayInitially, ReplayNextKeeps, PTL DEF ReplaySpec

\* A final status is what the ledger says, for any number of processes,
\* envelopes and polls: also when the lease ran out under its holder and the
\* node has forgotten the hash.
THEOREM TerminalTellsTruthHolds == ReplaySpec => []TerminalTellsTruth
<1>1. ReplayInv => TerminalTellsTruth
  BY DEF ReplayInv
<1>. QED  BY <1>1, ReplayInvariant, PTL

(***************************************************************************)
(* The deposits of a league.                                               *)
(***************************************************************************)

\* A deposit transaction of wallet w landed.  It never un-lands.
PaidBy(w) == \E h \in Hashes : Sender[h] = w /\ tx[h] = "success"

\* What the contract holds, and what a reconciliation saw it hold, was paid.
HeldWasPaid == \A w \in deposit \cup reconciling : PaidBy(w)

\* A deposit event is the trace of a landed deposit.
EventsTellTruth ==
    \A i \in DOMAIN events : events[i].kind = "deposit" => tx[events[i].of] = "success"

\* The contract paid wallet w a deposit back, by refund_deposit.
ReturnedTo(w) ==
    \E i \in DOMAIN events : events[i].kind = "DepositRefunded" /\ events[i].of = w

\* A claim that is PAID, or whose call landed, was paid.
ClaimsReturned ==
    \A h \in Hashes : claim[h] = "PAID" \/ claiming[h] = "landed" => ReturnedTo(Sender[h])

DepositInv ==
    DepositTypeOK /\ ConfirmedMeansPaid /\ HeldWasPaid /\ EventsTellTruth /\ ClaimsReturned

-----------------------------------------------------------------------------

\* The books start empty.
LEMMA DepositInitially ==
  ASSUME DepositInit
  PROVE  DepositInv
<1>. USE DepositAssumption DEF DepositInit
<1>1. DepositTypeOK
  BY DEF DepositTypeOK, PaymentStatuses, RowStatuses, TxStates, TrackStates, ClaimStates,
         SubmitStates
<1>2. ConfirmedMeansPaid /\ HeldWasPaid /\ EventsTellTruth /\ ClaimsReturned
  BY DEF ConfirmedMeansPaid, HeldWasPaid, EventsTellTruth, ClaimsReturned
<1>. QED  BY <1>1, <1>2 DEF DepositInv

\* The subject of an event, by its kind.
LEMMA EventSubject ==
  ASSUME NEW ev \in EventSet
  PROVE  /\ ev.kind = "deposit" => ev.of \in Hashes
         /\ ev.kind \in {"EmergencyRefund", "DepositRefunded"} => ev.of \in Wallets
BY DEF EventSet, Event

\* Which events the contract may publish.
LEMMA EventsPublished ==
  /\ \A h \in Hashes : Event("deposit", h) \in EventSet
  /\ \A w \in Wallets : Event("EmergencyRefund", w) \in EventSet
  /\ \A w \in Wallets : Event("DepositRefunded", w) \in EventSet
  /\ Event("refund", NoOne) \in EventSet
<1>1. \A h \in Hashes : Event("deposit", h) \in EventSet
  BY DEF EventSet
<1>2. \A w \in Wallets : Event("EmergencyRefund", w) \in EventSet
  BY DEF EventSet
<1>3. \A w \in Wallets : Event("DepositRefunded", w) \in EventSet
  BY DEF EventSet
<1>4. Event("refund", NoOne) \in EventSet
  BY DEF EventSet
<1>. QED  BY <1>1, <1>2, <1>3, <1>4

\* A step keeps the invariant if no landed deposit is forgotten, nobody is
\* confirmed, held or reconciled without one, a deposit event follows one, and
\* a claim is paid after its sender got the money.
LEMMA DepositStep ==
  ASSUME DepositInv, DepositTypeOK',
         \A h \in Hashes : tx[h] = "success" => tx'[h] = "success",
         \A w \in Wallets : payment'[w] = "PAYMENT_CONFIRMED" =>
            payment[w] = "PAYMENT_CONFIRMED" \/ PaidBy(w),
         \A w \in deposit' \cup reconciling' : w \in deposit \cup reconciling \/ PaidBy(w)',
         \/ events' = events
         \/ \E ev \in EventSet : /\ events' = Append(events, ev)
                                 /\ ev.kind = "deposit" => tx'[ev.of] = "success",
         \A h \in Hashes : claim'[h] = "PAID" \/ claiming'[h] = "landed" =>
            claim[h] = "PAID" \/ claiming[h] = "landed" \/ ReturnedTo(Sender[h])'
  PROVE  DepositInv'
<1>. USE DEF DepositInv
<1>1. ASSUME NEW w, PaidBy(w)
      PROVE  PaidBy(w)'
  BY <1>1 DEF PaidBy
<1>2. ConfirmedMeansPaid'
  BY <1>1 DEF ConfirmedMeansPaid, PaidBy
<1>3. HeldWasPaid'
  BY <1>1 DEF HeldWasPaid
<1>4. events \in Seq(EventSet)
  BY DEF DepositTypeOK
<1>5. ASSUME NEW i \in DOMAIN events, events[i].kind = "deposit"
      PROVE  tx'[events[i].of] = "success"
  <2>1. events[i].of \in Hashes
    BY <1>4, <1>5, EventSubject
  <2>. QED  BY <1>5, <2>1 DEF EventsTellTruth
<1>6. EventsTellTruth'
  <2>1. CASE events' = events
    BY <1>5, <2>1 DEF EventsTellTruth
  <2>2. ASSUME NEW ev \in EventSet, events' = Append(events, ev),
               ev.kind = "deposit" => tx'[ev.of] = "success"
        PROVE  EventsTellTruth'
    <3>1. \A i \in DOMAIN events' :
             (i \in DOMAIN events /\ events'[i] = events[i]) \/ events'[i] = ev
      BY <1>4, <2>2
    <3>. QED  BY <1>5, <2>2, <3>1 DEF EventsTellTruth
  <2>. QED  BY <2>1, <2>2
<1>7. ASSUME NEW w, ReturnedTo(w)
      PROVE  ReturnedTo(w)'
  <2>1. PICK i \in DOMAIN events : events[i].kind = "DepositRefunded" /\ events[i].of = w
    BY <1>7 DEF ReturnedTo
  <2>2. i \in DOMAIN events' /\ events'[i] = events[i]
    BY <1>4
  <2>. QED  BY <2>1, <2>2 DEF ReturnedTo
<1>8. ClaimsReturned'
  BY <1>7 DEF ClaimsReturned
<1>. QED  BY <1>2, <1>3, <1>6, <1>8

\* A new event moves neither the cursor nor the page out of range.
LEMMA AppendKeepsPages ==
  ASSUME DepositTypeOK, NEW ev \in EventSet, events' = Append(events, ev)
  PROVE  /\ events' \in Seq(EventSet)
         /\ cursor \in -1..Len(events')
         /\ page \in {<<>>} \cup ((1..Len(events') + 1) \X (0..Len(events')))
<1>1. events \in Seq(EventSet) /\ Len(events) \in Nat
  BY DEF DepositTypeOK
<1>2. events' \in Seq(EventSet) /\ Len(events') = Len(events) + 1
  BY <1>1
<1>3. /\ -1..Len(events) \subseteq -1..Len(events') /\ 0..Len(events) \subseteq 0..Len(events')
      /\ (1..Len(events) + 1) \subseteq (1..Len(events') + 1)
  BY <1>1, <1>2
<1>. QED  BY <1>2, <1>3 DEF DepositTypeOK

\* The page the indexer works on.
LEMMA PageRange ==
  ASSUME DepositTypeOK, page # <<>>
  PROVE  /\ page = <<page[1], page[2]>>
         /\ page[1] \in 1..Len(events) + 1 /\ page[2] \in 0..Len(events)
BY DEF DepositTypeOK

\* The event in hand is one of the contract's.
LEMMA EventInHand ==
  ASSUME DepositTypeOK, NEW kind, Handling(kind)
  PROVE  /\ page[1] \in DOMAIN events
         /\ events[page[1]] \in EventSet
         /\ [page EXCEPT ![1] = @ + 1] \in (1..Len(events) + 1) \X (0..Len(events))
<1>1. /\ page = <<page[1], page[2]>>
      /\ page[1] \in 1..Len(events) + 1 /\ page[2] \in 0..Len(events) /\ page[1] <= page[2]
  BY PageRange DEF Handling
<1>2. events \in Seq(EventSet) /\ Len(events) \in Nat
  BY DEF DepositTypeOK
<1>3. page[1] \in 1..Len(events) /\ page[1] + 1 \in 1..Len(events) + 1
  BY <1>1, <1>2
<1>4. [page EXCEPT ![1] = @ + 1] = <<page[1] + 1, page[2]>>
  BY <1>1
<1>. QED  BY <1>1, <1>2, <1>3, <1>4

\* The chain: a deposit lands with its event, and a refund takes a deposit.
LEMMA ChainDepositsStep ==
  ASSUME DepositInv, NEW h \in Hashes, ChainDeposits(h)
  PROVE  DepositInv'
<1>. USE DepositAssumption DEF ChainDeposits, booksVars, workVars
<1>. DepositTypeOK
  BY DEF DepositInv
<1>1. PICK ev \in EventSet : ev = Event("deposit", h) /\ events' = Append(events, ev)
  BY EventsPublished
<1>2. ev.of = h
  BY <1>1 DEF Event
<1>3. tx' \in [Hashes -> TxStates] /\ tx'[h] = "success"
      /\ \A k \in Hashes \ {h} : tx'[k] = tx[k]
  BY DEF DepositTypeOK, TxStates
<1>4. DepositTypeOK'
  BY <1>1, <1>3, AppendKeepsPages DEF DepositTypeOK
<1>5. \A w \in deposit' : w \in deposit \/ PaidBy(w)'
  BY <1>3 DEF PaidBy
<1>. QED  BY <1>1, <1>2, <1>3, <1>4, <1>5, DepositStep

\* A rejected deposit leaves no trace.
LEMMA ChainRejectsStep ==
  ASSUME DepositInv, NEW h \in Hashes, ChainRejects(h)
  PROVE  DepositInv'
<1>. USE DEF ChainRejects, booksVars, workVars
<1>1. /\ tx' \in [Hashes -> TxStates]
      /\ \A k \in Hashes : tx[k] = "success" => tx'[k] = "success"
  BY DEF DepositInv, DepositTypeOK, TxStates
<1>2. DepositTypeOK'
  BY <1>1 DEF DepositInv, DepositTypeOK
<1>. QED  BY <1>1, <1>2, DepositStep

\* Money that goes back: emergency_refund_league, refund and refund_deposit
\* publish events that confirm nobody.
LEMMA RefundEventStep ==
  ASSUME DepositInv, NEW ev \in EventSet, ev.kind # "deposit",
         events' = Append(events, ev), deposit' \subseteq deposit,
         chainStatus' \in {"Upcoming", "Cancelled"},
         claiming' \in [Hashes -> {"none", "calling", "landed", "rejected"}],
         \A h \in Hashes : claiming'[h] = "landed" =>
            claiming[h] = "landed" \/ ev = Event("DepositRefunded", Sender[h]),
         UNCHANGED <<booksVars, tx, cursor, page, decided, submitting, verifying, reconciling,
                     faults>>
  PROVE  DepositInv'
<1>. USE DEF booksVars
<1>1. DepositTypeOK'
  BY AppendKeepsPages DEF DepositInv, DepositTypeOK
<1>2. ASSUME NEW h \in Hashes, ev = Event("DepositRefunded", Sender[h])
      PROVE  ReturnedTo(Sender[h])'
  <2>1. Len(events') \in DOMAIN events' /\ events'[Len(events')] = ev
    BY DEF DepositInv, DepositTypeOK
  <2>. QED  BY <1>2, <2>1 DEF ReturnedTo, Event
<1>. QED  BY <1>1, <1>2, DepositStep

\* The three refunds.
LEMMA RefundsStep ==
  ASSUME DepositInv,
         \/ RefundLeague
         \/ \E w \in Wallets : ChainEmergencyRefunds(w)
         \/ \E h \in Hashes : ClaimExecutes(h)
  PROVE  DepositInv'
<1>. USE DepositAssumption DEF workVars
<1>1. CASE RefundLeague
  <2>1. PICK ev \in EventSet : ev = Event("refund", NoOne) /\ events' = Append(events, ev)
    BY <1>1, EventsPublished DEF RefundLeague
  <2>2. ev.kind # "deposit"
    BY <2>1 DEF Event
  <2>. QED  BY <1>1, <2>1, <2>2, RefundEventStep DEF RefundLeague, DepositInv, DepositTypeOK
<1>2. ASSUME NEW w \in Wallets, ChainEmergencyRefunds(w)
      PROVE  DepositInv'
  <2>1. PICK ev \in EventSet : ev = Event("EmergencyRefund", w) /\ events' = Append(events, ev)
    BY <1>2, EventsPublished DEF ChainEmergencyRefunds
  <2>2. ev.kind # "deposit"
    BY <2>1 DEF Event
  <2>. QED  BY <1>2, <2>1, <2>2, RefundEventStep
            DEF ChainEmergencyRefunds, DepositInv, DepositTypeOK
<1>3. ASSUME NEW h \in Hashes, ClaimExecutes(h)
      PROVE  DepositInv'
  <2>0. claiming' \in [Hashes -> {"none", "calling", "landed", "rejected"}]
    BY <1>3 DEF ClaimExecutes, DepositInv, DepositTypeOK
  <2>1. CASE Sender[h] \in deposit
    <3>1. PICK ev \in EventSet :
              ev = Event("DepositRefunded", Sender[h]) /\ events' = Append(events, ev)
      BY <1>3, <2>1, EventsPublished DEF ClaimExecutes
    <3>2. ev.kind # "deposit"
      BY <3>1 DEF Event
    <3>. QED  BY <1>3, <2>0, <2>1, <3>1, <3>2, RefundEventStep
              DEF ClaimExecutes, DepositInv, DepositTypeOK
  <2>2. CASE Sender[h] \notin deposit
    <3>1. DepositTypeOK'
      BY <1>3, <2>0, <2>2 DEF ClaimExecutes, DepositInv, DepositTypeOK, booksVars
    <3>2. \A k \in Hashes : claiming'[k] = "landed" => claiming[k] = "landed"
      BY <1>3, <2>2 DEF ClaimExecutes, DepositInv, DepositTypeOK
    <3>. QED  BY <1>3, <2>2, <3>1, <3>2, DepositStep DEF ClaimExecutes, booksVars
  <2>. QED  BY <2>1, <2>2
<1>. QED  BY <1>1, <1>2, <1>3

\* A step of the books: the chain stands still.
LEMMA BooksStep ==
  ASSUME DepositInv, DepositTypeOK', UNCHANGED chainVars,
         \A w \in Wallets : payment'[w] = "PAYMENT_CONFIRMED" =>
            payment[w] = "PAYMENT_CONFIRMED" \/ PaidBy(w),
         \A w \in reconciling' : w \in deposit \cup reconciling,
         \A h \in Hashes : claim'[h] = "PAID" \/ claiming'[h] = "landed" =>
            claim[h] = "PAID" \/ claiming[h] = "landed" \/ ReturnedTo(Sender[h])
  PROVE  DepositInv'
<1>1. \A w : ReturnedTo(w) => ReturnedTo(w)'
  BY DEF chainVars, ReturnedTo
<1>. QED  BY <1>1, DepositStep DEF chainVars

\* A payment set to s, which is PAYMENT_CONFIRMED only after a deposit landed.
LEMMA PaymentSet ==
  ASSUME DepositInv, NEW w \in Wallets, NEW s \in PaymentStatuses, SetPayment(w, s),
         s = "PAYMENT_CONFIRMED" => PaidBy(w)
  PROVE  /\ payment' \in [Wallets -> PaymentStatuses]
         /\ \A v \in Wallets : payment'[v] = "PAYMENT_CONFIRMED" =>
               payment[v] = "PAYMENT_CONFIRMED" \/ PaidBy(v)
BY DEF DepositInv, DepositTypeOK, SetPayment

\* Faults are counted.
LEMMA FaultCounts ==
  ASSUME DepositInv, Fault \/ UNCHANGED faults
  PROVE  faults' \in 0..MaxFaults
BY DepositAssumption DEF DepositInv, DepositTypeOK, Fault

\* The member's requests to pay and to submit confirm nothing.
LEMMA MemberRequestStep ==
  ASSUME DepositInv,
         \/ \E w \in Wallets : CreatePaymentRequirement(w)
         \/ \E h \in Hashes : \/ SubmitStarts(h) \/ SubmitWritesMember(h) \/ SubmitWritesRow(h)
                            \/ SubmitTracks(h) \/ SubmitCrashes(h)
  PROVE  DepositInv'
<1>. USE DepositAssumption
<1>. DepositTypeOK
  BY DEF DepositInv
<1>1. ASSUME NEW w \in Wallets, CreatePaymentRequirement(w)
      PROVE  DepositInv'
  <2>1. /\ payment' \in [Wallets -> PaymentStatuses]
        /\ \A v \in Wallets : payment'[v] = "PAYMENT_CONFIRMED" =>
               payment[v] = "PAYMENT_CONFIRMED" \/ PaidBy(v)
    BY <1>1, PaymentSet DEF CreatePaymentRequirement, PaymentStatuses
  <2>2. DepositTypeOK'
    BY <1>1, <2>1 DEF CreatePaymentRequirement, DepositTypeOK, chainVars, workVars
  <2>. QED  BY <1>1, <2>1, <2>2, BooksStep DEF CreatePaymentRequirement, workVars
<1>2. ASSUME NEW h \in Hashes,
             \/ SubmitStarts(h) \/ SubmitWritesMember(h) \/ SubmitWritesRow(h)
             \/ SubmitTracks(h) \/ SubmitCrashes(h)
      PROVE  DepositInv'
  <2>. USE DEF SubmitStarts, SubmitWritesMember, SubmitWritesRow, SubmitTracks, SubmitCrashes,
               booksVars
  <2>1. /\ payment' \in [Wallets -> PaymentStatuses]
        /\ \A v \in Wallets : payment'[v] = "PAYMENT_CONFIRMED" =>
               payment[v] = "PAYMENT_CONFIRMED" \/ PaidBy(v)
    <3>1. CASE SubmitWritesMember(h)
      BY <3>1, PaymentSet DEF PaymentStatuses
    <3>2. CASE UNCHANGED payment
      BY <3>2 DEF DepositTypeOK
    <3>. QED  BY <1>2, <3>1, <3>2
  <2>2. faults' \in 0..MaxFaults
    BY <1>2, FaultCounts
  <2>3. row' \in [Hashes -> RowStatuses] /\ tracked' \in [Hashes -> TrackStates]
    BY <1>2 DEF DepositTypeOK, RowStatuses, TrackStates
  <2>4. address' \subseteq Wallets /\ submitting' \in [Hashes -> SubmitStates]
    BY <1>2 DEF DepositTypeOK, SubmitStates
  <2>5. UNCHANGED <<chainVars, leagueStatus, unhashed, exception, claim, cursor, page, decided,
                    verifying, reconciling, claiming>>
    BY <1>2
  <2>6. DepositTypeOK'
    BY <2>1, <2>2, <2>3, <2>4, <2>5 DEF DepositTypeOK, chainVars
  <2>. QED  BY <2>1, <2>5, <2>6, BooksStep
<1>. QED  BY <1>1, <1>2

\* verifyAndConfirmPayment confirms a transaction that landed.
LEMMA VerifyStep ==
  ASSUME DepositInv, NEW h \in Hashes, VerifyStarts(h) \/ VerifyEnds(h)
  PROVE  DepositInv'
<1>. USE DepositAssumption
<1>. DepositTypeOK
  BY DEF DepositInv
<1>1. CASE VerifyStarts(h)
  <2>1. DepositTypeOK'
    BY <1>1 DEF VerifyStarts, DepositTypeOK, booksVars, chainVars
  <2>. QED  BY <1>1, <2>1, BooksStep DEF VerifyStarts, booksVars
<1>2. CASE VerifyEnds(h)
  <2>. USE <1>2 DEF VerifyEnds
  <2>1. /\ payment' \in [Wallets -> PaymentStatuses]
        /\ \A v \in Wallets : payment'[v] = "PAYMENT_CONFIRMED" =>
               payment[v] = "PAYMENT_CONFIRMED" \/ PaidBy(v)
    <3>1. CASE tx[h] = "success"
      <4>1. PaidBy(Sender[h])
        BY <3>1 DEF PaidBy
      <4>. QED  BY <3>1, <4>1, PaymentSet DEF PaymentStatuses
    <3>2. CASE tx[h] = "failed"
      BY <3>2, PaymentSet DEF PaymentStatuses
    <3>3. CASE tx[h] = "pending"
      BY <3>3 DEF DepositTypeOK
    <3>. QED  BY <3>1, <3>2, <3>3
  <2>2. row' \in [Hashes -> RowStatuses]
    BY DEF DepositTypeOK, RowStatuses
  <2>3. DepositTypeOK'
    BY <2>1, <2>2 DEF DepositTypeOK, chainVars
  <2>. QED  BY <2>1, <2>3, BooksStep
<1>. QED  BY <1>1, <1>2

\* A reconciliation confirms a deposit it saw in the contract, also when the
\* contract has paid it back since.
LEMMA ReconcileStep ==
  ASSUME DepositInv, NEW w \in Wallets, ReconcileStarts(w) \/ ReconcileEnds(w)
  PROVE  DepositInv'
<1>. USE DepositAssumption
<1>. DepositTypeOK
  BY DEF DepositInv
<1>1. CASE ReconcileStarts(w)
  <2>1. DepositTypeOK'
    BY <1>1 DEF ReconcileStarts, DepositTypeOK, booksVars, chainVars
  <2>. QED  BY <1>1, <2>1, BooksStep DEF ReconcileStarts, booksVars
<1>2. CASE ReconcileEnds(w)
  <2>. USE <1>2 DEF ReconcileEnds
  <2>0. PaidBy(w)
    BY DEF DepositInv, HeldWasPaid
  <2>1. /\ payment' \in [Wallets -> PaymentStatuses]
        /\ \A v \in Wallets : payment'[v] = "PAYMENT_CONFIRMED" =>
               payment[v] = "PAYMENT_CONFIRMED" \/ PaidBy(v)
    BY <2>0, PaymentSet DEF PaymentStatuses, DepositTypeOK
  <2>2. row' \in [Hashes -> RowStatuses] /\ unhashed' \subseteq Wallets
    BY DEF DepositTypeOK, RowStatuses
  <2>3. DepositTypeOK'
    BY <2>1, <2>2 DEF DepositTypeOK, chainVars
  <2>. QED  BY <2>1, <2>3, BooksStep
<1>. QED  BY <1>1, <1>2

\* The coordinator leaves the member's payment alone.
LEMMA CoordinatorStep ==
  ASSUME DepositInv, NEW h \in Hashes, CoordinatorFinalizes(h) \/ CoordinatorCrashes(h)
  PROVE  DepositInv'
<1>. USE DEF CoordinatorFinalizes, CoordinatorCrashes
<1>1. faults' \in 0..MaxFaults
  BY FaultCounts
<1>2. tracked' \in [Hashes -> TrackStates] /\ verifying' \subseteq Hashes
  BY DEF DepositInv, DepositTypeOK, TrackStates
<1>3. DepositTypeOK'
  BY <1>1, <1>2 DEF DepositInv, DepositTypeOK, chainVars
<1>. QED  BY <1>3, BooksStep

\* A cancelled league owes its deposits back.
LEMMA CancelLeagueStep ==
  ASSUME DepositInv, CancelLeague
  PROVE  DepositInv'
<1>. USE DEF CancelLeague, workVars
<1>1. DepositTypeOK'
  BY DEF DepositInv, DepositTypeOK, PaymentStatuses, chainVars
<1>. QED  BY <1>1, BooksStep

\* The claims of exceptions touch no payment.
LEMMA ClaimRequestStep ==
  ASSUME DepositInv, NEW h \in Hashes, ClaimStarts(h) \/ ClaimPaid(h) \/ ClaimFails(h)
  PROVE  DepositInv'
<1>. USE DEF ClaimStarts, ClaimPaid, ClaimFails
<1>1. faults' \in 0..MaxFaults
  BY FaultCounts
<1>2. /\ claim' \in [Hashes -> ClaimStates]
      /\ claiming' \in [Hashes -> {"none", "calling", "landed", "rejected"}]
  BY DEF DepositInv, DepositTypeOK, ClaimStates
<1>3. DepositTypeOK'
  BY <1>1, <1>2 DEF DepositInv, DepositTypeOK, chainVars
<1>4. \A k \in Hashes : claim'[k] = "PAID" \/ claiming'[k] = "landed" =>
          claim[k] = "PAID" \/ claiming[k] = "landed"
  BY DEF DepositInv, DepositTypeOK
<1>. QED  BY <1>3, <1>4, BooksStep

\* The indexer between its pages.
LEMMA IndexerPageStep ==
  ASSUME DepositInv, IndexerPolls \/ IndexerSaves \/ IndexerCrashes \/ ResetCursor
  PROVE  DepositInv'
<1>. USE DepositAssumption
<1>. DepositTypeOK
  BY DEF DepositInv
<1>0. Len(events) \in Nat /\ cursor \in -1..Len(events)
  BY DEF DepositTypeOK
<1>1. /\ UNCHANGED <<booksVars, chainVars, submitting, verifying, reconciling, claiming>>
      /\ faults' \in 0..MaxFaults
      /\ decided' \in {"none", "flag", "confirm"}
  BY FaultCounts DEF IndexerPolls, IndexerSaves, IndexerCrashes, ResetCursor, DepositTypeOK
<1>2. cursor' \in -1..Len(events)
  <2>1. CASE IndexerSaves
    BY <2>1, PageRange DEF IndexerSaves
  <2>. QED  BY <1>0, <2>1 DEF IndexerPolls, IndexerCrashes, ResetCursor
<1>3. page' \in {<<>>} \cup ((1..Len(events) + 1) \X (0..Len(events)))
  <2>1. CASE IndexerPolls
    <3>1. PICK from \in 0..Len(events) :
              page' = <<from + 1, IF from + PageLimit < Len(events)
                                  THEN from + PageLimit ELSE Len(events)>>
      BY <2>1 DEF IndexerPolls
    <3>2. from + 1 \in 1..Len(events) + 1
      BY <1>0
    <3>3. (IF from + PageLimit < Len(events) THEN from + PageLimit ELSE Len(events))
              \in 0..Len(events)
      BY <1>0
    <3>. QED  BY <3>1, <3>2, <3>3
  <2>2. CASE page' = <<>>
    BY <2>2
  <2>. QED  BY <2>1, <2>2 DEF IndexerSaves, IndexerCrashes, ResetCursor, DepositTypeOK
<1>4. DepositTypeOK'
  BY <1>1, <1>2, <1>3 DEF DepositTypeOK, booksVars, chainVars
<1>. QED  BY <1>1, <1>4, BooksStep DEF booksVars

\* The read writes nothing.
LEMMA ReadDepositStep ==
  ASSUME DepositInv, ReadDeposit
  PROVE  DepositInv'
<1>. USE DEF ReadDeposit, EventDone
<1>. DepositTypeOK
  BY DEF DepositInv
<1>1. page' \in {<<>>} \cup ((1..Len(events) + 1) \X (0..Len(events)))
  BY EventInHand DEF DepositTypeOK
<1>2. /\ UNCHANGED <<booksVars, chainVars, cursor, submitting, verifying, reconciling, claiming,
                     faults>>
      /\ decided' \in {"none", "flag", "confirm"}
  OBVIOUS
<1>3. DepositTypeOK'
  BY <1>1, <1>2 DEF DepositTypeOK, booksVars, chainVars
<1>. QED  BY <1>2, <1>3, BooksStep DEF booksVars

\* A deposit event confirms its sender, whose transaction landed.
LEMMA ApplyDepositStep ==
  ASSUME DepositInv, FlagDeposit \/ ConfirmDeposit
  PROVE  DepositInv'
<1>. USE DepositAssumption DEF EventDone
<1>. DepositTypeOK /\ Handling("deposit")
  BY DEF DepositInv, FlagDeposit, ConfirmDeposit
<1>1. PICK h \in Hashes : h = Subject /\ tx[h] = "success"
  <2>1. page[1] \in DOMAIN events /\ events[page[1]] \in EventSet
        /\ events[page[1]].kind = "deposit"
    BY EventInHand DEF Handling
  <2>. QED  BY <2>1, EventSubject DEF Subject, DepositInv, EventsTellTruth
<1>2. PaidBy(Sender[h]) /\ Sender[h] \in Wallets
  BY <1>1 DEF PaidBy
<1>3. page' \in {<<>>} \cup ((1..Len(events) + 1) \X (0..Len(events)))
  BY EventInHand DEF FlagDeposit, ConfirmDeposit
<1>4. /\ UNCHANGED <<leagueStatus, unhashed, tracked, chainVars, cursor, submitting, verifying,
                     reconciling, claiming, faults>>
      /\ decided' = "none"
  BY DEF FlagDeposit, ConfirmDeposit
<1>5. CASE ConfirmDeposit
  <2>. USE <1>5 DEF ConfirmDeposit
  <2>1. /\ payment' \in [Wallets -> PaymentStatuses]
        /\ \A v \in Wallets : payment'[v] = "PAYMENT_CONFIRMED" =>
               payment[v] = "PAYMENT_CONFIRMED" \/ PaidBy(v)
    BY <1>1, <1>2, PaymentSet DEF PaymentStatuses
  <2>2. /\ row' \in [Hashes -> RowStatuses] /\ claim' \in [Hashes -> ClaimStates]
        /\ address' \subseteq Wallets /\ exception' \subseteq Hashes
    BY <1>1, <1>2 DEF DepositTypeOK, RowStatuses, ClaimStates
  <2>3. DepositTypeOK'
    BY <1>3, <1>4, <2>1, <2>2 DEF DepositTypeOK, chainVars
  <2>4. \A k \in Hashes : claim'[k] = "PAID" => claim[k] = "PAID"
    BY DEF DepositTypeOK
  <2>. QED  BY <1>4, <2>1, <2>3, <2>4, BooksStep
<1>6. CASE FlagDeposit
  <2>1. exception' \subseteq Hashes /\ UNCHANGED <<payment, address, row, claim>>
    BY <1>1, <1>6 DEF FlagDeposit, DepositTypeOK
  <2>2. DepositTypeOK'
    BY <1>3, <1>4, <2>1 DEF DepositTypeOK, chainVars
  <2>. QED  BY <1>4, <2>1, <2>2, BooksStep
<1>. QED  BY <1>5, <1>6

\* The other events confirm nobody.
LEMMA ApplyOtherStep ==
  ASSUME DepositInv, ApplyEmergencyRefund \/ ApplyRefund \/ ApplyDepositRefunded
  PROVE  DepositInv'
<1>. USE DEF EventDone
<1>. DepositTypeOK
  BY DEF DepositInv
<1>1. page' \in {<<>>} \cup ((1..Len(events) + 1) \X (0..Len(events)))
  BY EventInHand DEF ApplyEmergencyRefund, ApplyRefund, ApplyDepositRefunded
<1>2. /\ payment' \in [Wallets -> PaymentStatuses]
      /\ \A v \in Wallets : payment'[v] = "PAYMENT_CONFIRMED" =>
             payment[v] = "PAYMENT_CONFIRMED"
  BY DEF ApplyEmergencyRefund, ApplyRefund, ApplyDepositRefunded, DepositTypeOK,
         PaymentStatuses
<1>3. claim' \in [Hashes -> ClaimStates]
  BY DEF ApplyEmergencyRefund, ApplyRefund, ApplyDepositRefunded, DepositTypeOK, ClaimStates
<1>4. /\ UNCHANGED <<address, row, unhashed, tracked, exception, chainVars, cursor, submitting,
                     verifying, reconciling, claiming, faults>>
      /\ leagueStatus' \in {"UPCOMING", "CANCELLED"}
      /\ decided' \in {"none", "flag", "confirm"}
  BY DEF ApplyEmergencyRefund, ApplyRefund, ApplyDepositRefunded, DepositTypeOK
<1>5. DepositTypeOK'
  BY <1>1, <1>2, <1>3, <1>4 DEF DepositTypeOK, chainVars
<1>6. \A h \in Hashes : claim'[h] = "PAID" => claim[h] = "PAID" \/ ReturnedTo(Sender[h])
  <2>1. CASE ApplyDepositRefunded
    <3>1. page[1] \in DOMAIN events /\ events[page[1]].kind = "DepositRefunded"
      BY <2>1, EventInHand DEF ApplyDepositRefunded, Handling
    <3>2. ReturnedTo(Subject)
      BY <3>1 DEF ReturnedTo, Subject
    <3>3. \A h \in Hashes : claim'[h] # claim[h] => Sender[h] = Subject
      BY <2>1 DEF ApplyDepositRefunded, ClaimsOf, DepositTypeOK
    <3>. QED  BY <3>2, <3>3
  <2>2. CASE UNCHANGED claim
    BY <2>2
  <2>. QED  BY <2>1, <2>2 DEF ApplyEmergencyRefund, ApplyRefund
<1>. QED  BY <1>2, <1>4, <1>5, <1>6, BooksStep

\* DepositInv is inductive.
LEMMA DepositNextKeeps ==
  ASSUME DepositInv, [DepositNext]_depositVars
  PROVE  DepositInv'
<1>1. CASE UNCHANGED depositVars
  <2>1. DepositTypeOK'
    BY <1>1 DEF depositVars, booksVars, chainVars, workVars, DepositInv, DepositTypeOK
  <2>. QED  BY <1>1, <2>1, BooksStep DEF depositVars, booksVars, workVars
<1>2. CASE DepositNext
  BY <1>2, IndexerPageStep, ReadDepositStep, ApplyDepositStep, ApplyOtherStep, CancelLeagueStep, RefundsStep,
     MemberRequestStep, ReconcileStep, ChainDepositsStep, ChainRejectsStep, VerifyStep,
     CoordinatorStep, ClaimRequestStep
     DEF DepositNext, IndexerStep
<1>. QED  BY <1>1, <1>2

\* Every state of the deposits satisfies DepositInv.
THEOREM DepositInvariant == DepositSpec => []DepositInv
<1>. QED  BY DepositInitially, DepositNextKeeps, PTL DEF DepositSpec

\* No writer confirms a member whose wallet never had a deposit land.
THEOREM ConfirmedMeansPaidHolds == DepositSpec => []ConfirmedMeansPaid
<1>1. DepositInv => ConfirmedMeansPaid
  BY DEF DepositInv
<1>. QED  BY <1>1, DepositInvariant, PTL

\* A claim is PAID only if the contract did pay its sender a deposit back, for
\* any number of wallets, requests, crashes and replays.
THEOREM PaidMeansReturnedHolds == DepositSpec => []PaidMeansReturned
<1>1. DepositInv => PaidMeansReturned
  BY DEF DepositInv, ClaimsReturned, ReturnedTo, PaidMeansReturned
<1>. QED  BY <1>1, DepositInvariant, PTL

\* A claim loses PAID only with its exception.
LEMMA PaidClaimStep ==
  ASSUME DepositTypeOK, [DepositNext]_depositVars, NEW h \in Hashes, claim[h] = "PAID"
  PROVE  claim'[h] = "PAID" \/ h \notin exception'
<1>. claim \in [Hashes -> ClaimStates]
  BY DEF DepositTypeOK
<1>1. CASE UNCHANGED claim
  BY <1>1
<1>2. CASE ReadDeposit \/ FlagDeposit \/ ConfirmDeposit
  BY <1>2 DEF ReadDeposit, FlagDeposit, ConfirmDeposit, booksVars
<1>3. CASE ApplyDepositRefunded
  BY <1>3 DEF ApplyDepositRefunded
<1>4. CASE \E k \in Hashes : ClaimStarts(k) \/ ClaimPaid(k) \/ ClaimFails(k)
  BY <1>4 DEF ClaimStarts, ClaimPaid, ClaimFails
<1>5. CASE IndexerPolls \/ IndexerSaves \/ IndexerCrashes \/ ResetCursor
           \/ ApplyEmergencyRefund \/ ApplyRefund \/ CancelLeague \/ RefundLeague
  BY <1>1, <1>5 DEF IndexerPolls, IndexerSaves, IndexerCrashes, ResetCursor,
     ApplyEmergencyRefund, ApplyRefund, CancelLeague, RefundLeague, booksVars
<1>6. CASE \E w \in Wallets : \/ ChainEmergencyRefunds(w) \/ CreatePaymentRequirement(w)
                              \/ ReconcileStarts(w) \/ ReconcileEnds(w)
  BY <1>1, <1>6 DEF ChainEmergencyRefunds, CreatePaymentRequirement, ReconcileStarts,
     ReconcileEnds, booksVars
<1>7. CASE \E k \in Hashes : \/ ChainDeposits(k) \/ ChainRejects(k)
                             \/ SubmitStarts(k) \/ SubmitWritesMember(k)
                             \/ SubmitWritesRow(k) \/ SubmitTracks(k) \/ SubmitCrashes(k)
                             \/ VerifyStarts(k) \/ VerifyEnds(k)
                             \/ CoordinatorFinalizes(k) \/ CoordinatorCrashes(k)
                             \/ ClaimExecutes(k)
  BY <1>1, <1>7 DEF ChainDeposits, ChainRejects, SubmitStarts, SubmitWritesMember,
     SubmitWritesRow, SubmitTracks, SubmitCrashes,
     VerifyStarts, VerifyEnds, CoordinatorFinalizes, CoordinatorCrashes, ClaimExecutes,
     booksVars
<1>8. CASE UNCHANGED depositVars
  BY <1>1, <1>8 DEF depositVars, booksVars
<1>. QED  BY <1>2, <1>3, <1>4, <1>5, <1>6, <1>7, <1>8 DEF DepositNext, IndexerStep

\* A claim that was paid stays paid or goes with its exception: a late
\* failure, a second claim and a replayed event cannot reopen it.
THEOREM PaidClaimStaysHolds == DepositSpec => PaidClaimStays
<1>1. DepositTypeOK /\ [DepositNext]_depositVars =>
        [\A h \in Hashes : claim[h] = "PAID" =>
            claim'[h] = "PAID" \/ h \notin exception']_depositVars
  BY PaidClaimStep
<1>2. DepositInv => DepositTypeOK
  BY DEF DepositInv
<1>. QED  BY <1>1, <1>2, DepositInvariant, PTL DEF DepositSpec, PaidClaimStays

(***************************************************************************)
(* The ingestion of contract events.                                       *)
(***************************************************************************)

Events == 1..Len(ledgerOf)

\* The node serves the events in ledger order.
LedgersSorted ==
    /\ \A p, q \in Events : p <= q => ledgerOf[p] <= ledgerOf[q]
    /\ \A p \in Events : ledgerOf[p] <= latestLedger
    /\ oldestLedger <= latestLedger

\* Event q is in the set, or the node dropped it.
SafeIn(q, S) == q \in S \/ ledgerOf[q] < oldestLedger

\* Nothing below an event of S is missing from S, unless the node dropped it.
GapFree(S) == \A p \in S, q \in Events : q < p => SafeIn(q, S)

\* The checkpoint c promises that what it is past is in S.
Covers(c, S) ==
    /\ c.lastLedger <= latestLedger
    /\ \A q \in Events : ledgerOf[q] <= c.lastLedger => SafeIn(q, S)
    /\ c.cursor # NoCursor =>
          /\ c.cursor.event <= Len(ledgerOf)
          /\ \A q \in Events : q <= c.cursor.event => SafeIn(q, S)

\* What a daemon holds is right however old it is: the checkpoint it loaded,
\* the page it fetched with the checkpoint it will write.
PollOK(r) ==
    /\ r.at = "loaded" => Covers(r.from, stored)
    /\ r.at = "fetched" =>
          /\ r.page \subseteq Events
          /\ GapFree(stored \cup r.page)
          /\ Covers(r.to, stored \cup r.page)

PollStates == {Idle} \cup [at : {"loaded"}, from : Checkpoints]
              \cup [at : {"fetched"}, page : SUBSET (1..MaxEvents), to : Checkpoints]

IngestionInv ==
    /\ IngestionTypeOK
    /\ LedgersSorted
    /\ GapFree(stored)
    /\ Covers(checkpoint, stored)
    /\ \A d \in Daemons : PollOK(poll[d])

-----------------------------------------------------------------------------

\* Ledgers are numbers.
LEMMA LedgerNumbers ==
  ASSUME IngestionTypeOK
  PROVE  /\ Len(ledgerOf) \in Nat /\ Len(ledgerOf) <= MaxEvents
         /\ latestLedger \in Nat \ {0} /\ oldestLedger \in Nat \ {0}
         /\ \A p \in Events : ledgerOf[p] \in 1..MaxLedgers /\ ledgerOf[p] \in Nat
<1>1. ledgerOf \in Seq(1..MaxLedgers)
  BY DEF IngestionTypeOK
<1>2. \A p \in Events : ledgerOf[p] \in 1..MaxLedgers
  <2>1. PICK S : S = 1..MaxLedgers
    OBVIOUS
  <2>2. ledgerOf \in Seq(S)
    BY <1>1, <2>1
  <2>3. ASSUME NEW p \in 1..Len(ledgerOf)
        PROVE  ledgerOf[p] \in S
    BY ONLY <2>2, p \in 1..Len(ledgerOf)
  <2>. QED  BY <2>1, <2>3 DEF Events
<1>. QED  BY <1>1, <1>2, IngestionAssumption DEF IngestionTypeOK

\* The events of a sorted log that are older than a ledger are a prefix, and
\* EventsBefore is its length.
LEMMA EventsBeforePrefix ==
  ASSUME IngestionTypeOK, LedgersSorted, NEW ledger \in Nat
  PROVE  /\ EventsBefore(ledger) \in 0..Len(ledgerOf)
         /\ \A q \in Events : q <= EventsBefore(ledger) <=> ledgerOf[q] < ledger
<1>. DEFINE Older == {p \in 1..Len(ledgerOf) : ledgerOf[p] < ledger}
            Newer == {p \in 1..Len(ledgerOf) : ~(ledgerOf[p] < ledger)}
<1>1. /\ Len(ledgerOf) \in Nat
      /\ \A p \in Events : ledgerOf[p] \in Nat
      /\ \A p, q \in Events : p <= q => ledgerOf[p] <= ledgerOf[q]
  BY LedgerNumbers DEF LedgersSorted
<1>2. \E k \in 0..Len(ledgerOf) : Older = 1..k
  <2>1. CASE Newer = {}
    <3>1. Older = 1..Len(ledgerOf)
      BY <2>1
    <3>. QED  BY <1>1, <3>1
  <2>2. CASE Newer # {}
    <3>1. Newer \subseteq Nat
      BY <1>1
    <3>2. PICK m \in Newer : \A y \in Newer : <<y, m>> \notin OpToRel(<, Nat)
      BY <2>2, <3>1, NatLessThanWellFounded, WFMin
    <3>3. ASSUME NEW y \in Newer
          PROVE  m <= y
      <4>0. m \in Nat /\ y \in Nat
        BY <3>1
      <4>1. <<y, m>> \in Nat \X Nat /\ <<y, m>>[1] = y /\ <<y, m>>[2] = m
        BY <4>0
      <4>2. y < m => <<y, m>> \in OpToRel(<, Nat)
        BY <4>1, Zenon DEF OpToRel
      <4>3. ~(y < m)
        BY <3>2, <4>2, Zenon
      <4>. QED  BY <4>0, <4>3
    <3>4. m \in 1..Len(ledgerOf) /\ ~(ledgerOf[m] < ledger)
      OBVIOUS
    <3>5. ASSUME NEW p \in 1..Len(ledgerOf)
          PROVE  ledgerOf[p] < ledger <=> p <= m - 1
      <4>1. CASE p < m
        <5>1. p \notin Newer
          BY <1>1, <3>3, <3>4, <4>1
        <5>. QED  BY <1>1, <3>4, <4>1, <5>1
      <4>2. CASE m <= p
        <5>1. ledgerOf[m] <= ledgerOf[p] /\ ledgerOf[m] \in Nat /\ ledgerOf[p] \in Nat
          BY <1>1, <3>4, <4>2 DEF Events
        <5>. QED  BY <1>1, <3>4, <4>2, <5>1
      <4>. QED  BY <1>1, <3>4, <4>1, <4>2
    <3>6. m - 1 \in 0..Len(ledgerOf)
      BY <1>1, <3>4
    <3>7. Older = 1..(m - 1)
      BY <1>1, <3>4, <3>5
    <3>. QED  BY <3>6, <3>7
  <2>. QED  BY <2>1, <2>2
<1>3. PICK k \in 0..Len(ledgerOf) : Older = 1..k
  BY <1>2
<1>4. Cardinality(1..k) = k
  BY <1>1, <1>3, FS_Interval
<1>5. EventsBefore(ledger) = k
  BY <1>3, <1>4 DEF EventsBefore
<1>6. ASSUME NEW q \in Events
      PROVE  q <= k <=> ledgerOf[q] < ledger
  <2>1. q \in Older <=> ledgerOf[q] < ledger
    BY DEF Events
  <2>2. q \in 1..k <=> q <= k
    BY <1>1 DEF Events
  <2>. QED  BY <1>3, <2>1, <2>2
<1>. QED  BY <1>5, <1>6

\* The page after event e: up to BatchSize events that follow it.
LEMMA PageIsInterval ==
  ASSUME IngestionTypeOK, NEW e \in 0..Len(ledgerOf)
  PROVE  LET batch == PageAfter(e)
             last == IF e + BatchSize <= Len(ledgerOf) THEN e + BatchSize ELSE Len(ledgerOf)
         IN  /\ batch = (e + 1)..last
             /\ FullPage(batch) <=> e + BatchSize <= Len(ledgerOf)
             /\ batch # {} => LastOf(batch) = last
<1>0. Len(ledgerOf) \in Nat /\ BatchSize \in Nat \ {0} /\ e \in Nat /\ e <= Len(ledgerOf)
  BY LedgerNumbers, IngestionAssumption
<1>1. PICK last : last = IF e + BatchSize <= Len(ledgerOf) THEN e + BatchSize
                         ELSE Len(ledgerOf)
  OBVIOUS
<1>2. last \in Nat /\ e <= last
  BY <1>0, <1>1
<1>3. PageAfter(e) = (e + 1)..last
  BY <1>0, <1>1, <1>2 DEF PageAfter
<1>4. FullPage(PageAfter(e)) <=> e + BatchSize <= Len(ledgerOf)
  <2>1. Cardinality((e + 1)..last) = last - e
    <3>1. /\ e + 1 \in Int /\ last \in Int
          /\ (IF e + 1 > last THEN 0 ELSE last - (e + 1) + 1) = last - e
      BY <1>0, <1>2
    <3>2. Cardinality((e + 1)..last) = IF e + 1 > last THEN 0 ELSE last - (e + 1) + 1
      BY <3>1, FS_Interval
    <3>. QED  BY <3>1, <3>2
  <2>. QED  BY <1>0, <1>1, <1>2, <1>3, <2>1 DEF FullPage
<1>5. ASSUME PageAfter(e) # {}
      PROVE  LastOf(PageAfter(e)) = last
  <2>1. last \in PageAfter(e) /\ \A q \in PageAfter(e) : q <= last
    BY <1>0, <1>2, <1>3, <1>5
  <2>2. \A p \in PageAfter(e) : (\A q \in PageAfter(e) : q <= p) => p = last
    BY <1>0, <1>2, <1>3, <2>1
  <2>. QED  BY <2>1, <2>2 DEF LastOf
<1>. QED  BY <1>1, <1>3, <1>4, <1>5

\* pollOnce: the page after a safe event leaves no gap, and the checkpoint
\* computed from it covers what is stored with the page.  A full page ends
\* within a ledger, so only the ledgers before its last count as read.
LEMMA FetchedIsSafe ==
  ASSUME IngestionTypeOK, LedgersSorted, GapFree(stored),
         NEW from \in Checkpoints, from.lastLedger <= latestLedger,
         NEW e \in 0..Len(ledgerOf),
         \A q \in Events : q <= e => SafeIn(q, stored)
  PROVE  LET batch == PageAfter(e)
             to == Checkpoint(LastLedger(from, batch), CursorAfter(batch))
         IN  /\ batch \subseteq Events /\ batch \in SUBSET (1..MaxEvents)
             /\ to \in Checkpoints
             /\ GapFree(stored \cup batch)
             /\ Covers(to, stored \cup batch)
<1>0. /\ Len(ledgerOf) \in Nat /\ BatchSize \in Nat \ {0} /\ e \in Nat /\ e <= Len(ledgerOf)
      /\ Len(ledgerOf) <= MaxEvents /\ MaxEvents \in Nat /\ MaxLedgers \in Nat
      /\ latestLedger \in 1..MaxLedgers
  BY LedgerNumbers, IngestionAssumption DEF IngestionTypeOK
<1>1. PICK last : last = IF e + BatchSize <= Len(ledgerOf) THEN e + BatchSize
                         ELSE Len(ledgerOf)
  OBVIOUS
<1>2. PICK batch : batch = PageAfter(e)
  OBVIOUS
<1>3. /\ batch = (e + 1)..last
      /\ FullPage(batch) <=> e + BatchSize <= Len(ledgerOf)
      /\ batch # {} => LastOf(batch) = last
  BY <1>1, <1>2, PageIsInterval
<1>4. last \in Nat /\ e <= last /\ last <= Len(ledgerOf)
  BY <1>0, <1>1
<1>5. batch \subseteq Events /\ batch \in SUBSET (1..MaxEvents)
  BY <1>0, <1>3, <1>4 DEF Events
<1>6. \A q \in Events : q <= last => SafeIn(q, stored \cup batch)
  BY <1>0, <1>3, <1>4 DEF SafeIn, Events
<1>7. GapFree(stored \cup batch)
  BY <1>0, <1>3, <1>4, <1>6 DEF GapFree, SafeIn, Events
<1>8. PICK ledger : ledger = LastLedger(from, batch)
  OBVIOUS
<1>9. PICK after : after = CursorAfter(batch)
  OBVIOUS
<1>10. batch # {} => last \in Events /\ ledgerOf[last] \in 1..MaxLedgers
  BY <1>0, <1>3, <1>4, LedgerNumbers DEF Events
<1>11. from.lastLedger \in 0..MaxLedgers
  BY DEF Checkpoints
<1>12. FullPage(batch) => batch # {} /\ last = e + BatchSize
  <2>1. FullPage(batch) => last = e + BatchSize
    BY <1>1, <1>3
  <2>2. last = e + BatchSize => last \in (e + 1)..last
    BY <1>0, <1>4
  <2>. QED  BY <1>3, <2>1, <2>2
<1>13. ~FullPage(batch) => last = Len(ledgerOf)
  BY <1>1, <1>3
<1>14. ledger \in 0..MaxLedgers /\ ledger <= latestLedger
  <2>1. batch # {} => ledgerOf[last] <= latestLedger
    BY <1>10 DEF LedgersSorted
  <2>2. batch # {} => ledger = ledgerOf[last] \/ ledger = ledgerOf[last] - 1
    BY <1>3, <1>8 DEF LastLedger
  <2>3. batch = {} => ledger = latestLedger
    BY <1>0, <1>8, <1>11 DEF LastLedger
  <2>. QED  BY <1>0, <1>10, <2>1, <2>2, <2>3
<1>15. \A q \in Events : ledgerOf[q] <= ledger => SafeIn(q, stored \cup batch)
  <2>1. CASE FullPage(batch)
    <3>1. ledger = ledgerOf[last] - 1 /\ last \in Events
      BY <1>3, <1>8, <1>10, <1>12, <2>1 DEF LastLedger
    <3>2. ASSUME NEW q \in Events, ledgerOf[q] <= ledger
          PROVE  q <= last
      <4>1. ledgerOf[q] \in Nat /\ ledgerOf[last] \in Nat /\ q \in Nat
        BY <3>1, LedgerNumbers DEF Events
      <4>2. ~(ledgerOf[last] <= ledgerOf[q])
        BY <3>1, <3>2, <4>1
      <4>3. ~(last <= q)
        BY <3>1, <4>2 DEF LedgersSorted
      <4>. QED  BY <1>4, <4>1, <4>3
    <3>. QED  BY <1>6, <3>2
  <2>2. CASE ~FullPage(batch)
    <3>1. \A q \in Events : q <= last
      BY <1>0, <1>13, <2>2 DEF Events
    <3>. QED  BY <1>6, <3>1
  <2>. QED  BY <2>1, <2>2
<1>16. /\ after \in [ledger : 0..MaxLedgers, event : 0..MaxEvents]
       /\ after.event = last
  <2>1. CASE FullPage(batch)
    <3>1. after = Cursor(ledgerOf[last], last)
      BY <1>3, <1>9, <1>12, <2>1 DEF CursorAfter
    <3>2. ledgerOf[last] \in 0..MaxLedgers /\ last \in 0..MaxEvents
      BY <1>0, <1>4, <1>10, <1>12, <2>1
    <3>. QED  BY <3>1, <3>2 DEF Cursor
  <2>2. CASE ~FullPage(batch)
    <3>1. after = Cursor(latestLedger, last)
      BY <1>9, <1>13, <2>2 DEF CursorAfter
    <3>2. latestLedger \in 0..MaxLedgers /\ last \in 0..MaxEvents
      BY <1>0, <1>4
    <3>. QED  BY <3>1, <3>2 DEF Cursor
  <2>. QED  BY <2>1, <2>2
<1>17. PICK to : to = Checkpoint(ledger, after)
  OBVIOUS
<1>18. to.lastLedger = ledger /\ to.cursor = after
  BY <1>17 DEF Checkpoint
<1>19. to \in Checkpoints
  BY <1>14, <1>16, <1>17 DEF Checkpoint, Checkpoints, Cursors
<1>20. Covers(to, stored \cup batch)
  BY <1>4, <1>6, <1>14, <1>15, <1>16, <1>18 DEF Covers
<1>. QED  BY <1>2, <1>5, <1>7, <1>8, <1>9, <1>17, <1>19, <1>20

\* A larger set of events covers as much.
LEMMA CoversMore ==
  ASSUME NEW c, NEW S, NEW T, S \subseteq T, Covers(c, S)
  PROVE  Covers(c, T)
BY DEF Covers, SafeIn

\* Two sets without gaps have none together.
LEMMA GapFreeUnion ==
  ASSUME NEW S, NEW T, GapFree(S), GapFree(T)
  PROVE  GapFree(S \cup T)
BY DEF GapFree, SafeIn

\* The node moves on: events are added in later ledgers and the oldest
\* ledgers are dropped.
LogMovesOn ==
    /\ Len(ledgerOf') \in Nat /\ Len(ledgerOf) <= Len(ledgerOf')
    /\ \A q \in 1..Len(ledgerOf) : ledgerOf'[q] = ledgerOf[q]
    /\ \A q \in 1..Len(ledgerOf') :
          ledgerOf'[q] \in Nat /\ (q > Len(ledgerOf) => ledgerOf'[q] > latestLedger)
    /\ latestLedger' \in Nat /\ latestLedger <= latestLedger'
    /\ oldestLedger' \in Nat /\ oldestLedger <= oldestLedger'

\* No set of events gets a gap by that.
LEMMA GapFreeStays ==
  ASSUME IngestionTypeOK, LogMovesOn, NEW S \in SUBSET Events, GapFree(S)
  PROVE  GapFree(S)'
<1>1. /\ Len(ledgerOf) \in Nat /\ oldestLedger \in Nat
      /\ \A q \in Events : ledgerOf[q] \in Nat
  BY LedgerNumbers
<1>2. ASSUME NEW p \in S, NEW q \in 1..Len(ledgerOf'), q < p
      PROVE  q \in S \/ ledgerOf'[q] < oldestLedger'
  <2>1. q \in Events /\ ledgerOf'[q] = ledgerOf[q]
    BY <1>1, <1>2 DEF LogMovesOn, Events
  <2>2. q \in S \/ ledgerOf[q] < oldestLedger
    BY <1>2, <2>1 DEF GapFree, SafeIn
  <2>. QED  BY <1>1, <2>1, <2>2 DEF LogMovesOn
<1>. QED  BY <1>2 DEF GapFree, SafeIn, Events

\* Nor does a checkpoint, however old, come to lie past an unread event.
LEMMA CoversStays ==
  ASSUME IngestionTypeOK, LogMovesOn, NEW c \in Checkpoints, NEW S, Covers(c, S)
  PROVE  Covers(c, S)'
<1>1. /\ Len(ledgerOf) \in Nat /\ oldestLedger \in Nat /\ latestLedger \in Nat
      /\ \A q \in Events : ledgerOf[q] \in Nat
  BY LedgerNumbers
<1>2. c.lastLedger \in Nat /\ (c.cursor # NoCursor => c.cursor.event \in Nat)
  BY DEF Checkpoints, Cursors
<1>3. ASSUME NEW q \in 1..Len(ledgerOf), SafeIn(q, S)
      PROVE  q \in S \/ ledgerOf'[q] < oldestLedger'
  <2>1. ledgerOf[q] \in Nat /\ ledgerOf'[q] = ledgerOf[q]
    BY <1>1 DEF LogMovesOn, Events
  <2>. QED  BY <1>1, <1>3, <2>1 DEF SafeIn, LogMovesOn
<1>4. ASSUME NEW q \in 1..Len(ledgerOf'), ledgerOf'[q] <= c.lastLedger
      PROVE  q \in S \/ ledgerOf'[q] < oldestLedger'
  <2>1. q <= Len(ledgerOf)
    <3>1. CASE q > Len(ledgerOf)
      <4>1. ledgerOf'[q] > latestLedger /\ c.lastLedger <= latestLedger
        BY <3>1 DEF LogMovesOn, Covers
      <4>2. ledgerOf'[q] \in Nat
        BY DEF LogMovesOn
      <4>. QED  BY <1>1, <1>2, <1>4, <4>1, <4>2
    <3>. QED  BY <1>1, <3>1 DEF LogMovesOn
  <2>2. q \in Events /\ ledgerOf'[q] = ledgerOf[q]
    BY <1>1, <2>1 DEF LogMovesOn, Events
  <2>. QED  BY <1>3, <1>4, <2>2 DEF Covers, Events
<1>5. ASSUME c.cursor # NoCursor
      PROVE  /\ c.cursor.event <= Len(ledgerOf')
             /\ \A q \in 1..Len(ledgerOf') :
                   q <= c.cursor.event => q \in S \/ ledgerOf'[q] < oldestLedger'
  <2>1. c.cursor.event <= Len(ledgerOf)
    BY <1>5 DEF Covers
  <2>2. c.cursor.event <= Len(ledgerOf')
    BY <1>1, <1>2, <1>5, <2>1 DEF LogMovesOn
  <2>3. ASSUME NEW q \in 1..Len(ledgerOf'), q <= c.cursor.event
        PROVE  q \in Events
    BY <1>1, <1>2, <1>5, <2>1, <2>3 DEF Events, LogMovesOn
  <2>. QED  BY <1>3, <1>5, <2>2, <2>3 DEF Covers, Events
<1>6. c.lastLedger <= latestLedger'
  BY <1>1, <1>2 DEF Covers, LogMovesOn
<1>. QED  BY <1>4, <1>5, <1>6 DEF Covers, SafeIn, Events

\* What a daemon holds stays right while the node moves on and the others
\* commit.
LEMMA PollStays ==
  ASSUME IngestionInv, LogMovesOn, NEW r \in PollStates, PollOK(r),
         stored \subseteq stored', stored' \in SUBSET Events, GapFree(stored'),
         LedgersSorted
  PROVE  PollOK(r)'
<1>. IngestionTypeOK
  BY DEF IngestionInv
<1>1. ASSUME r.at = "loaded"
      PROVE  Covers(r.from, stored)'
  <2>1. r.from \in Checkpoints
    BY <1>1 DEF PollStates, Idle
  <2>2. PICK T : T = stored'
    OBVIOUS
  <2>3. Covers(r.from, T)
    BY <1>1, <2>2, CoversMore DEF PollOK
  <2>4. Covers(r.from, T)'
    BY <2>1, <2>3, CoversStays
  <2>. QED  BY <2>2, <2>4
<1>2. ASSUME r.at = "fetched"
      PROVE  /\ r.page \subseteq Events'
             /\ GapFree(stored \cup r.page)'
             /\ Covers(r.to, stored \cup r.page)'
  <2>1. r.to \in Checkpoints
    BY <1>2 DEF PollStates, Idle
  <2>2. PICK T : T = stored' \cup r.page
    OBVIOUS
  <2>3. r.page \subseteq Events /\ T \in SUBSET Events
    BY <1>2, <2>2 DEF PollOK
  <2>4. GapFree(T)
    <3>1. T = stored' \cup (stored \cup r.page)
      BY <2>2
    <3>. QED  BY <1>2, <3>1, GapFreeUnion DEF PollOK
  <2>5. Covers(r.to, T)
    BY <1>2, <2>2, CoversMore DEF PollOK
  <2>6. GapFree(T)' /\ Covers(r.to, T)'
    BY <2>1, <2>3, <2>4, <2>5, GapFreeStays, CoversStays
  <2>7. Events \subseteq Events'
    BY LedgerNumbers DEF Events, LogMovesOn
  <2>. QED  BY <2>2, <2>3, <2>6, <2>7
<1>. QED  BY <1>1, <1>2 DEF PollOK

\* The log itself, in a step that leaves it alone.
LEMMA LogRests ==
  ASSUME IngestionTypeOK, UNCHANGED <<ledgerOf, latestLedger>>,
         oldestLedger' \in Nat, oldestLedger <= oldestLedger'
  PROVE  LogMovesOn
BY LedgerNumbers DEF LogMovesOn, Events

\* A concatenation has the elements of both sequences, in order.
LEMMA ConcatProperties ==
  ASSUME NEW S, NEW a \in Seq(S), NEW b \in Seq(S)
  PROVE  /\ a \o b \in Seq(S)
         /\ Len(a \o b) = Len(a) + Len(b)
         /\ \A q \in 1..Len(a) : (a \o b)[q] = a[q]
         /\ \A q \in 1..Len(a \o b) : q > Len(a) => (a \o b)[q] = b[q - Len(a)]
<1>1. a \o b \in Seq(S) /\ Len(a \o b) = Len(a) + Len(b) /\ Len(a) \in Nat /\ Len(b) \in Nat
  OBVIOUS
<1>2. \A q \in 1..Len(a) : (a \o b)[q] = a[q]
  OBVIOUS
<1>3. ASSUME NEW q \in 1..Len(a \o b), q > Len(a)
      PROVE  (a \o b)[q] = b[q - Len(a)]
  BY <1>1, <1>3
<1>. QED  BY <1>1, <1>2, <1>3

\* A ledger closes: its events come after all others.
LEMMA LedgerClosesStep ==
  ASSUME IngestionInv, NEW n \in 0..MaxEvents, LedgerCloses(n)
  PROVE  /\ IngestionInv'
         /\ LogMovesOn
<1>. USE DEF LedgerCloses
<1>. IngestionTypeOK /\ LedgersSorted
  BY DEF IngestionInv
<1>0. /\ Len(ledgerOf) \in Nat /\ n \in Nat /\ latestLedger \in Nat \ {0}
      /\ oldestLedger \in Nat \ {0} /\ MaxLedgers \in Nat /\ MaxEvents \in Nat
      /\ latestLedger + 1 \in 1..MaxLedgers
  BY LedgerNumbers, IngestionAssumption
<1>1. PICK S : S = 1..MaxLedgers
  OBVIOUS
<1>2. PICK more : more = [i \in 1..n |-> latestLedger + 1]
  OBVIOUS
<1>3. more \in Seq(S) /\ Len(more) = n /\ \A i \in 1..n : more[i] = latestLedger + 1
  BY <1>0, <1>1, <1>2
<1>4. ledgerOf \in Seq(S) /\ ledgerOf' = ledgerOf \o more
  BY <1>1, <1>2 DEF IngestionTypeOK
<1>5. /\ ledgerOf' \in Seq(S)
      /\ Len(ledgerOf') = Len(ledgerOf) + n
      /\ \A q \in 1..Len(ledgerOf) : ledgerOf'[q] = ledgerOf[q]
      /\ \A q \in 1..Len(ledgerOf') : q > Len(ledgerOf) => ledgerOf'[q] = more[q - Len(ledgerOf)]
  BY <1>3, <1>4, ConcatProperties
<1>6. \A q \in 1..Len(ledgerOf') : q > Len(ledgerOf) => ledgerOf'[q] = latestLedger + 1
  <2>1. ASSUME NEW q \in 1..Len(ledgerOf'), q > Len(ledgerOf)
        PROVE  q - Len(ledgerOf) \in 1..n
    BY <1>0, <1>5, <2>1
  <2>. QED  BY <1>3, <1>5, <2>1
<1>7. \A q \in 1..Len(ledgerOf) : ledgerOf'[q] \in Nat /\ ledgerOf'[q] <= latestLedger
  BY <1>5, LedgerNumbers DEF LedgersSorted, Events
<1>8. LogMovesOn
  BY <1>0, <1>5, <1>6, <1>7 DEF LogMovesOn
<1>9. LedgersSorted'
  <2>1. ASSUME NEW p \in 1..Len(ledgerOf'), NEW q \in 1..Len(ledgerOf'), p <= q
        PROVE  ledgerOf'[p] <= ledgerOf'[q]
    <3>1. CASE q <= Len(ledgerOf)
      <4>1. p \in Events /\ q \in Events
        BY <1>0, <1>5, <2>1, <3>1 DEF Events
      <4>. QED  BY <1>5, <2>1, <4>1 DEF LedgersSorted, Events
    <3>2. CASE p > Len(ledgerOf)
      BY <1>0, <1>5, <1>6, <2>1, <3>2
    <3>3. CASE p <= Len(ledgerOf) /\ q > Len(ledgerOf)
      <4>1. ledgerOf'[q] = latestLedger + 1
        BY <1>6, <3>3
      <4>2. ledgerOf'[p] \in Nat /\ ledgerOf'[p] <= latestLedger
        BY <1>0, <1>5, <1>7, <3>3
      <4>. QED  BY <1>0, <4>1, <4>2
    <3>. QED  BY <1>0, <1>5, <2>1, <3>1, <3>2, <3>3
  <2>2. \A p \in 1..Len(ledgerOf') : ledgerOf'[p] <= latestLedger'
    BY <1>0, <1>5, <1>6, <1>7
  <2>3. oldestLedger' <= latestLedger'
    BY <1>0 DEF LedgersSorted
  <2>. QED  BY <2>1, <2>2, <2>3 DEF LedgersSorted, Events
<1>10. stored \in SUBSET Events /\ Events \subseteq Events'
  BY <1>0, <1>5 DEF IngestionTypeOK, Events
<1>11. IngestionTypeOK'
  BY <1>0, <1>1, <1>5, <1>10 DEF IngestionTypeOK, Events
<1>12. PICK T : T = stored
  OBVIOUS
<1>13. GapFree(stored)' /\ Covers(checkpoint, stored)'
  <2>1. GapFree(T)'
    BY <1>8, <1>10, <1>12, GapFreeStays DEF IngestionInv
  <2>2. PICK c : c = checkpoint
    OBVIOUS
  <2>3. c \in Checkpoints /\ Covers(c, T)
    BY <1>12, <2>2 DEF IngestionInv, IngestionTypeOK
  <2>4. Covers(c, T)'
    BY <1>8, <2>3, CoversStays
  <2>. QED  BY <1>12, <2>1, <2>2, <2>4
<1>14. ASSUME NEW d \in Daemons
       PROVE  PollOK(poll[d])'
  <2>1. PICK r : r = poll[d]
    OBVIOUS
  <2>2. r \in PollStates /\ PollOK(r)
    BY <2>1 DEF IngestionInv, IngestionTypeOK, PollStates
  <2>3. PollOK(r)'
    BY <1>8, <1>10, <2>2, PollStays DEF IngestionInv
  <2>. QED  BY <2>1, <2>3
<1>. QED  BY <1>8, <1>9, <1>11, <1>13, <1>14 DEF IngestionInv

\* A step between two ledgers: events are committed, the checkpoint moves,
\* the node drops its oldest ledger, or a daemon goes on.
LEMMA BetweenLedgers ==
  ASSUME IngestionInv, UNCHANGED <<ledgerOf, latestLedger>>,
         oldestLedger' \in 1..MaxLedgers, oldestLedger <= oldestLedger',
         oldestLedger' <= latestLedger,
         stored \subseteq stored', stored' \in SUBSET Events, GapFree(stored'),
         checkpoint' \in Checkpoints, Covers(checkpoint', stored'),
         poll' \in [Daemons -> PollStates],
         \A d \in Daemons : poll'[d] = poll[d] \/ PollOK(poll'[d]),
         troubles' \in 0..MaxTroubles
  PROVE  IngestionInv'
<1>. IngestionTypeOK /\ LedgersSorted
  BY DEF IngestionInv
<1>1. LogMovesOn
  <2>1. oldestLedger' \in Nat
    BY IngestionAssumption
  <2>. QED  BY <2>1, LogRests
<1>2. IngestionTypeOK'
  BY DEF IngestionTypeOK, Events, PollStates
<1>3. LedgersSorted'
  BY DEF LedgersSorted, Events
<1>4. PICK T : T = stored'
  OBVIOUS
<1>5. PICK c : c = checkpoint'
  OBVIOUS
<1>6. GapFree(T)' /\ Covers(c, T)'
  <2>1. T \in SUBSET Events /\ GapFree(T) /\ c \in Checkpoints /\ Covers(c, T)
    BY <1>4, <1>5
  <2>. QED  BY <1>1, <2>1, GapFreeStays, CoversStays
<1>7. GapFree(stored)' /\ Covers(checkpoint, stored)'
  BY <1>4, <1>5, <1>6
<1>8. ASSUME NEW d \in Daemons
      PROVE  PollOK(poll[d])'
  <2>1. PICK r : r = poll'[d]
    OBVIOUS
  <2>2. r \in PollStates /\ PollOK(r)
    BY <2>1 DEF IngestionInv
  <2>3. PollOK(r)'
    BY <1>1, <2>2, PollStays
  <2>. QED  BY <2>1, <2>3
<1>. QED  BY <1>2, <1>3, <1>7, <1>8 DEF IngestionInv

\* Failures are counted.
LEMMA TroubleCounts ==
  ASSUME IngestionInv, Trouble \/ UNCHANGED troubles
  PROVE  troubles' \in 0..MaxTroubles
BY IngestionAssumption DEF IngestionInv, IngestionTypeOK, Trouble

\* The node drops a ledger, or the cursor is lost.
LEMMA NodePrunesStep ==
  ASSUME IngestionInv, NodePrunes \/ CursorLost
  PROVE  IngestionInv'
<1>. IngestionTypeOK /\ LedgersSorted
  BY DEF IngestionInv
<1>0. /\ stored \in SUBSET Events /\ GapFree(stored) /\ checkpoint \in Checkpoints
      /\ Covers(checkpoint, stored) /\ poll \in [Daemons -> PollStates]
      /\ latestLedger \in 1..MaxLedgers /\ oldestLedger \in 1..MaxLedgers
      /\ oldestLedger <= latestLedger
  BY DEF IngestionInv, IngestionTypeOK, Events, PollStates, LedgersSorted
<1>1. CASE NodePrunes
  <2>1. /\ oldestLedger' \in 1..MaxLedgers /\ oldestLedger <= oldestLedger'
        /\ oldestLedger' <= latestLedger
    BY <1>0, <1>1, IngestionAssumption DEF NodePrunes
  <2>. QED  BY <1>0, <1>1, <2>1, TroubleCounts, BetweenLedgers DEF NodePrunes
<1>2. CASE CursorLost
  <2>1. PICK old : old = checkpoint
    OBVIOUS
  <2>2. PICK c : c = [old EXCEPT !.cursor = NoCursor]
    OBVIOUS
  <2>3. c \in Checkpoints /\ c.lastLedger = old.lastLedger /\ c.cursor = NoCursor
    BY <1>0, <2>1, <2>2 DEF Checkpoints, Cursors
  <2>4. Covers(c, stored)
    BY <1>0, <2>1, <2>3 DEF Covers
  <2>5. checkpoint' = c
    BY <1>2, <2>1, <2>2 DEF CursorLost
  <2>6. troubles' \in 0..MaxTroubles
    BY <1>2, TroubleCounts DEF CursorLost
  <2>7. oldestLedger <= oldestLedger
    BY <1>0
  <2>. QED  BY <1>0, <1>2, <2>3, <2>4, <2>5, <2>6, <2>7, BetweenLedgers DEF CursorLost
<1>. QED  BY <1>1, <1>2

\* One daemon goes on and writes nothing.
LEMMA DaemonGoesOn ==
  ASSUME IngestionInv, NEW d \in Daemons, NEW r \in PollStates, PollOK(r),
         poll' = [poll EXCEPT ![d] = r],
         UNCHANGED <<ledgerOf, latestLedger, oldestLedger, stored, checkpoint>>,
         troubles' \in 0..MaxTroubles
  PROVE  IngestionInv'
<1>0. /\ stored \in SUBSET Events /\ GapFree(stored) /\ checkpoint \in Checkpoints
      /\ Covers(checkpoint, stored) /\ poll \in [Daemons -> PollStates]
      /\ oldestLedger \in 1..MaxLedgers
      /\ oldestLedger <= latestLedger /\ oldestLedger <= oldestLedger
  BY DEF IngestionInv, IngestionTypeOK, Events, PollStates, LedgersSorted
<1>1. poll' \in [Daemons -> PollStates]
      /\ \A b \in Daemons : poll'[b] = poll[b] \/ poll'[b] = r
  BY <1>0
<1>. QED  BY <1>0, <1>1, BetweenLedgers

\* A poll that ends, or has not begun, holds nothing.
LEMMA IdleOK == Idle \in PollStates /\ PollOK(Idle)
BY DEF Idle, PollStates, PollOK

\* Loading the checkpoint, and polls that fail.
LEMMA LoadOrFailStep ==
  ASSUME IngestionInv, NEW d \in Daemons,
         LoadCheckpoint(d) \/ NothingToResume(d) \/ PollFails(d)
  PROVE  IngestionInv'
<1>1. CASE LoadCheckpoint(d)
  <2>1. PICK r : r = [at |-> "loaded", from |-> checkpoint]
    OBVIOUS
  <2>2. r \in PollStates /\ r.at = "loaded" /\ r.from = checkpoint
    BY <2>1 DEF PollStates, IngestionInv, IngestionTypeOK
  <2>3. PollOK(r)
    BY <2>2 DEF PollOK, IngestionInv
  <2>. QED  BY <1>1, <2>1, <2>2, <2>3, TroubleCounts, DaemonGoesOn DEF LoadCheckpoint
<1>2. CASE NothingToResume(d) \/ PollFails(d)
  <2>1. /\ poll' = [poll EXCEPT ![d] = Idle]
        /\ UNCHANGED <<ledgerOf, latestLedger, oldestLedger, stored, checkpoint>>
        /\ Trouble \/ UNCHANGED troubles
    BY <1>2 DEF NothingToResume, PollFails
  <2>. QED  BY <2>1, IdleOK, TroubleCounts, DaemonGoesOn
<1>. QED  BY <1>1, <1>2

\* A fetch starts after an event below which nothing is missing: that of the
\* cursor, the last of the ledgers read, or the last the node dropped.
LEMMA FetchStep ==
  ASSUME IngestionInv, NEW d \in Daemons, FetchPage(d) \/ ResumeAtOldest(d)
  PROVE  IngestionInv'
<1>. IngestionTypeOK /\ LedgersSorted
  BY DEF IngestionInv
<1>1. PICK from : from = poll[d].from
  OBVIOUS
<1>2. from \in Checkpoints /\ Covers(from, stored)
  <2>1. poll[d] \in PollStates /\ poll[d].at = "loaded" /\ PollOK(poll[d])
    BY DEF IngestionInv, IngestionTypeOK, PollStates, FetchPage, ResumeAtOldest
  <2>2. poll[d].from \in Checkpoints
    BY <2>1 DEF PollStates, Idle
  <2>. QED  BY <1>1, <2>1, <2>2 DEF PollOK
<1>3. /\ from.lastLedger \in Nat /\ from.lastLedger <= latestLedger
      /\ from.cursor # NoCursor => from.cursor.event \in Nat
  BY <1>2 DEF Checkpoints, Cursors, Covers
<1>4. Len(ledgerOf) \in Nat /\ oldestLedger \in Nat
      /\ \A q \in Events : ledgerOf[q] \in Nat
  BY LedgerNumbers
<1>5. PICK e \in 0..Len(ledgerOf) : /\ Fetched(d, PageAfter(e))
                                    /\ \A q \in Events : q <= e => SafeIn(q, stored)
  <2>1. CASE FetchPage(d) /\ from.cursor # NoCursor
    <3>1. Fetched(d, PageAfter(from.cursor.event))
      BY <1>1, <2>1 DEF FetchPage
    <3>2. from.cursor.event \in 0..Len(ledgerOf)
      BY <1>2, <1>3, <1>4, <2>1 DEF Covers
    <3>. QED  BY <1>2, <2>1, <3>1, <3>2 DEF Covers
  <2>2. CASE FetchPage(d) /\ from.cursor = NoCursor
    <3>1. PICK e : e = EventsBefore(from.lastLedger + 1)
      OBVIOUS
    <3>2. Fetched(d, PageAfter(e))
      BY <1>1, <2>2, <3>1 DEF FetchPage
    <3>3. e \in 0..Len(ledgerOf) /\ \A q \in Events : q <= e => ledgerOf[q] < from.lastLedger + 1
      <4>1. from.lastLedger + 1 \in Nat
        BY <1>3
      <4>. QED  BY <3>1, <4>1, EventsBeforePrefix
    <3>4. \A q \in Events : q <= e => ledgerOf[q] <= from.lastLedger
      BY <1>3, <1>4, <3>3
    <3>. QED  BY <1>2, <3>2, <3>3, <3>4 DEF Covers
  <2>3. CASE ResumeAtOldest(d)
    <3>1. PICK ledger : ledger = IF oldestLedger > from.lastLedger + 1 THEN oldestLedger
                                 ELSE from.lastLedger + 1
      OBVIOUS
    <3>2. ledger \in Nat
      BY <1>3, <1>4, <3>1
    <3>3. PICK e : e = EventsBefore(ledger)
      OBVIOUS
    <3>4. Fetched(d, PageAfter(e))
      BY <1>1, <2>3, <3>1, <3>3 DEF ResumeAtOldest
    <3>5. e \in 0..Len(ledgerOf) /\ \A q \in Events : q <= e => ledgerOf[q] < ledger
      BY <3>2, <3>3, EventsBeforePrefix
    <3>6. ASSUME NEW q \in Events, q <= e
          PROVE  SafeIn(q, stored)
      <4>1. ledgerOf[q] \in Nat /\ ledgerOf[q] < ledger
        BY <1>4, <3>5, <3>6
      <4>2. ledgerOf[q] < oldestLedger \/ ledgerOf[q] <= from.lastLedger
        BY <1>3, <1>4, <3>1, <4>1
      <4>. QED  BY <1>2, <4>2 DEF Covers, SafeIn
    <3>. QED  BY <3>4, <3>5, <3>6
  <2>. QED  BY <2>1, <2>2, <2>3
<1>6. PICK batch : batch = PageAfter(e)
  OBVIOUS
<1>7. PICK to : to = Checkpoint(LastLedger(from, batch), CursorAfter(batch))
  OBVIOUS
<1>8. /\ batch \subseteq Events /\ batch \in SUBSET (1..MaxEvents)
      /\ to \in Checkpoints
      /\ GapFree(stored \cup batch)
      /\ Covers(to, stored \cup batch)
  BY <1>2, <1>3, <1>5, <1>6, <1>7, FetchedIsSafe DEF IngestionInv
<1>9. PICK r : r = [at |-> "fetched", page |-> batch, to |-> to]
  OBVIOUS
<1>10. r \in PollStates /\ r.at = "fetched" /\ r.page = batch /\ r.to = to
  BY <1>8, <1>9 DEF PollStates
<1>11. PollOK(r)
  BY <1>8, <1>10 DEF PollOK
<1>12. /\ poll' = [poll EXCEPT ![d] = r]
       /\ UNCHANGED <<ledgerOf, latestLedger, oldestLedger, stored, checkpoint, troubles>>
  BY <1>1, <1>5, <1>6, <1>7, <1>9 DEF Fetched
<1>. QED  BY <1>10, <1>11, <1>12, TroubleCounts, DaemonGoesOn

\* commitBatch stores the page with its checkpoint, in one transaction.
LEMMA CommitBatchStep ==
  ASSUME IngestionInv, NEW d \in Daemons, CommitBatch(d)
  PROVE  /\ IngestionInv'
         /\ stored \subseteq stored' /\ stored' \in SUBSET Events /\ GapFree(stored')
<1>. USE DEF CommitBatch
<1>. IngestionTypeOK /\ LedgersSorted
  BY DEF IngestionInv
<1>0. /\ stored \in SUBSET Events /\ poll \in [Daemons -> PollStates]
      /\ oldestLedger \in 1..MaxLedgers
      /\ oldestLedger <= latestLedger /\ oldestLedger <= oldestLedger
  BY DEF IngestionInv, IngestionTypeOK, Events, PollStates, LedgersSorted
<1>1. PICK r : r = poll[d]
  OBVIOUS
<1>2. r \in PollStates /\ r.at = "fetched" /\ PollOK(r)
  BY <1>0, <1>1 DEF IngestionInv
<1>3. r.to \in Checkpoints
  BY <1>2 DEF PollStates, Idle
<1>4. /\ r.page \subseteq Events /\ GapFree(stored \cup r.page)
      /\ Covers(r.to, stored \cup r.page)
  BY <1>2 DEF PollOK
<1>5. stored' = stored \cup r.page /\ checkpoint' = r.to
  BY <1>1
<1>6. poll' \in [Daemons -> PollStates]
      /\ \A b \in Daemons : poll'[b] = poll[b] \/ PollOK(poll'[b])
  BY <1>0, IdleOK
<1>7. stored \subseteq stored' /\ stored' \in SUBSET Events /\ GapFree(stored')
      /\ Covers(checkpoint', stored')
  BY <1>0, <1>4, <1>5
<1>. QED  BY <1>0, <1>3, <1>5, <1>6, <1>7, TroubleCounts, BetweenLedgers

\* The ingestion starts with an empty log.
LEMMA IngestionInitially ==
  ASSUME IngestionInit
  PROVE  IngestionInv
<1>. USE IngestionAssumption DEF IngestionInit
<1>1. Len(ledgerOf) = 0 /\ Events = {}
  BY DEF Events
<1>2. checkpoint \in Checkpoints /\ checkpoint.lastLedger = 0 /\ checkpoint.cursor = NoCursor
  BY DEF Checkpoint, Checkpoints, Cursors
<1>3. IngestionTypeOK
  BY <1>1, <1>2 DEF IngestionTypeOK
<1>4. LedgersSorted /\ GapFree(stored) /\ Covers(checkpoint, stored)
  BY <1>1, <1>2 DEF LedgersSorted, GapFree, Covers
<1>5. \A d \in Daemons : PollOK(poll[d])
  BY IdleOK
<1>. QED  BY <1>3, <1>4, <1>5 DEF IngestionInv

\* IngestionInv is inductive.
LEMMA IngestionNextKeeps ==
  ASSUME IngestionInv, [IngestionNext]_ingestionVars
  PROVE  IngestionInv'
<1>1. CASE UNCHANGED ingestionVars
  BY <1>1 DEF ingestionVars, IngestionInv, IngestionTypeOK, LedgersSorted, GapFree, Covers,
              PollOK, SafeIn, Events
<1>2. CASE IngestionNext
  BY <1>2, LedgerClosesStep, NodePrunesStep, LoadOrFailStep, FetchStep, CommitBatchStep
     DEF IngestionNext, PollOnce
<1>. QED  BY <1>1, <1>2

\* A step of the log the ingestion keeps, or none.
LEMMA LogStep ==
  ASSUME IngestionInv, IngestionInv', [IngestionNext]_ingestionVars
  PROVE  [Log!LogNext]_(Log!logVars)
<1>. IngestionTypeOK /\ LedgersSorted /\ LedgersSorted' /\ IngestionTypeOK'
  BY DEF IngestionInv
<1>0. Len(ledgerOf) \in Nat /\ oldestLedger \in Nat /\ latestLedger \in Nat
      /\ \A p \in Events : ledgerOf[p] \in Nat
  BY LedgerNumbers
<1>1. /\ EventsBefore(oldestLedger) \in 0..Len(ledgerOf)
      /\ \A q \in Events : q <= EventsBefore(oldestLedger) <=> ledgerOf[q] < oldestLedger
  BY <1>0, EventsBeforePrefix
<1>2. ASSUME NEW n \in 0..MaxEvents, LedgerCloses(n)
      PROVE  Log!Emit
  <2>1. /\ LogMovesOn /\ Len(ledgerOf') \in Nat /\ Len(ledgerOf') <= MaxEvents
    <3>1. LogMovesOn
      BY <1>2, LedgerClosesStep
    <3>2. Len(ledgerOf') <= MaxEvents
      BY DEF IngestionTypeOK
    <3>. QED  BY <3>1, <3>2 DEF LogMovesOn
  <2>2. Len(ledgerOf') \in Len(ledgerOf)..MaxEvents
    BY <1>0, <2>1, IngestionAssumption DEF LogMovesOn
  <2>3. oldestLedger' = oldestLedger /\ stored' = stored
    BY <1>2 DEF LedgerCloses
  <2>4. {p \in 1..Len(ledgerOf') : ledgerOf'[p] < oldestLedger'}
          = {p \in 1..Len(ledgerOf) : ledgerOf[p] < oldestLedger}
    <3>1. ASSUME NEW p \in 1..Len(ledgerOf'), ledgerOf'[p] < oldestLedger
          PROVE  p \in 1..Len(ledgerOf)
      <4>1. ledgerOf'[p] \in Nat /\ ~(ledgerOf'[p] > latestLedger)
        BY <1>0, <2>1, <3>1 DEF LogMovesOn, LedgersSorted
      <4>2. ~(p > Len(ledgerOf))
        BY <2>1, <4>1 DEF LogMovesOn
      <4>. QED  BY <1>0, <2>1, <4>2
    <3>2. 1..Len(ledgerOf) \subseteq 1..Len(ledgerOf')
      BY <1>0, <2>1 DEF LogMovesOn
    <3>3. \A p \in 1..Len(ledgerOf) : ledgerOf'[p] = ledgerOf[p]
      BY <2>1 DEF LogMovesOn
    <3>. QED  BY <2>3, <3>1, <3>2, <3>3
  <2>5. EventsBefore(oldestLedger)' = EventsBefore(oldestLedger)
    BY <2>4 DEF EventsBefore
  <2>. QED  BY <2>2, <2>3, <2>5 DEF Log!Emit
<1>3. CASE NodePrunes
  <2>1. /\ ledgerOf' = ledgerOf /\ stored' = stored /\ Len(ledgerOf)' = Len(ledgerOf)
        /\ oldestLedger' = oldestLedger + 1
    BY <1>3 DEF NodePrunes
  <2>2. PICK k : k = EventsBefore(oldestLedger)
    OBVIOUS
  <2>3. PICK m : m = EventsBefore(oldestLedger)'
    OBVIOUS
  <2>4. m = EventsBefore(oldestLedger + 1)
    BY <2>1, <2>3 DEF EventsBefore
  <2>5. m \in 0..Len(ledgerOf) /\ \A q \in Events : q <= m <=> ledgerOf[q] < oldestLedger + 1
    <3>1. oldestLedger + 1 \in Nat
      BY <1>0
    <3>. QED  BY <2>4, <3>1, EventsBeforePrefix
  <2>6. k <= m
    <3>1. k \in 0..Len(ledgerOf)
      BY <1>1, <2>2
    <3>2. CASE k = 0
      BY <1>0, <2>5, <3>2
    <3>3. CASE k # 0
      <4>1. k \in Events /\ k <= k
        BY <1>0, <3>1, <3>3 DEF Events
      <4>2. ledgerOf[k] < oldestLedger /\ ledgerOf[k] \in Nat
        BY <1>0, <1>1, <2>2, <4>1
      <4>3. ledgerOf[k] < oldestLedger + 1
        BY <1>0, <4>2
      <4>. QED  BY <2>5, <4>1, <4>3
    <3>. QED  BY <3>2, <3>3
  <2>7. m \in k..Len(ledgerOf)
    BY <1>0, <1>1, <2>2, <2>5, <2>6
  <2>. QED  BY <2>1, <2>2, <2>3, <2>7 DEF Log!LogNext, Log!Prune
<1>4. ASSUME NEW d \in Daemons, CommitBatch(d)
      PROVE  Log!Record
  <2>1. stored \subseteq stored' /\ stored' \in SUBSET Events /\ GapFree(stored')
    BY <1>4, CommitBatchStep
  <2>2. /\ ledgerOf' = ledgerOf /\ oldestLedger' = oldestLedger
        /\ Len(ledgerOf)' = Len(ledgerOf)
        /\ EventsBefore(oldestLedger)' = EventsBefore(oldestLedger)
    BY <1>4 DEF CommitBatch, EventsBefore
  <2>3. \A p \in stored', q \in 1..Len(ledgerOf) :
            q < p => q \in stored' \/ q <= EventsBefore(oldestLedger)
    BY <1>1, <2>1 DEF GapFree, SafeIn, Events
  <2>. QED  BY <2>1, <2>2, <2>3 DEF Log!Record, Events
<1>5. ASSUME UNCHANGED <<ledgerOf, oldestLedger, stored>>
      PROVE  UNCHANGED Log!logVars
  BY <1>5 DEF Log!logVars, EventsBefore
<1>6. CASE CursorLost \/ UNCHANGED ingestionVars
  BY <1>5, <1>6 DEF CursorLost, ingestionVars
<1>7. ASSUME NEW d \in Daemons, \/ LoadCheckpoint(d) \/ FetchPage(d) \/ ResumeAtOldest(d)
                                \/ NothingToResume(d) \/ PollFails(d)
      PROVE  UNCHANGED Log!logVars
  BY <1>5, <1>7 DEF LoadCheckpoint, FetchPage, ResumeAtOldest, NothingToResume, PollFails,
     Fetched
<1>. QED  BY <1>2, <1>3, <1>4, <1>6, <1>7 DEF IngestionNext, PollOnce, Log!LogNext

\* Every state of the ingestion satisfies IngestionInv.
THEOREM IngestionInvariant == IngestionSpec => []IngestionInv
<1>. QED  BY IngestionInitially, IngestionNextKeeps, PTL DEF IngestionSpec

\* The daemons implement ContractEventLog step by step: an empty log at the
\* start, and every step of theirs records without passing over an event the
\* node still serves, or changes nothing of the log.  (That no event waits
\* for ever is the liveness part of KeepsEventLog.)
THEOREM IngestionKeepsLog ==
  IngestionSpec => Log!LogInit /\ [][Log!LogNext]_(Log!logVars)
<1>1. IngestionInit => Log!LogInit
  <2>1. ASSUME IngestionInit
        PROVE  EventsBefore(oldestLedger) = 0
    <3>1. {p \in 1..Len(ledgerOf) : ledgerOf[p] < oldestLedger} = {}
      BY <2>1 DEF IngestionInit
    <3>. QED  BY <3>1, FS_EmptySet DEF EventsBefore
  <2>. QED  BY <2>1 DEF IngestionInit, Log!LogInit
<1>2. IngestionInv /\ IngestionInv' /\ [IngestionNext]_ingestionVars
        => [Log!LogNext]_(Log!logVars)
  BY LogStep
<1>. QED  BY <1>1, <1>2, IngestionInvariant, PTL DEF IngestionSpec

=============================================================================
