--------------------------- MODULE ServicesProofs ---------------------------
(***************************************************************************)
(* Proofs about the services of the backend that answer requests: the      *)
(* idempotency keys, the membership of a league and the draft room, for    *)
(* any number of requests, users, invitations and squads.                  *)
(***************************************************************************)
EXTENDS IdempotencyKeys, LeagueMembership, DraftRoom, Integers, FiniteSetTheorems,
        WellFoundedInduction, TLAPS

(***************************************************************************)
(* Idempotency keys.                                                       *)
(***************************************************************************)

\* The requests whose handler may still succeed, or did.
Runners == {a \in Attempts : at[a] \in {"running", "detached"} \/ result[a] = "success"}

\* Those that do not hold the key any more.  Every one of them cost a lapse.
Lost == {a \in Runners : ~Owns(a)}

LostByLapses == IsFiniteSet(Lost) /\ Cardinality(Lost) <= lapses

\* A request that has not run has no result, and the record of the key is
\* its owner's.
RecordOK ==
    /\ \A a \in Attempts : at[a] \in {"new", "claimed"} => result[a] = "none"
    /\ \A a \in Attempts : at[a] = "answered" => result[a] # "none"
    /\ record # NoRecord =>
          /\ record.fingerprint = body[record.token]
          /\ record.state \in {"COMPLETED", "FAILED"} => result[record.token] # "none"

\* A client that is given a stored response sent that very request.
AnswersOK ==
    \A a \in Attempts : answer[a] \in Attempts =>
        body[answer[a]] = body[a] /\ result[answer[a]] # "none"

IdempotencyInv == IdempotencyTypeOK /\ LostByLapses /\ RecordOK /\ AnswersOK

-----------------------------------------------------------------------------

\* No request has run.
LEMMA IdempotencyInitially ==
  ASSUME IdempotencyInit
  PROVE  IdempotencyInv
<1>. USE IdempotencyAssumption DEF IdempotencyInit
<1>1. IdempotencyTypeOK
  BY DEF IdempotencyTypeOK
<1>2. Lost = {}
  BY DEF Lost, Runners
<1>3. LostByLapses
  BY <1>2, FS_EmptySet DEF LostByLapses
<1>4. RecordOK /\ AnswersOK
  BY DEF RecordOK, AnswersOK
<1>. QED  BY <1>1, <1>3, <1>4 DEF IdempotencyInv

\* Lapses are counted up to their bound.
LEMMA LapsesCounted ==
  ASSUME IdempotencyInv
  PROVE  lapses \in Nat /\ MaxLapses \in Nat /\ LostByLapses
<1>1. MaxLapses \in Nat
  BY IdempotencyAssumption
<1>2. lapses \in 0..MaxLapses
  BY DEF IdempotencyInv, IdempotencyTypeOK
<1>. QED  BY <1>1, <1>2 DEF IdempotencyInv

\* A step that loses nobody.
LEMMA NobodyLost ==
  ASSUME IdempotencyInv, Lost' \subseteq Lost, lapses' = lapses
  PROVE  LostByLapses'
<1>. LostByLapses /\ lapses \in Nat
  BY LapsesCounted
<1>1. IsFiniteSet(Lost') /\ Cardinality(Lost') <= Cardinality(Lost)
  BY FS_Subset DEF LostByLapses
<1>2. Cardinality(Lost) \in Nat /\ Cardinality(Lost') \in Nat
  BY <1>1, FS_CardinalityType DEF LostByLapses
<1>. QED  BY <1>1, <1>2 DEF LostByLapses

\* A step that loses one request to a lapse.
LEMMA OneLost ==
  ASSUME IdempotencyInv, NEW x, Lost' \subseteq Lost \cup {x}, Lapse
  PROVE  LostByLapses' /\ lapses' \in 0..MaxLapses
<1>. LostByLapses /\ lapses \in Nat /\ lapses' = lapses + 1 /\ lapses < MaxLapses
  BY LapsesCounted DEF Lapse
<1>1. /\ IsFiniteSet(Lost \cup {x})
      /\ Cardinality(Lost \cup {x}) = IF x \in Lost THEN Cardinality(Lost) ELSE Cardinality(Lost) + 1
  BY FS_AddElement DEF LostByLapses
<1>2. IsFiniteSet(Lost') /\ Cardinality(Lost') <= Cardinality(Lost \cup {x})
  BY <1>1, FS_Subset
<1>3. /\ Cardinality(Lost) \in Nat /\ Cardinality(Lost') \in Nat
      /\ Cardinality(Lost \cup {x}) \in Nat
  BY <1>1, <1>2, FS_CardinalityType DEF LostByLapses
<1>. QED  BY <1>1, <1>2, <1>3, LapsesCounted DEF LostByLapses

\* What a record of the key says.
LEMMA RecordFields ==
  ASSUME IdempotencyTypeOK, NEW a \in Attempts, NEW s \in States
  PROVE  /\ Record(s, a) \in Records /\ Record(s, a) # NoRecord
         /\ Record(s, a).state = s /\ Record(s, a).token = a
         /\ Record(s, a).fingerprint = body[a]
<1>1. body[a] \in Bodies
  BY DEF IdempotencyTypeOK
<1>2. Record(s, a) \in Records
  BY <1>1 DEF Record, Records
<1>. QED  BY <1>2, IdempotencyAssumption DEF Record

\* The key is free, and the request takes it.
LEMMA ClaimStep ==
  ASSUME IdempotencyInv, NEW a \in Attempts, Claim(a)
  PROVE  IdempotencyInv'
<1>. USE DEF Claim
<1>. IdempotencyTypeOK
  BY DEF IdempotencyInv
<1>1. PICK r : r = Record("PENDING", a)
  OBVIOUS
<1>2. /\ r \in Records /\ r # NoRecord /\ r.state = "PENDING" /\ r.token = a
      /\ r.fingerprint = body[a] /\ record' = r
  BY <1>1, RecordFields DEF States
<1>3. at' \in [Attempts -> {"new", "claimed", "running", "detached", "answered", "done"}]
      /\ at'[a] = "claimed" /\ \A b \in Attempts \ {a} : at'[b] = at[b]
  BY DEF IdempotencyTypeOK
<1>4. IdempotencyTypeOK'
  BY <1>2, <1>3 DEF IdempotencyTypeOK
<1>5. Lost' \subseteq Lost
  BY <1>3 DEF Lost, Runners, Owns
<1>6. LostByLapses'
  BY <1>5, NobodyLost
<1>7. RecordOK'
  BY <1>2, <1>3 DEF RecordOK, IdempotencyInv
<1>8. AnswersOK'
  BY DEF AnswersOK, IdempotencyInv
<1>. QED  BY <1>4, <1>6, <1>7, <1>8 DEF IdempotencyInv

\* A duplicate is answered and does not run.
LEMMA DuplicateStep ==
  ASSUME IdempotencyInv, NEW a \in Attempts, Duplicate(a)
  PROVE  IdempotencyInv'
<1>. USE DEF Duplicate, Reply
<1>. IdempotencyTypeOK
  BY DEF IdempotencyInv
<1>1. record \in Records
  BY DEF IdempotencyTypeOK
<1>2. record.token \in Attempts
  BY <1>1 DEF Records
<1>3. PICK x : x = IF record.fingerprint # body[a] THEN "422"
                   ELSE IF record.state \in {"COMPLETED", "FAILED"} THEN record.token
                   ELSE "409"
  OBVIOUS
<1>4. /\ x \in {"none"} \cup Refusals \cup Attempts
      /\ x \in Attempts => body[x] = body[a] /\ result[x] # "none"
  BY <1>2, <1>3, IdempotencyAssumption DEF Refusals, IdempotencyInv, RecordOK
<1>5. /\ at' \in [Attempts -> {"new", "claimed", "running", "detached", "answered", "done"}]
      /\ at'[a] = "done" /\ \A b \in Attempts \ {a} : at'[b] = at[b]
  BY DEF IdempotencyTypeOK
<1>6. /\ answer' \in [Attempts -> {"none"} \cup Refusals \cup Attempts]
      /\ answer'[a] = x /\ \A b \in Attempts \ {a} : answer'[b] = answer[b]
  BY <1>3, <1>4 DEF IdempotencyTypeOK
<1>7. IdempotencyTypeOK'
  BY <1>5, <1>6 DEF IdempotencyTypeOK
<1>8. Lost' \subseteq Lost
  BY <1>5 DEF Lost, Runners, Owns
<1>9. LostByLapses'
  BY <1>8, NobodyLost
<1>10. RecordOK'
  BY <1>5 DEF RecordOK, IdempotencyInv
<1>11. AnswersOK'
  BY <1>4, <1>6 DEF AnswersOK, IdempotencyInv
<1>. QED  BY <1>7, <1>9, <1>10, <1>11 DEF IdempotencyInv

\* The handler starts under the request's own key; a heartbeat writes that key
\* again.
LEMMA InProgressStep ==
  ASSUME IdempotencyInv, NEW a \in Attempts, Owns(a), record' = Record("IN_PROGRESS", a),
         \/ at' = at
         \/ at[a] = "claimed" /\ at' = [at EXCEPT ![a] = "running"],
         beating' \in SUBSET Attempts, UNCHANGED <<body, result, answer, lapses>>
  PROVE  IdempotencyInv'
<1>. IdempotencyTypeOK
  BY DEF IdempotencyInv
<1>1. PICK r : r = Record("IN_PROGRESS", a)
  OBVIOUS
<1>2. /\ r \in Records /\ r # NoRecord /\ r.state = "IN_PROGRESS" /\ r.token = a
      /\ r.fingerprint = body[a] /\ record' = r
  BY <1>1, RecordFields DEF States
<1>3. /\ at' \in [Attempts -> {"new", "claimed", "running", "detached", "answered", "done"}]
      /\ at'[a] \in {at[a], "running"} /\ \A b \in Attempts \ {a} : at'[b] = at[b]
  BY DEF IdempotencyTypeOK
<1>4. IdempotencyTypeOK'
  BY <1>2, <1>3 DEF IdempotencyTypeOK
<1>5. Lost' \subseteq Lost
  BY <1>2, <1>3 DEF Lost, Runners, Owns
<1>6. LostByLapses'
  BY <1>5, NobodyLost
<1>7. RecordOK'
  BY <1>2, <1>3 DEF RecordOK, IdempotencyInv
<1>8. AnswersOK'
  BY DEF AnswersOK, IdempotencyInv
<1>. QED  BY <1>4, <1>6, <1>7, <1>8 DEF IdempotencyInv

\* A heartbeat that only reads, or finds another token.
LEMMA BeatStep ==
  ASSUME IdempotencyInv, beating' \in SUBSET Attempts,
         UNCHANGED <<record, body, at, result, answer, lapses>>
  PROVE  IdempotencyInv'
<1>1. Lost' \subseteq Lost
  BY DEF Lost, Runners, Owns
<1>2. LostByLapses'
  BY <1>1, NobodyLost
<1>3. IdempotencyTypeOK' /\ RecordOK' /\ AnswersOK'
  BY DEF IdempotencyInv, IdempotencyTypeOK, RecordOK, AnswersOK
<1>. QED  BY <1>2, <1>3 DEF IdempotencyInv

\* The handler starts, and its lock is kept alive.
LEMMA StartStep ==
  ASSUME IdempotencyInv, NEW a \in Attempts,
         Start(a) \/ HeartbeatReads(a) \/ HeartbeatWrites(a)
  PROVE  IdempotencyInv'
<1>0. beating \in SUBSET Attempts
  BY DEF IdempotencyInv, IdempotencyTypeOK
<1>1. CASE Start(a)
  BY <1>0, <1>1, InProgressStep DEF Start
<1>2. CASE HeartbeatReads(a)
  BY <1>0, <1>2, BeatStep DEF HeartbeatReads
<1>3. CASE HeartbeatWrites(a) /\ Owns(a)
  BY <1>0, <1>3, InProgressStep DEF HeartbeatWrites
<1>4. CASE HeartbeatWrites(a) /\ ~Owns(a)
  BY <1>0, <1>4, BeatStep DEF HeartbeatWrites
<1>. QED  BY <1>1, <1>2, <1>3, <1>4

\* The lock is lost, or Redis: the handler does not run.
LEMMA StartFailsStep ==
  ASSUME IdempotencyInv, NEW a \in Attempts, StartFails(a)
  PROVE  IdempotencyInv'
<1>. USE DEF StartFails
<1>. IdempotencyTypeOK
  BY DEF IdempotencyInv
<1>1. /\ at' \in [Attempts -> {"new", "claimed", "running", "detached", "answered", "done"}]
      /\ at'[a] = "done" /\ \A b \in Attempts \ {a} : at'[b] = at[b]
  BY DEF IdempotencyTypeOK, Reply
<1>2. /\ answer' \in [Attempts -> {"none"} \cup Refusals \cup Attempts]
      /\ answer'[a] = "503" /\ \A b \in Attempts \ {a} : answer'[b] = answer[b]
  BY DEF IdempotencyTypeOK, Reply, Refusals
<1>3. IdempotencyTypeOK'
  BY <1>1, <1>2 DEF IdempotencyTypeOK
<1>4. Lost' \subseteq Lost
  BY <1>1, <1>2 DEF Lost, Runners, Owns
<1>5. LostByLapses'
  BY <1>4, NobodyLost
<1>6. RecordOK'
  BY <1>1, <1>2 DEF RecordOK, IdempotencyInv
<1>7. AnswersOK'
  BY <1>2, IdempotencyAssumption DEF AnswersOK, IdempotencyInv, Refusals
<1>. QED  BY <1>3, <1>5, <1>6, <1>7 DEF IdempotencyInv

\* The handler ends, for its client or after the connection dropped.
LEMMA HandlerStep ==
  ASSUME IdempotencyInv, NEW a \in Attempts,
         NEW o \in {"success", "client error", "transient"},
         HandlerAnswers(a, o) \/ DetachedHandlerEnds(a, o)
  PROVE  IdempotencyInv'
<1>. USE DEF HandlerAnswers, DetachedHandlerEnds
<1>. IdempotencyTypeOK
  BY DEF IdempotencyInv
<1>1. /\ at' \in [Attempts -> {"new", "claimed", "running", "detached", "answered", "done"}]
      /\ at'[a] \in {"answered", "done"} /\ \A b \in Attempts \ {a} : at'[b] = at[b]
  BY DEF IdempotencyTypeOK
<1>2. /\ result' \in [Attempts -> {"none", "success", "client error", "transient"}]
      /\ result'[a] = o /\ \A b \in Attempts \ {a} : result'[b] = result[b]
  BY DEF IdempotencyTypeOK
<1>3. /\ answer' \in [Attempts -> {"none"} \cup Refusals \cup Attempts]
      /\ answer'[a] = a \/ answer'[a] = answer[a]
      /\ \A b \in Attempts \ {a} : answer'[b] = answer[b]
  <2>1. CASE answer' = [answer EXCEPT ![a] = a]
    BY <2>1 DEF IdempotencyTypeOK
  <2>2. CASE answer' = answer
    BY <2>2 DEF IdempotencyTypeOK
  <2>. QED  BY <2>1, <2>2
<1>4. UNCHANGED <<record, body, lapses>>
  OBVIOUS
<1>5. IdempotencyTypeOK'
  BY <1>1, <1>2, <1>3, <1>4 DEF IdempotencyTypeOK
<1>6. Lost' \subseteq Lost
  <2>1. a \in Runners
    BY DEF Runners
  <2>. QED  BY <1>1, <1>2, <1>4, <2>1 DEF Lost, Runners, Owns
<1>7. LostByLapses'
  BY <1>4, <1>6, NobodyLost
<1>8. RecordOK'
  <2>1. record # NoRecord => record.token \in Attempts
    BY DEF IdempotencyTypeOK, Records
  <2>. QED  BY <1>1, <1>2, <1>4, <2>1, ZenonT(60) DEF RecordOK, IdempotencyInv
<1>9. ASSUME NEW b \in Attempts, answer'[b] \in Attempts
      PROVE  body'[answer'[b]] = body'[b] /\ result'[answer'[b]] # "none"
  <2>1. \A c \in Attempts : result[c] # "none" => result'[c] # "none"
    BY ONLY <1>2
  <2>2. CASE answer'[b] = answer[b]
    <3>1. body[answer[b]] = body[b] /\ result[answer[b]] # "none"
      BY <1>9, <2>2, Zenon DEF AnswersOK, IdempotencyInv
    <3>. QED  BY ONLY <1>4, <1>9, <2>1, <2>2, <3>1
  <2>3. CASE b = a /\ answer'[b] = a
    BY ONLY <1>2, <1>4, <2>3
  <2>. QED  BY ONLY <1>3, <1>9, <2>2, <2>3
<1>10. AnswersOK'
  BY <1>9, Zenon DEF AnswersOK
<1>. QED  BY <1>5, <1>7, <1>8, <1>10 DEF IdempotencyInv

\* settle: the response is stored, or the key is freed for a retry.
LEMMA SettleStep ==
  ASSUME IdempotencyInv, NEW a \in Attempts, Settle(a)
  PROVE  IdempotencyInv'
<1>. USE DEF Settle
<1>. IdempotencyTypeOK
  BY DEF IdempotencyInv
<1>1. /\ at' \in [Attempts -> {"new", "claimed", "running", "detached", "answered", "done"}]
      /\ at'[a] = "done" /\ \A b \in Attempts \ {a} : at'[b] = at[b]
  BY DEF IdempotencyTypeOK
<1>2. result[a] # "none"
  BY DEF IdempotencyInv, RecordOK
<1>3. /\ record' \in {NoRecord} \cup Records
      /\ record' # NoRecord =>
            /\ record'.fingerprint = body[record'.token]
            /\ record'.state \in {"COMPLETED", "FAILED"} => result[record'.token] # "none"
      /\ Owns(a) /\ result[a] = "success" => record' # NoRecord /\ record'.token = a
      /\ ~Owns(a) => record' = record
  <2>1. CASE record' = record
    BY <2>1 DEF IdempotencyInv, RecordOK, IdempotencyTypeOK, Owns
  <2>2. CASE record' # record /\ Owns(a) /\ result[a] = "transient"
    BY <2>2
  <2>3. CASE record' # record /\ Owns(a) /\ result[a] # "transient"
    <3>1. PICK s \in {"COMPLETED", "FAILED"} : record' = Record(s, a)
      BY <2>3
    <3>2. /\ record' \in Records /\ record' # NoRecord /\ record'.token = a
          /\ record'.fingerprint = body[a]
      BY <3>1, RecordFields DEF States
    <3>. QED  BY <1>2, <2>3, <3>2
  <2>. QED  BY <2>1, <2>2, <2>3
<1>4. IdempotencyTypeOK'
  BY <1>1, <1>3 DEF IdempotencyTypeOK
<1>5. Lost' \subseteq Lost
  BY <1>1, <1>3 DEF Lost, Runners, Owns
<1>6. LostByLapses'
  BY <1>5, NobodyLost
<1>7. RecordOK'
  BY <1>1, <1>3 DEF RecordOK, IdempotencyInv
<1>8. AnswersOK'
  BY DEF AnswersOK, IdempotencyInv
<1>. QED  BY <1>4, <1>6, <1>7, <1>8 DEF IdempotencyInv

\* A dropped connection loses the request, an expired record its owner.
LEMMA LapseStep ==
  ASSUME IdempotencyInv, RecordExpires \/ \E a \in Attempts : ConnectionDrops(a)
  PROVE  IdempotencyInv'
<1>. IdempotencyTypeOK
  BY DEF IdempotencyInv
<1>1. CASE RecordExpires
  <2>1. Lost' \subseteq Lost \cup {record.token}
    BY <1>1 DEF RecordExpires, Lost, Runners, Owns
  <2>2. LostByLapses' /\ lapses' \in 0..MaxLapses
    BY <1>1, <2>1, OneLost DEF RecordExpires
  <2>3. IdempotencyTypeOK' /\ RecordOK' /\ AnswersOK'
    BY <1>1, <2>2 DEF RecordExpires, IdempotencyInv, IdempotencyTypeOK, RecordOK, AnswersOK
  <2>. QED  BY <2>2, <2>3 DEF IdempotencyInv
<1>2. ASSUME NEW a \in Attempts, ConnectionDrops(a)
      PROVE  IdempotencyInv'
  <2>. USE <1>2 DEF ConnectionDrops
  <2>1. /\ at' \in [Attempts -> {"new", "claimed", "running", "detached", "answered", "done"}]
        /\ at'[a] = "detached" /\ \A b \in Attempts \ {a} : at'[b] = at[b]
    BY DEF IdempotencyTypeOK
  <2>2. Lost' \subseteq Lost \cup {a}
    BY <2>1 DEF Lost, Runners, Owns
  <2>3. LostByLapses' /\ lapses' \in 0..MaxLapses
    BY <2>2, OneLost
  <2>4. IdempotencyTypeOK'
    BY <2>1, <2>3 DEF IdempotencyTypeOK
  <2>5. RecordOK' /\ AnswersOK'
    BY <2>1 DEF RecordOK, AnswersOK, IdempotencyInv
  <2>. QED  BY <2>3, <2>4, <2>5 DEF IdempotencyInv
<1>. QED  BY <1>1, <1>2

\* IdempotencyInv is inductive.
LEMMA IdempotencyNextKeeps ==
  ASSUME IdempotencyInv, [IdempotencyNext]_idempotencyVars
  PROVE  IdempotencyInv'
<1>1. CASE UNCHANGED idempotencyVars
  <2>. USE <1>1 DEF idempotencyVars
  <2>1. Lost' \subseteq Lost
    BY DEF Lost, Runners, Owns
  <2>2. LostByLapses'
    BY <2>1, NobodyLost
  <2>3. IdempotencyTypeOK' /\ RecordOK' /\ AnswersOK'
    BY DEF IdempotencyInv, IdempotencyTypeOK, RecordOK, AnswersOK
  <2>. QED  BY <2>2, <2>3 DEF IdempotencyInv
<1>2. CASE IdempotencyNext
  BY <1>2, ClaimStep, DuplicateStep, StartStep, StartFailsStep, HandlerStep, SettleStep,
     LapseStep DEF IdempotencyNext
<1>. QED  BY <1>1, <1>2

\* Every state satisfies IdempotencyInv.
THEOREM IdempotencyInvariant == IdempotencySpec => []IdempotencyInv
<1>. QED  BY IdempotencyInitially, IdempotencyNextKeeps, PTL DEF IdempotencySpec

\* Retries of one request change the system once, but for the lapses, and a
\* stored response is given only to the request it answers.
THEOREM RunsOnceUnlessLapsedHolds == IdempotencySpec => []RunsOnceUnlessLapsed
<1>1. ASSUME IdempotencyInv
      PROVE  RunsOnceUnlessLapsed
  <2>. DEFINE Winners == {a \in Attempts : result[a] = "success"}
  <2>0. lapses \in Nat /\ IsFiniteSet(Lost) /\ Cardinality(Lost) \in Nat
        /\ Cardinality(Lost) <= lapses
    BY <1>1, LapsesCounted, FS_CardinalityType DEF LostByLapses
  <2>1. PICK x : Winners \subseteq Lost \cup {x}
    BY DEF Lost, Runners, Owns
  <2>2. IsFiniteSet(Lost \cup {x}) /\ Cardinality(Lost \cup {x}) <= Cardinality(Lost) + 1
    BY <2>0, FS_AddElement
  <2>3. IsFiniteSet(Winners) /\ Cardinality(Winners) <= Cardinality(Lost \cup {x})
    BY <2>1, <2>2, FS_Subset
  <2>4. Cardinality(Winners) \in Nat /\ Cardinality(Lost \cup {x}) \in Nat
    BY <2>2, <2>3, FS_CardinalityType
  <2>5. Cardinality(Winners) <= 1 + lapses
    BY <2>0, <2>2, <2>3, <2>4
  <2>. QED  BY <1>1, <2>5 DEF RunsOnceUnlessLapsed, IdempotencyInv, AnswersOK
<1>. QED  BY <1>1, IdempotencyInvariant, PTL

(***************************************************************************)
(* The membership of a league.                                             *)
(***************************************************************************)

Links == [maxUses : Nat, usesCount : Nat, usedAt : BOOLEAN, revoked : BOOLEAN,
          expired : BOOLEAN]
JoinRequests == [pc : {"commit"}, user : Users, link : Invitations \cup {NoInvitation},
                 newMemberCount : Nat, usesSeen : Nat]
Transitions == [pc : {"read", "write"}, target : {"ACTIVE", "COMPLETED", "CANCELLED"}]

MembershipTypeOK ==
    /\ isPrivate \in BOOLEAN
    /\ leagueStatus \in {"UPCOMING", "ACTIVE", "COMPLETED", "CANCELLED"}
    /\ currentMembers \in Nat
    /\ memberOf \in [Everyone -> {"none", "PENDING", "ACTIVE", "REFUNDED"}]
    /\ joinedWith \in [Everyone -> Invitations \cup {NoInvitation}]
    /\ invitation \in [Invitations -> Links]
    /\ joinRequest \in [Requests -> {NoRequest} \cup JoinRequests]
    /\ transition \in {NoTransition} \cup Transitions
    /\ phase \in {"open", "deadline", "kickoff"}

\* The members admitted by invitation i.
AdmittedBy(i) == {u \in Everyone : joinedWith[u] = i}

\* The rows of the members: there are as many as the league counts, and a
\* private league has none but the creator's without an invitation.
RowsOK ==
    /\ IsFiniteSet(MemberRows)
    /\ CountNeverOverstates
    /\ Creator \in MemberRows
    /\ \A u \in Everyone \ MemberRows : joinedWith[u] = NoInvitation
    /\ isPrivate => \A u \in MemberRows \ {Creator} : joinedWith[u] # NoInvitation

LinksOK ==
    \A i \in Invitations :
        /\ IsFiniteSet(AdmittedBy(i))
        /\ Cardinality(AdmittedBy(i)) = invitation[i].usesCount
        /\ invitation[i].usesCount <= invitation[i].maxUses

\* What a request has read may be stale, but rows are never deleted: the count
\* it will write is at most one ahead of them.
RequestOK(q) ==
    /\ 1 <= q.newMemberCount /\ q.newMemberCount <= MaxMembers
    /\ q.newMemberCount <= Cardinality(MemberRows) + 1
    /\ isPrivate => q.link # NoInvitation

RequestsOK == \A r \in Requests : joinRequest[r] # NoRequest => RequestOK(joinRequest[r])

TransitionOK ==
    transition.pc = "write" /\ transition.target = "ACTIVE" =>
        Cardinality(MemberRows) >= MinMembers

MembershipInv == MembershipTypeOK /\ RowsOK /\ LinksOK /\ RequestsOK /\ TransitionOK

-----------------------------------------------------------------------------

\* The creator is the only member of a new league.
LEMMA MembershipInitially ==
  ASSUME MembershipInit
  PROVE  MembershipInv
<1>. USE MembershipAssumption DEF MembershipInit
<1>1. NoLink \in Links /\ NoLink.usesCount = 0 /\ NoLink.maxUses = 0
  BY DEF NoLink, Links
<1>2. MembershipTypeOK
  BY <1>1 DEF MembershipTypeOK
<1>3. MemberRows = {Creator}
  BY DEF MemberRows, Everyone
<1>4. RowsOK
  <2>1. IsFiniteSet(MemberRows) /\ Cardinality(MemberRows) = 1 /\ Creator \in MemberRows
    BY <1>3, FS_Singleton
  <2>2. CountNeverOverstates
    BY <2>1 DEF CountNeverOverstates
  <2>3. \A u \in Everyone : joinedWith[u] = NoInvitation
    OBVIOUS
  <2>. QED  BY <1>3, <2>1, <2>2, <2>3 DEF RowsOK
<1>5. LinksOK
  <2>1. ASSUME NEW i \in Invitations
        PROVE  AdmittedBy(i) = {}
    BY DEF AdmittedBy
  <2>. QED  BY <1>1, <2>1, FS_EmptySet DEF LinksOK
<1>6. RequestsOK /\ TransitionOK
  BY DEF RequestsOK, TransitionOK, NoTransition
<1>. QED  BY <1>2, <1>4, <1>5, <1>6 DEF MembershipInv

\* A step that keeps the rows, their invitations and the league's own row.
LEMMA RowsStay ==
  ASSUME MembershipInv, MemberRows' = MemberRows, UNCHANGED <<leagueRow, joinedWith>>
  PROVE  RowsOK'
BY DEF MembershipInv, RowsOK, CountNeverOverstates, leagueRow

\* A new row.
LEMMA RowAdded ==
  ASSUME MembershipInv, NEW u, u \notin MemberRows, MemberRows' = MemberRows \cup {u}
  PROVE  /\ IsFiniteSet(MemberRows') /\ Cardinality(MemberRows) \in Nat
         /\ Cardinality(MemberRows') = Cardinality(MemberRows) + 1
<1>1. IsFiniteSet(MemberRows)
  BY DEF MembershipInv, RowsOK
<1>. QED  BY <1>1, FS_AddElement, FS_CardinalityType

\* A link that admits as many members as before.
LEMMA LinkUpdate ==
  ASSUME MembershipInv, NEW i \in Invitations, NEW l \in Links,
         l.usesCount = invitation[i].usesCount, l.usesCount <= l.maxUses,
         invitation' = [invitation EXCEPT ![i] = l], joinedWith' = joinedWith
  PROVE  invitation' \in [Invitations -> Links] /\ LinksOK'
<1>1. /\ invitation' \in [Invitations -> Links] /\ invitation'[i] = l
      /\ \A j \in Invitations \ {i} : invitation'[j] = invitation[j]
  BY DEF MembershipInv, MembershipTypeOK
<1>2. \A j \in Invitations : AdmittedBy(j)' = AdmittedBy(j)
  BY DEF AdmittedBy
<1>. QED  BY <1>1, <1>2 DEF LinksOK, MembershipInv

\* Links are created, revoked and expire.
LEMMA InvitationStep ==
  ASSUME MembershipInv, NEW i \in Invitations,
         \/ \E n \in UseLimits : CreateInvitation(i, n)
         \/ RevokeInvitation(i) \/ InvitationExpires(i)
  PROVE  MembershipInv'
<1>. USE MembershipAssumption
<1>. invitation[i] \in Links
  BY DEF MembershipInv, MembershipTypeOK
<1>0. UNCHANGED <<leagueRow, memberOf, joinedWith, joinRequest, transition, phase>>
  BY DEF CreateInvitation, RevokeInvitation, InvitationExpires
<1>1. PICK l \in Links : /\ l.usesCount = invitation[i].usesCount /\ l.usesCount <= l.maxUses
                         /\ invitation' = [invitation EXCEPT ![i] = l]
  <2>1. ASSUME NEW n \in UseLimits, CreateInvitation(i, n)
        PROVE  \E l \in Links : /\ l.usesCount = invitation[i].usesCount
                                /\ l.usesCount <= l.maxUses
                                /\ invitation' = [invitation EXCEPT ![i] = l]
    <3>1. PICK l : l = [NoLink EXCEPT !.maxUses = n]
      OBVIOUS
    <3>2. n \in Nat
      OBVIOUS
    <3>3. l \in Links /\ l.usesCount = 0 /\ l.maxUses = n
      BY <3>1, <3>2 DEF NoLink, Links
    <3>4. invitation[i].usesCount = 0 /\ invitation' = [invitation EXCEPT ![i] = l]
      BY <2>1, <3>1 DEF CreateInvitation, NoLink
    <3>5. l.usesCount <= l.maxUses
      BY <3>2, <3>3
    <3>. QED  BY <3>3, <3>4, <3>5
  <2>2. invitation[i].usesCount <= invitation[i].maxUses
    BY DEF MembershipInv, LinksOK
  <2>3. CASE RevokeInvitation(i)
    <3>1. PICK old : old = invitation[i]
      OBVIOUS
    <3>2. PICK l : l = [old EXCEPT !.revoked = TRUE]
      OBVIOUS
    <3>3. l \in Links /\ l.usesCount = old.usesCount /\ l.maxUses = old.maxUses
      BY <3>1, <3>2 DEF Links
    <3>4. invitation' = [invitation EXCEPT ![i] = l]
      BY <2>3, <3>1, <3>2 DEF RevokeInvitation
    <3>. QED  BY <2>2, <3>1, <3>3, <3>4
  <2>4. CASE InvitationExpires(i)
    <3>1. PICK old : old = invitation[i]
      OBVIOUS
    <3>2. PICK l : l = [old EXCEPT !.expired = TRUE]
      OBVIOUS
    <3>3. l \in Links /\ l.usesCount = old.usesCount /\ l.maxUses = old.maxUses
      BY <3>1, <3>2 DEF Links
    <3>4. invitation' = [invitation EXCEPT ![i] = l]
      BY <2>4, <3>1, <3>2 DEF InvitationExpires
    <3>. QED  BY <2>2, <3>1, <3>3, <3>4
  <2>. QED  BY <2>1, <2>3, <2>4
<1>2. invitation' \in [Invitations -> Links] /\ LinksOK'
  BY <1>0, <1>1, LinkUpdate
<1>3. MemberRows' = MemberRows
  BY <1>0 DEF MemberRows
<1>4. RowsOK'
  BY <1>0, <1>3, RowsStay
<1>5. MembershipTypeOK'
  BY <1>0, <1>2 DEF MembershipInv, MembershipTypeOK, leagueRow
<1>6. RequestsOK' /\ TransitionOK'
  BY <1>0, <1>3 DEF MembershipInv, RequestsOK, RequestOK, TransitionOK, leagueRow
<1>. QED  BY <1>2, <1>4, <1>5, <1>6 DEF MembershipInv

\* joinLeague reads the league and remembers the count it will write.
LEMMA JoinReadsStep ==
  ASSUME MembershipInv, NEW r \in Requests, NEW u \in Users,
         NEW i \in Invitations \cup {NoInvitation}, JoinReads(r, u, i)
  PROVE  MembershipInv'
<1>. USE MembershipAssumption DEF JoinReads
<1>. MembershipTypeOK
  BY DEF MembershipInv
<1>0. currentMembers \in Nat /\ MaxMembers \in Nat /\ currentMembers < MaxMembers
  BY DEF MembershipTypeOK
<1>1. PICK seen \in Nat : seen = IF isPrivate THEN invitation[i].usesCount ELSE 0
  <2>1. CASE isPrivate
    <3>1. invitation[i] \in Links
      BY <2>1 DEF MembershipTypeOK
    <3>. QED  BY <2>1, <3>1 DEF Links
  <2>2. CASE ~isPrivate
    BY <2>2
  <2>. QED  BY <2>1, <2>2
<1>2. PICK q : q = [pc |-> "commit", user |-> u, link |-> i,
                    newMemberCount |-> currentMembers + 1, usesSeen |-> seen]
  OBVIOUS
<1>3. q \in JoinRequests /\ q.newMemberCount = currentMembers + 1 /\ q.link = i
  BY <1>0, <1>1, <1>2 DEF JoinRequests
<1>4. joinRequest' = [joinRequest EXCEPT ![r] = q]
  BY <1>1, <1>2
<1>5. /\ joinRequest' \in [Requests -> {NoRequest} \cup JoinRequests]
      /\ joinRequest'[r] = q /\ \A s \in Requests \ {r} : joinRequest'[s] = joinRequest[s]
  BY <1>3, <1>4 DEF MembershipTypeOK
<1>6. MemberRows' = MemberRows
  BY DEF MemberRows
<1>7. RequestOK(q)
  <2>1. /\ IsFiniteSet(MemberRows) /\ currentMembers <= Cardinality(MemberRows)
        /\ 1 <= currentMembers
    BY DEF MembershipInv, RowsOK, CountNeverOverstates
  <2>2. Cardinality(MemberRows) \in Nat
    BY <2>1, FS_CardinalityType
  <2>3. isPrivate => i # NoInvitation
    OBVIOUS
  <2>4. /\ 1 <= currentMembers + 1 /\ currentMembers + 1 <= MaxMembers
        /\ currentMembers + 1 <= Cardinality(MemberRows) + 1
    BY <1>0, <2>1, <2>2
  <2>. QED  BY <1>3, <2>3, <2>4 DEF RequestOK
<1>8. RequestsOK'
  BY <1>5, <1>6, <1>7 DEF RequestsOK, RequestOK, MembershipInv, leagueRow
<1>9. MembershipTypeOK'
  BY <1>5 DEF MembershipTypeOK, leagueRow
<1>10. RowsOK'
  BY <1>6, RowsStay
<1>11. LinksOK'
  BY DEF LinksOK, AdmittedBy, MembershipInv
<1>12. TransitionOK'
  BY <1>6 DEF TransitionOK, MembershipInv
<1>. QED  BY <1>8, <1>9, <1>10, <1>11, <1>12 DEF MembershipInv

\* A rollback leaves nothing behind.
LEMMA JoinRollsBackStep ==
  ASSUME MembershipInv, NEW r \in Requests, JoinRollsBack(r)
  PROVE  MembershipInv'
<1>. USE DEF JoinRollsBack
<1>1. /\ joinRequest' \in [Requests -> {NoRequest} \cup JoinRequests]
      /\ joinRequest'[r] = NoRequest
      /\ \A s \in Requests \ {r} : joinRequest'[s] = joinRequest[s]
  BY DEF MembershipInv, MembershipTypeOK
<1>2. MemberRows' = MemberRows
  BY DEF MemberRows
<1>3. RequestsOK'
  BY <1>1, <1>2 DEF RequestsOK, RequestOK, MembershipInv, leagueRow
<1>4. MembershipTypeOK'
  BY <1>1 DEF MembershipTypeOK, leagueRow, MembershipInv
<1>5. RowsOK'
  BY <1>2, RowsStay
<1>6. LinksOK' /\ TransitionOK'
  BY <1>2 DEF LinksOK, AdmittedBy, TransitionOK, MembershipInv
<1>. QED  BY <1>3, <1>4, <1>5, <1>6 DEF MembershipInv

\* A request that waits stays right when a row is added.
LEMMA RequestsOutliveRows ==
  ASSUME MembershipInv, NEW n \in Nat, Cardinality(MemberRows) \in Nat,
         Cardinality(MemberRows') = Cardinality(MemberRows) + n,
         isPrivate' = isPrivate, NEW q \in JoinRequests, RequestOK(q)
  PROVE  RequestOK(q)'
<1>1. q.newMemberCount \in Nat
  BY DEF JoinRequests
<1>. QED  BY <1>1 DEF RequestOK

\* The transaction of joinLeague: one use, one row, and a count that is not
\* ahead of the rows.
LEMMA JoinCommitsStep ==
  ASSUME MembershipInv, NEW r \in Requests, JoinCommits(r)
  PROVE  MembershipInv'
<1>. USE MembershipAssumption
<1>. MembershipTypeOK
  BY DEF MembershipInv
<1>1. PICK q : q = joinRequest[r]
  OBVIOUS
<1>2. q \in JoinRequests /\ RequestOK(q)
  <2>1. q # NoRequest
    BY <1>1 DEF JoinCommits
  <2>. QED  BY <1>1, <2>1 DEF MembershipInv, MembershipTypeOK, RequestsOK
<1>3. /\ q.user \in Users /\ q.link \in Invitations \cup {NoInvitation}
      /\ q.newMemberCount \in Nat
  BY <1>2 DEF JoinRequests
<1>4. PICK u \in Everyone : u = q.user
  BY <1>3 DEF Everyone
<1>5. /\ ConsumeInvitation(q) /\ memberOf[u] = "none"
      /\ memberOf' = [memberOf EXCEPT ![u] = "PENDING"]
      /\ joinedWith' = [joinedWith EXCEPT ![u] = q.link]
      /\ currentMembers' = q.newMemberCount
      /\ joinRequest' = [joinRequest EXCEPT ![r] = NoRequest]
      /\ UNCHANGED <<isPrivate, leagueStatus, transition, phase>>
  BY <1>1, <1>4 DEF JoinCommits
<1>6. /\ memberOf' \in [Everyone -> {"none", "PENDING", "ACTIVE", "REFUNDED"}]
      /\ memberOf'[u] = "PENDING" /\ \A v \in Everyone \ {u} : memberOf'[v] = memberOf[v]
  BY <1>5 DEF MembershipTypeOK
<1>7. /\ joinedWith' \in [Everyone -> Invitations \cup {NoInvitation}]
      /\ joinedWith'[u] = q.link /\ \A v \in Everyone \ {u} : joinedWith'[v] = joinedWith[v]
  BY <1>3, <1>5 DEF MembershipTypeOK
<1>8. /\ joinRequest' \in [Requests -> {NoRequest} \cup JoinRequests]
      /\ joinRequest'[r] = NoRequest
      /\ \A s \in Requests \ {r} : joinRequest'[s] = joinRequest[s]
  BY <1>5 DEF MembershipTypeOK
<1>9. u \notin MemberRows /\ MemberRows' = MemberRows \cup {u}
  BY <1>5, <1>6 DEF MemberRows
<1>10. /\ IsFiniteSet(MemberRows') /\ Cardinality(MemberRows) \in Nat
       /\ Cardinality(MemberRows') = Cardinality(MemberRows) + 1
  BY <1>9, RowAdded
<1>11. joinedWith[u] = NoInvitation
  BY <1>9 DEF MembershipInv, RowsOK
<1>12. invitation' \in [Invitations -> Links] /\ LinksOK'
  <2>1. CASE q.link = NoInvitation
    <3>1. invitation' = invitation
      BY <1>5, <2>1 DEF ConsumeInvitation
    <3>2. \A i \in Invitations : AdmittedBy(i)' = AdmittedBy(i)
      BY <1>7, <1>11, <2>1 DEF AdmittedBy
    <3>. QED  BY <3>1, <3>2 DEF LinksOK, MembershipInv, MembershipTypeOK
  <2>2. CASE q.link # NoInvitation
    <3>1. PICK i \in Invitations : i = q.link
      BY <1>3, <2>2
    <3>2. PICK old : old = invitation[i]
      OBVIOUS
    <3>3. old \in Links /\ old.usesCount < old.maxUses
      BY <1>5, <2>2, <3>1, <3>2 DEF ConsumeInvitation, Usable, MembershipTypeOK
    <3>4. PICK used \in BOOLEAN : used = (old.usedAt \/ q.usesSeen + 1 >= old.maxUses)
      OBVIOUS
    <3>5. PICK l : l = [old EXCEPT !.usesCount = @ + 1, !.usedAt = used]
      OBVIOUS
    <3>6. l \in Links /\ l.usesCount = old.usesCount + 1 /\ l.maxUses = old.maxUses
      <4>1. PICK n \in Nat : n = old.usesCount + 1
        BY <3>3 DEF Links
      <4>2. l = [old EXCEPT !.usesCount = n, !.usedAt = used]
        BY <3>5, <4>1
      <4>. QED  BY <3>3, <4>1, <4>2 DEF Links
    <3>7. invitation' = [invitation EXCEPT ![i] = l]
      <4>1. invitation' = [invitation EXCEPT ![i].usesCount = @ + 1,
                ![i].usedAt = @ \/ q.usesSeen + 1 >= invitation[i].maxUses]
        BY <1>5, <2>2, <3>1 DEF ConsumeInvitation
      <4>. QED  BY <3>2, <3>4, <3>5, <4>1
    <3>8. /\ invitation' \in [Invitations -> Links] /\ invitation'[i] = l
          /\ \A j \in Invitations \ {i} : invitation'[j] = invitation[j]
      BY <3>6, <3>7 DEF MembershipTypeOK
    <3>9. \A j \in Invitations \ {i} : AdmittedBy(j)' = AdmittedBy(j)
      BY <1>7, <1>11, <3>1 DEF AdmittedBy
    <3>10. AdmittedBy(i)' = AdmittedBy(i) \cup {u} /\ u \notin AdmittedBy(i)
      BY <1>7, <1>11, <3>1 DEF AdmittedBy
    <3>11. IsFiniteSet(AdmittedBy(i)) /\ Cardinality(AdmittedBy(i)) = old.usesCount
      BY <3>2 DEF MembershipInv, LinksOK
    <3>12. IsFiniteSet(AdmittedBy(i)') /\ Cardinality(AdmittedBy(i)') = old.usesCount + 1
      BY <3>10, <3>11, FS_AddElement
    <3>13. l.usesCount <= l.maxUses
      BY <3>3, <3>6 DEF Links
    <3>14. ASSUME NEW j \in Invitations
           PROVE  /\ IsFiniteSet(AdmittedBy(j)')
                  /\ Cardinality(AdmittedBy(j)') = invitation'[j].usesCount
                  /\ invitation'[j].usesCount <= invitation'[j].maxUses
      <4>1. CASE j = i
        BY <3>6, <3>8, <3>12, <3>13, <4>1
      <4>2. CASE j # i
        BY <3>8, <3>9, <4>2 DEF MembershipInv, LinksOK
      <4>. QED  BY <4>1, <4>2
    <3>. QED  BY <3>8, <3>14 DEF LinksOK
  <2>. QED  BY <2>1, <2>2
<1>13. RowsOK'
  <2>1. CountNeverOverstates'
    <3>1. /\ 1 <= currentMembers' /\ currentMembers' <= MaxMembers
          /\ currentMembers' <= Cardinality(MemberRows')
      BY <1>2, <1>5, <1>10 DEF RequestOK
    <3>2. leagueStatus' = "ACTIVE" => Cardinality(MemberRows') >= MinMembers
      <4>1. leagueStatus = "ACTIVE" => Cardinality(MemberRows) >= MinMembers
        BY DEF MembershipInv, RowsOK, CountNeverOverstates
      <4>. QED  BY <1>5, <1>10, <4>1
    <3>. QED  BY <3>1, <3>2 DEF CountNeverOverstates
  <2>2. Creator \in MemberRows'
    BY <1>9 DEF MembershipInv, RowsOK
  <2>3. \A v \in Everyone \ MemberRows' : joinedWith'[v] = NoInvitation
    BY <1>7, <1>9 DEF MembershipInv, RowsOK
  <2>4. isPrivate' => \A v \in MemberRows' \ {Creator} : joinedWith'[v] # NoInvitation
    <3>1. MemberRows \subseteq Everyone
      BY DEF MemberRows
    <3>. QED  BY <1>2, <1>5, <1>7, <1>9, <3>1 DEF MembershipInv, RowsOK, RequestOK
  <2>. QED  BY <1>10, <2>1, <2>2, <2>3, <2>4 DEF RowsOK
<1>14. RequestsOK'
  <2>1. ASSUME NEW s \in Requests, joinRequest'[s] # NoRequest
        PROVE  RequestOK(joinRequest[s])'
    <3>1. PICK p : p = joinRequest[s]
      OBVIOUS
    <3>2. p \in JoinRequests /\ RequestOK(p) /\ joinRequest'[s] = p
      BY <1>8, <2>1, <3>1 DEF MembershipInv, RequestsOK, MembershipTypeOK
    <3>3. RequestOK(p)'
      BY <1>5, <1>10, <3>2, RequestsOutliveRows
    <3>. QED  BY <3>2, <3>3
  <2>. QED  BY <2>1 DEF RequestsOK
<1>15. TransitionOK'
  BY <1>5, <1>10 DEF TransitionOK, MembershipInv
<1>16. MembershipTypeOK'
  BY <1>3, <1>5, <1>6, <1>7, <1>8, <1>12 DEF MembershipTypeOK
<1>. QED  BY <1>12, <1>13, <1>14, <1>15, <1>16 DEF MembershipInv

\* createPaymentRequirement inserts a row behind the count's back.
LEMMA CreatePaymentRequirementStep ==
  ASSUME MembershipInv, NEW u \in Users, CreatePaymentRequirement(u)
  PROVE  MembershipInv'
<1>. USE MembershipAssumption DEF CreatePaymentRequirement
<1>. MembershipTypeOK
  BY DEF MembershipInv
<1>1. u \in Everyone
  BY DEF Everyone
<1>2. /\ memberOf' \in [Everyone -> {"none", "PENDING", "ACTIVE", "REFUNDED"}]
      /\ memberOf'[u] = "PENDING" /\ \A v \in Everyone \ {u} : memberOf'[v] = memberOf[v]
  BY <1>1 DEF MembershipTypeOK
<1>3. u \notin MemberRows /\ MemberRows' = MemberRows \cup {u}
  BY <1>1, <1>2 DEF MemberRows
<1>4. /\ IsFiniteSet(MemberRows') /\ Cardinality(MemberRows) \in Nat
      /\ Cardinality(MemberRows') = Cardinality(MemberRows) + 1
  BY <1>3, RowAdded
<1>5. RowsOK'
  <2>1. /\ 1 <= currentMembers /\ currentMembers <= MaxMembers
        /\ currentMembers <= Cardinality(MemberRows') /\ leagueStatus # "ACTIVE"
    BY <1>4 DEF MembershipInv, RowsOK, CountNeverOverstates, MembershipTypeOK
  <2>2. CountNeverOverstates'
    BY <2>1 DEF CountNeverOverstates, leagueRow
  <2>. QED  BY <1>3, <1>4, <2>2 DEF MembershipInv, RowsOK, leagueRow
<1>6. RequestsOK'
  <2>1. ASSUME NEW s \in Requests, joinRequest'[s] # NoRequest
        PROVE  RequestOK(joinRequest[s])'
    <3>1. PICK p : p = joinRequest[s]
      OBVIOUS
    <3>2. p \in JoinRequests /\ RequestOK(p) /\ joinRequest'[s] = p
      BY <2>1, <3>1 DEF MembershipInv, RequestsOK, MembershipTypeOK
    <3>3. RequestOK(p)'
      BY <1>4, <3>2, RequestsOutliveRows DEF leagueRow
    <3>. QED  BY <3>2, <3>3
  <2>. QED  BY <2>1 DEF RequestsOK
<1>7. TransitionOK'
  BY <1>4 DEF TransitionOK, MembershipInv
<1>8. LinksOK'
  BY DEF LinksOK, AdmittedBy, MembershipInv
<1>9. MembershipTypeOK'
  BY <1>2 DEF MembershipTypeOK, leagueRow
<1>. QED  BY <1>5, <1>6, <1>7, <1>8, <1>9 DEF MembershipInv

\* A confirmed payment adds no row.
LEMMA PaymentConfirmedStep ==
  ASSUME MembershipInv, NEW u \in Everyone, PaymentConfirmed(u)
  PROVE  MembershipInv'
<1>. USE DEF PaymentConfirmed
<1>1. /\ memberOf' \in [Everyone -> {"none", "PENDING", "ACTIVE", "REFUNDED"}]
      /\ memberOf'[u] = "ACTIVE" /\ \A v \in Everyone \ {u} : memberOf'[v] = memberOf[v]
  BY DEF MembershipInv, MembershipTypeOK
<1>2. MemberRows' = MemberRows
  BY <1>1 DEF MemberRows
<1>3. RowsOK'
  BY <1>2, RowsStay
<1>4. MembershipTypeOK'
  BY <1>1 DEF MembershipInv, MembershipTypeOK, leagueRow
<1>5. LinksOK' /\ TransitionOK'
  BY <1>2 DEF LinksOK, AdmittedBy, TransitionOK, MembershipInv
<1>6. RequestsOK'
  BY <1>2 DEF RequestsOK, RequestOK, MembershipInv, leagueRow
<1>. QED  BY <1>3, <1>4, <1>5, <1>6 DEF MembershipInv

\* A call of transitionStatus up to its transaction: a league is to be
\* activated only on members it has.
LEMMA TransitionReadStep ==
  ASSUME MembershipInv,
         \/ CancelChecks \/ UnderfilledChecks \/ TransitionReads
         \/ \E target \in {"ACTIVE", "COMPLETED"} : TransitionCalled(target)
  PROVE  MembershipInv'
<1>. USE MembershipAssumption
<1>. MembershipTypeOK
  BY DEF MembershipInv
<1>0. UNCHANGED <<leagueRow, memberOf, joinedWith, invitation, joinRequest, phase>>
  BY DEF CancelChecks, UnderfilledChecks, TransitionReads, TransitionCalled
<1>1. MemberRows' = MemberRows
  BY <1>0 DEF MemberRows
<1>2. /\ transition' \in {NoTransition} \cup Transitions
      /\ transition'.pc = "write" /\ transition'.target = "ACTIVE" =>
            currentMembers >= MinMembers
  <2>1. CASE TransitionReads
    <3>1. PICK old : old = transition
      OBVIOUS
    <3>2. old \in Transitions
      BY <2>1, <3>1 DEF TransitionReads, MembershipTypeOK, NoTransition
    <3>3. PICK t : t = [old EXCEPT !.pc = "write"]
      OBVIOUS
    <3>4. t \in Transitions /\ t.target = old.target
      BY <3>2, <3>3 DEF Transitions
    <3>5. CASE TransitionAllowed(old.target)
      BY <2>1, <3>1, <3>3, <3>4, <3>5 DEF TransitionReads, TransitionAllowed
    <3>6. CASE ~TransitionAllowed(old.target)
      BY <2>1, <3>1, <3>6 DEF TransitionReads, NoTransition
    <3>. QED  BY <3>5, <3>6
  <2>2. ASSUME NEW target \in {"ACTIVE", "COMPLETED", "CANCELLED"},
               transition' = [pc |-> "read", target |-> target]
        PROVE  transition' \in Transitions /\ transition'.pc # "write"
    BY <2>2 DEF Transitions
  <2>. QED  BY <2>1, <2>2 DEF CancelChecks, UnderfilledChecks, TransitionCalled
<1>3. TransitionOK'
  <2>1. /\ IsFiniteSet(MemberRows) /\ currentMembers <= Cardinality(MemberRows)
        /\ currentMembers \in Nat
    BY DEF MembershipInv, RowsOK, CountNeverOverstates, MembershipTypeOK
  <2>2. Cardinality(MemberRows) \in Nat
    BY <2>1, FS_CardinalityType
  <2>. QED  BY <1>1, <1>2, <2>1, <2>2 DEF TransitionOK
<1>4. RowsOK'
  BY <1>0, <1>1, RowsStay
<1>5. MembershipTypeOK'
  BY <1>0, <1>2 DEF MembershipTypeOK, leagueRow
<1>6. LinksOK'
  BY <1>0 DEF LinksOK, AdmittedBy, MembershipInv
<1>7. RequestsOK'
  BY <1>0, <1>1 DEF RequestsOK, RequestOK, MembershipInv, leagueRow
<1>. QED  BY <1>3, <1>4, <1>5, <1>6, <1>7 DEF MembershipInv

\* The transaction of transitionStatus keeps every row.
LEMMA TransitionWritesStep ==
  ASSUME MembershipInv, TransitionWrites
  PROVE  MembershipInv'
<1>. USE MembershipAssumption DEF TransitionWrites
<1>. MembershipTypeOK
  BY DEF MembershipInv
<1>1. transition \in Transitions
  BY DEF MembershipTypeOK, NoTransition
<1>2. leagueStatus' \in {"ACTIVE", "COMPLETED", "CANCELLED"}
  BY <1>1 DEF Transitions
<1>3. /\ memberOf' \in [Everyone -> {"none", "PENDING", "ACTIVE", "REFUNDED"}]
      /\ MemberRows' = MemberRows
  <2>1. CASE transition.target = "CANCELLED"
    <3>1. memberOf' = [u \in Everyone |-> IF u \in MemberRows THEN "REFUNDED" ELSE "none"]
      BY <2>1
    <3>. QED  BY <3>1 DEF MemberRows
  <2>2. CASE transition.target # "CANCELLED"
    BY <2>2 DEF MemberRows, MembershipTypeOK
  <2>. QED  BY <2>1, <2>2
<1>4. MembershipTypeOK'
  BY <1>2, <1>3 DEF MembershipTypeOK
<1>5. leagueStatus' = "ACTIVE" => Cardinality(MemberRows) >= MinMembers
  BY DEF MembershipInv, TransitionOK
<1>6. RowsOK'
  BY <1>3, <1>5 DEF MembershipInv, RowsOK, CountNeverOverstates
<1>7. LinksOK' /\ TransitionOK'
  BY DEF LinksOK, AdmittedBy, TransitionOK, MembershipInv, NoTransition
<1>8. RequestsOK'
  BY <1>3 DEF RequestsOK, RequestOK, MembershipInv
<1>. QED  BY <1>4, <1>6, <1>7, <1>8 DEF MembershipInv

\* MembershipInv is inductive.
LEMMA MembershipNextKeeps ==
  ASSUME MembershipInv, [MembershipNext]_membershipVars
  PROVE  MembershipInv'
<1>1. CASE UNCHANGED membershipVars \/ TimePasses
  <2>0. /\ UNCHANGED <<leagueRow, memberOf, joinedWith, invitation, joinRequest, transition>>
        /\ phase' \in {"open", "deadline", "kickoff"}
    BY <1>1 DEF membershipVars, TimePasses, leagueRow, MembershipInv, MembershipTypeOK
  <2>1. MemberRows' = MemberRows
    BY <2>0 DEF MemberRows
  <2>2. RowsOK'
    BY <2>0, <2>1, RowsStay
  <2>3. MembershipTypeOK'
    BY <2>0 DEF MembershipInv, MembershipTypeOK, leagueRow
  <2>4. LinksOK' /\ TransitionOK'
    BY <2>0, <2>1 DEF LinksOK, AdmittedBy, TransitionOK, MembershipInv
  <2>5. RequestsOK'
    BY <2>0, <2>1 DEF RequestsOK, RequestOK, MembershipInv, leagueRow
  <2>. QED  BY <2>2, <2>3, <2>4, <2>5 DEF MembershipInv
<1>2. CASE MembershipNext
  BY <1>1, <1>2, InvitationStep, JoinReadsStep, JoinCommitsStep, JoinRollsBackStep,
     CreatePaymentRequirementStep, PaymentConfirmedStep, TransitionReadStep,
     TransitionWritesStep
     DEF MembershipNext
<1>. QED  BY <1>1, <1>2

\* Every state of the membership satisfies MembershipInv.
THEOREM MembershipInvariant == MembershipSpec => []MembershipInv
<1>. QED  BY MembershipInitially, MembershipNextKeeps, PTL DEF MembershipSpec

\* A link admits at most maxUses members, every use it counts is a
\* membership, and a private league has no member without a use, for any
\* number of requests in flight.
THEOREM InvitationsAccountedHolds == MembershipSpec => []InvitationsAccounted
<1>1. MembershipInv => InvitationsAccounted
  BY DEF MembershipInv, RowsOK, LinksOK, AdmittedBy, InvitationsAccounted
<1>. QED  BY <1>1, MembershipInvariant, PTL

\* currentMembers never runs ahead of the rows, and an active league has its
\* MinMembers.
THEOREM CountNeverOverstatesHolds == MembershipSpec => []CountNeverOverstates
<1>1. MembershipInv => CountNeverOverstates
  BY DEF MembershipInv, RowsOK
<1>. QED  BY <1>1, MembershipInvariant, PTL

(***************************************************************************)
(* The draft room.                                                         *)
(***************************************************************************)

\* The room's turns follow the snake, the manager is behind by what it has
\* not counted, and a player's owner is the squad that has or will get it.
TurnsFollowSnake == \A k \in 1..Len(picks) : picks[k] = DraftSequence(k - 1)

Uncounted(s) == {picked[k].player : k \in {j \in 1..Len(picked) : picked[j].squad = s}}

OwnersOK ==
    \A s \in Squads : {p \in Footballers : owner[p] = s} = squad[s] \cup Uncounted(s)

DraftInv ==
    /\ DraftTypeOK
    /\ TurnsFollowSnake
    /\ pickIndex + Len(picked) = Len(picks)
    /\ OwnersOK

\* Quotient and remainder by a positive number: their range.
LEMMA DivMod ==
  ASSUME NEW n \in Nat \ {0}, NEW k \in Nat
  PROVE  k \div n \in Nat /\ k % n \in Nat /\ k % n < n
OBVIOUS

\* They are found in any decomposition.
LEMMA DivModOf ==
  ASSUME NEW n \in Int, n > 0, NEW q \in Int, NEW j \in Int, j >= 0, j < n,
         NEW k \in Int, k = n * q + j
  PROVE  k \div n = q /\ k % n = j
<1>1. k \div n = q
  BY Z3
<1>2. k % n = j
  BY Z3
<1>. QED  BY <1>1, <1>2

\* The complete rounds fit into the picks made.
LEMMA QuotientBelow ==
  ASSUME NEW n \in Nat \ {0}, NEW k \in Nat
  PROVE  (k \div n) * n <= k
BY Z3

\* Every squad is somewhere in the order, and the turn belongs to a squad.
LEMMA TurnOfSquad ==
  /\ Size \in Nat \ {0} /\ Order \in [1..Size -> Squads]
  /\ \A k \in Nat : DraftSequence(k) \in Squads
<1>1. Size \in Nat \ {0} /\ Order \in [1..Size -> Squads]
  BY DraftAssumption DEF Size, Squads
<1>2. ASSUME NEW k \in Nat PROVE DraftSequence(k) \in Squads
  <2>1. k % Size \in Nat /\ k % Size < Size
    BY <1>1, DivMod
  <2>. DEFINE m == k % Size
  <2>2. m + 1 \in 1..Size /\ Size - m \in 1..Size
    <3>. HIDE DEF m
    <3>1. m \in Nat /\ m < Size
      BY <2>1 DEF m
    <3>. QED  BY <1>1, <3>1
  <2>. QED  BY <1>1, <2>2 DEF DraftSequence
<1>. QED  BY <1>1, <1>2

\* The service counts the rounds on its own and gives the turn of the snake.
LEMMA RoomFollowsSnake ==
  ASSUME picks \in Seq(Squads)
  PROVE  RoomTurn = DraftSequence(Len(picks))
<1>1. Len(picks) \in Nat
  OBVIOUS
<1>2. Len(picks) \div Size \in Nat
  BY <1>1, TurnOfSquad, DivMod
<1>. DEFINE q == Len(picks) \div Size
<1>3. ((q + 1) % 2 = 1) <=> (q % 2 = 0)
  <2>. HIDE DEF q
  <2>1. q \in Nat
    BY <1>2 DEF q
  <2>. QED  BY <2>1
<1>. QED  BY <1>3 DEF RoomTurn, DraftSequence

\* Round r of the snake gives every squad a turn.
LEMMA SnakeRound ==
  ASSUME NEW r \in Nat \ {0}
  PROVE  {DraftSequence(k - 1) : k \in ((r - 1) * Size + 1)..(r * Size)} = Squads
<1>1. Size \in Nat \ {0} /\ Order \in [1..Size -> Squads]
  BY TurnOfSquad
<1>2. (r - 1) * Size \in Nat /\ r * Size = (r - 1) * Size + Size
  BY <1>1
<1>3. ASSUME NEW k \in ((r - 1) * Size + 1)..(r * Size)
      PROVE  DraftSequence(k - 1) \in Squads
  BY <1>2, <1>3, TurnOfSquad
<1>4. ASSUME NEW s \in Squads
      PROVE  \E k \in ((r - 1) * Size + 1)..(r * Size) : DraftSequence(k - 1) = s
  <2>1. PICK i \in 1..Size : Order[i] = s
    BY DEF Squads
  <2>2. CASE (r - 1) % 2 = 0
    <3>. DEFINE k == (r - 1) * Size + (i - 1) + 1
    <3>1. k \in ((r - 1) * Size + 1)..(r * Size) /\ k - 1 = Size * (r - 1) + (i - 1)
      BY <1>1, <1>2
    <3>0. k \in Int
      BY <1>2, <3>1
    <3>2. (k - 1) \div Size = r - 1 /\ (k - 1) % Size = i - 1
      <4>. HIDE DEF k
      <4>1. /\ Size \in Int /\ Size > 0 /\ r - 1 \in Int /\ k - 1 \in Int
            /\ i - 1 \in Int /\ i - 1 >= 0 /\ i - 1 < Size
        BY <1>1, <3>0
      <4>. QED  BY <3>1, <4>1, DivModOf
    <3>. HIDE DEF k
    <3>3. DraftSequence(k - 1) = Order[(i - 1) + 1]
      BY <2>2, <3>2 DEF DraftSequence
    <3>4. (i - 1) + 1 = i
      OBVIOUS
    <3>. QED  BY <2>1, <3>1, <3>3, <3>4
  <2>3. CASE (r - 1) % 2 # 0
    <3>. DEFINE k == (r - 1) * Size + (Size - i) + 1
    <3>1. /\ k \in ((r - 1) * Size + 1)..(r * Size)
          /\ k - 1 = Size * (r - 1) + (Size - i)
      BY <1>1, <1>2
    <3>0. k \in Int
      BY <1>2, <3>1
    <3>2. (k - 1) \div Size = r - 1 /\ (k - 1) % Size = Size - i
      <4>. HIDE DEF k
      <4>1. /\ Size \in Int /\ Size > 0 /\ r - 1 \in Int /\ k - 1 \in Int
            /\ Size - i \in Int /\ Size - i >= 0 /\ Size - i < Size
        BY <1>1, <3>0
      <4>. QED  BY <3>1, <4>1, DivModOf
    <3>. HIDE DEF k
    <3>3. DraftSequence(k - 1) = Order[Size - (Size - i)]
      BY <2>3, <3>2 DEF DraftSequence
    <3>4. Size - (Size - i) = i
      BY <1>1
    <3>. QED  BY <2>1, <3>1, <3>3, <3>4
  <2>. QED  BY <2>2, <2>3
<1>. QED  BY <1>3, <1>4

\* A set of players has a best one: the clock always finds whom to pick.
LEMMA LeastOfNat ==
  ASSUME NEW S \in SUBSET Nat, S # {}
  PROVE  \E b \in S : \A q \in S : b <= q
<1>. DEFINE R == OpToRel(<, Nat)
<1>1. IsWellFoundedOn(R, Nat)
  BY NatLessThanWellFounded
<1>2. PICK b \in S : \A q \in S : ~ (<<q, b>> \in R)
  BY <1>1, WFMin
<1>3. ASSUME NEW q \in S PROVE b <= q
  <2>1. q \in Nat /\ b \in Nat /\ ~(q < b)
    BY <1>2 DEF OpToRel
  <2>. QED  BY <2>1
<1>. QED  BY <1>3

\* DraftInv holds initially.
LEMMA DraftInitially == DraftInit => DraftInv
<1>. SUFFICES ASSUME DraftInit PROVE DraftInv
  OBVIOUS
<1>1. DraftTypeOK
  BY DraftAssumption DEF DraftInit, DraftTypeOK
<1>2. TurnsFollowSnake /\ pickIndex + Len(picked) = Len(picks)
  BY DEF DraftInit, TurnsFollowSnake
<1>3. OwnersOK
  <2>1. \A s \in Squads : s # Nobody
    BY DraftAssumption DEF Squads, Size
  <2>. QED  BY <2>1 DEF DraftInit, OwnersOK, Uncounted
<1>. QED  BY <1>1, <1>2, <1>3 DEF DraftInv

\* The manager's checks and the clock only queue a pick.
LEMMA ManagerStep ==
  ASSUME DraftInv,
         StartDraft \/ DraftTick \/ \E s \in Squads, p \in Footballers : ManagerPicks(s, p)
  PROVE  DraftInv'
<1>1. UNCHANGED <<pickIndex, squad, owner, picks, picked>>
  BY DEF StartDraft, DraftTick, ManagerPicks
<1>2. waiting' \in Seq(PickSet)
  <2>1. CASE StartDraft
    BY <2>1 DEF StartDraft, DraftInv, DraftTypeOK
  <2>2. ASSUME NEW s \in Squads, NEW p \in Footballers, MakePick(s, p)
        PROVE  waiting' \in Seq(PickSet)
    <3>1. Pick(s, p) \in PickSet
      BY DEF Pick, PickSet
    <3>. QED  BY <2>2, <3>1 DEF MakePick, DraftInv, DraftTypeOK
  <2>3. CASE DraftTick
    <3>. DEFINE s == DraftSequence(pickIndex)
                best == CHOOSE p \in Eligible(s) : \A q \in Eligible(s) : p <= q
    <3>1. s \in Squads
      BY TurnOfSquad DEF DraftInv, DraftTypeOK
    <3>2. CASE MakePick(s, best) /\ Eligible(s) # {}
      <4>1. \E b \in Eligible(s) : \A q \in Eligible(s) : b <= q
        BY <3>2, DraftAssumption, LeastOfNat DEF Eligible
      <4>2. best \in Footballers
        BY <4>1 DEF Eligible
      <4>. HIDE DEF s, best
      <4>. QED  BY <3>1, <3>2, <4>2, <2>2
    <3>3. CASE waiting' = waiting
      BY <3>3 DEF DraftInv, DraftTypeOK
    <3>. QED  BY <2>3, <3>2, <3>3 DEF DraftTick
  <2>4. CASE \E s \in Squads, p \in Footballers : ManagerPicks(s, p)
    BY <2>2, <2>4 DEF ManagerPicks
  <2>. QED  BY <2>1, <2>3, <2>4
<1>3. draft' \in {"NOT_STARTED", "IN_PROGRESS", "COMPLETED"} /\ seconds' \in 0..TimePerPick
  BY DraftAssumption DEF StartDraft, DraftTick, ManagerPicks, DraftInv, DraftTypeOK
<1>. QED
  BY <1>1, <1>2, <1>3
     DEF DraftInv, DraftTypeOK, TurnsFollowSnake, OwnersOK, Uncounted

\* The service takes the head of its queue: refused, or one more pick.
LEMMA ServiceStep ==
  ASSUME DraftInv, ExecuteDraftPick
  PROVE  DraftInv'
<1>. DEFINE pick == Head(waiting)
<1>1. pick \in PickSet /\ waiting' \in Seq(PickSet)
  BY DEF ExecuteDraftPick, DraftInv, DraftTypeOK
<1>2. pick.squad \in Squads /\ pick.player \in Footballers
  BY <1>1 DEF PickSet
<1>3. UNCHANGED <<draft, pickIndex, seconds, squad>>
  BY DEF ExecuteDraftPick
<1>4. CASE UNCHANGED <<owner, picks, picked>>
  BY <1>1, <1>3, <1>4, SMTT(30)
     DEF DraftInv, DraftTypeOK, TurnsFollowSnake, OwnersOK, Uncounted
<1>5. CASE /\ pick.squad = RoomTurn /\ owner[pick.player] = Nobody
           /\ owner' = [owner EXCEPT ![pick.player] = pick.squad]
           /\ picks' = Append(picks, pick.squad)
           /\ picked' = Append(picked, pick)
  <2>. HIDE DEF pick
  <2>1. picks \in Seq(Squads) /\ picked \in Seq(PickSet)
        /\ owner \in [Footballers -> Squads \cup {Nobody}]
    BY DEF DraftInv, DraftTypeOK
  <2>2. DraftTypeOK'
    BY <1>1, <1>2, <1>3, <1>5, <2>1 DEF DraftInv, DraftTypeOK
  <2>3. TurnsFollowSnake'
    <3>1. pick.squad = DraftSequence(Len(picks))
      BY <1>5, <2>1, RoomFollowsSnake
    <3>2. Len(picks') = Len(picks) + 1 /\ picks'[Len(picks) + 1] = pick.squad
      BY <1>2, <1>5, <2>1
    <3>3. \A k \in 1..Len(picks) : picks'[k] = picks[k]
      BY <1>2, <1>5, <2>1
    <3>4. ASSUME NEW k \in 1..Len(picks') PROVE picks'[k] = DraftSequence(k - 1)
      <4>1. CASE k = Len(picks) + 1
        <5>1. k - 1 = Len(picks)
          BY <2>1, <4>1
        <5>. QED  BY <3>1, <3>2, <4>1, <5>1
      <4>2. CASE k \in 1..Len(picks)
        BY <3>3, <4>2 DEF DraftInv, TurnsFollowSnake
      <4>. QED  BY <2>1, <3>2, <4>1, <4>2
    <3>. QED  BY <3>4 DEF TurnsFollowSnake, DraftSequence, Size
  <2>4. (pickIndex + Len(picked) = Len(picks))'
    BY <1>1, <1>2, <1>3, <1>5, <2>1 DEF DraftInv, DraftTypeOK
  <2>5. OwnersOK'
    <3>. SUFFICES ASSUME NEW s \in Squads
                  PROVE  {p \in Footballers : owner'[p] = s} = squad[s] \cup Uncounted(s)'
      BY <1>3 DEF OwnersOK, Squads, Size
    <3>0. {p \in Footballers : owner[p] = s} = squad[s] \cup Uncounted(s)
      BY DEF DraftInv, OwnersOK
    <3>9. s # Nobody
      BY DraftAssumption DEF Squads, Size
    <3>1. Len(picked') = Len(picked) + 1 /\ picked'[Len(picked) + 1] = pick
      BY <1>1, <1>5, <2>1
    <3>2. \A k \in 1..Len(picked) : picked'[k] = picked[k]
      BY <1>1, <1>5, <2>1
    <3>3. 1..Len(picked') = 1..Len(picked) \cup {Len(picked) + 1}
      BY <2>1, <3>1
    <3>4. CASE s = pick.squad
      <4>1. Uncounted(s)' = Uncounted(s) \cup {pick.player}
        BY <3>1, <3>2, <3>3, <3>4, <2>1 DEF Uncounted
      <4>2. {p \in Footballers : owner'[p] = s}
              = {p \in Footballers : owner[p] = s} \cup {pick.player}
        BY <1>2, <1>5, <2>1, <3>4
      <4>. QED  BY <3>0, <4>1, <4>2
    <3>5. CASE s # pick.squad
      <4>1. Uncounted(s)' = Uncounted(s)
        BY <3>1, <3>2, <3>3, <3>5, <2>1 DEF Uncounted
      <4>2. {p \in Footballers : owner'[p] = s} = {p \in Footballers : owner[p] = s}
        BY <1>2, <1>5, <2>1, <3>5, <3>9
      <4>. QED  BY <3>0, <4>1, <4>2
    <3>. QED  BY <3>4, <3>5
  <2>. QED  BY <2>2, <2>3, <2>4, <2>5 DEF DraftInv
<1>. QED  BY <1>4, <1>5 DEF ExecuteDraftPick

\* The manager counts the oldest executed pick.
LEMMA CountStep ==
  ASSUME DraftInv, CountPick
  PROVE  DraftInv'
<1>. DEFINE pick == Head(picked)
<1>1. /\ picked \in Seq(PickSet) /\ picked # <<>> /\ picked' = Tail(picked)
      /\ squad \in [Squads -> SUBSET Footballers] /\ pickIndex \in Nat
  BY DEF CountPick, DraftInv, DraftTypeOK
<1>2. pick \in PickSet /\ pick = picked[1] /\ picked' \in Seq(PickSet)
  BY <1>1
<1>3. pick.squad \in Squads /\ pick.player \in Footballers
  BY <1>2 DEF PickSet
<1>4. /\ squad' = [squad EXCEPT ![pick.squad] = @ \cup {pick.player}]
      /\ pickIndex' = pickIndex + 1 /\ seconds' = TimePerPick
      /\ UNCHANGED <<owner, picks, waiting>>
  BY DEF CountPick
<1>. HIDE DEF pick
<1>5. Len(picked) \in Nat /\ Len(picked) >= 1 /\ Len(picked') = Len(picked) - 1
      /\ \A k \in 1..Len(picked') : picked'[k] = picked[k + 1]
  BY <1>1
<1>6. DraftTypeOK'
  <2>1. squad' \in [Squads -> SUBSET Footballers]
    BY <1>1, <1>3, <1>4
  <2>2. pickIndex' \in Nat /\ seconds' \in 0..TimePerPick
    BY <1>1, <1>4, DraftAssumption
  <2>. QED  BY <1>2, <1>4, <2>1, <2>2 DEF CountPick, DraftInv, DraftTypeOK
<1>7. TurnsFollowSnake'
  BY <1>4 DEF DraftInv, TurnsFollowSnake
<1>8. (pickIndex + Len(picked) = Len(picks))'
  BY <1>1, <1>4, <1>5 DEF DraftInv
<1>9. OwnersOK'
  <2>. SUFFICES ASSUME NEW s \in Squads
                PROVE  squad'[s] \cup Uncounted(s)' = squad[s] \cup Uncounted(s)
    BY <1>4 DEF DraftInv, OwnersOK
  <2>1. ASSUME NEW x \in Uncounted(s)' PROVE x \in Uncounted(s)
    <3>1. PICK k \in 1..Len(picked') : picked'[k].squad = s /\ x = picked'[k].player
      BY <2>1 DEF Uncounted
    <3>2. k + 1 \in 1..Len(picked) /\ picked'[k] = picked[k + 1]
      BY <1>5
    <3>. QED  BY <3>1, <3>2 DEF Uncounted
  <2>2. ASSUME NEW x \in Uncounted(s)
        PROVE  x \in Uncounted(s)' \/ (s = pick.squad /\ x = pick.player)
    <3>1. PICK k \in 1..Len(picked) : picked[k].squad = s /\ x = picked[k].player
      BY <2>2 DEF Uncounted
    <3>2. CASE k = 1
      BY <1>2, <3>1, <3>2
    <3>3. CASE k # 1
      <4>1. k - 1 \in 1..Len(picked') /\ picked'[k - 1] = picked[k]
        BY <1>5, <3>3
      <4>. QED  BY <3>1, <4>1 DEF Uncounted
    <3>. QED  BY <3>2, <3>3
  <2>3. s = pick.squad => pick.player \in Uncounted(s)
    BY <1>2, <1>5 DEF Uncounted
  <2>4. squad'[s] = IF s = pick.squad THEN squad[s] \cup {pick.player} ELSE squad[s]
    BY <1>1, <1>3, <1>4
  <2>. QED  BY <2>1, <2>2, <2>3, <2>4
<1>. QED  BY <1>6, <1>7, <1>8, <1>9 DEF DraftInv

\* Every state of the draft satisfies DraftInv: the room follows the snake,
\* the manager is behind by its uncounted picks, and owners and squads agree
\* but for those.
THEOREM DraftInvariant == DraftSpec => []DraftInv
<1>1. DraftInv /\ [DraftNext]_draftVars => DraftInv'
  <2>1. CASE UNCHANGED draftVars
    BY <2>1 DEF draftVars, DraftInv, DraftTypeOK, TurnsFollowSnake, OwnersOK, Uncounted
  <2>. QED  BY <2>1, ManagerStep, ServiceStep, CountStep DEF DraftNext
<1>. QED  BY <1>1, DraftInitially, PTL DEF DraftSpec

\* Every complete round of a snake draft serves every squad once, the
\* manager's turn meets the room's and the squads are the owners, for any
\* number of squads, rounds and overlapping picks.
THEOREM EveryRoundServesAllHolds == DraftSpec => []EveryRoundServesAll
<1>1. DraftInv => EveryRoundServesAll
  <2>. SUFFICES ASSUME DraftInv PROVE EveryRoundServesAll
    OBVIOUS
  <2>0. Size \in Nat \ {0} /\ Len(picks) \in Nat
    BY TurnOfSquad DEF DraftInv, DraftTypeOK
  <2>1. ASSUME NEW r \in 1..(Len(picks) \div Size)
        PROVE  {picks[k] : k \in ((r - 1) * Size + 1)..(r * Size)} = Squads
    <3>1. r \in Nat \ {0} /\ r <= Len(picks) \div Size
      BY <2>0, DivMod
    <3>2. r * Size <= Len(picks)
      <4>. DEFINE d == Len(picks) \div Size
      <4>1. d \in Nat /\ d * Size <= Len(picks)
        BY <2>0, DivMod, QuotientBelow
      <4>. HIDE DEF d
      <4>2. r <= d
        BY <3>1 DEF d
      <4>3. r * Size <= d * Size
        BY <2>0, <3>1, <4>1, <4>2
      <4>. QED  BY <2>0, <3>1, <4>1, <4>3
    <3>3. (r - 1) * Size \in Nat /\ r * Size \in Nat
      BY <2>0, <3>1
    <3>4. ((r - 1) * Size + 1)..(r * Size) \subseteq 1..Len(picks)
      BY <2>0, <3>2, <3>3
    <3>5. \A k \in ((r - 1) * Size + 1)..(r * Size) : picks[k] = DraftSequence(k - 1)
      BY <3>4 DEF DraftInv, TurnsFollowSnake
    <3>6. {picks[k] : k \in ((r - 1) * Size + 1)..(r * Size)}
            = {DraftSequence(k - 1) : k \in ((r - 1) * Size + 1)..(r * Size)}
      BY <3>5
    <3>. QED  BY <3>1, <3>6, SnakeRound
  <2>2. ASSUME picked = <<>>, NEW s \in Squads
        PROVE  squad[s] = {p \in Footballers : owner[p] = s}
    <3>1. Uncounted(s) = {}
      BY <2>2 DEF Uncounted
    <3>. QED  BY <3>1 DEF DraftInv, OwnersOK
  <2>. QED  BY <2>1, <2>2 DEF EveryRoundServesAll, DraftInv
<1>. QED  BY <1>1, DraftInvariant, PTL
=============================================================================
