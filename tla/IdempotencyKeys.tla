--------------------------- MODULE IdempotencyKeys ---------------------------
(* Requests that carry the same Idempotency-Key of one user, and the Redis *)
(* record that is their lock and their cache (middleware/idempotency.ts,   *)
(* idempotencyStore.ts).  The heartbeat keeps the lock alive unless Redis  *)
(* cannot be reached; then it expires, as a stored response does after 24  *)
(* hours.  A request whose connection drops releases the key although its  *)
(* handler goes on, and a heartbeat under way when the response is stored  *)
(* writes over it.                                                         *)
EXTENDS Naturals, FiniteSets

CONSTANTS
    Attempts,   \* the requests; each is its own fencing token
    Bodies,     \* fingerprints
    MaxLapses,  \* bound: expired records and dropped connections
    NoRecord    \* the key is free

VARIABLES
    record,   \* the Redis record: state, token and fingerprint of its owner
    body,     \* fingerprint of each request
    at,       \* where each request is
    beating,  \* requests whose heartbeat has read its record, to write it
    result,   \* what its handler answered
    answer,   \* what its client received: its own response or another's
    lapses
idempotencyVars == <<record, body, at, beating, result, answer, lapses>>

States == {"PENDING", "IN_PROGRESS", "COMPLETED", "FAILED"}
Records == [state : States, token : Attempts, fingerprint : Bodies]
Refusals == {"409", "422", "503"}
ASSUME IdempotencyAssumption ==
    /\ MaxLapses \in Nat
    /\ NoRecord \notin Records
    /\ Attempts \cap ({"none"} \cup Refusals) = {}

Record(s, a) == [state |-> s, token |-> a, fingerprint |-> body[a]]

\* Types of every variable.
IdempotencyTypeOK ==
    /\ record \in {NoRecord} \cup Records
    /\ body \in [Attempts -> Bodies]
    /\ at \in [Attempts -> {"new", "claimed", "running", "detached", "answered", "done"}]
    /\ beating \in SUBSET Attempts
    /\ result \in [Attempts -> {"none", "success", "client error", "transient"}]
    /\ answer \in [Attempts -> {"none"} \cup Refusals \cup Attempts]
    /\ lapses \in 0..MaxLapses

IdempotencyInit ==
    /\ record = NoRecord
    /\ body \in [Attempts -> Bodies]
    /\ at = [a \in Attempts |-> "new"]
    /\ beating = {}
    /\ result = [a \in Attempts |-> "none"]
    /\ answer = [a \in Attempts |-> "none"]
    /\ lapses = 0

Owns(a) == record # NoRecord /\ record.token = a
Lapse == lapses < MaxLapses /\ lapses' = lapses + 1
Reply(a, r) == at' = [at EXCEPT ![a] = "done"] /\ answer' = [answer EXCEPT ![a] = r]

\* Mutant: a key without a stored response is taken over.
ClaimUnlessFinished(a) ==
    /\ at[a] = "new"
    /\ record # NoRecord => record.state \in {"PENDING", "IN_PROGRESS"}
    /\ record' = Record("PENDING", a)
    /\ at' = [at EXCEPT ![a] = "claimed"]
    /\ UNCHANGED <<body, beating, result, answer, lapses>>

\* begin: SET NX.
Claim(a) ==
    /\ at[a] = "new"
    /\ record = NoRecord
    /\ record' = Record("PENDING", a)
    /\ at' = [at EXCEPT ![a] = "claimed"]
    /\ UNCHANGED <<body, beating, result, answer, lapses>>

\* A key already taken: 422 for another request, the stored response once
\* there is one, 409 until then.
Duplicate(a) ==
    /\ at[a] = "new"
    /\ record # NoRecord
    /\ Reply(a, IF record.fingerprint # body[a] THEN "422"
                ELSE IF record.state \in {"COMPLETED", "FAILED"} THEN record.token
                ELSE "409")
    /\ UNCHANGED <<record, body, beating, result, lapses>>

\* markInProgress, then the handler.
Start(a) ==
    /\ at[a] = "claimed"
    /\ Owns(a)
    /\ record' = Record("IN_PROGRESS", a)
    /\ at' = [at EXCEPT ![a] = "running"]
    /\ UNCHANGED <<body, beating, result, answer, lapses>>

\* A lock lost by then, or a Redis that cannot be reached, is a 503; in the
\* second case the record stays until it expires.
StartFails(a) ==
    /\ at[a] = "claimed"
    /\ Reply(a, "503")
    /\ UNCHANGED <<record, body, beating, result, lapses>>

\* The heartbeat is markInProgress again: it reads the record of a request
\* that is not settled yet ...
HeartbeatReads(a) ==
    /\ at[a] \in {"running", "answered"}
    /\ Owns(a)
    /\ beating' = beating \cup {a}
    /\ UNCHANGED <<record, body, at, result, answer, lapses>>

\* ... and writes it, whatever its state is by then, if the token is its own.
HeartbeatWrites(a) ==
    /\ a \in beating
    /\ beating' = beating \ {a}
    /\ record' = IF Owns(a) THEN Record("IN_PROGRESS", a) ELSE record
    /\ UNCHANGED <<body, at, result, answer, lapses>>

\* The handler answers its client ("finish").
HandlerAnswers(a, o) ==
    /\ at[a] = "running"
    /\ at' = [at EXCEPT ![a] = "answered"]
    /\ result' = [result EXCEPT ![a] = o]
    /\ answer' = [answer EXCEPT ![a] = a]
    /\ UNCHANGED <<record, body, beating, lapses>>

\* settle: every write compares the token, and an error is only logged.
Settle(a) ==
    /\ at[a] = "answered"
    /\ at' = [at EXCEPT ![a] = "done"]
    /\ \/ record' = IF ~Owns(a) THEN record
                    ELSE IF result[a] = "transient" THEN NoRecord
                    ELSE Record(IF result[a] = "success" THEN "COMPLETED" ELSE "FAILED", a)
       \/ UNCHANGED record
    /\ UNCHANGED <<body, beating, result, answer, lapses>>

\* "close" before the response: the key is released and the handler goes on.
ConnectionDrops(a) ==
    /\ at[a] = "running"
    /\ Lapse
    /\ at' = [at EXCEPT ![a] = "detached"]
    /\ record' \in {record, IF Owns(a) THEN NoRecord ELSE record}
    /\ UNCHANGED <<body, beating, result, answer>>

DetachedHandlerEnds(a, o) ==
    /\ at[a] = "detached"
    /\ at' = [at EXCEPT ![a] = "done"]
    /\ result' = [result EXCEPT ![a] = o]
    /\ UNCHANGED <<record, body, beating, answer, lapses>>

\* The TTL of the record runs out: the heartbeat failed or the day is over.
RecordExpires ==
    /\ record # NoRecord
    /\ Lapse
    /\ record' = NoRecord
    /\ UNCHANGED <<body, at, beating, result, answer>>

IdempotencyNext ==
    \/ RecordExpires
    \/ \E a \in Attempts :
        \/ Claim(a) \/ Duplicate(a) \/ Start(a) \/ StartFails(a) \/ Settle(a)
        \/ HeartbeatReads(a) \/ HeartbeatWrites(a) \/ ConnectionDrops(a)
        \/ \E o \in {"success", "client error", "transient"} :
              HandlerAnswers(a, o) \/ DetachedHandlerEnds(a, o)

IdempotencySpec == IdempotencyInit /\ [][IdempotencyNext]_idempotencyVars

-----------------------------------------------------------------------------
(* Properties.                                                             *)

\* Retries of one request change the system once: a second handler succeeds
\* only if a record expired or a connection dropped, once for each; and a
\* client that is given somebody's stored response sent that very request.
RunsOnceUnlessLapsed ==
    /\ Cardinality({a \in Attempts : result[a] = "success"}) <= 1 + lapses
    /\ \A a \in Attempts : answer[a] \in Attempts =>
          body[answer[a]] = body[a] /\ result[answer[a]] # "none"
=============================================================================
