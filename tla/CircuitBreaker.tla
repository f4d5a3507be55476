---------------------------- MODULE CircuitBreaker ----------------------------
(* The breaker around the FPL API (services/fpl/circuitBreaker.ts) as       *)
(* fplClient.ts builds it: a failure rate over a sliding window, a health   *)
(* probe when the cooldown is over, and no fallback inside execute.  Calls  *)
(* overlap: one that started while the circuit was CLOSED may end in any    *)
(* later state.                                                             *)
EXTENDS Naturals, Sequences

CONSTANTS
    Callers,            \* concurrent requests
    Prober,             \* the call of runScheduledProbe
    MinimumSamples,     \* minimumSamples
    SuccessThreshold,   \* successThreshold
    MaxWindow           \* bound: outcomes inside the rolling window

ASSUME BreakerAssumption ==
    /\ Prober \notin Callers
    /\ MinimumSamples \in Nat \ {0} /\ SuccessThreshold \in Nat \ {0}
    /\ MaxWindow \in Nat \ {0}

VARIABLES
    circuit,            \* state
    cooledDown,         \* nextAttemptTime is past
    probeTimer,         \* probeTimer is armed
    probeInFlight,
    halfOpenSuccesses,
    outcomes,           \* the rolling window; TRUE is a failure
    call,               \* what each caller is in
    healthy             \* the upstream answers
breakerVars == <<circuit, cooledDown, probeTimer, probeInFlight, halfOpenSuccesses,
                 outcomes, call, healthy>>

Calls == Callers \cup {Prober}

\* Types of every variable.
BreakerTypeOK ==
    /\ circuit \in {"CLOSED", "OPEN", "HALF_OPEN"}
    /\ cooledDown \in BOOLEAN /\ probeTimer \in BOOLEAN /\ probeInFlight \in BOOLEAN
    /\ halfOpenSuccesses \in 0..SuccessThreshold
    /\ outcomes \in Seq(BOOLEAN) /\ Len(outcomes) <= MaxWindow
    /\ call \in [Calls -> {"none", "request", "probe"}]
    /\ healthy \in BOOLEAN

BreakerInit ==
    /\ circuit = "CLOSED"
    /\ cooledDown = TRUE
    /\ probeTimer = FALSE /\ probeInFlight = FALSE
    /\ halfOpenSuccesses = 0
    /\ outcomes = <<>>
    /\ call = [c \in Calls |-> "none"]
    /\ healthy = TRUE

\* getState: an OPEN circuit whose cooldown is over becomes HALF_OPEN.
StateNow == IF circuit = "OPEN" /\ cooledDown THEN "HALF_OPEN" ELSE circuit
Observe ==
    /\ circuit' = StateNow
    /\ halfOpenSuccesses' = IF StateNow = circuit THEN halfOpenSuccesses ELSE 0

\* shouldOpen: more than half of enough samples failed.
ShouldOpen(window) ==
    /\ Len(window) >= MinimumSamples
    /\ 2 * Len(SelectSeq(window, LAMBDA failed : failed)) > Len(window)

\* transitionTo(CLOSED) and transitionTo(OPEN); the latter arms the probe, also
\* after a probe that failed.
Close ==
    /\ circuit' = "CLOSED"
    /\ outcomes' = <<>>
    /\ halfOpenSuccesses' = 0
    /\ cooledDown' = TRUE
    /\ probeTimer' = FALSE

\* Mutant: a failed probe does not arm the next one.
OpenProbingOnce ==
    /\ circuit' = "OPEN"
    /\ cooledDown' = FALSE
    /\ probeTimer' = (probeTimer \/ circuit = "CLOSED")

\* transitionTo(OPEN)
OpenCircuit ==
    /\ circuit' = "OPEN"
    /\ cooledDown' = FALSE
    /\ probeTimer' = TRUE

\* recordOutcome.
Recorded(failed) == Append(IF Len(outcomes) = MaxWindow THEN Tail(outcomes) ELSE outcomes, failed)

\* execute, up to the call of the action.
Admit(c) ==
    /\ call' = [call EXCEPT ![c] = IF StateNow = "HALF_OPEN" THEN "probe" ELSE "request"]
    /\ probeInFlight' = (probeInFlight \/ StateNow = "HALF_OPEN")
ShortCircuit == StateNow = "OPEN" \/ (StateNow = "HALF_OPEN" /\ probeInFlight)

Execute(c) ==
    /\ call[c] = "none"
    /\ Observe
    /\ IF ShortCircuit THEN UNCHANGED <<call, probeInFlight>> ELSE Admit(c)
    /\ UNCHANGED <<cooledDown, probeTimer, outcomes, healthy>>

\* runScheduledProbe; a timer that fires early is armed again.
RunScheduledProbe ==
    /\ probeTimer
    /\ Observe
    /\ probeTimer' = (StateNow = "OPEN")
    /\ IF StateNow = "HALF_OPEN" /\ ~probeInFlight
       THEN Admit(Prober) ELSE UNCHANGED <<call, probeInFlight>>
    /\ UNCHANGED <<cooledDown, outcomes, healthy>>

\* The finally of execute.
EndCall(c) ==
    /\ call' = [call EXCEPT ![c] = "none"]
    /\ probeInFlight' = (probeInFlight /\ call[c] # "probe")

\* recordSuccess.  After a scheduled probe a circuit that is still HALF_OPEN
\* is probed again.
CallSucceeds(c) ==
    /\ call[c] # "none" /\ healthy
    /\ EndCall(c)
    /\ \/ circuit = "HALF_OPEN" /\ halfOpenSuccesses + 1 >= SuccessThreshold /\ Close
       \/ /\ circuit = "HALF_OPEN" /\ halfOpenSuccesses + 1 < SuccessThreshold
          /\ halfOpenSuccesses' = halfOpenSuccesses + 1
          /\ outcomes' = Recorded(FALSE)
          /\ probeTimer' = (probeTimer \/ c = Prober)
          /\ UNCHANGED <<circuit, cooledDown>>
       \/ /\ circuit # "HALF_OPEN"
          /\ outcomes' = Recorded(FALSE)
          /\ UNCHANGED <<circuit, cooledDown, probeTimer, halfOpenSuccesses>>
    /\ UNCHANGED healthy

\* recordFailure.
CallFails(c) ==
    /\ call[c] # "none" /\ ~healthy
    /\ outcomes' = Recorded(TRUE)
    /\ IF circuit = "HALF_OPEN" \/ (circuit = "CLOSED" /\ ShouldOpen(outcomes'))
       THEN OpenCircuit ELSE UNCHANGED <<circuit, cooledDown, probeTimer>>
    /\ EndCall(c)
    /\ UNCHANGED <<halfOpenSuccesses, healthy>>

\* pruneOutcomes: the oldest outcome leaves the window.
PruneOutcomes ==
    /\ outcomes # <<>>
    /\ outcomes' = Tail(outcomes)
    /\ UNCHANGED <<circuit, cooledDown, probeTimer, probeInFlight, halfOpenSuccesses, call, healthy>>

CooldownEnds ==
    /\ ~cooledDown
    /\ cooledDown' = TRUE
    /\ UNCHANGED <<circuit, probeTimer, probeInFlight, halfOpenSuccesses, outcomes, call, healthy>>

\* The upstream (external) goes down or comes back.
UpstreamTurns ==
    /\ healthy' = ~healthy
    /\ UNCHANGED <<circuit, cooledDown, probeTimer, probeInFlight, halfOpenSuccesses, outcomes, call>>

BreakerNext ==
    \/ RunScheduledProbe \/ PruneOutcomes \/ CooldownEnds \/ UpstreamTurns
    \/ \E c \in Callers : Execute(c)
    \/ \E c \in Calls : CallSucceeds(c) \/ CallFails(c)

\* Timers fire, time passes, and every HTTP call ends or times out; nothing
\* obliges callers to come.
BreakerFairness ==
    /\ WF_breakerVars(RunScheduledProbe)
    /\ WF_breakerVars(CooldownEnds)
    /\ \A c \in Calls : WF_breakerVars(CallSucceeds(c) \/ CallFails(c))

BreakerSpec == BreakerInit /\ [][BreakerNext]_breakerVars /\ BreakerFairness

-----------------------------------------------------------------------------
(* Properties.                                                             *)

\* circuitBreaker.ts: "the circuit recovers (HALF_OPEN -> CLOSED) even when
\* no traffic arrives".  Whatever calls of an earlier state are still under
\* way, an upstream that stays healthy closes the circuit for good.
RecoversWithoutTraffic == <>[]healthy => <>[](circuit = "CLOSED")
=============================================================================
