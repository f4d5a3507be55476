--------------------------- MODULE MCIntegrations ---------------------------
(* The parts that follow the world outside: the deposits of a league, the  *)
(* ingestion of contract events, the replay queue and the circuit breaker. *)
(* They share no state here, so one of them moves and the others rest.     *)
EXTENDS MCDepositPipeline, EventIngestion, MCReplayQueue, CircuitBreaker

VARIABLE part

MCInit ==
    /\ part \in {"deposits", "ingestion", "replay", "breaker"}
    /\ DepositInit /\ IngestionInit /\ ReplayInit /\ BreakerInit

MCNext ==
    /\ UNCHANGED part
    /\ \/ /\ part = "deposits" /\ DepositNext
          /\ UNCHANGED <<ingestionVars, replayVars, breakerVars>>
       \/ /\ part = "ingestion" /\ IngestionNext
          /\ UNCHANGED <<depositVars, replayVars, breakerVars>>
       \/ /\ part = "replay" /\ ReplayNext
          /\ UNCHANGED <<depositVars, ingestionVars, breakerVars>>
       \/ /\ part = "breaker" /\ BreakerNext
          /\ UNCHANGED <<depositVars, ingestionVars, replayVars>>

\* The fairness of each part, for the part that moves.
MCFairness ==
    /\ \A h \in Hashes :
          /\ WF_depositVars(part = "deposits" /\ CoordinatorFinalizes(h))
          /\ WF_depositVars(part = "deposits" /\ VerifyEnds(h))
    /\ \A d \in Daemons : WF_ingestionVars(part = "ingestion" /\ PollOnce(d))
    /\ \A w \in Workers : WF_replayVars(part = "replay" /\ WorkerStep(w))
    /\ \A e \in Envelopes :
          /\ WF_replayVars(part = "replay" /\ LeaseExpires(e))
          /\ WF_replayVars(part = "replay" /\ BecomesDue(e))
    /\ WF_breakerVars(part = "breaker" /\ RunScheduledProbe)
    /\ WF_breakerVars(part = "breaker" /\ CooldownEnds)
    /\ \A c \in Calls : WF_breakerVars(part = "breaker" /\ (CallSucceeds(c) \/ CallFails(c)))

MCSpec ==
    /\ MCInit /\ MCFairness
    /\ [][MCNext]_<<part, depositVars, ingestionVars, replayVars, breakerVars>>
=============================================================================
