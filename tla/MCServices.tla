----------------------------- MODULE MCServices -----------------------------
(* The backend services that share no state, checked side by side: `part`  *)
(* says which of them takes steps, and the others keep one initial state.  *)
(* The components and their properties are those of their own modules.     *)
EXTENDS MCPrizePlan, MCGameweekSettlement, LeagueMembership, IdempotencyKeys,
        SwissTournament, DraftRoom

VARIABLE part   \* the service that is running

MCFields == {<<"a", "b">>, <<"a", "b", "c">>, <<"a", "b", "c", "d">>,
             <<"a", "b", "c", "d", "e">>}

\* Two squads, four picks, and quotas that a fourth pick can meet.
MCOrder == <<"ann", "bob">>
MCPositionOf == [p \in Footballers |-> IF p < 3 THEN "GKP" ELSE "DEF"]
MCLimits == [q \in {"GKP", "DEF"} |-> IF q = "GKP" THEN 1 ELSE 2]

servicesVars == <<part, planVars, settlementVars, membershipVars, idempotencyVars, swissVars,
                  draftVars>>

\* A service that rests has one of its initial states.
ServicesInit ==
    /\ part \in {"plan", "settlement", "membership", "idempotency", "swiss", "draft"}
    /\ league \in IF part = "plan" THEN PlanLeagues ELSE {CHOOSE l \in PlanLeagues : TRUE}
    /\ PlanInit
    /\ SettlementInit
    /\ (part # "settlement" => custom)
    /\ MembershipInit
    /\ (part # "membership" => isPrivate)
    /\ body \in IF part = "idempotency" THEN [Attempts -> Bodies]
                ELSE {[a \in Attempts |-> CHOOSE b \in Bodies : TRUE]}
    /\ IdempotencyInit
    /\ field \in IF part = "swiss" THEN Fields ELSE {<<"a", "b">>}
    /\ SwissInit
    /\ DraftInit

ServicesNext ==
    /\ UNCHANGED part
    /\ \/ /\ part = "plan" /\ PlanNext
          /\ UNCHANGED <<settlementVars, membershipVars, idempotencyVars, swissVars, draftVars>>
       \/ /\ part = "settlement" /\ SettlementNext
          /\ UNCHANGED <<planVars, membershipVars, idempotencyVars, swissVars, draftVars>>
       \/ /\ part = "membership" /\ MembershipNext
          /\ UNCHANGED <<planVars, settlementVars, idempotencyVars, swissVars, draftVars>>
       \/ /\ part = "idempotency" /\ IdempotencyNext
          /\ UNCHANGED <<planVars, settlementVars, membershipVars, swissVars, draftVars>>
       \/ /\ part = "swiss" /\ SwissNext
          /\ UNCHANGED <<planVars, settlementVars, membershipVars, idempotencyVars, draftVars>>
       \/ /\ part = "draft" /\ DraftNext
          /\ UNCHANGED <<planVars, settlementVars, membershipVars, idempotencyVars, swissVars>>

ServicesSpec == ServicesInit /\ [][ServicesNext]_servicesVars
=============================================================================
