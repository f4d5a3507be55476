-------------------------- MODULE ContractEventLog --------------------------
(* What the ingestion of contract events promises: a record of the         *)
(* contract's events, in which an event is missing below a recorded one    *)
(* only if the node had dropped it before it could be read.                *)
EXTENDS Naturals

CONSTANT MaxEvents  \* bound: events of the contract

VARIABLES
    emitted,   \* events of the contract so far; event p is the p-th
    pruned,    \* events the node no longer serves
    recorded   \* events in soroban_contract_events
logVars == <<emitted, pruned, recorded>>

LogInit ==
    /\ emitted = 0
    /\ pruned = 0
    /\ recorded = {}

Emit ==
    /\ emitted' \in emitted..MaxEvents
    /\ UNCHANGED <<pruned, recorded>>

Prune ==
    /\ pruned' \in pruned..emitted
    /\ UNCHANGED <<emitted, recorded>>

\* Nothing is forgotten, and no event still served is passed over.
Record ==
    /\ recorded' \in SUBSET (1..emitted)
    /\ recorded \subseteq recorded'
    /\ \A p \in recorded', q \in 1..emitted : q < p => q \in recorded' \/ q <= pruned
    /\ UNCHANGED <<emitted, pruned>>

LogNext == Emit \/ Prune \/ Record

\* Every event is recorded or dropped by the node in the end.
NothingWaitsForever ==
    \A p \in 1..MaxEvents : (p <= emitted) ~> (p \in recorded \/ p <= pruned)

LogSpec == LogInit /\ [][LogNext]_logVars /\ NothingWaitsForever
=============================================================================
