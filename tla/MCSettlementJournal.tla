------------------------- MODULE MCSettlementJournal -------------------------
(* Two requests racing with the recovery job, three signed transactions,   *)
(* one change of the standings and one fault.                              *)
EXTENDS SettlementJournal, TLC

CONSTANTS c1, c2, recovery
=============================================================================
