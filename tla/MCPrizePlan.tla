----------------------------- MODULE MCPrizePlan -----------------------------
(* Leagues of up to five members with every pattern of ties.  100 stroops  *)
(* to the cent instead of 100000 keep the contract's products within TLC's *)
(* integers; percentages of a cent are whole stroops with either.          *)
EXTENDS PrizePlan

MCCustomSplits == {<<5000, 3000, 2000>>, <<3334, 3333, 3333>>, <<0, 0, 10000>>}
=============================================================================
