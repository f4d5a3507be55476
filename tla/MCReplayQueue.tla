---------------------------- MODULE MCReplayQueue ----------------------------
(* An envelope and the one signed in its place: both carry the first       *)
(* sequence number of the account.                                         *)
EXTENDS ReplayQueue

CONSTANTS first, second

MCSequenceOf == [e \in Envelopes |-> 1]
=============================================================================
