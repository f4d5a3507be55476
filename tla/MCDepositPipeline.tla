-------------------------- MODULE MCDepositPipeline --------------------------
(* One wallet whose deposit travels every path and a second member, in a   *)
(* league for one, so that a deposit is over capacity once both joined.    *)
EXTENDS DepositPipeline

CONSTANTS ann, zed, a1

MCSender == [h \in Hashes |-> ann]
=============================================================================
