-------------------------- MODULE MCRefundDispatch --------------------------
(* Two members in batches of one, the refund job, one administrator, and   *)
(* at most one fault.                                                      *)
EXTENDS RefundDispatch, TLC

CONSTANTS m1, m2, job, admin
=============================================================================
