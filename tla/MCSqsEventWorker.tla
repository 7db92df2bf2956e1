-------------------------- MODULE MCSqsEventWorker --------------------------
(***************************************************************************)
(* Instances of SqsEventWorker for TLC.                                    *)
(***************************************************************************)
EXTENDS SqsEventWorker, TLC

CONSTANTS w1, w2, e1, l1, x1
=============================================================================
