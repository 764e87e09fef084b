------------------------- MODULE MCWorkerRunHandle -------------------------
(* Instances of WorkerRunHandle for TLC.                                   *)
EXTENDS WorkerRunHandle, TLC

=============================================================================
