---------------------------- MODULE MCCollection ----------------------------
(* Values of the constants of Collection for TLC.                          *)
EXTENDS Collection, TLC
=============================================================================
