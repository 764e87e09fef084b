-------------------------- MODULE MCSourceSnapshot --------------------------
(* Values of the constants of SourceSnapshot for TLC.                      *)
EXTENDS SourceSnapshot, TLC

CONSTANTS top, sub

MCDirs == <<top, sub>>
MCPlace == [f \in Files |-> IF f = 2 THEN sub ELSE top]
=============================================================================
