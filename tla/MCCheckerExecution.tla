------------------------- MODULE MCCheckerExecution -------------------------
(* Instances of CheckerExecution; their constants are in the cfg files.    *)
EXTENDS CheckerExecution
=============================================================================
