--------------------------- MODULE MCEventParser ---------------------------
(* EventParser for TLC: MaxDepth is given in the configurations.           *)
EXTENDS EventParser
=============================================================================
