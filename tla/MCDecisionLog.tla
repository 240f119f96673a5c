--------------------------- MODULE MCDecisionLog ---------------------------
(* Small instances of DecisionLog.  TLC cannot evaluate Nat in Records. *)
EXTENDS DecisionLog
=============================================================================
