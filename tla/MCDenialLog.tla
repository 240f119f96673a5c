---------------------------- MODULE MCDenialLog ----------------------------
(* Small instances of DenialLog for TLC. *)
EXTENDS DenialLog

CONSTANTS c1, c2
=============================================================================
