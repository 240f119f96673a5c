------------------------------ MODULE MCServing ------------------------------
(* A small instance of Serving. *)
EXTENDS Serving

CONSTANTS s1, s2
=============================================================================
