------------------------------ MODULE MCSessions ------------------------------
(* A small instance of Sessions. *)
EXTENDS Sessions

CONSTANTS t1, d1

\* Two connections with a request each; after a restart one, with two.
TwoThenOne == <<[connections |-> 2, requests |-> 1], [connections |-> 1, requests |-> 2]>>
===============================================================================
