----------------------------- MODULE MCHostHalt -----------------------------
(* Small instances of HostHalt. *)
EXTENDS HostHalt

CONSTANTS t1, t2

SomeEdits == {Active, Suspended, Missing}
=============================================================================
