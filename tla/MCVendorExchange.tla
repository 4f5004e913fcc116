-------------------------- MODULE MCVendorExchange --------------------------
(* An instance of VendorExchange for TLC: two programs, each for an adapter of its own. *)
EXTENDS VendorExchange

CONSTANTS p1, p2, hci0, hci1

TwoAdapters == [p \in Program |-> IF p = p1 THEN hci0 ELSE hci1]
=============================================================================
