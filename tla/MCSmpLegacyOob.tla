--------------------------- MODULE MCSmpLegacyOob ---------------------------
(* Instances of SmpLegacyOob for TLC: which peers there are and where. *)
EXTENDS SmpLegacyOob

CONSTANTS a1, a2, a3, k1, k2, kbd, other

\* The keyboard alone, identity address = connection address.
StaticConn == [p \in Peer |-> IF p = kbd THEN a1 ELSE a2]
StaticId == StaticConn

\* The keyboard is connected at a1 and distributes the identity a3.
PrivateId == [p \in Peer |-> IF p = kbd THEN a3 ELSE a2]

KbdAndLegacy == [p \in Peer |-> IF p = kbd THEN "oob" ELSE "legacy"]
KbdAndSc == [p \in Peer |-> IF p = kbd THEN "oob" ELSE "sc"]
=============================================================================
