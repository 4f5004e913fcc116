----------------------------- MODULE OneTimeKey -----------------------------
(***************************************************************************)
(* What both kernel patch series promise of a Temporary Key that is not    *)
(* Persistent, whatever the Security Manager does in between: it produces  *)
(* at most one bond, and after that it is nowhere in the store.  A stored  *)
(* key may be withdrawn, or replaced by a newer one; one that a pairing    *)
(* has already read may still produce its bond after that.                 *)
(***************************************************************************)
EXTENDS Naturals

CONSTANT Serial   \* one per store of a key

VARIABLES
  issued,  \* keys stored so far
  live,    \* keys in the store now
  bonds    \* bonds each key has produced

Init == issued = {} /\ live = {} /\ bonds = [s \in Serial |-> 0]

Issue(s) ==
  /\ s \notin issued
  /\ issued' = issued \cup {s}
  /\ \E replaced \in SUBSET live : live' = (live \ replaced) \cup {s}
  /\ UNCHANGED bonds

Withdraw ==
  /\ \E withdrawn \in SUBSET live : live' = live \ withdrawn
  /\ UNCHANGED <<issued, bonds>>

ProduceBond(s) ==
  /\ s \in issued /\ bonds[s] = 0
  /\ bonds' = [bonds EXCEPT ![s] = 1]
  /\ \E dropped \in SUBSET live : live' = live \ (dropped \cup {s})
  /\ UNCHANGED issued

Next == Withdraw \/ \E s \in Serial : Issue(s) \/ ProduceBond(s)
Spec == Init /\ [][Next]_<<issued, live, bonds>>
=============================================================================
