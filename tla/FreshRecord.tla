----------------------------- MODULE FreshRecord -----------------------------
(***************************************************************************)
(* What the vendor exchange promises a program, however commands and       *)
(* reports travel: the record it returns was made while its hidraw handle  *)
(* was open, though perhaps for somebody else.  A program that is lone     *)
(* (nobody else was at work and the keyboard was idle when it began, and   *)
(* nobody has begun since) sees at most one record made, and none after    *)
(* its handle is closed.                                                   *)
(*                                                                         *)
(* Records are numbered in the order the keyboard makes them.              *)
(***************************************************************************)
EXTENDS Naturals

CONSTANT Program

VARIABLES
  made,   \* the keyboard's latest record
  open,   \* programs with an open handle
  heard,  \* per program: the records it may be told of
  used,   \* per program: the record its exchange returned, 0 for none
  lone    \* programs nobody has come near since they began

vars == <<made, open, heard, used, lone>>

Init ==
  /\ made = 0 /\ open = {} /\ lone = {}
  /\ heard = [p \in Program |-> {}]
  /\ used = [p \in Program |-> 0]

Open(p) ==
  /\ p \notin open /\ open' = open \cup {p}
  /\ lone' = {} \/ (open = {} /\ lone' = {p})
  /\ UNCHANGED <<made, heard, used>>

Make ==
  /\ \A p \in lone : p \in open /\ heard[p] = {}
  /\ made' = made + 1
  /\ heard' = [p \in Program |-> IF p \in open THEN heard[p] \cup {made'} ELSE {}]
  /\ UNCHANGED <<open, used, lone>>

Close(p) ==
  /\ open' = open \ {p}
  /\ heard' = [heard EXCEPT ![p] = {}]
  /\ UNCHANGED made

Return(p) ==
  /\ p \in open /\ Close(p)
  /\ \E n \in heard[p] : used' = [used EXCEPT ![p] = n]
  /\ UNCHANGED lone

\* The exchange fails, or the program is done with its record or with itself.
Leave(p) ==
  /\ Close(p)
  /\ used' \in {used, [used EXCEPT ![p] = 0]}
  /\ lone' = lone \ {p}

\* Another program has come to work.
Disturb == lone' \in SUBSET lone /\ UNCHANGED <<made, open, heard, used>>

Next == Make \/ Disturb \/ \E p \in Program : Open(p) \/ Return(p) \/ Leave(p)

Spec == Init /\ [][Next]_vars

-------------------------------------------------------------------------------
TypeOK ==
  /\ made \in Nat
  /\ open \subseteq Program /\ lone \subseteq Program
  /\ heard \in [Program -> SUBSET Nat]
  /\ used \in [Program -> Nat]

\* A lone program that has its record has the keyboard's latest.
LoneRecordIsLatest ==
  \A p \in lone : \/ p \in open /\ heard[p] \subseteq {made}
                  \/ p \notin open /\ used[p] = made
===============================================================================
