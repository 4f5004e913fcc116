--------------------------- MODULE FreshRecordProofs ---------------------------
(* Theorems about FreshRecord, for every set of programs. *)
EXTENDS FreshRecord, TLAPS

\* Who has no open handle has heard of nothing.
HeardInv == \A p \in Program \ open : heard[p] = {}

\* What the end of an exchange does to the types.
LEMMA CloseTypes ==
  ASSUME TypeOK, HeardInv, NEW p \in Program, Close(p)
  PROVE  /\ made' \in Nat /\ open' \subseteq Program /\ heard' \in [Program -> SUBSET Nat]
         /\ HeardInv' /\ p \notin open'
         /\ \A q \in Program \ {p} : heard'[q] = heard[q] /\ (q \in open' <=> q \in open)
  BY DEF Close, TypeOK, HeardInv

\* Each step keeps the types, and who is lone has the latest record or none.
LEMMA LatestStep ==
  ASSUME TypeOK, HeardInv, LoneRecordIsLatest, [Next]_vars
  PROVE  TypeOK' /\ HeardInv' /\ LoneRecordIsLatest'
<1>1. ASSUME NEW p \in Program, Open(p) PROVE TypeOK' /\ HeardInv' /\ LoneRecordIsLatest'
  <2>1. TypeOK' /\ HeardInv' /\ lone' \subseteq {p} /\ p \in open'
    BY <1>1 DEF Open, TypeOK, HeardInv
  <2>2. heard'[p] = {}
    BY <1>1 DEF Open, HeardInv
  <2> QED
    BY <2>1, <2>2 DEF LoneRecordIsLatest
<1>2. CASE Make
  <2>1. \A p \in Program : heard'[p] = IF p \in open THEN heard[p] \cup {made'} ELSE {}
    BY <1>2 DEF Make
  <2>2. TypeOK' /\ HeardInv'
    BY <1>2 DEF Make, TypeOK, HeardInv
  <2>3. \A p \in lone : p \in Program /\ p \in open /\ heard[p] = {}
    BY <1>2 DEF Make, TypeOK
  <2> QED
    BY <1>2, <2>1, <2>2, <2>3 DEF Make, LoneRecordIsLatest
<1>3. ASSUME NEW p \in Program, Return(p) PROVE TypeOK' /\ HeardInv' /\ LoneRecordIsLatest'
  <2>1. PICK n \in heard[p] : used' = [used EXCEPT ![p] = n]
    BY <1>3 DEF Return
  <2>2. TypeOK' /\ HeardInv'
    BY <1>3, <2>1, CloseTypes DEF Return, TypeOK
  <2>3. ASSUME NEW q \in lone'
        PROVE  \/ q \in open' /\ heard'[q] \subseteq {made'}
               \/ q \notin open' /\ used'[q] = made'
    <3>1. q \in lone /\ q \in Program /\ made' = made
      BY <1>3 DEF Return, Close, TypeOK
    <3>2. CASE q = p
      <4>1. p \in open /\ heard[p] \subseteq {made}
        BY <1>3, <3>1, <3>2 DEF Return, LoneRecordIsLatest
      <4>2. used'[p] = made /\ p \notin open'
        BY <1>3, <2>1, <4>1, CloseTypes DEF Return, TypeOK
      <4> QED
        BY <3>1, <3>2, <4>2
    <3>3. CASE q # p
      <4>1. used'[q] = used[q] /\ heard'[q] = heard[q] /\ (q \in open' <=> q \in open)
        BY <1>3, <2>1, <3>1, <3>3, CloseTypes DEF Return, TypeOK
      <4> QED
        BY <3>1, <4>1 DEF LoneRecordIsLatest
    <3> QED
      BY <3>2, <3>3
  <2> QED
    BY <2>2, <2>3 DEF LoneRecordIsLatest
<1>4. ASSUME NEW p \in Program, Leave(p) PROVE TypeOK' /\ HeardInv' /\ LoneRecordIsLatest'
  <2>1. TypeOK' /\ HeardInv'
    BY <1>4, CloseTypes DEF Leave, TypeOK
  <2>2. ASSUME NEW q \in lone'
        PROVE  \/ q \in open' /\ heard'[q] \subseteq {made'}
               \/ q \notin open' /\ used'[q] = made'
    <3>1. q \in lone /\ q \in Program \ {p} /\ made' = made
      BY <1>4 DEF Leave, Close, TypeOK
    <3>2. used'[q] = used[q] /\ heard'[q] = heard[q] /\ (q \in open' <=> q \in open)
      BY <1>4, <3>1, CloseTypes DEF Leave, TypeOK
    <3> QED
      BY <3>1, <3>2 DEF LoneRecordIsLatest
  <2> QED
    BY <2>1, <2>2 DEF LoneRecordIsLatest
<1>5. CASE Disturb \/ UNCHANGED vars
  BY <1>5 DEF Disturb, vars, TypeOK, HeardInv, LoneRecordIsLatest
<1> QED
  BY <1>1, <1>2, <1>3, <1>4, <1>5 DEF Next

\* A program that nobody came near since it began, the keyboard idle then, goes on
\* with the keyboard's latest record: what FreshRecord was written to say holds
\* in it, and so in all that implements it.
THEOREM LoneRecordsAreLatest == Spec => [](TypeOK /\ LoneRecordIsLatest)
<1>1. Init => TypeOK /\ HeardInv /\ LoneRecordIsLatest
  BY DEF Init, TypeOK, HeardInv, LoneRecordIsLatest
<1> QED
  BY <1>1, LatestStep, PTL DEF Spec
================================================================================
