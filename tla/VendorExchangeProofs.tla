------------------------- MODULE VendorExchangeProofs -------------------------
(* Theorems about VendorExchange, for every set of programs and adapters and every bound. *)
EXTENDS VendorExchange, TLAPS

-------------------------------------------------------------------------------
(***************************************************************************)
(* Types                                                                   *)
(***************************************************************************)

\* Reading a queue from its head, and adding to its end, keeps it one.
LEMMA QueueTypes ==
  ASSUME NEW S, NEW s \in Seq(S), NEW e \in S
  PROVE  /\ Append(s, e) \in Seq(S)
         /\ s # <<>> => Head(s) \in S /\ Tail(s) \in Seq(S)
  OBVIOUS

\* What is at index i of the tail was at i + 1, and what is at i of an
\* extended sequence was there before or is the new element.
LEMMA QueueIndices ==
  ASSUME NEW S, NEW s \in Seq(S), NEW e \in S
  PROVE  /\ DOMAIN s = 1..Len(s)
         /\ \A i \in DOMAIN Append(s, e) :
              \/ i \in DOMAIN s /\ Append(s, e)[i] = s[i]
              \/ i = Len(s) + 1 /\ Append(s, e)[i] = e
         /\ s # <<>> => /\ 1 \in DOMAIN s /\ Head(s) = s[1]
                        /\ \A i \in DOMAIN Tail(s) : i + 1 \in DOMAIN s /\ Tail(s)[i] = s[i + 1]
  OBVIOUS

\* A command is one, and its effect leaves the keyboard a keyboard.
LEMMA EffectTypes ==
  ASSUME NEW c \in Command, TypeOK
  PROVE  /\ Effect(c) \in [host : Adapter \cup {NoHost}, rec : Nat]
         /\ Effect(c).rec = IF c.op = "F3" THEN kb.rec + 1 ELSE kb.rec
         /\ Effect(c).host = IF c.op = "F1" THEN c.host ELSE kb.host
  BY DEF Effect, TypeOK, Command, Opcode

\* What a program sends is a command and leaves the programs' state one.
LEMMA SendTypes ==
  ASSUME TypeOK, NEW p \in Program, NEW op \in Opcode, Send(p, op)
  PROVE  /\ cmds' \in Seq(Command) /\ cmds' = Append(cmds, [op |-> op, host |-> Host[p]])
         /\ [op |-> op, host |-> Host[p]] \in Command
         /\ pc' \in [Program -> Opcode \cup {"closed", "got"}]
         /\ pc'[p] = op /\ \A q \in Program \ {p} : pc'[q] = pc[q]
<1>1. [op |-> op, host |-> Host[p]] \in Command
  BY HostAssumption DEF Command
<1> QED
  BY <1>1, QueueTypes DEF Send, TypeOK

\* After an exchange the handle is closed and its queue gone.
LEMMA ReturnTypes ==
  ASSUME TypeOK, NEW p \in Program, NEW end \in {"closed", "got"}, Return(p, end)
  PROVE  /\ cmds' = cmds
         /\ pc' \in [Program -> Opcode \cup {"closed", "got"}]
         /\ inq' \in [Program -> Seq(Report)]
         /\ pc'[p] = end /\ \A q \in Program \ {p} : pc'[q] = pc[q] /\ inq'[q] = inq[q]
         /\ inq'[p] = <<>> /\ ~IsOpen(p)'
  BY DEF Return, TypeOK, IsOpen, Opcode

\* Taking the head of a queue.
LEMMA TakeTypes ==
  ASSUME TypeOK, NEW p \in Program, inq[p] # <<>>, inq' = [inq EXCEPT ![p] = Tail(@)]
  PROVE  /\ inq' \in [Program -> Seq(Report)]
         /\ inq'[p] = Tail(inq[p]) /\ \A q \in Program \ {p} : inq'[q] = inq[q]
  BY QueueTypes DEF TypeOK

\* An input report reaches the handles that are open.
LEMMA QueuedTypes ==
  ASSUME TypeOK, NEW rep \in Report, inq' = Queued(rep)
  PROVE  /\ inq' \in [Program -> Seq(Report)]
         /\ \A p \in Program : inq'[p] = IF IsOpen(p) THEN Append(inq[p], rep) ELSE inq[p]
  BY QueueTypes DEF TypeOK, Queued

\* What the keyboard does with the oldest command: it carries it out or not,
\* and adds at most one report, about that command, to the handles that are open.
LEMMA KeyboardStep ==
  ASSUME TypeOK, Keyboard
  PROVE  /\ cmds # <<>> /\ cmds' = Tail(cmds) /\ Head(cmds) \in Command
         /\ UNCHANGED <<pc, got, since, alone>>
         /\ kb'.rec = kb.rec \/ (Head(cmds).op = "F3" /\ kb'.rec = kb.rec + 1)
         /\ kb'.host = kb.host \/ (Head(cmds).op = "F1" /\ kb'.host = Head(cmds).host)
         /\ \A p \in Program : \A i \in DOMAIN inq'[p] :
              \/ i \in DOMAIN inq[p] /\ inq'[p][i] = inq[p][i]
              \/ /\ IsOpen(p) /\ inq'[p][i].op = Head(cmds).op
                 /\ inq'[p][i].ok =>
                      /\ inq'[p][i].rec = kb'.rec
                      /\ Head(cmds).op = "F3" => kb'.rec = kb.rec + 1
                      /\ Head(cmds).op = "F1" => kb'.host = Head(cmds).host
<1>1. cmds # <<>> /\ cmds' = Tail(cmds) /\ UNCHANGED <<pc, got, since, alone>>
  BY DEF Keyboard, Answer, Lose
<1>2. Head(cmds) \in Command
  BY <1>1 DEF TypeOK
<1>3. /\ Effect(Head(cmds)).rec = IF Head(cmds).op = "F3" THEN kb.rec + 1 ELSE kb.rec
      /\ Effect(Head(cmds)).host = IF Head(cmds).op = "F1" THEN Head(cmds).host ELSE kb.host
      /\ Effect(Head(cmds)) \in [host : Adapter \cup {NoHost}, rec : Nat]
  BY <1>2, EffectTypes
<1>4. kb' = kb \/ kb' = Effect(Head(cmds))
  BY DEF Keyboard, Answer, Lose
<1>5. kb'.rec \in Nat /\ kb.rec \in Nat
  BY <1>3, <1>4 DEF TypeOK
<1>6. ASSUME NEW rep \in Report, inq' = Queued(rep), NEW p \in Program, NEW i \in DOMAIN inq'[p]
      PROVE  (i \in DOMAIN inq[p] /\ inq'[p][i] = inq[p][i]) \/ (IsOpen(p) /\ inq'[p][i] = rep)
  <2>1. inq'[p] = IF IsOpen(p) THEN Append(inq[p], rep) ELSE inq[p]
    BY <1>6, QueuedTypes
  <2>2. CASE IsOpen(p)
    <3>1. inq[p] \in Seq(Report) /\ inq'[p] = Append(inq[p], rep) /\ i \in DOMAIN Append(inq[p], rep)
      BY <1>6, <2>1, <2>2 DEF TypeOK
    <3> QED
      BY <2>2, <3>1, QueueIndices
  <2>3. CASE ~IsOpen(p)
    BY <1>6, <2>1, <2>3
  <2> QED
    BY <2>2, <2>3
<1>7. /\ kb'.rec = kb.rec \/ (Head(cmds).op = "F3" /\ kb'.rec = kb.rec + 1)
      /\ kb'.host = kb.host \/ (Head(cmds).op = "F1" /\ kb'.host = Head(cmds).host)
  BY <1>3, <1>4
<1>8. ASSUME NEW p \in Program, NEW i \in DOMAIN inq'[p], ~(i \in DOMAIN inq[p] /\ inq'[p][i] = inq[p][i])
      PROVE  /\ IsOpen(p) /\ inq'[p][i].op = Head(cmds).op
             /\ inq'[p][i].ok =>
                  /\ inq'[p][i].rec = kb'.rec
                  /\ Head(cmds).op = "F3" => kb'.rec = kb.rec + 1
                  /\ Head(cmds).op = "F1" => kb'.host = Head(cmds).host
  <2>1. CASE Lose
    BY <1>8, <2>1 DEF Lose
  <2>2. CASE /\ kb' = Effect(Head(cmds))
             /\ inq' = Queued([op |-> Head(cmds).op, ok |-> TRUE, rec |-> kb'.rec])
    <3> DEFINE rep == [op |-> Head(cmds).op, ok |-> TRUE, rec |-> kb'.rec]
    <3>1. rep \in Report /\ inq' = Queued(rep)
      BY <1>2, <1>5, <2>2 DEF Report, Command
    <3> HIDE DEF rep
    <3>2. (i \in DOMAIN inq[p] /\ inq'[p][i] = inq[p][i]) \/ (IsOpen(p) /\ inq'[p][i] = rep)
      BY <1>6, <3>1
    <3>3. IsOpen(p) /\ inq'[p][i] = rep
      BY <1>8, <3>2
    <3> QED
      BY <1>3, <2>2, <3>3 DEF rep
  <2>3. CASE inq' = Queued([op |-> Head(cmds).op, ok |-> FALSE, rec |-> kb.rec])
    <3> DEFINE rep == [op |-> Head(cmds).op, ok |-> FALSE, rec |-> kb.rec]
    <3>1. rep \in Report /\ inq' = Queued(rep)
      BY <1>2, <1>5, <2>3 DEF Report, Command
    <3> HIDE DEF rep
    <3>2. (i \in DOMAIN inq[p] /\ inq'[p][i] = inq[p][i]) \/ (IsOpen(p) /\ inq'[p][i] = rep)
      BY <1>6, <3>1
    <3>3. IsOpen(p) /\ inq'[p][i] = rep
      BY <1>8, <3>2
    <3> QED
      BY <3>3 DEF rep
  <2> QED
    BY <2>1, <2>2, <2>3 DEF Keyboard, Answer
<1> QED
  BY <1>1, <1>2, <1>7, <1>8

\* The types hold at the start.
LEMMA TypeInit == Init => TypeOK
  BY DEF Init, TypeOK, IsOpen, Opcode

\* Each step keeps the types.
LEMMA TypeStep == TypeOK /\ [Next]_vars => TypeOK'
<1> SUFFICES ASSUME TypeOK, [Next]_vars PROVE TypeOK'
  OBVIOUS
<1>1. ASSUME NEW p \in Program, Open(p) PROVE TypeOK'
  <2>1. Send(p, "F1")
    BY <1>1 DEF Open
  <2>2. /\ cmds' \in Seq(Command) /\ pc' \in [Program -> Opcode \cup {"closed", "got"}]
        /\ pc'[p] = "F1" /\ \A q \in Program \ {p} : pc'[q] = pc[q]
    BY <2>1, SendTypes DEF Opcode
  <2>3. since' \in [Program -> Nat] /\ alone' \in [Program -> BOOLEAN] /\ begun' \in Nat
    BY <1>1 DEF Open, TypeOK
  <2> QED
    BY <1>1, <2>2, <2>3 DEF Open, TypeOK, IsOpen, Opcode
<1>2. ASSUME NEW p \in Program, Discard(p) PROVE TypeOK'
  <2>1. inq' \in [Program -> Seq(Report)] /\ \A q \in Program \ {p} : inq'[q] = inq[q]
    BY <1>2, TakeTypes DEF Discard
  <2> QED
    BY <1>2, <2>1 DEF Discard, TypeOK, IsOpen
<1>3. ASSUME NEW p \in Program, NEW op \in Opcode, Send(p, op),
             inq' \in [Program -> Seq(Report)], \A q \in Program \ {p} : inq'[q] = inq[q],
             UNCHANGED <<got, kb, begun, since, alone>>
      PROVE  TypeOK'
  <2>1. /\ cmds' \in Seq(Command) /\ pc' \in [Program -> Opcode \cup {"closed", "got"}]
        /\ pc'[p] = op /\ \A q \in Program \ {p} : pc'[q] = pc[q]
    BY <1>3, SendTypes
  <2> QED
    BY <1>3, <2>1 DEF TypeOK, IsOpen
<1>4. ASSUME NEW p \in Program, NEW end \in {"closed", "got"}, Return(p, end),
             got' \in [Program -> Nat], UNCHANGED <<kb, begun, since, alone>>
      PROVE  TypeOK'
  <2>1. /\ cmds' = cmds /\ pc' \in [Program -> Opcode \cup {"closed", "got"}]
        /\ inq' \in [Program -> Seq(Report)] /\ inq'[p] = <<>>
        /\ \A q \in Program \ {p} : pc'[q] = pc[q] /\ inq'[q] = inq[q]
    BY <1>4, ReturnTypes
  <2> QED
    BY <1>4, <2>1 DEF TypeOK, IsOpen
<1>5. ASSUME NEW p \in Program, RecvF1(p) PROVE TypeOK'
  <2>1. CASE Send(p, "F2") /\ inq' = [inq EXCEPT ![p] = Tail(@)]
    <3>1. inq' \in [Program -> Seq(Report)] /\ \A q \in Program \ {p} : inq'[q] = inq[q]
      BY <1>5, <2>1, TakeTypes DEF RecvF1, Answered
    <3>2. "F2" \in Opcode /\ UNCHANGED <<got, kb, begun, since, alone>>
      BY <1>5 DEF RecvF1, Opcode
    <3> QED
      BY <1>3, <2>1, <3>1, <3>2
  <2>2. CASE Return(p, "closed")
    <3>1. got' \in [Program -> Nat] /\ UNCHANGED <<kb, begun, since, alone>>
      BY <1>5 DEF RecvF1, TypeOK
    <3> QED
      BY <1>4, <2>2, <3>1
  <2> QED
    BY <1>5, <2>1, <2>2 DEF RecvF1
<1>6. ASSUME NEW p \in Program, RecvF2(p) PROVE TypeOK'
  <2>1. inq' \in [Program -> Seq(Report)] /\ \A q \in Program \ {p} : inq'[q] = inq[q]
    BY <1>6, TakeTypes DEF RecvF2, Answered
  <2>2. "F3" \in Opcode /\ Send(p, "F3") /\ UNCHANGED <<got, kb, begun, since, alone>>
    BY <1>6 DEF RecvF2, Opcode
  <2> QED
    BY <1>3, <2>1, <2>2
<1>7. ASSUME NEW p \in Program, RecvF3(p) PROVE TypeOK'
  <2>1. Head(inq[p]).rec \in Nat
    <3>1. inq[p] # <<>> /\ inq[p] \in Seq(Report)
      BY <1>7 DEF RecvF3, Answered, TypeOK
    <3>2. Head(inq[p]) \in Report
      BY <3>1
    <3> QED
      BY <3>2 DEF Report
  <2>2. got' \in [Program -> Nat] /\ UNCHANGED <<kb, begun, since, alone>>
    BY <1>7, <2>1 DEF RecvF3, TypeOK
  <2>3. Return(p, "closed") \/ Return(p, "got")
    BY <1>7 DEF RecvF3
  <2> QED
    BY <1>4, <2>2, <2>3
<1>8. ASSUME NEW p \in Program, GiveUp(p) PROVE TypeOK'
  <2>1. got' \in [Program -> Nat] /\ UNCHANGED <<got, kb, begun, since, alone>>
    BY <1>8 DEF GiveUp, TypeOK
  <2>2. CASE Return(p, "closed")
    BY <1>4, <2>1, <2>2
  <2>3. CASE Send(p, "F3") /\ UNCHANGED inq
    BY <1>3, <2>1, <2>3 DEF TypeOK, Opcode
  <2> QED
    BY <1>8, <2>2, <2>3 DEF GiveUp
<1>9. ASSUME Keyboard PROVE TypeOK'
  <2>1. cmds # <<>> /\ cmds' = Tail(cmds) /\ UNCHANGED <<pc, got, begun, since, alone>>
    BY <1>9 DEF Keyboard, Answer, Lose
  <2>2. Head(cmds) \in Command /\ cmds' \in Seq(Command)
    BY <2>1, QueueTypes DEF TypeOK
  <2>3. kb' \in [host : Adapter \cup {NoHost}, rec : Nat]
    BY <1>9, <2>2, EffectTypes DEF Keyboard, Answer, Lose, TypeOK
  <2>4. inq' = inq \/ \E rep \in Report : inq' = Queued(rep)
    BY <1>9, <2>2, <2>3 DEF Keyboard, Answer, Lose, Report, Command, TypeOK
  <2>5. inq' \in [Program -> Seq(Report)] /\ \A p \in Program : ~IsOpen(p) => inq'[p] = inq[p]
    BY <2>4, QueuedTypes DEF TypeOK
  <2> QED
    BY <2>1, <2>2, <2>3, <2>5 DEF TypeOK, IsOpen
<1>10. CASE UNCHANGED vars
  BY <1>10 DEF TypeOK, vars, IsOpen
<1> QED
  BY <1>1, <1>2, <1>5, <1>6, <1>7, <1>8, <1>9, <1>10 DEF Next, Wait

\* Type correctness: in every state of the exchange, every variable has its
\* type and a closed handle holds no reports.
THEOREM ExchangeTypes == Spec => []TypeOK
<1> QED
  BY TypeInit, TypeStep, PTL DEF Spec

-------------------------------------------------------------------------------
(***************************************************************************)
(* Fresh records                                                           *)
(***************************************************************************)

\* Each step keeps what is queued, and what was taken, newer than the handle.
LEMMA FreshStep ==
  ASSUME TypeOK, TypeOK', QueuedIsFresh, RecordIsFresh, [Next]_vars
  PROVE  QueuedIsFresh' /\ RecordIsFresh'
<1>1. ASSUME NEW p \in Program, UNCHANGED <<kb, since>>,
             \A q \in Program \ {p} : inq'[q] = inq[q] /\ pc'[q] = pc[q] /\ got'[q] = got[q],
             \/ inq'[p] = inq[p] \/ inq'[p] = <<>>
             \/ inq[p] # <<>> /\ inq'[p] = Tail(inq[p]),
             pc'[p] = "got" => got'[p] > since[p]
      PROVE  QueuedIsFresh' /\ RecordIsFresh'
  <2>1. \A i \in DOMAIN inq'[p] :
          inq'[p][i].op = "F3" /\ inq'[p][i].ok => inq'[p][i].rec > since[p]
    <3>1. CASE inq'[p] = inq[p]
      BY <3>1 DEF QueuedIsFresh
    <3>2. CASE inq'[p] = <<>>
      BY <3>2
    <3>3. CASE inq[p] # <<>> /\ inq'[p] = Tail(inq[p])
      <4>1. inq[p] \in Seq(Report)
        BY DEF TypeOK
      <4>2. \A i \in DOMAIN Tail(inq[p]) :
              i + 1 \in DOMAIN inq[p] /\ Tail(inq[p])[i] = inq[p][i + 1]
        BY <3>3, <4>1
      <4> QED
        BY <3>3, <4>2 DEF QueuedIsFresh
    <3> QED
      BY <1>1, <3>1, <3>2, <3>3
  <2> QED
    BY <1>1, <2>1 DEF QueuedIsFresh, RecordIsFresh
<1>2. ASSUME NEW p \in Program, Open(p) PROVE QueuedIsFresh' /\ RecordIsFresh'
  <2>1. pc'[p] = "F1" /\ \A q \in Program \ {p} : pc'[q] = pc[q]
    BY <1>2, SendTypes DEF Open, Opcode
  <2>2. inq[p] = <<>> /\ inq' = inq /\ got' = got /\ kb' = kb
        /\ since'[p] = kb.rec /\ \A q \in Program \ {p} : since'[q] = since[q]
    BY <1>2 DEF Open, TypeOK
  <2>3. ASSUME NEW q \in Program
        PROVE  /\ since'[q] <= kb'.rec
               /\ \A i \in DOMAIN inq'[q] :
                    inq'[q][i].op = "F3" /\ inq'[q][i].ok => inq'[q][i].rec > since'[q]
    <3>1. CASE q = p
      BY <2>2, <3>1 DEF TypeOK
    <3>2. CASE q # p
      BY <2>2, <3>2 DEF QueuedIsFresh
    <3> QED
      BY <3>1, <3>2
  <2>4. RecordIsFresh'
    BY <2>1, <2>2 DEF RecordIsFresh
  <2> QED
    BY <2>3, <2>4 DEF QueuedIsFresh
<1>3. ASSUME NEW p \in Program, Discard(p) PROVE QueuedIsFresh' /\ RecordIsFresh'
  BY <1>1, <1>3, TakeTypes DEF Discard, RecordIsFresh
<1>4. ASSUME NEW p \in Program, RecvF1(p) \/ RecvF2(p) \/ GiveUp(p)
      PROVE  QueuedIsFresh' /\ RecordIsFresh'
  <2>1. UNCHANGED <<kb, since, got>>
    BY <1>4 DEF RecvF1, RecvF2, GiveUp
  <2>2. CASE Return(p, "closed")
    BY <1>1, <2>1, <2>2, ReturnTypes
  <2>3. ASSUME NEW op \in Opcode, Send(p, op), inq' = inq PROVE QueuedIsFresh' /\ RecordIsFresh'
    <3>1. pc'[p] = op /\ \A q \in Program \ {p} : pc'[q] = pc[q]
      BY <2>3, SendTypes
    <3> QED
      BY <1>1, <2>1, <2>3, <3>1 DEF Opcode
  <2>4. ASSUME NEW op \in Opcode, Send(p, op), inq[p] # <<>>, inq' = [inq EXCEPT ![p] = Tail(@)]
        PROVE  QueuedIsFresh' /\ RecordIsFresh'
    <3>1. pc'[p] = op /\ \A q \in Program \ {p} : pc'[q] = pc[q]
      BY <2>4, SendTypes
    <3>2. inq'[p] = Tail(inq[p]) /\ \A q \in Program \ {p} : inq'[q] = inq[q]
      BY <2>4, TakeTypes
    <3> QED
      BY <1>1, <2>1, <2>4, <3>1, <3>2 DEF Opcode
  <2> QED
    BY <1>4, <2>2, <2>3, <2>4 DEF RecvF1, RecvF2, GiveUp, Answered, Opcode
<1>5. ASSUME NEW p \in Program, RecvF3(p) PROVE QueuedIsFresh' /\ RecordIsFresh'
  <2>1. UNCHANGED <<kb, since>> /\ (Return(p, "closed") \/ Return(p, "got"))
        /\ \A q \in Program \ {p} : got'[q] = got[q]
    BY <1>5 DEF RecvF3, TypeOK
  <2>2. /\ inq'[p] = <<>>
        /\ \A q \in Program \ {p} : inq'[q] = inq[q] /\ pc'[q] = pc[q]
    BY <2>1, ReturnTypes
  <2>3. pc'[p] = "got" => got'[p] > since[p]
    <3>1. CASE Return(p, "closed")
      BY <3>1, ReturnTypes
    <3>2. CASE Head(inq[p]).ok /\ got' = [got EXCEPT ![p] = Head(inq[p]).rec]
      <4>1. 1 \in DOMAIN inq[p] /\ Head(inq[p]) = inq[p][1] /\ inq[p][1].op = "F3"
        <5>1. inq[p] \in Seq(Report) /\ inq[p] # <<>> /\ Head(inq[p]).op = "F3"
          BY <1>5 DEF RecvF3, Answered, IsReply, TypeOK
        <5> QED
          BY <5>1
      <4> QED
        BY <3>2, <4>1 DEF QueuedIsFresh, TypeOK
    <3> QED
      BY <1>5, <3>1, <3>2 DEF RecvF3
  <2> QED
    BY <1>1, <2>1, <2>2, <2>3
<1>6. ASSUME Keyboard PROVE QueuedIsFresh' /\ RecordIsFresh'
  <2>1. UNCHANGED <<pc, got, since>>
    BY <1>6, KeyboardStep
  <2>2. kb.rec \in Nat /\ kb'.rec \in Nat /\ kb'.rec >= kb.rec
    BY <1>6, KeyboardStep DEF TypeOK
  <2>3. ASSUME NEW p \in Program, NEW i \in DOMAIN inq'[p], inq'[p][i].op = "F3", inq'[p][i].ok
        PROVE  inq'[p][i].rec > since[p]
    <3>1. CASE i \in DOMAIN inq[p] /\ inq'[p][i] = inq[p][i]
      BY <2>3, <3>1 DEF QueuedIsFresh
    <3>2. CASE inq'[p][i].op = Head(cmds).op /\ kb'.rec = kb.rec + 1 /\ inq'[p][i].rec = kb'.rec
      BY <2>2, <3>2 DEF QueuedIsFresh, TypeOK
    <3> QED
      BY <1>6, <2>2, <2>3, <3>1, <3>2, KeyboardStep
  <2>4. \A p \in Program : since[p] \in Nat /\ since[p] <= kb.rec
    BY DEF QueuedIsFresh, TypeOK
  <2>5. \A p \in Program : since'[p] <= kb'.rec
    BY <2>1, <2>2, <2>4
  <2> QED
    BY <2>1, <2>3, <2>5 DEF RecordIsFresh, QueuedIsFresh
<1>7. CASE UNCHANGED vars
  BY <1>7 DEF vars, QueuedIsFresh, RecordIsFresh
<1> QED
  BY <1>2, <1>3, <1>4, <1>5, <1>6, <1>7 DEF Next, Wait

\* No program ever uses a record older than its handle.
THEOREM RecordIsFreshAlways == Spec => []RecordIsFresh
<1>1. Init => QueuedIsFresh /\ RecordIsFresh
  BY DEF Init, QueuedIsFresh, RecordIsFresh
<1> QED
  BY <1>1, ExchangeTypes, FreshStep, PTL DEF Spec

-------------------------------------------------------------------------------
(***************************************************************************)
(* The current record                                                      *)
(***************************************************************************)

\* What the indices of a kind of command become when one is added.
LEMMA AskedMore ==
  ASSUME TypeOK, NEW c \in Command, cmds' = Append(cmds, c)
  PROVE  /\ c.op # "F3" => Asked("F3")' = Asked("F3")
         /\ c.op = "F3" /\ Asked("F3") = {} => \A i, j \in Asked("F3")' : i = j
         /\ \A i \in DOMAIN cmds' : (i \in DOMAIN cmds /\ cmds'[i] = cmds[i]) \/ cmds'[i] = c
<1>1. cmds \in Seq(Command)
  BY DEF TypeOK
<1>2. /\ DOMAIN cmds' = 1..(Len(cmds) + 1) /\ DOMAIN cmds = 1..Len(cmds) /\ Len(cmds) \in Nat
      /\ cmds'[Len(cmds) + 1] = c
      /\ \A i \in DOMAIN cmds : cmds'[i] = cmds[i]
  BY <1>1
<1> QED
  BY <1>2 DEF Asked

\* What they become when the oldest is taken away.
LEMMA AskedLess ==
  ASSUME TypeOK, cmds # <<>>, cmds' = Tail(cmds)
  PROVE  /\ \A i \in Asked("F3")' : i \in Nat \ {0} /\ i + 1 \in Asked("F3")
         /\ Head(cmds).op = "F3" => 1 \in Asked("F3")
         /\ 1 \in DOMAIN cmds /\ Head(cmds) = cmds[1]
         /\ \A i \in DOMAIN cmds' : i + 1 \in DOMAIN cmds /\ cmds'[i] = cmds[i + 1]
<1>1. cmds \in Seq(Command)
  BY DEF TypeOK
<1>2. /\ DOMAIN cmds' = 1..(Len(cmds) - 1) /\ DOMAIN cmds = 1..Len(cmds) /\ Len(cmds) \in Nat \ {0}
      /\ Head(cmds) = cmds[1]
      /\ \A i \in DOMAIN cmds' : cmds'[i] = cmds[i + 1]
  BY <1>1
<1> QED
  BY <1>2 DEF Asked

\* A program that begins while the keyboard is idle and nobody else is there.
LEMMA OpenAlone ==
  ASSUME TypeOK, TypeOK', NEW p \in Program, Open(p), alone'[p]
  PROVE  AloneAt(p)'
<1>1. cmds = <<>> /\ (\A r \in Program : ~IsOpen(r)) /\ inq'[p] = <<>> /\ Send(p, "F1")
  BY DEF Open, TypeOK
<1>2. /\ pc'[p] = "F1" /\ \A q \in Program \ {p} : pc'[q] = pc[q]
      /\ cmds' = Append(cmds, [op |-> "F1", host |-> Host[p]])
  BY <1>1, SendTypes DEF Opcode
<1>3. cmds' = <<[op |-> "F1", host |-> Host[p]]>>
  BY <1>1, <1>2
<1>4. Asked("F3")' = {}
  BY <1>3 DEF Asked
<1> QED
  BY <1>1, <1>2, <1>3, <1>4 DEF AloneAt, IsOpen

\* A program that is alone sends its next command.
LEMMA SendAlone ==
  ASSUME TypeOK, NEW p \in Program, AloneAt(p), NEW op \in {"F2", "F3"}, Send(p, op),
         pc[p] \in {"F1", "F2"}, op = "F2" => pc[p] = "F1", kb.host = Host[p], UNCHANGED kb,
         \A i \in DOMAIN inq'[p] : \E j \in DOMAIN inq[p] : inq'[p][i] = inq[p][j]
  PROVE  AloneAt(p)'
<1>1. /\ pc'[p] = op /\ \A q \in Program \ {p} : pc'[q] = pc[q]
      /\ cmds' = Append(cmds, [op |-> op, host |-> Host[p]])
      /\ [op |-> op, host |-> Host[p]] \in Command
  BY SendTypes DEF Opcode
<1>2. Asked("F3") = {} /\ \A i \in DOMAIN inq[p] : inq[p][i].op # "F3"
  BY DEF AloneAt
<1>3. \A q \in Program : IsOpen(q)' => q = p
  BY <1>1 DEF AloneAt, IsOpen
<1>4. \A i \in DOMAIN cmds' : cmds'[i].host = Host[p]
  BY <1>1, AskedMore DEF AloneAt
<1>5. \A i \in DOMAIN inq'[p] : inq'[p][i].op # "F3"
  BY <1>2
<1>6. (op = "F2" => Asked("F3")' = {}) /\ \A i, j \in Asked("F3")' : i = j
  BY <1>1, <1>2, AskedMore
<1> QED
  BY <1>1, <1>3, <1>4, <1>5, <1>6 DEF AloneAt

\* A program that is alone ends its exchange.
LEMMA ReturnAlone ==
  ASSUME TypeOK, NEW p \in Program, AloneAt(p), NEW end \in {"closed", "got"}, Return(p, end),
         UNCHANGED kb,
         end = "got" => kb.host = Host[p] /\ Asked("F3") = {} /\ got'[p] = kb.rec
  PROVE  AloneAt(p)'
<1>1. /\ cmds' = cmds /\ pc'[p] = end /\ inq'[p] = <<>>
      /\ \A q \in Program \ {p} : pc'[q] = pc[q]
  BY ReturnTypes
<1>2. Asked("F3")' = Asked("F3")
  BY <1>1 DEF Asked
<1>3. \A q \in Program : IsOpen(q)' => q = p
  BY <1>1 DEF AloneAt, IsOpen, Opcode
<1> QED
  BY <1>1, <1>2, <1>3 DEF AloneAt

\* The keyboard takes a command of a program that is alone.
LEMMA KeyboardAlone ==
  ASSUME TypeOK, NEW p \in Program, AloneAt(p), Keyboard
  PROVE  AloneAt(p)'
<1>1. /\ cmds # <<>> /\ cmds' = Tail(cmds) /\ Head(cmds) \in Command
      /\ UNCHANGED <<pc, got>>
      /\ kb'.rec = kb.rec \/ (Head(cmds).op = "F3" /\ kb'.rec = kb.rec + 1)
      /\ kb'.host = kb.host \/ (Head(cmds).op = "F1" /\ kb'.host = Head(cmds).host)
  BY KeyboardStep
<1>2. /\ \A i \in Asked("F3")' : i \in Nat \ {0} /\ i + 1 \in Asked("F3")
      /\ Head(cmds).op = "F3" => 1 \in Asked("F3")
      /\ 1 \in DOMAIN cmds /\ Head(cmds) = cmds[1]
      /\ \A i \in DOMAIN cmds' : i + 1 \in DOMAIN cmds /\ cmds'[i] = cmds[i + 1]
  BY <1>1, AskedLess
<1>3. Head(cmds).host = Host[p] /\ \A i \in DOMAIN cmds' : cmds'[i].host = Host[p]
  BY <1>2 DEF AloneAt
<1>4. \A i, j \in Asked("F3")' : i = j
  BY <1>2 DEF AloneAt
<1>5. Head(cmds).op = "F3" => Asked("F3")' = {} /\ Asked("F3") # {}
  BY <1>2 DEF AloneAt
<1>6. Asked("F3") = {} => Asked("F3")' = {} /\ kb'.rec = kb.rec
  BY <1>1, <1>2
<1>7. kb.host = Host[p] => kb'.host = Host[p]
  BY <1>1, <1>3
<1>8. ASSUME NEW i \in DOMAIN inq'[p]
      PROVE  /\ inq'[p][i].op = "F1" /\ inq'[p][i].ok => kb'.host = Host[p]
             /\ inq'[p][i].op = "F3" => pc[p] = "F3" /\ Asked("F3")' = {}
             /\ inq'[p][i].op = "F3" /\ inq'[p][i].ok => inq'[p][i].rec = kb'.rec
  <2>1. CASE i \in DOMAIN inq[p] /\ inq'[p][i] = inq[p][i]
    BY <1>6, <1>7, <2>1 DEF AloneAt
  <2>2. CASE ~(i \in DOMAIN inq[p] /\ inq'[p][i] = inq[p][i])
    <3>1. /\ IsOpen(p) /\ inq'[p][i].op = Head(cmds).op
          /\ inq'[p][i].ok =>
               /\ inq'[p][i].rec = kb'.rec
               /\ Head(cmds).op = "F1" => kb'.host = Head(cmds).host
      BY <1>8, <2>2, KeyboardStep
    <3>2. Head(cmds).op = "F3" => pc[p] = "F3"
      BY <1>5, <3>1 DEF AloneAt, IsOpen, Opcode
    <3> QED
      BY <1>3, <1>5, <3>1, <3>2
  <2> QED
    BY <2>1, <2>2
<1>9. \A q \in Program : IsOpen(q)' => q = p
  BY <1>1 DEF AloneAt, IsOpen
<1> QED
  BY <1>1, <1>3, <1>4, <1>6, <1>7, <1>8, <1>9 DEF AloneAt

\* Each step keeps what holds of a program that is alone.
LEMMA AloneStep ==
  ASSUME TypeOK, TypeOK', AloneInv, [Next]_vars
  PROVE  AloneInv'
<1> SUFFICES ASSUME NEW p \in Program, alone'[p] PROVE AloneAt(p)'
  BY DEF AloneInv
<1>1. ASSUME NEW q \in Program, Open(q) PROVE AloneAt(p)'
  <2>1. q = p
    BY <1>1 DEF Open
  <2> QED
    BY <1>1, <2>1, OpenAlone
<1>2. ASSUME NEW q \in Program, Wait(q) PROVE AloneAt(p)'
  <2>1. alone[p] /\ IsOpen(q) /\ kb' = kb
    BY <1>2 DEF Wait, Discard, RecvF1, RecvF2, RecvF3, GiveUp, Answered, IsOpen, Opcode
  <2>2. AloneAt(p) /\ q = p
    BY <2>1 DEF AloneInv, AloneAt
  <2>3. inq[p] # <<>> => /\ Head(inq[p]) = inq[p][1] /\ 1 \in DOMAIN inq[p]
                         /\ \A i \in DOMAIN Tail(inq[p]) :
                              \E j \in DOMAIN inq[p] : Tail(inq[p])[i] = inq[p][j]
    <3>1. inq[p] \in Seq(Report)
      BY DEF TypeOK
    <3>2. inq[p] # <<>> => /\ Head(inq[p]) = inq[p][1] /\ 1 \in DOMAIN inq[p]
                           /\ \A i \in DOMAIN Tail(inq[p]) :
                                i + 1 \in DOMAIN inq[p] /\ Tail(inq[p])[i] = inq[p][i + 1]
      BY <3>1
    <3> QED
      BY <3>2
  <2>4. CASE Discard(p)
    <3>1. /\ UNCHANGED <<pc, got, cmds, kb>> /\ inq'[p] = Tail(inq[p]) /\ inq[p] # <<>>
      BY <2>4, TakeTypes DEF Discard
    <3>2. Asked("F3")' = Asked("F3") /\ \A r \in Program : IsOpen(r)' = IsOpen(r)
      BY <3>1 DEF Asked, IsOpen
    <3> QED
      BY <2>2, <2>3, <3>1, <3>2 DEF AloneAt
  <2>5. CASE RecvF1(p)
    <3>1. pc[p] = "F1" /\ inq[p] # <<>> /\ Head(inq[p]).op = "F1"
      BY <2>5 DEF RecvF1, Answered, IsReply
    <3>2. CASE Head(inq[p]).ok /\ Send(p, "F2") /\ inq' = [inq EXCEPT ![p] = Tail(@)]
      <4>1. kb.host = Host[p]
        BY <2>2, <2>3, <3>1, <3>2 DEF AloneAt
      <4>2. \A i \in DOMAIN inq'[p] : \E j \in DOMAIN inq[p] : inq'[p][i] = inq[p][j]
        BY <2>3, <3>1, <3>2, TakeTypes
      <4> QED
        BY <2>1, <2>2, <3>1, <3>2, <4>1, <4>2, SendAlone
    <3>3. CASE Return(p, "closed")
      BY <2>1, <2>2, <3>3, ReturnAlone
    <3> QED
      BY <2>5, <3>2, <3>3 DEF RecvF1
  <2>6. CASE RecvF2(p)
    <3>1. pc[p] = "F2" /\ inq[p] # <<>> /\ Send(p, "F3") /\ inq' = [inq EXCEPT ![p] = Tail(@)]
      BY <2>6 DEF RecvF2, Answered
    <3>2. \A i \in DOMAIN inq'[p] : \E j \in DOMAIN inq[p] : inq'[p][i] = inq[p][j]
      BY <2>3, <3>1, TakeTypes
    <3>3. kb.host = Host[p]
      BY <2>2, <3>1 DEF AloneAt
    <3> QED
      BY <2>1, <2>2, <3>1, <3>2, <3>3, SendAlone
  <2>7. CASE RecvF3(p)
    <3>1. pc[p] = "F3" /\ inq[p] # <<>> /\ Head(inq[p]).op = "F3"
      BY <2>7 DEF RecvF3, Answered, IsReply
    <3>2. CASE /\ Head(inq[p]).ok /\ Return(p, "got")
               /\ got' = [got EXCEPT ![p] = Head(inq[p]).rec]
      <4>1. kb.host = Host[p] /\ Asked("F3") = {} /\ got'[p] = kb.rec
        BY <2>2, <2>3, <3>1, <3>2 DEF AloneAt, TypeOK
      <4> QED
        BY <2>1, <2>2, <3>2, <4>1, ReturnAlone
    <3>3. CASE Return(p, "closed")
      BY <2>1, <2>2, <3>3, ReturnAlone
    <3> QED
      BY <2>7, <3>2, <3>3 DEF RecvF3
  <2>8. CASE GiveUp(p)
    <3>1. CASE Return(p, "closed")
      BY <2>1, <2>2, <3>1, ReturnAlone
    <3>2. CASE pc[p] = "F2" /\ Send(p, "F3") /\ UNCHANGED inq
      <4>1. /\ kb.host = Host[p]
            /\ \A i \in DOMAIN inq'[p] : \E j \in DOMAIN inq[p] : inq'[p][i] = inq[p][j]
        BY <2>2, <3>2 DEF AloneAt
      <4> QED
        BY <2>1, <2>2, <3>2, <4>1, SendAlone
    <3> QED
      BY <2>8, <3>1, <3>2 DEF GiveUp
  <2> QED
    BY <1>2, <2>2, <2>4, <2>5, <2>6, <2>7, <2>8 DEF Wait
<1>3. CASE Keyboard
  BY <1>3, KeyboardStep, KeyboardAlone DEF AloneInv
<1>4. CASE UNCHANGED vars
  <2>1. AloneAt(p)
    BY <1>4 DEF AloneInv, vars
  <2>2. Asked("F3")' = Asked("F3") /\ \A r \in Program : IsOpen(r)' = IsOpen(r)
    BY <1>4 DEF Asked, IsOpen, vars
  <2> QED
    BY <1>4, <2>1, <2>2 DEF AloneAt, vars
<1> QED
  BY <1>1, <1>2, <1>3, <1>4 DEF Next

\* A program nobody disturbed ends with the keyboard's record of the moment,
\* made for the adapter it runs for.
THEOREM RecordIsCurrentAlways == Spec => []RecordIsCurrent
<1>1. Init => AloneInv
  BY DEF Init, AloneInv
<1>2. AloneInv => RecordIsCurrent
  BY DEF AloneInv, AloneAt, RecordIsCurrent
<1> QED
  BY <1>1, <1>2, ExchangeTypes, AloneStep, PTL DEF Spec

-------------------------------------------------------------------------------
(***************************************************************************)
(* The implementation of FreshRecord                                       *)
(***************************************************************************)

\* What is left of a queue was in it.
LEMMA QueueShrinks ==
  ASSUME TypeOK, NEW p \in Program, NEW i \in DOMAIN inq'[p],
         inq'[p] = inq[p] \/ inq'[p] = <<>> \/ (inq[p] # <<>> /\ inq'[p] = Tail(inq[p]))
  PROVE  \E j \in DOMAIN inq[p] : inq'[p][i] = inq[p][j]
<1>1. inq[p] \in Seq(Report)
  BY DEF TypeOK
<1>2. CASE inq[p] # <<>> /\ inq'[p] = Tail(inq[p])
  <2>1. i + 1 \in DOMAIN inq[p] /\ inq'[p][i] = inq[p][i + 1]
    BY <1>1, <1>2
  <2> QED
    BY <2>1
<1> QED
  BY <1>2

\* What a waiting program does to itself and to the others.
LEMMA WaitTypes ==
  ASSUME TypeOK, NEW p \in Program, Wait(p)
  PROVE  /\ IsOpen(p) /\ UNCHANGED <<kb, since, alone>>
         /\ \A q \in Program \ {p} : pc'[q] = pc[q] /\ inq'[q] = inq[q] /\ got'[q] = got[q]
         /\ inq'[p] = inq[p] \/ inq'[p] = <<>> \/ (inq[p] # <<>> /\ inq'[p] = Tail(inq[p]))
         /\ \/ UNCHANGED got /\ pc'[p] = pc[p] /\ cmds' = cmds
            \/ UNCHANGED got /\ pc[p] \in {"F1", "F2"} /\ pc'[p] \in {"F2", "F3"}
            \/ UNCHANGED got /\ pc'[p] = "closed" /\ cmds' = cmds
            \/ /\ pc[p] = "F3" /\ pc'[p] = "got" /\ cmds' = cmds
               /\ got'[p] = Head(inq[p]).rec /\ Head(inq[p]) = inq[p][1] /\ 1 \in DOMAIN inq[p]
               /\ inq[p][1].op = "F3" /\ inq[p][1].ok
<1>1. CASE Discard(p)
  BY <1>1, TakeTypes DEF Discard
<1>2. ASSUME NEW op \in {"F2", "F3"}, Send(p, op), pc[p] \in {"F1", "F2"},
             inq' = inq \/ (inq[p] # <<>> /\ inq' = [inq EXCEPT ![p] = Tail(@)]),
             UNCHANGED <<got, kb, since, alone>>
      PROVE  /\ IsOpen(p)
             /\ \A q \in Program \ {p} : pc'[q] = pc[q] /\ inq'[q] = inq[q] /\ got'[q] = got[q]
             /\ inq'[p] = inq[p] \/ (inq[p] # <<>> /\ inq'[p] = Tail(inq[p]))
             /\ pc'[p] = op
  BY <1>2, SendTypes, TakeTypes DEF IsOpen, Opcode
<1>3. CASE Return(p, "closed") /\ UNCHANGED <<got, kb, since, alone>> /\ IsOpen(p)
  BY <1>3, ReturnTypes
<1>4. CASE RecvF1(p)
  BY <1>2, <1>3, <1>4 DEF RecvF1, Answered, IsOpen, Opcode
<1>5. CASE RecvF2(p)
  BY <1>2, <1>5 DEF RecvF2, Answered, IsOpen, Opcode
<1>6. CASE RecvF3(p)
  <2>1. CASE Return(p, "closed") /\ UNCHANGED got
    BY <1>3, <1>6, <2>1 DEF RecvF3, Answered, IsOpen, Opcode
  <2>2. CASE /\ Head(inq[p]).ok /\ Return(p, "got")
             /\ got' = [got EXCEPT ![p] = Head(inq[p]).rec]
    <3>1. pc[p] = "F3" /\ inq[p] # <<>> /\ Head(inq[p]).op = "F3" /\ UNCHANGED <<kb, since, alone>>
      BY <1>6 DEF RecvF3, Answered, IsReply
    <3>2. Head(inq[p]) = inq[p][1] /\ 1 \in DOMAIN inq[p]
      <4>1. inq[p] \in Seq(Report)
        BY DEF TypeOK
      <4> QED
        BY <3>1, <4>1
    <3>3. got'[p] = Head(inq[p]).rec /\ \A q \in Program \ {p} : got'[q] = got[q]
      BY <2>2 DEF TypeOK
    <3>4. /\ cmds' = cmds /\ pc'[p] = "got" /\ inq'[p] = <<>>
          /\ \A q \in Program \ {p} : pc'[q] = pc[q] /\ inq'[q] = inq[q]
      BY <2>2, ReturnTypes
    <3>5. IsOpen(p)
      BY <3>1 DEF IsOpen, Opcode
    <3> QED
      BY <2>2, <3>1, <3>2, <3>3, <3>4, <3>5
  <2> QED
    BY <1>6, <2>1, <2>2 DEF RecvF3
<1>7. CASE GiveUp(p)
  BY <1>2, <1>3, <1>7 DEF GiveUp, IsOpen, Opcode
<1> QED
  BY <1>1, <1>4, <1>5, <1>6, <1>7 DEF Wait

\* When the keyboard makes a record, a program that is alone waits for its first.
LEMMA MakingAlone ==
  ASSUME TypeOK, AloneInv, MadeInv, Keyboard, kb'.rec = kb.rec + 1, NEW p \in Program, alone[p]
  PROVE  /\ pc[p] \in {"F1", "F2", "F3", "got"} => pc[p] = "F3" /\ since[p] = kb.rec
         /\ Asked("F3")' = {}
<1>1. cmds # <<>> /\ cmds' = Tail(cmds) /\ Head(cmds).op = "F3"
  BY KeyboardStep DEF TypeOK
<1>2. AloneAt(p) /\ 1 \in Asked("F3") /\ \A i \in Asked("F3")' : i \in Nat \ {0} /\ i + 1 \in Asked("F3")
  BY <1>1, AskedLess DEF AloneInv
<1>3. Asked("F3")' = {}
  BY <1>2 DEF AloneAt
<1>4. pc[p] \in {"F1", "F2", "F3", "got"} => pc[p] = "F3" /\ since[p] = kb.rec
  BY <1>2 DEF AloneAt, MadeInv, IsOpen, Opcode
<1> QED
  BY <1>3, <1>4

\* Each step keeps the records in their order.
LEMMA MadeStep ==
  ASSUME TypeOK, TypeOK', AloneInv, MadeInv, [Next]_vars
  PROVE  MadeInv'
<1>1. ASSUME NEW p \in Program, Open(p) PROVE MadeInv'
  <2>1. inq' = inq /\ kb' = kb /\ since' = [since EXCEPT ![p] = kb.rec]
        /\ \A q \in Program : alone'[q] => q = p
    BY <1>1 DEF Open
  <2> QED
    BY <2>1 DEF MadeInv, TypeOK
<1>2. ASSUME NEW p \in Program, Wait(p) PROVE MadeInv'
  <2>1. /\ IsOpen(p) /\ UNCHANGED <<kb, since, alone>>
        /\ \A q \in Program \ {p} : pc'[q] = pc[q] /\ inq'[q] = inq[q]
        /\ inq'[p] = inq[p] \/ inq'[p] = <<>> \/ (inq[p] # <<>> /\ inq'[p] = Tail(inq[p]))
        /\ \/ pc'[p] = pc[p] /\ cmds' = cmds
           \/ pc[p] \in {"F1", "F2"}
           \/ pc'[p] \in {"closed", "got"}
    BY <1>2, WaitTypes
  <2>2. ASSUME NEW q \in Program, NEW i \in DOMAIN inq'[q], inq'[q][i].op = "F3", inq'[q][i].ok
        PROVE  inq'[q][i].rec <= kb'.rec
    <3>1. inq'[q] = inq[q] \/ inq'[q] = <<>> \/ (inq[q] # <<>> /\ inq'[q] = Tail(inq[q]))
      BY <2>1
    <3>2. PICK j \in DOMAIN inq[q] : inq'[q][i] = inq[q][j]
      BY <3>1, QueueShrinks
    <3> QED
      BY <2>1, <2>2, <3>2 DEF MadeInv
  <2>3. ASSUME NEW q \in Program, alone'[q], IsOpen(q)', pc'[q] = "F3" => Asked("F3")' # {}
        PROVE  since'[q] = kb'.rec
    <3>1. alone[q] /\ q = p
      BY <2>1, <2>3 DEF AloneInv, AloneAt
    <3>2. CASE pc'[p] = pc[p] /\ cmds' = cmds
      <4>1. Asked("F3")' = Asked("F3")
        BY <3>2 DEF Asked
      <4> QED
        BY <2>1, <2>3, <3>1, <3>2, <4>1 DEF MadeInv
    <3>3. CASE pc[p] \in {"F1", "F2"}
      BY <2>1, <3>1, <3>3 DEF MadeInv
    <3> QED
      BY <2>1, <2>3, <3>1, <3>2, <3>3 DEF IsOpen, Opcode
  <2> QED
    BY <2>2, <2>3 DEF MadeInv
<1>3. ASSUME Keyboard PROVE MadeInv'
  <2>1. /\ UNCHANGED <<pc, since, alone>> /\ kb.rec \in Nat
        /\ kb'.rec = kb.rec \/ kb'.rec = kb.rec + 1
        /\ cmds # <<>> /\ cmds' = Tail(cmds)
    BY <1>3, KeyboardStep DEF TypeOK
  <2>2. ASSUME NEW p \in Program, NEW i \in DOMAIN inq'[p], inq'[p][i].op = "F3", inq'[p][i].ok
        PROVE  inq'[p][i].rec <= kb'.rec
    <3>1. CASE i \in DOMAIN inq[p] /\ inq'[p][i] = inq[p][i]
      <4>1. inq[p][i].rec <= kb.rec
        BY <2>2, <3>1 DEF MadeInv
      <4>2. inq[p][i].rec \in Nat
        <5>1. inq[p] \in Seq(Report)
          BY DEF TypeOK
        <5>2. inq[p][i] \in Report
          BY <3>1, <5>1
        <5> QED
          BY <5>2 DEF Report
      <4> QED
        BY <2>1, <3>1, <4>1, <4>2
    <3>2. CASE inq'[p][i].rec = kb'.rec
      BY <2>1, <3>2
    <3> QED
      BY <1>3, <2>2, <3>1, <3>2, KeyboardStep
  <2>3. ASSUME NEW p \in Program, alone'[p], IsOpen(p)', pc'[p] = "F3" => Asked("F3")' # {}
        PROVE  since'[p] = kb'.rec
    <3>1. alone[p] /\ IsOpen(p) /\ (pc[p] = "F3" => Asked("F3")' # {})
      BY <2>1, <2>3 DEF IsOpen
    <3>2. kb'.rec = kb.rec
      BY <1>3, <2>1, <3>1, MakingAlone DEF IsOpen, Opcode
    <3>3. Asked("F3")' # {} => Asked("F3") # {}
      BY <2>1, AskedLess
    <3> QED
      BY <2>1, <3>1, <3>2, <3>3 DEF MadeInv
  <2> QED
    BY <2>2, <2>3 DEF MadeInv
<1>4. CASE UNCHANGED vars
  <2>1. Asked("F3")' = Asked("F3")
    BY <1>4 DEF Asked, vars
  <2> QED
    BY <1>4, <2>1 DEF MadeInv, IsOpen, vars
<1> QED
  BY <1>1, <1>2, <1>3, <1>4 DEF Next

\* The invariant these theorems rest on, in one piece.
THEOREM ExchangeInvAlways == Spec => []ExchangeInv
<1>1. Init => QueuedIsFresh /\ RecordIsFresh /\ AloneInv /\ MadeInv
  BY DEF Init, QueuedIsFresh, RecordIsFresh, AloneInv, MadeInv
<1>2. TypeOK /\ QueuedIsFresh /\ RecordIsFresh /\ AloneInv /\ MadeInv <=> ExchangeInv
  BY DEF ExchangeInv
<1> QED
  BY <1>1, <1>2, ExchangeTypes, FreshStep, AloneStep, MadeStep, PTL DEF Spec

\* The variables of FreshRecord, as VendorExchange has them.
Handles == {p \in Program : IsOpen(p)}
Window == [p \in Program |-> IF IsOpen(p) THEN (since[p] + 1)..kb.rec ELSE {}]
Undisturbed == {p \in Program : alone[p] /\ pc[p] \in Opcode \cup {"got"}}

\* A step that changes none of what they are made of.
LEMMA SameToFresh ==
  ASSUME UNCHANGED <<kb, since, alone, got>>,
         \A p \in Program : /\ IsOpen(p)' <=> IsOpen(p)
                            /\ pc'[p] = pc[p] \/ (IsOpen(p) /\ IsOpen(p)')
  PROVE  UNCHANGED <<kb.rec, Handles, Window, got, Undisturbed>>
<1>1. UNCHANGED <<Handles, Window, kb.rec>>
  BY DEF Handles, Window
<1>2. \A p \in Program : pc'[p] \in Opcode \cup {"got"} <=> pc[p] \in Opcode \cup {"got"}
  BY DEF IsOpen
<1>3. UNCHANGED Undisturbed
  BY <1>2 DEF Undisturbed
<1> QED
  BY <1>1, <1>3

LEMMA OpenToFresh ==
  ASSUME TypeOK, TypeOK', NEW p \in Program, Open(p)
  PROVE  /\ p \notin Handles /\ Handles' = Handles \cup {p}
         /\ Undisturbed' = {} \/ (Handles = {} /\ Undisturbed' = {p})
         /\ UNCHANGED <<kb.rec, Window, got>>
<1>1. /\ ~IsOpen(p) /\ pc'[p] = "F1" /\ \A q \in Program \ {p} : pc'[q] = pc[q]
      /\ UNCHANGED <<kb, got>> /\ since' = [since EXCEPT ![p] = kb.rec]
      /\ alone' = [q \in Program |-> q = p /\ cmds = <<>> /\ \A r \in Program : ~IsOpen(r)]
  BY SendTypes DEF Open, Opcode
<1>2. Handles' = Handles \cup {p} /\ p \notin Handles
  BY <1>1 DEF Handles, IsOpen, Opcode
<1>3. Undisturbed' \subseteq {p} /\ (Undisturbed' # {} => Handles = {})
  BY <1>1 DEF Undisturbed, Handles
<1>4. Window' = Window
  <2>1. ASSUME NEW q \in Program
        PROVE  (IF IsOpen(q)' THEN (since'[q] + 1)..kb'.rec ELSE {})
                  = (IF IsOpen(q) THEN (since[q] + 1)..kb.rec ELSE {})
    <3>1. CASE q = p
      BY <1>1, <3>1 DEF TypeOK
    <3>2. CASE q # p
      BY <1>1, <3>2 DEF IsOpen, TypeOK
    <3> QED
      BY <3>1, <3>2
  <2> QED
    BY <2>1 DEF Window
<1> QED
  BY <1>1, <1>2, <1>3, <1>4

\* The end of an exchange.
LEMMA CloseToFresh ==
  ASSUME TypeOK, NEW p \in Program, IsOpen(p), UNCHANGED <<kb, since, alone>>,
         pc'[p] \in {"closed", "got"}, \A q \in Program \ {p} : pc'[q] = pc[q]
  PROVE  /\ Handles' = Handles \ {p} /\ p \in Handles
         /\ Window' = [Window EXCEPT ![p] = {}]
         /\ Undisturbed' = IF pc'[p] = "got" THEN Undisturbed ELSE Undisturbed \ {p}
<1>1. \A q \in Program : IsOpen(q)' <=> IsOpen(q) /\ q # p
  BY DEF IsOpen, Opcode
<1>2. Handles' = Handles \ {p} /\ p \in Handles
  BY <1>1 DEF Handles
<1>3. Window' = [Window EXCEPT ![p] = {}]
  BY <1>1 DEF Window
<1>4. Undisturbed' = IF pc'[p] = "got" THEN Undisturbed ELSE Undisturbed \ {p}
  BY DEF Undisturbed, IsOpen, Opcode
<1> QED
  BY <1>2, <1>3, <1>4

LEMMA WaitToFresh ==
  ASSUME TypeOK, TypeOK', QueuedIsFresh, MadeInv, NEW p \in Program, Wait(p)
  PROVE  \/ UNCHANGED <<kb.rec, Handles, Window, got, Undisturbed>>
         \/ /\ p \in Handles /\ Handles' = Handles \ {p} /\ Window' = [Window EXCEPT ![p] = {}]
            /\ UNCHANGED kb.rec
            /\ \/ (\E n \in Window[p] : got' = [got EXCEPT ![p] = n]) /\ UNCHANGED Undisturbed
               \/ UNCHANGED got /\ Undisturbed' = Undisturbed \ {p}
<1>1. /\ IsOpen(p) /\ UNCHANGED <<kb, since, alone>>
      /\ \A q \in Program \ {p} : pc'[q] = pc[q] /\ got'[q] = got[q]
  BY WaitTypes
<1>2. CASE UNCHANGED got /\ (pc'[p] = pc[p] \/ (pc[p] \in {"F1", "F2"} /\ pc'[p] \in {"F2", "F3"}))
  <2>1. \A q \in Program : /\ IsOpen(q)' <=> IsOpen(q)
                           /\ pc'[q] = pc[q] \/ (IsOpen(q) /\ IsOpen(q)')
    BY <1>1, <1>2 DEF IsOpen, Opcode
  <2> QED
    BY <1>1, <1>2, <2>1, SameToFresh
<1>3. CASE UNCHANGED got /\ pc'[p] = "closed"
  BY <1>1, <1>3, CloseToFresh
<1>4. CASE /\ pc'[p] = "got" /\ 1 \in DOMAIN inq[p] /\ got'[p] = inq[p][1].rec
           /\ inq[p][1].op = "F3" /\ inq[p][1].ok
  <2>1. got'[p] \in Nat /\ got' = [got EXCEPT ![p] = got'[p]]
    BY <1>1 DEF TypeOK
  <2>2. since[p] < got'[p] /\ got'[p] <= kb.rec /\ since[p] \in Nat /\ kb.rec \in Nat
    BY <1>4 DEF QueuedIsFresh, MadeInv, TypeOK
  <2>3. got'[p] \in (since[p] + 1)..kb.rec
    BY <2>1, <2>2
  <2>4. got'[p] \in Window[p]
    BY <1>1, <2>3 DEF Window
  <2> QED
    BY <1>1, <1>4, <2>1, <2>4, CloseToFresh
<1> QED
  BY <1>2, <1>3, <1>4, WaitTypes

LEMMA KeyboardToFresh ==
  ASSUME TypeOK, QueuedIsFresh, AloneInv, MadeInv, Keyboard
  PROVE  \/ UNCHANGED <<kb.rec, Handles, Window, got, Undisturbed>>
         \/ /\ \A p \in Undisturbed : p \in Handles /\ Window[p] = {}
            /\ kb'.rec = kb.rec + 1
            /\ Window' = [p \in Program |-> IF p \in Handles THEN Window[p] \cup {kb'.rec} ELSE {}]
            /\ UNCHANGED <<Handles, got, Undisturbed>>
<1>1. /\ UNCHANGED <<pc, got, since, alone>> /\ kb.rec \in Nat
      /\ kb'.rec = kb.rec \/ kb'.rec = kb.rec + 1
  BY KeyboardStep DEF TypeOK
<1>2. UNCHANGED <<Handles, got, Undisturbed>>
  BY <1>1 DEF Handles, Undisturbed, IsOpen
<1>3. CASE kb'.rec = kb.rec
  BY <1>1, <1>2, <1>3 DEF Window, IsOpen
<1>4. CASE kb'.rec = kb.rec + 1
  <2>1. ASSUME NEW p \in Undisturbed PROVE p \in Handles /\ Window[p] = {}
    <3>1. p \in Program /\ alone[p] /\ pc[p] \in {"F1", "F2", "F3", "got"}
      BY DEF Undisturbed, Opcode
    <3>2. pc[p] = "F3" /\ since[p] = kb.rec
      BY <1>4, <3>1, MakingAlone
    <3>3. (kb.rec + 1)..kb.rec = {}
      BY <1>1
    <3> QED
      BY <3>1, <3>2, <3>3 DEF Handles, Window, IsOpen, Opcode
  <2>2. ASSUME NEW p \in Program
        PROVE  (IF IsOpen(p)' THEN (since'[p] + 1)..kb'.rec ELSE {})
                  = (IF p \in Handles THEN Window[p] \cup {kb'.rec} ELSE {})
    <3>1. since[p] \in Nat /\ since[p] <= kb.rec /\ since'[p] = since[p]
      BY <1>1 DEF TypeOK, QueuedIsFresh
    <3>2. (since[p] + 1)..kb'.rec = ((since[p] + 1)..kb.rec) \cup {kb'.rec}
      BY <1>1, <1>4, <3>1
    <3>3. (IsOpen(p)' <=> IsOpen(p)) /\ (p \in Handles <=> IsOpen(p))
      BY <1>1 DEF Handles, IsOpen
    <3> QED
      BY <3>1, <3>2, <3>3 DEF Window
  <2>3. Window' = [p \in Program |-> IF p \in Handles THEN Window[p] \cup {kb'.rec} ELSE {}]
    BY <2>2 DEF Window
  <2> QED
    BY <1>2, <1>4, <2>1, <2>3
<1> QED
  BY <1>1, <1>3, <1>4

\* Every step is one of FreshRecord.
LEMMA FreshRecordStep ==
  ASSUME TypeOK, TypeOK', QueuedIsFresh, AloneInv, MadeInv, [Next]_vars
  PROVE  [Fresh!Next]_(Fresh!vars)
<1> USE DEF Handles, Window, Undisturbed
<1>1. UNCHANGED <<kb.rec, Handles, Window, got, Undisturbed>> => UNCHANGED Fresh!vars
  BY DEF Fresh!vars
<1>2. ASSUME NEW p \in Program, Open(p) PROVE Fresh!Next
  <2>1. Fresh!Open(p)
    BY <1>2, OpenToFresh DEF Fresh!Open
  <2> QED
    BY <2>1 DEF Fresh!Next
<1>3. ASSUME NEW p \in Program, Wait(p) PROVE Fresh!Next \/ UNCHANGED Fresh!vars
  <2> DEFINE closes == p \in Handles /\ Handles' = Handles \ {p} /\ Window' = [Window EXCEPT ![p] = {}] /\ UNCHANGED kb.rec
  <2>1. CASE closes /\ (\E n \in Window[p] : got' = [got EXCEPT ![p] = n]) /\ UNCHANGED Undisturbed
    <3>1. Fresh!Return(p)
      BY <2>1 DEF Fresh!Return, Fresh!Close
    <3> QED
      BY <3>1 DEF Fresh!Next
  <2>2. CASE closes /\ UNCHANGED got /\ Undisturbed' = Undisturbed \ {p}
    <3>1. Fresh!Leave(p)
      BY <2>2 DEF Fresh!Leave, Fresh!Close
    <3> QED
      BY <3>1 DEF Fresh!Next
  <2> QED
    BY <1>1, <1>3, <2>1, <2>2, WaitToFresh
<1>4. ASSUME Keyboard PROVE Fresh!Next \/ UNCHANGED Fresh!vars
  <2>1. CASE /\ \A p \in Undisturbed : p \in Handles /\ Window[p] = {}
             /\ kb'.rec = kb.rec + 1
             /\ Window' = [p \in Program |-> IF p \in Handles THEN Window[p] \cup {kb'.rec} ELSE {}]
             /\ UNCHANGED <<Handles, got, Undisturbed>>
    <3>1. Fresh!Make
      BY <2>1 DEF Fresh!Make
    <3> QED
      BY <3>1 DEF Fresh!Next
  <2> QED
    BY <1>1, <1>4, <2>1, KeyboardToFresh
<1>5. CASE UNCHANGED vars
  BY <1>1, <1>5 DEF vars, IsOpen
<1> QED
  BY <1>2, <1>3, <1>4, <1>5 DEF Next

\* All that a program can tell of the exchange: the record it is given was made
\* while its handle was open, and a program that nobody came near has the
\* keyboard's latest.  The COL03 commands and reports implement FreshRecord.
THEOREM ExchangeImplementsFreshRecord == Spec => ImplementsFreshRecord
<1>1. Init => TypeOK /\ QueuedIsFresh /\ RecordIsFresh /\ AloneInv /\ MadeInv
  <2>1. Init => QueuedIsFresh /\ RecordIsFresh /\ AloneInv /\ MadeInv
    BY DEF Init, QueuedIsFresh, RecordIsFresh, AloneInv, MadeInv
  <2> QED
    BY <2>1, TypeInit
<1>2. Init => Fresh!Init
  <2> SUFFICES ASSUME Init PROVE Fresh!Init
    OBVIOUS
  <2>1. \A p \in Program : ~IsOpen(p) /\ ~alone[p]
    BY DEF Init, IsOpen, Opcode
  <2> QED
    BY <2>1 DEF Init, Fresh!Init
<1> QED
  BY <1>1, <1>2, TypeStep, FreshStep, AloneStep, MadeStep, FreshRecordStep,
     PTL DEF Spec, ImplementsFreshRecord, Fresh!Spec
===============================================================================
