---------------------------- MODULE VendorExchange ----------------------------
(***************************************************************************)
(* The COL03 vendor exchange by which the keyboard is asked, over USB, for *)
(* a new bond record: the address it will advertise with and the one-time  *)
(* Temporary Key (hid.rs, and lib/mkbd_common.py, which it is ported       *)
(* from).  A command is a feature report, its answer an input report that  *)
(* says which opcode it answers and nothing about who asked.               *)
(*                                                                         *)
(* Every program has a hidraw handle of its own, opened for one exchange   *)
(* and closed after it.  An answer is queued on every handle that is open  *)
(* when it comes in.  The keyboard takes commands in the order they were   *)
(* sent and answers each at any time, late, or never.                      *)
(*                                                                         *)
(* A record stands for address and TK together: one report carries both.   *)
(* Records are numbered in the order the keyboard makes them.              *)
(***************************************************************************)
EXTENDS Naturals, Sequences

CONSTANTS
  Program,       \* runs of mkbd-pair or of the python tools
  Adapter,       \* controllers they may run for
  Host,          \* [Program -> Adapter]: the one a program runs for
  NoHost,        \* the keyboard was given no address yet
  MaxExchange    \* bound: exchanges begun in one behaviour

ASSUME HostAssumption  == Host \in [Program -> Adapter] /\ NoHost \notin Adapter
ASSUME BoundAssumption == MaxExchange \in Nat

VARIABLES
  pc,         \* per program: the command whose answer it waits for, or the end
  inq,        \* per program: input reports queued on its handle
  got,        \* per program: the record vendor_pairing_exchange() returned
  cmds,       \* commands the keyboard has not finished with, oldest first
  kb,         \* the keyboard: its host and its latest record
  begun,      \* exchanges begun so far
  since,      \* ghost, per program: the latest record when its handle was opened
  alone       \* ghost, per program: nobody else has been at it since then

vars == <<pc, inq, got, cmds, kb, begun, since, alone>>

Opcode == {"F1", "F2", "F3"}
Command == [op : Opcode, host : Adapter]
Report == [op : Opcode, ok : BOOLEAN, rec : Nat]

\* The handle is open from open_hidraw() until the exchange returns.
IsOpen(p) == pc[p] \in Opcode

Init ==
  /\ pc = [p \in Program |-> "closed"]
  /\ inq = [p \in Program |-> <<>>]
  /\ got = [p \in Program |-> 0]
  /\ cmds = <<>>
  /\ kb = [host |-> NoHost, rec |-> 0]
  /\ begun = 0
  /\ since = [p \in Program |-> 0]
  /\ alone = [p \in Program |-> FALSE]

-------------------------------------------------------------------------------
(***************************************************************************)
(* A program                                                               *)
(***************************************************************************)

\* col03_command() sends its feature report and starts to wait.  The answer
\* before it and this report are one step: nothing a program does between
\* reading one and sending the other can be seen by anybody.
Send(p, op) ==
  /\ cmds' = Append(cmds, [op |-> op, host |-> Host[p]])
  /\ pc' = [pc EXCEPT ![p] = op]

\* The exchange returns, with a record or without; the handle is dropped.
Return(p, end) ==
  /\ pc' = [pc EXCEPT ![p] = end]
  /\ inq' = [inq EXCEPT ![p] = <<>>]
  /\ UNCHANGED cmds

\* open_hidraw() and F1, "set host address".  A handle starts with an empty queue.
Open(p) ==
  /\ ~IsOpen(p) /\ begun < MaxExchange
  /\ begun' = begun + 1
  /\ Send(p, "F1")
  /\ since' = [since EXCEPT ![p] = kb.rec]
  /\ alone' = [q \in Program |-> q = p /\ cmds = <<>> /\ \A r \in Program : ~IsOpen(r)]
  /\ UNCHANGED <<inq, got, kb>>

\* col03_command() takes the first report that names the opcode it sent.
\* Planted error: the report is taken whatever it answers.
IsReplyToAnything(rep, op) == rep.op \in Opcode
IsReply(rep, op) == rep.op = op

\* The next report on the handle, when it is the answer p waits for.
Answered(p, op) == pc[p] = op /\ inq[p] # <<>> /\ IsReply(Head(inq[p]), op)

\* Reports that answer something else are read and forgotten.
Discard(p) ==
  /\ IsOpen(p) /\ inq[p] # <<>> /\ ~IsReply(Head(inq[p]), pc[p])
  /\ inq' = [inq EXCEPT ![p] = Tail(@)]
  /\ UNCHANGED <<pc, got, cmds, kb, begun, since, alone>>

\* F1 is answered: a bad status ends the exchange, a good one leads to F2.
RecvF1(p) ==
  /\ Answered(p, "F1")
  /\ \/ /\ Head(inq[p]).ok
        /\ Send(p, "F2")
        /\ inq' = [inq EXCEPT ![p] = Tail(@)]
     \/ ~Head(inq[p]).ok /\ Return(p, "closed")
  /\ UNCHANGED <<got, kb, begun, since, alone>>

\* F2 asks for the length of the name; any answer will do.
RecvF2(p) ==
  /\ Answered(p, "F2")
  /\ Send(p, "F3")
  /\ inq' = [inq EXCEPT ![p] = Tail(@)]
  /\ UNCHANGED <<got, kb, begun, since, alone>>

\* F3 is answered: the address and the TK of its report are the result.
RecvF3(p) ==
  /\ Answered(p, "F3")
  /\ \/ /\ Head(inq[p]).ok
        /\ got' = [got EXCEPT ![p] = Head(inq[p]).rec]
        /\ Return(p, "got")
     \/ ~Head(inq[p]).ok /\ Return(p, "closed") /\ UNCHANGED got
  /\ UNCHANGED <<kb, begun, since, alone>>

\* Planted error: the wait for the record has no deadline.
GiveUpNotF3(p) ==
  /\ \/ pc[p] = "F1" /\ Return(p, "closed")
     \/ pc[p] = "F2" /\ Send(p, "F3") /\ UNCHANGED inq
  /\ UNCHANGED <<got, kb, begun, since, alone>>

\* Two seconds have passed, or a report could not be sent or read.  Without
\* an answer to F2 the exchange goes on; the answer may still come.
GiveUp(p) ==
  /\ \/ pc[p] \in {"F1", "F3"} /\ Return(p, "closed")
     \/ pc[p] = "F2" /\ Send(p, "F3") /\ UNCHANGED inq
  /\ UNCHANGED <<got, kb, begun, since, alone>>

-------------------------------------------------------------------------------
(***************************************************************************)
(* The keyboard                                                            *)
(***************************************************************************)

\* Planted error: handles outlive the exchange they were opened for.
QueuedOnAll(rep) == [p \in Program |-> Append(inq[p], rep)]

\* hidraw queues an input report on every open handle.
Queued(rep) == [p \in Program |-> IF IsOpen(p) THEN Append(inq[p], rep) ELSE inq[p]]

\* F1 makes a host known, F3 makes a new record.
Effect(c) == CASE c.op = "F1" -> [kb EXCEPT !.host = c.host]
               [] c.op = "F2" -> kb
               [] c.op = "F3" -> [kb EXCEPT !.rec = @ + 1]

Answer ==
  /\ cmds # <<>> /\ cmds' = Tail(cmds)
  /\ \/ /\ kb' = Effect(Head(cmds))
        /\ inq' = Queued([op |-> Head(cmds).op, ok |-> TRUE, rec |-> kb'.rec])
     \/ /\ inq' = Queued([op |-> Head(cmds).op, ok |-> FALSE, rec |-> kb.rec])
        /\ UNCHANGED kb
  /\ UNCHANGED <<pc, got, begun, since, alone>>

\* A command gets lost on its way, or its answer does.
Lose ==
  /\ cmds # <<>> /\ cmds' = Tail(cmds)
  /\ kb' \in {kb, Effect(Head(cmds))}
  /\ UNCHANGED <<pc, inq, got, begun, since, alone>>

-------------------------------------------------------------------------------
Keyboard == Answer \/ Lose
Wait(p) == Discard(p) \/ RecvF1(p) \/ RecvF2(p) \/ RecvF3(p) \/ GiveUp(p)

Next == Keyboard \/ \E p \in Program : Open(p) \/ Wait(p)

Spec == Init /\ [][Next]_vars

\* A program that waits is scheduled and its clock runs; nothing is asked of the keyboard.
FairSpec == Spec /\ \A p \in Program : WF_vars(Wait(p))

-------------------------------------------------------------------------------
(***************************************************************************)
(* Properties                                                              *)
(***************************************************************************)

\* The type invariant.  The numbers of records are unbounded as far as types go.
TypeOK ==
  /\ pc \in [Program -> Opcode \cup {"closed", "got"}]
  /\ inq \in [Program -> Seq(Report)]
  /\ got \in [Program -> Nat]
  /\ cmds \in Seq(Command)
  /\ kb \in [host : Adapter \cup {NoHost}, rec : Nat]
  /\ begun \in Nat
  /\ since \in [Program -> Nat]
  /\ alone \in [Program -> BOOLEAN]
  /\ \A p \in Program : ~IsOpen(p) => inq[p] = <<>>

\* No program uses a record the keyboard made before the program opened its
\* handle, however many others run and however late answers are: nothing is
\* cached across attempts.
RecordIsFresh == \A p \in Program : pc[p] = "got" => got[p] > since[p]

\* A program that nobody else disturbed, and that found the keyboard idle,
\* gets the record the keyboard now stands by, and the keyboard advertises to
\* the adapter the program runs for; whether or not F2 was answered, late or in time.
RecordIsCurrent ==
  \A p \in Program : pc[p] = "got" /\ alone[p] => got[p] = kb.rec /\ kb.host = Host[p]

\* What DbusPair takes from here: of all that goes on between open_hidraw() and
\* the end of the exchange, a program sees the records that are made meanwhile.
Fresh == INSTANCE FreshRecord WITH
           made  <- kb.rec,
           open  <- {p \in Program : IsOpen(p)},
           heard <- [p \in Program |-> IF IsOpen(p) THEN (since[p] + 1)..kb.rec ELSE {}],
           used  <- got,
           lone  <- {p \in Program : alone[p] /\ pc[p] \in Opcode \cup {"got"}}
ImplementsFreshRecord == Fresh!Spec

\* An exchange comes to an end although the keyboard may say nothing.
ExchangeEnds == \A p \in Program : IsOpen(p) ~> ~IsOpen(p)

-------------------------------------------------------------------------------
(***************************************************************************)
(* The inductive invariant                                                 *)
(***************************************************************************)
Asked(op) == {i \in DOMAIN cmds : cmds[i].op = op}

\* What is on a handle came after it was opened.
QueuedIsFresh ==
  \A p \in Program : /\ since[p] <= kb.rec
                     /\ \A i \in DOMAIN inq[p] :
                          inq[p][i].op = "F3" /\ inq[p][i].ok => inq[p][i].rec > since[p]

\* Of a program that is alone: every host named is its own, F3 is asked at
\* most once and only at the end, and its answer names the latest record.
AloneAt(p) ==
  /\ \A q \in Program : IsOpen(q) => q = p
  /\ \A i \in DOMAIN cmds : cmds[i].host = Host[p]
  /\ pc[p] \in {"F1", "F2", "got"} => Asked("F3") = {}
  /\ \A i, j \in Asked("F3") : i = j
  /\ pc[p] \in {"F2", "F3", "got"} => kb.host = Host[p]
  /\ pc[p] = "got" => got[p] = kb.rec
  /\ \A i \in DOMAIN inq[p] :
       /\ inq[p][i].op = "F1" /\ inq[p][i].ok => kb.host = Host[p]
       /\ inq[p][i].op = "F3" => pc[p] = "F3" /\ Asked("F3") = {}
       /\ inq[p][i].op = "F3" /\ inq[p][i].ok => inq[p][i].rec = kb.rec

AloneInv == \A p \in Program : alone[p] => AloneAt(p)

\* No report is about a record that is still to come.  While a program that is
\* alone may still be waiting for its first record, none was made.
MadeInv ==
  \A p \in Program :
    /\ \A i \in DOMAIN inq[p] :
         inq[p][i].op = "F3" /\ inq[p][i].ok => inq[p][i].rec <= kb.rec
    /\ alone[p] /\ IsOpen(p) /\ (pc[p] = "F3" => Asked("F3") # {}) => since[p] = kb.rec

ExchangeInv == TypeOK /\ QueuedIsFresh /\ RecordIsFresh /\ AloneInv /\ MadeInv
===============================================================================
