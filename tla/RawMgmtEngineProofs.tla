-------------------------- MODULE RawMgmtEngineProofs --------------------------
(***************************************************************************)
(* Theorems about RawMgmtEngine: its types, a mask that is taken back, a   *)
(* run that finds nothing of the one before in the kernel, and a bond that *)
(* outlives its run.  They hold for every kind of peer, any number of runs *)
(* and any number of foreign events.                                       *)
(***************************************************************************)
EXTENDS RawMgmtEngine, TLAPS

-------------------------------------------------------------------------------
(***************************************************************************)
(* Types                                                                   *)
(***************************************************************************)

\* pair_cmd_done is set in the event loop, with a status; main() and the pairing are
\* at places that fit.
TypeInv ==
  /\ TypeOK
  /\ pairDone => SocketOpen /\ res.status # "none"
  /\ SocketOpen => rpc = "pair"
  /\ hpc = "unpair" => rpc = "unpair"
  /\ hpc = "pair" => rpc \in {"arm", "pair"}

LEMMA TypeInit == Init => TypeInv
<1> SUFFICES ASSUME Init PROVE TypeInv
  OBVIOUS
<1>1. MgmtTypeOK
  <2>1. sock \in Seq(Event)
    BY DEF Init, MgmtInit
  <2>2. res \in Result
    BY DEF Init, MgmtInit, NoResult, Result, Status
  <2>3. foreign \in 0..MaxForeign
    BY BoundAssumption DEF Init, MgmtInit
  <2>4. /\ peer \in PeerKinds /\ due = {} /\ hpc = "closed" /\ smp = "none" /\ ask = "none" /\ verdict = "none" /\ left = "nothing"
        /\ cmdPending = FALSE /\ link = FALSE /\ kltk = FALSE /\ pairDone = FALSE /\ byDeadline = FALSE
    BY DEF Init, MgmtInit
  <2> QED
    BY <2>1, <2>2, <2>3, <2>4 DEF MgmtTypeOK, PastLoop
<1>2. runs \in 0..MaxRuns
  BY RunsAssumption DEF Init
<1>3. /\ svc = [masked |-> FALSE, up |-> TRUE] /\ rpc = "off" /\ cut = "none" /\ bond \in BOOLEAN
      /\ shielded = FALSE /\ pairDone = FALSE /\ hpc = "closed"
  BY DEF Init, MgmtInit
<1>4. svc \in [masked : BOOLEAN, up : BOOLEAN]
  BY <1>3
<1> QED
  BY <1>1, <1>2, <1>3, <1>4 DEF TypeInv, TypeOK, SocketOpen

\* What reaches the socket is events.
LEMMA EmitIsTyped ==
  ASSUME sock \in Seq(Event), NEW es \in Seq(Event), Emit(es)
  PROVE  sock' \in Seq(Event)
BY DEF Emit

LEMMA KernelKeepsType ==
  ASSUME TypeInv, Kernel, UNCHANGED engine
  PROVE  TypeInv'
<1>1. /\ TypeOK /\ MgmtTypeOK /\ sock \in Seq(Event)
      /\ pairDone => SocketOpen /\ res.status # "none"
  BY DEF TypeInv, TypeOK, MgmtTypeOK
<1>2. ASSUME UNCHANGED host, sock' \in Seq(Event), foreign' \in 0..MaxForeign, peer' = peer,
             cmdPending' \in BOOLEAN, link' \in BOOLEAN, kltk' \in BOOLEAN,
             smp' \in {"none", "running", "bonded", "failed"},
             ask' \in {"none", "confirm", "passkey", "answered", "refused"}, due' \subseteq {"ltk", "irk"}
      PROVE  TypeInv'
  BY <1>1, <1>2 DEF host, engine, TypeInv, TypeOK, MgmtTypeOK, SocketOpen
<1> USE <1>1, <1>2 DEF MgmtTypeOK
<1>3. CASE KConnect
  BY <1>3 DEF KConnect
<1>4. CASE KConnectFails
  <2>1. <<"cc_fail">> \in Seq(Event)
    BY DEF Event
  <2> QED
    BY <1>4, <2>1, EmitIsTyped DEF KConnectFails
<1>5. CASE KAsk
  <2>1. <<"confirm">> \in Seq(Event) /\ <<"passkey">> \in Seq(Event)
    BY DEF Event
  <2> QED
    BY <1>5, <2>1, EmitIsTyped DEF KAsk
<1>6. CASE KComplete
  <2>1. <<"cc_ok">> \in Seq(Event)
    BY DEF Event
  <2> QED
    BY <1>6, <2>1, EmitIsTyped DEF KComplete
<1>7. CASE KBond
  BY <1>7 DEF KBond
<1>8. CASE KFail
  <2>1. <<"cc_fail">> \in Seq(Event) /\ <<"auth_failed">> \in Seq(Event)
    BY DEF Event
  <2> QED
    BY <1>8, <2>1, EmitIsTyped DEF KFail
<1>9. CASE KDrop
  <2>1. <<"disconnected", "cc_fail">> \in Seq(Event) /\ <<"disconnected">> \in Seq(Event)
    BY DEF Event
  <2>2. sock' \in Seq(Event)
    BY <1>9, <2>1, EmitIsTyped DEF KDrop
  <2> QED
    BY <1>9, <2>2 DEF KDrop, DropLink
<1>10. CASE ForeignPairs
  <2>1. PICK e \in ForeignEvent : Emit(<<e>>)
    BY <1>10 DEF ForeignPairs
  <2>2. <<e>> \in Seq(Event)
    BY DEF Event
  <2>3. sock' \in Seq(Event)
    BY <2>1, <2>2, EmitIsTyped
  <2>4. foreign' \in 0..MaxForeign
    BY <1>10, BoundAssumption DEF ForeignPairs
  <2> QED
    BY <1>10, <2>3, <2>4 DEF ForeignPairs, kernel
<1>11. ASSUME NEW e \in due, KNotify(e) PROVE TypeInv'
  <2>1. <<e>> \in Seq(Event)
    BY DEF Event
  <2>2. sock' \in Seq(Event)
    BY <1>11, <2>1, EmitIsTyped DEF KNotify
  <2> QED
    BY <1>11, <2>2 DEF KNotify
<1> QED
  BY <1>3, <1>4, <1>5, <1>6, <1>7, <1>8, <1>9, <1>10, <1>11 DEF Kernel

\* The end of the event loop, and its going on, with a new result.
LEMMA BreakIsTyped ==
  ASSUME NEW r \in Result, r.status # "none", Break(r)
  PROVE  /\ res' \in Result /\ res'.status # "none"
         /\ hpc' \in {"cancel", "verdict"} /\ sock' = <<>>
BY DEF Break, AfterLoop

LEMMA ReceivedIsTyped ==
  ASSUME sock \in Seq(Event), NEW e, Receive(e), sock' = Tail(sock) \/ sock' = <<>>
  PROVE  sock' \in Seq(Event)
<1>1. Tail(sock) \in Seq(Event) /\ <<>> \in Seq(Event)
  BY DEF Receive
<1> QED
  BY <1>1

\* A step of the event loop.
LEMMA RecvKeepsType ==
  ASSUME TypeInv, Recv, UNCHANGED engine
  PROVE  TypeInv'
<1>1. /\ MgmtTypeOK /\ TypeOK /\ sock \in Seq(Event) /\ res \in Result
      /\ pairDone => res.status # "none"
  BY DEF TypeInv, TypeOK, MgmtTypeOK
<1>2. ASSUME UNCHANGED <<peer, cmdPending, smp, link, kltk, due, byDeadline, verdict, left, foreign>>, hpc = "loop",
             NEW e, Receive(e), sock' = Tail(sock) \/ sock' = <<>>,
             ask' \in {"none", "confirm", "passkey", "answered", "refused"},
             res' \in Result, pairDone' \in BOOLEAN, pairDone' => res'.status # "none",
             hpc' = "loop" \/ (hpc' \in {"cancel", "verdict"} /\ res'.status # "none")
      PROVE  TypeInv'
  <2>1. sock' \in Seq(Event)
    BY <1>1, <1>2, ReceivedIsTyped
  <2> QED
    BY <1>1, <1>2, <2>1 DEF engine, TypeInv, TypeOK, MgmtTypeOK, SocketOpen, PastLoop
<1>3. \A s \in Status, l \in {"none", "peer", "foreign"} :
        /\ [res EXCEPT !.status = s] \in Result /\ [res EXCEPT !.status = s].status = s
        /\ [res EXCEPT !.smpSeen = TRUE, !.ltk = l] \in Result
        /\ [res EXCEPT !.smpSeen = TRUE, !.ltk = l].status = res.status
  BY <1>1 DEF Result
<1>4. /\ [res EXCEPT !.smpSeen = TRUE, !.asked = TRUE] \in Result
      /\ [res EXCEPT !.smpSeen = TRUE, !.asked = TRUE].status = res.status
      /\ [res EXCEPT !.irk = TRUE] \in Result /\ [res EXCEPT !.irk = TRUE].status = res.status
  BY <1>1 DEF Result
<1>5. {"success", "failed", "auth_failed", "timeout"} \subseteq Status
  BY DEF Status
<1>6. CASE RecvDisconnected \/ RecvPasskey
  <2>1. PICK e : Receive(e) /\ Continue(res)
    BY <1>6 DEF RecvDisconnected, RecvPasskey
  <2>2. /\ UNCHANGED <<peer, cmdPending, smp, link, kltk, due, pairDone, byDeadline, verdict, left, foreign>>
        /\ ask' \in {"none", "confirm", "passkey", "answered", "refused"}
    BY <1>1, <1>6 DEF RecvDisconnected, RecvPasskey, kernel, MgmtTypeOK
  <2> QED
    BY <1>1, <1>2, <2>1, <2>2 DEF Continue, Receive, MgmtTypeOK
<1>7. CASE RecvCmdComplete
  <2> DEFINE f == [res EXCEPT !.status = "failed"]
             s == [res EXCEPT !.status = "success"]
  <2>1. PICK e : Receive(e)
    BY <1>7 DEF RecvCmdComplete
  <2>2. f \in Result /\ f.status = "failed" /\ s \in Result /\ s.status = "success"
    BY <1>3, <1>5
  <2>3. UNCHANGED <<kernel, byDeadline, verdict, left, foreign>>
    BY <1>7 DEF RecvCmdComplete
  <2>4. \/ Break(f) /\ UNCHANGED pairDone
        \/ Break(s) /\ UNCHANGED pairDone
        \/ Continue(s) /\ pairDone' = TRUE
    BY <1>7 DEF RecvCmdComplete
  <2> HIDE DEF f, s
  <2>5. hpc = "loop"
    BY <2>1 DEF Receive
  <2>6. CASE (Break(f) \/ Break(s)) /\ UNCHANGED pairDone
    <3>1. /\ res' \in Result /\ res'.status # "none" /\ hpc' \in {"cancel", "verdict"} /\ sock' = <<>>
      BY <2>2, <2>6, BreakIsTyped
    <3> QED
      BY <1>1, <1>2, <2>1, <2>3, <2>5, <2>6, <3>1 DEF kernel, MgmtTypeOK
  <2>7. CASE Continue(s) /\ pairDone' = TRUE
    BY <1>1, <1>2, <2>1, <2>2, <2>3, <2>5, <2>7 DEF kernel, MgmtTypeOK, Continue
  <2> QED
    BY <2>4, <2>6, <2>7
<1>8. CASE RecvConfirm
  <2>1. PICK e : Receive(e)
    BY <1>8 DEF RecvConfirm
  <2>2. /\ UNCHANGED <<peer, cmdPending, smp, link, kltk, due, pairDone, byDeadline, verdict, left, foreign>>
        /\ ask' \in {"none", "confirm", "passkey", "answered", "refused"}
    BY <1>1, <1>8 DEF RecvConfirm, MgmtTypeOK
  <2>3. res' \in Result /\ res'.status = res.status /\ hpc' = hpc /\ sock' = Tail(sock)
    BY <1>4, <1>8 DEF RecvConfirm, Continue
  <2> QED
    BY <1>1, <1>2, <2>1, <2>2, <2>3 DEF Receive, MgmtTypeOK
<1>10. CASE RecvNewLtk
  <2>1. PICK e \in {"ltk", "foreign_ltk"} :
          /\ Receive(e)
          /\ Continue([res EXCEPT !.smpSeen = TRUE, !.ltk = IF e = "ltk" THEN "peer" ELSE "foreign"])
    BY <1>10 DEF RecvNewLtk
  <2>2. PICK l \in {"none", "peer", "foreign"} : Continue([res EXCEPT !.smpSeen = TRUE, !.ltk = l])
    BY <2>1
  <2>3. res' \in Result /\ res'.status = res.status /\ hpc' = hpc /\ sock' = Tail(sock)
    BY <1>3, <1>5, <2>2 DEF Continue
  <2> QED
    BY <1>1, <1>2, <1>10, <2>1, <2>3 DEF RecvNewLtk, Receive, kernel, MgmtTypeOK
<1>11. CASE RecvNewIrk
  <2> DEFINE r == [res EXCEPT !.irk = TRUE]
  <2>1. r \in Result /\ r.status = res.status
    BY <1>4
  <2>2. PICK e : Receive(e)
    BY <1>11 DEF RecvNewIrk
  <2>3. (Break(r) /\ pairDone) \/ Continue(r)
    BY <1>11 DEF RecvNewIrk
  <2>4. hpc = "loop" /\ UNCHANGED <<kernel, pairDone, byDeadline, verdict, left, foreign>>
    BY <1>11, <2>2 DEF RecvNewIrk, Receive
  <2> HIDE DEF r
  <2>5. CASE Break(r) /\ pairDone
    <3>1. res' \in Result /\ res'.status # "none" /\ hpc' \in {"cancel", "verdict"} /\ sock' = <<>>
      BY <1>1, <2>1, <2>5, BreakIsTyped
    <3> QED
      BY <1>1, <1>2, <2>2, <2>4, <3>1 DEF kernel, MgmtTypeOK
  <2>6. CASE Continue(r)
    BY <1>1, <1>2, <2>1, <2>2, <2>4, <2>6 DEF kernel, MgmtTypeOK, Continue
  <2> QED
    BY <2>3, <2>5, <2>6
<1>12. CASE RecvAuthFailed
  <2> DEFINE r == [res EXCEPT !.status = "auth_failed"]
  <2>1. r \in Result /\ r.status = "auth_failed"
    BY <1>3, <1>5
  <2>2. PICK e : Receive(e)
    BY <1>12 DEF RecvAuthFailed
  <2>3. hpc = "loop" /\ UNCHANGED <<kernel, pairDone, byDeadline, verdict, left, foreign>> /\ Break(r)
    BY <1>12, <2>2 DEF RecvAuthFailed, Receive
  <2> HIDE DEF r
  <2>4. res' \in Result /\ res'.status # "none" /\ hpc' \in {"cancel", "verdict"} /\ sock' = <<>>
    BY <2>1, <2>3, BreakIsTyped
  <2> QED
    BY <1>1, <1>2, <2>2, <2>3, <2>4 DEF kernel, MgmtTypeOK
<1> QED
  BY <1>6, <1>7, <1>8, <1>10, <1>11, <1>12 DEF Recv

\* The steps of mgmt_pair_device() outside of its loop's branches.
LEMMA StraightKeepsType ==
  ASSUME TypeInv, UNCHANGED engine, rpc = "pair", PairDevice \/ Deadline \/ Cancel \/ Disconnect \/ Drain
  PROVE  TypeInv'
<1>1. /\ MgmtTypeOK /\ TypeOK /\ sock \in Seq(Event) /\ res \in Result
      /\ pairDone => SocketOpen /\ res.status # "none"
  BY DEF TypeInv, TypeOK, MgmtTypeOK
<1>2. <<>> \in Seq(Event)
  OBVIOUS
<1>3. CASE PairDevice
  <2>1. NoResult \in Result
    BY DEF NoResult, Result, Status
  <2>2. ~pairDone
    BY <1>1, <1>3 DEF PairDevice, SocketOpen
  <2>3. /\ hpc' = "loop" /\ cmdPending' = TRUE /\ sock' = <<>> /\ res' = NoResult /\ left' = "anything"
        /\ smp' \in {"none", "running"} /\ ask' \in {"none", ask}
        /\ UNCHANGED <<peer, link, kltk, due, pairDone, byDeadline, verdict, foreign>>
    BY <1>3 DEF PairDevice
  <2> QED
    BY <1>1, <1>2, <2>1, <2>2, <2>3 DEF engine, TypeInv, TypeOK, MgmtTypeOK, SocketOpen, PastLoop
<1>4. CASE Deadline
  <2> DEFINE r == [res EXCEPT !.status = IF @ = "none" THEN "timeout" ELSE @]
  <2>1. r \in Result /\ r.status # "none"
    BY <1>1 DEF Result, Status
  <2>2. Break(r) /\ hpc = "loop" /\ byDeadline' = TRUE /\ UNCHANGED <<kernel, pairDone, verdict, left, foreign>>
    BY <1>4 DEF Deadline
  <2> HIDE DEF r
  <2>3. /\ res' \in Result /\ res'.status # "none" /\ hpc' \in {"cancel", "verdict"} /\ sock' = <<>>
    BY <2>1, <2>2, BreakIsTyped
  <2> QED
    BY <1>1, <1>2, <2>2, <2>3 DEF kernel, engine, TypeInv, TypeOK, MgmtTypeOK, SocketOpen, PastLoop
<1>5. CASE Cancel
  <2>1. /\ cmdPending' \in BOOLEAN /\ link' \in BOOLEAN
        /\ ask' \in {"none", "confirm", "passkey", "answered", "refused"}
        /\ smp' \in {"none", "running", "bonded", "failed"}
        /\ hpc' \in {"disconnect", "drain"}
    BY <1>1, <1>5 DEF Cancel, DropLink, MgmtTypeOK
  <2> QED
    BY <1>1, <1>5, <2>1 DEF Cancel, engine, TypeInv, TypeOK, MgmtTypeOK, SocketOpen, PastLoop
<1>6. CASE Disconnect
  <2>1. /\ cmdPending' \in BOOLEAN /\ link' \in BOOLEAN
        /\ ask' \in {"none", "confirm", "passkey", "answered", "refused"}
        /\ smp' \in {"none", "running", "bonded", "failed"}
        /\ left' \in {"nothing", left}
    BY <1>1, <1>6 DEF Disconnect, DropLink, MgmtTypeOK
  <2> QED
    BY <1>1, <1>6, <2>1 DEF Disconnect, engine, TypeInv, TypeOK, MgmtTypeOK, SocketOpen, PastLoop
<1>7. CASE Drain
  BY <1>1, <1>2, <1>7 DEF Drain, kernel, engine, TypeInv, TypeOK, MgmtTypeOK, SocketOpen, PastLoop
<1> QED
  BY <1>3, <1>4, <1>5, <1>6, <1>7

\* What the service and the daemon do to the kernel.
LEMMA DaemonDownIsTyped ==
  ASSUME MgmtTypeOK, DaemonDown
  PROVE  MgmtTypeOK' /\ UNCHANGED <<hpc, pairDone, res, verdict>>
<1>1. /\ cmdPending' \in BOOLEAN /\ link' \in BOOLEAN
      /\ ask' \in {"none", "confirm", "passkey", "answered", "refused"}
      /\ smp' \in {"none", "running", "bonded", "failed"}
      /\ UNCHANGED <<peer, kltk, due, sock, host, foreign>>
  BY DEF DaemonDown, DropLink, MgmtTypeOK
<1> QED
  BY <1>1 DEF MgmtTypeOK, host, PastLoop

LEMMA DaemonUpIsTyped ==
  ASSUME MgmtTypeOK, bond \in BOOLEAN, svc \in [masked : BOOLEAN, up : BOOLEAN], DaemonUp
  PROVE  /\ MgmtTypeOK' /\ UNCHANGED <<hpc, pairDone, res, verdict>>
         /\ svc' \in [masked : BOOLEAN, up : BOOLEAN] /\ svc'.up /\ svc'.masked = svc.masked
<1>1. /\ kltk' \in BOOLEAN
      /\ UNCHANGED <<peer, cmdPending, smp, ask, link, due, sock, host, foreign>>
  BY DEF DaemonUp, MgmtTypeOK
<1>2. svc' \in [masked : BOOLEAN, up : BOOLEAN] /\ svc'.up /\ svc'.masked = svc.masked
  BY DEF DaemonUp
<1> QED
  BY <1>1, <1>2 DEF MgmtTypeOK, host, PastLoop

LEMMA AbandonIsTyped ==
  ASSUME MgmtTypeOK, Abandon
  PROVE  MgmtTypeOK' /\ ~pairDone' /\ hpc' = "closed"
<1>1. NoResult \in Result
  BY DEF NoResult, Result, Status
<1>2. /\ res' \in Result /\ hpc' = "closed" /\ sock' = <<>> /\ pairDone' = FALSE /\ byDeadline' = FALSE /\ due' = {}
      /\ UNCHANGED <<peer, cmdPending, smp, ask, link, kltk, verdict, left, foreign>>
  BY <1>1 DEF Abandon, MgmtTypeOK
<1>3. <<>> \in Seq(Event)
  OBVIOUS
<1> QED
  BY <1>2, <1>3 DEF MgmtTypeOK, PastLoop

\* Every step.
LEMMA TypeStep == TypeInv /\ [Next]_vars => TypeInv'
<1> SUFFICES ASSUME TypeInv, [Next]_vars PROVE TypeInv'
  OBVIOUS
<1>1. /\ MgmtTypeOK /\ TypeOK /\ rpc \in InTry \cup Outside \cup {"off"}
      /\ svc \in [masked : BOOLEAN, up : BOOLEAN] /\ bond \in BOOLEAN /\ runs \in 0..MaxRuns
      /\ cut \in {"none", "inside", "outside", "kill", "refused"} /\ shielded \in BOOLEAN
      /\ svc.masked \in BOOLEAN /\ svc.up \in BOOLEAN
  BY DEF TypeInv, TypeOK
<1>2. ASSUME MgmtTypeOK', rpc' \in InTry \cup Outside \cup {"off"},
             svc' \in [masked : BOOLEAN, up : BOOLEAN], bond' \in BOOLEAN, runs' \in 0..MaxRuns,
             cut' \in {"none", "inside", "outside", "kill", "refused"}, shielded' \in BOOLEAN,
             ~pairDone', hpc' \in {"closed", "unpair", "pair"},
             hpc' = "unpair" => rpc' = "unpair", hpc' = "pair" => rpc' \in {"arm", "pair"}
      PROVE  TypeInv'
  BY <1>2 DEF TypeInv, TypeOK, SocketOpen
<1>3. rpc \notin {"pair"} => ~pairDone /\ hpc \in {"closed", "unpair", "pair"}
  BY <1>1 DEF TypeInv, SocketOpen, MgmtTypeOK
<1>4. rpc \notin {"unpair", "arm", "pair"} => hpc = "closed"
  BY <1>3 DEF TypeInv
<1> USE DEF InTry, Outside
<1>5. CASE Begin
  <2>1. NoResult \in Result
    BY DEF NoResult, Result, Status
  <2>2. MgmtTypeOK'
    BY <1>1, <1>4, <1>5, <2>1 DEF Begin, MgmtTypeOK, kernel, PastLoop
  <2>3. runs' \in 0..MaxRuns
    BY <1>1, <1>5, RunsAssumption DEF Begin
  <2> QED
    BY <1>1, <1>2, <1>3, <1>4, <1>5, <2>2, <2>3 DEF Begin
<1>6. ASSUME UNCHANGED mgmtVars PROVE MgmtTypeOK' /\ UNCHANGED <<hpc, pairDone>>
  BY <1>1, <1>6 DEF mgmtVars, MgmtTypeOK, kernel, host, PastLoop
<1>7. CASE Mask
  <2>1. MgmtTypeOK' /\ UNCHANGED <<hpc, pairDone>>
    <3>1. DaemonDown \/ UNCHANGED mgmtVars
      BY <1>7 DEF Mask
    <3> QED
      BY <1>1, <1>6, <3>1, DaemonDownIsTyped
  <2>2. \/ svc' = [masked |-> TRUE, up |-> FALSE] /\ shielded' = TRUE
        \/ svc' = [svc EXCEPT !.masked = TRUE] /\ shielded' = TRUE
        \/ svc' = svc /\ shielded' = svc.masked
    BY <1>7 DEF Mask
  <2>3. svc' \in [masked : BOOLEAN, up : BOOLEAN] /\ shielded' \in BOOLEAN
    <3>1. CASE svc' = [masked |-> TRUE, up |-> FALSE] /\ shielded' = TRUE
      BY <3>1
    <3>2. CASE svc' = [svc EXCEPT !.masked = TRUE] /\ shielded' = TRUE
      BY <1>1, <3>2
    <3>3. CASE svc' = svc /\ shielded' = svc.masked
      BY <1>1, <3>3
    <3> QED
      BY <2>2, <3>1, <3>2, <3>3
  <2> QED
    BY <1>1, <1>2, <1>3, <1>4, <1>7, <2>1, <2>3 DEF Mask
<1>8. CASE Stop
  <2>1. MgmtTypeOK' /\ UNCHANGED <<hpc, pairDone>>
    BY <1>1, <1>6, <1>8, DaemonDownIsTyped DEF Stop
  <2>2. svc' \in [masked : BOOLEAN, up : BOOLEAN]
    BY <1>1, <1>8 DEF Stop
  <2> QED
    BY <1>1, <1>2, <1>3, <1>4, <1>8, <2>1, <2>2 DEF Stop
<1>9. CASE SetPowered \/ Unmask
  <2>1. svc' \in [masked : BOOLEAN, up : BOOLEAN]
    BY <1>1, <1>9 DEF SetPowered, Unmask
  <2> QED
    BY <1>1, <1>2, <1>3, <1>4, <1>6, <1>9, <2>1 DEF SetPowered, Unmask
<1>10. CASE ClearBond
  <2>1. MgmtTypeOK'
    BY <1>1, <1>10 DEF ClearBond, MgmtTypeOK, kernel, PastLoop
  <2> QED
    BY <1>1, <1>2, <1>3, <1>10, <2>1 DEF ClearBond
<1>11. CASE Unpair
  <2>1. /\ cmdPending' \in BOOLEAN /\ link' \in BOOLEAN /\ kltk' \in BOOLEAN /\ due' = {}
        /\ ask' \in {"none", "confirm", "passkey", "answered", "refused"}
        /\ smp' \in {"none", "running", "bonded", "failed"}
        /\ hpc = "unpair" /\ hpc' = "pair"
        /\ UNCHANGED <<peer, sock, res, pairDone, byDeadline, verdict, left, foreign>>
    BY <1>1, <1>11 DEF Unpair, UnpairDevice, DropLink, MgmtTypeOK
  <2>2. MgmtTypeOK'
    BY <1>1, <2>1 DEF MgmtTypeOK, PastLoop
  <2> QED
    BY <1>1, <1>2, <1>3, <1>11, <2>1, <2>2 DEF Unpair
<1>12. CASE ArmTk
  <2>1. hpc' \in {"closed", hpc} /\ hpc \in {"closed", "unpair", "pair"}
    BY <1>3, <1>12 DEF ArmTk
  <2>2. MgmtTypeOK'
    BY <1>1, <1>12, <2>1 DEF ArmTk, MgmtTypeOK, kernel, PastLoop
  <2>3. hpc # "unpair"
    BY <1>12 DEF ArmTk, TypeInv
  <2> QED
    BY <1>1, <1>2, <1>3, <1>12, <2>1, <2>2, <2>3 DEF ArmTk
<1>13. CASE PairStep
  BY <1>13, RecvKeepsType, StraightKeepsType DEF PairStep
<1>14. CASE ReportAndWrite
  <2>1. /\ hpc' = "closed" /\ sock' = sock /\ verdict' \in {"ok", "fail"} /\ left' \in {"bond", left} /\ pairDone' = FALSE /\ byDeadline' = FALSE
        /\ due' = {} /\ UNCHANGED <<peer, cmdPending, smp, ask, link, kltk, res, foreign>>
    BY <1>14 DEF ReportAndWrite, Report
  <2>3. MgmtTypeOK'
    BY <1>1, <2>1 DEF MgmtTypeOK, PastLoop
  <2>4. bond' \in BOOLEAN
    BY <1>1, <1>14 DEF ReportAndWrite, IsSuccess
  <2> QED
    BY <1>1, <1>2, <1>14, <2>1, <2>3, <2>4 DEF ReportAndWrite
<1>15. CASE StartService
  <2>1. /\ MgmtTypeOK' /\ UNCHANGED <<hpc, pairDone>>
        /\ svc' \in [masked : BOOLEAN, up : BOOLEAN]
    BY <1>1, <1>6, <1>15, DaemonUpIsTyped DEF StartService
  <2> QED
    BY <1>1, <1>2, <1>3, <1>4, <1>15, <2>1 DEF StartService
<1>16. CASE CtrlC \/ Killed
  <2>1. Abandon
    BY <1>16 DEF CtrlC, Killed
  <2> QED
    BY <1>1, <1>2, <1>16, <2>1, AbandonIsTyped DEF CtrlC, Killed
<1>17. CASE Activate
  <2>1. /\ MgmtTypeOK' /\ UNCHANGED <<hpc, pairDone, res, verdict>>
        /\ svc' \in [masked : BOOLEAN, up : BOOLEAN]
    BY <1>1, <1>17, DaemonUpIsTyped DEF Activate
  <2> QED
    BY <1>1, <1>17, <2>1 DEF Activate, TypeInv, TypeOK, SocketOpen
<1>18. CASE Kernel /\ UNCHANGED engine
  BY <1>18, KernelKeepsType
<1>19. CASE UNCHANGED vars
  <2>1. MgmtTypeOK' /\ UNCHANGED <<hpc, pairDone, engine, res>>
    BY <1>6, <1>19 DEF vars, mgmtVars, host
  <2> QED
    BY <1>1, <2>1 DEF TypeInv, TypeOK, SocketOpen, engine
<1> QED
  BY <1>5, <1>7, <1>8, <1>9, <1>10, <1>11, <1>12, <1>13, <1>14, <1>15, <1>16, <1>17, <1>18, <1>19
     DEF Next, Script

\* The type invariant.
THEOREM EngineTypesOK == Spec => []TypeOK
<1>1. TypeInv => TypeOK
  BY DEF TypeInv
<1> QED
  BY <1>1, TypeInit, TypeStep, PTL DEF Spec

-------------------------------------------------------------------------------
(***************************************************************************)
(* The mask                                                                *)
(***************************************************************************)

\* A run whose mask took has bluetooth.service masked until the finally clause; only
\* a refusal leaves it masked after the clause has tried.
MaskInv ==
  /\ shielded /\ rpc \in InTry \cup {"stop"} => svc.masked
  /\ rpc = "start" /\ svc.masked => cut = "refused"
  /\ rpc = "off" /\ svc.masked => cut \in {"kill", "outside", "refused"}

LEMMA MaskInit == Init => MaskInv
BY DEF Init, MaskInv, InTry

LEMMA MaskStep == TypeInv /\ MaskInv /\ [Next]_vars => MaskInv'
<1> SUFFICES ASSUME TypeInv, MaskInv, [Next]_vars PROVE MaskInv'
  OBVIOUS
<1>1. svc \in [masked : BOOLEAN, up : BOOLEAN] /\ svc.masked \in BOOLEAN /\ svc.up \in BOOLEAN
  BY DEF TypeInv, TypeOK
<1> USE DEF MaskInv, InTry, Outside
<1>2. CASE Begin
  BY <1>2 DEF Begin
<1>3. CASE Mask
  BY <1>1, <1>3 DEF Mask
<1>4. CASE Stop
  BY <1>1, <1>4 DEF Stop
<1>5. CASE SetPowered \/ ClearBond \/ Unpair \/ ArmTk \/ ReportAndWrite
  BY <1>5 DEF SetPowered, ClearBond, Unpair, ArmTk, ReportAndWrite
<1>6. CASE Unmask
  BY <1>1, <1>6 DEF Unmask
<1>7. CASE StartService \/ Activate
  BY <1>1, <1>7 DEF StartService, Activate, DaemonUp
<1>8. CASE CtrlC \/ Killed
  BY <1>8 DEF CtrlC, Killed
<1>9. CASE UNCHANGED engine
  BY <1>9 DEF engine
<1> QED
  BY <1>2, <1>3, <1>4, <1>5, <1>6, <1>7, <1>8, <1>9 DEF Next, Script, PairStep, vars

\* bluetooth.service stays masked only after a kill, after a Ctrl-C outside of try, or
\* when systemctl refused to unmask it.
THEOREM MaskComesOff == Spec => []MaskIsUndone
<1>1. MaskInv => MaskIsUndone
  BY DEF MaskInv, MaskIsUndone
<1> QED
  BY <1>1, TypeInit, TypeStep, MaskInit, MaskStep, PTL DEF Spec

-------------------------------------------------------------------------------
(***************************************************************************)
(* What is in the kernel                                                   *)
(***************************************************************************)

Seen(e) == \E i \in 1..Len(sock) : sock[i] = e

\* No pairing and no connection.
Clean == ~cmdPending /\ ~link

\* The kernel has the key, unless bluetoothd is up and has loaded its own.
Safe == kltk \/ svc.up

\* The key a run has to do with is there, and stays there if the run's mask took.
Kept == Safe /\ (shielded => kltk)

\* The key the script has seen, or may yet see, is in the kernel; what is left of a
\* run that came through is the key, or nothing; and a bluetoothd that is up has its
\* own keys, and takes the connection with it when it is stopped.
KeyInv ==
  /\ smp = "running" => link
  /\ SocketOpen \/ hpc = "pair" => ("ltk" \in due => Kept)
  /\ SocketOpen => (Seen("ltk") \/ res.ltk = "peer" => Kept)
  /\ left = "nothing" => Clean
  /\ left = "bond" => Safe \/ Clean
  /\ hpc = "disconnect" => ~cmdPending
  /\ rpc \in InTry \cup {"mask", "stop"} => verdict = "none"
  /\ verdict = "ok" /\ res.ltk = "peer" /\ shielded /\ rpc \in {"unmask", "start", "off"} => kltk /\ bond

LEMMA KeyInit == Init => KeyInv
<1> SUFFICES ASSUME Init PROVE KeyInv
  OBVIOUS
<1>1. /\ hpc = "closed" /\ cmdPending = FALSE /\ link = FALSE /\ smp = "none" /\ left = "nothing"
      /\ rpc = "off" /\ verdict = "none"
  BY DEF Init, MgmtInit
<1> QED
  BY <1>1 DEF KeyInv, SocketOpen, Clean, InTry

\* What an event adds to the buffer, and what taking one leaves.
LEMMA SeenEmit ==
  ASSUME sock \in Seq(Event), NEW d \in Event, Emit(<<d>>), NEW e
  PROVE  Seen(e)' => Seen(e) \/ (e = d /\ SocketOpen)
BY DEF Emit, Seen, SocketOpen

LEMMA SeenEmitTwo ==
  ASSUME sock \in Seq(Event), NEW d \in Event, NEW f \in Event, Emit(<<d, f>>), NEW e
  PROVE  Seen(e)' => Seen(e) \/ e = d \/ e = f
BY DEF Emit, Seen

LEMMA SeenReceive ==
  ASSUME sock \in Seq(Event), NEW d, Receive(d), sock' = Tail(sock) \/ sock' = <<>>
  PROVE  Seen(d) /\ \A e : Seen(e)' => Seen(e)
<1>1. sock # <<>> /\ sock[1] = d /\ Len(sock) \in Nat /\ Len(sock) > 0
  BY DEF Receive
<1>2. Seen(d)
  BY <1>1 DEF Seen
<1>3. ASSUME NEW e, NEW i \in 1..Len(sock'), sock'[i] = e PROVE Seen(e)
  <2>1. sock' = Tail(sock)
    BY <1>3
  <2>2. i + 1 \in 1..Len(sock) /\ sock[i + 1] = e
    BY <1>1, <1>3, <2>1
  <2> QED
    BY <2>2 DEF Seen
<1> QED
  BY <1>2, <1>3 DEF Seen

LEMMA SeenNothing == ASSUME sock' = <<>>, NEW e PROVE ~Seen(e)'
BY DEF Seen

\* A step of the kernel or the peer.
LEMMA KernelKeepsKey ==
  ASSUME TypeInv, KeyInv, Kernel, UNCHANGED engine
  PROVE  KeyInv'
<1>1. sock \in Seq(Event) /\ UNCHANGED host
  <2>1. sock \in Seq(Event)
    BY DEF TypeInv, TypeOK, MgmtTypeOK
  <2>2. UNCHANGED host
    BY DEF Kernel, KConnect, KConnectFails, KAsk, KComplete, KBond, KFail, KDrop, ForeignPairs, KNotify
  <2> QED
    BY <2>1, <2>2
<1>2. ASSUME kltk => kltk', Seen("ltk")' => Seen("ltk") \/ ("ltk" \in due /\ SocketOpen), "ltk" \in due' => "ltk" \in due \/ kltk',
             smp' = "running" => link', Clean => Clean' /\ (kltk' = kltk), ~cmdPending => ~cmdPending'
      PROVE  KeyInv'
  BY <1>1, <1>2 DEF engine, host, KeyInv, Kept, Safe, SocketOpen
<1>3. ASSUME NEW d \in Event \ {"ltk"}, Emit(<<d>>) PROVE Seen("ltk")' => Seen("ltk")
  BY <1>1, <1>3, SeenEmit
<1>4. sock' = sock => (Seen("ltk")' => Seen("ltk"))
  BY DEF Seen
<1>5. {"cc_fail", "cc_ok", "confirm", "passkey", "auth_failed", "disconnected", "irk"} \cup ForeignEvent \subseteq Event \ {"ltk"}
  BY DEF Event, ForeignEvent
<1> USE DEF KeyInv, Clean
<1>6. CASE KConnect \/ KBond
  BY <1>1, <1>2, <1>4, <1>6 DEF KConnect, KBond
<1>7. CASE KConnectFails \/ KAsk \/ KComplete \/ KFail
  <2>1. Seen("ltk")' => Seen("ltk")
    BY <1>3, <1>5, <1>7 DEF KConnectFails, KAsk, KComplete, KFail
  <2> QED
    BY <1>1, <1>2, <1>7, <2>1 DEF KConnectFails, KAsk, KComplete, KFail
<1>8. CASE KDrop
  <2>1. Seen("ltk")' => Seen("ltk")
    <3>1. CASE cmdPending
      BY <1>1, <1>5, <1>8, <3>1, SeenEmitTwo DEF KDrop
    <3>2. CASE ~cmdPending
      BY <1>3, <1>5, <1>8, <3>2 DEF KDrop
    <3> QED
      BY <3>1, <3>2
  <2>2. /\ smp' # "running" /\ ~link' /\ ~cmdPending' /\ link
        /\ UNCHANGED <<kltk, due>>
    BY <1>8 DEF KDrop, DropLink
  <2> QED
    BY <1>1, <1>2, <2>1, <2>2
<1>9. CASE ForeignPairs
  <2>1. Seen("ltk")' => Seen("ltk")
    BY <1>3, <1>5, <1>9 DEF ForeignPairs
  <2> QED
    BY <1>1, <1>2, <1>9, <2>1 DEF ForeignPairs, kernel
<1>10. ASSUME NEW e \in due, KNotify(e) PROVE KeyInv'
  <2>1. e \in {"ltk", "irk"} /\ e \in Event
    BY DEF TypeInv, TypeOK, MgmtTypeOK, Event
  <2>2. Seen("ltk")' => Seen("ltk") \/ (e = "ltk" /\ SocketOpen)
    BY <1>1, <1>10, <2>1, SeenEmit DEF KNotify
  <2>3. ("ltk" \in due' => "ltk" \in due) /\ UNCHANGED <<cmdPending, smp, link, kltk>>
    BY <1>10 DEF KNotify
  <2> QED
    BY <1>1, <1>2, <2>2, <2>3
<1> QED
  BY <1>6, <1>7, <1>8, <1>9, <1>10 DEF Kernel

\* A step of the event loop; an LTK in the result was in an event.
LEMMA LoopKeepsKey ==
  ASSUME TypeInv, KeyInv, UNCHANGED engine, hpc = "loop",
         UNCHANGED <<cmdPending, smp, link, kltk, due, verdict, left>>,
         hpc' \in {"loop", "cancel", "verdict"},
         Seen("ltk")' => Seen("ltk"),
         res'.ltk = "peer" => res.ltk = "peer" \/ Seen("ltk")
  PROVE  KeyInv'
<1>1. rpc = "pair" /\ SocketOpen
  BY DEF TypeInv, SocketOpen
<1>2. (Kept' <=> Kept) /\ (Safe' <=> Safe) /\ (Clean' <=> Clean)
  BY DEF Kept, Safe, Clean, engine
<1> QED
  BY <1>1, <1>2 DEF KeyInv, engine, InTry

LEMMA RecvKeepsKey ==
  ASSUME TypeInv, KeyInv, Recv, UNCHANGED engine
  PROVE  KeyInv'
<1>1. sock \in Seq(Event) /\ res \in Result
  BY DEF TypeInv, TypeOK, MgmtTypeOK
<1>2. PICK d : Receive(d) /\ (res'.ltk = "peer" => res.ltk = "peer" \/ d = "ltk")
  <2>1. CASE RecvDisconnected \/ RecvPasskey
    BY <2>1 DEF RecvDisconnected, RecvPasskey, Continue
  <2>2. CASE RecvCmdComplete
    <3>1. PICK d : Receive(d)
      BY <2>2 DEF RecvCmdComplete
    <3>2. res'.ltk = res.ltk
      BY <1>1, <2>2 DEF RecvCmdComplete, Break, Continue, Result
    <3> QED
      BY <3>1, <3>2
  <2>3. CASE RecvConfirm
    <3>1. PICK d : Receive(d)
      BY <2>3 DEF RecvConfirm
    <3>2. res'.ltk = res.ltk
      BY <1>1, <2>3 DEF RecvConfirm, Continue, Result
    <3> QED
      BY <3>1, <3>2
  <2>4. CASE RecvNewLtk
    <3>1. PICK d \in {"ltk", "foreign_ltk"} :
            /\ Receive(d)
            /\ Continue([res EXCEPT !.smpSeen = TRUE, !.ltk = IF d = "ltk" THEN "peer" ELSE "foreign"])
      BY <2>4 DEF RecvNewLtk
    <3>2. res'.ltk = IF d = "ltk" THEN "peer" ELSE "foreign"
      BY <1>1, <3>1 DEF Continue, Result
    <3> QED
      BY <3>1, <3>2
  <2>5. CASE RecvNewIrk
    <3>1. PICK d : Receive(d)
      BY <2>5 DEF RecvNewIrk
    <3>2. res'.ltk = res.ltk
      BY <1>1, <2>5 DEF RecvNewIrk, Break, Continue, Result
    <3> QED
      BY <3>1, <3>2
  <2>6. CASE RecvAuthFailed
    <3>1. PICK d : Receive(d)
      BY <2>6 DEF RecvAuthFailed
    <3>2. res'.ltk = res.ltk
      BY <1>1, <2>6 DEF RecvAuthFailed, Break, Result
    <3> QED
      BY <3>1, <3>2
  <2> QED
    BY <2>1, <2>2, <2>3, <2>4, <2>5, <2>6 DEF Recv
<1>3. /\ hpc = "loop" /\ hpc' \in {"loop", "cancel", "verdict"}
      /\ sock' = Tail(sock) \/ sock' = <<>>
  BY <1>2 DEF Receive, Break, Continue, AfterLoop, Recv, RecvDisconnected, RecvCmdComplete, RecvConfirm,
              RecvPasskey, RecvNewLtk, RecvNewIrk, RecvAuthFailed
<1>4. Seen(d) /\ (Seen("ltk")' => Seen("ltk"))
  BY <1>1, <1>2, <1>3, SeenReceive
<1>5. UNCHANGED <<cmdPending, smp, link, kltk, due, verdict, left>>
  BY DEF Recv, RecvDisconnected, RecvCmdComplete, RecvConfirm, RecvPasskey, RecvNewLtk, RecvNewIrk,
         RecvAuthFailed, kernel
<1> QED
  BY <1>2, <1>3, <1>4, <1>5, LoopKeepsKey

\* Between the loop and the verdict.
LEMMA StraightKeepsKey ==
  ASSUME TypeInv, KeyInv, UNCHANGED engine, rpc = "pair", PairDevice \/ Deadline \/ Cancel \/ Disconnect \/ Drain
  PROVE  KeyInv'
<1>1. sock \in Seq(Event) /\ res \in Result
  BY DEF TypeInv, TypeOK, MgmtTypeOK
<1>2. sock' = <<>> => ~Seen("ltk")'
  BY SeenNothing
<1>3. UNCHANGED <<svc, shielded>> /\ rpc' = rpc
  BY DEF engine
<1>4. CASE PairDevice
  <2>1. /\ hpc = "pair" /\ hpc' = "loop" /\ sock' = <<>> /\ res'.ltk = "none" /\ left' = "anything"
        /\ UNCHANGED <<link, kltk, due, verdict>> /\ (smp' = "running" => smp = "running")
    BY <1>4 DEF PairDevice, NoResult
  <2> QED
    BY <1>2, <1>3, <2>1 DEF KeyInv, SocketOpen, Kept, Safe, InTry
<1>5. CASE Deadline
  <2>1. /\ hpc = "loop" /\ hpc' \in {"cancel", "verdict"} /\ sock' = <<>> /\ res'.ltk = res.ltk
        /\ UNCHANGED <<kernel, verdict, left>>
    BY <1>1, <1>5 DEF Deadline, Break, AfterLoop, Result
  <2>2. UNCHANGED <<cmdPending, smp, link, kltk, due, verdict, left>>
    BY <2>1 DEF kernel
  <2> QED
    BY <1>2, <2>1, <2>2, LoopKeepsKey
<1>6. CASE Cancel \/ Disconnect \/ Drain
  <2>1. /\ UNCHANGED <<kltk, due, sock, res, verdict>> /\ SocketOpen
        /\ smp' = "running" => link'
        /\ hpc' \in {"disconnect", "drain", "verdict"}
        /\ hpc' = "disconnect" => ~cmdPending'
    BY <1>6 DEF Cancel, Disconnect, Drain, DropLink, KeyInv, SocketOpen, kernel
  <2>2. (Kept' <=> Kept) /\ (Safe' <=> Safe) /\ (Seen("ltk")' <=> Seen("ltk"))
    BY <1>3, <2>1 DEF Kept, Safe, Seen
  <2>3. Clean => Clean'
    BY <1>6 DEF Cancel, Disconnect, Drain, DropLink, Clean, kernel
  <2>4. (left' = "nothing" => Clean') /\ (left' = "bond" => Safe' \/ Clean')
    <3>1. CASE left' = left
      BY <2>2, <2>3, <3>1 DEF KeyInv
    <3>2. CASE Disconnect /\ left' = "nothing" /\ left' # left
      BY <3>2 DEF Disconnect, DropLink, Clean, KeyInv
    <3> QED
      BY <1>6, <3>1, <3>2 DEF Cancel, Disconnect, Drain
  <2> QED
    BY <1>3, <2>1, <2>2, <2>4 DEF KeyInv, InTry
<1> QED
  BY <1>4, <1>5, <1>6

\* The script outside of the socket.
LEMMA OutsideKeepsKey ==
  ASSUME KeyInv, ~SocketOpen', hpc' # "pair", hpc' # "disconnect",
         smp' = "running" => link', left' = left, Clean => Clean', Safe => Safe' \/ Clean',
         rpc' \in InTry \cup {"mask", "stop"} => verdict' = "none",
         verdict' = "ok" /\ res'.ltk = "peer" /\ shielded' /\ rpc' \in {"unmask", "start", "off"} => kltk' /\ bond'
  PROVE  KeyInv'
BY DEF KeyInv

\* A bluetoothd that is stopped leaves a key or nothing.
LEMMA DaemonDownKeepsKey ==
  ASSUME TypeInv, KeyInv, DaemonDown, hpc = "closed", rpc \in {"mask", "stop"}, rpc' \in {"stop", "power"}
  PROVE  KeyInv'
<1>1. UNCHANGED <<kltk, hpc, verdict, left>> /\ verdict = "none" /\ ~SocketOpen'
  BY DEF DaemonDown, host, KeyInv, InTry, SocketOpen
<1>2. (smp' = "running" => link') /\ (Clean => Clean')
  BY DEF DaemonDown, DropLink, Clean, KeyInv
<1>3. Safe => Safe' \/ Clean'
  BY <1>1 DEF DaemonDown, DropLink, Clean, Safe
<1> QED
  BY <1>1, <1>2, <1>3, OutsideKeepsKey

\* One that comes up has the keys of its files; a run whose mask took sees none in
\* its pairing, and its file has the key afterwards.
LEMMA DaemonUpKeepsKey ==
  ASSUME TypeInv, MaskInv, KeyInv, DaemonUp, UNCHANGED <<bond, shielded>>, ~svc.masked,
         rpc' = rpc \/ (rpc = "start" /\ rpc' = "off")
  PROVE  KeyInv'
<1>1. UNCHANGED <<cmdPending, smp, link, due, sock, res, hpc, verdict, left>>
  BY DEF DaemonUp, host
<1>2. Safe' /\ (Clean' <=> Clean) /\ (Seen("ltk")' <=> Seen("ltk"))
  BY <1>1 DEF DaemonUp, Safe, Clean, Seen, TypeInv, TypeOK
<1>3. kltk /\ bond => kltk'
  BY DEF DaemonUp
<1>4. SocketOpen \/ hpc = "pair" => ~shielded
  BY DEF TypeInv, MaskInv, InTry
<1>5. SocketOpen' \/ hpc' = "pair" => Kept'
  BY <1>1, <1>2, <1>4 DEF SocketOpen, Kept
<1> QED
  BY <1>1, <1>2, <1>3, <1>5 DEF KeyInv, InTry

\* A run that is cut short reports nothing new.
LEMMA AbandonKeepsKey ==
  ASSUME TypeInv, KeyInv, Abandon, UNCHANGED <<svc, bond, shielded>>, rpc' \in {"unmask", "off"},
         rpc \in InTry \cup Outside
  PROVE  KeyInv'
<1>1. /\ hpc' = "closed" /\ UNCHANGED <<cmdPending, smp, link, kltk, verdict, left>>
      /\ res'.ltk = "none" \/ res'.ltk = res.ltk
  BY DEF Abandon, NoResult
<1>2. verdict = "ok" /\ res'.ltk = "peer" /\ shielded => kltk /\ bond
  <2> SUFFICES ASSUME verdict = "ok", res'.ltk = "peer", shielded PROVE kltk /\ bond
    OBVIOUS
  <2>1. rpc \in {"unmask", "start"}
    BY DEF KeyInv, InTry, Outside
  <2>2. res.ltk = "peer"
    BY <1>1
  <2> QED
    BY <2>1, <2>2 DEF KeyInv
<1>3. (smp' = "running" => link') /\ (Clean => Clean') /\ (Safe => Safe') /\ ~SocketOpen'
  BY <1>1 DEF KeyInv, Clean, Safe, SocketOpen
<1> QED
  BY <1>1, <1>2, <1>3, OutsideKeepsKey DEF InTry

LEMMA KeyStep == TypeInv /\ MaskInv /\ KeyInv /\ [Next]_vars => KeyInv'
<1> SUFFICES ASSUME TypeInv, MaskInv, KeyInv, [Next]_vars PROVE KeyInv'
  OBVIOUS
<1>1. rpc \notin {"unpair", "arm", "pair"} => hpc = "closed"
  BY DEF TypeInv, TypeOK, MgmtTypeOK, SocketOpen
<1>3. ASSUME UNCHANGED mgmtVars
      PROVE UNCHANGED <<cmdPending, smp, link, kltk, due, sock, res, hpc, verdict, left>>
  BY <1>3 DEF mgmtVars, kernel, host
<1>4. smp = "running" => link
  BY DEF KeyInv
<1>5. CASE Begin
  <2>1. /\ hpc' = "closed" /\ verdict' = "none"
        /\ UNCHANGED <<cmdPending, smp, link, kltk, left, svc>>
    BY <1>1, <1>5 DEF Begin, kernel
  <2> QED
    BY <1>4, <2>1, OutsideKeepsKey DEF SocketOpen, Clean, Safe
<1>6. CASE (Mask \/ Stop) /\ DaemonDown
  BY <1>1, <1>6, DaemonDownKeepsKey DEF Mask, Stop
<1>7. CASE (Mask \/ Stop \/ SetPowered) /\ UNCHANGED mgmtVars /\ svc'.up = svc.up
  <2>1. /\ hpc' = "closed" /\ verdict' = "none"
        /\ UNCHANGED <<cmdPending, smp, link, kltk, left>>
    BY <1>1, <1>3, <1>7 DEF Mask, Stop, SetPowered, KeyInv, InTry
  <2> QED
    BY <1>4, <1>7, <2>1, OutsideKeepsKey DEF SocketOpen, Clean, Safe
<1>8. CASE ClearBond
  <2>1. /\ hpc' = "unpair" /\ verdict' = "none"
        /\ UNCHANGED <<cmdPending, smp, link, kltk, left, svc>>
    BY <1>8 DEF ClearBond, kernel, KeyInv, InTry
  <2> QED
    BY <1>4, <2>1, OutsideKeepsKey DEF SocketOpen, Clean, Safe
<1>9. CASE Unpair
  <2>1. /\ hpc' = "pair" /\ due' = {} /\ verdict' = "none" /\ rpc' = "arm"
        /\ UNCHANGED <<left, svc>>
    BY <1>9 DEF Unpair, UnpairDevice, KeyInv, InTry
  <2>2. /\ smp' = "running" => link'
        /\ Clean => Clean'
        /\ Safe => Safe' \/ Clean'
    BY <1>4, <1>9, <2>1 DEF Unpair, UnpairDevice, DropLink, Clean, Safe
  <2> QED
    BY <2>1, <2>2 DEF KeyInv, SocketOpen
<1>10. CASE ArmTk
  <2>1. /\ rpc = "arm"
        /\ (rpc' = "pair" /\ hpc' = hpc) \/ (rpc' = "unmask" /\ hpc' = "closed")
        /\ UNCHANGED <<cmdPending, smp, link, kltk, due, sock, res, verdict, left, svc, shielded>>
    BY <1>10 DEF ArmTk, kernel
  <2>2. hpc \in {"closed", "pair"} /\ verdict = "none"
    BY <1>10 DEF ArmTk, TypeInv, TypeOK, MgmtTypeOK, SocketOpen, KeyInv, InTry
  <2> QED
    BY <2>1, <2>2 DEF KeyInv, SocketOpen, Clean, Safe, Kept, InTry
<1>11. CASE PairStep
  BY <1>11, RecvKeepsKey, StraightKeepsKey DEF PairStep
<1>12. CASE ReportAndWrite
  <2>1. /\ rpc = "pair" /\ rpc' = "unmask" /\ hpc = "verdict" /\ hpc' = "closed"
        /\ UNCHANGED <<cmdPending, smp, link, kltk, res, svc, shielded>>
        /\ left' = IF res.ltk = "peer" THEN "bond" ELSE left
    BY <1>12 DEF ReportAndWrite, Report
  <2>2. verdict' = "ok" => bond'
    BY <1>12 DEF ReportAndWrite, Report
  <2>3. res.ltk = "peer" => Kept
    BY <2>1 DEF KeyInv, SocketOpen
  <2>4. (left' = "nothing" => Clean') /\ (left' = "bond" => Safe' \/ Clean')
    BY <2>1, <2>3 DEF KeyInv, Kept, Safe, Clean
  <2> QED
    BY <1>4, <2>1, <2>2, <2>3, <2>4 DEF KeyInv, SocketOpen, Kept, InTry
<1>13. CASE Unmask
  <2>1. /\ rpc = "unmask" /\ rpc' = "start" /\ hpc' = "closed" /\ svc'.up = svc.up
        /\ UNCHANGED <<cmdPending, smp, link, kltk, res, verdict, left, bond, shielded>>
    BY <1>1, <1>3, <1>13 DEF Unmask, TypeInv, TypeOK
  <2>2. verdict = "ok" /\ res.ltk = "peer" /\ shielded => kltk /\ bond
    BY <2>1 DEF KeyInv
  <2> QED
    BY <1>4, <2>1, <2>2, OutsideKeepsKey DEF SocketOpen, Clean, Safe, InTry
<1>14. CASE (StartService \/ Activate) /\ DaemonUp /\ ~svc.masked
  BY <1>14, DaemonUpKeepsKey DEF StartService, Activate
<1>15. CASE StartService /\ UNCHANGED <<svc, mgmtVars>>
  <2>1. /\ rpc = "start" /\ rpc' = "off" /\ hpc' = "closed"
        /\ UNCHANGED <<cmdPending, smp, link, kltk, res, verdict, left, svc, bond, shielded>>
    BY <1>1, <1>3, <1>15 DEF StartService
  <2>2. verdict = "ok" /\ res.ltk = "peer" /\ shielded => kltk /\ bond
    BY <2>1 DEF KeyInv
  <2> QED
    BY <1>4, <2>1, <2>2, OutsideKeepsKey DEF SocketOpen, Clean, Safe, InTry
<1>16. CASE CtrlC \/ Killed
  BY <1>16, AbandonKeepsKey DEF CtrlC, Killed
<1>17. CASE Kernel /\ UNCHANGED engine
  BY <1>17, KernelKeepsKey
<1>18. CASE UNCHANGED vars
  <2>1. UNCHANGED <<cmdPending, smp, link, kltk, due, sock, res, hpc, verdict, left, rpc, svc, bond, shielded>>
    BY <1>3, <1>18 DEF vars, engine
  <2> QED
    BY <2>1 DEF KeyInv, SocketOpen, Clean, Safe, Kept, Seen
<1>19. Mask \/ Stop \/ SetPowered => DaemonDown \/ (UNCHANGED mgmtVars /\ svc'.up = svc.up)
  BY DEF Mask, Stop, SetPowered, TypeInv, TypeOK
<1>20. StartService \/ Activate => (DaemonUp /\ ~svc.masked) \/ UNCHANGED <<svc, mgmtVars>>
  BY DEF StartService, Activate
<1>21. CASE SetPowered
  BY <1>7, <1>21 DEF SetPowered
<1>22. CASE Activate
  BY <1>14, <1>22 DEF Activate
<1> QED
  BY <1>5, <1>6, <1>7, <1>8, <1>9, <1>10, <1>11, <1>12, <1>13, <1>14, <1>15, <1>16, <1>17, <1>18,
     <1>19, <1>20, <1>21, <1>22 DEF Next, Script

\* Pair Device finds no pairing and no connection of a run that came to its end: after
\* a Disconnect that was sent whatever failed since, after a bond once bluetoothd is
\* down and the key out of the kernel.
THEOREM PairingsStartClean == Spec => []StartsClean
<1>1. KeyInv => StartsClean
  BY DEF KeyInv, StartsClean, NothingLeft, Safe, Clean
<1> QED
  BY <1>1, TypeInit, TypeStep, MaskInit, MaskStep, KeyInit, KeyStep, PTL DEF Spec

\* The bond a run reports is in the kernel and in its file, and a bluetoothd that
\* starts afterwards keeps it.
THEOREM BondsOutliveRuns == Spec => []BondOutlivesRun
<1>1. KeyInv => BondOutlivesRun
  BY DEF KeyInv, BondOutlivesRun
<1> QED
  BY <1>1, TypeInit, TypeStep, MaskInit, MaskStep, KeyInit, KeyStep, PTL DEF Spec

-------------------------------------------------------------------------------
(***************************************************************************)
(* What ends the event loop                                                *)
(***************************************************************************)

\* Until a confirmation request is read only an LTK shows that SMP is done, so that a
\* success without one leaves the loop by the deadline.
WaitInv ==
  /\ SocketOpen /\ res.smpSeen /\ ~res.asked => res.ltk # "none"
  /\ hpc \in PastLoop /\ res.status = "success" /\ res.ltk = "none" /\ ~res.asked => byDeadline

LEMMA WaitInit == Init => WaitInv
BY DEF Init, MgmtInit, WaitInv, SocketOpen, PastLoop

\* The script outside of the socket, and what leaves the script at its place.
LEMMA OutsideKeepsWait == ASSUME ~SocketOpen' PROVE WaitInv'
BY DEF WaitInv, SocketOpen, PastLoop

LEMMA HostKeepsWait == ASSUME WaitInv, UNCHANGED host PROVE WaitInv'
BY DEF WaitInv, host, SocketOpen, PastLoop

\* A step of the event loop.
LEMMA RecvKeepsWait ==
  ASSUME TypeInv, WaitInv, Recv
  PROVE  WaitInv'
<1>1. res \in Result
  BY DEF TypeInv, TypeOK, MgmtTypeOK
<1>2. hpc = "loop" /\ (res.smpSeen /\ ~res.asked => res.ltk # "none")
  BY DEF WaitInv, SocketOpen, Recv, Receive, RecvDisconnected, RecvCmdComplete, RecvConfirm, RecvPasskey,
         RecvNewLtk, RecvNewIrk, RecvAuthFailed
<1>3. ASSUME res'.smpSeen /\ ~res'.asked => res'.ltk # "none",
             hpc' = "loop" \/ (res'.status = "success" /\ ~res'.asked => res'.ltk # "none")
      PROVE  WaitInv'
  BY <1>3 DEF WaitInv, PastLoop
<1>4. CASE RecvDisconnected \/ RecvPasskey
  BY <1>2, <1>3, <1>4 DEF RecvDisconnected, RecvPasskey, Continue
<1>5. CASE RecvCmdComplete
  <2>1. CASE Receive("cc_ok") /\ ~res.smpSeen
    BY <1>1, <1>2, <1>3, <1>5, <2>1 DEF RecvCmdComplete, Break, Continue, Result
  <2>2. CASE res.smpSeen
    BY <1>1, <1>2, <1>3, <1>5, <2>2 DEF RecvCmdComplete, Break, Continue, Result
  <2>3. CASE Receive("cc_fail")
    BY <1>1, <1>2, <1>3, <1>5, <2>3 DEF RecvCmdComplete, Receive, Break, Continue, Result
  <2> QED
    BY <1>5, <2>1, <2>2, <2>3 DEF RecvCmdComplete
<1>6. CASE RecvConfirm
  BY <1>1, <1>2, <1>3, <1>6 DEF RecvConfirm, Continue, Result
<1>7. CASE RecvNewLtk
  BY <1>1, <1>2, <1>3, <1>7 DEF RecvNewLtk, Continue, Result
<1>8. CASE RecvNewIrk
  BY <1>1, <1>2, <1>3, <1>8 DEF RecvNewIrk, Break, Continue, Result
<1>9. CASE RecvAuthFailed
  BY <1>1, <1>2, <1>3, <1>9 DEF RecvAuthFailed, Break, Result
<1> QED
  BY <1>4, <1>5, <1>6, <1>7, <1>8, <1>9 DEF Recv

LEMMA StraightKeepsWait ==
  ASSUME TypeInv, WaitInv, PairDevice \/ Deadline \/ Cancel \/ Disconnect \/ Drain
  PROVE  WaitInv'
<1>1. CASE PairDevice
  BY <1>1 DEF PairDevice, WaitInv, NoResult, PastLoop
<1>2. CASE Deadline
  <2>1. /\ byDeadline' = TRUE /\ hpc = "loop"
        /\ res'.smpSeen = res.smpSeen /\ res'.asked = res.asked /\ res'.ltk = res.ltk
    BY <1>2 DEF Deadline, Break, TypeInv, TypeOK, MgmtTypeOK, Result
  <2> QED
    BY <2>1 DEF WaitInv, SocketOpen
<1>3. CASE Cancel \/ Disconnect \/ Drain
  <2>1. hpc \in PastLoop /\ UNCHANGED <<res, byDeadline>>
    BY <1>3 DEF Cancel, Disconnect, Drain, PastLoop
  <2> QED
    BY <2>1 DEF WaitInv, SocketOpen, PastLoop
<1> QED
  BY <1>1, <1>2, <1>3

LEMMA WaitStep == TypeInv /\ TypeInv' /\ WaitInv /\ [Next]_vars => WaitInv'
<1> SUFFICES ASSUME TypeInv, TypeInv', WaitInv, [Next]_vars PROVE WaitInv'
  OBVIOUS
<1>1. CASE Begin \/ ClearBond \/ Unpair \/ ArmTk \/ ReportAndWrite \/ CtrlC \/ Killed
  <2>1. ~SocketOpen'
    BY <1>1 DEF Begin, ClearBond, Unpair, UnpairDevice, ArmTk, ReportAndWrite, Report, CtrlC, Killed,
                Abandon, TypeInv, SocketOpen
  <2> QED
    BY <2>1, OutsideKeepsWait
<1>2. CASE Mask \/ Stop \/ StartService \/ Activate
  BY <1>2, HostKeepsWait DEF Mask, Stop, StartService, Activate, DaemonDown, DaemonUp, mgmtVars
<1>3. CASE SetPowered \/ Unmask \/ UNCHANGED vars
  BY <1>3, HostKeepsWait DEF SetPowered, Unmask, vars, mgmtVars
<1>4. CASE PairStep
  BY <1>4, RecvKeepsWait, StraightKeepsWait DEF PairStep
<1>5. CASE Kernel
  BY <1>5, HostKeepsWait DEF Kernel, KConnect, KConnectFails, KAsk, KComplete, KBond, KFail, KDrop,
                             ForeignPairs, KNotify
<1> QED
  BY <1>1, <1>2, <1>3, <1>4, <1>5 DEF Next, Script

\* As long as no confirmation request has been read, neither the peer's nor another
\* device's, the event loop does not end early with a success and no LTK.
THEOREM SuccessWaits == Spec => []UnaskedSuccessWaitsForLtk
<1>1. WaitInv => UnaskedSuccessWaitsForLtk
  BY DEF WaitInv, UnaskedSuccessWaitsForLtk, SuccessWaitsForLtk
<1> QED
  BY <1>1, TypeInit, TypeStep, WaitInit, WaitStep, PTL DEF Spec

-------------------------------------------------------------------------------
(***************************************************************************)
(* Pair Device is answered once                                            *)
(***************************************************************************)

\* A success is in the buffer at most once, and then neither still to come nor
\* already read: the event loop never takes a second one, with SMP seen by then,
\* for the end of the pairing.
AnsweredOnce ==
  /\ \A i, j \in 1..Len(sock) : sock[i] = "cc_ok" /\ sock[j] = "cc_ok" => i = j
  /\ Seen("cc_ok") => ~cmdPending /\ ~pairDone
  /\ pairDone => ~cmdPending
AnswerInv == (hpc = "loop" => AnsweredOnce) /\ IrkIsWaitedFor

LEMMA AnswerInit == Init => AnswerInv
BY DEF Init, MgmtInit, AnswerInv, IrkIsWaitedFor

\* Outside of the event loop, on the way to it and in the script around it.
LEMMA OutsideKeepsAnswer ==
  ASSUME hpc' # "loop", ~pairDone' \/ hpc' \notin PastLoop
  PROVE  AnswerInv'
BY DEF AnswerInv, IrkIsWaitedFor

\* Past the loop the result is final.
LEMMA PastKeepsAnswer ==
  ASSUME AnswerInv, hpc # "loop", hpc' # "loop", UNCHANGED <<res, pairDone, byDeadline>>,
         hpc' \in PastLoop => hpc \in PastLoop
  PROVE  AnswerInv'
BY DEF AnswerInv, IrkIsWaitedFor

\* An event that is not a success changes nothing of the answer.
LEMMA EmitKeepsAnswer ==
  ASSUME sock \in Seq(Event), AnswerInv, UNCHANGED host, cmdPending' => cmdPending,
         NEW es \in Seq(Event), Emit(es), \A i \in 1..Len(es) : es[i] # "cc_ok"
  PROVE  AnswerInv'
<1>1. CASE hpc = "loop"
  <2>1. sock' = sock \o es
    BY <1>1 DEF Emit
  <2>2. /\ Len(sock') = Len(sock) + Len(es) /\ Len(sock) \in Nat /\ Len(es) \in Nat
        /\ \A i \in 1..Len(sock') :
             sock'[i] = IF i <= Len(sock) THEN sock[i] ELSE es[i - Len(sock)]
    BY <2>1
  <2>3. \A i \in 1..Len(sock') : sock'[i] = "cc_ok" => i \in 1..Len(sock) /\ sock[i] = "cc_ok"
    <3> SUFFICES ASSUME NEW i \in 1..Len(sock'), sock'[i] = "cc_ok", ~(i <= Len(sock)) PROVE FALSE
      BY <2>2
    <3>1. i - Len(sock) \in 1..Len(es)
      BY <2>2
    <3> QED
      BY <2>2, <3>1
  <2>4. AnsweredOnce'
    BY <1>1, <2>3 DEF AnswerInv, AnsweredOnce, Seen, host
  <2> QED
    BY <2>4 DEF AnswerInv, IrkIsWaitedFor, host
<1>2. CASE hpc # "loop"
  BY <1>2, PastKeepsAnswer DEF host
<1> QED
  BY <1>1, <1>2

LEMMA KernelKeepsAnswer ==
  ASSUME TypeInv, AnswerInv, Kernel
  PROVE  AnswerInv'
<1>1. sock \in Seq(Event) /\ due \subseteq {"ltk", "irk"} /\ cmdPending \in BOOLEAN
  BY DEF TypeInv, TypeOK, MgmtTypeOK
<1>2. UNCHANGED host /\ (cmdPending' => cmdPending)
  <2>1. UNCHANGED host
    BY DEF Kernel, KConnect, KConnectFails, KAsk, KComplete, KBond, KFail, KDrop, ForeignPairs, KNotify
  <2>2. cmdPending' = cmdPending \/ cmdPending' = FALSE
    BY DEF Kernel, KConnect, KConnectFails, KAsk, KComplete, KBond, KFail, KDrop, ForeignPairs, KNotify, kernel
  <2>3. cmdPending' => cmdPending
    BY <2>2
  <2> QED
    BY <2>1, <2>3
<1>3. {"cc_fail", "cc_ok", "confirm", "passkey", "auth_failed", "disconnected", "ltk", "irk"} \cup ForeignEvent \subseteq Event
  BY DEF Event
<1>4. ASSUME NEW d \in Event \ {"cc_ok"}, Emit(<<d>>) PROVE AnswerInv'
  <2>1. <<d>> \in Seq(Event) /\ \A i \in 1..Len(<<d>>) : <<d>>[i] # "cc_ok"
    BY <1>4
  <2> QED
    BY <1>1, <1>2, <1>4, <2>1, EmitKeepsAnswer
<1>5. CASE UNCHANGED sock
  <2>1. hpc = "loop" => AnsweredOnce'
    BY <1>2, <1>5 DEF AnswerInv, AnsweredOnce, Seen, host
  <2> QED
    BY <1>2, <2>1 DEF AnswerInv, IrkIsWaitedFor, host
<1>6. CASE KConnect \/ KBond
  BY <1>5, <1>6 DEF KConnect, KBond
<1>7. CASE KConnectFails \/ KAsk \/ KFail \/ ForeignPairs
  BY <1>3, <1>4, <1>7 DEF KConnectFails, KAsk, KFail, ForeignPairs, ForeignEvent
<1>8. CASE KComplete
  <2>1. cmdPending /\ ~cmdPending' /\ Emit(<<"cc_ok">>)
    BY <1>8 DEF KComplete
  <2>2. CASE hpc = "loop"
    <3>1. sock' = Append(sock, "cc_ok") /\ ~Seen("cc_ok") /\ ~pairDone /\ ~pairDone'
      BY <1>1, <1>2, <2>1, <2>2 DEF Emit, AnswerInv, AnsweredOnce, host
    <3>2. \A i \in 1..Len(sock') : sock'[i] = "cc_ok" => i = Len(sock')
      BY <1>1, <3>1 DEF Seen
    <3>3. AnsweredOnce'
      BY <2>1, <3>1, <3>2 DEF AnsweredOnce
    <3> QED
      BY <1>2, <2>2, <3>3 DEF AnswerInv, IrkIsWaitedFor, PastLoop, host
  <2>3. CASE hpc # "loop"
    BY <1>2, <2>3, PastKeepsAnswer DEF host
  <2> QED
    BY <2>2, <2>3
<1>9. CASE KDrop
  <2>1. CASE cmdPending
    <3>1. /\ <<"disconnected", "cc_fail">> \in Seq(Event)
          /\ \A i \in 1..Len(<<"disconnected", "cc_fail">>) : <<"disconnected", "cc_fail">>[i] # "cc_ok"
      BY <1>3
    <3>2. Emit(<<"disconnected", "cc_fail">>)
      BY <1>9, <2>1 DEF KDrop
    <3> QED
      BY <1>1, <1>2, <3>1, <3>2, EmitKeepsAnswer
  <2>2. CASE ~cmdPending
    BY <1>3, <1>4, <1>9, <2>2 DEF KDrop
  <2> QED
    BY <2>1, <2>2
<1>10. ASSUME NEW e \in due, KNotify(e) PROVE AnswerInv'
  BY <1>1, <1>3, <1>4, <1>10 DEF KNotify
<1> QED
  BY <1>6, <1>7, <1>8, <1>9, <1>10 DEF Kernel

\* Taking an event that is not a success, and taking the one that is.
LEMMA ReceiveKeepsAnswer ==
  ASSUME sock \in Seq(Event), AnswerInv, NEW d, Receive(d), sock' = Tail(sock), UNCHANGED cmdPending,
         d # "cc_ok" => pairDone' = pairDone
  PROVE  AnsweredOnce'
<1>1. /\ sock # <<>> /\ sock[1] = d /\ hpc = "loop" /\ Len(sock) \in Nat /\ Len(sock) > 0
      /\ Len(sock') = Len(sock) - 1
      /\ \A i \in 1..Len(sock') : i + 1 \in 1..Len(sock) /\ sock'[i] = sock[i + 1]
  BY DEF Receive
<1>2. AnsweredOnce
  BY <1>1 DEF AnswerInv
<1>3. ASSUME NEW i \in 1..Len(sock'), NEW j \in 1..Len(sock'), sock'[i] = "cc_ok", sock'[j] = "cc_ok"
      PROVE  i = j
  <2>1. i + 1 = j + 1
    BY <1>1, <1>2, <1>3 DEF AnsweredOnce
  <2> QED
    BY <1>1, <2>1
<1>4. CASE d # "cc_ok"
  <2>1. Seen("cc_ok")' => Seen("cc_ok")
    BY SeenReceive
  <2> QED
    BY <1>2, <1>3, <1>4, <2>1 DEF AnsweredOnce
<1>5. CASE d = "cc_ok"
  <2>1. Seen("cc_ok") /\ ~cmdPending
    BY <1>2, <1>5, SeenReceive DEF AnsweredOnce
  <2>2. ~Seen("cc_ok")'
    <3> SUFFICES ASSUME NEW i \in 1..Len(sock'), sock'[i] = "cc_ok" PROVE FALSE
      BY DEF Seen
    <3>1. i + 1 = 1
      BY <1>1, <1>2, <1>5 DEF AnsweredOnce
    <3> QED
      BY <1>1, <3>1
  <2> QED
    BY <1>3, <2>1, <2>2 DEF AnsweredOnce
<1> QED
  BY <1>4, <1>5

LEMMA RecvKeepsAnswer ==
  ASSUME TypeInv, AnswerInv, Recv
  PROVE  AnswerInv'
<1>1. sock \in Seq(Event) /\ res \in Result
  BY DEF TypeInv, TypeOK, MgmtTypeOK
<1>2. PICK d : Receive(d) /\ UNCHANGED cmdPending /\ (d # "cc_ok" => pairDone' = pairDone)
  BY DEF Recv, RecvDisconnected, RecvCmdComplete, RecvConfirm, RecvPasskey, RecvNewLtk, RecvNewIrk,
         RecvAuthFailed, host, kernel
<1>3. hpc = "loop" /\ sock # <<>> /\ Seen(d)
  BY <1>1, <1>2 DEF Receive, Seen
<1>4. CASE hpc' = "loop"
  <2>1. sock' = Tail(sock)
    BY <1>4 DEF Recv, RecvDisconnected, RecvCmdComplete, RecvConfirm, RecvPasskey, RecvNewLtk, RecvNewIrk,
                RecvAuthFailed, Break, Continue, AfterLoop
  <2>2. AnsweredOnce'
    BY <1>1, <1>2, <2>1, ReceiveKeepsAnswer
  <2> QED
    BY <1>4, <2>2 DEF AnswerInv, IrkIsWaitedFor, PastLoop
<1>5. ASSUME pairDone', res'.status = "success", hpc' # "loop" PROVE res'.irk
  <2>1. CASE RecvDisconnected \/ RecvPasskey \/ RecvConfirm \/ RecvNewLtk
    BY <1>3, <1>5, <2>1 DEF RecvDisconnected, RecvPasskey, RecvConfirm, RecvNewLtk, Continue, host
  <2>2. CASE RecvCmdComplete
    <3>1. CASE Receive("cc_fail") /\ Break([res EXCEPT !.status = "failed"])
      BY <1>1, <1>5, <3>1 DEF Break, Result
    <3>2. CASE Receive("cc_ok") /\ UNCHANGED pairDone
      <4>1. Seen("cc_ok")
        BY <1>1, <3>2 DEF Receive, Seen
      <4> QED
        BY <1>3, <1>5, <3>2, <4>1 DEF AnswerInv, AnsweredOnce
    <3>3. CASE Continue([res EXCEPT !.status = "success"])
      BY <1>3, <1>5, <3>3 DEF Continue
    <3> QED
      BY <2>2, <3>1, <3>2, <3>3 DEF RecvCmdComplete
  <2>3. CASE RecvNewIrk
    BY <1>1, <1>3, <1>5, <2>3 DEF RecvNewIrk, Break, Continue, Result
  <2>4. CASE RecvAuthFailed
    BY <1>1, <1>5, <2>4 DEF RecvAuthFailed, Break, Result
  <2> QED
    BY <2>1, <2>2, <2>3, <2>4 DEF Recv
<1>6. CASE hpc' # "loop"
  BY <1>5, <1>6 DEF AnswerInv, IrkIsWaitedFor
<1> QED
  BY <1>4, <1>6

LEMMA StraightKeepsAnswer ==
  ASSUME TypeInv, AnswerInv, PairDevice \/ Deadline \/ Cancel \/ Disconnect \/ Drain
  PROVE  AnswerInv'
<1>1. CASE PairDevice
  <2>1. sock' = <<>> /\ hpc' = "loop" /\ ~pairDone'
    BY <1>1 DEF PairDevice, TypeInv, SocketOpen
  <2>2. AnsweredOnce'
    BY <2>1, SeenNothing DEF AnsweredOnce
  <2> QED
    BY <2>1, <2>2 DEF AnswerInv, IrkIsWaitedFor, PastLoop
<1>2. CASE Deadline
  BY <1>2 DEF Deadline, Break, AfterLoop, AnswerInv, IrkIsWaitedFor
<1>3. CASE Cancel \/ Disconnect \/ Drain
  BY <1>3, PastKeepsAnswer DEF Cancel, Disconnect, Drain, PastLoop
<1> QED
  BY <1>1, <1>2, <1>3

LEMMA AnswerStep == TypeInv /\ TypeInv' /\ AnswerInv /\ [Next]_vars => AnswerInv'
<1> SUFFICES ASSUME TypeInv, TypeInv', AnswerInv, [Next]_vars PROVE AnswerInv'
  OBVIOUS
<1>1. CASE Begin \/ ClearBond \/ Unpair \/ ArmTk \/ ReportAndWrite \/ CtrlC \/ Killed
  <2>1. ~SocketOpen'
    BY <1>1 DEF Begin, ClearBond, Unpair, UnpairDevice, ArmTk, ReportAndWrite, Report, CtrlC, Killed,
                Abandon, TypeInv, SocketOpen
  <2>2. hpc' # "loop" /\ ~pairDone'
    BY <2>1 DEF TypeInv, SocketOpen
  <2> QED
    BY <2>2, OutsideKeepsAnswer
<1>2. ASSUME UNCHANGED <<sock, host>>, cmdPending' => cmdPending PROVE AnswerInv'
  BY <1>2 DEF AnswerInv, AnsweredOnce, IrkIsWaitedFor, Seen, host
<1>3. CASE Mask \/ Stop \/ StartService \/ Activate
  BY <1>2, <1>3 DEF Mask, Stop, StartService, Activate, DaemonDown, DaemonUp, mgmtVars, kernel
<1>4. CASE SetPowered \/ Unmask \/ UNCHANGED vars
  BY <1>2, <1>4 DEF SetPowered, Unmask, vars, mgmtVars, kernel
<1>5. CASE PairStep
  BY <1>5, RecvKeepsAnswer, StraightKeepsAnswer DEF PairStep
<1>6. CASE Kernel
  BY <1>6, KernelKeepsAnswer
<1> QED
  BY <1>1, <1>3, <1>4, <1>5, <1>6 DEF Next, Script

\* When Pair Device has reported success before the LTK came, the event loop does
\* not end with that success until the IRK is there or time is up.
THEOREM IrkWaits == Spec => []IrkIsWaitedFor
<1>1. AnswerInv => IrkIsWaitedFor
  BY DEF AnswerInv
<1> QED
  BY <1>1, TypeInit, TypeStep, AnswerInit, AnswerStep, PTL DEF Spec
================================================================================
