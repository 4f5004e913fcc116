------------------------------ MODULE MgmtPair ------------------------------
(***************************************************************************)
(* The raw management-socket pairing of test/tk-pair.py and                *)
(* test/optionA-pair.py: mgmt_pair_device() of lib/mkbd_common.py, with    *)
(* the Unpair Device its callers send before it and the verdict they come  *)
(* to after it.  RawMgmtEngine has the scripts around it, and the          *)
(* next-state relation.                                                    *)
(*                                                                         *)
(* The kernel is outside the repository.  It is modelled from what         *)
(* mgmt_pair_device() says of it: the events of a pairing come in no fixed *)
(* order, in particular Command Complete may report success before the SMP *)
(* exchange is over, and neither the pairing nor the connection ends when  *)
(* the socket is closed.  The socket carries the events of every device of *)
(* the controller, and the event loop compares no address.                 *)
(***************************************************************************)
EXTENDS Naturals, Sequences

CONSTANTS
  PeerKinds,   \* subset of {"oob", "just_works", "passkey"}: how the peer pairs
  MaxForeign   \* bound: events of other devices seen on the socket

ASSUME KindAssumption  == PeerKinds \subseteq {"oob", "just_works", "passkey"}
ASSUME BoundAssumption == MaxForeign \in Nat

VARIABLES
  peer,        \* the device: how it pairs
  cmdPending,  \* kernel: Pair Device has not been answered
  smp,         \* kernel: the SMP exchange with the peer
  ask,         \* kernel: the user interaction it waits for
  link,        \* kernel: the LE connection is up
  kltk,        \* kernel: it holds an LTK for the peer
  due,         \* kernel: key events of a finished exchange that a socket may yet see
  sock,        \* events in the receive buffer of the socket
  hpc,         \* where the script is
  res,         \* mgmt_pair_device(): its result so far
  pairDone,    \* mgmt_pair_device(): pair_cmd_done
  byDeadline,  \* ghost: the event loop ended because time was up
  verdict,     \* what the script reports
  left,        \* ghost: what the last run that sent Pair Device left in the kernel
  foreign      \* bound counter

kernel == <<peer, cmdPending, smp, ask, link, kltk, due>>
host   == <<hpc, res, pairDone, byDeadline, verdict, left>>
mgmtVars == <<kernel, sock, host, foreign>>

ForeignEvent == {"foreign_confirm", "foreign_ltk", "foreign_irk", "foreign_auth_failed"}
Event  == {"disconnected", "cc_ok", "cc_fail", "confirm", "passkey",
           "ltk", "irk", "auth_failed"} \cup ForeignEvent
Status == {"none", "success", "failed", "auth_failed", "timeout"}
\* asked (ghost): a confirmation request has been read.
Result == [status : Status, ltk : {"none", "peer", "foreign"}, irk : BOOLEAN, smpSeen : BOOLEAN, asked : BOOLEAN]
NoResult == [status |-> "none", ltk |-> "none", irk |-> FALSE, smpSeen |-> FALSE, asked |-> FALSE]

MgmtInit ==
  /\ peer \in PeerKinds
  /\ cmdPending = FALSE /\ smp = "none" /\ ask = "none"
  /\ link = FALSE /\ kltk = FALSE /\ due = {}
  /\ sock = <<>>
  /\ hpc = "closed" /\ res = NoResult /\ pairDone = FALSE /\ byDeadline = FALSE
  /\ verdict = "none" /\ left = "nothing" /\ foreign = 0

\* A management event reaches the script only while its socket is open; after the
\* event loop what arrives is read and thrown away, so that none is kept then.
SocketOpen == hpc \in {"loop", "cancel", "disconnect", "drain", "verdict"}
Emit(es) == sock' = IF hpc = "loop" THEN sock \o es ELSE sock

-----------------------------------------------------------------------------
(***************************************************************************)
(* The kernel and the peer                                                 *)
(***************************************************************************)

\* Pair Device connects, unless the link is up already, and SMP starts.  The
\* script only prints that it was told of a connection: the event is left out.
KConnect ==
  /\ cmdPending /\ ~kltk /\ smp # "running"
  /\ link' = TRUE /\ smp' = "running"
  /\ UNCHANGED <<peer, cmdPending, ask, kltk, due, sock, host, foreign>>

\* There is no connection, or Pair Device is refused: the kernel has a key for
\* the peer (Already Paired), or the exchange of an earlier run is still on.
KConnectFails ==
  /\ cmdPending /\ smp # "bonded"
  /\ cmdPending' = FALSE
  /\ Emit(<<"cc_fail">>)
  /\ UNCHANGED <<peer, smp, ask, link, kltk, due, host, foreign>>

KAsk ==
  /\ smp = "running" /\ ask = "none"
  /\ \/ peer = "just_works" /\ ask' = "confirm" /\ Emit(<<"confirm">>)
     \/ peer = "passkey" /\ ask' = "passkey" /\ Emit(<<"passkey">>)
  /\ UNCHANGED <<peer, cmdPending, smp, link, kltk, due, host, foreign>>

\* Success is reported when the exchange is over or some time before.
KComplete ==
  /\ cmdPending /\ smp \in {"running", "bonded"}
  /\ cmdPending' = FALSE
  /\ Emit(<<"cc_ok">>)
  /\ UNCHANGED <<peer, smp, ask, link, kltk, due, host, foreign>>

\* The peer may distribute an IRK too.
KBond ==
  /\ smp = "running"
  /\ peer = "oob" \/ ask = "answered"
  /\ smp' = "bonded" /\ kltk' = TRUE
  /\ due' \in {{"ltk"}, {"ltk", "irk"}}
  /\ ask' = "none"
  /\ UNCHANGED <<peer, cmdPending, link, sock, host, foreign>>

KNotify(e) ==
  /\ due' = due \ {e}
  /\ Emit(<<e>>)
  /\ UNCHANGED <<peer, cmdPending, smp, ask, link, kltk, host, foreign>>

\* A failed exchange answers the command, or is an Authentication Failed event
\* when the command has been answered already.
KFail ==
  /\ smp = "running"
  /\ smp' = "failed" /\ ask' = "none" /\ cmdPending' = FALSE
  /\ Emit(IF cmdPending THEN <<"cc_fail">> ELSE <<"auth_failed">>)
  /\ UNCHANGED <<peer, link, kltk, due, host, foreign>>

\* The link goes down, and an exchange still running with it.
DropLink ==
  /\ link' = FALSE /\ ask' = "none"
  /\ smp' = IF smp = "running" THEN "failed" ELSE smp
KDrop ==
  /\ link
  /\ DropLink
  /\ cmdPending' = FALSE
  /\ Emit(IF cmdPending THEN <<"disconnected", "cc_fail">> ELSE <<"disconnected">>)
  /\ UNCHANGED <<peer, kltk, due, host, foreign>>

\* Another device of the controller pairs.  Its passkey request is refused in
\* its own name and its Disconnected is only printed: both are left out.
ForeignPairs ==
  /\ foreign < MaxForeign /\ hpc = "loop"
  /\ foreign' = foreign + 1
  /\ \E e \in ForeignEvent : Emit(<<e>>)
  /\ UNCHANGED <<kernel, host>>

-----------------------------------------------------------------------------
(***************************************************************************)
(* The script                                                              *)
(***************************************************************************)

\* MGMT Unpair Device with the disconnect flag.  A link that goes down takes Pair
\* Device with it.  Every failure, no answer in two seconds among them, counts as
\* "no existing kernel bond", and the script goes on with the key where it was.
\* What the kernel had to say of the last run it has said by then, to nobody.
UnpairDevice ==
  /\ hpc = "unpair"
  /\ hpc' = "pair"
  /\ due' = {}
  /\ \/ kltk /\ kltk' = FALSE /\ DropLink /\ cmdPending' = FALSE
     \/ UNCHANGED <<cmdPending, smp, ask, link, kltk>>
  /\ UNCHANGED <<peer, sock, res, pairDone, byDeadline, verdict, left, foreign>>

\* A Command Status that refuses the command counts as KConnectFails, any other
\* is ignored.  An exchange an earlier run left running goes on.
PairDevice ==
  /\ hpc = "pair"
  /\ hpc' = "loop"
  /\ cmdPending' = TRUE
  /\ IF smp = "running" THEN UNCHANGED <<smp, ask>> ELSE smp' = "none" /\ ask' = "none"
  /\ sock' = <<>>
  /\ res' = NoResult /\ left' = "anything"
  /\ UNCHANGED <<peer, link, kltk, due, pairDone, byDeadline, verdict, foreign>>

\* After the loop: without an LTK the pairing is cancelled and the link dropped.
AfterLoop(r) == IF r.ltk = "none" THEN "cancel" ELSE "verdict"

Break(r) == res' = r /\ hpc' = AfterLoop(r) /\ sock' = <<>>
Continue(r) == res' = r /\ sock' = Tail(sock) /\ UNCHANGED hpc

Receive(e) == hpc = "loop" /\ sock # <<>> /\ Head(sock) = e

\* Disconnected does not end the loop.
RecvDisconnected ==
  /\ Receive("disconnected") /\ Continue(res)
  /\ UNCHANGED <<kernel, pairDone, byDeadline, verdict, left, foreign>>

\* Planted error: success ends the loop whether or not SMP has been seen.
RecvCmdCompleteEager ==
  /\ \E e \in {"cc_ok", "cc_fail"} :
       Receive(e) /\ Break([res EXCEPT !.status = IF e = "cc_ok" THEN "success" ELSE "failed"])
  /\ UNCHANGED <<kernel, pairDone, byDeadline, verdict, left, foreign>>
RecvCmdComplete ==
  /\ \/ Receive("cc_fail") /\ Break([res EXCEPT !.status = "failed"]) /\ UNCHANGED pairDone
     \/ /\ Receive("cc_ok") /\ res.smpSeen
        /\ Break([res EXCEPT !.status = "success"])
        /\ UNCHANGED pairDone
     \/ /\ Receive("cc_ok") /\ ~res.smpSeen
        /\ Continue([res EXCEPT !.status = "success"])
        /\ pairDone' = TRUE
  /\ UNCHANGED <<kernel, byDeadline, verdict, left, foreign>>

\* A confirmation is accepted, in the name of the device that asks for it, and
\* is SMP seen, whoever asks.  A passkey is refused.
RecvConfirm ==
  /\ \/ Receive("confirm") /\ ask' = IF ask = "confirm" /\ smp = "running" THEN "answered" ELSE ask
     \/ Receive("foreign_confirm") /\ UNCHANGED ask
  /\ Continue([res EXCEPT !.smpSeen = TRUE, !.asked = TRUE])
  /\ UNCHANGED <<peer, cmdPending, smp, link, kltk, due, pairDone, byDeadline, verdict, left, foreign>>

RecvPasskey ==
  /\ Receive("passkey") /\ Continue(res)
  /\ ask' = IF ask = "passkey" /\ smp = "running" THEN "refused" ELSE ask
  /\ UNCHANGED <<peer, cmdPending, smp, link, kltk, due, pairDone, byDeadline, verdict, left, foreign>>

\* Any New LTK event is taken.  The grace period it starts when Pair Device has
\* completed only shortens the time left, which Deadline below does not measure.
\* Planted error: the loop ends with the LTK, without the grace period.
RecvNewLtkNoGrace ==
  /\ \E e \in {"ltk", "foreign_ltk"} :
       /\ Receive(e)
       /\ LET r == [res EXCEPT !.smpSeen = TRUE, !.ltk = IF e = "ltk" THEN "peer" ELSE "foreign"]
          IN  IF pairDone THEN Break(r) ELSE Continue(r)
  /\ UNCHANGED <<kernel, pairDone, byDeadline, verdict, left, foreign>>
RecvNewLtk ==
  /\ \E e \in {"ltk", "foreign_ltk"} :
       /\ Receive(e)
       /\ Continue([res EXCEPT !.smpSeen = TRUE, !.ltk = IF e = "ltk" THEN "peer" ELSE "foreign"])
  /\ UNCHANGED <<kernel, pairDone, byDeadline, verdict, left, foreign>>

RecvNewIrk ==
  /\ Receive("irk") \/ Receive("foreign_irk")
  /\ LET r == [res EXCEPT !.irk = TRUE]
     IN  IF pairDone /\ r.ltk # "none" THEN Break(r) ELSE Continue(r)
  /\ UNCHANGED <<kernel, pairDone, byDeadline, verdict, left, foreign>>

RecvAuthFailed ==
  /\ Receive("auth_failed") \/ Receive("foreign_auth_failed")
  /\ Break([res EXCEPT !.status = "auth_failed"])
  /\ UNCHANGED <<kernel, pairDone, byDeadline, verdict, left, foreign>>

\* Planted error: once Pair Device has completed only the LTK ends the loop.
DeadlineWaitsForLtk ==
  /\ hpc = "loop" /\ (pairDone => res.ltk # "none")
  /\ Break([res EXCEPT !.status = IF @ = "none" THEN "timeout" ELSE @])
  /\ byDeadline' = TRUE
  /\ UNCHANGED <<kernel, pairDone, verdict, left, foreign>>
\* Planted error: running out of time is not noted in the result.
DeadlineNoStatus ==
  /\ hpc = "loop"
  /\ Break(res)
  /\ byDeadline' = TRUE
  /\ UNCHANGED <<kernel, pairDone, verdict, left, foreign>>
\* The deadline may find events that are not yet read.
Deadline ==
  /\ hpc = "loop"
  /\ Break([res EXCEPT !.status = IF @ = "none" THEN "timeout" ELSE @])
  /\ byDeadline' = TRUE
  /\ UNCHANGED <<kernel, pairDone, verdict, left, foreign>>

\* Planted error: only Disconnect is sent.
CancelSkipped ==
  /\ hpc = "cancel" /\ hpc' = "disconnect"
  /\ UNCHANGED <<kernel, sock, res, pairDone, byDeadline, verdict, left, foreign>>
\* Cancel Pair Device is refused when the command has been answered; it then
\* leaves the exchange alone.  A send that fails ends the attempt.
Cancel ==
  /\ hpc = "cancel"
  /\ \/ /\ hpc' = "disconnect"
        /\ IF cmdPending
           THEN DropLink /\ cmdPending' = FALSE
           ELSE UNCHANGED <<cmdPending, link, smp, ask>>
     \/ hpc' = "drain" /\ UNCHANGED <<cmdPending, link, smp, ask>>
  /\ UNCHANGED <<peer, kltk, due, sock, res, pairDone, byDeadline, verdict, left, foreign>>

\* A Disconnect that is sent ends what the run has left in the kernel, but for a key.
Disconnect ==
  /\ hpc = "disconnect"
  /\ hpc' = "drain"
  /\ \/ /\ left' = "nothing"
        /\ IF link
           THEN DropLink /\ cmdPending' = FALSE
           ELSE UNCHANGED <<cmdPending, link, smp, ask>>
     \/ UNCHANGED <<left, cmdPending, link, smp, ask>>
  /\ UNCHANGED <<peer, kltk, due, sock, res, pairDone, byDeadline, verdict, foreign>>

\* For up to a second what arrives is read and thrown away.
Drain ==
  /\ hpc = "drain"
  /\ hpc' = "verdict"
  /\ UNCHANGED <<kernel, sock, res, pairDone, byDeadline, verdict, left, foreign>>

\* The bond file is written only for a success with an LTK.
IsSuccess(r) == r.status = "success" /\ r.ltk # "none"
Report ==
  /\ hpc = "verdict"
  /\ hpc' = "closed" /\ UNCHANGED sock
  /\ verdict' = IF IsSuccess(res) THEN "ok" ELSE "fail"
  /\ left' = IF res.ltk = "peer" THEN "bond" ELSE left
  /\ pairDone' = FALSE /\ byDeadline' = FALSE /\ due' = {}
  /\ UNCHANGED <<peer, cmdPending, smp, ask, link, kltk, res, foreign>>

\* The script leaves in the middle; a result not yet returned is lost.
Abandon ==
  /\ hpc' = "closed" /\ sock' = <<>>
  /\ pairDone' = FALSE /\ byDeadline' = FALSE /\ due' = {}
  /\ res' = IF SocketOpen THEN NoResult ELSE res
  /\ UNCHANGED <<peer, cmdPending, smp, ask, link, kltk, verdict, left, foreign>>

-----------------------------------------------------------------------------
Kernel ==
  \/ KConnect \/ KConnectFails \/ KAsk \/ KComplete \/ KBond \/ KFail \/ KDrop \/ ForeignPairs
  \/ \E e \in due : KNotify(e)

Recv ==
  \/ RecvDisconnected \/ RecvCmdComplete \/ RecvConfirm \/ RecvPasskey
  \/ RecvNewLtk \/ RecvNewIrk \/ RecvAuthFailed

-----------------------------------------------------------------------------
(***************************************************************************)
(* Properties                                                              *)
(***************************************************************************)

PastLoop == {"cancel", "disconnect", "drain", "verdict"}

\* The type invariant.
MgmtTypeOK ==
  /\ peer \in PeerKinds
  /\ cmdPending \in BOOLEAN /\ link \in BOOLEAN /\ kltk \in BOOLEAN
  /\ smp \in {"none", "running", "bonded", "failed"}
  /\ ask \in {"none", "confirm", "passkey", "answered", "refused"}
  /\ due \subseteq {"ltk", "irk"}
  /\ sock \in Seq(Event)
  /\ hpc \in {"unpair", "pair", "loop", "cancel", "disconnect", "drain", "verdict", "closed"}
  /\ res \in Result
  /\ hpc \in PastLoop => res.status # "none"
  /\ pairDone \in BOOLEAN /\ byDeadline \in BOOLEAN
  /\ verdict \in {"none", "ok", "fail"}
  /\ left \in {"nothing", "bond", "anything"}
  /\ foreign \in 0..MaxForeign

\* The loop does not end early with success and no LTK ("don't treat success as
\* done until the LTK actually shows up or the timeout elapses").
SuccessWaitsForLtk ==
  hpc \in PastLoop /\ res.status = "success" /\ res.ltk = "none" => byDeadline

\* The same as long as nobody has asked for a confirmation, neither the peer nor
\* another device: a request of either counts as the SMP exchange.
UnaskedSuccessWaitsForLtk == ~res.asked => SuccessWaitsForLtk

\* Command Complete first, LTK second: the loop then waits for an IRK, the peer's
\* or the one it takes for the peer's, as long as time allows.
IrkIsWaitedFor ==
  hpc \in PastLoop /\ pairDone /\ res.status = "success" /\ ~byDeadline => res.irk

\* "Pair with the LE peer at `addr`": the LTK reported, and written into the bond
\* file of that address, is that peer's.
LtkIsPeers == verdict = "ok" => res.ltk = "peer"
=============================================================================
