----------------------------- MODULE RawMgmtEngine -----------------------------
(***************************************************************************)
(* The scripts around MgmtPair, test/optionA-pair.py and test/tk-pair.py:  *)
(* bluetooth.service is masked and stopped while the script pairs over the *)
(* management socket, the bond is written as a file for bluetoothd, and a  *)
(* finally clause unmasks and starts the service again.  One run follows   *)
(* another; a run may be interrupted (Ctrl-C) or killed at any step.       *)
(*                                                                         *)
(* systemd and bluetoothd are outside the repository: any D-Bus call       *)
(* starts the service unless it is masked (UPSTREAM.md), and bluetoothd    *)
(* then loads the keys of its bond files into the kernel (tk-pair.py).     *)
(* The options --no-mask and --diag are left out.                          *)
(***************************************************************************)
EXTENDS MgmtPair

CONSTANT MaxRuns   \* bound: runs of a script

ASSUME RunsAssumption == MaxRuns \in Nat

VARIABLES
  rpc,       \* where the script is; "pair": inside mgmt_pair_device()
  svc,       \* bluetooth.service: masked, up
  bond,      \* bluetoothd's file of the peer has an LTK
  runs,      \* bound counter
  cut,       \* ghost: what came in the way of the last run's unmask
  shielded   \* ghost: the mask of this run took

engine == <<rpc, svc, bond, runs, cut, shielded>>
vars == <<mgmtVars, engine>>

InTry == {"power", "clear", "unpair", "arm", "pair"}
Outside == {"mask", "stop", "unmask", "start"}

Init ==
  /\ MgmtInit
  /\ rpc = "off" /\ svc = [masked |-> FALSE, up |-> TRUE]
  /\ bond \in BOOLEAN /\ runs = 0
  /\ cut = "none" /\ shielded = FALSE

-------------------------------------------------------------------------------
(***************************************************************************)
(* main()                                                                  *)
(***************************************************************************)

\* The vendor exchange is done; a run it fails in changes nothing here.
Begin ==
  /\ rpc = "off" /\ runs < MaxRuns
  /\ rpc' = "mask" /\ runs' = runs + 1 /\ verdict' = "none" /\ res' = NoResult
  /\ cut' = "none" /\ shielded' = FALSE
  /\ UNCHANGED <<kernel, sock, hpc, pairDone, byDeadline, left, foreign, svc, bond>>

\* A bluetoothd that is stopped powers the controller off, which ends the
\* connection and what runs over it.
DaemonDown ==
  /\ IF svc.up THEN DropLink /\ cmdPending' = FALSE ELSE UNCHANGED <<link, smp, ask, cmdPending>>
  /\ UNCHANGED <<peer, kltk, due, sock, host, foreign>>

\* systemctl mask --now, then stop; that one of them fails, or does only half of
\* what it should, goes unnoticed.
Mask ==
  /\ rpc = "mask" /\ rpc' = "stop"
  /\ \/ svc' = [masked |-> TRUE, up |-> FALSE] /\ shielded' = TRUE /\ DaemonDown
     \/ svc' = [svc EXCEPT !.masked = TRUE] /\ shielded' = TRUE /\ UNCHANGED mgmtVars
     \/ shielded' = svc.masked /\ UNCHANGED <<svc, mgmtVars>>
  /\ UNCHANGED <<bond, runs, cut>>

Stop ==
  /\ rpc = "stop" /\ rpc' = "power"
  /\ \/ svc' = [svc EXCEPT !.up = FALSE] /\ DaemonDown
     \/ UNCHANGED <<svc, mgmtVars>>
  /\ UNCHANGED <<bond, runs, cut, shielded>>

\* Set Powered; that it fails is a warning and no more.  The commands after it may
\* fail whether or not the controller has power.
SetPowered ==
  /\ rpc = "power" /\ rpc' = "clear"
  /\ UNCHANGED <<mgmtVars, svc, bond, runs, cut, shielded>>

\* The bond directory is removed, then Unpair Device is sent.
ClearBond ==
  /\ rpc = "clear" /\ rpc' = "unpair"
  /\ bond' = FALSE /\ hpc' = "unpair"
  /\ UNCHANGED <<kernel, sock, res, pairDone, byDeadline, verdict, left, foreign, svc, runs, cut, shielded>>

Unpair ==
  /\ rpc = "unpair" /\ UnpairDevice /\ rpc' = "arm"
  /\ UNCHANGED <<svc, bond, runs, cut, shielded>>

\* Add Remote OOB Data; a kernel that refuses it ends the run.
ArmTk ==
  /\ rpc = "arm"
  /\ \/ rpc' = "pair" /\ UNCHANGED hpc
     \/ rpc' = "unmask" /\ hpc' = "closed"
  /\ UNCHANGED <<kernel, sock, res, pairDone, byDeadline, verdict, left, foreign, svc, bond, runs, cut, shielded>>

\* mgmt_pair_device(), up to its verdict.
PairStep ==
  /\ rpc = "pair"
  /\ PairDevice \/ Recv \/ Deadline \/ Cancel \/ Disconnect \/ Drain
  /\ UNCHANGED engine

\* Planted error: the file is left for bluetoothd to write.
ReportNoFile ==
  /\ rpc = "pair" /\ Report /\ rpc' = "unmask"
  /\ UNCHANGED <<svc, bond, runs, cut, shielded>>
\* The file is written for a success; phase 4 follows before the end of try.
ReportAndWrite ==
  /\ rpc = "pair" /\ Report /\ rpc' = "unmask"
  /\ bond' = (bond \/ IsSuccess(res))
  /\ UNCHANGED <<svc, runs, cut, shielded>>

\* Planted error: only a run that has paired unmasks.
UnmaskOnSuccess ==
  /\ rpc = "unmask" /\ rpc' = "start"
  /\ svc' = [svc EXCEPT !.masked = @ /\ verdict # "ok"]
  /\ UNCHANGED <<mgmtVars, bond, runs, cut, shielded>>
\* The finally clause; that systemctl refuses to unmask goes unnoticed.
Unmask ==
  /\ rpc = "unmask" /\ rpc' = "start"
  /\ \/ svc' = [svc EXCEPT !.masked = FALSE] /\ UNCHANGED cut
     \/ cut' = "refused" /\ UNCHANGED svc
  /\ UNCHANGED <<mgmtVars, bond, runs, shielded>>

\* bluetoothd loads the bond files: the kernel's keys are then those of the files.
DaemonUp ==
  /\ svc' = [svc EXCEPT !.up = TRUE]
  /\ kltk' = IF svc.up THEN kltk ELSE bond
  /\ UNCHANGED <<peer, cmdPending, smp, ask, link, due, sock, host, foreign>>

\* A masked service does not start; that it does not goes unnoticed.
StartService ==
  /\ rpc = "start" /\ rpc' = "off"
  /\ \/ ~svc.masked /\ DaemonUp
     \/ UNCHANGED <<svc, mgmtVars>>
  /\ UNCHANGED <<bond, runs, cut, shielded>>

\* Ctrl-C: inside try the finally clause runs, elsewhere the script ends.  An
\* exception inside try (a socket that cannot be bound, a file that cannot be
\* written) takes the same way.
CtrlC ==
  /\ \/ rpc \in InTry /\ rpc' = "unmask" /\ cut' = "inside"
     \/ rpc \in Outside /\ rpc' = "off" /\ cut' = "outside"
  /\ Abandon
  /\ UNCHANGED <<svc, bond, runs, shielded>>

Killed ==
  /\ rpc \in InTry \cup Outside /\ rpc' = "off" /\ cut' = "kill"
  /\ Abandon
  /\ UNCHANGED <<svc, bond, runs, shielded>>

\* Somebody calls bluetoothd over D-Bus.
Activate ==
  /\ ~svc.masked /\ ~svc.up
  /\ DaemonUp
  /\ UNCHANGED <<rpc, bond, runs, cut, shielded>>

-------------------------------------------------------------------------------
Script ==
  \/ Mask \/ Stop \/ SetPowered \/ ClearBond \/ Unpair \/ ArmTk
  \/ PairStep \/ ReportAndWrite \/ Unmask \/ StartService

Next ==
  \/ Begin \/ Script \/ CtrlC \/ Killed \/ Activate
  \/ Kernel /\ UNCHANGED engine

Spec == Init /\ [][Next]_vars

\* The script is scheduled and the clock of its event loop runs; what it is sent
\* may go on for ever or never come.
TimeIsUp == rpc = "pair" /\ Deadline /\ UNCHANGED engine
AfterTime == rpc = "pair" /\ (PairDevice \/ Cancel \/ Disconnect \/ Drain) /\ UNCHANGED engine
StraightLine ==
  \/ Mask \/ Stop \/ SetPowered \/ ClearBond \/ Unpair \/ ArmTk
  \/ AfterTime \/ ReportAndWrite \/ Unmask \/ StartService
Fairness == WF_vars(TimeIsUp) /\ WF_vars(StraightLine)
FairSpec == Spec /\ Fairness

-------------------------------------------------------------------------------
(***************************************************************************)
(* Properties                                                              *)
(***************************************************************************)

\* The type invariant.
TypeOK ==
  /\ MgmtTypeOK
  /\ rpc \in InTry \cup Outside \cup {"off"}
  /\ svc \in [masked : BOOLEAN, up : BOOLEAN]
  /\ bond \in BOOLEAN /\ runs \in 0..MaxRuns
  /\ cut \in {"none", "inside", "outside", "kill", "refused"}
  /\ shielded \in BOOLEAN

\* Pair Device finds no pairing and no connection of an earlier run in the kernel
\* ("a subsequent attempt against the same peer starts while that state is still
\* there"): after a run without an LTK that got its Disconnect sent, whatever of
\* the commands in between failed; after one with an LTK once bluetoothd is down
\* and the kernel without the key.
NothingLeft == ~cmdPending /\ ~link /\ smp # "running"
StartsClean ==
  hpc = "pair" =>
    /\ left = "nothing" => NothingLeft
    /\ left = "bond" /\ ~svc.up /\ ~kltk => NothingLeft

\* A run that reports the peer's LTK leaves a bond that outlives it: the kernel
\* has the key, and still has it when bluetoothd has started from its files.
BondOutlivesRun ==
  verdict = "ok" /\ res.ltk = "peer" /\ shielded /\ rpc \in {"unmask", "start", "off"} => kltk /\ bond

\* bluetooth.service stays masked only after a kill, after a Ctrl-C before try is
\* entered or while its finally clause runs, or when systemctl refused to unmask it.
MaskIsUndone == rpc = "off" /\ svc.masked => cut \in {"kill", "outside", "refused"}

\* A run comes to its end, whatever the kernel and the peer do or leave undone.
RunEnds == rpc # "off" ~> rpc = "off"
===============================================================================
