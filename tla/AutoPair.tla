------------------------------- MODULE AutoPair --------------------------------
(***************************************************************************)
(* "mkbd-pair auto" (autopair.rs) and "mkbd-pair dbus-pair" (main.rs) by   *)
(* several processes: the lock file, the prompts, the pairing of DbusPair  *)
(* inside, the two watches that follow it, the cable, and processes that   *)
(* are killed (TimeoutStartSec of the unit, or a user).  The command takes *)
(* no lock.  Time is not measured: a limit may pass at any moment, and a   *)
(* wait that has none may never end.                                       *)
(***************************************************************************)
EXTENDS DbusPair

CONSTANTS
  Autos,       \* the processes that are "mkbd-pair auto"; the others are the command
  Lookalike,  \* whether lsusb has another line with "045e" and "081" in it
  Cable       \* bound: {TRUE} if it is always plugged in, BOOLEAN if it may be moved

ASSUME AutoAssumption == Autos \subseteq Program /\ Lookalike \in BOOLEAN /\ Cable \subseteq BOOLEAN

VARIABLES
  at,         \* per "auto" process: where run_auto() is
  got,        \* per "auto" process: what run_dbus_pair() returned
  lock,       \* who holds the flock, or Nobody
  usb,        \* the keyboard is on its cable
  relinked,   \* ghost: the link came up after the cable was pulled
  unmixed     \* ghost, per "auto" process: no command paired since its pairing began,
              \* and the keyboard was idle then

autoOwn == <<at, got, lock, unmixed>>
cable == <<usb, relinked>>
vars == <<dbusVars, autoOwn, cable>>

Holding == {"session", "usb", "ask", "pairing", "paired", "failed", "unplug", "reconnect", "confirmed", "missed",
            "stuck"}
Busy == Holding \cup {"lock"}

Init ==
  /\ DbusInit
  /\ at = [p \in Autos |-> "off"]
  /\ got = [p \in Autos |-> NoRecord]
  /\ lock = Nobody
  /\ usb \in Cable
  /\ relinked = FALSE
  /\ unmixed = [p \in Autos |-> FALSE]

-------------------------------------------------------------------------------
(***************************************************************************)
(* run_auto()                                                              *)
(***************************************************************************)
At(p, place) == at' = [at EXCEPT ![p] = place]
Unlocked(p) == IF lock = p THEN Nobody ELSE lock

\* The function returns, or the process is killed: the descriptor is closed.
Leave(p) ==
  /\ At(p, "off") /\ lock' = Unlocked(p)
  /\ got' = [got EXCEPT ![p] = NoRecord] /\ unmixed' = [unmixed EXCEPT ![p] = FALSE]
Stay == UNCHANGED <<got, lock, unmixed>>

Begin(p) ==
  /\ at[p] = "off" /\ At(p, "lock") /\ Stay
  /\ UNCHANGED <<dbusVars, cable>>

\* Planted error: a lock that is held does not stop the run.
AcquireLockShared(p) ==
  /\ at[p] = "lock"
  /\ (lock' = p /\ At(p, "session") /\ UNCHANGED <<got, unmixed>>) \/ Leave(p)
  /\ UNCHANGED <<dbusVars, cable>>
\* LOCK_EX | LOCK_NB; a file that cannot be opened counts as held.
AcquireLock(p) ==
  /\ at[p] = "lock"
  /\ (lock = Nobody /\ lock' = p /\ At(p, "session") /\ UNCHANGED <<got, unmixed>>) \/ Leave(p)
  /\ UNCHANGED <<dbusVars, cable>>

FindGuiSession(p) ==
  /\ at[p] = "session"
  /\ (At(p, "usb") /\ Stay) \/ Leave(p)
  /\ UNCHANGED <<dbusVars, cable>>

\* What usb_present() may say: the truth, FALSE when lsusb fails, TRUE for the
\* other line that has both substrings.
UsbPresent == {usb, FALSE} \cup (IF Lookalike THEN {TRUE} ELSE {})

CheckUsb(p) ==
  /\ at[p] = "usb"
  /\ (TRUE \in UsbPresent /\ At(p, "ask") /\ Stay) \/ (FALSE \in UsbPresent /\ Leave(p))
  /\ UNCHANGED <<dbusVars, cable>>

\* The answer is yes, and run_dbus_pair() begins; or it is no, which a dialog
\* that cannot be shown says too.
Ask(p) ==
  /\ at[p] = "ask"
  /\ \/ /\ Start(p) /\ At(p, "pairing") /\ UNCHANGED <<got, lock>>
        /\ unmixed' = [unmixed EXCEPT ![p] = Idle(Program \ Autos)]
     \/ Leave(p) /\ UNCHANGED dbusVars
  /\ UNCHANGED cable

\* Planted error: an error of run_dbus_pair() does not end the run.
PairingReturnsPaired(p) ==
  /\ at[p] = "pairing" /\ Exit(p)
  /\ At(p, "paired") /\ got' = [got EXCEPT ![p] = rec[p]]
  /\ UNCHANGED <<lock, unmixed, cable>>
\* run_dbus_pair() returns and its D-Bus connection is closed.
PairingReturns(p) ==
  /\ at[p] = "pairing" /\ Exit(p)
  /\ IF ph[p] = "ok" THEN At(p, "paired") /\ got' = [got EXCEPT ![p] = rec[p]]
                     ELSE At(p, "failed") /\ UNCHANGED got
  /\ UNCHANGED <<lock, unmixed, cable>>

\* The box that says so is closed; there is no limit to that.
PairedBox(p) ==
  /\ at[p] = "paired" /\ At(p, "unplug") /\ Stay
  /\ UNCHANGED <<dbusVars, cable>>

\* Planted error: no limit to the wait for the cable.
WatchUnplugForEver(p) ==
  /\ at[p] = "unplug" /\ ~usb /\ At(p, "reconnect") /\ Stay
  /\ UNCHANGED <<dbusVars, cable>>
\* The cable is gone, or the limit has passed.
WatchUnplug(p) ==
  /\ at[p] = "unplug"
  /\ (FALSE \in UsbPresent /\ At(p, "reconnect") /\ Stay) \/ Leave(p)
  /\ UNCHANGED <<dbusVars, cable>>

\* "Connected: yes" of the address that was paired, or the limit has passed.
WatchReconnect(p) ==
  /\ at[p] = "reconnect" /\ Stay
  /\ (link = got[p].addr /\ link # 0 /\ At(p, "confirmed")) \/ At(p, "missed")
  /\ UNCHANGED <<dbusVars, cable>>

\* The error box or the last notification, and the end.
LastWord(p) ==
  /\ at[p] \in {"failed", "confirmed", "missed"} /\ Leave(p)
  /\ UNCHANGED <<dbusVars, cable>>

\* A step of run_dbus_pair(); without the cable there is no keyboard to talk
\* to, but what it has reported can still be read.
PairingStep(p) ==
  /\ IF ph[p] \in {"exchange", "asked"} /\ ~usb THEN ExchangeReturns(p) \/ ExchangeFails(p) ELSE RunStep(p)
  /\ UNCHANGED <<autoOwn, cable>>

\* A D-Bus call other than ConnectDevice and Pair, a subprocess or a dialog never
\* comes back: nothing in the code ends the wait.  The model lets a run hang
\* wherever it holds the lock.
Hang(p) ==
  /\ at[p] \in Holding \ {"stuck"} /\ At(p, "stuck")
  /\ unmixed' = [unmixed EXCEPT ![p] = FALSE]
  /\ UNCHANGED <<got, lock, dbusVars, cable>>

RunAuto(p) ==
  \/ AcquireLock(p) \/ FindGuiSession(p) \/ CheckUsb(p) \/ Ask(p) \/ PairingReturns(p)
  \/ PairedBox(p) \/ WatchUnplug(p) \/ WatchReconnect(p) \/ LastWord(p)
  \/ at[p] = "pairing" /\ PairingStep(p)

-------------------------------------------------------------------------------
(***************************************************************************)
(* The command, killed processes, and the world                            *)
(***************************************************************************)
RunCommand(p) ==
  /\ \/ Start(p) /\ unmixed' = [q \in Autos |-> FALSE]
     \/ Exit(p) /\ UNCHANGED unmixed
  /\ UNCHANGED <<at, got, lock, cable>>

\* The kernel closes what the process had open; its D-Bus calls go on.
Kill(p) ==
  /\ ph[p] # "off" \/ (p \in Autos /\ at[p] # "off")
  /\ Gone(p) /\ calls' = Abandoned(p)
  /\ IF p \in Autos THEN Leave(p) ELSE UNCHANGED autoOwn
  /\ UNCHANGED <<kbd, addq, armed, dev, link, cable>>

\* The user has the cable; the keyboard, on or off it, keeps its link or loses it.
MoveCable ==
  /\ usb' \in Cable \ {usb} /\ relinked' = FALSE
  /\ UNCHANGED <<dbusVars, autoOwn>>

\* A keyboard without a link looks for the host of its bond.
Reconnects ==
  /\ link = 0 /\ kbd.bond # 0 /\ dev[kbd.addr].paired /\ dev[kbd.addr].tk = kbd.bond
  /\ link' = kbd.addr
  /\ UNCHANGED <<own, kbd, addq, armed, dev, calls, undisturbed>>

World ==
  /\ DbusWorld \/ Reconnects
  /\ usb \/ heard' = heard   \* no report comes in without the cable
  /\ relinked' = (relinked \/ (~usb /\ link = 0 /\ link' # 0))
  /\ UNCHANGED <<usb, autoOwn>>

-------------------------------------------------------------------------------
Next ==
  \/ World \/ MoveCable
  \/ \E p \in Autos : Begin(p) \/ RunAuto(p) \/ Hang(p)
  \/ \E p \in Program \ Autos : RunCommand(p) \/ PairingStep(p)
  \/ \E p \in Program : Kill(p)

Spec == Init /\ [][Next]_vars

\* A process is scheduled, its clocks run and what it waits for comes back; when
\* that does not, systemd ends the unit.
TimeoutStartSec(p) == at[p] = "stuck" /\ Kill(p)
Fairness == \A p \in Autos : WF_vars(RunAuto(p)) /\ WF_vars(TimeoutStartSec(p))
FairSpec == Spec /\ Fairness

-------------------------------------------------------------------------------
(***************************************************************************)
(* Properties                                                              *)
(***************************************************************************)

\* The type invariant.
AutoTypeOK ==
  /\ DbusTypeOK
  /\ at \in [Autos -> Busy \cup {"off"}]
  /\ got \in [Autos -> Record]
  /\ lock \in Autos \cup {Nobody}
  /\ usb \in BOOLEAN /\ relinked \in BOOLEAN
  /\ unmixed \in [Autos -> BOOLEAN]

\* "mkbd-pair's own flock is the real guard against two runs overlapping": the
\* processes past acquire_lock() come and go as RunOnce says, killed or not.
Inside == {p \in Autos : at[p] \in Holding}
Once == INSTANCE RunOnce WITH inside <- Inside
RunsOnce == Once!OnceSpec

\* Every run's address and TK come from a record the keyboard made while the
\* run was waiting for one; a run that nobody came near has the latest record
\* from the end of its exchange to its own.
Asking == {p \in Program : ph[p] = "asked"}
Lone == {p \in Program : undisturbed[p] /\ ph[p] \notin {"off", "clean", "exchange", "err"}}
Fresh == INSTANCE FreshRecord WITH
           made  <- kbd.made,
           open  <- Asking,
           heard <- [p \in Program |-> {r.tk : r \in heard[p]}],
           used  <- [p \in Program |-> rec[p].tk],
           lone  <- Lone
RecordsAreFresh == Fresh!Spec

\* From the box that says "Keyboard paired" to the end of the run there is one
\* bond, with the run's own TK, on both sides; whatever runs that failed or were
\* killed have left to the kernel and bluetoothd, unless a user runs the command
\* at the same time.
PairedIsTwoSided ==
  \A p \in Autos : at[p] \in {"paired", "unplug", "reconnect", "confirmed", "missed"} /\ unmixed[p] =>
    LET d == dev[got[p].addr] IN d.paired /\ d.tk = got[p].tk /\ kbd.bond = got[p].tk

\* No agent outlives the run that registered it, also when that run returns
\* early (dbus_pair.rs:312) in a process that goes on.
AgentGoesWithRun == \A p \in agent : ph[p] \notin {"off", "clean", "exchange", "asked"}

\* The lock comes back, whatever the user does with the cable and in whatever call
\* the run is stuck: a run whose calls come back ends by itself, any other one is
\* ended by systemd.
LockComesBack == \A p \in Autos : lock = p ~> lock # p

\* "prompt-disconnect -> confirm-reconnect": with the cable pulled, "Connected
\* over Bluetooth" is about a link that came up since.
ReconnectIsConfirmed == \A p \in Autos : at[p] = "confirmed" /\ ~usb => relinked
===============================================================================
