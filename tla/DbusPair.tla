------------------------------- MODULE DbusPair -------------------------------
(***************************************************************************)
(* Pairing the keyboard through bluetoothd (dbus_pair.rs, bond.rs and the  *)
(* bluetoothd patch of optionA/bluez): run_dbus_pair() drops the keyboard  *)
(* entries bluetoothd already has, runs the vendor exchange, hands the TK  *)
(* over, connects, pairs, and reports what bluetoothd then says.           *)
(*                                                                         *)
(* ConnectDevice and Pair run on a helper thread and are waited for with a *)
(* limit; a call that is given up is not cancelled.  AddRemoteLegacyOOB    *)
(* returns once the management command is queued, before the kernel has    *)
(* seen it.  Of the vendor exchange there is what a run can tell of it: it *)
(* asks for a record, is told of the records that are made while it waits, *)
(* and takes one of them or fails.  VendorExchange is its detail, and      *)
(* FreshRecord what both implement.  The keyboard gives up its bond with   *)
(* every new exchange.                                                     *)
(*                                                                         *)
(* bluetoothd, kernel and keyboard are as dbus_pair.rs uses them; any call *)
(* may fail, for reasons that are left out.  A TK is the number of the     *)
(* exchange that made it, 0 is no TK.  AutoPair puts the steps into the    *)
(* processes that take them, and has the next-state relation.              *)
(***************************************************************************)
EXTENDS Naturals, Sequences

CONSTANTS
  Program,       \* processes that run it
  Nobody,        \* who waits for a call that was given up
  MaxExchange    \* bound: records asked for and made in one behaviour

ASSUME ProgramAssumption  == Nobody \notin Program
ASSUME ExchangeAssumption == MaxExchange \in Nat

VARIABLES
  ph,        \* per program: what it does next
  rec,       \* per program: address and TK of its exchange
  heard,     \* per program: the records reported on its hidraw handle
  ans,       \* per program: the answer of the call it waits for
  agent,     \* programs whose agent is registered
  kbd,       \* the keyboard: address, TK, bond, records made and asked for
  addq,      \* management commands bluetoothd has queued
  armed,     \* kernel: the stored TK, per address
  dev,       \* bluetoothd: the devices, per address
  link,      \* the address there is a link to, 0 for none
  calls,     \* ConnectDevice and Pair calls bluetoothd works on
  undisturbed  \* ghost, per program: no other run since this one began

own == <<ph, rec, heard, ans, agent>>
world == <<kbd, addq, armed, dev, link, calls>>
dbusVars == <<own, world, undisturbed>>

Addr == 0..MaxExchange
Tk == 0..MaxExchange
Record == [addr : Addr, tk : Tk]
NoRecord == [addr |-> 0, tk |-> 0]
Running == {"clean", "exchange", "asked", "agent", "arm", "connect", "connecting", "pair", "pairing", "check", "trust"}
Device == [known : BOOLEAN, paired : BOOLEAN, trusted : BOOLEAN, tk : Tk]
NoDevice == [known |-> FALSE, paired |-> FALSE, trusted |-> FALSE, tk |-> 0]

\* A keyboard that was paired here before, or never was.
DbusInit ==
  /\ ph = [p \in Program |-> "off"]
  /\ rec = [p \in Program |-> NoRecord]
  /\ heard = [p \in Program |-> {}]
  /\ ans = [p \in Program |-> "none"]
  /\ agent = {}
  /\ kbd = [addr |-> 0, tk |-> 0, made |-> 0, bond |-> 0, asked |-> 0]
  /\ addq = <<>>
  /\ armed = [a \in Addr |-> 0]
  /\ \E old \in BOOLEAN :
       dev = [a \in Addr |-> IF a = 0 THEN [NoDevice EXCEPT !.known = old, !.paired = old, !.trusted = old]
                                      ELSE NoDevice]
  /\ link = 0
  /\ calls = {}
  /\ undisturbed = [p \in Program |-> FALSE]

-------------------------------------------------------------------------------
(***************************************************************************)
(* run_dbus_pair()                                                         *)
(***************************************************************************)
Go(p, phase) == ph' = [ph EXCEPT ![p] = phase]

\* Nobody is at work, and the keyboard is not either.
Idle(others) == kbd.asked = 0 /\ \A q \in others : ph[q] \notin Running

\* A process starts.
Start(p) ==
  /\ ph[p] = "off" /\ Go(p, "clean")
  /\ undisturbed' = [q \in Program |-> q = p /\ Idle(Program)]
  /\ UNCHANGED <<rec, heard, ans, agent, world>>

\* remove_matching_bluez_devices().  The status of "bluetoothctl remove" is
\* ignored, so any of the known devices may stay.  Removing a device ends its
\* link and a pairing with it.
RemoveMatchingDevices(p) ==
  /\ ph[p] = "clean" /\ Go(p, "exchange")
  /\ \E gone \in SUBSET {a \in Addr : dev[a].known} :
       /\ dev' = [a \in Addr |-> IF a \in gone THEN NoDevice ELSE dev[a]]
       /\ link' = IF link \in gone THEN 0 ELSE link
       /\ calls' = {c \in calls : ~(c.op = "pair" /\ c.addr \in gone)}
       /\ ans' = [q \in Program |->
                    IF \E c \in calls : c.by = q /\ c.op = "pair" /\ c.addr \in gone
                    THEN "error" ELSE ans[q]]
  /\ UNCHANGED <<rec, heard, agent, kbd, addq, armed, undisturbed>>

\* vendor_pairing_exchange() up to F3.  What is reported before that is
\* discarded, unless the answer to F2 was given up; and then the record in
\* question might as well have been made after this F3 was sent.
AskForRecord(p) ==
  /\ ph[p] = "exchange" /\ kbd.made + kbd.asked < MaxExchange
  /\ Go(p, "asked")
  /\ kbd' = [kbd EXCEPT !.asked = @ + 1, !.bond = 0]
  /\ UNCHANGED <<rec, heard, ans, agent, addq, armed, dev, link, calls, undisturbed>>

\* Planted error: a record is remembered beyond the exchange.
CloseHandleKeeps(p) == UNCHANGED heard

\* The handle is closed, and what was queued on it is gone.
CloseHandle(p) == heard' = [heard EXCEPT ![p] = {}]

\* A record that was reported is the result, whoever had asked for it.
ExchangeReturns(p) ==
  /\ ph[p] = "asked" /\ Go(p, "agent")
  /\ \E r \in heard[p] : rec' = [rec EXCEPT ![p] = r]
  /\ CloseHandle(p)
  /\ UNCHANGED <<ans, agent, world, undisturbed>>

\* No adapter, adapter off, no keyboard, or the exchange failed on its way:
\* the run ends, and the keyboard may have given up its bond.
ExchangeFails(p) ==
  /\ ph[p] \in {"exchange", "asked"} /\ Go(p, "err")
  /\ kbd' \in {kbd, [kbd EXCEPT !.bond = 0]}
  /\ CloseHandle(p)
  /\ UNCHANGED <<rec, ans, agent, addq, armed, dev, link, calls, undisturbed>>

\* The agent is exported and registered; AlreadyExists counts as registered.
RegisterAgent(p) ==
  /\ ph[p] = "agent"
  /\ \/ Go(p, "arm") /\ agent' = agent \cup {p}
     \/ Go(p, "err") /\ UNCHANGED agent
  /\ UNCHANGED <<rec, heard, ans, world, undisturbed>>

\* unregister() and an early return.
GiveUp(p) == Go(p, "err") /\ agent' = agent \ {p}

\* Planted error: the command says nothing of the address.
OobCommandNoAddress(p) == [tk |-> rec[p].tk]

\* The management command bluetoothd makes of the call.
OobCommand(p) == rec[p]

\* Adapter1.AddRemoteLegacyOOB: bluetoothd queues the command and returns; it
\* fails only when the adapter is off or the command cannot be queued.
AddRemoteLegacyOob(p) ==
  /\ ph[p] = "arm"
  /\ \/ Go(p, "connect") /\ addq' = Append(addq, OobCommand(p)) /\ UNCHANGED agent
     \/ GiveUp(p) /\ UNCHANGED addq
  /\ UNCHANGED <<rec, heard, ans, kbd, armed, dev, link, calls, undisturbed>>

\* A helper thread makes the call; the caller waits for its answer.
Call(p, op) ==
  /\ calls' = calls \cup {[by |-> p, op |-> op, addr |-> rec[p].addr]}
  /\ ans' = [ans EXCEPT ![p] = "none"]
  /\ UNCHANGED <<rec, heard, agent, kbd, addq, armed, dev, link, undisturbed>>

ConnectDevice(p) == ph[p] = "connect" /\ Go(p, "connecting") /\ Call(p, "connect")
Pair(p) == ph[p] = "pair" /\ Go(p, "pairing") /\ Call(p, "pair")

\* recv_timeout() came first: the call goes on, but nobody waits for it.
Abandoned(p) == {IF c.by = p THEN [c EXCEPT !.by = Nobody] ELSE c : c \in calls}

\* Planted error: the agent goes as soon as there is a connection.
ConnectReturnsNoAgent(p) ==
  /\ ph[p] = "connecting"
  /\ \/ ans[p] = "ok" /\ Go(p, "pair") /\ agent' = agent \ {p} /\ UNCHANGED calls
     \/ ans[p] = "error" /\ GiveUp(p) /\ UNCHANGED calls
     \/ ans[p] = "none" /\ GiveUp(p) /\ calls' = Abandoned(p)
  /\ ans' = [ans EXCEPT ![p] = "none"]
  /\ UNCHANGED <<rec, heard, kbd, addq, armed, dev, link, undisturbed>>

\* Connected, the proxy of the device is built; when that fails the function
\* returns without unregister().
ConnectReturns(p) ==
  /\ ph[p] = "connecting"
  /\ \/ ans[p] = "ok" /\ (Go(p, "pair") \/ Go(p, "err")) /\ UNCHANGED <<agent, calls>>
     \/ ans[p] = "error" /\ GiveUp(p) /\ UNCHANGED calls
     \/ ans[p] = "none" /\ GiveUp(p) /\ calls' = Abandoned(p)
  /\ ans' = [ans EXCEPT ![p] = "none"]
  /\ UNCHANGED <<rec, heard, kbd, addq, armed, dev, link, undisturbed>>

\* Planted error: AlreadyExists, or any other error, counts as paired.
PairReturnsPaired(p) ==
  /\ ph[p] = "pairing"
  /\ \/ ans[p] \in {"ok", "error"} /\ Go(p, "trust") /\ agent' = agent \ {p} /\ UNCHANGED calls
     \/ ans[p] = "none" /\ GiveUp(p) /\ calls' = Abandoned(p)
  /\ ans' = [ans EXCEPT ![p] = "none"]
  /\ UNCHANGED <<rec, heard, kbd, addq, armed, dev, link, undisturbed>>

\* The agent goes whatever the answer is.
PairReturns(p) ==
  /\ ph[p] = "pairing"
  /\ \/ ans[p] = "ok" /\ Go(p, "check") /\ agent' = agent \ {p} /\ UNCHANGED calls
     \/ ans[p] = "error" /\ GiveUp(p) /\ UNCHANGED calls
     \/ ans[p] = "none" /\ GiveUp(p) /\ calls' = Abandoned(p)
  /\ ans' = [ans EXCEPT ![p] = "none"]
  /\ UNCHANGED <<rec, heard, kbd, addq, armed, dev, link, undisturbed>>

\* Paired and Bonded are read back; a property that cannot be read is false.
CheckPaired(p) ==
  /\ ph[p] = "check"
  /\ \/ dev[rec[p].addr].paired /\ Go(p, "trust")
     \/ Go(p, "err")
  /\ UNCHANGED <<rec, heard, ans, agent, world, undisturbed>>

\* Trusted is set; that it could not be is only a warning.
SetTrusted(p) ==
  /\ ph[p] = "trust" /\ Go(p, "ok")
  /\ dev' \in {dev} \cup {[dev EXCEPT ![a].trusted = TRUE] : a \in {rec[p].addr} \cap {b \in Addr : dev[b].known}}
  /\ UNCHANGED <<rec, heard, ans, agent, kbd, addq, armed, link, calls, undisturbed>>

\* Planted error: the connection, and the agent with it, outlives the function.
GoneKeepsAgent(p) ==
  /\ Go(p, "off")
  /\ rec' = [rec EXCEPT ![p] = NoRecord] /\ CloseHandle(p)
  /\ ans' = [ans EXCEPT ![p] = "none"]
  /\ undisturbed' = [undisturbed EXCEPT ![p] = FALSE]
  /\ UNCHANGED agent
\* Nothing is left of a run; its D-Bus connection is closed, and bluetoothd drops
\* what was registered over it.  A call that was given up keeps the connection of
\* a process that goes on, but its agent was unregistered then.
Gone(p) ==
  /\ Go(p, "off")
  /\ rec' = [rec EXCEPT ![p] = NoRecord] /\ CloseHandle(p)
  /\ ans' = [ans EXCEPT ![p] = "none"]
  /\ agent' = agent \ {p}
  /\ undisturbed' = [undisturbed EXCEPT ![p] = FALSE]

\* The function returns.
Exit(p) == ph[p] \in {"ok", "err"} /\ Gone(p) /\ UNCHANGED world

RunStep(p) ==
  \/ RemoveMatchingDevices(p) \/ AskForRecord(p) \/ ExchangeReturns(p) \/ ExchangeFails(p)
  \/ RegisterAgent(p) \/ AddRemoteLegacyOob(p) \/ ConnectDevice(p) \/ ConnectReturns(p) \/ Pair(p) \/ PairReturns(p)
  \/ CheckPaired(p) \/ SetTrusted(p)

-------------------------------------------------------------------------------
(***************************************************************************)
(* bluetoothd, the kernel and the keyboard                                 *)
(***************************************************************************)

\* The keyboard is done with a command F3.  It has made a record, which every
\* program that waits for F3 may be told of; or the command got lost.  That a
\* report got lost needs no case of its own: a program may fail at any moment,
\* or take another record.  The address counts the bonds made, so an address
\* that was not used yet may come again; the TK is always new.
MakeRecord ==
  \E a \in {kbd.addr, kbd.addr + 1} \ {0} :
    LET new == [addr |-> a, tk |-> kbd.made + 1]
    IN  /\ a = kbd.addr => kbd.tk # 0
        /\ kbd' = [addr |-> a, tk |-> new.tk, made |-> new.tk, bond |-> 0, asked |-> kbd.asked - 1]
        /\ heard' = [p \in Program |-> IF ph[p] = "asked" THEN heard[p] \cup {new} ELSE heard[p]]

KeyboardActs ==
  /\ kbd.asked > 0
  /\ MakeRecord \/ (kbd' = [kbd EXCEPT !.asked = @ - 1] /\ UNCHANGED heard)
  /\ UNCHANGED <<ph, rec, ans, agent, addq, armed, dev, link, calls, undisturbed>>

\* The kernel takes the queued command, or refuses it; bluetoothd has no callback for it.
KernelAdds ==
  /\ addq # <<>> /\ addq' = Tail(addq)
  /\ armed' \in {armed, [armed EXCEPT ![Head(addq).addr] = Head(addq).tk]}
  /\ UNCHANGED <<own, kbd, dev, link, calls, undisturbed>>

\* A call is done; its answer reaches whoever still waits.
Done(c, result) ==
  /\ calls' = calls \ {c}
  /\ ans' = [p \in Program |-> IF c.by = p THEN result ELSE ans[p]]

\* A link comes up only to the address the keyboard advertises with.
Connected(c) ==
  /\ c.op = "connect" /\ c.addr = kbd.addr /\ kbd.tk # 0 /\ link = 0
  /\ link' = c.addr
  /\ dev' = [dev EXCEPT ![c.addr].known = TRUE]
  /\ Done(c, "ok")
  /\ UNCHANGED <<kbd, addq, armed>>

\* Pair Device follows the commands queued before it; the keyboard takes only
\* its own latest TK.  The stored TK goes with the bond.
Paired(c) ==
  /\ c.op = "pair" /\ addq = <<>> /\ link = c.addr
  /\ dev[c.addr].known /\ ~dev[c.addr].paired
  /\ kbd.addr = c.addr /\ kbd.tk # 0 /\ armed[c.addr] = kbd.tk
  /\ dev' = [dev EXCEPT ![c.addr].paired = TRUE, ![c.addr].tk = kbd.tk]
  /\ kbd' = [kbd EXCEPT !.bond = kbd.tk, !.tk = 0]
  /\ armed' = [armed EXCEPT ![c.addr] = 0]
  /\ Done(c, "ok")
  /\ UNCHANGED <<link, addq>>

Refused(c) == Done(c, "error") /\ UNCHANGED <<kbd, addq, armed, dev, link>>

Serve ==
  /\ \E c \in calls : Connected(c) \/ Paired(c) \/ Refused(c)
  /\ UNCHANGED <<ph, rec, heard, agent, undisturbed>>

LinkLost ==
  /\ link # 0 /\ link' = 0
  /\ UNCHANGED <<own, kbd, addq, armed, dev, calls, undisturbed>>

DbusWorld == KeyboardActs \/ KernelAdds \/ Serve \/ LinkLost

-------------------------------------------------------------------------------
(***************************************************************************)
(* Properties                                                              *)
(***************************************************************************)

\* The type invariant.
DbusTypeOK ==
  /\ ph \in [Program -> Running \cup {"off", "ok", "err"}]
  /\ rec \in [Program -> Record]
  /\ heard \in [Program -> SUBSET Record]
  /\ ans \in [Program -> {"none", "ok", "error"}]
  /\ agent \subseteq Program
  /\ kbd \in [addr : Addr, tk : Tk, made : Tk, bond : Tk, asked : Tk]
  /\ addq \in Seq(Record)
  /\ armed \in [Addr -> Tk]
  /\ dev \in [Addr -> Device]
  /\ link \in Addr
  /\ calls \subseteq [by : Program \cup {Nobody}, op : {"connect", "pair"}, addr : Addr]
  /\ undisturbed \in [Program -> BOOLEAN]

\* A run that nobody else came between, and that reports success, leaves one
\* bond with its own TK on both sides, whatever former runs left behind:
\* devices that could not be removed, keys still stored, a link still up.
SuccessIsTwoSided ==
  \A p \in Program : ph[p] = "ok" /\ undisturbed[p] =>
    LET d == dev[rec[p].addr] IN d.paired /\ d.tk = rec[p].tk /\ kbd.bond = rec[p].tk

\* bluetoothd trusts no device it has not paired with, though another run may
\* remove the device between the check and the setting of Trusted.
TrustedIsPaired == \A a \in Addr : dev[a].trusted => dev[a].paired

\* The agent is there for as long as somebody waits for Pair.
PairHasAgent == \A p \in Program : ph[p] \in {"pair", "pairing"} => p \in agent

===============================================================================
