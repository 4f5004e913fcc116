----------------------------- MODULE AutoPairProofs -----------------------------
(***************************************************************************)
(* Theorems about AutoPair: one autopair run at a time (the refinement of  *)
(* RunOnce), no agent that outlives its run, an agent for as long as Pair  *)
(* is waited for, no trusted device that is not paired, one bond on both   *)
(* sides, and fresh records (the refinement of FreshRecord).  They hold    *)
(* for every set of processes and every bound.                             *)
(***************************************************************************)
EXTENDS AutoPair, TLAPS

-------------------------------------------------------------------------------
(***************************************************************************)
(* The lock                                                                *)
(***************************************************************************)

\* The process that is past acquire_lock() is the one the lock belongs to.
LockInv ==
  /\ at \in [Autos -> Busy \cup {"off"}]
  /\ lock \in Autos \cup {Nobody}
  /\ \A p \in Autos : at[p] \in Holding <=> lock = p

LEMMA NobodyIsNoAuto == Nobody \notin Autos
BY ProgramAssumption, AutoAssumption

\* Initially nobody holds the lock.
LEMMA LockInit == Init => LockInv
BY NobodyIsNoAuto DEF Init, LockInv, Busy, Holding

\* A process that goes on inside leaves who holds the lock alone.
LEMMA MovingKeepsLock ==
  ASSUME LockInv, NEW p \in Autos, NEW place \in Holding, at[p] \in Holding,
         At(p, place), lock' = lock
  PROVE  LockInv'
BY DEF LockInv, At, Busy

\* A process that leaves gives the lock back if it had it.
LEMMA LeavingKeepsLock ==
  ASSUME LockInv, NEW p \in Autos, Leave(p)
  PROVE  LockInv'
BY NobodyIsNoAuto DEF LockInv, Leave, At, Unlocked, Busy, Holding

\* Every step keeps the lock and the places together.
LEMMA LockStep == LockInv /\ [Next]_vars => LockInv'
<1> SUFFICES ASSUME LockInv, [Next]_vars PROVE LockInv'
  OBVIOUS
<1> USE DEF Stay
<1>1. CASE UNCHANGED <<at, lock>>
  BY <1>1 DEF LockInv
<1>2. ASSUME NEW p \in Autos, Begin(p) PROVE LockInv'
  BY <1>2, NobodyIsNoAuto DEF LockInv, Begin, At, Busy, Holding
<1>3. ASSUME NEW p \in Autos, AcquireLock(p) PROVE LockInv'
  <2>1. CASE Leave(p)
    BY <2>1, LeavingKeepsLock
  <2>2. CASE lock = Nobody /\ lock' = p /\ At(p, "session")
    BY <1>3, <2>2, NobodyIsNoAuto DEF LockInv, AcquireLock, At, Busy, Holding
  <2> QED
    BY <1>3, <2>1, <2>2 DEF AcquireLock
<1>4. ASSUME NEW p \in Autos, FindGuiSession(p) PROVE LockInv'
  BY <1>4, LeavingKeepsLock, MovingKeepsLock DEF FindGuiSession, Holding
<1>5. ASSUME NEW p \in Autos, CheckUsb(p) PROVE LockInv'
  BY <1>5, LeavingKeepsLock, MovingKeepsLock DEF CheckUsb, Holding
<1>6. ASSUME NEW p \in Autos, Ask(p) PROVE LockInv'
  BY <1>6, LeavingKeepsLock, MovingKeepsLock DEF Ask, Holding
<1>7. ASSUME NEW p \in Autos, PairingReturns(p) PROVE LockInv'
  BY <1>7, MovingKeepsLock DEF PairingReturns, Holding
<1>8. ASSUME NEW p \in Autos, PairedBox(p) PROVE LockInv'
  BY <1>8, MovingKeepsLock DEF PairedBox, Holding
<1>9. ASSUME NEW p \in Autos, WatchUnplug(p) PROVE LockInv'
  BY <1>9, LeavingKeepsLock, MovingKeepsLock DEF WatchUnplug, Holding
<1>10. ASSUME NEW p \in Autos, WatchReconnect(p) PROVE LockInv'
  BY <1>10, MovingKeepsLock DEF WatchReconnect, Holding
<1>11. ASSUME NEW p \in Autos, LastWord(p) PROVE LockInv'
  BY <1>11, LeavingKeepsLock DEF LastWord
<1>12. ASSUME NEW p \in Program, Kill(p) PROVE LockInv'
  <2>1. CASE p \in Autos
    BY <1>12, <2>1, LeavingKeepsLock DEF Kill
  <2>2. CASE p \notin Autos
    BY <1>12, <2>2, <1>1 DEF Kill, autoOwn
  <2> QED
    BY <2>1, <2>2
<1>13. ASSUME NEW p \in Program, PairingStep(p) PROVE LockInv'
  BY <1>13, <1>1 DEF PairingStep, autoOwn
<1>14. ASSUME NEW p \in Program, RunCommand(p) PROVE LockInv'
  BY <1>14, <1>1 DEF RunCommand
<1>15. CASE World \/ MoveCable \/ UNCHANGED vars
  BY <1>15, <1>1 DEF World, MoveCable, vars, autoOwn
<1>16. ASSUME NEW p \in Autos, Hang(p) PROVE LockInv'
  BY <1>16, MovingKeepsLock DEF Hang, Holding
<1> QED
  BY <1>2, <1>3, <1>4, <1>5, <1>6, <1>7, <1>8, <1>9, <1>10, <1>11, <1>12, <1>13, <1>14, <1>15, <1>16,
     AutoAssumption DEF Next, RunAuto

\* What RunOnce sees of the lock.
LEMMA InsideIsHolder ==
  ASSUME LockInv PROVE Inside = {p \in Autos : lock = p}
BY DEF LockInv, Inside

\* One process is inside, or none.
LEMMA InsideIsOne ==
  ASSUME LockInv, NEW p \in Autos, at[p] \in Holding PROVE Inside = {p}
BY DEF LockInv, Inside

LEMMA InsideMoves ==
  ASSUME LockInv, LockInv', lock' = lock PROVE Inside' = Inside
BY DEF LockInv, Inside

\* A process that leaves is the one inside, or was waiting for the lock.
LEMMA LeavingIsLeaving ==
  ASSUME LockInv, LockInv', NEW p \in Autos, Leave(p)
  PROVE  Once!Leave(p) \/ Inside' = Inside
<1>1. CASE lock = p
  <2>1. Inside = {p}
    BY <1>1 DEF LockInv, Inside
  <2>2. lock' = Nobody
    BY <1>1 DEF Leave, Unlocked
  <2>3. Inside' = {}
    BY <2>2, NobodyIsNoAuto DEF LockInv, Inside
  <2> QED
    BY <2>1, <2>3 DEF Once!Leave
<1>2. CASE lock # p
  <2>1. lock' = lock
    BY <1>2 DEF Leave, Unlocked
  <2> QED
    BY <2>1, InsideMoves
<1> QED
  BY <1>1, <1>2

\* Every step is a step of RunOnce or leaves who is inside alone.
LEMMA OnceStep ==
  ASSUME LockInv, LockInv', [Next]_vars
  PROVE  [Once!OnceNext]_Inside
<1> USE DEF Stay
<1>1. CASE lock' = lock
  BY <1>1, InsideMoves
<1>2. ASSUME NEW p \in Autos, Leave(p) PROVE [Once!OnceNext]_Inside
  BY <1>2, LeavingIsLeaving DEF Once!OnceNext
<1>3. ASSUME NEW p \in Autos, AcquireLock(p) PROVE [Once!OnceNext]_Inside
  <2>1. CASE lock = Nobody /\ lock' = p
    <3>1. Inside = {}
      BY <2>1, NobodyIsNoAuto DEF LockInv, Inside
    <3>2. Inside' = {p}
      BY <2>1 DEF LockInv, Inside
    <3> QED
      BY <3>1, <3>2 DEF Once!OnceNext, Once!Enter
  <2> QED
    BY <1>2, <1>3, <2>1 DEF AcquireLock
<1>4. ASSUME NEW p \in Autos, RunAuto(p) PROVE [Once!OnceNext]_Inside
  <2>1. CASE FindGuiSession(p) \/ CheckUsb(p) \/ Ask(p) \/ PairingReturns(p)
    BY <2>1, <1>1, <1>2 DEF FindGuiSession, CheckUsb, Ask, PairingReturns
  <2>2. CASE PairedBox(p) \/ WatchUnplug(p) \/ WatchReconnect(p) \/ LastWord(p)
    BY <2>2, <1>1, <1>2 DEF PairedBox, WatchUnplug, WatchReconnect, LastWord
  <2>3. CASE PairingStep(p)
    BY <2>3, <1>1 DEF PairingStep, autoOwn
  <2> QED
    BY <1>3, <1>4, <2>1, <2>2, <2>3 DEF RunAuto
<1>5. ASSUME NEW p \in Program, Kill(p) PROVE [Once!OnceNext]_Inside
  BY <1>5, <1>1, <1>2 DEF Kill, autoOwn
<1>6. CASE World \/ MoveCable \/ UNCHANGED vars
  BY <1>6, <1>1 DEF World, MoveCable, vars, autoOwn
<1>7. CASE \E p \in Autos : Begin(p) \/ Hang(p)
  BY <1>7, <1>1 DEF Begin, Hang
<1>8. CASE \E p \in Program \ Autos : RunCommand(p) \/ PairingStep(p)
  BY <1>8, <1>1 DEF RunCommand, PairingStep, autoOwn
<1> QED
  BY <1>4, <1>5, <1>6, <1>7, <1>8 DEF Next

\* Of all the autopair processes that are started, ended early or killed, one is
\* inside at a time: AutoPair implements RunOnce.
THEOREM OneRunAtATime == Spec => RunsOnce
<1>1. Init => Once!OnceInit
  BY DEF Init, Once!OnceInit, Inside, Holding
<1>2. LockInv /\ LockInv' /\ [Next]_vars => [Once!OnceNext]_Inside
  BY OnceStep
<1> QED
  BY <1>1, <1>2, LockInit, LockStep, PTL DEF Spec, RunsOnce, Once!OnceSpec

-------------------------------------------------------------------------------
(***************************************************************************)
(* Agents                                                                  *)
(***************************************************************************)

\* A run has its agent from RegisterAgent to the answer of Pair, and the agent
\* has its run.
AgentInv ==
  /\ ph \in [Program -> Running \cup {"off", "ok", "err"}]
  /\ agent \subseteq Program
  /\ \A p \in Program : ph[p] \in {"arm", "connect", "connecting", "pair", "pairing"} => p \in agent
  /\ \A p \in agent : ph[p] \notin {"off", "clean", "exchange", "asked"}

LEMMA AgentInit == Init => AgentInv
BY DEF Init, DbusInit, AgentInv, Running

\* A step of run_dbus_pair().
LEMMA RunStepKeepsAgent ==
  ASSUME AgentInv, NEW p \in Program, RunStep(p)
  PROVE  AgentInv'
<1> USE DEF AgentInv, Running, Go
<1>1. CASE RemoveMatchingDevices(p)
  BY <1>1 DEF RemoveMatchingDevices
<1>2. CASE AskForRecord(p) \/ ExchangeReturns(p) \/ ExchangeFails(p)
  BY <1>2 DEF AskForRecord, ExchangeReturns, ExchangeFails
<1>3. CASE RegisterAgent(p)
  BY <1>3 DEF RegisterAgent
<1>4. CASE AddRemoteLegacyOob(p)
  BY <1>4 DEF AddRemoteLegacyOob, GiveUp
<1>5. CASE ConnectDevice(p) \/ Pair(p)
  BY <1>5 DEF ConnectDevice, Pair, Call
<1>6. CASE ConnectReturns(p)
  BY <1>6 DEF ConnectReturns, GiveUp
<1>7. CASE PairReturns(p)
  BY <1>7 DEF PairReturns, GiveUp
<1>8. CASE CheckPaired(p) \/ SetTrusted(p)
  BY <1>8 DEF CheckPaired, SetTrusted
<1> QED
  BY <1>1, <1>2, <1>3, <1>4, <1>5, <1>6, <1>7, <1>8 DEF RunStep

LEMMA StartKeepsAgent ==
  ASSUME AgentInv, NEW p \in Program, Start(p)
  PROVE  AgentInv'
BY DEF AgentInv, Running, Go, Start

LEMMA GoneKeepsAgentInv ==
  ASSUME AgentInv, NEW p \in Program, Gone(p)
  PROVE  AgentInv'
BY DEF AgentInv, Running, Go, Gone

\* Every step.
LEMMA AgentStep == AgentInv /\ [Next]_vars => AgentInv'
<1> SUFFICES ASSUME AgentInv, [Next]_vars PROVE AgentInv'
  OBVIOUS
<1>1. CASE UNCHANGED <<ph, agent>>
  BY <1>1 DEF AgentInv
<1>2. ASSUME NEW p \in Program, PairingStep(p) PROVE AgentInv'
  <2>1. RunStep(p)
    BY <1>2 DEF PairingStep, RunStep
  <2> QED
    BY <2>1, RunStepKeepsAgent
<1>3. ASSUME NEW p \in Program, Exit(p) PROVE AgentInv'
  BY <1>3, GoneKeepsAgentInv DEF Exit
<1>4. ASSUME NEW p \in Autos, RunAuto(p) PROVE AgentInv'
  <2>1. p \in Program
    BY AutoAssumption
  <2>2. CASE AcquireLock(p) \/ FindGuiSession(p) \/ CheckUsb(p) \/ PairedBox(p)
    BY <2>2, <1>1 DEF AcquireLock, FindGuiSession, CheckUsb, PairedBox, dbusVars, own
  <2>3. CASE WatchUnplug(p) \/ WatchReconnect(p) \/ LastWord(p)
    BY <2>3, <1>1 DEF WatchUnplug, WatchReconnect, LastWord, dbusVars, own
  <2>4. CASE Ask(p)
    BY <2>1, <2>4, <1>1, StartKeepsAgent DEF Ask, dbusVars, own
  <2>5. CASE PairingReturns(p)
    BY <2>1, <2>5, <1>3 DEF PairingReturns
  <2> QED
    BY <2>1, <2>2, <2>3, <2>4, <2>5, <1>2, <1>4 DEF RunAuto
<1>5. ASSUME NEW p \in Program, RunCommand(p) PROVE AgentInv'
  BY <1>5, <1>3, StartKeepsAgent DEF RunCommand
<1>6. ASSUME NEW p \in Program, Kill(p) PROVE AgentInv'
  BY <1>6, GoneKeepsAgentInv DEF Kill
<1>7. CASE World
  BY <1>7, <1>1 DEF World, DbusWorld, KeyboardActs, KernelAdds, Serve, LinkLost, Reconnects, own
<1>8. CASE MoveCable \/ UNCHANGED vars \/ (\E p \in Autos : Begin(p) \/ Hang(p))
  BY <1>8, <1>1 DEF MoveCable, Begin, Hang, vars, dbusVars, own
<1> QED
  BY <1>2, <1>4, <1>5, <1>6, <1>7, <1>8 DEF Next

\* No agent outlives the run that registered it, however the run ends.
THEOREM AgentsGo == Spec => []AgentGoesWithRun
<1>1. AgentInv => AgentGoesWithRun
  BY DEF AgentInv, AgentGoesWithRun
<1> QED
  BY <1>1, AgentInit, AgentStep, PTL DEF Spec

\* Whoever waits for Pair has an agent.
THEOREM PairsHaveAgents == Spec => []PairHasAgent
<1>1. AgentInv => PairHasAgent
  BY DEF AgentInv, PairHasAgent
<1> QED
  BY <1>1, AgentInit, AgentStep, PTL DEF Spec

-------------------------------------------------------------------------------
(***************************************************************************)
(* Trusted devices                                                         *)
(***************************************************************************)

\* The keyboard is past an address it was paired at: no connection can come up
\* there any more.
Past(a) == a < kbd.addr \/ (a = kbd.addr /\ kbd.tk = 0)

\* No more records are made than were asked for, and only who waits for one
\* has heard of any.  A trusted device is paired.  A run about to set Trusted has an address the
\* keyboard is past: the device there is still paired, or it was removed and
\* nothing makes bluetoothd know it again.
Keyboard == [addr : Addr, tk : Tk, made : Tk, bond : Tk, asked : Tk]
Calls == [by : Program \cup {Nobody}, op : {"connect", "pair"}, addr : Addr]
TrustInv ==
  /\ ph \in [Program -> Running \cup {"off", "ok", "err"}]
  /\ rec \in [Program -> Record]
  /\ heard \in [Program -> SUBSET Record]
  /\ \A p \in Program : ph[p] # "asked" => heard[p] = {}
  /\ kbd \in Keyboard /\ kbd.addr <= kbd.made /\ kbd.made + kbd.asked <= MaxExchange
  /\ dev \in [Addr -> Device]
  /\ \A a \in Addr : dev[a].trusted => dev[a].paired
  /\ \A a \in Addr : dev[a].paired => dev[a].known /\ Past(a)
  /\ \A p \in Program : ph[p] = "trust" => Past(rec[p].addr) /\ (dev[rec[p].addr].known => dev[rec[p].addr].paired)
  /\ calls \subseteq Calls

\* What a call given up becomes is a call.
LEMMA AbandonedAreCalls == ASSUME calls \subseteq Calls, NEW p PROVE Abandoned(p) \subseteq Calls
<1> SUFFICES ASSUME NEW c \in calls PROVE [c EXCEPT !.by = Nobody] \in Calls
  BY DEF Abandoned
<1>1. c \in Calls
  OBVIOUS
<1> QED
  BY <1>1 DEF Calls

LEMMA TrustInit == Init => TrustInv
<1> SUFFICES ASSUME Init PROVE TrustInv
  OBVIOUS
<1> USE ExchangeAssumption
<1>1. PICK old \in BOOLEAN :
        dev = [a \in Addr |-> IF a = 0 THEN [NoDevice EXCEPT !.known = old, !.paired = old, !.trusted = old]
                                       ELSE NoDevice]
  BY DEF Init, DbusInit
<1> DEFINE e == [NoDevice EXCEPT !.known = old, !.paired = old, !.trusted = old]
<1>2. e \in Device /\ e.known = old /\ e.paired = old /\ e.trusted = old
  <2>1. NoDevice \in Device
    BY DEF Device, NoDevice, Tk
  <2> QED
    BY <2>1 DEF Device
<1>3. dev \in [Addr -> Device]
  <2>1. NoDevice \in Device
    BY DEF Device, NoDevice, Tk
  <2> QED
    BY <1>1, <1>2, <2>1
<1>4. \A a \in Addr : (dev[a].trusted => dev[a].paired) /\ (dev[a].paired => dev[a].known /\ a = 0)
  BY <1>1, <1>2 DEF NoDevice
<1>5. /\ ph \in [Program -> Running \cup {"off", "ok", "err"}]
      /\ rec \in [Program -> Record]
      /\ heard \in [Program -> SUBSET Record] /\ \A p \in Program : heard[p] = {}
      /\ kbd \in Keyboard
      /\ calls = {} /\ kbd.addr = 0 /\ kbd.tk = 0 /\ kbd.made = 0 /\ kbd.asked = 0
      /\ \A p \in Program : ph[p] # "trust"
  BY DEF Init, DbusInit, Running, Record, NoRecord, Keyboard, Addr, Tk
<1> QED
  BY <1>3, <1>4, <1>5 DEF TrustInv, Past

\* What a step leaves alone of these.
trusting == <<ph, rec, heard, kbd, dev, calls>>

LEMMA NothingKeepsTrust == TrustInv /\ UNCHANGED trusting => TrustInv'
BY DEF TrustInv, trusting, Past

\* A process whose place changes, to one that is not just before Trusted, and
\* that has closed its handle or had closed it before.
LEMMA MovingKeepsTrust ==
  ASSUME TrustInv, NEW p \in Program, NEW place \in (Running \cup {"off", "ok", "err"}) \ {"trust"},
         Go(p, place), rec' \in [Program -> Record], \A q \in Program : q # p => rec'[q] = rec[q],
         CloseHandle(p) \/ (UNCHANGED heard /\ ph[p] # "asked"),
         UNCHANGED <<kbd, dev>>, calls' \subseteq Calls
  PROVE  TrustInv'
<1>1. \A q \in Program : ph'[q] = "trust" => q # p /\ ph[q] = "trust" /\ rec'[q] = rec[q]
  BY DEF TrustInv, Go
<1>2. ph' \in [Program -> Running \cup {"off", "ok", "err"}]
  BY DEF TrustInv, Go
<1>3. /\ heard' \in [Program -> SUBSET Record]
      /\ \A q \in Program : ph'[q] # "asked" => heard'[q] = {}
  BY DEF TrustInv, Go, CloseHandle
<1> QED
  BY <1>1, <1>2, <1>3 DEF TrustInv, Past

LEMMA RemovingKeepsTrust ==
  ASSUME TrustInv, NEW p \in Program, RemoveMatchingDevices(p)
  PROVE  TrustInv'
<1> USE DEF RemoveMatchingDevices
<1>1. PICK gone \in SUBSET Addr :
        /\ dev' = [a \in Addr |-> IF a \in gone THEN NoDevice ELSE dev[a]]
        /\ calls' = {c \in calls : ~(c.op = "pair" /\ c.addr \in gone)}
  OBVIOUS
<1>2. NoDevice \in Device /\ ~NoDevice.known /\ ~NoDevice.paired /\ ~NoDevice.trusted
  BY ExchangeAssumption DEF NoDevice, Device, Tk
<1>3. dev' \in [Addr -> Device]
  BY <1>1, <1>2 DEF TrustInv
<1>4. \A a \in Addr : (dev'[a].known => dev'[a] = dev[a]) /\ (dev'[a].paired => dev'[a] = dev[a])
                      /\ (dev'[a].trusted => dev'[a] = dev[a])
  BY <1>1, <1>2
<1>5. /\ ph' \in [Program -> Running \cup {"off", "ok", "err"}]
      /\ \A q \in Program : (ph'[q] = "trust" => ph[q] = "trust") /\ (ph[q] = "asked" => ph'[q] = "asked")
  BY DEF TrustInv, Go, Running
<1>6. \A q \in Program : rec[q].addr \in Addr
  BY DEF TrustInv, Record
<1> QED
  BY <1>1, <1>3, <1>4, <1>5, <1>6 DEF TrustInv, Past

\* A record is asked for.
LEMMA AskingKeepsTrust ==
  ASSUME TrustInv, NEW p \in Program, AskForRecord(p)
  PROVE  TrustInv'
<1> DEFINE k == [kbd EXCEPT !.asked = @ + 1, !.bond = 0]
<1>1. kbd' = k /\ kbd \in Keyboard /\ kbd.made + kbd.asked < MaxExchange
  BY DEF TrustInv, AskForRecord
<1>6. kbd.asked + 1 \in Tk /\ 0 \in Tk /\ kbd.made + (kbd.asked + 1) <= MaxExchange
  BY <1>1, ExchangeAssumption DEF Keyboard, Tk
<1>2. /\ k \in Keyboard /\ k.addr = kbd.addr /\ k.tk = kbd.tk /\ k.made = kbd.made
      /\ k.asked = kbd.asked + 1 /\ k.made + k.asked <= MaxExchange
  BY <1>1, <1>6 DEF Keyboard
<1> HIDE DEF k
<1>3. /\ ph' \in [Program -> Running \cup {"off", "ok", "err"}]
      /\ \A q \in Program : (ph'[q] = "trust" => ph[q] = "trust") /\ (ph[q] = "asked" => ph'[q] = "asked")
  BY DEF TrustInv, AskForRecord, Go, Running
<1>4. UNCHANGED <<rec, heard, dev, calls>>
  BY DEF AskForRecord
<1>5. kbd.addr <= kbd.made
  BY DEF TrustInv
<1> QED
  BY <1>1, <1>2, <1>3, <1>4, <1>5 DEF TrustInv, Past

\* A record is taken.
LEMMA ReturningKeepsTrust ==
  ASSUME TrustInv, NEW p \in Program, ExchangeReturns(p)
  PROVE  TrustInv'
<1>1. PICK r \in heard[p] : rec' = [rec EXCEPT ![p] = r]
  BY DEF ExchangeReturns
<1>2. r \in Record
  BY DEF TrustInv
<1>3. rec' \in [Program -> Record] /\ \A q \in Program : q # p => rec'[q] = rec[q]
  BY <1>1, <1>2 DEF TrustInv
<1>4. Go(p, "agent") /\ CloseHandle(p) /\ UNCHANGED <<kbd, dev, calls>>
  BY DEF ExchangeReturns, world
<1> QED
  BY <1>3, <1>4, MovingKeepsTrust DEF TrustInv, Running

\* An exchange fails.
LEMMA FailingKeepsTrust ==
  ASSUME TrustInv, NEW p \in Program, ExchangeFails(p)
  PROVE  TrustInv'
<1> DEFINE k == [kbd EXCEPT !.bond = 0]
<1>1. kbd' = kbd \/ kbd' = k
  BY DEF ExchangeFails
<1>2. /\ k \in Keyboard /\ k.addr = kbd.addr /\ k.tk = kbd.tk /\ k.made = kbd.made
      /\ k.asked = kbd.asked
  BY ExchangeAssumption DEF TrustInv, Keyboard, Tk
<1> HIDE DEF k
<1>3. /\ ph' \in [Program -> Running \cup {"off", "ok", "err"}]
      /\ \A q \in Program : ph'[q] = "trust" => ph[q] = "trust"
  BY DEF TrustInv, ExchangeFails, Go
<1>4. /\ heard' \in [Program -> SUBSET Record]
      /\ \A q \in Program : ph'[q] # "asked" => heard'[q] = {}
  BY DEF TrustInv, ExchangeFails, Go, CloseHandle
<1>5. UNCHANGED <<rec, dev, calls>>
  BY DEF ExchangeFails
<1> QED
  BY <1>1, <1>2, <1>3, <1>4, <1>5 DEF TrustInv, Past

\* What the keyboard does with a command F3.
LEMMA KeyboardTypes ==
  ASSUME TrustInv, KeyboardActs
  PROVE  /\ kbd.asked > 0 /\ kbd'.asked = kbd.asked - 1
         /\ UNCHANGED <<ph, rec, dev, calls, undisturbed>>
         /\ \/ \E new \in Record :
                 /\ new.tk = kbd.made + 1 /\ new.tk # 0
                 /\ kbd.addr < new.addr \/ (kbd.addr = new.addr /\ kbd.tk # 0)
                 /\ kbd' \in Keyboard /\ kbd'.addr = new.addr /\ kbd'.tk = new.tk /\ kbd'.made = new.tk
                 /\ kbd'.addr <= kbd'.made
                 /\ heard' = [p \in Program |-> IF ph[p] = "asked" THEN heard[p] \cup {new} ELSE heard[p]]
            \/ /\ UNCHANGED heard
               /\ kbd' \in Keyboard /\ kbd'.addr = kbd.addr /\ kbd'.tk = kbd.tk /\ kbd'.made = kbd.made
               /\ kbd'.bond = kbd.bond
<1> USE ExchangeAssumption
<1>1. /\ kbd \in Keyboard /\ kbd.asked > 0 /\ kbd.addr <= kbd.made /\ kbd.made + kbd.asked <= MaxExchange
      /\ kbd.addr \in Nat /\ kbd.made \in Nat /\ kbd.asked \in Nat
      /\ UNCHANGED <<ph, rec, dev, calls, undisturbed>>
  BY DEF TrustInv, KeyboardActs, Keyboard, Addr, Tk
<1>2. CASE MakeRecord
  <2>1. PICK a \in {kbd.addr, kbd.addr + 1} \ {0} :
          /\ a = kbd.addr => kbd.tk # 0
          /\ kbd' = [addr |-> a, tk |-> kbd.made + 1, made |-> kbd.made + 1, bond |-> 0, asked |-> kbd.asked - 1]
          /\ heard' = [p \in Program |-> IF ph[p] = "asked" THEN heard[p] \cup {[addr |-> a, tk |-> kbd.made + 1]} ELSE heard[p]]
    BY <1>2 DEF MakeRecord
  <2> DEFINE new == [addr |-> a, tk |-> kbd.made + 1]
  <2>2. a \in Addr /\ kbd.made + 1 \in Tk /\ kbd.asked - 1 \in Tk /\ 0 \in Tk
    BY <1>1, <2>1 DEF Addr, Tk
  <2>3. /\ new \in Record /\ new.addr = a /\ new.tk = kbd.made + 1
    BY <2>2 DEF Record
  <2>4. /\ kbd' \in Keyboard /\ kbd'.addr = a /\ kbd'.tk = kbd.made + 1 /\ kbd'.made = kbd.made + 1
        /\ kbd'.asked = kbd.asked - 1
    BY <2>1, <2>2 DEF Keyboard
  <2>5. kbd.addr < a \/ (kbd.addr = a /\ kbd.tk # 0)
    BY <1>1, <2>1
  <2>6. a <= kbd.made + 1 /\ kbd.made + 1 # 0
    BY <1>1, <2>1
  <2>7. heard' = [p \in Program |-> IF ph[p] = "asked" THEN heard[p] \cup {new} ELSE heard[p]]
    BY <2>1
  <2> HIDE DEF new
  <2> QED
    BY <1>1, <2>3, <2>4, <2>5, <2>6, <2>7
<1>3. CASE kbd' = [kbd EXCEPT !.asked = @ - 1] /\ UNCHANGED heard
  BY <1>1, <1>3 DEF Keyboard, Tk
<1> QED
  BY <1>2, <1>3 DEF KeyboardActs

LEMMA KeyboardKeepsTrust == TrustInv /\ KeyboardActs => TrustInv'
<1> SUFFICES ASSUME TrustInv, KeyboardActs PROVE TrustInv'
  OBVIOUS
<1>1. /\ UNCHANGED <<ph, rec, dev, calls>> /\ kbd'.asked = kbd.asked - 1
      /\ kbd.made \in Nat /\ kbd.asked \in Nat /\ kbd.addr \in Nat /\ kbd.made + kbd.asked <= MaxExchange
  BY KeyboardTypes, ExchangeAssumption DEF TrustInv, Keyboard, Addr, Tk
<1>2. \A q \in Program : rec[q].addr \in Addr
  BY DEF TrustInv, Record
<1>3. CASE UNCHANGED heard /\ kbd' \in Keyboard /\ kbd'.addr = kbd.addr /\ kbd'.tk = kbd.tk /\ kbd'.made = kbd.made
  BY <1>1, <1>3, ExchangeAssumption DEF TrustInv, Past
<1>4. ASSUME NEW new \in Record,
             /\ new.tk = kbd.made + 1
             /\ kbd.addr < new.addr \/ (kbd.addr = new.addr /\ kbd.tk # 0)
             /\ kbd' \in Keyboard /\ kbd'.addr = new.addr /\ kbd'.tk = new.tk /\ kbd'.made = new.tk
             /\ kbd'.addr <= kbd'.made
             /\ heard' = [p \in Program |-> IF ph[p] = "asked" THEN heard[p] \cup {new} ELSE heard[p]]
      PROVE  TrustInv'
  <2>1. new.addr \in Nat
    BY DEF Record, Addr
  <2>2. \A b \in Addr : Past(b) => Past(b)'
    BY <1>1, <1>4, <2>1 DEF Past, Addr
  <2>3. kbd'.made + kbd'.asked <= MaxExchange
    BY <1>1, <1>4, ExchangeAssumption
  <2>4. /\ heard' \in [Program -> SUBSET Record]
        /\ \A p \in Program : ph[p] # "asked" => heard'[p] = {}
    BY <1>4 DEF TrustInv
  <2> QED
    BY <1>1, <1>2, <1>4, <2>2, <2>3, <2>4 DEF TrustInv
<1> QED
  BY <1>3, <1>4, KeyboardTypes

LEMMA CheckingKeepsTrust ==
  ASSUME TrustInv, NEW p \in Program, CheckPaired(p)
  PROVE  TrustInv'
<1>1. rec[p].addr \in Addr
  BY DEF TrustInv, Record
<1>2. /\ ph' \in [Program -> Running \cup {"off", "ok", "err"}]
      /\ \A q \in Program : ph'[q] = "trust" => ph[q] = "trust" \/ (q = p /\ dev[rec[p].addr].paired)
      /\ \A q \in Program : ph[q] = "asked" => ph'[q] = "asked"
  BY DEF TrustInv, CheckPaired, Go, Running
<1>3. UNCHANGED <<rec, heard, dev, kbd, calls>>
  BY DEF CheckPaired, world
<1> QED
  BY <1>1, <1>2, <1>3 DEF TrustInv, Past

LEMMA TrustingKeepsTrust ==
  ASSUME TrustInv, NEW p \in Program, SetTrusted(p)
  PROVE  TrustInv'
<1>1. /\ ph' \in [Program -> Running \cup {"off", "ok", "err"}]
      /\ \A q \in Program : (ph'[q] = "trust" => ph[q] = "trust") /\ (ph[q] = "asked" => ph'[q] = "asked")
  BY DEF TrustInv, SetTrusted, Go
<1>2. UNCHANGED <<rec, heard, kbd, calls>> /\ ph[p] = "trust"
  BY DEF SetTrusted
<1>3. CASE dev' = dev
  BY <1>1, <1>2, <1>3 DEF TrustInv, Past
<1>4. CASE dev[rec[p].addr].known /\ dev' = [dev EXCEPT ![rec[p].addr].trusted = TRUE]
  <2> DEFINE d == dev[rec[p].addr]
             e == [d EXCEPT !.trusted = TRUE]
  <2>4. \A q \in Program : rec[q].addr \in Addr
    BY DEF TrustInv, Record
  <2>5. d \in Device /\ e \in Device
    BY <2>4 DEF TrustInv, Device
  <2>6. dev' = [dev EXCEPT ![rec[p].addr] = e]
    BY <1>4, <2>4 DEF TrustInv
  <2>7. e.known = d.known /\ e.paired = d.paired
    BY <2>5 DEF Device
  <2> HIDE DEF e
  <2>1. dev' \in [Addr -> Device]
    BY <2>5, <2>6 DEF TrustInv
  <2>2. \A a \in Addr : /\ dev'[a].known = dev[a].known /\ dev'[a].paired = dev[a].paired
                        /\ a # rec[p].addr => dev'[a].trusted = dev[a].trusted
    BY <2>6, <2>7 DEF TrustInv
  <2>3. dev[rec[p].addr].paired
    BY <1>2, <1>4 DEF TrustInv
  <2> QED
    BY <1>1, <1>2, <2>1, <2>2, <2>3, <2>4 DEF TrustInv, Past
<1> QED
  BY <1>3, <1>4 DEF SetTrusted

\* A call that is done.
LEMMA ServingKeepsTrust == TrustInv /\ Serve => TrustInv'
<1> SUFFICES ASSUME TrustInv, Serve PROVE TrustInv'
  OBVIOUS
<1>1. PICK c \in calls : Connected(c) \/ Paired(c) \/ Refused(c)
  BY DEF Serve
<1>2. UNCHANGED <<ph, rec, heard>> /\ calls' \subseteq calls /\ c.addr \in Addr
  BY <1>1 DEF Serve, Connected, Paired, Refused, Done, TrustInv, Calls
<1>3. \A q \in Program : rec[q].addr \in Addr
  BY DEF TrustInv, Record
<1>4. CASE Connected(c)
  <2>1. UNCHANGED kbd /\ ~Past(c.addr)
    BY <1>2, <1>4 DEF Connected, Past, TrustInv, Addr
  <2> DEFINE d == dev[c.addr]
             e == [d EXCEPT !.known = TRUE]
  <2>4. d \in Device /\ e \in Device
    <3>1. dev \in [Addr -> Device]
      BY DEF TrustInv
    <3>2. d \in Device
      BY <1>2, <3>1
    <3> HIDE DEF d
    <3> QED
      BY <3>2 DEF Device
  <2>5. dev' = [dev EXCEPT ![c.addr] = e]
    BY <1>2, <1>4 DEF Connected, TrustInv
  <2>6. e.known /\ e.paired = d.paired /\ e.trusted = d.trusted
    BY <2>4 DEF Device
  <2> HIDE DEF e
  <2>2. dev' \in [Addr -> Device]
    BY <2>4, <2>5 DEF TrustInv
  <2>3. \A a \in Addr : /\ dev'[a].paired = dev[a].paired /\ dev'[a].trusted = dev[a].trusted
                        /\ dev[a].known => dev'[a].known
                        /\ a # c.addr => dev'[a].known = dev[a].known
    BY <2>5, <2>6 DEF TrustInv
  <2>7. \A a \in Addr : Past(a) => Past(a)' /\ a # c.addr
    BY <2>1 DEF Past
  <2>8. \A a \in Addr : dev[a].paired => dev[a].known /\ Past(a)
    BY DEF TrustInv
  <2>9. \A a \in Addr : dev'[a].paired => dev'[a].known /\ Past(a)'
    BY <2>3, <2>7, <2>8
  <2>10. \A q \in Program : ph'[q] = "trust" =>
           Past(rec[q].addr)' /\ (dev'[rec[q].addr].known => dev'[rec[q].addr].paired)
    <3> SUFFICES ASSUME NEW q \in Program, ph[q] = "trust"
                 PROVE  Past(rec[q].addr)' /\ (dev'[rec[q].addr].known => dev'[rec[q].addr].paired)
      BY <1>2
    <3> DEFINE a == rec[q].addr
    <3>1. a \in Addr /\ Past(a) /\ (dev[a].known => dev[a].paired)
      BY <1>3 DEF TrustInv
    <3>2. UNCHANGED rec
      BY <1>2
    <3> QED
      BY <3>1, <3>2, <2>3, <2>7
  <2> HIDE DEF d
  <2> QED
    BY <1>2, <2>1, <2>2, <2>3, <2>9, <2>10 DEF TrustInv
<1>5. CASE Paired(c)
  <2>1. /\ kbd' \in Keyboard /\ kbd'.asked = kbd.asked
        /\ kbd'.addr = kbd.addr /\ kbd'.made = kbd.made /\ kbd'.tk = 0 /\ kbd.addr = c.addr
    <3> DEFINE k == [addr |-> kbd.addr, tk |-> 0, made |-> kbd.made, bond |-> kbd.tk, asked |-> kbd.asked]
    <3>1. kbd' = k
      BY <1>5 DEF Paired, TrustInv, Keyboard
    <3>2. k \in Keyboard
      BY ExchangeAssumption DEF TrustInv, Keyboard, Tk
    <3>3. kbd.addr = c.addr
      BY <1>5 DEF Paired
    <3> QED
      BY <3>1, <3>2, <3>3
  <2> DEFINE d == dev[c.addr]
             e == [d EXCEPT !.paired = TRUE, !.tk = kbd.tk]
  <2>10. kbd.tk \in Tk /\ d \in Device
    BY <1>2 DEF TrustInv, Keyboard
  <2>7. d \in Device /\ e \in Device /\ d.known
    BY <1>5, <2>10 DEF Paired, Device
  <2>8. dev' = [dev EXCEPT ![c.addr] = e]
    BY <1>2, <1>5 DEF Paired, TrustInv
  <2>9. e.known = d.known /\ e.paired
    BY <2>7 DEF Device
  <2> HIDE DEF e
  <2>2. dev' \in [Addr -> Device]
    BY <2>7, <2>8 DEF TrustInv
  <2>3. \A a \in Addr : /\ a # c.addr => dev'[a] = dev[a]
                        /\ dev'[a].known = dev[a].known
    BY <2>8, <2>9 DEF TrustInv
  <2>4. dev'[c.addr].paired /\ dev'[c.addr].known
    BY <1>2, <2>7, <2>8, <2>9 DEF TrustInv
  <2>5. \A a \in Addr : Past(a) => Past(a)'
    BY <2>1 DEF Past
  <2>6. Past(c.addr)'
    BY <1>2, <2>1 DEF Past
  <2> QED
    BY <1>2, <1>3, <2>1, <2>2, <2>3, <2>4, <2>5, <2>6 DEF TrustInv
<1>6. CASE Refused(c)
  BY <1>2, <1>6 DEF Refused, TrustInv, Past
<1> QED
  BY <1>1, <1>4, <1>5, <1>6

\* A run that was started, ended, or was killed.
LEMMA GoneKeepsTrust ==
  ASSUME TrustInv, NEW p \in Program, Gone(p), UNCHANGED <<kbd, dev>>, calls' \subseteq Calls
  PROVE  TrustInv'
<1>1. /\ rec' \in [Program -> Record]
      /\ \A q \in Program : q # p => rec'[q] = rec[q]
  BY ExchangeAssumption DEF TrustInv, Gone, Record, NoRecord, Addr, Tk
<1> QED
  BY <1>1, MovingKeepsTrust DEF Gone

LEMMA StartKeepsTrust ==
  ASSUME TrustInv, NEW p \in Program, Start(p)
  PROVE  TrustInv'
BY MovingKeepsTrust DEF Start, Running, world, TrustInv

\* A step of run_dbus_pair().
LEMMA RunStepKeepsTrust ==
  ASSUME TrustInv, NEW p \in Program, RunStep(p)
  PROVE  TrustInv'
<1> USE DEF Running
<1>1. CASE RegisterAgent(p)
  BY <1>1, MovingKeepsTrust DEF RegisterAgent, world, TrustInv
<1>2. CASE AddRemoteLegacyOob(p)
  BY <1>2, MovingKeepsTrust DEF AddRemoteLegacyOob, GiveUp, TrustInv
<1>3. CASE ConnectDevice(p) \/ Pair(p)
  <2>1. rec[p].addr \in Addr
    BY DEF TrustInv, Record
  <2>2. calls' \subseteq Calls
    BY <1>3, <2>1 DEF ConnectDevice, Pair, Call, TrustInv, Calls
  <2> QED
    BY <1>3, <2>2, MovingKeepsTrust DEF ConnectDevice, Pair, Call, TrustInv
<1>4. Abandoned(p) \subseteq Calls
  BY AbandonedAreCalls DEF TrustInv
<1>5. CASE ConnectReturns(p)
  <2>1. calls' \subseteq Calls
    BY <1>4, <1>5 DEF ConnectReturns, TrustInv
  <2>2. \E place \in {"pair", "err"} : Go(p, place)
    BY <1>5 DEF ConnectReturns, GiveUp
  <2> QED
    BY <1>5, <2>1, <2>2, MovingKeepsTrust DEF ConnectReturns, TrustInv
<1>6. CASE PairReturns(p)
  <2>1. calls' \subseteq Calls
    BY <1>4, <1>6 DEF PairReturns, TrustInv
  <2>2. \E place \in {"check", "err"} : Go(p, place)
    BY <1>6 DEF PairReturns, GiveUp
  <2> QED
    BY <1>6, <2>1, <2>2, MovingKeepsTrust DEF PairReturns, TrustInv
<1> QED
  BY <1>1, <1>2, <1>3, <1>5, <1>6, RemovingKeepsTrust, AskingKeepsTrust, ReturningKeepsTrust, FailingKeepsTrust,
     CheckingKeepsTrust, TrustingKeepsTrust DEF RunStep

\* Every step.
LEMMA TrustStep == TrustInv /\ [Next]_vars => TrustInv'
<1> SUFFICES ASSUME TrustInv, [Next]_vars PROVE TrustInv'
  OBVIOUS
<1>1. CASE UNCHANGED trusting
  BY <1>1, NothingKeepsTrust
<1>2. ASSUME NEW p \in Program, PairingStep(p) PROVE TrustInv'
  <2>1. RunStep(p)
    BY <1>2 DEF PairingStep, RunStep
  <2> QED
    BY <2>1, RunStepKeepsTrust
<1>3. ASSUME NEW p \in Program, Exit(p) PROVE TrustInv'
  BY <1>3, GoneKeepsTrust DEF Exit, world, TrustInv
<1>4. ASSUME NEW p \in Autos, RunAuto(p) PROVE TrustInv'
  <2>1. p \in Program
    BY AutoAssumption
  <2>2. CASE AcquireLock(p) \/ FindGuiSession(p) \/ CheckUsb(p) \/ PairedBox(p)
    BY <2>2, <1>1 DEF AcquireLock, FindGuiSession, CheckUsb, PairedBox, dbusVars, own, world, trusting
  <2>3. CASE WatchUnplug(p) \/ WatchReconnect(p) \/ LastWord(p)
    BY <2>3, <1>1 DEF WatchUnplug, WatchReconnect, LastWord, dbusVars, own, world, trusting
  <2>4. CASE Ask(p)
    BY <2>1, <2>4, <1>1, StartKeepsTrust DEF Ask, dbusVars, own, world, trusting
  <2>5. CASE PairingReturns(p)
    BY <2>1, <2>5, <1>3 DEF PairingReturns
  <2> QED
    BY <2>1, <2>2, <2>3, <2>4, <2>5, <1>2, <1>4 DEF RunAuto
<1>5. ASSUME NEW p \in Program, RunCommand(p) PROVE TrustInv'
  BY <1>5, <1>3, StartKeepsTrust DEF RunCommand
<1>6. ASSUME NEW p \in Program, Kill(p) PROVE TrustInv'
  <2>1. calls' \subseteq Calls
    BY <1>6, AbandonedAreCalls DEF Kill, TrustInv
  <2> QED
    BY <1>6, <2>1, GoneKeepsTrust DEF Kill
<1>7. CASE World
  <2>1. CASE Serve
    BY <2>1, ServingKeepsTrust
  <2>3. CASE KeyboardActs
    BY <2>3, KeyboardKeepsTrust
  <2>2. CASE KernelAdds \/ LinkLost \/ Reconnects
    BY <2>2, <1>1 DEF KernelAdds, LinkLost, Reconnects, own, trusting
  <2> QED
    BY <1>7, <2>1, <2>2, <2>3 DEF World, DbusWorld
<1>8. CASE MoveCable \/ UNCHANGED vars \/ (\E p \in Autos : Begin(p) \/ Hang(p))
  BY <1>8, <1>1 DEF MoveCable, Begin, Hang, vars, dbusVars, own, world, trusting
<1> QED
  BY <1>2, <1>4, <1>5, <1>6, <1>7, <1>8 DEF Next

\* bluetoothd trusts no device it has not paired with: between the check of a run and
\* its setting of Trusted other runs may remove the device, but never bring back
\* an unpaired one at that address.
THEOREM TrustedArePaired == Spec => []TrustedIsPaired
<1>1. TrustInv => TrustedIsPaired
  BY DEF TrustInv, TrustedIsPaired
<1> QED
  BY <1>1, TrustInit, TrustStep, PTL DEF Spec

-------------------------------------------------------------------------------
(***************************************************************************)
(* Bonds                                                                   *)
(***************************************************************************)

\* Both sides have the bond of record r.
TwoSided(r) == dev[r.addr].paired /\ dev[r.addr].tk = r.tk /\ kbd.bond = r.tk

\* The keyboard's latest record is r, and it is unused or has made a bond that both
\* sides have.
Mine(r) ==
  /\ r.tk # 0 /\ kbd.addr = r.addr
  /\ kbd.tk = r.tk \/ (kbd.tk = 0 /\ TwoSided(r))

After == {"agent", "arm", "connect", "connecting", "pair", "pairing", "check", "trust", "ok"}

\* What a run knows at its place when no other run has come between: of the
\* keyboard's commands only its own may still be open, and when that is done
\* with, the record it has heard of is the keyboard's latest.
Good(p) ==
  /\ ph[p] \in {"clean", "exchange"} \cup After => kbd.asked = 0
  /\ ph[p] = "asked" => /\ kbd.asked <= 1
                        /\ kbd.asked = 1 => heard[p] = {}
                        /\ \A r \in heard[p] : Mine(r)
  /\ ph[p] \in After => Mine(rec[p])
  /\ ph[p] \in {"trust", "ok"} => dev[rec[p].addr].paired

\* The keyboard and the bonds stay, or a bond is made.
KeepsBonds ==
  \/ UNCHANGED kbd /\ \A a \in Addr : dev'[a].paired = dev[a].paired /\ dev'[a].tk = dev[a].tk
  \/ \E c \in calls : Paired(c)

\* A device that is paired at the keyboard's address means that the TK is used up.
LEMMA MinePairedIsTwoSided ==
  ASSUME TrustInv, NEW r \in Record, Mine(r), dev[r.addr].paired
  PROVE  TwoSided(r)
<1>1. r.addr \in Addr /\ kbd.addr \in Nat
  BY DEF TrustInv, Record, Keyboard, Addr
<1>2. Past(r.addr)
  BY <1>1 DEF TrustInv
<1> QED
  BY <1>1, <1>2 DEF Mine, Past

LEMMA KeepingIsKeeping ==
  ASSUME TrustInv, KeepsBonds, NEW r \in Record, Mine(r)
  PROVE  /\ dev[r.addr].paired => dev'[r.addr].paired
         /\ r.tk # 0 /\ kbd'.addr = r.addr
         /\ \/ kbd'.tk = r.tk
            \/ kbd'.tk = 0 /\ dev'[r.addr].paired /\ dev'[r.addr].tk = r.tk /\ kbd'.bond = r.tk
         /\ Mine(r)'
<1>1. r.addr \in Addr
  BY DEF Record
<1>2. CASE UNCHANGED kbd /\ \A a \in Addr : dev'[a].paired = dev[a].paired /\ dev'[a].tk = dev[a].tk
  BY <1>1, <1>2 DEF Mine, TwoSided
<1>3. ASSUME NEW c \in calls, Paired(c)
      PROVE  /\ dev'[r.addr].paired /\ dev'[r.addr].tk = r.tk
             /\ kbd'.addr = r.addr /\ kbd'.tk = 0 /\ kbd'.bond = r.tk
  <2>1. c.addr = r.addr /\ kbd.tk = r.tk
    BY <1>3 DEF Paired, Mine
  <2> DEFINE d == dev[r.addr]
             e == [d EXCEPT !.paired = TRUE, !.tk = r.tk]
  <2>2. d \in Device
    BY <1>1 DEF TrustInv
  <2>3. e.paired /\ e.tk = r.tk
    BY <2>2 DEF Device
  <2>4. dev' = [dev EXCEPT ![r.addr] = e]
    BY <1>1, <1>3, <2>1 DEF Paired, TrustInv
  <2>5. dev'[r.addr] = e
    BY <1>1, <2>4 DEF TrustInv
  <2>6. kbd'.addr = kbd.addr /\ kbd'.tk = 0 /\ kbd'.bond = kbd.tk
    BY <1>3 DEF Paired, TrustInv
  <2>7. kbd.addr = r.addr
    BY DEF Mine
  <2> QED
    BY <2>1, <2>3, <2>5, <2>6, <2>7
<1> QED
  BY <1>2, <1>3 DEF KeepsBonds, Mine, TwoSided

\* Such a step gives the keyboard nothing to do.
LEMMA KeepingAsksNothing ==
  ASSUME TrustInv, KeepsBonds PROVE kbd'.asked = kbd.asked
<1>1. ASSUME NEW c \in calls, Paired(c) PROVE kbd'.asked = kbd.asked
  BY <1>1 DEF Paired, TrustInv, Keyboard
<1> QED
  BY <1>1 DEF KeepsBonds

\* The steps of a run that has its record.
LateStep(p) ==
  \/ RegisterAgent(p) \/ AddRemoteLegacyOob(p) \/ ConnectDevice(p) \/ ConnectReturns(p)
  \/ Pair(p) \/ PairReturns(p) \/ CheckPaired(p) \/ SetTrusted(p)

LEMMA LateStepKeepsBonds ==
  ASSUME TrustInv, NEW p \in Program, LateStep(p)
  PROVE  KeepsBonds /\ UNCHANGED rec /\ rec[p] \in Record
<1>1. rec[p] \in Record /\ rec[p].addr \in Addr
  BY DEF TrustInv, Record
<1>2. CASE SetTrusted(p)
  <2>1. CASE dev' = dev
    BY <1>1, <1>2, <2>1 DEF SetTrusted, KeepsBonds
  <2>2. CASE dev' = [dev EXCEPT ![rec[p].addr].trusted = TRUE]
    <3> DEFINE d == dev[rec[p].addr]
               e == [d EXCEPT !.trusted = TRUE]
    <3>1. d \in Device
      BY <1>1 DEF TrustInv
    <3>2. e.paired = d.paired /\ e.tk = d.tk
      BY <3>1 DEF Device
    <3>3. dev' = [dev EXCEPT ![rec[p].addr] = e]
      BY <1>1, <2>2 DEF TrustInv
    <3> HIDE DEF e
    <3>4. \A a \in Addr : dev'[a].paired = dev[a].paired /\ dev'[a].tk = dev[a].tk
      BY <3>2, <3>3 DEF TrustInv
    <3> QED
      BY <1>1, <1>2, <3>4 DEF SetTrusted, KeepsBonds
  <2> QED
    BY <1>2, <2>1, <2>2 DEF SetTrusted
<1>3. CASE RegisterAgent(p) \/ AddRemoteLegacyOob(p) \/ CheckPaired(p)
  BY <1>1, <1>3 DEF RegisterAgent, AddRemoteLegacyOob, CheckPaired, world, KeepsBonds
<1>4. CASE ConnectDevice(p) \/ ConnectReturns(p) \/ Pair(p) \/ PairReturns(p)
  BY <1>1, <1>4 DEF ConnectDevice, ConnectReturns, Pair, PairReturns, Call, KeepsBonds
<1> QED
  BY <1>2, <1>3, <1>4 DEF LateStep

\* Where such a step starts, and where it goes.
LEMMA LateStepMoves ==
  ASSUME TrustInv, NEW p \in Program, LateStep(p)
  PROVE  /\ ph[p] \in After
         /\ \E place \in Running \cup {"ok", "err"} : ph' = [ph EXCEPT ![p] = place]
         /\ ph'[p] \in {"trust", "ok"} => dev[rec[p].addr].paired \/ ph[p] \in {"trust", "ok"}
         /\ ph'[p] # "asked"
<1> USE DEF Go, GiveUp, After, Running, TrustInv
<1>1. CASE RegisterAgent(p) \/ AddRemoteLegacyOob(p)
  BY <1>1 DEF RegisterAgent, AddRemoteLegacyOob
<1>2. CASE ConnectDevice(p) \/ Pair(p)
  BY <1>2 DEF ConnectDevice, Pair
<1>3. CASE ConnectReturns(p)
  BY <1>3 DEF ConnectReturns
<1>4. CASE PairReturns(p)
  BY <1>4 DEF PairReturns
<1>5. CASE CheckPaired(p)
  BY <1>5 DEF CheckPaired
<1>6. CASE SetTrusted(p)
  BY <1>6 DEF SetTrusted
<1> QED
  BY <1>1, <1>2, <1>3, <1>4, <1>5, <1>6 DEF LateStep

\* Good(p), and nobody else is at work.
Alone(p) == Good(p) /\ \A q \in Program \ {p} : ph[q] \notin Running

\* A run's own step.
LEMMA RunStepKeepsAlone ==
  ASSUME TrustInv, TrustInv', NEW p \in Program, Alone(p), RunStep(p)
  PROVE  Alone(p)'
<1>1. /\ rec[p] \in Record /\ rec'[p] \in Record
      /\ \E place \in Running \cup {"ok", "err"} : ph' = [ph EXCEPT ![p] = place]
  <2>1. CASE LateStep(p)
    BY <2>1, LateStepMoves DEF TrustInv
  <2>2. CASE RemoveMatchingDevices(p) \/ AskForRecord(p) \/ ExchangeReturns(p) \/ ExchangeFails(p)
    BY <2>2 DEF RemoveMatchingDevices, AskForRecord, ExchangeReturns, ExchangeFails, Go, TrustInv, Running
  <2> QED
    BY <2>1, <2>2 DEF RunStep, LateStep, TrustInv
<1>2. \A q \in Program \ {p} : ph'[q] \notin Running
  BY <1>1 DEF Alone, TrustInv
<1>3. CASE RemoveMatchingDevices(p)
  <2>1. ph'[p] = "exchange" /\ ph[p] = "clean" /\ UNCHANGED kbd
    BY <1>3 DEF RemoveMatchingDevices, Go, TrustInv
  <2> QED
    BY <1>2, <2>1 DEF Alone, Good, After
<1>4. CASE ExchangeFails(p)
  <2>1. ph'[p] = "err"
    BY <1>4 DEF ExchangeFails, Go, TrustInv
  <2> QED
    BY <1>2, <2>1 DEF Alone, Good, After
<1>5. CASE AskForRecord(p)
  <2>1. ph'[p] = "asked" /\ ph[p] = "exchange" /\ UNCHANGED heard
    BY <1>5 DEF AskForRecord, Go, TrustInv
  <2>2. kbd.asked = 0 /\ heard[p] = {}
    BY <2>1 DEF Alone, Good, TrustInv
  <2>3. kbd'.asked = 1
    BY <1>5, <2>2 DEF AskForRecord, TrustInv, Keyboard
  <2> QED
    BY <1>2, <2>1, <2>2, <2>3 DEF Alone, Good, After
<1>7. CASE ExchangeReturns(p)
  <2>1. ph'[p] = "agent" /\ ph[p] = "asked" /\ UNCHANGED <<kbd, dev>>
    BY <1>7 DEF ExchangeReturns, Go, TrustInv, world
  <2>2. PICK r \in heard[p] : rec' = [rec EXCEPT ![p] = r]
    BY <1>7 DEF ExchangeReturns
  <2>3. rec'[p] = r
    BY <2>2 DEF TrustInv
  <2>8. heard[p] # {}
    BY <2>2
  <2>4. Mine(r) /\ kbd.asked <= 1 /\ kbd.asked # 1
    BY <2>1, <2>2, <2>8 DEF Alone, Good
  <2>5. kbd.asked \in Nat
    BY ExchangeAssumption DEF TrustInv, Keyboard, Tk
  <2>6. kbd'.asked = 0
    BY <2>1, <2>4, <2>5
  <2>7. Mine(rec[p])'
    BY <2>1, <2>3, <2>4 DEF Mine, TwoSided
  <2> QED
    BY <1>2, <2>1, <2>6, <2>7 DEF Alone, Good
<1>6. CASE LateStep(p)
  <2>1. KeepsBonds /\ UNCHANGED rec
    BY <1>6, LateStepKeepsBonds
  <2>2. /\ ph[p] \in After
        /\ ph'[p] \in {"trust", "ok"} => dev[rec[p].addr].paired \/ ph[p] \in {"trust", "ok"}
    BY <1>6, LateStepMoves
  <2>3. Mine(rec[p])
    BY <2>2 DEF Alone, Good
  <2> DEFINE r == rec[p]
  <2>4. /\ dev[r.addr].paired => dev'[r.addr].paired
        /\ r.tk # 0 /\ kbd'.addr = r.addr
        /\ \/ kbd'.tk = r.tk
           \/ kbd'.tk = 0 /\ dev'[r.addr].paired /\ dev'[r.addr].tk = r.tk /\ kbd'.bond = r.tk
    BY <1>1, <2>1, <2>3, KeepingIsKeeping
  <2>5. Mine(rec[p])'
    BY <2>1, <2>4 DEF Mine, TwoSided
  <2>6. ph'[p] \in {"trust", "ok"} => dev'[rec'[p].addr].paired
    BY <2>1, <2>2, <2>4 DEF Alone, Good
  <2>7. kbd'.asked = 0 /\ ph'[p] # "asked"
    BY <1>6, <2>1, <2>2, KeepingAsksNothing, LateStepMoves DEF Alone, Good
  <2> QED
    BY <1>2, <2>5, <2>6, <2>7 DEF Alone, Good
<1> QED
  BY <1>3, <1>4, <1>5, <1>6, <1>7 DEF RunStep, LateStep

\* A run that works keeps every other from being alone.
LEMMA RunningIsAlone ==
  ASSUME TrustInv, NEW p \in Program, NEW q \in Program, Alone(p), RunStep(q)
  PROVE  q = p
BY DEF Alone, RunStep, RemoveMatchingDevices, AskForRecord, ExchangeReturns, ExchangeFails, RegisterAgent, AddRemoteLegacyOob,
       ConnectDevice, ConnectReturns, Pair, PairReturns, CheckPaired, SetTrusted, Running

\* A step that leaves the programs alone.
LEMMA QuietKeepsAlone ==
  ASSUME TrustInv, NEW p \in Program, Alone(p), KeepsBonds, UNCHANGED <<ph, rec, heard>>
  PROVE  Alone(p)'
<1>1. rec[p] \in Record /\ heard[p] \subseteq Record /\ kbd'.asked = kbd.asked
  BY KeepingAsksNothing DEF TrustInv
<1>2. CASE ph[p] \in After
  <2>1. Mine(rec[p])
    BY <1>2 DEF Alone, Good
  <2> DEFINE r == rec[p]
  <2>2. /\ dev[r.addr].paired => dev'[r.addr].paired
        /\ r.tk # 0 /\ kbd'.addr = r.addr
        /\ \/ kbd'.tk = r.tk
           \/ kbd'.tk = 0 /\ dev'[r.addr].paired /\ dev'[r.addr].tk = r.tk /\ kbd'.bond = r.tk
    BY <1>1, <2>1, KeepingIsKeeping
  <2>3. Mine(rec[p])'
    BY <2>2 DEF Mine, TwoSided
  <2> QED
    BY <1>1, <1>2, <2>2, <2>3 DEF Alone, Good, After
<1>3. CASE ph[p] \notin After
  <2>1. ASSUME NEW r \in heard[p], Mine(r) PROVE Mine(r)'
    BY <1>1, <2>1, KeepingIsKeeping
  <2> QED
    BY <1>1, <1>3, <2>1 DEF Alone, Good, After
<1> QED
  BY <1>2, <1>3

\* The keyboard makes a record, or loses a command.
LEMMA KeyboardKeepsAlone ==
  ASSUME TrustInv, NEW p \in Program, Alone(p), KeyboardActs
  PROVE  Alone(p)'
<1>1. kbd.asked > 0 /\ kbd.asked \in Nat /\ kbd'.asked = kbd.asked - 1 /\ UNCHANGED <<ph, rec, dev>>
  BY KeyboardTypes, ExchangeAssumption DEF TrustInv, Keyboard, Tk
<1>2. ph[p] \notin {"clean", "exchange"} \cup After
  BY <1>1 DEF Alone, Good
<1>3. CASE ph[p] = "asked"
  <2>4. kbd.asked <= 1 /\ (kbd.asked = 1 => heard[p] = {})
    BY <1>3 DEF Alone, Good
  <2>1. heard[p] = {} /\ kbd'.asked = 0
    BY <1>1, <2>4
  <2>2. \A r \in heard'[p] : r.tk # 0 /\ kbd'.addr = r.addr /\ kbd'.tk = r.tk
    BY <1>3, <2>1, KeyboardTypes
  <2>3. \A r \in heard'[p] : Mine(r)'
    BY <2>2 DEF Mine
  <2> QED
    BY <1>1, <1>2, <2>1, <2>3 DEF Alone, Good
<1>4. CASE ph[p] # "asked"
  BY <1>1, <1>2, <1>4 DEF Alone, Good, After
<1> QED
  BY <1>3, <1>4

LEMMA StartIsAlone ==
  ASSUME TrustInv, NEW p \in Program, Start(p), Idle(Program \ {p})
  PROVE  Alone(p)'
<1>1. /\ ph'[p] = "clean" /\ UNCHANGED kbd /\ kbd.asked = 0
      /\ \A q \in Program \ {p} : ph'[q] = ph[q] /\ ph[q] \notin Running
  BY DEF Start, Go, Idle, TrustInv, world
<1> QED
  BY <1>1 DEF Alone, Good, After

LEMMA GoneKeepsAlone ==
  ASSUME TrustInv, NEW p \in Program, NEW q \in Program, Alone(p), Gone(q), UNCHANGED <<kbd, dev>>
  PROVE  Alone(p)'
<1>1. /\ ph'[q] = "off"
      /\ \A r \in Program \ {q} : ph'[r] = ph[r] /\ rec'[r] = rec[r] /\ heard'[r] = heard[r]
  BY DEF Gone, Go, CloseHandle, TrustInv
<1>2. \A r \in Program \ {p} : ph'[r] \notin Running
  BY <1>1 DEF Alone, Running
<1>3. CASE p = q
  BY <1>1, <1>2, <1>3 DEF Alone, Good, After
<1>4. CASE p # q
  <2>1. ph'[p] = ph[p] /\ rec'[p] = rec[p] /\ heard'[p] = heard[p] /\ UNCHANGED <<kbd, dev>>
    BY <1>1, <1>4
  <2> QED
    BY <1>2, <2>1 DEF Alone, Good, Mine, TwoSided
<1> QED
  BY <1>3, <1>4

\* The steps of the world that are no step of a program.
LEMMA WorldKeepsBonds ==
  ASSUME TrustInv, World
  PROVE  KeyboardActs \/ (KeepsBonds /\ UNCHANGED <<ph, rec, heard, undisturbed>>)
<1>1. CASE KernelAdds \/ LinkLost \/ Reconnects
  BY <1>1 DEF KernelAdds, LinkLost, Reconnects, own, KeepsBonds
<1>2. CASE Serve
  <2>1. UNCHANGED <<ph, rec, heard, undisturbed>>
    BY <1>2 DEF Serve
  <2>2. PICK c \in calls : Connected(c) \/ Paired(c) \/ Refused(c)
    BY <1>2 DEF Serve
  <2>3. CASE Paired(c) \/ Refused(c)
    BY <2>1, <2>3 DEF Refused, KeepsBonds
  <2>4. CASE Connected(c)
    <3>1. c.addr \in Addr
      BY DEF TrustInv, Calls
    <3> DEFINE d == dev[c.addr]
               e == [d EXCEPT !.known = TRUE]
    <3>2. d \in Device
      BY <3>1 DEF TrustInv
    <3>3. e.paired = d.paired /\ e.tk = d.tk
      BY <3>2 DEF Device
    <3>4. dev' = [dev EXCEPT ![c.addr] = e]
      BY <2>4, <3>1 DEF Connected, TrustInv
    <3> HIDE DEF e
    <3>5. \A a \in Addr : dev'[a].paired = dev[a].paired /\ dev'[a].tk = dev[a].tk
      BY <3>3, <3>4 DEF TrustInv
    <3> QED
      BY <2>1, <2>4, <3>5 DEF Connected, KeepsBonds
  <2> QED
    BY <2>2, <2>3, <2>4
<1> QED
  BY <1>1, <1>2 DEF World, DbusWorld

\* A run nobody came between is alone, and the bond is its own.
MineInv ==
  /\ undisturbed \in [Program -> BOOLEAN]
  /\ \A p \in Program : undisturbed[p] => Alone(p)

LEMMA MineInit == Init => MineInv
BY DEF Init, DbusInit, MineInv

\* A step of a run.
LEMMA RunStepKeepsMine ==
  ASSUME TrustInv, TrustInv', MineInv, NEW q \in Program, RunStep(q)
  PROVE  MineInv'
<1>1. UNCHANGED undisturbed
  BY DEF RunStep, RemoveMatchingDevices, AskForRecord, ExchangeReturns, ExchangeFails, RegisterAgent, AddRemoteLegacyOob,
         ConnectDevice, ConnectReturns, Pair, PairReturns, CheckPaired, SetTrusted, Call
<1>2. ASSUME NEW p \in Program, undisturbed[p] PROVE Alone(p)'
  <2>1. Alone(p)
    BY <1>2 DEF MineInv
  <2>2. q = p
    BY <2>1, RunningIsAlone
  <2> QED
    BY <2>1, <2>2, RunStepKeepsAlone
<1> QED
  BY <1>1, <1>2 DEF MineInv

LEMMA StartKeepsMine ==
  ASSUME TrustInv, MineInv, NEW q \in Program, Start(q)
  PROVE  MineInv'
<1>1. /\ undisturbed' \in [Program -> BOOLEAN]
      /\ \A p \in Program : undisturbed'[p] => p = q /\ Idle(Program \ {q})
  BY DEF Start, Idle
<1> QED
  BY <1>1, StartIsAlone DEF MineInv

LEMMA GoneKeepsMine ==
  ASSUME TrustInv, MineInv, NEW q \in Program, Gone(q), UNCHANGED <<kbd, dev>>
  PROVE  MineInv'
<1>1. /\ undisturbed' \in [Program -> BOOLEAN]
      /\ \A p \in Program : undisturbed'[p] => undisturbed[p]
  BY DEF Gone, MineInv
<1> QED
  BY <1>1, GoneKeepsAlone DEF MineInv

LEMMA QuietKeepsMine ==
  ASSUME TrustInv, MineInv, KeepsBonds, UNCHANGED <<ph, rec, heard, undisturbed>>
  PROVE  MineInv'
BY QuietKeepsAlone DEF MineInv

\* What the steps outside of run_dbus_pair() leave alone.
bonding == <<ph, rec, heard, kbd, dev, undisturbed>>

LEMMA NothingKeepsMine == TrustInv /\ MineInv /\ UNCHANGED bonding => MineInv'
BY QuietKeepsMine DEF bonding, KeepsBonds

LEMMA MineStep == TrustInv /\ TrustInv' /\ MineInv /\ [Next]_vars => MineInv'
<1> SUFFICES ASSUME TrustInv, TrustInv', MineInv, [Next]_vars PROVE MineInv'
  OBVIOUS
<1>1. CASE UNCHANGED bonding
  BY <1>1, NothingKeepsMine
<1>2. ASSUME NEW p \in Program, PairingStep(p) PROVE MineInv'
  <2>1. RunStep(p)
    BY <1>2 DEF PairingStep, RunStep
  <2> QED
    BY <2>1, RunStepKeepsMine
<1>3. ASSUME NEW p \in Program, Exit(p) PROVE MineInv'
  BY <1>3, GoneKeepsMine DEF Exit, world
<1>4. ASSUME NEW p \in Autos, RunAuto(p) PROVE MineInv'
  <2>1. p \in Program
    BY AutoAssumption
  <2>2. CASE AcquireLock(p) \/ FindGuiSession(p) \/ CheckUsb(p) \/ PairedBox(p)
    BY <2>2, <1>1 DEF AcquireLock, FindGuiSession, CheckUsb, PairedBox, dbusVars, own, world, bonding
  <2>3. CASE WatchUnplug(p) \/ WatchReconnect(p) \/ LastWord(p)
    BY <2>3, <1>1 DEF WatchUnplug, WatchReconnect, LastWord, dbusVars, own, world, bonding
  <2>4. CASE Ask(p)
    BY <2>1, <2>4, <1>1, StartKeepsMine DEF Ask, dbusVars, own, world, bonding
  <2>5. CASE PairingReturns(p)
    BY <2>1, <2>5, <1>3 DEF PairingReturns
  <2> QED
    BY <2>1, <2>2, <2>3, <2>4, <2>5, <1>2, <1>4 DEF RunAuto
<1>5. ASSUME NEW p \in Program, RunCommand(p) PROVE MineInv'
  BY <1>5, <1>3, StartKeepsMine DEF RunCommand
<1>6. ASSUME NEW p \in Program, Kill(p) PROVE MineInv'
  BY <1>6, GoneKeepsMine DEF Kill
<1>7. CASE World
  <2>1. KeyboardActs => UNCHANGED undisturbed
    BY DEF KeyboardActs
  <2> QED
    BY <1>7, <2>1, WorldKeepsBonds, QuietKeepsMine, KeyboardKeepsAlone DEF MineInv
<1>8. CASE MoveCable \/ UNCHANGED vars \/ (\E p \in Autos : Begin(p) \/ Hang(p))
  BY <1>8, <1>1 DEF MoveCable, Begin, Hang, vars, dbusVars, own, world, bonding
<1> QED
  BY <1>2, <1>4, <1>5, <1>6, <1>7, <1>8 DEF Next

\* A run that reports success, and that no other came between, has its own bond
\* on both sides.
THEOREM SuccessesAreTwoSided == Spec => []SuccessIsTwoSided
<1>1. TrustInv /\ MineInv => SuccessIsTwoSided
  <2> SUFFICES ASSUME TrustInv, MineInv, NEW p \in Program, ph[p] = "ok", undisturbed[p]
               PROVE  TwoSided(rec[p])
    BY DEF SuccessIsTwoSided, TwoSided
  <2>1. rec[p] \in Record /\ Mine(rec[p]) /\ dev[rec[p].addr].paired
    BY DEF TrustInv, MineInv, Alone, Good, After
  <2> QED
    BY <2>1, MinePairedIsTwoSided
<1> QED
  BY <1>1, TrustInit, TrustStep, MineInit, MineStep, PTL DEF Spec

-------------------------------------------------------------------------------
(***************************************************************************)
(* What autopair tells the user                                            *)
(***************************************************************************)

\* The places from "Keyboard paired" on.
Told == {"paired", "unplug", "reconnect", "confirmed", "missed"}

\* The bond of record r is there, and the keyboard has nothing to do.
Kept(r) == r \in Record /\ Mine(r) /\ dev[r.addr].paired /\ kbd.asked = 0

\* An autopair process is in run_dbus_pair() while it is at "pairing", and may hang
\* in it.  While no command has come between, the run's bond is its own, from the
\* pairing to the end.
AutoInv ==
  /\ got \in [Autos -> Record]
  /\ unmixed \in [Autos -> BOOLEAN]
  /\ \A p \in Autos : at[p] = "pairing" => ph[p] # "off"
  /\ \A p \in Autos : ph[p] # "off" => at[p] \in {"pairing", "stuck"}
  /\ \A p \in Autos : unmixed[p] =>
       /\ at[p] \in Told \cup {"pairing", "failed"}
       /\ \A q \in Program \ Autos : ph[q] \notin Running
       /\ at[p] = "pairing" => Good(p)
       /\ at[p] \in Told => Kept(got[p])

LEMMA AutoInit == Init => AutoInv
<1> SUFFICES ASSUME Init PROVE AutoInv
  OBVIOUS
<1>1. NoRecord \in Record
  BY ExchangeAssumption DEF NoRecord, Record, Addr, Tk
<1> QED
  BY <1>1, AutoAssumption DEF Init, DbusInit, AutoInv

\* Only the holder of the lock pairs, so an unmixed run at "pairing" is alone.
LEMMA UnmixedIsAlone ==
  ASSUME LockInv, AutoInv, NEW p \in Autos, unmixed[p], at[p] = "pairing"
  PROVE  Alone(p)
<1>1. \A q \in Autos \ {p} : at[q] \notin {"pairing", "stuck"}
  BY DEF LockInv, Holding
<1>2. \A q \in Autos \ {p} : ph[q] = "off"
  BY <1>1 DEF AutoInv
<1> QED
  BY <1>2 DEF AutoInv, Alone, Running

\* After it, nobody pairs at all.
LEMMA UnmixedIsQuiet ==
  ASSUME LockInv, AutoInv, NEW p \in Autos, unmixed[p], at[p] \in Told
  PROVE  \A q \in Program : ph[q] \notin Running
<1>1. \A q \in Autos : at[q] \notin {"pairing", "stuck"}
  BY DEF LockInv, Holding, Told
<1>2. \A q \in Autos : ph[q] = "off"
  BY <1>1 DEF AutoInv
<1> QED
  BY <1>2 DEF AutoInv, Running

\* A bond that is kept through a step that makes no other.
LEMMA KeptIsKept ==
  ASSUME TrustInv, KeepsBonds, NEW r, Kept(r)
  PROVE  Kept(r)'
<1>1. r \in Record /\ Mine(r)
  BY DEF Kept
<1>2. /\ dev[r.addr].paired => dev'[r.addr].paired
      /\ r.tk # 0 /\ kbd'.addr = r.addr
      /\ \/ kbd'.tk = r.tk
         \/ kbd'.tk = 0 /\ dev'[r.addr].paired /\ dev'[r.addr].tk = r.tk /\ kbd'.bond = r.tk
  BY <1>1, KeepingIsKeeping
<1> QED
  BY <1>2, KeepingAsksNothing DEF Kept, Mine, TwoSided

\* An autopair process that goes on, outside of run_dbus_pair().
LEMMA MovingKeepsAuto ==
  ASSUME LockInv, TrustInv, AutoInv, NEW p \in Autos, NEW place \in Busy \ {"pairing", "stuck"}, At(p, place),
         at[p] \notin {"pairing", "failed", "stuck"}, at[p] \in Told => place \in Told,
         UNCHANGED <<ph, rec, heard, kbd, dev, got, unmixed>>
  PROVE  AutoInv'
<1>1. at'[p] = place /\ \A q \in Autos \ {p} : at'[q] = at[q]
  BY DEF LockInv, At
<1>2. \A q \in Autos : unmixed[q] => (at[q] \in Told => at'[q] \in Told) /\ (at'[q] \in Told => at[q] \in Told)
  BY <1>1 DEF AutoInv
<1>3. \A q \in Autos : /\ at'[q] = "pairing" <=> at[q] = "pairing"
                       /\ at'[q] = "stuck" <=> at[q] = "stuck"
                       /\ at[q] = "failed" => at'[q] = "failed"
  BY <1>1
<1>4. \A q \in Autos : unmixed[q] => at'[q] \in Told \cup {"pairing", "failed"}
  BY <1>2, <1>3 DEF AutoInv
<1>5. \A q \in Autos : unmixed[q] => (Good(q) <=> Good(q)') /\ (Kept(got[q]) <=> Kept(got[q])')
  BY DEF Good, Kept, Mine, TwoSided
<1> QED
  BY <1>2, <1>3, <1>4, <1>5 DEF AutoInv

\* An autopair process that ends.
LEMMA LeavingKeepsAuto ==
  ASSUME LockInv, TrustInv, AutoInv, NEW p \in Autos, Leave(p), ph'[p] = "off",
         \A q \in Program \ {p} : ph'[q] = ph[q] /\ rec'[q] = rec[q] /\ heard'[q] = heard[q],
         UNCHANGED <<kbd, dev>>
  PROVE  AutoInv'
<1>1. at'[p] = "off" /\ \A q \in Autos \ {p} : at'[q] = at[q]
  BY DEF LockInv, Leave, At
<1>2. /\ got' \in [Autos -> Record] /\ unmixed' \in [Autos -> BOOLEAN] /\ ~unmixed'[p]
      /\ \A q \in Autos \ {p} : got'[q] = got[q] /\ unmixed'[q] = unmixed[q]
  BY ExchangeAssumption DEF AutoInv, Leave, NoRecord, Record, Addr, Tk
<1>3. \A q \in Autos \ {p} : (Good(q) <=> Good(q)') /\ (Kept(got[q]) <=> Kept(got[q])')
  BY <1>2, AutoAssumption DEF Good, Kept, Mine, TwoSided
<1>4. \A q \in Program \ Autos : ph'[q] = ph[q]
  OBVIOUS
<1>5. \A q \in Autos : /\ at'[q] = "pairing" => ph'[q] # "off"
                       /\ ph'[q] # "off" => at'[q] \in {"pairing", "stuck"}
  BY <1>1, AutoAssumption DEF AutoInv
<1> QED
  BY <1>1, <1>2, <1>3, <1>4, <1>5 DEF AutoInv

\* A command that starts, ends or is killed.
LEMMA CommandKeepsAuto ==
  ASSUME LockInv, TrustInv, AutoInv, NEW p \in Program \ Autos, Gone(p), UNCHANGED <<kbd, dev, at, got, unmixed>>
  PROVE  AutoInv'
<1>1. \A q \in Program \ {p} : ph'[q] = ph[q] /\ rec'[q] = rec[q] /\ heard'[q] = heard[q]
  BY DEF Gone, Go, CloseHandle, TrustInv
<1>2. ph'[p] \notin Running
  BY DEF Gone, Go, TrustInv, Running
<1>3. \A q \in Autos : ph'[q] = ph[q] /\ (Good(q) <=> Good(q)') /\ (Kept(got[q]) <=> Kept(got[q])')
  BY <1>1, AutoAssumption DEF Good, Kept, Mine, TwoSided
<1>4. \A q \in Program \ Autos : ph[q] \notin Running => ph'[q] \notin Running
  BY <1>1, <1>2
<1> QED
  BY <1>3, <1>4 DEF AutoInv

LEMMA CommandStartKeepsAuto ==
  ASSUME LockInv, TrustInv, AutoInv, NEW p \in Program \ Autos, Start(p), UNCHANGED <<at, got>>,
         unmixed' = [q \in Autos |-> FALSE]
  PROVE  AutoInv'
<1>1. \A q \in Autos : ph'[q] = ph[q] /\ ~unmixed'[q]
  BY AutoAssumption DEF Start, Go, TrustInv
<1> QED
  BY <1>1 DEF AutoInv

\* The answer is yes, and the pairing begins.
LEMMA AskKeepsAuto ==
  ASSUME LockInv, TrustInv, AutoInv, NEW p \in Autos, Ask(p), Start(p), At(p, "pairing"), UNCHANGED got,
         unmixed' = [unmixed EXCEPT ![p] = Idle(Program \ Autos)]
  PROVE  AutoInv'
<1>1. at'[p] = "pairing" /\ \A q \in Autos \ {p} : at'[q] = at[q]
  BY DEF LockInv, At
<1>2. /\ ph'[p] = "clean"
      /\ \A q \in Program \ {p} : ph'[q] = ph[q]
      /\ UNCHANGED <<rec, kbd, dev>>
  BY AutoAssumption DEF Start, Go, TrustInv, world
<1>3. \A q \in Autos : q # p => ~unmixed[q]
  <2>1. \A q \in Autos : q # p => at[q] \notin Told \cup {"pairing", "failed"}
    BY DEF LockInv, Ask, Holding, Told
  <2> QED
    BY <2>1 DEF AutoInv
<1>4. /\ unmixed' \in [Autos -> BOOLEAN]
      /\ unmixed'[p] => kbd.asked = 0 /\ \A q \in Program \ Autos : ph[q] \notin Running
      /\ \A q \in Autos : q # p => ~unmixed'[q]
  BY <1>3 DEF AutoInv, Idle
<1>5. \A q \in Autos : /\ at'[q] = "pairing" => ph'[q] # "off"
                       /\ ph'[q] # "off" => at'[q] \in {"pairing", "stuck"}
  BY <1>1, <1>2, AutoAssumption DEF AutoInv
<1>6. unmixed'[p] => Good(p)'
  BY <1>2, <1>4 DEF Good, After
<1> QED
  BY <1>1, <1>2, <1>4, <1>5, <1>6 DEF AutoInv, Told

\* run_dbus_pair() returns.
LEMMA ReturningKeepsAuto ==
  ASSUME LockInv, TrustInv, AutoInv, NEW p \in Autos, PairingReturns(p)
  PROVE  AutoInv'
<1>1. at[p] = "pairing" /\ ph[p] \in {"ok", "err"} /\ Gone(p) /\ UNCHANGED <<kbd, dev, unmixed>>
  BY DEF PairingReturns, Exit, world
<1>2. /\ ph'[p] = "off"
      /\ \A q \in Program \ {p} : ph'[q] = ph[q]
  BY <1>1, AutoAssumption DEF Gone, Go, TrustInv
<1>3. \A q \in Autos : q # p => ~unmixed[q]
  <2>1. \A q \in Autos : q # p => at[q] \notin Told \cup {"pairing", "failed"}
    BY <1>1 DEF LockInv, Holding, Told
  <2> QED
    BY <2>1 DEF AutoInv
<1>4. \A q \in Autos \ {p} : at'[q] = at[q]
  BY DEF LockInv, PairingReturns, At
<1>5. \A q \in Program \ Autos : ph'[q] = ph[q]
  BY <1>2
<1>6. CASE ph[p] = "ok"
  <2>1. at'[p] = "paired" /\ got' = [got EXCEPT ![p] = rec[p]]
    BY <1>6 DEF PairingReturns, At, LockInv
  <2>2. rec[p] \in Record
    BY AutoAssumption DEF TrustInv
  <2>3. got' \in [Autos -> Record] /\ got'[p] = rec[p]
    BY <2>1, <2>2 DEF AutoInv
  <2>4. unmixed[p] => Mine(rec[p]) /\ dev[rec[p].addr].paired /\ kbd.asked = 0
    BY <1>1, <1>6 DEF AutoInv, Good, After
  <2>5. unmixed[p] => Kept(got[p])'
    BY <1>1, <2>2, <2>3, <2>4 DEF Kept, Mine, TwoSided
  <2>6. \A q \in Autos : /\ at'[q] = "pairing" => ph'[q] # "off"
                         /\ ph'[q] # "off" => at'[q] \in {"pairing", "stuck"}
    BY <1>2, <1>4, <2>1, AutoAssumption DEF AutoInv
  <2> QED
    BY <1>1, <1>3, <1>5, <2>1, <2>3, <2>5, <2>6 DEF AutoInv, Told
<1>7. CASE ph[p] # "ok"
  <2>1. at'[p] = "failed" /\ UNCHANGED got
    BY <1>7 DEF PairingReturns, At, LockInv
  <2>2. \A q \in Autos : /\ at'[q] = "pairing" => ph'[q] # "off"
                         /\ ph'[q] # "off" => at'[q] \in {"pairing", "stuck"}
    BY <1>2, <1>4, <2>1, AutoAssumption DEF AutoInv
  <2> QED
    BY <1>1, <1>3, <1>5, <2>1, <2>2 DEF AutoInv, Told
<1> QED
  BY <1>6, <1>7

\* A step of run_dbus_pair().
LEMMA PairingKeepsAuto ==
  ASSUME LockInv, TrustInv, TrustInv', AutoInv, NEW q \in Program, RunStep(q), UNCHANGED autoOwn
  PROVE  AutoInv'
<1>1. /\ ph[q] \in Running \cup {"ok"}
      /\ ph[q] # "ok"
      /\ \E place \in Running \cup {"ok", "err"} : ph' = [ph EXCEPT ![q] = place]
  <2>1. CASE LateStep(q)
    <3>1. ph[q] \in Running
      BY <2>1 DEF LateStep, RegisterAgent, AddRemoteLegacyOob, ConnectDevice, ConnectReturns, Pair, PairReturns,
                  CheckPaired, SetTrusted, Running
    <3> QED
      BY <2>1, <3>1, LateStepMoves DEF Running
  <2>2. CASE RemoveMatchingDevices(q) \/ AskForRecord(q) \/ ExchangeReturns(q) \/ ExchangeFails(q)
    BY <2>2 DEF RemoveMatchingDevices, AskForRecord, ExchangeReturns, ExchangeFails, Go, TrustInv, Running
  <2> QED
    BY <2>1, <2>2 DEF RunStep, LateStep
<1>2. \A r \in Autos : ph'[r] # "off" <=> ph[r] # "off"
  BY <1>1, AutoAssumption DEF TrustInv, Running
<1>3. ASSUME NEW p \in Autos, unmixed[p]
      PROVE  /\ \A r \in Program \ Autos : ph'[r] \notin Running
             /\ at[p] = "pairing" => Good(p)'
             /\ at[p] \notin Told
  <2>1. q \in Autos
    BY <1>1, <1>3 DEF AutoInv, Running
  <2>2. at[q] \in {"pairing", "stuck"}
    BY <1>1, <2>1 DEF AutoInv, Running
  <2>3. q = p
    <3>1. at[p] \in Holding /\ at[q] \in Holding
      BY <1>3, <2>2 DEF AutoInv, Holding, Told
    <3> QED
      BY <2>1, <3>1 DEF LockInv
  <2>4. at[p] = "pairing"
    BY <1>3, <2>2, <2>3 DEF AutoInv, Told
  <2>5. Alone(p)'
    BY <1>3, <2>3, <2>4, UnmixedIsAlone, RunStepKeepsAlone
  <2> QED
    BY <2>4, <2>5 DEF Alone, Told
<1> QED
  BY <1>2, <1>3 DEF AutoInv, autoOwn

\* A step of bluetoothd or the kernel.
LEMMA WorldKeepsAuto ==
  ASSUME LockInv, TrustInv, AutoInv, KeepsBonds, UNCHANGED <<ph, rec, heard, at, got, unmixed>>
  PROVE  AutoInv'
<1>1. ASSUME NEW p \in Autos, unmixed[p], at[p] = "pairing" PROVE Good(p)'
  <2>1. Alone(p) /\ p \in Program
    BY <1>1, UnmixedIsAlone, AutoAssumption
  <2>2. Alone(p)'
    BY <2>1, QuietKeepsAlone
  <2> QED
    BY <2>2 DEF Alone
<1>2. ASSUME NEW p \in Autos, unmixed[p], at[p] \in Told PROVE Kept(got[p])'
  <2>1. PICK r : r = got[p]
    OBVIOUS
  <2>2. Kept(r)
    BY <1>2, <2>1 DEF AutoInv
  <2>3. Kept(r)'
    BY <2>2, KeptIsKept
  <2> QED
    BY <2>1, <2>3
<1> QED
  BY <1>1, <1>2 DEF AutoInv

\* A step of the keyboard: after the pairing it has nothing left to do.
LEMMA KeyboardKeepsAuto ==
  ASSUME LockInv, TrustInv, AutoInv, KeyboardActs, UNCHANGED <<at, got, unmixed>>
  PROVE  AutoInv'
<1>1. ASSUME NEW p \in Autos, unmixed[p] PROVE at[p] \notin Told /\ (at[p] = "pairing" => Good(p)')
  <2>1. at[p] \notin Told
    BY <1>1 DEF AutoInv, Kept, KeyboardActs
  <2>2. ASSUME at[p] = "pairing" PROVE Good(p)'
    <3>1. Alone(p) /\ p \in Program
      BY <1>1, <2>2, UnmixedIsAlone, AutoAssumption
    <3>2. Alone(p)'
      BY <3>1, KeyboardKeepsAlone
    <3> QED
      BY <3>2 DEF Alone
  <2> QED
    BY <2>1, <2>2
<1>2. UNCHANGED ph
  BY DEF KeyboardActs
<1> QED
  BY <1>1, <1>2 DEF AutoInv

LEMMA NothingKeepsAuto ==
  ASSUME LockInv, TrustInv, AutoInv, UNCHANGED bonding, UNCHANGED <<at, got, unmixed>>
  PROVE  AutoInv'
BY WorldKeepsAuto DEF bonding, KeepsBonds

\* An autopair process that is not in run_dbus_pair() and ends.
LEMMA EndingKeepsAuto ==
  ASSUME LockInv, TrustInv, AutoInv, NEW p \in Autos, Leave(p), at[p] \notin {"pairing", "stuck"}, UNCHANGED bonding
  PROVE  AutoInv'
BY LeavingKeepsAuto DEF AutoInv, bonding

\* An autopair process that hangs promises nothing any more.
LEMMA HangKeepsAuto ==
  ASSUME LockInv, TrustInv, AutoInv, NEW p \in Autos, Hang(p)
  PROVE  AutoInv'
<1>1. at'[p] = "stuck" /\ \A q \in Autos \ {p} : at'[q] = at[q]
  BY DEF LockInv, Hang, At
<1>2. /\ unmixed' \in [Autos -> BOOLEAN] /\ ~unmixed'[p]
      /\ \A q \in Autos \ {p} : unmixed'[q] = unmixed[q]
  BY DEF AutoInv, Hang
<1>3. UNCHANGED <<ph, rec, heard, kbd, dev, got>>
  BY DEF Hang, dbusVars, own, world
<1>4. \A q \in Autos : (Good(q) <=> Good(q)') /\ (Kept(got[q]) <=> Kept(got[q])')
  BY <1>3 DEF Good, Kept, Mine, TwoSided
<1> QED
  BY <1>1, <1>2, <1>3, <1>4 DEF AutoInv

\* A step of run_auto().
LEMMA RunAutoKeepsAuto ==
  ASSUME LockInv, TrustInv, TrustInv', AutoInv, NEW p \in Autos, RunAuto(p)
  PROVE  AutoInv'
<1> USE DEF Stay
<1>1. p \in Program
  BY AutoAssumption
<1>2. UNCHANGED dbusVars => UNCHANGED bonding
  BY DEF dbusVars, own, world, bonding
<1>3. CASE AcquireLock(p)
  <2>1. CASE Leave(p)
    BY <1>2, <1>3, <2>1, EndingKeepsAuto DEF AcquireLock
  <2>2. CASE At(p, "session") /\ UNCHANGED <<got, unmixed>>
    BY <1>2, <1>3, <2>2, MovingKeepsAuto DEF AcquireLock, bonding, Busy, Holding, Told
  <2> QED
    BY <1>3, <2>1, <2>2 DEF AcquireLock
<1>4. CASE FindGuiSession(p)
  BY <1>2, <1>4, EndingKeepsAuto, MovingKeepsAuto DEF FindGuiSession, bonding, Busy, Holding, Told
<1>5. CASE CheckUsb(p)
  BY <1>2, <1>5, EndingKeepsAuto, MovingKeepsAuto DEF CheckUsb, bonding, Busy, Holding, Told
<1>6. CASE Ask(p)
  <2>1. CASE Leave(p) /\ UNCHANGED dbusVars
    BY <1>2, <1>6, <2>1, EndingKeepsAuto DEF Ask
  <2>2. CASE Start(p) /\ At(p, "pairing") /\ UNCHANGED got
             /\ unmixed' = [unmixed EXCEPT ![p] = Idle(Program \ Autos)]
    BY <1>6, <2>2, AskKeepsAuto
  <2> QED
    BY <1>6, <2>1, <2>2 DEF Ask
<1>7. CASE PairingReturns(p)
  BY <1>7, ReturningKeepsAuto
<1>8. CASE PairedBox(p)
  BY <1>2, <1>8, MovingKeepsAuto DEF PairedBox, bonding, Busy, Holding, Told
<1>9. CASE WatchUnplug(p)
  BY <1>2, <1>9, EndingKeepsAuto, MovingKeepsAuto DEF WatchUnplug, bonding, Busy, Holding, Told
<1>10. CASE WatchReconnect(p)
  BY <1>2, <1>10, MovingKeepsAuto DEF WatchReconnect, bonding, Busy, Holding, Told
<1>11. CASE LastWord(p)
  BY <1>2, <1>11, EndingKeepsAuto DEF LastWord
<1>12. CASE at[p] = "pairing" /\ PairingStep(p)
  <2>1. RunStep(p) /\ UNCHANGED autoOwn
    BY <1>12 DEF PairingStep, RunStep
  <2> QED
    BY <1>1, <2>1, PairingKeepsAuto
<1> QED
  BY <1>3, <1>4, <1>5, <1>6, <1>7, <1>8, <1>9, <1>10, <1>11, <1>12 DEF RunAuto

\* Every step.
LEMMA AutoStep == LockInv /\ TrustInv /\ TrustInv' /\ AutoInv /\ [Next]_vars => AutoInv'
<1> SUFFICES ASSUME LockInv, TrustInv, TrustInv', AutoInv, [Next]_vars PROVE AutoInv'
  OBVIOUS
<1>1. CASE UNCHANGED bonding /\ UNCHANGED <<at, got, unmixed>>
  BY <1>1, NothingKeepsAuto
<1>2. ASSUME NEW p \in Autos, Begin(p) PROVE AutoInv'
  BY <1>2, MovingKeepsAuto DEF Begin, Stay, dbusVars, own, world, Busy, Told
<1>3. ASSUME NEW p \in Autos, RunAuto(p) PROVE AutoInv'
  BY <1>3, RunAutoKeepsAuto
<1>4. ASSUME NEW p \in Program \ Autos, RunCommand(p) PROVE AutoInv'
  <2>1. CASE Start(p) /\ unmixed' = [q \in Autos |-> FALSE]
    BY <1>4, <2>1, CommandStartKeepsAuto DEF RunCommand
  <2>2. CASE Exit(p) /\ UNCHANGED unmixed
    BY <1>4, <2>2, CommandKeepsAuto DEF RunCommand, Exit, world
  <2> QED
    BY <1>4, <2>1, <2>2 DEF RunCommand
<1>5. ASSUME NEW p \in Program, PairingStep(p) PROVE AutoInv'
  <2>1. RunStep(p) /\ UNCHANGED autoOwn
    BY <1>5 DEF PairingStep, RunStep
  <2> QED
    BY <2>1, PairingKeepsAuto
<1>6. ASSUME NEW p \in Program, Kill(p) PROVE AutoInv'
  <2>1. CASE p \in Autos
    <3>1. /\ ph'[p] = "off"
          /\ \A q \in Program \ {p} : ph'[q] = ph[q] /\ rec'[q] = rec[q] /\ heard'[q] = heard[q]
      BY <1>6 DEF Kill, Gone, Go, CloseHandle, TrustInv
    <3> QED
      BY <1>6, <2>1, <3>1, LeavingKeepsAuto DEF Kill
  <2>2. CASE p \notin Autos
    BY <1>6, <2>2, CommandKeepsAuto DEF Kill, autoOwn
  <2> QED
    BY <2>1, <2>2
<1>7. CASE World
  BY <1>7, WorldKeepsBonds, WorldKeepsAuto, KeyboardKeepsAuto DEF World, autoOwn
<1>8. CASE MoveCable \/ UNCHANGED vars
  BY <1>8, <1>1 DEF MoveCable, vars, autoOwn, dbusVars, own, world, bonding
<1>9. ASSUME NEW p \in Autos, Hang(p) PROVE AutoInv'
  BY <1>9, HangKeepsAuto
<1> QED
  BY <1>2, <1>3, <1>4, <1>5, <1>6, <1>7, <1>8, <1>9 DEF Next

\* From "Keyboard paired" on, the bond autopair speaks of is on both sides and has
\* the run's own TK, for any number of autopair processes, killed or not, and
\* whatever earlier runs have left.
THEOREM PairedAreTwoSided == Spec => []PairedIsTwoSided
<1>1. TrustInv /\ AutoInv => PairedIsTwoSided
  <2> SUFFICES ASSUME TrustInv, AutoInv, NEW p \in Autos, at[p] \in Told, unmixed[p]
               PROVE  TwoSided(got[p])
    BY DEF PairedIsTwoSided, TwoSided, Told
  <2>1. got[p] \in Record /\ Mine(got[p]) /\ dev[got[p].addr].paired
    BY DEF AutoInv, Kept
  <2> QED
    BY <2>1, MinePairedIsTwoSided
<1>2. LockInv /\ TrustInv /\ AutoInv /\ [Next]_vars => LockInv' /\ TrustInv' /\ AutoInv'
  BY LockStep, TrustStep, AutoStep
<1>3. Init => LockInv /\ TrustInv /\ AutoInv
  BY LockInit, TrustInit, AutoInit
<1> QED
  BY <1>1, <1>2, <1>3, PTL DEF Spec

-------------------------------------------------------------------------------
(***************************************************************************)
(* Types                                                                   *)
(***************************************************************************)

\* The types the other invariants leave out.
RestInv ==
  /\ ans \in [Program -> {"none", "ok", "error"}]
  /\ addq \in Seq(Record)
  /\ armed \in [Addr -> Tk]
  /\ link \in Addr
  /\ usb \in BOOLEAN /\ relinked \in BOOLEAN

LEMMA RestInit == Init => RestInv
<1> SUFFICES ASSUME Init PROVE RestInv
  OBVIOUS
<1>1. 0 \in Addr /\ 0 \in Tk
  BY ExchangeAssumption DEF Addr, Tk
<1>2. addq = <<>> /\ link = 0 /\ usb \in BOOLEAN /\ relinked = FALSE
  BY AutoAssumption DEF Init, DbusInit
<1>3. addq \in Seq(Record)
  BY <1>2
<1>4. /\ ans \in [Program -> {"none", "ok", "error"}]
      /\ armed \in [Addr -> Tk]
  BY <1>1 DEF Init, DbusInit
<1> QED
  BY <1>1, <1>2, <1>3, <1>4 DEF RestInv

rest == <<ans, addq, armed, link>>

\* The steps of run_dbus_pair().
LEMMA RunStepKeepsRest ==
  ASSUME TrustInv, RestInv, NEW p \in Program, RunStep(p), UNCHANGED cable
  PROVE  RestInv'
<1> USE DEF RestInv, cable
<1>1. CASE RemoveMatchingDevices(p)
  BY <1>1, ExchangeAssumption DEF RemoveMatchingDevices, Addr
<1>2. CASE AskForRecord(p) \/ ExchangeReturns(p) \/ ExchangeFails(p)
  BY <1>2 DEF AskForRecord, ExchangeReturns, ExchangeFails, world
<1>6. CASE RegisterAgent(p) \/ CheckPaired(p) \/ SetTrusted(p)
  BY <1>6 DEF RegisterAgent, CheckPaired, SetTrusted, world
<1>3. CASE AddRemoteLegacyOob(p)
  <2>1. addq' \in Seq(Record)
    BY <1>3 DEF AddRemoteLegacyOob, OobCommand, TrustInv
  <2> QED
    BY <1>3, <2>1 DEF AddRemoteLegacyOob
<1>4. CASE ConnectDevice(p) \/ Pair(p)
  BY <1>4 DEF ConnectDevice, Pair, Call
<1>5. CASE ConnectReturns(p) \/ PairReturns(p)
  BY <1>5 DEF ConnectReturns, PairReturns
<1> QED
  BY <1>1, <1>2, <1>3, <1>4, <1>5, <1>6 DEF RunStep

\* The steps of the world.
LEMMA WorldKeepsRest == TrustInv /\ RestInv /\ World => RestInv'
<1> SUFFICES ASSUME TrustInv, RestInv, World PROVE RestInv'
  OBVIOUS
<1> USE DEF RestInv
<1>1. usb' \in BOOLEAN /\ relinked' \in BOOLEAN
  BY DEF World
<1>5. CASE KeyboardActs
  BY <1>1, <1>5 DEF KeyboardActs
<1>2. CASE KernelAdds
  <2>1. addq # <<>> /\ addq' = Tail(addq) /\ UNCHANGED <<ans, link>>
    BY <1>2 DEF KernelAdds, own
  <2>2. addq' \in Seq(Record) /\ Head(addq) \in Record
    BY <2>1
  <2>3. Head(addq).addr \in Addr /\ Head(addq).tk \in Tk
    BY <2>2 DEF Record
  <2>4. armed' \in [Addr -> Tk]
    BY <1>2, <2>3 DEF KernelAdds
  <2> QED
    BY <1>1, <2>1, <2>2, <2>4
<1>3. CASE LinkLost \/ Reconnects
  BY <1>1, <1>3, ExchangeAssumption DEF LinkLost, Reconnects, own, Addr, TrustInv, Keyboard
<1>4. CASE Serve
  <2>1. PICK c \in calls : Connected(c) \/ Paired(c) \/ Refused(c)
    BY <1>4 DEF Serve
  <2>2. c.addr \in Addr /\ 0 \in Tk
    BY ExchangeAssumption DEF TrustInv, Calls, Tk
  <2>3. ans' \in [Program -> {"none", "ok", "error"}]
    BY <2>1 DEF Connected, Paired, Refused, Done
  <2> QED
    BY <1>1, <2>1, <2>2, <2>3 DEF Connected, Paired, Refused
<1> QED
  BY <1>2, <1>3, <1>4, <1>5 DEF World, DbusWorld

LEMMA RestStep == TrustInv /\ RestInv /\ [Next]_vars => RestInv'
<1> SUFFICES ASSUME TrustInv, RestInv, [Next]_vars PROVE RestInv'
  OBVIOUS
<1>1. CASE UNCHANGED <<rest, cable>>
  BY <1>1 DEF RestInv, rest, cable
<1>2. ASSUME NEW p \in Program, PairingStep(p) PROVE RestInv'
  <2>1. RunStep(p) /\ UNCHANGED cable
    BY <1>2 DEF PairingStep, RunStep
  <2> QED
    BY <2>1, RunStepKeepsRest
<1>3. ASSUME NEW p \in Program, Gone(p), UNCHANGED <<addq, armed, link, cable>> PROVE RestInv'
  BY <1>3 DEF Gone, RestInv, cable
<1>4. ASSUME NEW p \in Program, Start(p), UNCHANGED cable PROVE RestInv'
  BY <1>4, <1>1 DEF Start, world, rest
<1>5. ASSUME NEW p \in Autos, RunAuto(p) PROVE RestInv'
  <2>1. p \in Program
    BY AutoAssumption
  <2>2. CASE AcquireLock(p) \/ FindGuiSession(p) \/ CheckUsb(p) \/ PairedBox(p)
    BY <2>2, <1>1 DEF AcquireLock, FindGuiSession, CheckUsb, PairedBox, dbusVars, own, world, rest
  <2>3. CASE WatchUnplug(p) \/ WatchReconnect(p) \/ LastWord(p)
    BY <2>3, <1>1 DEF WatchUnplug, WatchReconnect, LastWord, dbusVars, own, world, rest
  <2>4. CASE Ask(p)
    BY <2>1, <2>4, <1>1, <1>4 DEF Ask, dbusVars, own, world, rest
  <2>5. CASE PairingReturns(p)
    BY <2>1, <2>5, <1>3 DEF PairingReturns, Exit, world
  <2> QED
    BY <2>1, <2>2, <2>3, <2>4, <2>5, <1>2, <1>5 DEF RunAuto
<1>6. ASSUME NEW p \in Program, RunCommand(p) PROVE RestInv'
  BY <1>6, <1>3, <1>4 DEF RunCommand, Exit, world
<1>7. ASSUME NEW p \in Program, Kill(p) PROVE RestInv'
  BY <1>7, <1>3 DEF Kill
<1>8. CASE World
  BY <1>8, WorldKeepsRest
<1>9. CASE MoveCable
  BY <1>9, AutoAssumption DEF MoveCable, RestInv, dbusVars, own, world
<1>10. CASE UNCHANGED vars \/ (\E p \in Autos : Begin(p) \/ Hang(p))
  BY <1>10, <1>1 DEF Begin, Hang, vars, dbusVars, own, world, rest
<1> QED
  BY <1>2, <1>5, <1>6, <1>7, <1>8, <1>9, <1>10 DEF Next

\* The type invariant.
THEOREM AutoTypesOK == Spec => []AutoTypeOK
<1>1. LockInv /\ AgentInv /\ TrustInv /\ MineInv /\ AutoInv /\ RestInv => AutoTypeOK
  BY DEF LockInv, AgentInv, TrustInv, MineInv, AutoInv, RestInv, AutoTypeOK, DbusTypeOK, Keyboard, Calls
<1>2. Init => LockInv /\ AgentInv /\ TrustInv /\ MineInv /\ AutoInv /\ RestInv
  BY LockInit, AgentInit, TrustInit, MineInit, AutoInit, RestInit
<1> QED
  BY <1>1, <1>2, LockStep, AgentStep, TrustStep, MineStep, AutoStep, RestStep, PTL DEF Spec

-------------------------------------------------------------------------------
(***************************************************************************)
(* Fresh records                                                           *)
(***************************************************************************)

\* The other variables of FreshRecord, as AutoPair has them.
Reported == [p \in Program |-> {r.tk : r \in heard[p]}]
Used == [p \in Program |-> rec[p].tk]
fresh == <<kbd.made, Asking, Reported, Used, Lone>>

\* The places where a program is not lone.
Apart == {"off", "clean", "exchange", "err"}

LEMMA SameIsFresh ==
  ASSUME kbd'.made = kbd.made, UNCHANGED <<ph, rec, heard, undisturbed>>
  PROVE  UNCHANGED fresh
BY DEF fresh, Asking, Reported, Used, Lone

\* A record is asked for: only who asks may be lone.
LEMMA AskingIsFresh ==
  ASSUME TrustInv, MineInv, NEW p \in Program, AskForRecord(p)
  PROVE  /\ p \notin Asking /\ Asking' = Asking \cup {p}
         /\ Lone' = {} \/ (Asking = {} /\ Lone' = {p})
         /\ kbd'.made = kbd.made /\ UNCHANGED <<Reported, Used>>
<1>1. /\ ph[p] = "exchange" /\ ph' = [ph EXCEPT ![p] = "asked"]
      /\ UNCHANGED <<rec, heard, undisturbed>> /\ kbd'.made = kbd.made
  BY DEF AskForRecord, Go, TrustInv, Keyboard
<1>2. p \notin Asking /\ Asking' = Asking \cup {p}
  BY <1>1 DEF Asking, TrustInv
<1>3. ASSUME NEW q \in Program, undisturbed[q] PROVE q = p /\ Asking = {}
  <2>1. \A r \in Program \ {q} : ph[r] \notin Running
    BY <1>3 DEF MineInv, Alone
  <2>2. q = p
    BY <1>1, <2>1 DEF Running
  <2> QED
    BY <1>1, <2>1, <2>2 DEF Asking, Running
<1>4. Lone' \subseteq {q \in Program : undisturbed[q]}
  BY <1>1 DEF Lone
<1> QED
  BY <1>1, <1>2, <1>3, <1>4 DEF Reported, Used

\* A program whose handle is closed: it has a record, or its exchange failed, or
\* it is gone.
LEMMA ClosingIsFresh ==
  ASSUME TrustInv, NEW p \in Program, CloseHandle(p),
         NEW place \in {"agent", "err", "off"}, Go(p, place)
  PROVE  Asking' = Asking \ {p} /\ Reported' = [Reported EXCEPT ![p] = {}]
<1>1. \A q \in Program : ph'[q] = "asked" <=> ph[q] = "asked" /\ q # p
  BY DEF Go, TrustInv
<1>2. Asking' = Asking \ {p}
  BY <1>1 DEF Asking
<1>3. heard'[p] = {} /\ \A q \in Program \ {p} : heard'[q] = heard[q]
  BY DEF CloseHandle, TrustInv
<1>4. Reported' = [Reported EXCEPT ![p] = {}]
  BY <1>3 DEF Reported
<1> QED
  BY <1>2, <1>4

LEMMA ReturningIsFresh ==
  ASSUME TrustInv, NEW p \in Program, ExchangeReturns(p)
  PROVE  /\ p \in Asking /\ Asking' = Asking \ {p} /\ Reported' = [Reported EXCEPT ![p] = {}]
         /\ \E n \in Reported[p] : Used' = [Used EXCEPT ![p] = n]
         /\ kbd'.made = kbd.made /\ UNCHANGED Lone
<1>1. /\ ph[p] = "asked" /\ Go(p, "agent") /\ CloseHandle(p) /\ UNCHANGED <<kbd, undisturbed>>
  BY DEF ExchangeReturns, world
<1>2. PICK r \in heard[p] : rec' = [rec EXCEPT ![p] = r]
  BY DEF ExchangeReturns
<1>3. r.tk \in Reported[p]
  BY DEF Reported
<1>4. Used' = [Used EXCEPT ![p] = r.tk]
  BY <1>2 DEF Used, TrustInv
<1>5. UNCHANGED Lone
  BY <1>1 DEF Lone, Go, TrustInv
<1>6. p \in Asking
  BY <1>1 DEF Asking
<1> QED
  BY <1>1, <1>3, <1>4, <1>5, <1>6, ClosingIsFresh

LEMMA FailingIsFresh ==
  ASSUME TrustInv, NEW p \in Program, ExchangeFails(p)
  PROVE  /\ Asking' = Asking \ {p} /\ Reported' = [Reported EXCEPT ![p] = {}]
         /\ kbd'.made = kbd.made /\ UNCHANGED Used /\ Lone' = Lone \ {p}
<1>1. Go(p, "err") /\ CloseHandle(p) /\ UNCHANGED <<rec, undisturbed>>
  BY DEF ExchangeFails
<1>2. kbd'.made = kbd.made
  BY DEF ExchangeFails, TrustInv, Keyboard
<1>3. Lone' = Lone \ {p}
  BY <1>1 DEF Lone, Go, TrustInv
<1> QED
  BY <1>1, <1>2, <1>3, ClosingIsFresh DEF Used

LEMMA GoneIsFresh ==
  ASSUME TrustInv, MineInv, NEW p \in Program, Gone(p), UNCHANGED kbd
  PROVE  /\ Asking' = Asking \ {p} /\ Reported' = [Reported EXCEPT ![p] = {}]
         /\ kbd'.made = kbd.made /\ Used' = [Used EXCEPT ![p] = 0] /\ Lone' = Lone \ {p}
<1>1. /\ Go(p, "off") /\ CloseHandle(p) /\ rec' = [rec EXCEPT ![p] = NoRecord]
      /\ undisturbed' = [undisturbed EXCEPT ![p] = FALSE]
  BY DEF Gone
<1>2. Used' = [Used EXCEPT ![p] = 0]
  BY <1>1 DEF Used, TrustInv, NoRecord
<1>3. Lone' = Lone \ {p}
  BY <1>1 DEF Lone, Go, TrustInv, MineInv
<1> QED
  BY <1>1, <1>2, <1>3, ClosingIsFresh

\* Any other step of a run, or its start.
LEMMA GoingIsFresh ==
  ASSUME TrustInv, MineInv, NEW p \in Program, NEW place \in Running \cup {"ok", "err"}, Go(p, place),
         place # "asked", ph[p] # "asked", ph[p] \in Apart => place \in Apart,
         UNCHANGED <<rec, heard, kbd>>,
         undisturbed' = undisturbed \/ (place = "clean" /\ \A q \in Program \ {p} : ~undisturbed'[q])
  PROVE  UNCHANGED <<kbd.made, Asking, Reported, Used>> /\ Lone' \subseteq Lone
<1>1. \A q \in Program : ph'[q] = IF q = p THEN place ELSE ph[q]
  BY DEF Go, TrustInv
<1>2. UNCHANGED Asking
  BY <1>1 DEF Asking
<1>3. Lone' \subseteq Lone
  BY <1>1 DEF Lone, Apart
<1> QED
  BY <1>2, <1>3 DEF Reported, Used

\* A lone program waits for its first record when one is made.
LEMMA KeyboardIsFresh ==
  ASSUME TrustInv, MineInv, KeyboardActs
  PROVE  \/ UNCHANGED fresh
         \/ /\ \A p \in Lone : p \in Asking /\ Reported[p] = {}
            /\ kbd'.made = kbd.made + 1
            /\ Reported' = [p \in Program |-> IF p \in Asking THEN Reported[p] \cup {kbd'.made} ELSE {}]
            /\ UNCHANGED <<Asking, Used, Lone>>
<1>1. /\ kbd.asked > 0 /\ kbd.asked \in Nat /\ UNCHANGED <<ph, rec, undisturbed>>
  BY KeyboardTypes, ExchangeAssumption DEF TrustInv, Keyboard, Tk
<1>2. CASE UNCHANGED heard /\ kbd'.made = kbd.made
  BY <1>1, <1>2, SameIsFresh
<1>3. ASSUME NEW new \in Record, new.tk = kbd.made + 1, kbd'.made = new.tk,
             heard' = [p \in Program |-> IF ph[p] = "asked" THEN heard[p] \cup {new} ELSE heard[p]]
      PROVE  /\ \A p \in Lone : p \in Asking /\ Reported[p] = {}
             /\ kbd'.made = kbd.made + 1
             /\ Reported' = [p \in Program |-> IF p \in Asking THEN Reported[p] \cup {kbd'.made} ELSE {}]
             /\ UNCHANGED <<Asking, Used, Lone>>
  <2>1. UNCHANGED <<Asking, Used, Lone>>
    BY <1>1 DEF Asking, Used, Lone
  <2>2. ASSUME NEW p \in Lone PROVE p \in Asking /\ Reported[p] = {}
    <3>1. p \in Program /\ Good(p) /\ ph[p] \in {"asked"} \cup After
      BY DEF Lone, MineInv, Alone, TrustInv, Running, After
    <3>2. ph[p] = "asked" /\ kbd.asked <= 1 /\ (kbd.asked = 1 => heard[p] = {})
      BY <1>1, <3>1 DEF Good
    <3>3. heard[p] = {}
      BY <1>1, <3>2
    <3> QED
      BY <3>1, <3>2, <3>3 DEF Asking, Reported
  <2>3. ASSUME NEW p \in Program
        PROVE  {r.tk : r \in heard'[p]} = IF p \in Asking THEN Reported[p] \cup {kbd'.made} ELSE {}
    <3>1. CASE ph[p] = "asked"
      <4>1. heard'[p] = heard[p] \cup {new} /\ p \in Asking
        BY <1>3, <3>1 DEF Asking
      <4>2. {r.tk : r \in heard'[p]} = {r.tk : r \in heard[p]} \cup {new.tk}
        BY <4>1
      <4> QED
        BY <1>3, <4>1, <4>2 DEF Reported
    <3>2. CASE ph[p] # "asked"
      <4>1. heard'[p] = {} /\ p \notin Asking
        BY <1>3, <3>2 DEF Asking, TrustInv
      <4> QED
        BY <4>1
    <3> QED
      BY <3>1, <3>2
  <2>4. Reported' = [p \in Program |-> IF p \in Asking THEN Reported[p] \cup {kbd'.made} ELSE {}]
    BY <2>3 DEF Reported
  <2> QED
    BY <1>3, <2>1, <2>2, <2>4
<1> QED
  BY <1>2, <1>3, KeyboardTypes

\* A step of run_dbus_pair().
LEMMA RunStepIsFresh ==
  ASSUME TrustInv, MineInv, NEW p \in Program, RunStep(p)
  PROVE  [Fresh!Next]_(Fresh!vars)
<1> USE DEF Reported, Used
<1>1. CASE AskForRecord(p)
  <2>1. Fresh!Open(p)
    BY <1>1, AskingIsFresh DEF Fresh!Open
  <2> QED
    BY <2>1 DEF Fresh!Next
<1>2. CASE ExchangeReturns(p)
  <2>1. Fresh!Return(p)
    BY <1>2, ReturningIsFresh DEF Fresh!Return, Fresh!Close
  <2> QED
    BY <2>1 DEF Fresh!Next
<1>3. CASE ExchangeFails(p)
  <2>1. Fresh!Leave(p)
    BY <1>3, FailingIsFresh DEF Fresh!Leave, Fresh!Close
  <2> QED
    BY <2>1 DEF Fresh!Next
<1>4. ASSUME UNCHANGED <<kbd.made, Asking, Reported, Used>> /\ Lone' \subseteq Lone
      PROVE  [Fresh!Next]_(Fresh!vars)
  <2>1. Fresh!Disturb
    BY <1>4 DEF Fresh!Disturb
  <2> QED
    BY <2>1 DEF Fresh!Next
<1> HIDE DEF Reported, Used
<1>5. CASE RemoveMatchingDevices(p)
  BY <1>4, <1>5, GoingIsFresh DEF RemoveMatchingDevices, Running, Apart
<1>6. CASE LateStep(p)
  <2>1. ph[p] \in After /\ ph'[p] # "asked" /\ \E place \in Running \cup {"ok", "err"} : ph' = [ph EXCEPT ![p] = place]
    BY <1>6, LateStepMoves
  <2>2. UNCHANGED <<rec, heard, undisturbed>> /\ kbd' = kbd
    BY <1>6 DEF LateStep, RegisterAgent, AddRemoteLegacyOob, ConnectDevice, ConnectReturns, Pair, PairReturns,
                CheckPaired, SetTrusted, Call, world
  <2>3. PICK place \in Running \cup {"ok", "err"} : Go(p, place)
    BY <2>1 DEF Go
  <2>4. place # "asked" /\ ph[p] # "asked" /\ ph[p] \notin Apart
    BY <2>1, <2>3 DEF Go, After, Apart, TrustInv
  <2>5. UNCHANGED <<kbd.made, Asking, Reported, Used>> /\ Lone' \subseteq Lone
    BY <2>2, <2>3, <2>4, GoingIsFresh
  <2> QED
    BY <1>4, <2>5
<1> QED
  BY <1>1, <1>2, <1>3, <1>5, <1>6 DEF RunStep, LateStep

\* The steps that begin and end a run.
LEMMA StartIsFresh ==
  ASSUME TrustInv, MineInv, NEW p \in Program, Start(p)
  PROVE  [Fresh!Next]_(Fresh!vars)
<1>1. /\ Go(p, "clean") /\ ph[p] = "off" /\ UNCHANGED <<rec, heard, kbd>>
      /\ \A q \in Program \ {p} : ~undisturbed'[q]
  BY DEF Start, world
<1>2. UNCHANGED <<kbd.made, Asking, Reported, Used>> /\ Lone' \subseteq Lone
  BY <1>1, GoingIsFresh DEF Running, Apart
<1>3. Fresh!Disturb
  BY <1>2 DEF Fresh!Disturb, Reported, Used
<1> QED
  BY <1>3 DEF Fresh!Next

LEMMA EndIsFresh ==
  ASSUME TrustInv, MineInv, NEW p \in Program, Gone(p), UNCHANGED kbd
  PROVE  [Fresh!Next]_(Fresh!vars)
<1>1. Fresh!Leave(p)
  BY GoneIsFresh DEF Fresh!Leave, Fresh!Close, Reported, Used
<1> QED
  BY <1>1 DEF Fresh!Next

\* Every step is one of FreshRecord.
LEMMA FreshStep ==
  ASSUME TrustInv, MineInv, [Next]_vars
  PROVE  [Fresh!Next]_(Fresh!vars)
<1>1. ASSUME UNCHANGED <<ph, rec, heard, undisturbed>>, kbd'.made = kbd.made
      PROVE  [Fresh!Next]_(Fresh!vars)
  BY <1>1, SameIsFresh DEF Fresh!vars, fresh, Reported, Used
<1>2. UNCHANGED dbusVars => [Fresh!Next]_(Fresh!vars)
  BY <1>1 DEF dbusVars, own, world
<1>3. ASSUME NEW p \in Program, PairingStep(p) PROVE [Fresh!Next]_(Fresh!vars)
  <2>1. RunStep(p)
    BY <1>3 DEF PairingStep, RunStep
  <2> QED
    BY <2>1, RunStepIsFresh
<1>4. ASSUME NEW p \in Program, Exit(p) PROVE [Fresh!Next]_(Fresh!vars)
  BY <1>4, EndIsFresh DEF Exit, world
<1>5. ASSUME NEW p \in Autos, RunAuto(p) PROVE [Fresh!Next]_(Fresh!vars)
  <2>1. p \in Program
    BY AutoAssumption
  <2>2. CASE AcquireLock(p) \/ FindGuiSession(p) \/ CheckUsb(p) \/ PairedBox(p)
    BY <2>2, <1>2 DEF AcquireLock, FindGuiSession, CheckUsb, PairedBox
  <2>3. CASE WatchUnplug(p) \/ WatchReconnect(p) \/ LastWord(p)
    BY <2>3, <1>2 DEF WatchUnplug, WatchReconnect, LastWord
  <2>4. CASE Ask(p)
    BY <2>1, <2>4, <1>2, StartIsFresh DEF Ask
  <2>5. CASE PairingReturns(p)
    BY <2>1, <2>5, <1>4 DEF PairingReturns
  <2> QED
    BY <2>1, <2>2, <2>3, <2>4, <2>5, <1>3, <1>5 DEF RunAuto
<1>6. ASSUME NEW p \in Program, RunCommand(p) PROVE [Fresh!Next]_(Fresh!vars)
  BY <1>6, <1>4, StartIsFresh DEF RunCommand
<1>7. ASSUME NEW p \in Program, Kill(p) PROVE [Fresh!Next]_(Fresh!vars)
  BY <1>7, EndIsFresh DEF Kill
<1>8. CASE World
  <2>1. CASE KeyboardActs
    <3>1. CASE UNCHANGED fresh
      BY <3>1 DEF Fresh!vars, fresh, Reported, Used
    <3>2. CASE /\ \A p \in Lone : p \in Asking /\ Reported[p] = {}
               /\ kbd'.made = kbd.made + 1
               /\ Reported' = [p \in Program |-> IF p \in Asking THEN Reported[p] \cup {kbd'.made} ELSE {}]
               /\ UNCHANGED <<Asking, Used, Lone>>
      <4>1. Fresh!Make
        BY <3>2 DEF Fresh!Make, Reported, Used
      <4> QED
        BY <4>1 DEF Fresh!Next
    <3> QED
      BY <2>1, <3>1, <3>2, KeyboardIsFresh
  <2>2. CASE KernelAdds \/ LinkLost \/ Reconnects
    BY <2>2, <1>1 DEF KernelAdds, LinkLost, Reconnects, own
  <2>3. CASE Serve
    <3>1. PICK c \in calls : Connected(c) \/ Paired(c) \/ Refused(c)
      BY <2>3 DEF Serve
    <3>2. kbd'.made = kbd.made
      BY <3>1 DEF Connected, Paired, Refused, TrustInv, Keyboard
    <3> QED
      BY <2>3, <3>2, <1>1 DEF Serve
  <2> QED
    BY <1>8, <2>1, <2>2, <2>3 DEF World, DbusWorld
<1>9. CASE MoveCable \/ UNCHANGED vars \/ (\E p \in Autos : Begin(p) \/ Hang(p))
  BY <1>9, <1>2 DEF MoveCable, Begin, Hang, vars
<1> QED
  BY <1>3, <1>5, <1>6, <1>7, <1>8, <1>9 DEF Next

\* Every run's address and TK are of a record made while the run waited for one,
\* and a run nobody came near goes on with the keyboard's latest: AutoPair
\* implements FreshRecord, as VendorExchange does.
THEOREM PairingUsesFreshRecords == Spec => RecordsAreFresh
<1>1. Init => Fresh!Init
  BY DEF Init, DbusInit, Fresh!Init, Asking, Lone, NoRecord
<1> QED
  BY <1>1, TrustInit, TrustStep, MineInit, MineStep, FreshStep, PTL DEF Spec, RecordsAreFresh, Fresh!Spec
=================================================================================
