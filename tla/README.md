# TLA+ models of mkbd-tk-injection

The repository makes a Microsoft Modern Keyboard pair over Bluetooth LE on
Linux. The keyboard accepts only LE *legacy* pairing with *out-of-band* data: over
USB it hands out a one-time 128-bit Temporary Key (TK) and a new address, and it
then expects the host to pair with that TK. The kernel had no way to be given such
a key. The repository adds one (twice, as two alternative patch series), together
with a bluetoothd patch and the tools that drive the exchange.

This directory models the parts of that with state worth checking, checks them
with TLC on small instances, and proves the most important results with TLAPS.

## 1. Inventory

Line numbers are those of the files under `src/`; a patch is cited by the line of
the patch file.

| Part | State | Operations | Status |
|---|---|---|---|
| **Option A kernel patches** `optionA/0001..0004` | the TK in each `struct oob_data`, per controller | the extended *Add Remote OOB Data* command, *Remove*, the lookups in `build_pairing_cmd()`, `get_auth_method()`, `tk_request()`, the wipe in `smp_chan_destroy()` | `SmpLegacyOob` |
| **Option B kernel patches** `optionB/0001..0004` | a list of its own read under RCU, flags Persistent and Force Legacy | new *Add* / *Remove* commands, clearing on close, the same four SMP hooks | `SmpLegacyOob` |
| **Raw management pairing** `lib/mkbd_common.py` `mgmt_pair_device()`, called by `test/optionA-pair.py` and `test/tk-pair.py` | the result being assembled, the socket, what is left in the kernel | Unpair, Pair Device, the event loop, cancel and disconnect, verdict | `MgmtPair`, composed in `RawMgmtEngine` |
| **COL03 vendor exchange** `rust/mkbd-pair/src/hid.rs`, `lib/mkbd_common.py` | input reports queued on each open hidraw handle; the keyboard's TK, address, bond | F1, F2, F3 by feature report, answers by input report | `VendorExchange` |
| **Pairing through bluetoothd** `dbus_pair.rs`, `bond.rs`, `test/optionA-dbus-pair.py` | agent registration, D-Bus calls in flight, the armed TK, devices known to bluetoothd | remove stale devices, exchange, AddRemoteLegacyOOB, ConnectDevice, Pair, Trusted | `DbusPair`, composed in `AutoPair` |
| **bluetoothd patch** `optionA/bluez/0001` | none of its own | AddRemoteLegacyOOB queues a management command and returns | `DbusPair` |
| **Autopair** `autopair.rs`, `main.rs`, the systemd unit | a lock file, prompts, two watch loops | one run per udev event, ended by systemd after 300 seconds; a command without a lock next to it | `AutoPair`, against `RunOnce` |
| **Autopair in bash** `optionA/autopair/mkbd-optionA-autopair` | the same, and a fallback from D-Bus to the raw engine | one run per udev event | not modelled: the rust port has superseded it |
| **bluetooth.service around a raw pairing** `test/optionA-pair.py:169-269`, `test/tk-pair.py` | masked / running; the bond file | mask, stop, try, finally unmask and start | `RawMgmtEngine` |
| **Phase 0 proof of concept** `kernel/0001` | one global list in debugfs, keys never single-use | write, lookup | last in the plan |
| **Phase 4 probe** `test/phase4.py` | an ATT connection, rounds | connect, subscribe, hold, adoption check | maybe |
| Pure helpers `bdaddr.rs`, `bond.rs` parsing, payload checks | none | reversal, parsing | not modelled: text |
| The contents of bond files, `_mgmt_cmd()`, command lines, logging, installers, udev rules, self-test vectors, notes | - | - | not modelled: text, I/O or cryptographic vectors |

How they interact. User space runs the vendor exchange over USB (the keyboard
takes a new TK and address and *abandons its old bond*), gives the TK to the kernel by a
management command (directly, or through bluetoothd), and asks for a pairing with
the new address (Pair Device on the management socket, or ConnectDevice and Pair
over D-Bus). The Security Manager looks the TK up *three or four separate times* in
one pairing, on another CPU than the one that handles management commands. When a
pairing completes it drops the key. The keyboard keeps its bond only if the host
sent its identity.

What is hard, and what makes each part correct:

* **The store and the Security Manager.** Commands interleave with the separate lookups of one pairing,
  pairings fail or are dropped at any step and are retried, keys are replaced
  during a pairing, the controller is powered off, the address changes under the
  link when the peer's identity arrives. Correct means: a one-time key makes at most one bond and is gone
  afterwards; a failed pairing leaves it; a bond made with a key is authenticated, legacy and
  two-sided; nobody else's pairing changes.
* **Raw management pairing.** Events in any order, silence, time running out with an exchange half done,
  kernel state that outlives the socket and meets the next run. Correct means: no false
  success, no early end while key events are still due, no pairing or connection left for the next run, an end in every case.
* **Vendor exchange.** Answers matched by opcode only, on a handle that several
  programs may have open, with stale reports in the queue. Correct means: TK and
  address are those of the caller's own last F3.
* **bluetoothd path.** Calls that time out but are not cancelled, calls that have no limit at all, a key left armed after an error,
  an agent left registered, a success reported before the kernel answered.
* **Autopair.** Several processes, any of them killed, pair one keyboard; prompts and watches wait for the user.
  Correct means: one run at a time, a bond on both sides whenever the user is told so, no agent left
  behind, and the lock comes back.
* **Raw engine.** bluetoothd must stay away during the pairing, and come back afterwards: a run may be
  interrupted or killed at any step. Every step of the way in and out may fail unnoticed. Correct means: the mask is taken back, the next run finds
  nothing of a failed one in the kernel, and the bond survives the start of bluetoothd.

Every hazard, with its line and the properties that would catch it going
wrong, is in `PROJECT.json` under `hazards`.

## 2. Modules

| Module | What it is |
|---|---|
| `SmpLegacyOob` | both kernel patch series: store, SMP hooks, the remote devices they talk to |
| `OneTimeKey` | what the patches promise of a one-time key, as an abstract specification |
| `MCSmpLegacyOob` | instances of `SmpLegacyOob` for TLC: which peers, which addresses |
| `SmpLegacyOobProofs` | theorems about `SmpLegacyOob` and their proofs |
| `MgmtPair` | `mgmt_pair_device()`, the kernel it talks to, and the verdict of its callers: state, actions, properties |
| `RawMgmtEngine` | the scripts around it: runs one after the other, mask and unmask, bond file, interrupts and kills; has the next-state relation |
| `RawMgmtEngineProofs` | theorems about `RawMgmtEngine` and `MgmtPair` and their proofs |
| `VendorExchange` | F1, F2, F3 over hidraw by several programs, and the keyboard's answers |
| `MCVendorExchange` | its instance for TLC: two programs, each for an adapter of its own |
| `FreshRecord` | what the exchange promises a program of the record it returns, as an abstract specification |
| `FreshRecordProofs` | what follows from that promise |
| `VendorExchangeProofs` | theorems about `VendorExchange` and their proofs |
| `DbusPair` | `run_dbus_pair()`, with bluetoothd, kernel and keyboard as it uses them: state, actions, properties |
| `AutoPair` | the processes that run it, `mkbd-pair auto` and `mkbd-pair dbus-pair`; has the next-state relation |
| `MCDbusPair` | its instance for TLC with two commands, which are interchangeable |
| `RunOnce` | what the lock file promises, as an abstract specification |
| `AutoPairProofs` | theorems about `AutoPair` and `DbusPair` and their proofs |

`MgmtPair` and `DbusPair` hold the actions of one component; `RawMgmtEngine` and `AutoPair` extend them with the
processes that take those actions. A component is never checked without the processes that run it.

### SmpLegacyOob

`Option` selects the patch series. State and code:

* `store` is the list of entries. `NoEntry` stands for "no entry" and, in Option A, also for an entry without
  `le_legacy_tk_present`; a new key replaces the old one as a whole. The `serial`
  of an entry is a ghost that tells one store of a key from the next, even of the same bytes.
* `link` has what SMP uses of `struct hci_conn`: `dst` (the lookup key, which
  becomes the identity address when the peer distributes it), `pend` and `sec` (pending and
  actual security level).
* `chan` is `struct smp_chan`. Its `step` is the place the pairing has
  reached: `building` and `requested` are the two lookups of `build_pairing_cmd()` in Option B (Option A
  decides on one), `checked` follows the MITM check of the Pairing Response, `nokey` is `tk_request()` after
  its first lookup found nothing, `stalled` a method REQ_OOB without a TK,
  `confirm` and `distribute` are phases 2 and 3.
* `bond` is the LTK the host keeps, `peerBond` whether the peer committed its side, `peerKey` the TK the
  keyboard has.

Actions of the patches: `AddRemoteLegacyOob`, `AddOtherOobData` (Option A: the older forms of
the command, which wipe the key), `RemoveRemoteLegacyOob`, `RemoveAll`, the store's part of `PowerOff`,
`BuildPairingCmd` and `Flags`, `GetAuthMethod`, `TkRequest` with `UseStoredKey`,
`TkRequestRaces`, and `WipeOnComplete`. Everything else of the kernel and the remote device is outside the
repository and modelled from how the patches and their documentation use it.

Management commands run under `hdev->lock`; the SMP code does not take it.
So every lookup is a step of its own, and commands come between any two. In Option B a
lookup and a command are atomic (RCU). In Option A they are not: when a command rewrites or removes
the entry while `tk_request()` copies the key, the copy is the old key, the new one, the zeroes of
`memzero_explicit()`, or a mixture; `TkRequestRaces` makes that choice. Left out: what
reading freed list memory could do beyond such a copy.

### MgmtPair

The script's `hpc` goes `unpair` -> `pair` -> `loop` -> (`cancel` -> `disconnect` -> `drain`) ->
`verdict` -> `closed`; `Abandon` leaves from any of them. `res` is the result record of `mgmt_pair_device()`
(status, LTK, IRK, `smp_seen`; the ghost `asked` remembers that a confirmation request was read), `pairDone` its `pair_cmd_done`, `sock` the socket's
buffer. The kernel (`cmdPending`, `smp`, `ask`, `link`, `kltk`, `due`) is external: it may
complete Pair Device before the SMP exchange is over, which is what the comment at
`lib/mkbd_common.py:600-603` reports of real hardware, sends key events in any order, refuses Pair Device when it has a key for the peer, and keeps
its pairing and its link when the socket is closed. The Device Connected event and a Command Status that accepts the command
are left out: the script only prints them. Time is not measured: `Deadline`
may happen at any point of the loop, so the 30 second limit and the 1.5 second grace
period are both "some time later". `smpSeen` and `pairDone` decide what ends the loop, exactly as in the code.

The loop compares no address in any branch (lines 617, 620, 628, 634, 652, 661), so other devices take part: `ForeignPairs` puts a confirmation request, a New LTK, a New IRK or an
Authentication Failed of another device on the socket, and each is received as the peer's would be. Their Disconnected and their passkey requests change nothing the script keeps and are left out.

What fails unnoticed fails in the model: Unpair Device (any failure, two seconds of silence included, is "no existing kernel bond", and the key and the link stay), and the two sends
after the loop (an `OSError` ends the attempt, with neither or only Cancel sent). The ghost `left` says what the last run that sent Pair Device left in the kernel: `nothing` when its Disconnect was sent, `bond` when it had
the peer's LTK, `anything` when it was cut short or could not send.

Assumed: the kernel has sent all events of one run before the next run's Unpair Device; dropping the link answers a pending Pair Device; a Disconnect or Cancel that was sent is carried out; nothing but a run connects to the peer
(a bluetoothd that comes up loads keys and makes no connection to it). Events that arrive after the loop are read and thrown away by the drain, or lost with the socket, so the model queues none then.

### RawMgmtEngine

`rpc` is the place in `main()` of `test/optionA-pair.py` (`test/tk-pair.py` has the same steps): mask, stop, then
`InTry` (Set Powered, clear the bond, Unpair, store the TK, pair), then the finally clause (unmask, start). `svc` is bluetooth.service,
`bond` whether bluetoothd's file of the peer has an LTK. Every `systemctl` runs with `check=False`: `Mask` may do nothing, or mask without stopping; `Stop`, `Unmask` and `StartService` may do nothing. A failed Set Powered is a
warning, so `SetPowered` always goes on, and the commands after it may fail either way; only Add Remote OOB Data ends the run when it fails. While the service is neither masked nor up,
`Activate` may start it at any moment: any D-Bus call does. A bluetoothd that comes up loads its files, so the kernel then has
the peer's key exactly if the file has it (`DaemonUp`). `CtrlC` is an interrupt or an exception: inside try it leads to the finally clause, elsewhere it ends the
script. `Killed` ends it anywhere. The ghosts `cut` and `shielded` remember what came in the way of the run's unmask, and whether its mask took.
Assumed: a bluetoothd that is stopped powers the controller off, which ends its
connections. The vendor exchange comes before and fails without touching any of this.

What the properties leave open is what the code leaves open. `MaskIsUndone`: a kill, a Ctrl-C between the mask and try or in the finally clause, and a `systemctl unmask` that fails leave bluetooth masked.
`StartsClean`: after a run that found no LTK and sent its Disconnect, no pairing and no connection is there, whatever failed since; after a run with an LTK, whose link the script
leaves up, only if bluetoothd has gone down and the kernel has no key (Unpair Device succeeded, or there was nothing to unpair); after a killed run nothing is promised, because Unpair Device and
the stop of bluetoothd may both have failed. `BondOutlivesRun` is about runs whose mask took.

### VendorExchange

`pc` is the command whose answer a program waits for (`F1`, `F2`, `F3`), `closed`, or `got` when
`vendor_pairing_exchange()` returned a record. `inq` is what hidraw has queued on the program's handle; the kernel
queues an input report on every open handle. A report carries the opcode it answers and a status, which is all that
`col03_command()` looks at. `GiveUp` is the two second limit, and any failure to send or read: it ends the exchange,
except at F2, where the code goes on to F3. A record (one number) is address and TK together, as one report has both.
The keyboard (`cmds`, `kb`) is external: it answers in order, with good or bad status, late or not at all. Reading an answer and sending the
next command are one step, because nothing between them can be seen from outside.

`FreshRecord` is what a program may rely on, without reports, queues, opcodes and hosts: while its handle is `open` it may be told of the records
made meanwhile (`heard`); what it returns (`used`) is one of those. A program that is `lone`, because nobody was at work when it began, the keyboard had no command
open, and nobody has begun since, sees one record made at most, and none once its handle is closed. `VendorExchange` is mapped to it by
`heard <- (since + 1)..kb.rec` and `open <- IsOpen`.

### DbusPair

`ph` is the place in `run_dbus_pair()`. `ConnectDevice` and `Pair` put a call into `calls`, which bluetoothd ends at any time
with `ok` or an error; `ConnectReturns` and `PairReturns` are what `recv_timeout()` returns, the limit included, after which the
call is still there with nobody waiting (`Abandoned`). `RemoveMatchingDevices` removes any part of the known devices, because the
status of `bluetoothctl remove` is ignored. `AddRemoteLegacyOob` appends to `addq`, what bluetoothd has queued for the
kernel; `KernelAdds` is the kernel's decision. `armed` is the kernel's key per address, `dev` what bluetoothd says of a device.

Of the vendor exchange `DbusPair` has what a run can tell of it. `AskForRecord` sends F3 (the keyboard gives up its bond, and `kbd.asked` counts the F3 commands it has
not finished with); `KeyboardActs` finishes one, at any time and also when nobody waits any more: it makes a record, which every run in `asked` hears of, or the command is lost.
`ExchangeReturns` takes any record that was heard, `ExchangeFails` is every other end, the two seconds included, and leaves F3 open at the keyboard.
The address of a record is a counter of bonds, so an address whose TK was never used may come again. `VendorExchange` is the detail of this;
both are shown to implement `FreshRecord` (`RecordsAreFresh` in `AutoPair`, with `open <- Asking`), which is what they are known to have in common: that `DbusPair` allows every single
behaviour of `VendorExchange` follows from reading the two and is not stated as a theorem. F1 and F2 leave no trace in `DbusPair`; a record reported before this run's F3 is
read and forgotten, unless the wait for F2 was given up, and then it might as well have come after F3.

`undisturbed` is a ghost: nobody was at work and the keyboard was idle when this run began, and no other run has begun since. The second condition is needed:
an F3 that a killed run, or one that gave up, has left at the keyboard may make a record *after* the next run has taken its own, and the keyboard has then given up the TK that run pairs with. Assumed of bluetoothd: a Pair Device command follows the commands queued before it, pairing a paired device is an
error, removing a device ends its link and its pairing. Calls without a limit (RegisterAgent, AddRemoteLegacyOOB, reading a property, `bluetoothctl`) are single steps; that one of them never comes back is `Hang` in `AutoPair`, and for the command, of which no fairness is assumed, a step that is never taken.
`RemoveMatchingDevices` is one step although `bond.rs:37-56` asks for the devices one after the other: it removes any part of what is there, and what a device that appears in between could
add is a device at an address of the past. Also assumed: the keyboard's new address is never one of a former bond, which is the keyboard's doing, and when bluetoothd answers Pair with success
the keyboard has kept its side, which is what `KeyedBondIsWhole` and `BondIsTwoSided` of `SmpLegacyOob` say of the kernel's part.

### AutoPair

`at` is the place in `run_auto()`: `lock`, `session`, `usb`, `ask`, `pairing` (inside `run_dbus_pair()`, where `ph` says how far), `paired`, `unplug`,
`reconnect` and the last words. `lock` is who holds the flock: taken without waiting in `AcquireLock`, given back when the process ends, because the
kernel closes the descriptor (`Leave`, in every return and in `Kill`). `UsbPresent` is what `usb_present()` may say: the truth, no when lsusb fails, yes when another
line has both substrings (`Lookalike`). Processes outside `Autos` are `mkbd-pair dbus-pair`, which takes no lock. `Kill` is the unit's `TimeoutStartSec` or a user;
the D-Bus connection of a dead process is closed, so its agent goes (`Gone`) and its calls are waited for by nobody. A process that returned with an error but lives on, to show a box, has closed its
connection too, unless a call that was given up still holds it; in that case its agent was unregistered before. `Reconnects` is the keyboard's own reconnect to the host of its bond.
`Cable` says whether the cable may be moved: while it is off no report comes in, though one that is queued can still be read.
The ghost `unmixed` says that no command has paired since the pairing of this process began, and that the keyboard was idle then; other autopair processes are kept out by the lock, which
is why `PairedIsTwoSided` needs to except the command only.

`stuck` is a run in a call that never comes back: GetManagedObjects, a property, RegisterAgent, AddRemoteLegacyOOB, UnregisterAgent, Set Trusted, `bluetoothctl`, `lsusb`, a dialog. None has a limit in the code, so `Hang` may happen
at any place past the lock (the model does not tell apart which of them calls what), with the call's effect on bluetoothd or without. Only systemd ends such a run (`TimeoutStartSec`, a `Kill`).

## 3. Runs

| Run | Checks | Result |
|---|---|---|
| `smp_a`, `smp_b` | `TypeOK` (in `smp_b` as part of `IInv`), `SpentKeyIsWiped`, `KeyBondsOnce`, `KeyedBondIsWhole`, `BondIsTwoSided`, `FailureKeepsKey`, `UnarmedPairingUnchanged` next to a Secure Connections peer, the inductive invariant `IInv`, refinement of `OneTimeKey`; in `smp_a` also `PairingEnds` under fairness | hold |
| `smp_a_identity` | `SpentKeyIsWiped`, Option A, peer with another identity address | **violated** |
| `smp_b_persistent` | `PersistentKeyStays`, Option B | **violated** |
| `smp_b_zero` | `AuthenticatedBondHasKey`, Option B | **violated** |
| `mgmt_pair` | `TypeOK`, `StartsClean`, `UnaskedSuccessWaitsForLtk`, `IrkIsWaitedFor`, `BondOutlivesRun`, `MaskIsUndone`; `RunEnds` under fairness | hold |
| `mgmt_pair_just_works` | `SuccessWaitsForLtk` for a Just Works peer | **violated** |
| `mgmt_pair_foreign` | `LtkIsPeers` when another device pairs | **violated** |
| `vendor_exchange` | `TypeOK`, `RecordIsFresh`, `RecordIsCurrent`, the inductive invariant `ExchangeInv`, the refinement `ImplementsFreshRecord`; `ExchangeEnds` under fairness | hold |
| `auto_pair` | two autopair processes: `AutoTypeOK`, `PairedIsTwoSided`, `AgentGoesWithRun`, the refinements `RunsOnce` and `RecordsAreFresh`; `LockComesBack` under fairness | hold |
| `dbus_pair` | two commands, no lock between them: `SuccessIsTwoSided`, `TrustedIsPaired`, `PairHasAgent` | hold |
| `auto_reconnect` | `ReconnectIsConfirmed` | **violated** |

Disagreements between code and documentation that the runs show:

1. Option A wipes the spent key under `hcon->dst`, which by then is the identity address. For a peer whose identity address is not
   its connection address (not this keyboard) the key survives its bond and can make another.
2. Option B decides *whether* to drop by the flag sampled at `tk_request()`
   and drops *whatever* is stored by then, so a Persistent entry stored during the pairing is lost.
3. A key removed between the MITM check and `tk_request()` leaves a Just Works
   pairing whose bond is marked authenticated; the command refuses the zero key to prevent just that.
4. `mgmt_pair_device()` treats a confirmation request as proof that SMP is done, so for a Just Works peer an early
   Command Complete ends the run before the LTK, against the comment next to it.
5. It takes any New LTK event for the peer's, and a confirmation request, New IRK or Authentication Failed likewise: no branch of the loop compares the address.
6. After the pairing `run_auto()` waits for the cable to go and then for "Connected: yes". The link of the pairing itself is still up, so the
   watch sees it and says "Connected over Bluetooth." without any reconnect.

Two more the runs do not single out. `run_dbus_pair()` logs that the TK is stored when bluetoothd has only queued the command; nobody sees the
kernel's answer, and `KernelAdds` may refuse (the pairing then fails). And the script stays a Ctrl-C away from a masked bluetooth for as long as it is between the mask
and try: `MaskIsUndone` names that window.

Bounds. `MaxArm` (keys stored, per behaviour) and `MaxPair` (requests sent) bound `SmpLegacyOob`. Two of each, over two or three addresses, two peers and two
keys, let a key be stored, read, replaced by another while it is held, used after a failed attempt, and asked for again after its bond; they let one
peer's key reach the other's pairing. Whatever a third key or pairing might add is covered by the theorems, which hold for every `MaxArm` and `MaxPair`. `smp_b` leaves fairness out for the time it costs;
the step that fairness is needed for (`SmpTimeout`) is the same in both options.
`MaxRuns = 2` in `RawMgmtEngine` lets whatever one run leaves, ended in any way, be met by another; `MaxForeign = 1` lets one event of another device, of any kind, come at any
point of either's loop. The theorems hold for any number of both. `MaxExchange = 2` with two programs in `VendorExchange` covers two exchanges at once and one after the other by the same program, with answers of the first
arriving in the second; the theorems need no bound. In `AutoPair` it bounds the records
asked for and made together; a command that is lost gives its share back. Two records let the second run meet devices, keys, links, calls and a late F3 of the first, at the same address or at
another. `DbusPair.cfg` leaves the cable plugged in (`Cable = {TRUE}`): taking it off only makes an exchange fail, which it may do anyway. No run has an autopair process
and a command next to each other: with two records that takes TLC too long. It is proved instead: the theorems hold whichever processes are autopair. `AutoReconnect.cfg` needs one record and one process. The theorems about `AutoPair` hold for every number of processes and records.

No run checks for deadlock: user space may stop, the bounds end behaviours, and the kernel may be silent.

Fairness. `SmpLegacyOob`: weak fairness of `SendPairingReq` (straight-line kernel code) and of the SMP timer,
which the kernel arms with every PDU sent; nothing obliges the peer to answer or user space to act.
`RawMgmtEngine`: the loop's clock (`TimeIsUp`) and the straight-line code of the script (`StraightLine`); the kernel may
never send anything. `StraightLine` contains the subprocesses (`systemctl`, phase 4) and `_mgmt_cmd()`, which have no overall limit in the code: a `systemctl` that never ends, or a socket
so busy with other events that `_mgmt_cmd()` is never two seconds without one, would hold the run, and `RunEnds` is stated without them.
`VendorExchange`: a waiting program is scheduled and its two seconds pass; nothing is asked of the keyboard. `AutoPair`: an autopair process that is not stuck is scheduled and its limits pass; one that is `stuck`, in a call or with a dialog nobody closes, is ended by the unit's
`TimeoutStartSec=300`. So nothing is asked of bluetoothd or the user: ConnectDevice and Pair may stay open for ever, any other call may never return, and the user may do with the cable as he likes. Nothing is assumed of the
command, and an autopair run that somebody starts outside the unit has no such limit: `LockComesBack` is about the unit's runs.

Every property of a passing run has a mutant in `PROJECT.json`: a change to one definition, of the kind a
plausible bug would make, that breaks it. The mutated operators stand next to the originals and are
marked "Planted error"; nothing uses them.

## 4. Proofs

`SmpLegacyOobProofs`, for every set of addresses, peers and keys, every assignment of addresses to peers in which no address
belongs to two peers, both options, and every bound:

| Theorem | Says |
|---|---|
| `TypeCorrect` | `Spec => []TypeOK` |
| `KeyedBondIsWholeAlways` | `Spec => []KeyedBondIsWhole` |
| `BondsAreTwoSided` | `Spec => BondIsTwoSided` |
| `FailedPairingKeepsKeys` | `Spec => FailureKeepsKey` |
| `UnarmedAsBefore` | `Spec => []UnarmedPairingUnchanged` |
| `KeySingleUse` | `Spec => []KeyBondsOnce`, if `DropsTheRightKey` |
| `SpentKeyLeavesStore` | `Spec => []SpentKeyIsWiped`, if `DropsTheRightKey` |
| `ImplementsOneTime` | `Spec => OneTime!Spec`, if `DropsTheRightKey` |
| `InvariantHolds` | `Spec => []IInv`, if `DropsTheRightKey` |

`DropsTheRightKey` is `Option = "B"` or "identity address = connection address for every
peer". It cannot be dropped: `smp_a_identity` is the counterexample.

*The argument for the key.* `KeyBondsOnce` is not inductive: a second pairing might hold the same key, or
the key might still be stored after its bond. `KeyInv` adds where copies of a key can be: serials name entries
(`SerialsAreNames`); a pairing that holds a key runs on a link whose address is the one the key was found under,
and the store has that key nowhere else (`HolderKnowsAddress`); two pairings never hold one key, because two peers
never share an address (`OneHolder`); a spent key is nowhere (`SpentIsNowhere`). Most steps only take copies away
(`TakingAwayIsSafe`); the others are storing (`StoringIsSafe`), taking hold of a key (`HoldingIsSafe`, used for the
ordinary read and for the raced one) and bonding (`BondingIsSafe`, which rests on `WipeHitsTheKey`).

*The argument for the bond.* `PairingInv` carries what the request said to the bond: the OOB flag and the
identity bit are the same; past the Pairing Response an OOB-only peer was sent the flag and no SC bit; a non-zero TK means a legacy
pairing with pending level HIGH, and after encryption a peer that has that very key.

*A failure, and a peer without a key.* A pairing that ends without a bond changes the store only if it held a key that is not one-time, and
Option A, which wipes whatever the pairing held, never holds such a key (`NoFlagsInA`). Every stored key is under an armed address, so no lookup of a pairing
of an unarmed peer finds one, and each of its decisions is the one of an unpatched kernel (`UnarmedInv`, `AsBefore`).

`VendorExchangeProofs`, for every set of programs and adapters and every bound:

| Theorem | Says |
|---|---|
| `ExchangeTypes` | `Spec => []TypeOK` |
| `RecordIsFreshAlways` | `Spec => []RecordIsFresh` |
| `RecordIsCurrentAlways` | `Spec => []RecordIsCurrent` |
| `ExchangeInvAlways` | `Spec => []ExchangeInv` |
| `ExchangeImplementsFreshRecord` | `Spec => ImplementsFreshRecord` |

`FreshRecordProofs`, for every set of programs:

| Theorem | Says |
|---|---|
| `LoneRecordsAreLatest` | `Spec => [](TypeOK /\ LoneRecordIsLatest)` |

*Freshness* follows because the latest record only grows and a handle starts empty: every good F3 report on a handle has
a record made after it was opened (`QueuedIsFresh`). *Currency* needs more (`AloneAt`): of a program that nobody else has disturbed, every command on its way names its own adapter, F3 is asked
once and last, and no F3 report can be queued before it waits for one; so the record it takes is the last one made. `RecordIsCurrent` without `alone` is false: two programs at once may
take each other's record, which is why the exchange needs a lock around it.

*The refinement* maps F1 of an exchange to `Open`, a good report for F3 to `Return`, giving up or a bad status to `Leave`, and F3 at the keyboard to `Make`, heard of or not;
all other steps stutter. It needs more than the above (`MadeInv`): no report is about a record still to come, and while a lone program may still wait for its first
record, none was made since it opened its handle. `AutoPair` implements the same `FreshRecord`, so the two descriptions of the exchange agree on
which records a run may end up with, and `LoneRecordsAreLatest` says once what that is worth: a lone program that has its record has the keyboard's latest.

*The refinement* of `SmpLegacyOob` maps `issued` to the serials handed out and `live` to those in the store. A step that only takes
entries away is a `Withdraw`, every store an `Issue`, completion a `ProduceBond`.

`AutoPairProofs`, for every set of processes, whichever of them are autopair, and every bound:

| Theorem | Says |
|---|---|
| `OneRunAtATime` | `Spec => RunsOnce`: `AutoPair` implements `RunOnce` |
| `AutoTypesOK` | `Spec => []AutoTypeOK` |
| `AgentsGo`, `PairsHaveAgents` | `Spec => []AgentGoesWithRun`, `Spec => []PairHasAgent` |
| `TrustedArePaired` | `Spec => []TrustedIsPaired` |
| `SuccessesAreTwoSided` | `Spec => []SuccessIsTwoSided` |
| `PairedAreTwoSided` | `Spec => []PairedIsTwoSided` |
| `PairingUsesFreshRecords` | `Spec => RecordsAreFresh`: the exchange inside implements `FreshRecord` |

*The lock* (`LockInv`): a process is past `acquire_lock()` exactly if the lock is its own. The refinement maps `inside` to those processes.
*Trust* (`TrustInv`): a device that is paired is at an address the keyboard is past (`Past`: an older address, or the current one with its TK used up), and no connection can come up to such an address; so a
device removed between the check and the setting of Trusted does not come back unpaired.
*Bonds* (`Good`, `Mine`): before its exchange, and after it, an undisturbed run has an idle keyboard; during it only its own F3 may be open, and while that is open it has heard of nothing. So a run that has its record, and that nobody has come between, has the keyboard's latest record, and either its TK is unused or both sides have the bond. Each of its steps, and each step
of the world, keeps that (`KeepingIsKeeping`); a device that is then read back as paired has a used TK (`MinePairedIsTwoSided`), so the bond is on both sides, whatever stood there before. *Telling*
(`AutoInv`): an autopair process in `pairing` is the only one in `run_dbus_pair()` because of the lock, which a stuck one keeps too, so what holds of an undisturbed run holds of it, and after its return nobody makes another exchange while it holds the lock, except the command.
*Fresh records*: `AskForRecord` maps to `Open`, `KeyboardActs` to `Make` or a stutter, the end of the exchange to `Return` or `Leave`, the end of a process to `Leave`, the start of another to `Disturb`. That `Make` never happens to a lone program
that is not waiting for its first record is `Good` again.

`RawMgmtEngineProofs`, for every kind of peer, every number of runs and of foreign events:

| Theorem | Says |
|---|---|
| `EngineTypesOK` | `Spec => []TypeOK` |
| `MaskComesOff` | `Spec => []MaskIsUndone` |
| `PairingsStartClean` | `Spec => []StartsClean` |
| `BondsOutliveRuns` | `Spec => []BondOutlivesRun` |
| `SuccessWaits` | `Spec => []UnaskedSuccessWaitsForLtk` |
| `IrkWaits` | `Spec => []IrkIsWaitedFor` |

`MaskInv` says where the mask is: a run whose mask took has a masked service up to its own unmask, and outside of runs the service is masked only for one of the three reasons. `KeyInv` says what may be in the kernel at each place of the
script, given what the last run `left`: after `nothing` there is no pairing and no link (`Clean`), and none comes up before Pair Device is sent, whatever the steps in between do or fail to do; after `bond` the kernel has the key, or a bluetoothd is up that has loaded its own (`Safe`), or nothing is left, because Unpair Device removes the key together with the link and stopping bluetoothd ends the link; so a
kernel without the key and a bluetoothd that is down leave nothing. A key the script has seen in an event is in the kernel unless a bluetoothd came up in between, which the mask excludes (`Kept`).
`StartsClean` and `BondOutlivesRun` are the two ends of that. `WaitInv`: while no confirmation request has been read (`asked`), `smp_seen` means an LTK.
`AnswerInv`: Pair Device is answered once, so a success that is read while SMP is already seen is never a second one, and after a first success only the IRK, a failure or the deadline ends the loop.

Every invariant and action property of a passing run is stated by one of these theorems. Only model-checked are the liveness properties. Out of the prover's reach:
liveness under fairness and `ENABLED` (`PairingEnds`, `RunEnds`, `ExchangeEnds`, `LockComesBack`), induction over data, `RECURSIVE` operators (none is used).

The proofs assume the named assumptions of the modules about their constants, and nothing else.

## 5. Not modelled, and why

Cryptography is reduced to "both sides have the same TK". Allocation failure, payload size checks and the
experimental gate of Option B only refuse a command. Address *types* are part of the address. The
responder role is left out: every tool here initiates. BR/EDR keys share `struct oob_data` and appear only as
`AddOtherOobData`. The contents of bond files, logs, prompts' wording, installers and the self-test vectors have no state to check.

Of the raw engine: the options `--no-mask` and `--diag`, and two scripts at once (nothing keeps a user from it; both would unmask for each other).
Of the pairing through bluetoothd: the Python version, which makes the same calls in the same order from the exchange on, but removes no old devices before it.
Of autopair: the bash version, whose two paths are modelled apart, and its lock file, which the rust version does not share: to each the other is a process without a lock, as the command is.
Phase 4 is a probe that runs after the bond is written and changes none of the state above. The Phase 0 kernel patch is superseded. `bdaddr.rs` and the parsing in `bond.rs` turn text into text.

## 6. Plan

1. A composition of one user-space path and `SmpLegacyOob`, in place of the kernel that `DbusPair` assumes.
2. The bash autopair with its fallback, as one process that goes from `AutoPair` to `RawMgmtEngine`.
