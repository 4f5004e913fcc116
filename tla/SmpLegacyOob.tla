---------------------------- MODULE SmpLegacyOob ----------------------------
(***************************************************************************)
(* The two kernel patch series that let an LE legacy pairing use a 128-bit *)
(* Temporary Key (TK) supplied by user space: the per-controller store the *)
(* management commands write, the three places of the Security Manager     *)
(* that read it while a pairing runs, and the place that drops it.         *)
(*                                                                         *)
(* Option = "A" is optionA/0001..0004 (the key rides in struct oob_data),  *)
(* Option = "B" is optionB/0001..0004 (a store of its own, read under RCU, *)
(* with the Persistent and Force Legacy flags).  The host is always the    *)
(* initiator, as it is for every pairing the tools of this repository      *)
(* start.                                                                  *)
(*                                                                         *)
(* A management command runs under hdev->lock on another CPU than the code *)
(* that builds a Pairing Request or handles an SMP PDU, which does not     *)
(* hold it: each lookup that code makes is therefore a step of its own.    *)
(* One command and one lookup are atomic with respect to each other, as    *)
(* RCU makes them in Option B; in Option A nothing does, and the copy of a *)
(* key that is being rewritten is TkRequestRaces below.                    *)
(***************************************************************************)
EXTENDS Naturals

CONSTANTS
  Addr,        \* LE device addresses
  Peer,        \* remote devices
  Key,         \* Temporary Keys other than the all-zero one
  ZeroKey,     \* the all-zero TK, which Just Works uses
  TornKey,     \* what a copy of a TK has that is rewritten meanwhile
  ConnAddr,    \* [Peer -> Addr]: the address a peer is connected at
  IdAddr,      \* [Peer -> Addr]: the identity address it distributes
  Kind,        \* [Peer -> {"oob", "legacy", "sc"}]: what it accepts
  Option,      \* "A" or "B"
  ScCapable,   \* HCI_SC_ENABLED on this controller
  MaxArm,      \* bound: keys user space stores in one behaviour
  MaxPair      \* bound: Pairing Requests sent in one behaviour

TK == Key \cup {ZeroKey}
Copied == TK \cup {TornKey}
BT_SECURITY_LOW    == 1
BT_SECURITY_MEDIUM == 2
BT_SECURITY_HIGH   == 3
Level == BT_SECURITY_LOW..BT_SECURITY_HIGH

ASSUME KeyAssumption    == ZeroKey \notin Key /\ TornKey \notin TK
ASSUME PeerAssumption   == /\ ConnAddr \in [Peer -> Addr]
                           /\ IdAddr \in [Peer -> Addr]
                           /\ Kind \in [Peer -> {"oob", "legacy", "sc"}]
ASSUME OptionAssumption == Option \in {"A", "B"} /\ ScCapable \in BOOLEAN
ASSUME BoundAssumption  == MaxArm \in Nat /\ MaxPair \in Nat

\* No address belongs to two peers: an address identifies a device.
ASSUME AddressAssumption ==
  \A p, q \in Peer :
    {ConnAddr[p], IdAddr[p]} \cap {ConnAddr[q], IdAddr[q]} # {} => p = q

Serial == 1..MaxArm   \* one per store of a key; a ghost that tells them apart

VARIABLES
  store,    \* per address: the stored key; serial 0 means there is none
  next,     \* ghost: the serial of the next key stored
  powered,  \* the controller is up
  link,     \* per peer: its hci_conn
  chan,     \* per peer: the smp_chan of the pairing in progress
  bond,     \* per peer: the LTK the host keeps
  peerKey,  \* per peer: the TK its latest vendor exchange produced
  peerBond, \* per peer: it has committed the bond to its flash
  pairs,    \* bound counter: Pairing Requests sent
  bonds,    \* ghost: bonds each one-time key has produced
  armed     \* ghost: addresses user space has ever stored a key for

smp  == <<link, chan, bond, peerBond, pairs>>
vars == <<store, next, powered, link, chan, bond, peerKey, peerBond, pairs, bonds, armed>>

Entry == [serial : 0..MaxArm, tk : TK, persistent : BOOLEAN, force : BOOLEAN]
NoEntry == [serial |-> 0, tk |-> ZeroKey, persistent |-> FALSE, force |-> FALSE]

Step == {"idle", "building", "requested", "checked", "nokey", "confirm", "stalled", "distribute"}
Chan == [step : Step, sc : BOOLEAN, oob : BOOLEAN, idKey : BOOLEAN, tk : Copied,
         serial : 0..MaxArm, keyAddr : Addr, persistent : BOOLEAN]
\* smp_chan_create() zeroes the channel; keyAddr is then not read.
Idle(p) == [step |-> "idle", sc |-> FALSE, oob |-> FALSE, idKey |-> FALSE, tk |-> ZeroKey,
            serial |-> 0, keyAddr |-> ConnAddr[p], persistent |-> FALSE]

Link == [up : BOOLEAN, dst : Addr, pend : Level, sec : Level]
DownLink(p) == [up |-> FALSE, dst |-> ConnAddr[p],
                pend |-> BT_SECURITY_LOW, sec |-> BT_SECURITY_LOW]

Bond == [made : BOOLEAN, auth : BOOLEAN, sc : BOOLEAN, tk : Copied, idKey : BOOLEAN]
NoBond == [made |-> FALSE, auth |-> FALSE, sc |-> FALSE, tk |-> ZeroKey, idKey |-> FALSE]

Init ==
  /\ store = [a \in Addr |-> NoEntry]
  /\ next = 1
  /\ powered = TRUE
  /\ link = [p \in Peer |-> DownLink(p)]
  /\ chan = [p \in Peer |-> Idle(p)]
  /\ bond = [p \in Peer |-> NoBond]
  /\ peerKey \in [Peer -> Key]
  /\ peerBond = [p \in Peer |-> FALSE]
  /\ pairs = 0
  /\ bonds = [s \in Serial |-> 0]
  /\ armed = {}

-----------------------------------------------------------------------------
(***************************************************************************)
(* The management commands                                                 *)
(***************************************************************************)

\* What each command refuses.  Option A accepts the all-zero key: its
\* presence flag is what makes a key take effect.
AcceptsA(k, persistent, force) == ~persistent /\ ~force
AcceptsB(k, persistent, force) == k # ZeroKey
Accepts(k, persistent, force) ==
  \/ Option = "A" /\ AcceptsA(k, persistent, force)
  \/ Option = "B" /\ AcceptsB(k, persistent, force)

\* The entry for an address is replaced as a whole.
AddRemoteLegacyOob(a, k, persistent, force) ==
  /\ Accepts(k, persistent, force)
  /\ next <= MaxArm
  /\ store' = [store EXCEPT ![a] = [serial |-> next, tk |-> k,
                                    persistent |-> persistent, force |-> force]]
  /\ next' = next + 1
  /\ armed' = armed \cup {a}
  /\ UNCHANGED <<powered, smp, peerKey, bonds>>

\* Option A only: the commands that store P-192 or P-256 values hand a NULL
\* key to hci_add_remote_oob_data(), which wipes the key already there.
AddOtherOobData(a) ==
  /\ Option = "A"
  /\ store' = [store EXCEPT ![a] = NoEntry]
  /\ UNCHANGED <<next, powered, smp, peerKey, bonds, armed>>

RemoveRemoteLegacyOob(a) ==
  /\ store' = [store EXCEPT ![a] = NoEntry]
  /\ UNCHANGED <<next, powered, smp, peerKey, bonds, armed>>

RemoveAll ==
  /\ store' = [a \in Addr |-> NoEntry]
  /\ UNCHANGED <<next, powered, smp, peerKey, bonds, armed>>

-----------------------------------------------------------------------------
(***************************************************************************)
(* Controller power                                                        *)
(***************************************************************************)

\* Option B drops what is not Persistent; Option A does not touch the list.
ClearEphemeral(st) == [a \in Addr |-> IF st[a].persistent THEN st[a] ELSE NoEntry]
StoreAfterClose == IF Option = "B" THEN ClearEphemeral(store) ELSE store

PowerOff ==
  /\ powered
  /\ powered' = FALSE
  /\ store' = StoreAfterClose
  /\ link' = [p \in Peer |-> DownLink(p)]
  /\ chan' = [p \in Peer |-> Idle(p)]
  /\ UNCHANGED <<next, bond, peerKey, peerBond, pairs, bonds, armed>>

PowerOn ==
  /\ ~powered
  /\ powered' = TRUE
  /\ UNCHANGED <<store, next, smp, peerKey, bonds, armed>>

-----------------------------------------------------------------------------
(***************************************************************************)
(* What the Security Manager asks of the store                             *)
(***************************************************************************)

\* The lookup key is hcon->dst at the time of the call.
Stored(p) == store[link[p].dst]
HasKey(p) == Stored(p).serial # 0

\* build_pairing_cmd(): the request's SC bit, OOB flag and identity key bit.
\* Option A decides all three on one lookup; Option B looks up the Force Legacy
\* flag, and then, when the request is a legacy one, whether there is a key.
\* Planted errors: our identity not offered; Secure Connections given up
\* although there is no key.
RequestANoIdKey(p) == [sc |-> ScCapable /\ ~HasKey(p), oob |-> HasKey(p), idKey |-> FALSE]
RequestANoSc(p) == [sc |-> FALSE, oob |-> HasKey(p), idKey |-> HasKey(p)]
RequestA(p) == [sc |-> ScCapable /\ ~HasKey(p), oob |-> HasKey(p), idKey |-> HasKey(p)]
RequestB(p) == [sc |-> ScCapable /\ ~(HasKey(p) /\ Stored(p).force), oob |-> FALSE, idKey |-> FALSE]
BuildPairingCmd(p) == IF Option = "A" THEN RequestA(p) ELSE RequestB(p)

FlagsA(p) == [oob |-> chan[p].oob, idKey |-> chan[p].idKey]
\* Planted errors: our identity not offered; offered to every legacy peer.
FlagsBNoIdKey(p) == [oob |-> ~chan[p].sc /\ HasKey(p), idKey |-> FALSE]
FlagsBAlwaysIdKey(p) == [oob |-> ~chan[p].sc /\ HasKey(p), idKey |-> TRUE]
FlagsB(p) == [oob |-> ~chan[p].sc /\ HasKey(p), idKey |-> ~chan[p].sc /\ HasKey(p)]
Flags(p) == IF Option = "A" THEN FlagsA(p) ELSE FlagsB(p)

\* get_auth_method() for two devices without input or output.
GetAuthMethod(p, sc) == IF ~sc /\ HasKey(p) THEN "REQ_OOB" ELSE "JUST_WORKS"

\* Planted errors: a wipe that leaves a hole in the store, one that is missing,
\* one whose condition is inverted.
WipeAHole(st, c, dst) == IF c.serial # 0 THEN [a \in Addr \ {dst} |-> st[a]] ELSE st
WipeAMissing(st, c, dst) == st
WipeAInverted(st, c, dst) == IF c.serial = 0 THEN [st EXCEPT ![dst] = NoEntry] ELSE st
WipeBMissing(st, c) == st
WipeBInverted(st, c) ==
  IF c.serial # 0 /\ c.persistent THEN [st EXCEPT ![c.keyAddr] = NoEntry] ELSE st

\* smp_chan_destroy() of a completed pairing: A looks the key up again under
\* the address the link has by then, B uses the remembered one.
WipeA(st, c, dst) == IF c.serial # 0 THEN [st EXCEPT ![dst] = NoEntry] ELSE st
WipeB(st, c) ==
  IF c.serial # 0 /\ ~c.persistent THEN [st EXCEPT ![c.keyAddr] = NoEntry] ELSE st
WipeOnComplete(st, c, dst) == IF Option = "A" THEN WipeA(st, c, dst) ELSE WipeB(st, c)

-----------------------------------------------------------------------------
(***************************************************************************)
(* The remote device (outside this repository)                             *)
(***************************************************************************)

\* The Modern Keyboard hangs up on a request without the OOB flag and answers
\* one that offers Secure Connections with Pairing Failed.
PeerAccepts(p) == Kind[p] = "oob" => chan[p].oob /\ ~chan[p].sc
PeerWantsSc(p) == Kind[p] = "sc"
PeerTk(p) == IF Kind[p] = "oob" THEN peerKey[p] ELSE ZeroKey

\* A new F1/F2/F3 exchange gives the keyboard a new TK and abandons its bond.
VendorExchange(p, k) ==
  /\ Kind[p] = "oob"
  /\ k # peerKey[p]
  /\ peerKey' = [peerKey EXCEPT ![p] = k]
  /\ peerBond' = [peerBond EXCEPT ![p] = FALSE]
  /\ UNCHANGED <<store, next, powered, link, chan, bond, pairs, bonds, armed>>

-----------------------------------------------------------------------------
(***************************************************************************)
(* A pairing, from the connection to smp_chan_destroy()                    *)
(***************************************************************************)

\* A bonded peer's address is resolved to its identity when it connects.
Connect(p) ==
  /\ powered /\ ~link[p].up
  /\ link' = [link EXCEPT ![p] =
       [DownLink(p) EXCEPT !.up = TRUE,
                           !.dst = IF bond[p].made THEN IdAddr[p] ELSE ConnAddr[p]]]
  /\ UNCHANGED <<store, next, powered, chan, bond, peerKey, peerBond, pairs, bonds, armed>>

\* smp_conn_security(): an LTK of sufficient level is used instead of pairing.
ConnSecurity(p, lvl) ==
  /\ link[p].up /\ chan[p].step = "idle" /\ pairs < MaxPair
  /\ ~bond[p].made \/ (~bond[p].auth /\ lvl = BT_SECURITY_HIGH)
  /\ link' = [link EXCEPT ![p].pend = IF lvl > @ THEN lvl ELSE @]
  /\ LET req == BuildPairingCmd(p) IN
     chan' = [chan EXCEPT ![p] = [Idle(p) EXCEPT !.step = "building", !.sc = req.sc,
                                                 !.oob = req.oob, !.idKey = req.idKey]]
  /\ pairs' = pairs + 1
  /\ UNCHANGED <<store, next, powered, bond, peerKey, peerBond, bonds, armed>>

SendPairingReq(p) ==
  /\ chan[p].step = "building"
  /\ LET flags == Flags(p) IN
     chan' = [chan EXCEPT ![p].step = "requested", ![p].oob = flags.oob,
                          ![p].idKey = flags.idKey]
  /\ UNCHANGED <<store, next, powered, link, bond, peerKey, peerBond, pairs, bonds, armed>>

\* The "can MITM be achieved?" check of smp_cmd_pairing_rsp().
MitmUnachievable(p) ==
  /\ link[p].pend >= BT_SECURITY_HIGH
  /\ GetAuthMethod(p, chan[p].sc /\ PeerWantsSc(p)) = "JUST_WORKS"

RecvPairingRsp(p) ==
  /\ chan[p].step = "requested"
  /\ PeerAccepts(p) /\ ~MitmUnachievable(p)
  /\ chan' = [chan EXCEPT ![p].step = "checked", ![p].sc = @ /\ PeerWantsSc(p)]
  /\ UNCHANGED <<store, next, powered, link, bond, peerKey, peerBond, pairs, bonds, armed>>

\* Planted error: the pending security level is not raised.
UseStoredKeyNoRaise(p) ==
  /\ chan' = [chan EXCEPT ![p].step = "confirm", ![p].tk = Stored(p).tk,
                          ![p].serial = Stored(p).serial, ![p].keyAddr = link[p].dst,
                          ![p].persistent = Stored(p).persistent]
  /\ UNCHANGED link

\* tk_request(), up to the patches' return.
UseStoredKey(p) ==
  /\ chan' = [chan EXCEPT ![p].step = "confirm", ![p].tk = Stored(p).tk,
                          ![p].serial = Stored(p).serial, ![p].keyAddr = link[p].dst,
                          ![p].persistent = Stored(p).persistent]
  /\ link' = [link EXCEPT ![p].pend = BT_SECURITY_HIGH]

TkRequest(p) ==
  /\ chan[p].step = "checked"
  /\ \/ /\ ~chan[p].sc /\ HasKey(p)
        /\ UseStoredKey(p)
     \/ /\ chan[p].sc \/ ~HasKey(p)
        /\ chan' = [chan EXCEPT ![p].step = IF chan[p].sc THEN "confirm" ELSE "nokey"]
        /\ UNCHANGED link
  /\ UNCHANGED <<store, next, powered, bond, peerKey, peerBond, pairs, bonds, armed>>

\* Option A: tk_request() copies the key while a command, which holds a lock
\* that tk_request() does not take, rewrites or removes it.  The copy is then the
\* old key, the new one (TkRequest before or after the command), the zeroes
\* written in between, or a mixture.
CopyDuringRewrite(p, tk, serial) ==
  /\ chan' = [chan EXCEPT ![p].step = "confirm", ![p].tk = tk, ![p].serial = serial,
                          ![p].keyAddr = link[p].dst, ![p].persistent = FALSE]
  /\ link' = [link EXCEPT ![p].pend = BT_SECURITY_HIGH]

TkRequestRaces(p, tk) ==
  /\ Option = "A"
  /\ chan[p].step = "checked" /\ ~chan[p].sc /\ HasKey(p)
  /\ \/ \E k \in TK :
          /\ next <= MaxArm
          /\ store' = [store EXCEPT ![link[p].dst] = [serial |-> next, tk |-> k,
                                                      persistent |-> FALSE, force |-> FALSE]]
          /\ next' = next + 1
          /\ CopyDuringRewrite(p, tk, next)
     \/ /\ store' = [store EXCEPT ![link[p].dst] = NoEntry]
        /\ CopyDuringRewrite(p, tk, Stored(p).serial)
        /\ UNCHANGED next
  /\ UNCHANGED <<powered, bond, peerKey, peerBond, pairs, bonds, armed>>

\* The rest of tk_request(): without MITM, or with JUST_WORKS, the TK is zero;
\* a key stored since the lookup above makes the method REQ_OOB with no TK.
MitmWanted(p) == Kind[p] = "oob" \/ link[p].pend >= BT_SECURITY_HIGH
TkRequestGeneric(p) ==
  /\ chan[p].step = "nokey"
  /\ IF MitmWanted(p) /\ GetAuthMethod(p, FALSE) = "REQ_OOB"
     THEN /\ chan' = [chan EXCEPT ![p].step = "stalled"]
          /\ link' = [link EXCEPT ![p].pend = BT_SECURITY_HIGH]
     ELSE /\ chan' = [chan EXCEPT ![p].step = "confirm"]
          /\ UNCHANGED link
  /\ UNCHANGED <<store, next, powered, bond, peerKey, peerBond, pairs, bonds, armed>>

\* Confirm and Random values agree when both sides have the same TK; the link
\* is then encrypted and takes the pending security level.
KeysAgree(p) == chan[p].sc \/ chan[p].tk = PeerTk(p)
ConfirmAndEncrypt(p) ==
  /\ chan[p].step = "confirm" /\ KeysAgree(p)
  /\ chan' = [chan EXCEPT ![p].step = "distribute"]
  /\ link' = [link EXCEPT ![p].sec = link[p].pend]
  /\ UNCHANGED <<store, next, powered, bond, peerKey, peerBond, pairs, bonds, armed>>

\* Phase 3.  The peer's IRK moves hcon->dst to the identity address before the
\* completed channel is destroyed; an OOB-only peer commits its bond only when
\* it is sent our identity.
DistributeKeys(p) ==
  LET c == chan[p] IN
  /\ c.step = "distribute"
  /\ bond' = [bond EXCEPT ![p] = [made |-> TRUE, auth |-> link[p].sec = BT_SECURITY_HIGH,
                                  sc |-> c.sc, tk |-> c.tk, idKey |-> c.idKey]]
  /\ peerBond' = [peerBond EXCEPT ![p] = Kind[p] = "oob" => c.idKey]
  /\ link' = [link EXCEPT ![p].dst = IdAddr[p]]
  /\ store' = WipeOnComplete(store, c, IdAddr[p])
  /\ bonds' = [s \in Serial |-> IF s = c.serial /\ ~c.persistent THEN bonds[s] + 1
                                                                ELSE bonds[s]]
  /\ chan' = [chan EXCEPT ![p] = Idle(p)]
  /\ UNCHANGED <<next, powered, peerKey, pairs, armed>>

\* Planted error: the channel outlives the pairing and remembers its key.
DestroyIncompleteKeepsKey(p) == chan' = [chan EXCEPT ![p].step = "idle"]

\* smp_chan_destroy() of a pairing that failed: the stored key is not touched.
DestroyIncomplete(p) == chan' = [chan EXCEPT ![p] = Idle(p)]

\* Planted error: a failed pairing drops the key of its link too.
PairingFailedWipes(p) ==
  /\ \/ chan[p].step = "requested" /\ (~PeerAccepts(p) \/ MitmUnachievable(p))
     \/ chan[p].step = "confirm" /\ ~KeysAgree(p)
  /\ DestroyIncomplete(p)
  /\ store' = [store EXCEPT ![link[p].dst] = NoEntry]
  /\ UNCHANGED <<next, powered, link, bond, peerKey, peerBond, pairs, bonds, armed>>

PairingFailed(p) ==
  /\ \/ chan[p].step = "requested" /\ (~PeerAccepts(p) \/ MitmUnachievable(p))
     \/ chan[p].step = "confirm" /\ ~KeysAgree(p)
  /\ DestroyIncomplete(p)
  /\ UNCHANGED <<store, next, powered, link, bond, peerKey, peerBond, pairs, bonds, armed>>

\* Planted error: the timer is armed by the Confirm and not by the PDUs before.
SmpTimeoutNotStalled(p) ==
  /\ chan[p].step \in {"confirm", "distribute"}
  /\ DestroyIncomplete(p)
  /\ link' = [link EXCEPT ![p] = DownLink(p)]
  /\ UNCHANGED <<store, next, powered, bond, peerKey, peerBond, pairs, bonds, armed>>

\* The 30 second SMP timer, restarted by every PDU sent, drops the link.
SmpTimeout(p) ==
  /\ chan[p].step \notin {"idle", "building"}
  /\ DestroyIncomplete(p)
  /\ link' = [link EXCEPT ![p] = DownLink(p)]
  /\ UNCHANGED <<store, next, powered, bond, peerKey, peerBond, pairs, bonds, armed>>

Disconnect(p) ==
  /\ link[p].up
  /\ DestroyIncomplete(p)
  /\ link' = [link EXCEPT ![p] = DownLink(p)]
  /\ UNCHANGED <<store, next, powered, bond, peerKey, peerBond, pairs, bonds, armed>>

\* MGMT_OP_UNPAIR_DEVICE forgets the LTK and the IRK and drops the link.
Unpair(p) ==
  /\ bond[p].made
  /\ bond' = [bond EXCEPT ![p] = NoBond]
  /\ DestroyIncomplete(p)
  /\ link' = [link EXCEPT ![p] = DownLink(p)]
  /\ UNCHANGED <<store, next, powered, peerKey, peerBond, pairs, bonds, armed>>

-----------------------------------------------------------------------------
UserSpace ==
  \/ \E a \in Addr, k \in TK, persistent, force \in BOOLEAN :
       AddRemoteLegacyOob(a, k, persistent, force)
  \/ \E a \in Addr : AddOtherOobData(a)
  \/ \E a \in Addr : RemoveRemoteLegacyOob(a)
  \/ RemoveAll
  \/ PowerOff
  \/ PowerOn
  \/ \E p \in Peer : Unpair(p)
  \/ \E p \in Peer : Connect(p)
  \/ \E p \in Peer, lvl \in {BT_SECURITY_MEDIUM, BT_SECURITY_HIGH} : ConnSecurity(p, lvl)

Device(p) ==
  \/ \E k \in Key : VendorExchange(p, k)
  \/ Disconnect(p)

SmpStep(p) ==
  \/ SendPairingReq(p)
  \/ RecvPairingRsp(p)
  \/ TkRequest(p)
  \/ \E tk \in {ZeroKey, TornKey} : TkRequestRaces(p, tk)
  \/ TkRequestGeneric(p)
  \/ ConfirmAndEncrypt(p)
  \/ DistributeKeys(p)
  \/ PairingFailed(p)

Next == UserSpace \/ \E p \in Peer : Device(p) \/ SmpStep(p) \/ SmpTimeout(p)

Spec == Init /\ [][Next]_vars

\* smp_conn_security() runs to its end.  The SMP timer is armed with every PDU
\* sent and always fires; nothing obliges user space to issue a command or the
\* peer to answer.
Fairness == \A p \in Peer : WF_vars(SendPairingReq(p)) /\ WF_vars(SmpTimeout(p))
FairSpec == Spec /\ Fairness

-----------------------------------------------------------------------------
(***************************************************************************)
(* Properties                                                              *)
(***************************************************************************)

TypeOK ==
  /\ store \in [Addr -> Entry]
  /\ next \in 1..(MaxArm + 1)
  /\ powered \in BOOLEAN
  /\ link \in [Peer -> Link]
  /\ chan \in [Peer -> Chan]
  /\ bond \in [Peer -> Bond]
  /\ peerKey \in [Peer -> Key]
  /\ peerBond \in [Peer -> BOOLEAN]
  /\ pairs \in 0..MaxPair
  /\ bonds \in [Serial -> Nat]
  /\ armed \subseteq Addr

\* A key stored once, and not as Persistent, produces at most one bond, however
\* storing, pairing, failing and pairing again interleave: the key is single use.
KeyBondsOnce == \A s \in Serial : bonds[s] <= 1

\* Once a one-time key has produced a bond it is no longer in the store
\* ("smp_chan_destroy() wipes it").
SpentKeyIsWiped == \A a \in Addr : store[a].serial # 0 => bonds[store[a].serial] = 0

\* The store and the Security Manager implement the abstract one-time key.
OneTime == INSTANCE OneTimeKey WITH
             issued <- 1..(next - 1),
             live   <- {store[a].serial : a \in Addr} \ {0}
ImplementsOneTimeKey == OneTime!Spec

\* A bond made with a key other than zero is authenticated, is a legacy bond,
\* and its request had offered our identity, although the request, the MITM
\* check and tk_request() each look the key up for themselves and user space
\* may change it in between.
KeyedBondIsWhole ==
  \A p \in Peer : bond[p].made /\ bond[p].tk # ZeroKey =>
    bond[p].auth /\ ~bond[p].sc /\ bond[p].idKey

\* A bond is never one-sided when it is made: whatever the store held at each
\* lookup, a peer that keeps its bond only if it gets our identity has got it.
BondIsTwoSided ==
  [][\A p \in Peer : chan[p].step = "distribute" /\ bond'[p].made /\ bond'[p] # bond[p]
       => peerBond'[p]]_vars

\* A peer user space never stored a key for pairs as it did before the patches:
\* no Secure Connections peer is downgraded and none gets our identity.
UnarmedPairingUnchanged ==
  \A p \in Peer : {ConnAddr[p], IdAddr[p]} \cap armed = {} =>
    /\ bond[p].made => bond[p].sc = (ScCapable /\ Kind[p] = "sc") /\ ~bond[p].idKey
    /\ ~bond[p].auth

\* A pairing that ends without a bond leaves every stored key in place, so a
\* retry needs no new key.  (Powering the controller off is another matter.)
FailureKeepsKey ==
  [][\A p \in Peer : /\ powered' /\ bonds' = bonds
                     /\ chan[p].step # "idle" /\ chan'[p].step = "idle"
       => store' = store]_vars

\* Every pairing ends, also one for which tk_request() chose REQ_OOB without a
\* key and so never sends its Confirm.
PairingEnds == \A p \in Peer : chan[p].step # "idle" ~> chan[p].step = "idle"

\* A key stored as Persistent leaves the store by a management command only,
\* never because a pairing ends (optionB/0001, the documentation of the flag).
PersistentKeyStays ==
  [][\A a \in Addr : store[a].persistent /\ ~store'[a].persistent => chan' = chan]_vars

\* No bond made with the all-zero TK, the one of Just Works, is marked as MITM
\* protected (optionB/0001, the reason the command refuses a zero key).
AuthenticatedBondHasKey ==
  \A p \in Peer : bond[p].made /\ bond[p].auth => bond[p].tk # ZeroKey

-----------------------------------------------------------------------------
(***************************************************************************)
(* The inductive invariant behind ImplementsOneTimeKey and KeyBondsOnce.   *)
(* A pairing that has read a key knows it by its serial; what the          *)
(* invariant says is where the other copies of that key can be.            *)
(***************************************************************************)
StaticPeers == \A p \in Peer : IdAddr[p] = ConnAddr[p]

\* Serials name the entries: fresh ones are above every one in use.
SerialsAreNames ==
  /\ \A a \in Addr : store[a].serial < next
  /\ \A p \in Peer : chan[p].serial < next
  /\ \A s \in Serial : s >= next => bonds[s] = 0
  /\ \A a, b \in Addr : store[a].serial = store[b].serial /\ store[a].serial # 0 => a = b

\* A pairing that holds a key runs on a link that still has the address the
\* key was found under, and the store has that key nowhere else.
HolderKnowsAddress ==
  \A p \in Peer :
    /\ link[p].dst \in {ConnAddr[p], IdAddr[p]}
    /\ chan[p].step # "idle" => link[p].up
    /\ chan[p].serial # 0 =>
         /\ chan[p].step \in {"confirm", "distribute"}
         /\ chan[p].keyAddr = link[p].dst
         /\ \A a \in Addr : store[a].serial = chan[p].serial =>
              a = chan[p].keyAddr /\ store[a].persistent = chan[p].persistent

\* Two pairings never hold the same key, and a spent key is nowhere.
OneHolder ==
  \A p, q \in Peer : chan[p].serial = chan[q].serial /\ chan[p].serial # 0 => p = q
SpentIsNowhere ==
  \A s \in Serial : bonds[s] # 0 =>
    /\ \A a \in Addr : store[a].serial # s
    /\ \A p \in Peer : chan[p].serial # s

KeyInv == SerialsAreNames /\ HolderKnowsAddress /\ OneHolder /\ SpentIsNowhere /\ KeyBondsOnce

\* What a pairing carries from its request to its bond.
PairingInv ==
  \A p \in Peer :
    /\ chan[p].step # "idle" => link[p].up
    /\ chan[p].oob = chan[p].idKey
    /\ chan[p].step \in {"checked", "nokey", "confirm", "stalled", "distribute"} /\ Kind[p] = "oob"
         => chan[p].oob /\ ~chan[p].sc
    /\ chan[p].tk # ZeroKey =>
         /\ chan[p].step \in {"confirm", "distribute"} /\ ~chan[p].sc
         /\ link[p].pend = BT_SECURITY_HIGH
         /\ chan[p].step = "distribute" => link[p].sec = BT_SECURITY_HIGH /\ Kind[p] = "oob"

IInv == TypeOK /\ KeyInv /\ PairingInv /\ KeyedBondIsWhole
=============================================================================
