------------------------- MODULE SmpLegacyOobProofs -------------------------
(***************************************************************************)
(* Proofs about SmpLegacyOob, for every set of peers, addresses and keys,  *)
(* for either patch series, and for every bound.                           *)
(***************************************************************************)
EXTENDS SmpLegacyOob, TLAPS

\* Every entry a step writes is an entry, every channel a channel.
LEMMA RecordTypes ==
  /\ NoEntry \in Entry
  /\ NoBond \in Bond
  /\ \A p \in Peer : Idle(p) \in Chan /\ DownLink(p) \in Link
BY BoundAssumption, PeerAssumption
   DEF NoEntry, Entry, NoBond, Bond, Idle, Chan, Step, DownLink, Link, Level, TK, Copied,
       BT_SECURITY_LOW, BT_SECURITY_HIGH

LEMMA RequestTypes ==
  ASSUME NEW p \in Peer, TypeOK
  PROVE  /\ BuildPairingCmd(p).sc \in BOOLEAN
         /\ BuildPairingCmd(p).oob \in BOOLEAN
         /\ BuildPairingCmd(p).idKey = BuildPairingCmd(p).oob
  <1>1. Stored(p) \in Entry
    BY DEF TypeOK, Stored, Link
  <1>2. HasKey(p) \in BOOLEAN /\ Stored(p).force \in BOOLEAN
    BY <1>1 DEF HasKey, Entry
  <1> QED
    BY <1>2, OptionAssumption DEF BuildPairingCmd, RequestA, RequestB

LEMMA FlagTypes ==
  ASSUME NEW p \in Peer, TypeOK
  PROVE  /\ Flags(p).oob \in BOOLEAN /\ Flags(p).idKey \in BOOLEAN
         /\ chan[p].oob = chan[p].idKey => Flags(p).idKey = Flags(p).oob
  <1>1. chan[p] \in Chan /\ Stored(p) \in Entry
    BY DEF TypeOK, Stored, Link
  <1>2. chan[p].sc \in BOOLEAN /\ chan[p].oob \in BOOLEAN /\ chan[p].idKey \in BOOLEAN
    BY <1>1 DEF Chan
  <1> QED
    BY <1>2, OptionAssumption DEF Flags, FlagsA, FlagsB, HasKey

\* A record of the right type with one or more components replaced keeps it.
LEMMA ChanUpdate ==
  ASSUME NEW c \in Chan, NEW s \in Step, NEW b \in BOOLEAN
  PROVE  /\ [c EXCEPT !.step = s] \in Chan
         /\ [c EXCEPT !.step = s, !.sc = @ /\ b] \in Chan
BY DEF Chan

LEMMA ChanTake ==
  ASSUME NEW c \in Chan, NEW tk \in Copied, NEW n \in 0..MaxArm, NEW a \in Addr,
         NEW b \in BOOLEAN
  PROVE  [c EXCEPT !.step = "confirm", !.tk = tk, !.serial = n, !.keyAddr = a,
                   !.persistent = b] \in Chan
BY DEF Chan, Step

LEMMA ChanRequest ==
  ASSUME NEW c \in Chan, NEW o \in BOOLEAN, NEW i \in BOOLEAN
  PROVE  [c EXCEPT !.step = "requested", !.oob = o, !.idKey = i] \in Chan
BY DEF Chan, Step

LEMMA LinkUpdate ==
  ASSUME NEW l \in Link, NEW v \in Level
  PROVE  /\ [l EXCEPT !.pend = v] \in Link
         /\ [l EXCEPT !.pend = IF v > @ THEN v ELSE @] \in Link
         /\ [l EXCEPT !.sec = v] \in Link
BY DEF Link

LEMMA RaisingKeepsLink ==
  ASSUME NEW l \in Link, NEW v
  PROVE  [l EXCEPT !.pend = v].up = l.up
BY DEF Link

LEMMA LevelTypes == BT_SECURITY_MEDIUM \in Level /\ BT_SECURITY_HIGH \in Level
BY DEF Level, BT_SECURITY_LOW, BT_SECURITY_MEDIUM, BT_SECURITY_HIGH

LEMMA WipeTypes ==
  ASSUME NEW p \in Peer, TypeOK
  PROVE  WipeOnComplete(store, chan[p], IdAddr[p]) \in [Addr -> Entry]
BY RecordTypes, PeerAssumption DEF TypeOK, WipeOnComplete, WipeA, WipeB, Chan

\* The variables keep their types: whatever the order of management commands,
\* power cycles and pairings, the store, the links and the channels stay well
\* formed.
THEOREM TypeCorrect == Spec => []TypeOK
<1>1. Init => TypeOK
  BY RecordTypes, BoundAssumption DEF Init, TypeOK, Serial
<1>2. TypeOK /\ [Next]_vars => TypeOK'
  <2> SUFFICES ASSUME TypeOK, [Next]_vars PROVE TypeOK'
    OBVIOUS
  <2> USE RecordTypes, BoundAssumption, PeerAssumption, OptionAssumption DEF TypeOK, smp
  <2>1. ASSUME NEW a \in Addr, NEW k \in TK, NEW persistent \in BOOLEAN, NEW force \in BOOLEAN,
               AddRemoteLegacyOob(a, k, persistent, force)
        PROVE  TypeOK'
    <3>1. [serial |-> next, tk |-> k, persistent |-> persistent, force |-> force] \in Entry
      BY <2>1 DEF AddRemoteLegacyOob, Entry
    <3> QED
      BY <2>1, <3>1 DEF AddRemoteLegacyOob
  <2>2. ASSUME NEW a \in Addr, AddOtherOobData(a) \/ RemoveRemoteLegacyOob(a)
        PROVE  TypeOK'
    BY <2>2 DEF AddOtherOobData, RemoveRemoteLegacyOob
  <2>3. CASE RemoveAll
    BY <2>3 DEF RemoveAll
  <2>4. CASE PowerOff
    BY <2>4 DEF PowerOff, StoreAfterClose, ClearEphemeral
  <2>5. CASE PowerOn
    BY <2>5 DEF PowerOn
  <2>6. ASSUME NEW p \in Peer, Unpair(p)
        PROVE  TypeOK'
    BY <2>6 DEF Unpair, DestroyIncomplete
  <2>7. ASSUME NEW p \in Peer, Connect(p)
        PROVE  TypeOK'
    BY <2>7 DEF Connect, Link, DownLink
  <2>8. ASSUME NEW p \in Peer, NEW lvl \in {BT_SECURITY_MEDIUM, BT_SECURITY_HIGH},
               ConnSecurity(p, lvl)
        PROVE  TypeOK'
    <3>1. link' \in [Peer -> Link]
      <4>1. [link[p] EXCEPT !.pend = IF lvl > @ THEN lvl ELSE @] \in Link
        BY LinkUpdate, LevelTypes
      <4> QED
        BY <2>8, <4>1 DEF ConnSecurity
    <3>2. chan' \in [Peer -> Chan]
      BY <2>8, RequestTypes DEF ConnSecurity, Chan, Step, Idle
    <3> QED
      BY <2>8, <3>1, <3>2 DEF ConnSecurity
  <2>9. ASSUME NEW p \in Peer, NEW k \in Key, VendorExchange(p, k)
        PROVE  TypeOK'
    BY <2>9 DEF VendorExchange
  <2>10. ASSUME NEW p \in Peer, Disconnect(p) \/ SmpTimeout(p) \/ PairingFailed(p)
         PROVE  TypeOK'
    BY <2>10 DEF Disconnect, SmpTimeout, PairingFailed, DestroyIncomplete
  <2>11. ASSUME NEW p \in Peer, RecvPairingRsp(p)
         PROVE  TypeOK'
    <3>1. [chan[p] EXCEPT !.step = "checked", !.sc = @ /\ PeerWantsSc(p)] \in Chan
      BY ChanUpdate DEF Step, PeerWantsSc
    <3> QED
      BY <2>11, <3>1 DEF RecvPairingRsp
  <2>12. ASSUME NEW p \in Peer, TkRequest(p)
         PROVE  TypeOK'
    <3>1. CASE ~chan[p].sc /\ HasKey(p) /\ UseStoredKey(p)
      <4>1. Stored(p) \in Entry
        BY DEF Stored, Link
      <4>2. link' \in [Peer -> Link]
        <5>1. [link[p] EXCEPT !.pend = BT_SECURITY_HIGH] \in Link
          BY LinkUpdate, LevelTypes
        <5> QED
          BY <3>1, <5>1 DEF UseStoredKey
      <4>3. chan' \in [Peer -> Chan]
        <5>1. link[p].dst \in Addr
          BY DEF Link
        <5>2. [chan[p] EXCEPT !.step = "confirm", !.tk = Stored(p).tk,
                              !.serial = Stored(p).serial, !.keyAddr = link[p].dst,
                              !.persistent = Stored(p).persistent] \in Chan
          BY <4>1, <5>1, ChanTake DEF Entry, Copied
        <5> QED
          BY <3>1, <5>2 DEF UseStoredKey
      <4> QED
        BY <2>12, <4>2, <4>3 DEF TkRequest
    <3>2. CASE UNCHANGED link
      <4>1. /\ [chan[p] EXCEPT !.step = "confirm"] \in Chan
            /\ [chan[p] EXCEPT !.step = "nokey"] \in Chan
        BY ChanUpdate DEF Step
      <4>2. CASE chan[p].sc /\ chan' = [chan EXCEPT ![p].step = "confirm"]
        BY <2>12, <3>2, <4>1, <4>2 DEF TkRequest
      <4>3. CASE ~chan[p].sc /\ chan' = [chan EXCEPT ![p].step = "nokey"]
        BY <2>12, <3>2, <4>1, <4>3 DEF TkRequest
      <4>4. CASE UseStoredKey(p) /\ ~chan[p].sc /\ HasKey(p)
        BY <3>1, <4>4
      <4> QED
        BY <2>12, <4>2, <4>3, <4>4 DEF TkRequest
    <3> QED
      BY <2>12, <3>1, <3>2 DEF TkRequest
  <2>13. ASSUME NEW p \in Peer, TkRequestGeneric(p)
         PROVE  TypeOK'
    <3>1. link' \in [Peer -> Link]
      <4>1. [link[p] EXCEPT !.pend = BT_SECURITY_HIGH] \in Link
        BY LinkUpdate, LevelTypes
      <4> QED
        BY <2>13, <4>1 DEF TkRequestGeneric
    <3>2. chan' \in [Peer -> Chan]
      <4>1. /\ [chan[p] EXCEPT !.step = "confirm"] \in Chan
            /\ [chan[p] EXCEPT !.step = "stalled"] \in Chan
        BY ChanUpdate DEF Step
      <4> QED
        BY <2>13, <4>1 DEF TkRequestGeneric
    <3> QED
      BY <2>13, <3>1, <3>2 DEF TkRequestGeneric
  <2>14. ASSUME NEW p \in Peer, ConfirmAndEncrypt(p)
         PROVE  TypeOK'
    <3>1. [chan[p] EXCEPT !.step = "distribute"] \in Chan
      BY ChanUpdate DEF Step
    <3>2. [link[p] EXCEPT !.sec = link[p].pend] \in Link
      BY LinkUpdate DEF Link
    <3> QED
      BY <2>14, <3>1, <3>2 DEF ConfirmAndEncrypt
  <2>15. ASSUME NEW p \in Peer, DistributeKeys(p)
         PROVE  TypeOK'
    <3>1. bond' \in [Peer -> Bond]
      BY <2>15 DEF DistributeKeys, Bond, Chan
    <3>2. bonds' \in [Serial -> Nat]
      BY <2>15 DEF DistributeKeys
    <3>3. link' \in [Peer -> Link]
      <4>1. [link[p] EXCEPT !.dst = IdAddr[p]] \in Link
        BY PeerAssumption DEF TypeOK, Link
      <4> QED
        BY <2>15, <4>1 DEF DistributeKeys, TypeOK
    <3> QED
      BY <2>15, <3>1, <3>2, <3>3, WipeTypes DEF DistributeKeys, Chan
  <2>16. ASSUME NEW p \in Peer, SendPairingReq(p)
         PROVE  TypeOK'
    <3>1. [chan[p] EXCEPT !.step = "requested", !.oob = Flags(p).oob,
                          !.idKey = Flags(p).idKey] \in Chan
      BY FlagTypes, ChanRequest
    <3> QED
      BY <2>16, <3>1 DEF SendPairingReq
  <2>17. ASSUME NEW p \in Peer, NEW tk \in {ZeroKey, TornKey}, TkRequestRaces(p, tk)
         PROVE  TypeOK'
    <3>1. tk \in Copied /\ link[p].dst \in Addr /\ Stored(p) \in Entry
      BY DEF Copied, TK, Link, Stored
    <3>2. ASSUME NEW n \in 0..MaxArm, CopyDuringRewrite(p, tk, n)
          PROVE  chan' \in [Peer -> Chan] /\ link' \in [Peer -> Link]
      <4>1. [chan[p] EXCEPT !.step = "confirm", !.tk = tk, !.serial = n,
                            !.keyAddr = link[p].dst, !.persistent = FALSE] \in Chan
        BY <3>1, ChanTake
      <4>2. [link[p] EXCEPT !.pend = BT_SECURITY_HIGH] \in Link
        BY LinkUpdate, LevelTypes
      <4> QED
        BY <3>2, <4>1, <4>2 DEF CopyDuringRewrite
    <3>3. CASE /\ next' = next /\ CopyDuringRewrite(p, tk, Stored(p).serial)
               /\ store' = [store EXCEPT ![link[p].dst] = NoEntry]
      <4>1. Stored(p).serial \in 0..MaxArm
        BY <3>1 DEF Entry
      <4> QED
        BY <2>17, <3>2, <3>3, <4>1 DEF TkRequestRaces
    <3>4. ASSUME NEW k \in TK, next <= MaxArm, next' = next + 1, CopyDuringRewrite(p, tk, next),
                 store' = [store EXCEPT ![link[p].dst] = [serial |-> next, tk |-> k,
                                              persistent |-> FALSE, force |-> FALSE]]
          PROVE  TypeOK'
      <4>1. next \in 0..MaxArm /\ next' \in 1..(MaxArm + 1)
        BY <3>4
      <4>2. [serial |-> next, tk |-> k, persistent |-> FALSE, force |-> FALSE] \in Entry
        BY <4>1 DEF Entry
      <4> QED
        BY <2>17, <3>2, <3>4, <4>1, <4>2 DEF TkRequestRaces
    <3> QED
      BY <2>17, <3>3, <3>4 DEF TkRequestRaces
  <2>18. CASE UNCHANGED vars
    BY <2>18 DEF vars
  <2> QED
    BY <2>1, <2>2, <2>3, <2>4, <2>5, <2>6, <2>7, <2>8, <2>9, <2>10, <2>11, <2>12,
       <2>13, <2>14, <2>15, <2>16, <2>17, <2>18
    DEF Next, UserSpace, Device, SmpStep
<1> QED
  BY <1>1, <1>2, PTL DEF Spec

-----------------------------------------------------------------------------
(***************************************************************************)
(* The key invariant                                                       *)
(***************************************************************************)

\* Option A looks the key up again after the link has moved to the identity
\* address, so the argument needs peers whose two addresses are one.
DropsTheRightKey == Option = "B" \/ StaticPeers

\* Most steps only take keys away: entries disappear, pairings end or go on
\* with what they hold, on the same address.
OnlyTakesAway ==
  /\ UNCHANGED <<next, bonds>>
  /\ \A a \in Addr : store'[a] = store[a] \/ store'[a].serial = 0
  /\ \A p \in Peer :
       /\ link'[p].dst \in {ConnAddr[p], IdAddr[p]}
       /\ chan'[p].step # "idle" => link'[p].up
       /\ \/ chan'[p].serial = 0
          \/ /\ chan'[p].serial = chan[p].serial /\ chan'[p].keyAddr = chan[p].keyAddr
             /\ chan'[p].persistent = chan[p].persistent
             /\ chan'[p].step \in {"confirm", "distribute"}
             /\ link'[p].dst = link[p].dst

LEMMA TakingAwayIsSafe ==
  ASSUME TypeOK, TypeOK', KeyInv, OnlyTakesAway
  PROVE  KeyInv'
<1> USE DEF KeyInv, OnlyTakesAway
<1>1. SerialsAreNames'
  BY BoundAssumption DEF SerialsAreNames, TypeOK
<1>2. HolderKnowsAddress'
  BY DEF HolderKnowsAddress
<1>3. OneHolder'
  BY DEF OneHolder
<1>4. SpentIsNowhere'
  BY DEF SpentIsNowhere, Serial
<1>5. KeyBondsOnce'
  BY DEF KeyBondsOnce
<1> QED
  BY <1>1, <1>2, <1>3, <1>4, <1>5

\* Storing a key uses a serial nothing else has.
LEMMA StoringIsSafe ==
  ASSUME TypeOK, TypeOK', KeyInv,
         NEW a \in Addr, NEW k \in TK, NEW persistent \in BOOLEAN, NEW force \in BOOLEAN,
         AddRemoteLegacyOob(a, k, persistent, force)
  PROVE  KeyInv'
<1> USE DEF KeyInv, smp
<1>1. /\ store'[a].serial = next /\ next' = next + 1 /\ next \in Serial
      /\ \A b \in Addr \ {a} : store'[b] = store[b]
      /\ UNCHANGED <<link, chan, bonds>>
  BY BoundAssumption DEF AddRemoteLegacyOob, TypeOK, Serial
<1>2. \A p \in Peer : chan[p].serial \in Nat /\ chan[p].serial < next
  BY BoundAssumption DEF SerialsAreNames, TypeOK, Chan
<1>3. \A b \in Addr : store[b].serial \in Nat /\ store[b].serial < next
  BY BoundAssumption DEF SerialsAreNames, TypeOK, Entry
<1>4. next \in Nat \ {0} /\ bonds[next] = 0
  BY <1>1, BoundAssumption DEF SerialsAreNames, TypeOK, Serial
<1>5. SerialsAreNames'
  BY <1>1, <1>2, <1>3, <1>4, BoundAssumption DEF SerialsAreNames, Serial
<1>6. HolderKnowsAddress'
  BY <1>1, <1>2, <1>3 DEF HolderKnowsAddress
<1>7. OneHolder'
  BY <1>1 DEF OneHolder
<1>8. SpentIsNowhere'
  BY <1>1, <1>2, <1>4 DEF SpentIsNowhere, Serial
<1>9. KeyBondsOnce'
  BY <1>1 DEF KeyBondsOnce
<1> QED
  BY <1>5, <1>6, <1>7, <1>8, <1>9

\* A pairing may take hold of a key that is unspent, that no other pairing holds
\* and that is stored, if at all, under the address of its link.
LEMMA HoldingIsSafe ==
  ASSUME TypeOK, TypeOK', KeyInv, NEW p \in Peer, NEW s \in Serial,
         link[p].up, link[p].dst \in {ConnAddr[p], IdAddr[p]},
         s < next', next' \in {next, next + 1}, UNCHANGED bonds, bonds[s] = 0,
         \A q \in Peer \ {p} : chan[q].serial # s /\ chan'[q] = chan[q] /\ link'[q] = link[q],
         chan'[p].serial = s, chan'[p].keyAddr = link[p].dst, chan'[p].step = "confirm",
         link'[p].dst = link[p].dst, link'[p].up = link[p].up,
         \A b \in Addr : store'[b] = store[b] \/ store'[b].serial \in {0, s},
         \A b \in Addr : store'[b].serial = s =>
                            b = link[p].dst /\ store'[b].persistent = chan'[p].persistent
  PROVE  KeyInv'
<1> USE DEF KeyInv
<1>1. s \in Nat \ {0} /\ next \in Nat /\ next' >= next
  BY BoundAssumption DEF Serial, TypeOK
<1>2. \A b \in Addr : store[b].serial \in Nat /\ store[b].serial < next
  BY DEF TypeOK, Entry, SerialsAreNames
<1>3. \A q \in Peer : chan[q].serial \in Nat /\ chan[q].serial < next
  BY DEF TypeOK, Chan, SerialsAreNames
<1>4. SerialsAreNames'
  <2>1. \A b \in Addr : store'[b].serial < next'
    BY <1>1, <1>2
  <2>2. \A q \in Peer : chan'[q].serial < next'
    BY <1>1, <1>3
  <2>3. \A t \in Serial : t >= next' => bonds'[t] = 0
    BY <1>1, BoundAssumption DEF SerialsAreNames, Serial
  <2>4. \A b, c \in Addr : store'[b].serial = store'[c].serial /\ store'[b].serial # 0 => b = c
    BY DEF SerialsAreNames
  <2> QED
    BY <2>1, <2>2, <2>3, <2>4 DEF SerialsAreNames
<1>5. HolderKnowsAddress'
  <2> SUFFICES ASSUME NEW q \in Peer
               PROVE  HolderKnowsAddress!(q)'
    BY DEF HolderKnowsAddress
  <2>1. CASE q = p
    BY <1>1, <2>1
  <2>2. CASE q # p
    BY <2>2 DEF HolderKnowsAddress
  <2> QED
    BY <2>1, <2>2
<1>6. OneHolder'
  BY DEF OneHolder
<1>7. SpentIsNowhere'
  BY <1>1 DEF SpentIsNowhere, Serial
<1>8. KeyBondsOnce'
  BY DEF KeyBondsOnce
<1> QED
  BY <1>4, <1>5, <1>6, <1>7, <1>8

\* Reading a key: nobody else can be holding it, since a holder's link has the
\* address the key is stored under and no two peers share an address.
LEMMA StoredKeyIsFree ==
  ASSUME TypeOK, KeyInv, NEW p \in Peer, chan[p].step = "checked", HasKey(p)
  PROVE  /\ Stored(p).serial \in Serial /\ Stored(p).serial < next
         /\ bonds[Stored(p).serial] = 0
         /\ link[p].up /\ link[p].dst \in {ConnAddr[p], IdAddr[p]} /\ link[p].dst \in Addr
         /\ \A b \in Addr : store[b].serial = Stored(p).serial => b = link[p].dst
         /\ \A q \in Peer \ {p} : chan[q].serial # Stored(p).serial
<1> USE DEF KeyInv
<1> DEFINE a == link[p].dst
           s == store[a].serial
<1>1. a \in Addr /\ s # 0 /\ s \in Serial /\ s < next /\ s = Stored(p).serial
  BY BoundAssumption DEF TypeOK, Link, Entry, HasKey, Stored, Serial, SerialsAreNames
<1>2. a \in {ConnAddr[p], IdAddr[p]} /\ link[p].up
  BY DEF HolderKnowsAddress
<1>3. ASSUME NEW q \in Peer \ {p}, chan[q].serial = s PROVE FALSE
  <2>1. a = link[q].dst /\ link[q].dst \in {ConnAddr[q], IdAddr[q]}
    BY <1>1, <1>3 DEF HolderKnowsAddress
  <2> QED
    BY <1>2, <2>1, AddressAssumption
<1>4. \A b \in Addr : store[b].serial = s => b = a
  BY <1>1 DEF SerialsAreNames
<1>5. bonds[s] = 0
  BY <1>1 DEF SpentIsNowhere
<1> QED
  BY <1>1, <1>2, <1>3, <1>4, <1>5

LEMMA ReadingIsSafe ==
  ASSUME TypeOK, TypeOK', KeyInv, NEW p \in Peer, TkRequest(p), ~chan[p].sc, HasKey(p)
  PROVE  KeyInv'
<1> DEFINE a == link[p].dst
           s == Stored(p).serial
<1>1. chan[p].step = "checked"
  BY DEF TkRequest
<1>2. /\ UNCHANGED <<store, next, bonds>>
      /\ chan'[p].serial = s /\ chan'[p].keyAddr = a /\ chan'[p].step = "confirm"
      /\ chan'[p].persistent = store[a].persistent
      /\ link'[p].dst = a /\ link'[p].up = link[p].up
      /\ \A q \in Peer \ {p} : chan'[q] = chan[q] /\ link'[q] = link[q]
  BY DEF TkRequest, UseStoredKey, Stored, TypeOK, Chan, Link
<1> QED
  BY <1>1, <1>2, StoredKeyIsFree, HoldingIsSafe

\* What a copy that races with a command does, whichever the command is.
LEMMA RacedCopy ==
  ASSUME TypeOK, NEW p \in Peer, NEW tk, TkRequestRaces(p, tk)
  PROVE  /\ chan[p].step = "checked" /\ ~chan[p].sc /\ HasKey(p) /\ UNCHANGED bonds
         /\ chan'[p].keyAddr = link[p].dst /\ chan'[p].step = "confirm"
         /\ chan'[p].persistent = FALSE /\ chan'[p].sc = chan[p].sc
         /\ chan'[p].oob = chan[p].oob /\ chan'[p].idKey = chan[p].idKey
         /\ link'[p].dst = link[p].dst /\ link'[p].up = link[p].up
         /\ link'[p].pend = BT_SECURITY_HIGH
         /\ \A q \in Peer \ {p} : chan'[q] = chan[q] /\ link'[q] = link[q]
         /\ \A b \in Addr \ {link[p].dst} : store'[b] = store[b]
         /\ \/ /\ next' = next /\ chan'[p].serial = Stored(p).serial
               /\ store'[link[p].dst].serial = 0
            \/ /\ next <= MaxArm /\ next' = next + 1 /\ chan'[p].serial = next
               /\ store'[link[p].dst].serial = next /\ store'[link[p].dst].persistent = FALSE
<1>1. link[p].dst \in Addr
  BY DEF TypeOK, Link
<1>2. /\ chan[p].step = "checked" /\ ~chan[p].sc /\ HasKey(p) /\ UNCHANGED bonds
      /\ \E n : CopyDuringRewrite(p, tk, n)
  BY DEF TkRequestRaces
<1>3. PICK n : CopyDuringRewrite(p, tk, n)
  BY <1>2
<1>4. /\ chan'[p].keyAddr = link[p].dst /\ chan'[p].step = "confirm"
      /\ chan'[p].persistent = FALSE /\ chan'[p].sc = chan[p].sc
      /\ chan'[p].oob = chan[p].oob /\ chan'[p].idKey = chan[p].idKey
      /\ \A q \in Peer \ {p} : chan'[q] = chan[q]
  BY <1>3 DEF CopyDuringRewrite, TypeOK, Chan
<1>5. /\ link'[p].dst = link[p].dst /\ link'[p].up = link[p].up
      /\ link'[p].pend = BT_SECURITY_HIGH
      /\ \A q \in Peer \ {p} : link'[q] = link[q]
  BY <1>3 DEF CopyDuringRewrite, TypeOK, Link
<1>6. ASSUME store' = [store EXCEPT ![link[p].dst] = NoEntry],
             CopyDuringRewrite(p, tk, Stored(p).serial)
      PROVE  /\ chan'[p].serial = Stored(p).serial
             /\ store'[link[p].dst].serial = 0
             /\ \A b \in Addr \ {link[p].dst} : store'[b] = store[b]
  <2>1. chan'[p].serial = Stored(p).serial
    BY <1>6 DEF CopyDuringRewrite, TypeOK, Chan
  <2>2. /\ store'[link[p].dst].serial = 0
        /\ \A b \in Addr \ {link[p].dst} : store'[b] = store[b]
    BY <1>1, <1>6 DEF TypeOK, NoEntry
  <2> QED
    BY <2>1, <2>2
<1>7. ASSUME NEW k \in TK, next <= MaxArm, next' = next + 1, CopyDuringRewrite(p, tk, next),
             store' = [store EXCEPT ![link[p].dst] = [serial |-> next, tk |-> k,
                                                      persistent |-> FALSE, force |-> FALSE]]
      PROVE  /\ chan'[p].serial = next
             /\ store'[link[p].dst].serial = next /\ store'[link[p].dst].persistent = FALSE
             /\ \A b \in Addr \ {link[p].dst} : store'[b] = store[b]
  <2>1. chan'[p].serial = next
    BY <1>7 DEF CopyDuringRewrite, TypeOK, Chan
  <2>2. /\ store'[link[p].dst].serial = next /\ store'[link[p].dst].persistent = FALSE
        /\ \A b \in Addr \ {link[p].dst} : store'[b] = store[b]
    BY <1>1, <1>7 DEF TypeOK
  <2> QED
    BY <2>1, <2>2
<1> QED
  BY <1>2, <1>4, <1>5, <1>6, <1>7 DEF TkRequestRaces

\* A copy that races with a command leaves the pairing holding the newer key, or
\* one that is not in the store any more.
LEMMA RacingIsSafe ==
  ASSUME TypeOK, TypeOK', KeyInv, NEW p \in Peer, NEW tk, TkRequestRaces(p, tk)
  PROVE  KeyInv'
<1> DEFINE s == Stored(p).serial
<1>1. /\ chan[p].step = "checked" /\ HasKey(p) /\ UNCHANGED bonds
      /\ chan'[p].keyAddr = link[p].dst /\ chan'[p].step = "confirm"
      /\ chan'[p].persistent = FALSE
      /\ link'[p].dst = link[p].dst /\ link'[p].up = link[p].up
      /\ \A q \in Peer \ {p} : chan'[q] = chan[q] /\ link'[q] = link[q]
      /\ \A b \in Addr \ {link[p].dst} : store'[b] = store[b]
  BY RacedCopy
<1>2. /\ s \in Serial /\ s < next /\ bonds[s] = 0 /\ s # 0
      /\ link[p].up /\ link[p].dst \in {ConnAddr[p], IdAddr[p]} /\ link[p].dst \in Addr
      /\ \A b \in Addr : store[b].serial = s => b = link[p].dst
      /\ \A q \in Peer \ {p} : chan[q].serial # s
  BY <1>1, StoredKeyIsFree DEF HasKey
<1>3. CASE next' = next /\ chan'[p].serial = s /\ store'[link[p].dst].serial = 0
  <2>1. \A b \in Addr : store'[b].serial # s
    BY <1>1, <1>2, <1>3
  <2>2. \A b \in Addr : store'[b] = store[b] \/ store'[b].serial \in {0, s}
    BY <1>1, <1>3
  <2>3. \A q \in Peer \ {p} : chan[q].serial # s /\ chan'[q] = chan[q] /\ link'[q] = link[q]
    BY <1>1, <1>2
  <2>4. \A b \in Addr : store'[b].serial = s =>
                          b = link[p].dst /\ store'[b].persistent = chan'[p].persistent
    BY <2>1
  <2>5. s < next' /\ next' \in {next, next + 1}
    BY <1>2, <1>3
  <2> HIDE DEF s
  <2> QED
    BY <1>1, <1>2, <1>3, <2>2, <2>3, <2>4, <2>5, HoldingIsSafe
<1>4. CASE /\ next <= MaxArm /\ next' = next + 1 /\ chan'[p].serial = next
           /\ store'[link[p].dst].serial = next /\ store'[link[p].dst].persistent = FALSE
  <2>1. next \in Serial /\ next < next' /\ bonds[next] = 0
    BY <1>4, BoundAssumption DEF TypeOK, Serial, KeyInv, SerialsAreNames
  <2>2. /\ \A b \in Addr : store[b].serial # next
        /\ \A q \in Peer : chan[q].serial # next
    BY BoundAssumption DEF TypeOK, Entry, Chan, KeyInv, SerialsAreNames
  <2>3. /\ \A b \in Addr : store'[b] = store[b] \/ store'[b].serial \in {0, next}
        /\ \A b \in Addr : store'[b].serial = next =>
                              b = link[p].dst /\ store'[b].persistent = chan'[p].persistent
    BY <1>1, <1>4, <2>2
  <2>4. \A q \in Peer \ {p} : chan[q].serial # next /\ chan'[q] = chan[q] /\ link'[q] = link[q]
    BY <1>1, <2>2
  <2> QED
    BY <1>1, <1>2, <1>4, <2>1, <2>3, <2>4, HoldingIsSafe
<1> QED
  BY <1>3, <1>4, RacedCopy

\* What smp_chan_destroy() removes is where the key of the pairing would be.
LEMMA WipeHitsTheKey ==
  ASSUME TypeOK, KeyInv, DropsTheRightKey, NEW p \in Peer, chan[p].step = "distribute"
  PROVE  LET st == WipeOnComplete(store, chan[p], IdAddr[p]) IN
         /\ \A a \in Addr : st[a] = store[a] \/ st[a].serial = 0
         /\ chan[p].serial # 0 /\ ~chan[p].persistent =>
              \A a \in Addr : st[a].serial # chan[p].serial
<1> DEFINE st == WipeOnComplete(store, chan[p], IdAddr[p])
<1>1. NoEntry.serial = 0
  BY DEF NoEntry
<1>2. IdAddr[p] \in Addr /\ chan[p].keyAddr \in Addr /\ chan[p].serial \in 0..MaxArm
  BY PeerAssumption DEF TypeOK, Chan
<1>3. \A a \in Addr : st[a] = store[a] \/ st[a].serial = 0
  BY <1>1, <1>2 DEF WipeOnComplete, WipeA, WipeB, TypeOK
<1>4. ASSUME chan[p].serial # 0, ~chan[p].persistent, NEW a \in Addr,
             st[a].serial = chan[p].serial
      PROVE  FALSE
  <2>1. st[a] = store[a] /\ store[a].serial = chan[p].serial
    BY <1>3, <1>4
  <2>2. a = chan[p].keyAddr /\ chan[p].keyAddr \in {ConnAddr[p], IdAddr[p]}
    BY <1>4, <2>1 DEF KeyInv, HolderKnowsAddress
  <2>3. CASE Option = "B"
    <3>1. st[a] = NoEntry
      BY <1>4, <2>2, <2>3 DEF WipeOnComplete, WipeB, TypeOK
    <3> QED
      BY <1>1, <1>4, <3>1
  <2>4. CASE Option # "B"
    <3>1. Option = "A" /\ a = IdAddr[p]
      BY <2>2, <2>4, OptionAssumption DEF DropsTheRightKey, StaticPeers
    <3>2. st[a] = NoEntry
      BY <1>4, <3>1 DEF WipeOnComplete, WipeA, TypeOK
    <3> QED
      BY <1>1, <1>4, <3>2
  <2> QED
    BY <2>3, <2>4
<1> QED
  BY <1>3, <1>4

\* Producing a bond spends a key that was unspent, that no other pairing holds
\* and that leaves the store in the same step.
LEMMA BondingIsSafe ==
  ASSUME TypeOK, TypeOK', KeyInv, DropsTheRightKey, NEW p \in Peer, DistributeKeys(p)
  PROVE  KeyInv'
<1> USE DEF KeyInv
<1> DEFINE s == chan[p].serial
<1>1. /\ \A a \in Addr : store'[a] = store[a] \/ store'[a].serial = 0
      /\ s # 0 /\ ~chan[p].persistent => \A a \in Addr : store'[a].serial # s
  BY WipeHitsTheKey DEF DistributeKeys
<1>2. /\ next' = next
      /\ chan'[p] = Idle(p)
      /\ link'[p].dst = IdAddr[p] /\ link'[p].up = link[p].up
      /\ \A q \in Peer \ {p} : chan'[q] = chan[q] /\ link'[q] = link[q]
      /\ \A t \in Serial : bonds'[t] = IF t = s /\ ~chan[p].persistent THEN bonds[t] + 1
                                                                       ELSE bonds[t]
  BY DEF DistributeKeys, TypeOK, Link
<1>3. Idle(p).serial = 0 /\ Idle(p).step = "idle"
  BY DEF Idle
<1>4. s \in 0..MaxArm /\ s < next
  BY DEF TypeOK, Chan, SerialsAreNames
<1>5. \A t \in Serial : t = s => bonds[t] = 0
  BY DEF SpentIsNowhere
<1>6. SerialsAreNames'
  BY <1>1, <1>2, <1>3, <1>4, BoundAssumption DEF SerialsAreNames, TypeOK, Serial
<1>7. HolderKnowsAddress'
  BY <1>1, <1>2, <1>3 DEF HolderKnowsAddress
<1>8. OneHolder'
  BY <1>2, <1>3 DEF OneHolder
<1>9. SpentIsNowhere'
  <2> SUFFICES ASSUME NEW t \in Serial, bonds'[t] # 0
               PROVE  /\ \A a \in Addr : store'[a].serial # t
                      /\ \A q \in Peer : chan'[q].serial # t
    BY DEF SpentIsNowhere
  <2>1. CASE t = s /\ ~chan[p].persistent
    BY <1>1, <1>2, <1>3, <2>1 DEF OneHolder, Serial
  <2>2. CASE ~(t = s /\ ~chan[p].persistent)
    BY <1>1, <1>2, <1>3, <2>2 DEF SpentIsNowhere, Serial
  <2> QED
    BY <2>1, <2>2
<1>10. KeyBondsOnce'
  BY <1>2, <1>5 DEF KeyBondsOnce, TypeOK
<1> QED
  BY <1>6, <1>7, <1>8, <1>9, <1>10

LEMMA KeyInvStep ==
  ASSUME TypeOK, TypeOK', KeyInv, DropsTheRightKey, [Next]_vars
  PROVE  KeyInv'
<1> USE PeerAssumption DEF smp
<1>0. \A p \in Peer : Idle(p).serial = 0 /\ Idle(p).step = "idle"
  BY DEF Idle
<1>1. NoEntry.serial = 0 /\ \A p \in Peer : DownLink(p).dst = ConnAddr[p]
  BY DEF DownLink, NoEntry
<1>2. \A p \in Peer : /\ link[p].dst \in {ConnAddr[p], IdAddr[p]}
                      /\ chan[p].step # "idle" => link[p].up
                      /\ chan[p].serial # 0 => chan[p].step \in {"confirm", "distribute"}
  BY DEF KeyInv, HolderKnowsAddress
<1>3. ASSUME NEW a \in Addr, AddOtherOobData(a) \/ RemoveRemoteLegacyOob(a) PROVE KeyInv'
  <2>1. OnlyTakesAway
    BY <1>1, <1>2, <1>3 DEF OnlyTakesAway, AddOtherOobData, RemoveRemoteLegacyOob, TypeOK
  <2> QED
    BY <2>1, TakingAwayIsSafe
<1>4. CASE RemoveAll
  <2>1. OnlyTakesAway
    BY <1>1, <1>2, <1>4 DEF OnlyTakesAway, RemoveAll, NoEntry
  <2> QED
    BY <2>1, TakingAwayIsSafe
<1>5. CASE PowerOff
  <2>1. \A a \in Addr : store'[a] = store[a] \/ store'[a].serial = 0
    BY <1>5 DEF PowerOff, StoreAfterClose, ClearEphemeral, NoEntry
  <2>2. OnlyTakesAway
    BY <1>0, <1>1, <1>5, <2>1 DEF OnlyTakesAway, PowerOff
  <2> QED
    BY <2>2, TakingAwayIsSafe
<1>6. ASSUME NEW p \in Peer,
             Unpair(p) \/ Disconnect(p) \/ SmpTimeout(p) \/ PairingFailed(p)
      PROVE  KeyInv'
  <2>1. OnlyTakesAway
    BY <1>0, <1>1, <1>2, <1>6
       DEF OnlyTakesAway, Unpair, Disconnect, SmpTimeout, PairingFailed, DestroyIncomplete, TypeOK
  <2> QED
    BY <2>1, TakingAwayIsSafe
<1>7. ASSUME NEW p \in Peer, Connect(p) PROVE KeyInv'
  <2>1. /\ link'[p].dst \in {ConnAddr[p], IdAddr[p]} /\ link'[p].up
        /\ chan[p].step = "idle"
        /\ \A q \in Peer \ {p} : link'[q] = link[q]
    BY <1>2, <1>7 DEF Connect, DownLink, TypeOK
  <2>2. OnlyTakesAway
    BY <1>2, <1>7, <2>1 DEF OnlyTakesAway, Connect
  <2> QED
    BY <2>2, TakingAwayIsSafe
<1>8. ASSUME NEW p \in Peer, NEW lvl \in {BT_SECURITY_MEDIUM, BT_SECURITY_HIGH},
             ConnSecurity(p, lvl)
      PROVE  KeyInv'
  <2>1. /\ chan'[p].serial = 0 /\ link[p].up
        /\ link'[p].dst = link[p].dst /\ link'[p].up = link[p].up
        /\ \A q \in Peer \ {p} : link'[q] = link[q] /\ chan'[q] = chan[q]
        /\ UNCHANGED <<next, bonds, store>>
    BY <1>8 DEF ConnSecurity, Idle, TypeOK, Link
  <2>2. OnlyTakesAway
    BY <1>2, <2>1 DEF OnlyTakesAway
  <2> QED
    BY <2>2, TakingAwayIsSafe
<1>9. ASSUME NEW p \in Peer,
             \/ SendPairingReq(p)
             \/ RecvPairingRsp(p)
             \/ TkRequest(p) /\ (chan[p].sc \/ ~HasKey(p))
             \/ TkRequestGeneric(p)
             \/ ConfirmAndEncrypt(p)
      PROVE  KeyInv'
  <2> SUFFICES OnlyTakesAway
    BY TakingAwayIsSafe
  <2> DEFINE Carries ==
        /\ link'[p].dst = link[p].dst /\ link'[p].up = link[p].up
        /\ chan'[p].serial = chan[p].serial /\ chan'[p].keyAddr = chan[p].keyAddr
        /\ chan'[p].persistent = chan[p].persistent
        /\ chan[p].step \in {"building", "requested", "checked", "nokey", "confirm"}
        /\ chan[p].step = "confirm" => chan'[p].step = "distribute"
        /\ \A q \in Peer \ {p} : chan'[q] = chan[q] /\ link'[q] = link[q]
        /\ UNCHANGED <<next, bonds, store>>
  <2>1. CASE RecvPairingRsp(p)
    <3>1. Carries
      BY <2>1 DEF RecvPairingRsp, TypeOK, Chan
    <3> QED
      BY <1>2, <3>1 DEF OnlyTakesAway
  <2>2. CASE TkRequest(p) /\ (chan[p].sc \/ ~HasKey(p))
    <3>1. UNCHANGED link /\ chan' = [chan EXCEPT ![p].step = IF chan[p].sc THEN "confirm"
                                                                           ELSE "nokey"]
      BY <2>2 DEF TkRequest
    <3>2. Carries
      BY <2>2, <3>1 DEF TkRequest, TypeOK, Chan
    <3> QED
      BY <1>2, <3>2 DEF OnlyTakesAway
  <2>3. CASE TkRequestGeneric(p)
    <3>1. Carries
      <4>1. CASE /\ chan' = [chan EXCEPT ![p].step = "stalled"]
                 /\ link' = [link EXCEPT ![p].pend = BT_SECURITY_HIGH]
        BY <2>3, <4>1 DEF TkRequestGeneric, TypeOK, Chan, Link
      <4>2. CASE chan' = [chan EXCEPT ![p].step = "confirm"] /\ UNCHANGED link
        BY <2>3, <4>2 DEF TkRequestGeneric, TypeOK, Chan
      <4> QED
        BY <2>3, <4>1, <4>2 DEF TkRequestGeneric
    <3> QED
      BY <1>2, <3>1 DEF OnlyTakesAway
  <2>4. CASE ConfirmAndEncrypt(p)
    <3>1. Carries
      BY <2>4 DEF ConfirmAndEncrypt, TypeOK, Chan, Link
    <3> QED
      BY <1>2, <3>1 DEF OnlyTakesAway
  <2>5. CASE SendPairingReq(p)
    <3>1. Carries
      BY <2>5 DEF SendPairingReq, TypeOK, Chan
    <3> QED
      BY <1>2, <3>1 DEF OnlyTakesAway
  <2> QED
    BY <1>9, <2>1, <2>2, <2>3, <2>4, <2>5
<1>10. CASE PowerOn \/ (\E p \in Peer, k \in Key : VendorExchange(p, k)) \/ UNCHANGED vars
  <2>1. UNCHANGED <<store, next, link, chan, bonds>>
    BY <1>10 DEF PowerOn, VendorExchange, vars
  <2>2. OnlyTakesAway
    BY <1>2, <2>1 DEF OnlyTakesAway
  <2> QED
    BY <2>2, TakingAwayIsSafe
<1>11. ASSUME NEW p \in Peer, TkRequest(p) PROVE KeyInv'
  BY <1>9, <1>11, ReadingIsSafe
<1>12. ASSUME NEW p \in Peer, DistributeKeys(p) PROVE KeyInv'
  BY <1>12, BondingIsSafe
<1>13. ASSUME NEW a \in Addr, NEW k \in TK, NEW persistent \in BOOLEAN, NEW force \in BOOLEAN,
              AddRemoteLegacyOob(a, k, persistent, force)
       PROVE  KeyInv'
  BY <1>13, StoringIsSafe
<1>14. ASSUME NEW p \in Peer, NEW tk \in {ZeroKey, TornKey}, TkRequestRaces(p, tk)
       PROVE  KeyInv'
  BY <1>14, RacingIsSafe
<1> QED
  BY <1>3, <1>4, <1>5, <1>6, <1>7, <1>8, <1>9, <1>10, <1>11, <1>12, <1>13, <1>14
  DEF Next, UserSpace, Device, SmpStep

LEMMA KeyInvInit == Init => KeyInv
BY DEF Init, KeyInv, SerialsAreNames, HolderKnowsAddress, OneHolder, SpentIsNowhere,
       KeyBondsOnce, NoEntry, Idle, DownLink, Serial

LEMMA KeyInvCorrect == ASSUME DropsTheRightKey PROVE Spec => []KeyInv
<1>1. TypeOK /\ TypeOK' /\ KeyInv /\ [Next]_vars => KeyInv'
  BY KeyInvStep
<1> QED
  BY <1>1, KeyInvInit, TypeCorrect, PTL DEF Spec

\* A one-time key never produces a second bond: with either patch series, for
\* any number of peers, keys and management commands in any order, provided
\* (Option A) that a peer's identity address is the one it is connected at.
THEOREM KeySingleUse == ASSUME DropsTheRightKey PROVE Spec => []KeyBondsOnce
<1>1. KeyInv => KeyBondsOnce
  BY DEF KeyInv
<1> QED
  BY <1>1, KeyInvCorrect, PTL

\* Under the same assumption a key that has produced a bond is out of the store.
THEOREM SpentKeyLeavesStore == ASSUME DropsTheRightKey PROVE Spec => []SpentKeyIsWiped
<1>1. TypeOK /\ KeyInv => SpentKeyIsWiped
  <2> SUFFICES ASSUME TypeOK, KeyInv, NEW a \in Addr, store[a].serial # 0
               PROVE  bonds[store[a].serial] = 0
    BY DEF SpentKeyIsWiped
  <2>1. store[a].serial \in Serial
    BY BoundAssumption DEF TypeOK, Entry, Serial
  <2> QED
    BY <2>1 DEF KeyInv, SpentIsNowhere
<1> QED
  BY <1>1, KeyInvCorrect, TypeCorrect, PTL

-----------------------------------------------------------------------------
(***************************************************************************)
(* What a bond made with a key is                                          *)
(***************************************************************************)

\* Each step keeps what a pairing carries from the request to the bond.
LEMMA PairingStep ==
  ASSUME TypeOK, TypeOK', PairingInv, [Next]_vars
  PROVE  PairingInv'
<1> USE DEF PairingInv, smp
<1>1. ASSUME NEW p \in Peer, \A q \in Peer \ {p} : chan'[q] = chan[q] /\ link'[q] = link[q],
             PairingInv!(p)'
      PROVE  PairingInv'
  BY <1>1
<1>2. \A p \in Peer : Idle(p).tk = ZeroKey /\ Idle(p).step = "idle" /\ Idle(p).oob = Idle(p).idKey
  BY DEF Idle
<1>3. ASSUME \A p \in Peer : chan'[p] = Idle(p) \/ (chan'[p] = chan[p] /\ link'[p] = link[p])
      PROVE  PairingInv'
  BY <1>2, <1>3
<1>4. CASE PowerOff
  BY <1>3, <1>4 DEF PowerOff
<1>5. ASSUME NEW p \in Peer,
             Unpair(p) \/ Disconnect(p) \/ SmpTimeout(p) \/ PairingFailed(p) \/ DistributeKeys(p)
      PROVE  PairingInv'
  BY <1>3, <1>5
     DEF Unpair, Disconnect, SmpTimeout, PairingFailed, DistributeKeys, DestroyIncomplete, TypeOK
<1>6. CASE PowerOn \/ RemoveAll \/ UNCHANGED vars
  BY <1>3, <1>6 DEF PowerOn, RemoveAll, vars
<1>7. ASSUME NEW a \in Addr,
             \/ AddOtherOobData(a)
             \/ RemoveRemoteLegacyOob(a)
             \/ \E k \in TK, persistent, force \in BOOLEAN :
                  AddRemoteLegacyOob(a, k, persistent, force)
      PROVE  PairingInv'
  BY <1>3, <1>7 DEF AddOtherOobData, RemoveRemoteLegacyOob, AddRemoteLegacyOob
<1>8. ASSUME NEW p \in Peer, NEW k \in Key, VendorExchange(p, k) PROVE PairingInv'
  BY <1>3, <1>8 DEF VendorExchange
<1>9. ASSUME NEW p \in Peer, Connect(p) PROVE PairingInv'
  <2>1. chan[p].step = "idle" /\ chan[p].tk = ZeroKey
    BY <1>9 DEF Connect
  <2> QED
    BY <1>1, <1>9, <2>1 DEF Connect, TypeOK
<1>10. ASSUME NEW p \in Peer, NEW lvl \in {BT_SECURITY_MEDIUM, BT_SECURITY_HIGH},
              ConnSecurity(p, lvl)
       PROVE  PairingInv'
  <2>1. /\ chan'[p].tk = ZeroKey /\ chan'[p].step = "building"
        /\ chan'[p].oob = BuildPairingCmd(p).oob /\ chan'[p].idKey = BuildPairingCmd(p).idKey
    <3> DEFINE c == [Idle(p) EXCEPT !.step = "building", !.sc = BuildPairingCmd(p).sc,
                                    !.oob = BuildPairingCmd(p).oob,
                                    !.idKey = BuildPairingCmd(p).idKey]
    <3>1. /\ c.tk = ZeroKey /\ c.step = "building"
          /\ c.oob = BuildPairingCmd(p).oob /\ c.idKey = BuildPairingCmd(p).idKey
      BY DEF Idle
    <3>2. chan'[p] = c
      BY <1>10 DEF ConnSecurity, TypeOK
    <3> QED
      BY <3>1, <3>2
  <2>2. link[p].up /\ link'[p].up = link[p].up
    <3> DEFINE v == IF lvl > link[p].pend THEN lvl ELSE link[p].pend
    <3>1. link[p].up
      BY <1>10 DEF ConnSecurity
    <3>2. link' = [link EXCEPT ![p].pend = v]
      BY <1>10 DEF ConnSecurity
    <3> HIDE DEF v
    <3>3. link[p] \in Link /\ link'[p] = [link[p] EXCEPT !.pend = v]
      BY <3>2 DEF TypeOK
    <3>4. [link[p] EXCEPT !.pend = v].up = link[p].up
      BY <3>3, RaisingKeepsLink
    <3>5. link'[p].up = link[p].up
      BY <3>3, <3>4, Zenon
    <3> QED
      BY <3>1, <3>5
  <2>3. \A q \in Peer \ {p} : chan'[q] = chan[q] /\ link'[q] = link[q]
    BY <1>10 DEF ConnSecurity, TypeOK
  <2> QED
    BY <1>1, <2>1, <2>2, <2>3, RequestTypes
<1>11. ASSUME NEW p \in Peer, RecvPairingRsp(p) PROVE PairingInv'
  <2>1. /\ chan[p].step = "requested" /\ chan[p].tk = ZeroKey /\ link[p].up
        /\ Kind[p] = "oob" => chan[p].oob /\ ~chan[p].sc
    BY <1>11 DEF RecvPairingRsp, PeerAccepts
  <2>2. /\ chan'[p].tk = chan[p].tk /\ chan'[p].step = "checked"
        /\ chan'[p].oob = chan[p].oob /\ chan'[p].idKey = chan[p].idKey
        /\ chan'[p].sc => chan[p].sc
    BY <1>11 DEF RecvPairingRsp, TypeOK, Chan
  <2> QED
    BY <1>1, <1>11, <2>1, <2>2 DEF RecvPairingRsp, TypeOK
<1>12. ASSUME NEW p \in Peer, TkRequest(p) PROVE PairingInv'
  <2>1. chan[p].step = "checked" /\ link[p].up /\ chan[p].tk = ZeroKey
    BY <1>12 DEF TkRequest
  <2>2. CASE ~chan[p].sc /\ HasKey(p) /\ UseStoredKey(p)
    <3>1. /\ chan'[p].step = "confirm" /\ chan'[p].sc = chan[p].sc
          /\ chan'[p].oob = chan[p].oob /\ chan'[p].idKey = chan[p].idKey
          /\ \A q \in Peer \ {p} : chan'[q] = chan[q]
      BY <2>2 DEF UseStoredKey, TypeOK, Chan
    <3>2. /\ link'[p].up = link[p].up /\ link'[p].pend = BT_SECURITY_HIGH
          /\ \A q \in Peer \ {p} : link'[q] = link[q]
      BY <2>2 DEF UseStoredKey, TypeOK, Link
    <3>3. /\ chan[p].oob = chan[p].idKey
          /\ Kind[p] = "oob" => chan[p].oob /\ ~chan[p].sc
      BY <1>1, <2>1
    <3>4. \A q \in Peer \ {p} : chan'[q] = chan[q] /\ link'[q] = link[q]
      BY <3>1, <3>2
    <3>5. PairingInv!(p)'
      BY <2>1, <2>2, <3>1, <3>2, <3>3
    <3> QED
      BY <1>1, <3>4, <3>5
  <2>3. CASE /\ chan' = [chan EXCEPT ![p].step = IF chan[p].sc THEN "confirm" ELSE "nokey"]
             /\ UNCHANGED link
    <3>1. /\ chan'[p].step \in {"confirm", "nokey"} /\ chan'[p].sc = chan[p].sc
          /\ chan'[p].oob = chan[p].oob /\ chan'[p].idKey = chan[p].idKey
          /\ chan'[p].tk = chan[p].tk
      BY <2>3 DEF TypeOK, Chan
    <3> QED
      BY <1>1, <2>1, <2>3, <3>1 DEF TypeOK
  <2> QED
    BY <1>12, <2>2, <2>3 DEF TkRequest
<1>13. ASSUME NEW p \in Peer, TkRequestGeneric(p) PROVE PairingInv'
  <2>1. chan[p].step = "nokey" /\ link[p].up /\ chan[p].tk = ZeroKey
    BY <1>13 DEF TkRequestGeneric
  <2> DEFINE Carries ==
        /\ chan'[p].step \in {"confirm", "stalled"} /\ chan'[p].sc = chan[p].sc
        /\ chan'[p].oob = chan[p].oob /\ chan'[p].idKey = chan[p].idKey
        /\ chan'[p].tk = chan[p].tk
        /\ link'[p].up = link[p].up
        /\ \A q \in Peer \ {p} : chan'[q] = chan[q] /\ link'[q] = link[q]
  <2>2. CASE /\ chan' = [chan EXCEPT ![p].step = "stalled"]
             /\ link' = [link EXCEPT ![p].pend = BT_SECURITY_HIGH]
    <3>1. Carries
      BY <2>2 DEF TypeOK, Chan, Link
    <3> QED
      BY <1>1, <2>1, <3>1
  <2>3. CASE chan' = [chan EXCEPT ![p].step = "confirm"] /\ UNCHANGED link
    <3>1. Carries
      BY <2>3 DEF TypeOK, Chan
    <3> QED
      BY <1>1, <2>1, <3>1
  <2> QED
    BY <1>13, <2>2, <2>3 DEF TkRequestGeneric
<1>14. ASSUME NEW p \in Peer, ConfirmAndEncrypt(p) PROVE PairingInv'
  <2>1. chan[p].step = "confirm" /\ link[p].up
    BY <1>14 DEF ConfirmAndEncrypt
  <2>2. /\ chan'[p].step = "distribute" /\ chan'[p].sc = chan[p].sc
        /\ chan'[p].oob = chan[p].oob /\ chan'[p].idKey = chan[p].idKey
        /\ chan'[p].tk = chan[p].tk
        /\ link'[p].up = link[p].up /\ link'[p].pend = link[p].pend
        /\ link'[p].sec = link[p].pend
    BY <1>14 DEF ConfirmAndEncrypt, TypeOK, Chan, Link
  <2>3. chan[p].tk # ZeroKey => Kind[p] = "oob"
    BY <1>14 DEF ConfirmAndEncrypt, KeysAgree, PeerTk
  <2> QED
    BY <1>1, <1>14, <2>1, <2>2, <2>3 DEF ConfirmAndEncrypt, TypeOK
<1>15. ASSUME NEW p \in Peer, SendPairingReq(p) PROVE PairingInv'
  <2>1. chan[p].step = "building" /\ link[p].up /\ chan[p].tk = ZeroKey
    BY <1>15 DEF SendPairingReq
  <2>2. /\ chan'[p].tk = chan[p].tk /\ chan'[p].step = "requested"
        /\ chan'[p].oob = Flags(p).oob /\ chan'[p].idKey = Flags(p).idKey
    BY <1>15 DEF SendPairingReq, TypeOK, Chan
  <2>3. Flags(p).idKey = Flags(p).oob
    BY FlagTypes
  <2> QED
    BY <1>1, <1>15, <2>1, <2>2, <2>3 DEF SendPairingReq, TypeOK
<1>16. ASSUME NEW p \in Peer, NEW tk \in {ZeroKey, TornKey}, TkRequestRaces(p, tk)
       PROVE  PairingInv'
  <2>1. chan[p].step = "checked" /\ ~chan[p].sc /\ link[p].up
    BY <1>16 DEF TkRequestRaces
  <2>2. /\ chan'[p].step = "confirm" /\ chan'[p].sc = chan[p].sc
        /\ chan'[p].oob = chan[p].oob /\ chan'[p].idKey = chan[p].idKey
        /\ link'[p].up = link[p].up /\ link'[p].pend = BT_SECURITY_HIGH
        /\ \A q \in Peer \ {p} : chan'[q] = chan[q] /\ link'[q] = link[q]
    BY <1>16, RacedCopy
  <2> QED
    BY <1>1, <2>1, <2>2
<1> QED
  BY <1>4, <1>5, <1>6, <1>7, <1>8, <1>9, <1>10, <1>11, <1>12, <1>13, <1>14, <1>15, <1>16
  DEF Next, UserSpace, Device, SmpStep

LEMMA PairingInvCorrect == Spec => []PairingInv
<1>1. Init => PairingInv
  <2> SUFFICES ASSUME Init, NEW p \in Peer PROVE PairingInv!(p)
    BY DEF PairingInv
  <2>1. chan[p] = Idle(p)
    BY DEF Init
  <2> QED
    BY <2>1 DEF Idle
<1>2. TypeOK /\ TypeOK' /\ PairingInv /\ [Next]_vars => PairingInv'
  BY PairingStep
<1> QED
  BY <1>1, <1>2, TypeCorrect, PTL DEF Spec

\* Whatever user space stores or removes between the request, the MITM check
\* and tk_request(), a bond made with a key other than zero is authenticated,
\* is a legacy bond and its request had offered the host's identity.
THEOREM KeyedBondIsWholeAlways == Spec => []KeyedBondIsWhole
<1>1. Init => KeyedBondIsWhole
  BY DEF Init, KeyedBondIsWhole, NoBond
<1>2. TypeOK /\ PairingInv /\ KeyedBondIsWhole /\ [Next]_vars => KeyedBondIsWhole'
  <2> SUFFICES ASSUME TypeOK, PairingInv, KeyedBondIsWhole, [Next]_vars
               PROVE  KeyedBondIsWhole'
    OBVIOUS
  <2> USE DEF KeyedBondIsWhole, smp
  <2>1. ASSUME NEW p \in Peer, DistributeKeys(p) PROVE KeyedBondIsWhole'
    <3>1. /\ bond'[p] = [made |-> TRUE, auth |-> link[p].sec = BT_SECURITY_HIGH,
                         sc |-> chan[p].sc, tk |-> chan[p].tk, idKey |-> chan[p].idKey]
          /\ \A q \in Peer \ {p} : bond'[q] = bond[q]
          /\ chan[p].step = "distribute"
      BY <2>1 DEF DistributeKeys, TypeOK
    <3> QED
      BY <3>1 DEF PairingInv, TypeOK, Chan
  <2>2. ASSUME NEW p \in Peer, Unpair(p) PROVE KeyedBondIsWhole'
    BY <2>2 DEF Unpair, TypeOK, NoBond
  <2>3. UNCHANGED bond => KeyedBondIsWhole'
    OBVIOUS
  <2> QED
    BY <2>1, <2>2, <2>3
       DEF Next, UserSpace, Device, SmpStep, AddRemoteLegacyOob, AddOtherOobData,
           RemoveRemoteLegacyOob, RemoveAll, PowerOff, PowerOn, ConnSecurity, SendPairingReq, Connect,
           VendorExchange, Disconnect, SmpTimeout, PairingFailed, RecvPairingRsp, TkRequest, TkRequestRaces,
           TkRequestGeneric, ConfirmAndEncrypt, vars
<1> QED
  BY <1>1, <1>2, TypeCorrect, PairingInvCorrect, PTL DEF Spec

-----------------------------------------------------------------------------
(***************************************************************************)
(* The kernel side implements the abstract one-time key                    *)
(***************************************************************************)
Issued == 1..(next - 1)
Live   == {store[a].serial : a \in Addr} \ {0}

\* A step that only takes keys out of the store is a Withdraw.
LEMMA TakingAwayWithdraws ==
  ASSUME TypeOK, next' = next, bonds' = bonds,
         \A a \in Addr : store'[a] = store[a] \/ store'[a].serial = 0
  PROVE  OneTime!Next
<1>1. Live' \subseteq Live
  BY DEF Live
<1>2. Live' = Live \ (Live \ Live') /\ (Live \ Live') \in SUBSET Live
  BY <1>1
<1>3. Issued' = Issued
  BY DEF Issued
<1>4. OneTime!Withdraw
  BY <1>2, <1>3 DEF OneTime!Withdraw, Live, Issued
<1> QED
  BY <1>4 DEF OneTime!Next

\* Storing a key, whatever it replaces, issues the next serial.
LEMMA StoringIssues ==
  ASSUME TypeOK, NEW a \in Addr, NEW k \in TK, NEW persistent \in BOOLEAN,
         NEW force \in BOOLEAN, next <= MaxArm, next' = next + 1, UNCHANGED bonds,
         store' = [store EXCEPT ![a] = [serial |-> next, tk |-> k,
                                        persistent |-> persistent, force |-> force]]
  PROVE  OneTime!Next
<1>1. next \in Serial /\ next \notin Issued /\ Issued' = Issued \cup {next} /\ bonds' = bonds
  BY BoundAssumption DEF Issued, Serial, TypeOK
<1>2. /\ store'[a].serial = next
      /\ \A b \in Addr \ {a} : store'[b] = store[b]
  BY DEF TypeOK
<1>3. next \in Live'
  BY <1>1, <1>2 DEF Live, Serial
<1>4. Live' \subseteq Live \cup {next}
  BY <1>2 DEF Live
<1>5. Live' = (Live \ (Live \ Live')) \cup {next} /\ (Live \ Live') \in SUBSET Live
  BY <1>3, <1>4
<1>6. OneTime!Issue(next)
  BY <1>1, <1>5 DEF OneTime!Issue, Live, Issued
<1> QED
  BY <1>1, <1>6 DEF OneTime!Next, OneTime!Issue

\* The end of a pairing spends the key it read, when that is a one-time key.
LEMMA BondingSpends ==
  ASSUME TypeOK, KeyInv, DropsTheRightKey, NEW p \in Peer, DistributeKeys(p)
  PROVE  OneTime!Next
<1> DEFINE s == chan[p].serial
<1>1. /\ \A a \in Addr : store'[a] = store[a] \/ store'[a].serial = 0
      /\ s # 0 /\ ~chan[p].persistent => \A a \in Addr : store'[a].serial # s
  BY WipeHitsTheKey DEF DistributeKeys
<1>2. /\ next' = next
      /\ bonds' = [t \in Serial |-> IF t = s /\ ~chan[p].persistent THEN bonds[t] + 1
                                                                    ELSE bonds[t]]
  BY DEF DistributeKeys
<1>3. s \in 0..MaxArm /\ s < next
  BY DEF TypeOK, Chan, KeyInv, SerialsAreNames
<1>4. CASE s # 0 /\ ~chan[p].persistent
  <2>1. s \in Serial /\ s \in Issued /\ Issued' = Issued
    BY <1>2, <1>3, <1>4, BoundAssumption DEF Serial, Issued, TypeOK
  <2>2. bonds[s] = 0
    BY <2>1 DEF KeyInv, SpentIsNowhere
  <2>3. bonds' = [bonds EXCEPT ![s] = 1]
    <3>1. bonds \in [Serial -> Nat] /\ chan[p].persistent = FALSE
      BY <1>4 DEF TypeOK, Chan
    <3>2. bonds' = [t \in Serial |-> IF t = s THEN bonds[t] + 1 ELSE bonds[t]]
      BY <1>2, <3>1
    <3>3. \A t \in Serial : bonds'[t] = IF t = s THEN 1 ELSE bonds[t]
      BY <2>2, <3>2
    <3> HIDE DEF s
    <3> QED
      BY <2>1, <3>1, <3>2, <3>3
  <2>4. Live' \subseteq Live /\ s \notin Live'
    BY <1>1, <1>4 DEF Live
  <2>5. Live' = Live \ ((Live \ Live') \cup {s}) /\ (Live \ Live') \in SUBSET Live
    BY <2>4
  <2>6. OneTime!ProduceBond(s)
    BY <2>1, <2>2, <2>3, <2>5 DEF OneTime!ProduceBond, Live, Issued
  <2> QED
    BY <2>1, <2>6 DEF OneTime!Next, OneTime!ProduceBond
<1>5. CASE ~(s # 0 /\ ~chan[p].persistent)
  <2>1. bonds' = bonds
    BY <1>2, <1>5 DEF TypeOK, Serial
  <2> QED
    BY <1>1, <1>2, <2>1, TakingAwayWithdraws
<1> QED
  BY <1>4, <1>5

\* Either patch series implements the one-time key: every step of the store and
\* of the Security Manager is a step, or a stutter, of what the commands promise
\* of a key, under the assumption of KeySingleUse.
THEOREM ImplementsOneTime == ASSUME DropsTheRightKey PROVE Spec => ImplementsOneTimeKey
<1>1. Init => OneTime!Init
  <2> SUFFICES ASSUME Init PROVE OneTime!Init
    OBVIOUS
  <2>1. 1..(next - 1) = {}
    BY DEF Init
  <2>2. {store[a].serial : a \in Addr} \ {0} = {}
    BY DEF Init, NoEntry
  <2> QED
    BY <2>1, <2>2 DEF Init, OneTime!Init
<1>2. TypeOK /\ KeyInv /\ [Next]_vars =>
        OneTime!Next \/ UNCHANGED <<Issued, Live, bonds>>
  <2> SUFFICES ASSUME TypeOK, KeyInv, [Next]_vars
               PROVE  OneTime!Next \/ UNCHANGED <<Issued, Live, bonds>>
    OBVIOUS
  <2>1. ASSUME NEW a \in Addr, NEW k \in TK, NEW persistent \in BOOLEAN, NEW force \in BOOLEAN,
               AddRemoteLegacyOob(a, k, persistent, force)
        PROVE  OneTime!Next
    BY <2>1, StoringIssues DEF AddRemoteLegacyOob
  <2>2. ASSUME NEW p \in Peer, DistributeKeys(p) PROVE OneTime!Next
    BY <2>2, BondingSpends
  <2>3. ASSUME NEW a \in Addr, AddOtherOobData(a) \/ RemoveRemoteLegacyOob(a)
        PROVE  OneTime!Next
    <3>1. /\ \A b \in Addr : store'[b] = store[b] \/ store'[b].serial = 0
          /\ next' = next /\ bonds' = bonds
      BY <2>3 DEF AddOtherOobData, RemoveRemoteLegacyOob, NoEntry, TypeOK
    <3> QED
      BY <3>1, TakingAwayWithdraws
  <2>4. CASE RemoveAll \/ PowerOff
    <3>1. /\ \A b \in Addr : store'[b] = store[b] \/ store'[b].serial = 0
          /\ next' = next /\ bonds' = bonds
      BY <2>4 DEF RemoveAll, PowerOff, StoreAfterClose, ClearEphemeral, NoEntry
    <3> QED
      BY <3>1, TakingAwayWithdraws
  <2>5. UNCHANGED <<store, next, bonds>> => UNCHANGED <<Issued, Live, bonds>>
    BY DEF Issued, Live
  <2>6. ASSUME NEW p \in Peer, NEW tk \in {ZeroKey, TornKey}, TkRequestRaces(p, tk)
        PROVE  OneTime!Next
    <3>1. bonds' = bonds /\ link[p].dst \in Addr
      BY <2>6 DEF TkRequestRaces, TypeOK, Link
    <3>2. CASE next' = next /\ store' = [store EXCEPT ![link[p].dst] = NoEntry]
      <4>1. \A b \in Addr : store'[b] = store[b] \/ store'[b].serial = 0
        BY <3>2 DEF NoEntry, TypeOK
      <4> QED
        BY <3>1, <3>2, <4>1, TakingAwayWithdraws
    <3>3. ASSUME NEW k \in TK, next <= MaxArm, next' = next + 1,
                 store' = [store EXCEPT ![link[p].dst] = [serial |-> next, tk |-> k,
                                              persistent |-> FALSE, force |-> FALSE]]
          PROVE  OneTime!Next
      BY <3>1, <3>3, StoringIssues
    <3> QED
      BY <2>6, <3>2, <3>3 DEF TkRequestRaces
  <2> QED
    BY <2>1, <2>2, <2>3, <2>4, <2>5, <2>6
       DEF Next, UserSpace, Device, SmpStep, PowerOn, ConnSecurity, SendPairingReq, Connect, Unpair,
           VendorExchange, Disconnect, SmpTimeout, PairingFailed, RecvPairingRsp, TkRequest, TkRequestRaces,
           TkRequestGeneric, ConfirmAndEncrypt, vars, smp
<1>3. TypeOK /\ KeyInv /\ [Next]_vars => [OneTime!Next]_(<<Issued, Live, bonds>>)
  BY <1>2
<1> QED
  BY <1>1, <1>3, TypeCorrect, KeyInvCorrect, PTL
     DEF Spec, ImplementsOneTimeKey, OneTime!Spec, Issued, Live

\* The invariant the proofs above rest on, in one piece.
THEOREM InvariantHolds == ASSUME DropsTheRightKey PROVE Spec => []IInv
<1>1. TypeOK /\ KeyInv /\ PairingInv /\ KeyedBondIsWhole <=> IInv
  BY DEF IInv
<1> QED
  BY <1>1, TypeCorrect, KeyInvCorrect, PairingInvCorrect, KeyedBondIsWholeAlways, PTL

\* The keyboard commits its side of every bond the host makes: the identity is
\* offered in the request exactly when the OOB flag is, and the keyboard hangs
\* up on a request without that flag.
THEOREM BondsAreTwoSided == Spec => BondIsTwoSided
<1> DEFINE Whole == \A p \in Peer : chan[p].step = "distribute" /\ bond'[p].made /\ bond'[p] # bond[p]
                      => peerBond'[p]
<1>1. ASSUME TypeOK, PairingInv, [Next]_vars PROVE [Whole]_vars
  <2> USE DEF smp
  <2>1. ASSUME NEW p \in Peer, DistributeKeys(p) PROVE Whole
    <3>1. \A q \in Peer \ {p} : bond'[q] = bond[q]
      BY <1>1, <2>1 DEF DistributeKeys, TypeOK
    <3>2. chan[p].step = "distribute" /\ chan[p] \in Chan
      BY <1>1, <2>1 DEF DistributeKeys, TypeOK
    <3>3. Kind[p] = "oob" => chan[p].idKey
      <4>1. PairingInv!(p)
        BY <1>1 DEF PairingInv
      <4> QED
        BY <3>2, <4>1
    <3>4. peerBond' = [peerBond EXCEPT ![p] = Kind[p] = "oob" => chan[p].idKey]
      BY <2>1 DEF DistributeKeys
    <3>5. peerBond'[p]
      <4>1. peerBond'[p] = (Kind[p] = "oob" => chan[p].idKey)
        BY <1>1, <3>4, Zenon DEF TypeOK
      <4> QED
        BY <3>3, <4>1, Zenon
    <3> QED
      BY <3>1, <3>5
  <2>2. ASSUME NEW p \in Peer, Unpair(p) PROVE Whole
    BY <1>1, <2>2 DEF Unpair, TypeOK, NoBond
  <2>3. UNCHANGED bond => Whole
    OBVIOUS
  <2> QED
    BY <1>1, <2>1, <2>2, <2>3
       DEF Next, UserSpace, Device, SmpStep, AddRemoteLegacyOob, AddOtherOobData,
           RemoveRemoteLegacyOob, RemoveAll, PowerOff, PowerOn, ConnSecurity, SendPairingReq, Connect,
           VendorExchange, Disconnect, SmpTimeout, PairingFailed, RecvPairingRsp, TkRequest, TkRequestRaces,
           TkRequestGeneric, ConfirmAndEncrypt, vars
<1> QED
  BY <1>1, TypeCorrect, PairingInvCorrect, PTL DEF Spec, BondIsTwoSided

-----------------------------------------------------------------------------
(***************************************************************************)
(* What a failed pairing leaves, and what no key is needed for             *)
(***************************************************************************)

\* Option A has no flags, so no key a pairing holds is ever Persistent.
NoFlagsInA ==
  Option = "A" =>
    /\ \A a \in Addr : ~store[a].persistent
    /\ \A p \in Peer : ~chan[p].persistent

LEMMA NoFlagsInit == Init => NoFlagsInA
BY DEF Init, NoFlagsInA, NoEntry, Idle

LEMMA NoFlagsStep ==
  ASSUME TypeOK, TypeOK', NoFlagsInA, [Next]_vars
  PROVE  NoFlagsInA'
<1> SUFFICES ASSUME Option = "A" PROVE NoFlagsInA'
  BY DEF NoFlagsInA
<1> USE DEF NoFlagsInA, smp
<1>1. ASSUME \A b \in Addr : store'[b] = store[b] \/ ~store'[b].persistent,
             \A q \in Peer : chan'[q].persistent = chan[q].persistent \/ ~chan'[q].persistent
      PROVE  NoFlagsInA'
  BY <1>1
<1>2. ASSUME NEW a \in Addr, NEW k \in TK, NEW persistent \in BOOLEAN, NEW force \in BOOLEAN,
             AddRemoteLegacyOob(a, k, persistent, force)
      PROVE  NoFlagsInA'
  <2>1. ~persistent
    BY <1>2 DEF AddRemoteLegacyOob, Accepts, AcceptsA
  <2> QED
    BY <1>1, <1>2, <2>1 DEF AddRemoteLegacyOob, TypeOK
<1>3. ASSUME NEW a \in Addr, AddOtherOobData(a) \/ RemoveRemoteLegacyOob(a) PROVE NoFlagsInA'
  BY <1>1, <1>3 DEF AddOtherOobData, RemoveRemoteLegacyOob, NoEntry, TypeOK
<1>4. CASE RemoveAll
  BY <1>1, <1>4 DEF RemoveAll, NoEntry
<1>5. CASE PowerOff
  BY <1>1, <1>5 DEF PowerOff, StoreAfterClose, ClearEphemeral, NoEntry, Idle
<1>6. ASSUME NEW p \in Peer, DestroyIncomplete(p), UNCHANGED store PROVE NoFlagsInA'
  BY <1>1, <1>6 DEF DestroyIncomplete, Idle, TypeOK
<1>7. ASSUME NEW p \in Peer,
             NEW lvl \in {BT_SECURITY_MEDIUM, BT_SECURITY_HIGH}, ConnSecurity(p, lvl)
      PROVE  NoFlagsInA'
  BY <1>1, <1>7 DEF ConnSecurity, Idle, TypeOK
<1>8. ASSUME NEW p \in Peer, SendPairingReq(p) PROVE NoFlagsInA'
  BY <1>1, <1>8 DEF SendPairingReq, TypeOK, Chan
<1>9. ASSUME NEW p \in Peer, RecvPairingRsp(p) PROVE NoFlagsInA'
  BY <1>1, <1>9 DEF RecvPairingRsp, TypeOK, Chan
<1>10. ASSUME NEW p \in Peer, TkRequest(p) PROVE NoFlagsInA'
  <2>1. CASE UseStoredKey(p)
    <3>1. chan'[p].persistent = Stored(p).persistent /\ link[p].dst \in Addr
      BY <2>1 DEF UseStoredKey, TypeOK, Chan, Link
    <3>2. ~Stored(p).persistent
      BY <3>1 DEF Stored
    <3>3. UNCHANGED store /\ \A q \in Peer \ {p} : chan'[q] = chan[q]
      BY <1>10, <2>1 DEF TkRequest, UseStoredKey, TypeOK
    <3> QED
      BY <1>1, <3>1, <3>2, <3>3
  <2>2. CASE chan' = [chan EXCEPT ![p].step = IF chan[p].sc THEN "confirm" ELSE "nokey"]
    BY <1>1, <1>10, <2>2 DEF TkRequest, TypeOK, Chan
  <2> QED
    BY <1>10, <2>1, <2>2 DEF TkRequest
<1>11. ASSUME NEW p \in Peer, TkRequestGeneric(p) PROVE NoFlagsInA'
  <2>1. ASSUME NEW s \in Step, chan' = [chan EXCEPT ![p].step = s] PROVE NoFlagsInA'
    BY <1>1, <1>11, <2>1 DEF TkRequestGeneric, TypeOK, Chan
  <2> QED
    BY <1>11, <2>1 DEF TkRequestGeneric, Step
<1>12. ASSUME NEW p \in Peer, ConfirmAndEncrypt(p) PROVE NoFlagsInA'
  BY <1>1, <1>12 DEF ConfirmAndEncrypt, TypeOK, Chan
<1>13. ASSUME NEW p \in Peer, DistributeKeys(p) PROVE NoFlagsInA'
  BY <1>1, <1>13 DEF DistributeKeys, WipeOnComplete, WipeA, NoEntry, Idle, TypeOK
<1>14. ASSUME NEW p \in Peer, NEW tk \in {ZeroKey, TornKey}, TkRequestRaces(p, tk)
       PROVE  NoFlagsInA'
  <2>1. \A q \in Peer : chan'[q].persistent = chan[q].persistent \/ ~chan'[q].persistent
    <3>1. ASSUME NEW n, CopyDuringRewrite(p, tk, n)
          PROVE  \A q \in Peer : chan'[q].persistent = chan[q].persistent \/ ~chan'[q].persistent
      BY <3>1 DEF CopyDuringRewrite, TypeOK, Chan
    <3> QED
      BY <1>14, <3>1 DEF TkRequestRaces
  <2>2. \A b \in Addr : store'[b] = store[b] \/ ~store'[b].persistent
    <3>1. CASE store' = [store EXCEPT ![link[p].dst] = NoEntry]
      BY <3>1 DEF NoEntry, TypeOK
    <3>2. ASSUME NEW k \in TK,
                 store' = [store EXCEPT ![link[p].dst] = [serial |-> next, tk |-> k,
                                              persistent |-> FALSE, force |-> FALSE]]
          PROVE  \A b \in Addr : store'[b] = store[b] \/ ~store'[b].persistent
      BY <3>2 DEF TypeOK
    <3> QED
      BY <1>14, <3>1, <3>2 DEF TkRequestRaces
  <2> QED
    BY <1>1, <2>1, <2>2
<1>15. UNCHANGED <<store, chan>> => NoFlagsInA'
  OBVIOUS
<1> QED
  BY <1>2, <1>3, <1>4, <1>5, <1>6, <1>7, <1>8, <1>9, <1>10, <1>11, <1>12, <1>13, <1>14, <1>15
     DEF Next, UserSpace, Device, SmpStep, PowerOn, Connect, Unpair, VendorExchange,
         Disconnect, SmpTimeout, PairingFailed, vars

\* A pairing that ends without a bond, however it fails and whatever the
\* commands do meanwhile, leaves the store as it was: a retry needs no new key.
THEOREM FailedPairingKeepsKeys == Spec => FailureKeepsKey
<1> DEFINE Keeps ==
      \A p \in Peer : /\ powered' /\ bonds' = bonds
                      /\ chan[p].step # "idle" /\ chan'[p].step = "idle"
        => store' = store
<1>1. ASSUME TypeOK, NoFlagsInA, [Next]_vars PROVE [Keeps]_vars
  <2> USE DEF smp
  <2>1. /\ UNCHANGED store => Keeps
        /\ bonds' # bonds => Keeps
        /\ ~powered' => Keeps
        /\ (\A q \in Peer : chan[q].step # "idle" => chan'[q].step # "idle") => Keeps
    BY Zenon
  <2>2. UNCHANGED chan => Keeps
    BY <2>1, Zenon
  <2>3. ASSUME NEW p \in Peer, DistributeKeys(p) PROVE Keeps
    <3>1. chan[p].serial \in 0..MaxArm /\ chan[p].persistent \in BOOLEAN
      BY <1>1 DEF TypeOK, Chan
    <3>2. CASE chan[p].serial # 0 /\ ~chan[p].persistent
      <4>1. chan[p].serial \in Serial
        BY <3>1, <3>2, BoundAssumption DEF Serial
      <4>2. bonds'[chan[p].serial] = bonds[chan[p].serial] + 1
        BY <2>3, <3>1, <3>2, <4>1 DEF DistributeKeys
      <4>3. bonds[chan[p].serial] \in Nat
        BY <1>1, <4>1 DEF TypeOK
      <4>4. bonds' # bonds
        BY <4>2, <4>3
      <4> QED
        BY <2>1, <4>4, Zenon
    <3>3. CASE chan[p].serial = 0 \/ chan[p].persistent
      <4>1. CASE Option = "A"
        <5>1. chan[p].serial = 0 /\ Option # "B"
          BY <1>1, <3>3, <4>1 DEF NoFlagsInA
        <5>2. store' = store
          BY <2>3, <4>1, <5>1 DEF DistributeKeys, WipeOnComplete, WipeA
        <5> QED
          BY <2>1, <5>2, Zenon
      <4>2. CASE Option = "B"
        <5>1. store' = store
          BY <2>3, <3>3, <4>2 DEF DistributeKeys, WipeOnComplete, WipeB
        <5> QED
          BY <2>1, <5>1, Zenon
      <4> QED
        BY <4>1, <4>2, OptionAssumption
    <3> QED
      BY <3>1, <3>2, <3>3
  <2>4. ASSUME NEW p \in Peer, NEW tk \in {ZeroKey, TornKey}, TkRequestRaces(p, tk) PROVE Keeps
    <3>1. ASSUME NEW n, CopyDuringRewrite(p, tk, n) PROVE Keeps
      <4>1. \A q \in Peer : chan[q].step # "idle" => chan'[q].step # "idle"
        <5>1. chan'[p].step = "confirm" /\ \A q \in Peer \ {p} : chan'[q] = chan[q]
          BY <1>1, <3>1 DEF CopyDuringRewrite, TypeOK, Chan
        <5> QED
          BY <5>1
      <4> QED
        BY <2>1, <4>1, Zenon
    <3> QED
      BY <2>4, <3>1, Zenon DEF TkRequestRaces
  <2>5. CASE PowerOff
    <3>1. powered' = FALSE
      BY <2>5 DEF PowerOff
    <3> QED
      BY <2>1, <3>1, Zenon
  <2>6. UNCHANGED store \/ UNCHANGED chan => Keeps
    BY <2>1, <2>2, Zenon
  <2> QED
    BY <1>1, <2>3, <2>4, <2>5, <2>6
       DEF Next, UserSpace, Device, SmpStep, AddRemoteLegacyOob, AddOtherOobData,
           RemoveRemoteLegacyOob, RemoveAll, PowerOn, ConnSecurity, SendPairingReq, Connect,
           Unpair, VendorExchange, Disconnect, SmpTimeout, PairingFailed, RecvPairingRsp, TkRequest,
           TkRequestGeneric, ConfirmAndEncrypt, vars
<1>2. TypeOK /\ TypeOK' /\ NoFlagsInA /\ [Next]_vars => NoFlagsInA'
  BY NoFlagsStep
<1> QED
  BY <1>1, <1>2, NoFlagsInit, TypeCorrect, PTL DEF Spec, FailureKeepsKey

\* What a pairing of a peer nobody stored a key for carries from its request to
\* its bond: no key is found for it, so every decision is the one made before
\* the patches.
AsBefore(p) ==
  /\ ~chan[p].idKey
  /\ chan[p].step \in {"building", "requested"} => (chan[p].sc <=> ScCapable)
  /\ chan[p].step \in {"checked", "nokey", "confirm", "distribute"} =>
       (chan[p].sc <=> ScCapable /\ Kind[p] = "sc")
  /\ chan[p].step \in {"checked", "nokey", "confirm"} => link[p].pend # BT_SECURITY_HIGH
  /\ chan[p].step = "distribute" => link[p].sec # BT_SECURITY_HIGH
  /\ chan[p].step # "stalled"
Unarmed(p) == ConnAddr[p] \notin armed /\ IdAddr[p] \notin armed
UnarmedInv ==
  /\ \A a \in Addr : store[a].serial # 0 => a \in armed
  /\ \A p \in Peer : link[p].dst \in {ConnAddr[p], IdAddr[p]}
  /\ \A p \in Peer : Unarmed(p) => AsBefore(p)

LEMMA UnarmedHasNoKey ==
  ASSUME TypeOK, UnarmedInv, NEW p \in Peer, Unarmed(p)
  PROVE  ~HasKey(p)
BY DEF UnarmedInv, Unarmed, HasKey, Stored, TypeOK, Link

\* A step of one peer, and what it must show of that peer.
LEMMA UnarmedPeerStep ==
  ASSUME TypeOK, UnarmedInv, armed \subseteq armed',
         \A a \in Addr : store'[a].serial # 0 => store[a].serial # 0 \/ a \in armed',
         NEW p \in Peer, \A q \in Peer \ {p} : chan'[q] = chan[q] /\ link'[q] = link[q],
         link'[p].dst \in {ConnAddr[p], IdAddr[p]},
         Unarmed(p) /\ AsBefore(p) => AsBefore(p)'
  PROVE  UnarmedInv'
<1>1. \A q \in Peer : Unarmed(q)' => Unarmed(q)
  BY DEF Unarmed
<1>2. \A q \in Peer \ {p} : AsBefore(q) => AsBefore(q)'
  BY DEF AsBefore
<1> QED
  BY <1>1, <1>2 DEF UnarmedInv

LEMMA UnarmedStep ==
  ASSUME TypeOK, TypeOK', UnarmedInv, [Next]_vars
  PROVE  UnarmedInv'
<1> USE DEF smp
<1>1. ASSUME armed \subseteq armed', UNCHANGED <<link, chan>>,
             \A a \in Addr : store'[a].serial # 0 => store[a].serial # 0 \/ a \in armed'
      PROVE  UnarmedInv'
  BY <1>1 DEF UnarmedInv, Unarmed, AsBefore
<1>2. ASSUME NEW p \in Peer, UNCHANGED <<store, armed>>,
             \A q \in Peer \ {p} : chan'[q] = chan[q] /\ link'[q] = link[q],
             link'[p].dst \in {ConnAddr[p], IdAddr[p]},
             Unarmed(p) /\ AsBefore(p) => AsBefore(p)'
      PROVE  UnarmedInv'
  BY <1>2, UnarmedPeerStep
<1>3. ASSUME NEW a \in Addr, NEW k \in TK, NEW persistent \in BOOLEAN, NEW force \in BOOLEAN,
             AddRemoteLegacyOob(a, k, persistent, force)
      PROVE  UnarmedInv'
  BY <1>1, <1>3 DEF AddRemoteLegacyOob, TypeOK
<1>4. ASSUME NEW a \in Addr, AddOtherOobData(a) \/ RemoveRemoteLegacyOob(a) PROVE UnarmedInv'
  BY <1>1, <1>4 DEF AddOtherOobData, RemoveRemoteLegacyOob, NoEntry, TypeOK
<1>5. CASE RemoveAll
  BY <1>1, <1>5 DEF RemoveAll, NoEntry
<1>6. CASE PowerOff
  <2>1. \A p \in Peer : AsBefore(p)' /\ link'[p].dst = ConnAddr[p]
    BY <1>6 DEF PowerOff, AsBefore, Idle, DownLink
  <2>2. \A a \in Addr : store'[a].serial # 0 => store[a].serial # 0
    BY <1>6 DEF PowerOff, StoreAfterClose, ClearEphemeral, NoEntry
  <2> QED
    BY <1>6, <2>1, <2>2 DEF PowerOff, UnarmedInv
<1>7. ASSUME NEW p \in Peer, DestroyIncomplete(p), UNCHANGED <<store, armed>>,
             link' = [link EXCEPT ![p] = DownLink(p)] \/ UNCHANGED link
      PROVE  UnarmedInv'
  <2>1. AsBefore(p)' /\ \A q \in Peer \ {p} : chan'[q] = chan[q] /\ link'[q] = link[q]
    BY <1>7 DEF DestroyIncomplete, AsBefore, Idle, TypeOK
  <2>2. link'[p].dst \in {ConnAddr[p], IdAddr[p]}
    BY <1>7 DEF DownLink, TypeOK, UnarmedInv
  <2> QED
    BY <1>2, <1>7, <2>1, <2>2
<1>8. ASSUME NEW p \in Peer, Connect(p) PROVE UnarmedInv'
  <2>1. UNCHANGED <<store, armed, chan>> /\ \A q \in Peer \ {p} : link'[q] = link[q]
    BY <1>8 DEF Connect, TypeOK
  <2>2. link'[p].dst \in {ConnAddr[p], IdAddr[p]} /\ link'[p].sec = BT_SECURITY_LOW
        /\ link'[p].pend = BT_SECURITY_LOW
    BY <1>8 DEF Connect, DownLink, TypeOK
  <2> QED
    BY <1>2, <2>1, <2>2 DEF AsBefore, BT_SECURITY_LOW, BT_SECURITY_HIGH
<1>9. ASSUME NEW p \in Peer,
             NEW lvl \in {BT_SECURITY_MEDIUM, BT_SECURITY_HIGH}, ConnSecurity(p, lvl)
      PROVE  UnarmedInv'
  <2>1. /\ UNCHANGED <<store, armed>>
        /\ \A q \in Peer \ {p} : chan'[q] = chan[q] /\ link'[q] = link[q]
        /\ link'[p].dst = link[p].dst
    BY <1>9 DEF ConnSecurity, TypeOK, Link
  <2>2. /\ chan'[p].step = "building" /\ chan'[p].idKey = BuildPairingCmd(p).idKey
        /\ chan'[p].sc = BuildPairingCmd(p).sc
    BY <1>9 DEF ConnSecurity, Idle, TypeOK
  <2>3. ~HasKey(p) => ~BuildPairingCmd(p).idKey /\ (BuildPairingCmd(p).sc <=> ScCapable)
    BY DEF BuildPairingCmd, RequestA, RequestB
  <2>4. Unarmed(p) => AsBefore(p)'
    BY <2>2, <2>3, UnarmedHasNoKey DEF AsBefore
  <2> QED
    BY <1>2, <2>1, <2>4 DEF UnarmedInv
<1>10. ASSUME NEW p \in Peer, SendPairingReq(p) PROVE UnarmedInv'
  <2>1. /\ UNCHANGED <<store, armed, link>>
        /\ \A q \in Peer \ {p} : chan'[q] = chan[q]
        /\ chan[p].step = "building" /\ chan'[p].step = "requested"
        /\ chan'[p].sc = chan[p].sc /\ chan'[p].idKey = Flags(p).idKey
    BY <1>10 DEF SendPairingReq, TypeOK, Chan
  <2>2. ~HasKey(p) /\ ~chan[p].idKey => ~Flags(p).idKey
    BY DEF Flags, FlagsA, FlagsB
  <2>3. Unarmed(p) /\ AsBefore(p) => AsBefore(p)'
    BY <2>1, <2>2, UnarmedHasNoKey DEF AsBefore
  <2> QED
    BY <1>2, <2>1, <2>3 DEF UnarmedInv
<1>11. ASSUME NEW p \in Peer, RecvPairingRsp(p) PROVE UnarmedInv'
  <2>1. /\ UNCHANGED <<store, armed, link>>
        /\ \A q \in Peer \ {p} : chan'[q] = chan[q]
        /\ chan[p].step = "requested" /\ chan'[p].step = "checked"
        /\ chan'[p].idKey = chan[p].idKey
        /\ chan'[p].sc <=> chan[p].sc /\ Kind[p] = "sc"
        /\ ~MitmUnachievable(p)
    BY <1>11 DEF RecvPairingRsp, PeerWantsSc, TypeOK, Chan
  <2>2. ~HasKey(p) => link[p].pend # BT_SECURITY_HIGH
    BY <2>1 DEF MitmUnachievable, GetAuthMethod, BT_SECURITY_HIGH
  <2>3. Unarmed(p) /\ AsBefore(p) => AsBefore(p)'
    BY <2>1, <2>2, UnarmedHasNoKey DEF AsBefore
  <2> QED
    BY <1>2, <2>1, <2>3 DEF UnarmedInv
<1>12. ASSUME NEW p \in Peer, TkRequest(p) PROVE UnarmedInv'
  <2>1. UNCHANGED <<store, armed>> /\ chan[p].step = "checked"
    BY <1>12 DEF TkRequest
  <2>2. CASE HasKey(p) /\ UseStoredKey(p)
    <3>1. /\ \A q \in Peer \ {p} : chan'[q] = chan[q] /\ link'[q] = link[q]
          /\ link'[p].dst = link[p].dst
      BY <2>2 DEF UseStoredKey, TypeOK, Link
    <3> QED
      BY <1>2, <2>1, <2>2, <3>1, UnarmedHasNoKey DEF UnarmedInv
  <2>3. CASE /\ UNCHANGED link
             /\ chan' = [chan EXCEPT ![p].step = IF chan[p].sc THEN "confirm" ELSE "nokey"]
    <3>1. /\ chan'[p].step \in {"confirm", "nokey"} /\ chan'[p].sc = chan[p].sc
          /\ chan'[p].idKey = chan[p].idKey
          /\ \A q \in Peer \ {p} : chan'[q] = chan[q]
      BY <2>3 DEF TypeOK, Chan
    <3> QED
      BY <1>2, <2>1, <2>3, <3>1 DEF AsBefore, UnarmedInv
  <2> QED
    BY <1>12, <2>2, <2>3 DEF TkRequest
<1>13. ASSUME NEW p \in Peer, TkRequestGeneric(p) PROVE UnarmedInv'
  <2>1. UNCHANGED <<store, armed>> /\ chan[p].step = "nokey"
    BY <1>13 DEF TkRequestGeneric
  <2>2. CASE /\ MitmWanted(p) /\ GetAuthMethod(p, FALSE) = "REQ_OOB"
             /\ chan' = [chan EXCEPT ![p].step = "stalled"]
             /\ link' = [link EXCEPT ![p].pend = BT_SECURITY_HIGH]
    <3>1. /\ \A q \in Peer \ {p} : chan'[q] = chan[q] /\ link'[q] = link[q]
          /\ link'[p].dst = link[p].dst
      BY <2>2 DEF TypeOK, Link
    <3>2. HasKey(p)
      BY <2>2 DEF GetAuthMethod
    <3> QED
      BY <1>2, <2>1, <3>1, <3>2, UnarmedHasNoKey DEF UnarmedInv
  <2>3. CASE UNCHANGED link /\ chan' = [chan EXCEPT ![p].step = "confirm"]
    <3>1. /\ chan'[p].step = "confirm" /\ chan'[p].sc = chan[p].sc
          /\ chan'[p].idKey = chan[p].idKey
          /\ \A q \in Peer \ {p} : chan'[q] = chan[q]
      BY <2>3 DEF TypeOK, Chan
    <3> QED
      BY <1>2, <2>1, <2>3, <3>1 DEF AsBefore, UnarmedInv
  <2> QED
    BY <1>13, <2>2, <2>3 DEF TkRequestGeneric
<1>14. ASSUME NEW p \in Peer, ConfirmAndEncrypt(p) PROVE UnarmedInv'
  <2>1. /\ UNCHANGED <<store, armed>>
        /\ \A q \in Peer \ {p} : chan'[q] = chan[q] /\ link'[q] = link[q]
        /\ link'[p].dst = link[p].dst
        /\ chan[p].step = "confirm"
    BY <1>14 DEF ConfirmAndEncrypt, TypeOK, Link
  <2>2. /\ chan'[p].step = "distribute" /\ chan'[p].sc = chan[p].sc
        /\ chan'[p].idKey = chan[p].idKey /\ link'[p].sec = link[p].pend
    BY <1>14 DEF ConfirmAndEncrypt, TypeOK, Chan, Link
  <2> QED
    BY <1>2, <2>1, <2>2 DEF AsBefore, UnarmedInv
<1>15. ASSUME NEW p \in Peer, DistributeKeys(p) PROVE UnarmedInv'
  <2>1. /\ armed' = armed
        /\ \A q \in Peer \ {p} : chan'[q] = chan[q] /\ link'[q] = link[q]
        /\ link'[p].dst = IdAddr[p]
    BY <1>15 DEF DistributeKeys, TypeOK, Link
  <2>2. AsBefore(p)'
    BY <1>15 DEF DistributeKeys, AsBefore, Idle, TypeOK
  <2>3. \A a \in Addr : store'[a].serial # 0 => store[a].serial # 0
    BY <1>15 DEF DistributeKeys, WipeOnComplete, WipeA, WipeB, NoEntry, TypeOK
  <2> QED
    BY <2>1, <2>2, <2>3, UnarmedPeerStep
<1>16. ASSUME NEW p \in Peer, NEW tk \in {ZeroKey, TornKey}, TkRequestRaces(p, tk)
       PROVE  UnarmedInv'
  <2>1. HasKey(p) /\ armed' = armed /\ link[p].dst \in Addr
    BY <1>16 DEF TkRequestRaces, TypeOK, Link
  <2>2. /\ \A q \in Peer \ {p} : chan'[q] = chan[q] /\ link'[q] = link[q]
        /\ link'[p].dst = link[p].dst
    <3>1. ASSUME NEW n, CopyDuringRewrite(p, tk, n)
          PROVE  /\ \A q \in Peer \ {p} : chan'[q] = chan[q] /\ link'[q] = link[q]
                 /\ link'[p].dst = link[p].dst
      BY <3>1 DEF CopyDuringRewrite, TypeOK, Link
    <3> QED
      BY <1>16, <3>1 DEF TkRequestRaces
  <2>3. \A b \in Addr : store'[b].serial # 0 => store[b].serial # 0 \/ b = link[p].dst
    BY <1>16 DEF TkRequestRaces, NoEntry, TypeOK
  <2>4. link[p].dst \in armed
    BY <2>1 DEF HasKey, Stored, UnarmedInv
  <2>5. ~Unarmed(p)
    BY <2>1, UnarmedHasNoKey
  <2> QED
    BY <2>1, <2>2, <2>3, <2>4, <2>5, UnarmedPeerStep DEF UnarmedInv
<1>17. CASE UNCHANGED <<store, armed, link, chan>>
  BY <1>1, <1>17
<1> QED
  BY <1>3, <1>4, <1>5, <1>6, <1>7, <1>8, <1>9, <1>10, <1>11, <1>12, <1>13, <1>14, <1>15, <1>16,
     <1>17
  DEF Next, UserSpace, Device, SmpStep, PowerOn, Unpair, VendorExchange, Disconnect, SmpTimeout,
      PairingFailed, vars

\* A peer user space never stored a key for pairs as it did before the patches,
\* whatever is stored for other peers: no downgrade from Secure Connections, no
\* identity sent, no bond marked as authenticated.
THEOREM UnarmedAsBefore == Spec => []UnarmedPairingUnchanged
<1>1. Init => UnarmedInv
  BY PeerAssumption DEF Init, UnarmedInv, AsBefore, NoEntry, DownLink, Idle
<1>2. TypeOK /\ TypeOK' /\ UnarmedInv /\ [Next]_vars => UnarmedInv'
  BY UnarmedStep
<1>3. Init => UnarmedPairingUnchanged
  BY DEF Init, UnarmedPairingUnchanged, NoBond
<1>4. ASSUME TypeOK, UnarmedInv, UnarmedPairingUnchanged, [Next]_vars
      PROVE  UnarmedPairingUnchanged'
  <2> USE DEF smp
  <2>1. armed \subseteq armed'
    BY <1>4 DEF Next, UserSpace, Device, SmpStep, AddRemoteLegacyOob, AddOtherOobData,
           RemoveRemoteLegacyOob, RemoveAll, PowerOff, PowerOn, ConnSecurity, SendPairingReq, Connect,
           Unpair, VendorExchange, Disconnect, SmpTimeout, PairingFailed, RecvPairingRsp, TkRequest,
           TkRequestRaces, TkRequestGeneric, ConfirmAndEncrypt, DistributeKeys, vars
  <2>2. ASSUME NEW p \in Peer, DistributeKeys(p) PROVE UnarmedPairingUnchanged'
    <3>1. /\ bond'[p].sc = chan[p].sc /\ bond'[p].idKey = chan[p].idKey
          /\ bond'[p].auth <=> link[p].sec = BT_SECURITY_HIGH
          /\ \A q \in Peer \ {p} : bond'[q] = bond[q]
          /\ chan[p].step = "distribute" /\ chan[p].sc \in BOOLEAN
      BY <1>4, <2>2 DEF DistributeKeys, TypeOK, Chan
    <3>2. Unarmed(p) => (chan[p].sc <=> ScCapable /\ Kind[p] = "sc") /\ ~chan[p].idKey
                        /\ link[p].sec # BT_SECURITY_HIGH
      BY <1>4, <3>1 DEF UnarmedInv, AsBefore
    <3>3. Unarmed(p) => bond'[p].sc = (ScCapable /\ Kind[p] = "sc") /\ ~bond'[p].idKey /\ ~bond'[p].auth
      BY <3>1, <3>2, OptionAssumption
    <3> QED
      BY <1>4, <2>1, <3>1, <3>3 DEF UnarmedPairingUnchanged, Unarmed
  <2>3. ASSUME NEW p \in Peer, Unpair(p) PROVE UnarmedPairingUnchanged'
    BY <1>4, <2>1, <2>3 DEF Unpair, TypeOK, NoBond, UnarmedPairingUnchanged
  <2>4. UNCHANGED bond => UnarmedPairingUnchanged'
    BY <1>4, <2>1 DEF UnarmedPairingUnchanged
  <2> QED
    BY <1>4, <2>2, <2>3, <2>4
       DEF Next, UserSpace, Device, SmpStep, AddRemoteLegacyOob, AddOtherOobData,
           RemoveRemoteLegacyOob, RemoveAll, PowerOff, PowerOn, ConnSecurity, SendPairingReq, Connect,
           VendorExchange, Disconnect, SmpTimeout, PairingFailed, RecvPairingRsp, TkRequest, TkRequestRaces,
           TkRequestGeneric, ConfirmAndEncrypt, vars
<1> QED
  BY <1>1, <1>2, <1>3, <1>4, TypeCorrect, PTL DEF Spec
=============================================================================
