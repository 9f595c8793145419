---------------------------- MODULE AddressClaim ----------------------------
(***************************************************************************)
(* NMEA 2000 address claiming on one bus: the virtual device manager       *)
(* (virtual_device.go), the device registry (devices.go) and the parts of  *)
(* the broker that drive them (the discovery switch of handleFrame,        *)
(* sendISORequest, queueTx, expireDevices).  What lplex transmits comes    *)
(* back to it as an echo, in bus order with everybody's frames.            *)
(*                                                                         *)
(* A device is its NAME, a number: the lower one wins an address.  Real    *)
(* devices (Peers) are external: they follow the rule of the bus, answer   *)
(* requests, and come, move and fall silent as they like.                  *)
(***************************************************************************)
EXTENDS Integers, Sequences, FiniteSets

CONSTANTS
  Virtual,  \* NAMEs of the virtual devices
  Peers,    \* NAMEs of the real devices
  MaxAddr,  \* the highest address (252)
  TxCap,    \* capacity of txFrames
  MaxEvents \* bound: events the bus starts by itself, and idle expiries

ASSUME ClaimAssumption ==
  /\ IsFiniteSet(Virtual) /\ Virtual \subseteq Nat \ {0} /\ Peers \subseteq Nat \ {0} /\ Virtual \cap Peers = {}
  /\ MaxAddr \in 0..252 /\ TxCap \in Nat \ {0} /\ MaxEvents \in Nat

VARIABLES
  vd,       \* per virtual device: ClaimState and source
  reg,      \* DeviceRegistry: NAME by known source, 0 as long as it has none
  tx,       \* txFrames
  rx,       \* rxFrames
  started,  \* StartAfterDiscovery has run
  dropped,  \* history: queueTx dropped a frame on a full channel
  paddr,    \* external: address of each peer, Null when it has none
  owes,     \* external: what a peer has still to do about its address
  events    \* events so far

busVars == <<paddr, owes, events>>
avars == <<vd, reg, tx, rx, started, dropped, busVars>>

Addrs == 0..MaxAddr
Null == 254
Global == 255
Names == Virtual \union Peers

Claim(n, a) == [kind |-> "claim", name |-> n, src |-> a, dst |-> Global]
Request(s, d) == [kind |-> "request", name |-> 0, src |-> s, dst |-> d]
InfoRequest(s, d) == [kind |-> "inforequest", name |-> 0, src |-> s, dst |-> d]
Info(a) == [kind |-> "info", name |-> 0, src |-> a, dst |-> Global]
Data(a) == [kind |-> "data", name |-> 0, src |-> a, dst |-> Global]

AInit ==
  /\ vd = [d \in Virtual |-> [state |-> "idle", source |-> 0]]
  /\ reg = [a \in {} |-> 0]
  /\ tx = <<>> /\ rx = <<>> /\ started = FALSE /\ dropped = FALSE
  /\ paddr = [p \in Peers |-> Null]
  /\ owes = [p \in Peers |-> "nothing"]
  /\ events = 0
-----------------------------------------------------------------------------
(* The bus (external): every node hears every frame in the same order *)

\* A peer that hears its address claimed defends it or gives it up; one that is
\* asked answers with its claim.
Reaction(p, f) ==
  IF paddr[p] = Null THEN owes[p]
  ELSE IF f.kind = "claim" /\ f.src = paddr[p] /\ f.name # p
         THEN IF f.name < p THEN "move" ELSE "claim"
  ELSE IF f.kind = "request" /\ f.dst \in {paddr[p], Global} /\ owes[p] = "nothing" THEN "claim"
  ELSE owes[p]

OnBus(f) == rx' = Append(rx, f)

Transmit ==
  /\ tx # <<>>
  /\ tx' = Tail(tx)
  /\ OnBus(Head(tx))
  /\ owes' = [p \in Peers |-> Reaction(p, Head(tx))]
  /\ UNCHANGED <<vd, reg, started, dropped, paddr, events>>

PeerClaims(p, a) ==
  /\ OnBus(Claim(p, a))
  /\ paddr' = [paddr EXCEPT ![p] = a]
  /\ owes' = [q \in Peers |-> IF q = p THEN "nothing" ELSE Reaction(q, Claim(p, a))]
  /\ UNCHANGED <<vd, reg, tx, started, dropped>>

\* What a peer owes; one that must move takes another address, or none.
PeerActs(p) ==
  \/ owes[p] = "claim" /\ PeerClaims(p, paddr[p]) /\ UNCHANGED events
  \/ /\ owes[p] = "move"
     /\ \/ PeerClaims(p, Null) /\ UNCHANGED events
        \/ /\ events < MaxEvents /\ events' = events + 1
           /\ \E a \in Addrs \ {paddr[p]} : PeerClaims(p, a)

\* A peer comes up or changes its address, sends data, or asks everybody.
PeerStarts(p) ==
  /\ events < MaxEvents /\ events' = events + 1
  /\ \/ \E a \in Addrs : PeerClaims(p, a)
     \/ /\ paddr[p] # Null /\ \E f \in {Data(paddr[p]), Request(paddr[p], Global)} : OnBus(f)
        /\ UNCHANGED <<vd, reg, tx, started, dropped, paddr, owes>>
-----------------------------------------------------------------------------
(* The registry *)

WithEntry(r, a, n) == [b \in DOMAIN r \union {a} |-> IF b = a THEN n ELSE r[b]]

RecordPacket(r, a) ==
  IF a >= Null \/ a \in DOMAIN r THEN r
  ELSE WithEntry(r, a, 0)

Without(r, S) == [b \in DOMAIN r \ S |-> r[b]]

\* Another source with the same NAME; the loop over the map ends with the first.
PriorHolder(r, a, n) ==
  LET others == {c \in DOMAIN r : c # a /\ r[c] = n} IN
    IF others = {} THEN {} ELSE {CHOOSE c \in others : TRUE}

\* No change, or the claimant gets the entry and a prior holder is evicted.
HandleAddressClaim(r, a, n) ==
  IF a \in DOMAIN r /\ r[a] = n THEN r
  ELSE WithEntry(Without(r, PriorHolder(r, a, n)), a, n)

Expire ==
  /\ events < MaxEvents /\ events' = events + 1
  /\ \E a \in DOMAIN reg : reg' = Without(reg, {a})
  /\ UNCHANGED <<vd, tx, rx, started, dropped, paddr, owes>>
-----------------------------------------------------------------------------
(* The virtual device manager *)

Active(d) == vd[d].state \in {"inprogress", "held"}

\* queueTx of several frames: what does not fit is dropped.
Queue(fs) ==
  LET all == tx \o fs IN
    /\ tx' = SubSeq(all, 1, IF Len(all) > TxCap THEN TxCap ELSE Len(all))
    /\ dropped' = (dropped \/ Len(all) > TxCap)

\* Mutant: the other virtual devices' addresses are not looked at.
Taken_RegistryOnly(v, r) == DOMAIN r

\* findFreeAddress: neither in the registry nor in use by a virtual device.
Taken(v, r) ==
  DOMAIN r \union {v[d].source : d \in {e \in Virtual : v[e].state \in {"inprogress", "held"}}}

Free(v, r) == Addrs \ Taken(v, r)
Highest(S) == CHOOSE m \in S : \A n \in S : n <= m

\* claimForDevice: the highest free address, or cannot claim.
ClaimFor(v, r, d) ==
  IF Free(v, r) = {} THEN [v EXCEPT ![d] = [state |-> "cannot", source |-> Null]]
  ELSE [v EXCEPT ![d] = [state |-> "inprogress", source |-> Highest(Free(v, r))]]

\* The i-th device of a set in the order of the slice (by NAME here).
Nth(S, i) == CHOOSE d \in S : Cardinality({e \in S : e <= d}) = i

\* StartAfterDiscovery, one device after the other under the manager's lock.
ClaimAll[i \in 0..Cardinality(Virtual)] ==
  IF i = 0 THEN vd ELSE ClaimFor(ClaimAll[i - 1], reg, Nth(Virtual, i))

\* The claims of several devices, in that order.
ClaimsOf(v, S) == [i \in 1..Cardinality(S) |-> Claim(Nth(S, i), v[Nth(S, i)].source)]

StartAfterDiscovery ==
  /\ ~started
  /\ started' = TRUE
  /\ vd' = ClaimAll[Cardinality(Virtual)]
  /\ Queue(ClaimsOf(vd', Virtual))
  /\ UNCHANGED <<reg, rx, busVars>>

\* Heartbeat: the held devices claim again.
Heartbeat ==
  /\ events < MaxEvents /\ events' = events + 1
  /\ Queue(ClaimsOf(vd, {d \in Virtual : vd[d].state = "held"}))
  /\ UNCHANGED <<vd, reg, rx, started, paddr, owes>>

\* isoRequestSource
RequestSource(v) ==
  LET held == {d \in Virtual : v[d].state = "held"} IN
    IF held = {} THEN Null ELSE v[CHOOSE d \in held : \A e \in held : d <= e].source

Wins(d, n) == d < n

\* A new or changed device that is not our own is asked for its product info.
AskInfo(r, f) ==
  IF HandleAddressClaim(r, f.src, f.name) # r
    THEN <<InfoRequest(RequestSource(vd'), f.src)>> ELSE <<>>

\* Mutant: the echo is taken for somebody else's claim and answered.
BusClaim_NoEcho(d, r, f) ==
  \/ /\ ~Wins(f.name, d)
     /\ vd' = vd
     /\ Queue(<<Claim(d, vd[d].source)>>)
  \/ /\ Wins(f.name, d)
     /\ vd' = ClaimFor(vd, r, d)
     /\ Queue(<<Claim(d, vd'[d].source)>> \o AskInfo(r, f))

\* Mutant: a device that holds its address does not give it up.
BusClaim_Keeps(d, r, f) ==
  \/ /\ f.name = d
     /\ vd' = [vd EXCEPT ![d].state = "held"]
     /\ Queue(<<>>)
  \/ /\ f.name # d /\ Wins(d, f.name)
     /\ vd' = vd
     /\ Queue(<<Claim(d, vd[d].source)>> \o AskInfo(r, f))
  \/ /\ f.name # d /\ ~Wins(d, f.name)
     /\ IF vd[d].state = "held"
          THEN vd' = vd /\ Queue(AskInfo(r, f))
          ELSE vd' = ClaimFor(vd, r, d) /\ Queue(<<Claim(d, vd'[d].source)>> \o AskInfo(r, f))

\* HandleBusClaim for the device at the claimed address: the echo of our claim, a
\* conflict won, a conflict lost.
BusClaim(d, r, f) ==
  \/ /\ f.name = d
     /\ vd' = [vd EXCEPT ![d].state = "held"]
     /\ Queue(<<>>)
  \/ /\ f.name # d /\ Wins(d, f.name)
     /\ vd' = vd
     /\ Queue(<<Claim(d, vd[d].source)>> \o AskInfo(r, f))
  \/ /\ f.name # d /\ ~Wins(d, f.name)
     /\ vd' = ClaimFor(vd, r, d)
     /\ Queue(<<Claim(d, vd'[d].source)>> \o AskInfo(r, f))

\* handleFrame on an address claim.
HandleClaim ==
  /\ rx # <<>> /\ Head(rx).kind = "claim"
  /\ LET f == Head(rx)
         r == RecordPacket(reg, f.src)
         here == {d \in Virtual : Active(d) /\ vd[d].source = f.src}
     IN  /\ \/ here = {} /\ vd' = vd /\ Queue(AskInfo(r, f))
            \/ \E d \in here : BusClaim(d, r, f)
         /\ reg' = HandleAddressClaim(r, f.src, f.name)
  /\ rx' = Tail(rx)
  /\ UNCHANGED <<started, busVars>>

\* handleFrame on a frame of a source not seen before: ask who it is.
HandleData ==
  /\ rx # <<>> /\ Head(rx).kind = "data"
  /\ LET a == Head(rx).src IN
       /\ reg' = RecordPacket(reg, a)
       /\ Queue(IF reg' # reg THEN <<Request(RequestSource(vd), a)>> ELSE <<>>)
  /\ rx' = Tail(rx)
  /\ UNCHANGED <<vd, started, busVars>>

\* HandleISORequest: the devices asked claim their address again or tell what
\* they are.
HandleRequest ==
  /\ rx # <<>> /\ Head(rx).kind \in {"request", "inforequest"}
  /\ LET f == Head(rx)
         claims == ClaimsOf(vd, {d \in Virtual : Active(d) /\ f.dst \in {vd[d].source, Global}})
     IN  /\ reg' = RecordPacket(reg, f.src)
         /\ Queue(IF f.kind = "request" THEN claims
                  ELSE [i \in DOMAIN claims |-> Info(claims[i].src)])
  /\ rx' = Tail(rx)
  /\ UNCHANGED <<vd, started, busVars>>

\* Product information: only the packet count of its source is told apart.
HandleInfo ==
  /\ rx # <<>> /\ Head(rx).kind = "info"
  /\ reg' = RecordPacket(reg, Head(rx).src)
  /\ rx' = Tail(rx)
  /\ UNCHANGED <<vd, tx, started, dropped, busVars>>

Lplex == HandleClaim \/ HandleData \/ HandleRequest \/ HandleInfo

ANext ==
  \/ StartAfterDiscovery \/ Heartbeat \/ Expire \/ Lplex \/ Transmit
  \/ \E p \in Peers : PeerActs(p) \/ PeerStarts(p)

ASpec == AInit /\ [][ANext]_avars

\* Broker, CAN writer and the start goroutine run; peers answer.
AFairSpec ==
  /\ ASpec
  /\ WF_avars(StartAfterDiscovery) /\ WF_avars(Lplex) /\ WF_avars(Transmit)
  /\ \A p \in Peers : WF_avars(PeerActs(p))
-----------------------------------------------------------------------------
(* Properties *)

\* Two virtual devices never use one address, whatever echoes, conflicts and
\* expiries happen between their claims (findFreeAddress under the lock).
OwnAddressesDistinct ==
  \A d, e \in Virtual : (d # e /\ Active(d) /\ Active(e)) => vd[d].source # vd[e].source

\* When the bus is quiet, no virtual device uses the address of a peer with a
\* lower NAME, although it chooses from a registry that lags behind the bus and
\* forgets idle devices, unless a claim was dropped on the full channel.
NoConflictAtRest ==
  (~dropped /\ tx = <<>> /\ rx = <<>> /\ \A p \in Peers : owes[p] = "nothing") =>
    \A d \in Virtual, p \in Peers : (Active(d) /\ paddr[p] = vd[d].source) => d < p

\* A claim is settled: the echo makes it held, or a conflict moves the device or
\* ends in cannot claim, unless the claim was dropped on the full channel.
ClaimSettles ==
  \A d \in Virtual : (vd[d].state = "inprogress") ~> (vd[d].state \in {"held", "cannot"} \/ dropped)
=============================================================================
