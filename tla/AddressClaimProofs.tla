------------------------- MODULE AddressClaimProofs -------------------------
(***************************************************************************)
(* Address claiming (virtual_device.go, devices.go, handleFrame) for every *)
(* number of virtual and real devices, addresses, and queue capacity: our  *)
(* own devices never share an address, and no conflict with a device that  *)
(* wins it is left unsettled when the bus is quiet.                        *)
(***************************************************************************)
EXTENDS AddressClaim, FiniteSetTheorems, WellFoundedInduction, TLAPS

-----------------------------------------------------------------------------
(* Numbers *)

\* Among the numbers up to a bound there is a first one that misbehaves, if any
\* does: induction over an index, for a set instead of a predicate.
LEMMA FirstBad ==
  ASSUME NEW k \in Nat, NEW B, B \subseteq 0..k, B # {}
  PROVE  \E m \in B : m = 0 \/ (m - 1 \in 0..k /\ m - 1 \notin B)
<1>1. B \subseteq Nat
  OBVIOUS
<1>2. PICK m \in B : \A y \in B : ~(<<y, m>> \in OpToRel(<, Nat))
  BY <1>1, WFMin, NatLessThanWellFounded
<1>3. \A y \in B : ~(y < m)
  BY <1>1, <1>2 DEF OpToRel
<1>4. m \in 0..k
  OBVIOUS
<1>5. m - 1 \notin B
  BY <1>3, <1>4
<1> QED
  BY <1>4, <1>5

\* findFreeAddress counts down from the highest address: a nonempty set of
\* addresses has a highest one.
LEMMA HighestExists ==
  ASSUME NEW S, S \subseteq Addrs, S # {}
  PROVE  Highest(S) \in S
<1> DEFINE T == {MaxAddr - n : n \in S}
<1>a. MaxAddr \in Nat /\ \A n \in S : n \in Nat /\ n <= MaxAddr /\ MaxAddr - n \in Nat
  BY ClaimAssumption DEF Addrs
<1>1. T \subseteq Nat /\ T # {}
  BY <1>a
<1>2. PICK t \in T : \A u \in T : ~(<<u, t>> \in OpToRel(<, Nat))
  BY <1>1, WFMin, NatLessThanWellFounded
<1>3. \A u \in T : ~(u < t)
  BY <1>1, <1>2 DEF OpToRel
<1>4. PICK m \in S : t = MaxAddr - m
  OBVIOUS
<1>5. \A n \in S : MaxAddr - n \in T /\ ~(MaxAddr - n < MaxAddr - m)
  BY <1>3, <1>4
<1>6. \A n \in S : n <= m
  BY <1>5, <1>a
<1> QED
  BY <1>6 DEF Highest
-----------------------------------------------------------------------------
(* The virtual devices' addresses *)

States == {"idle", "inprogress", "held", "cannot"}

\* Active, of a given table of devices.
ActiveIn(v, d) == v[d].state \in {"inprogress", "held"}

\* A table of devices in order: the active ones have addresses of the bus, and no
\* two of them the same.
GoodTable(v) ==
  /\ v \in [Virtual -> [state : States, source : Nat]]
  /\ \A d \in Virtual : ActiveIn(v, d) => v[d].source \in Addrs
  /\ \A d, e \in Virtual : (d # e /\ ActiveIn(v, d) /\ ActiveIn(v, e)) => v[d].source # v[e].source

\* The new address of claimForDevice is free of every other virtual device.
LEMMA ClaimForGood ==
  ASSUME NEW v, GoodTable(v), NEW r, NEW d
  PROVE  GoodTable(ClaimFor(v, r, d))
<1> DEFINE w == ClaimFor(v, r, d)
<1>1. CASE Free(v, r) = {}
  <2>1. w = [v EXCEPT ![d] = [state |-> "cannot", source |-> Null]]
    BY <1>1 DEF ClaimFor
  <2>2. [state |-> "cannot", source |-> Null] \in [state : States, source : Nat]
    BY DEF States, Null
  <2>3. w \in [Virtual -> [state : States, source : Nat]]
    BY <2>1, <2>2 DEF GoodTable
  <2>4. \A e \in Virtual : ActiveIn(w, e) => e # d /\ w[e] = v[e] /\ ActiveIn(v, e)
    BY <2>1 DEF GoodTable, ActiveIn
  <2> QED
    BY <2>3, <2>4 DEF GoodTable
<1>2. CASE Free(v, r) # {}
  <2> DEFINE h == Highest(Free(v, r))
  <2>1. w = [v EXCEPT ![d] = [state |-> "inprogress", source |-> h]]
    BY <1>2 DEF ClaimFor
  <2>2. h \in Free(v, r)
    BY <1>2, HighestExists DEF Free
  <2>3. h \in Addrs /\ h \notin Taken(v, r)
    BY <2>2 DEF Free
  <2>4. h \in Nat
    BY <2>3, ClaimAssumption DEF Addrs
  <2>5. \A e \in Virtual : ActiveIn(v, e) => v[e].source # h
    BY <2>3 DEF Taken, ActiveIn
  <2> HIDE DEF h
  <2>6. [state |-> "inprogress", source |-> h] \in [state : States, source : Nat]
    BY <2>4 DEF States
  <2>7. w \in [Virtual -> [state : States, source : Nat]]
    BY <2>1, <2>6 DEF GoodTable
  <2>8. \A e \in Virtual : e # d => w[e] = v[e]
    BY <2>1 DEF GoodTable
  <2>9. d \in Virtual => w[d].source = h
    BY <2>1 DEF GoodTable
  <2> HIDE DEF w
  <2>10. \A e \in Virtual : e # d => (ActiveIn(w, e) <=> ActiveIn(v, e)) /\ w[e].source = v[e].source
    BY <2>8 DEF ActiveIn
  <2>11. \A e \in Virtual : ActiveIn(w, e) => w[e].source \in Addrs
    BY <2>3, <2>9, <2>10 DEF GoodTable
  <2>12. ASSUME NEW e \in Virtual, NEW g \in Virtual, e # g, ActiveIn(w, e), ActiveIn(w, g)
         PROVE  w[e].source # w[g].source
    <3>1. CASE e = d
      BY <3>1, <2>5, <2>9, <2>10, <2>12
    <3>2. CASE g = d
      BY <3>2, <2>5, <2>9, <2>10, <2>12
    <3>3. CASE e # d /\ g # d
      BY <3>3, <2>10, <2>12 DEF GoodTable
    <3> QED
      BY <3>1, <3>2, <3>3
  <2>13. GoodTable(w)
    BY <2>7, <2>11, <2>12 DEF GoodTable
  <2> QED
    BY <2>13 DEF w
<1> QED
  BY <1>1, <1>2

\* The echo of a claim changes the state of the device, not its address.
LEMMA EchoGood ==
  ASSUME GoodTable(vd), NEW d \in Virtual, Active(d)
  PROVE  GoodTable([vd EXCEPT ![d].state = "held"])
<1> DEFINE w == [vd EXCEPT ![d].state = "held"]
<1>1. w \in [Virtual -> [state : States, source : Nat]]
  BY DEF GoodTable, States
<1>2. \A e \in Virtual : w[e].source = vd[e].source /\ (ActiveIn(w, e) <=> ActiveIn(vd, e))
  BY DEF GoodTable, ActiveIn, Active
<1> HIDE DEF w
<1>3. GoodTable(w)
  BY <1>1, <1>2 DEF GoodTable
<1> QED
  BY <1>3 DEF w
-----------------------------------------------------------------------------
(* StartAfterDiscovery: the loop over the devices *)

\* The tables of the first n rounds of the loop.
LoopRun(g, n) ==
  g = [i \in 0..n |-> IF i = 0 THEN vd ELSE ClaimFor(g[i - 1], reg, Nth(Virtual, i))]

\* One more device: a run of the loop can be extended.
LEMMA LoopExtends ==
  ASSUME NEW n \in Nat, NEW g, LoopRun(g, n)
  PROVE  \E h : LoopRun(h, n + 1)
<1> DEFINE last == ClaimFor(g[n], reg, Nth(Virtual, n + 1))
           h == [i \in 0..(n + 1) |-> IF i = n + 1 THEN last ELSE g[i]]
<1>1. \A i \in 0..n : g[i] = IF i = 0 THEN vd ELSE ClaimFor(g[i - 1], reg, Nth(Virtual, i))
  BY DEF LoopRun
<1> HIDE DEF last
<1>5. ASSUME NEW i \in 0..(n + 1)
      PROVE  h[i] = IF i = 0 THEN vd ELSE ClaimFor(h[i - 1], reg, Nth(Virtual, i))
  <2>1. CASE i = n + 1
    <3>1. h[i] = last /\ h[i - 1] = g[n] /\ i # 0
      BY <2>1
    <3> QED
      BY <2>1, <3>1 DEF last
  <2>2. CASE i # n + 1
    <3>1. i \in 0..n /\ h[i] = g[i]
      BY <2>2
    <3>2. CASE i = 0
      BY <1>1, <3>1, <3>2
    <3>3. CASE i # 0
      <4>1. h[i - 1] = g[i - 1]
        BY <3>1, <3>3
      <4> QED
        BY <1>1, <3>1, <3>3, <4>1
    <3> QED
      BY <3>2, <3>3
  <2> QED
    BY <2>1, <2>2
<1>6. h = [i \in 0..(n + 1) |-> IF i = 0 THEN vd ELSE ClaimFor(h[i - 1], reg, Nth(Virtual, i))]
  <2> DEFINE F(i) == IF i = 0 THEN vd ELSE ClaimFor(h[i - 1], reg, Nth(Virtual, i))
  <2>1. \A i \in 0..(n + 1) : h[i] = F(i)
    BY <1>5
  <2>2. h = [i \in 0..(n + 1) |-> h[i]]
    OBVIOUS
  <2> HIDE DEF F, h
  <2>3. h = [i \in 0..(n + 1) |-> F(i)]
    BY <2>1, <2>2
  <2> QED
    BY <2>3 DEF F
<1> HIDE DEF h
<1> QED
  BY <1>6 DEF LoopRun

\* So the rounds of the loop over all devices are well defined.
LEMMA ClaimAllDefined ==
  /\ Cardinality(Virtual) \in Nat
  /\ ClaimAll[0] = vd
  /\ \A i \in 1..Cardinality(Virtual) :
       ClaimAll[i] = ClaimFor(ClaimAll[i - 1], reg, Nth(Virtual, i))
<1> DEFINE n == Cardinality(Virtual)
           B == {i \in 0..n : ~\E g : LoopRun(g, i)}
<1>1. n \in Nat
  BY ClaimAssumption, FS_CardinalityType
<1> HIDE DEF n
<1>2. LoopRun([i \in 0..0 |-> vd], 0)
  <2> DEFINE g == [i \in 0..0 |-> vd]
  <2>1. \A i \in 0..0 : i = 0
    OBVIOUS
  <2>2. g = [i \in 0..0 |-> IF i = 0 THEN vd ELSE ClaimFor(g[i - 1], reg, Nth(Virtual, i))]
    BY <2>1
  <2> HIDE DEF g
  <2>3. LoopRun(g, 0)
    BY <2>2 DEF LoopRun
  <2> QED
    BY <2>3 DEF g
<1>3. B = {}
  <2> SUFFICES ASSUME B # {} PROVE FALSE
    OBVIOUS
  <2>1. B \subseteq 0..n
    OBVIOUS
  <2>2. PICK m \in B : m = 0 \/ (m - 1 \in 0..n /\ m - 1 \notin B)
    BY <1>1, <2>1, FirstBad
  <2>3. m # 0
    BY <1>2
  <2>4. m - 1 \in Nat /\ (m - 1) + 1 = m
    BY <2>1, <2>2, <2>3, <1>1
  <2>5. PICK g : LoopRun(g, m - 1)
    BY <2>2, <2>3
  <2>6. \E h : LoopRun(h, (m - 1) + 1)
    BY <2>4, <2>5, LoopExtends
  <2> QED
    BY <2>2, <2>4, <2>6
<1>4. n \in 0..n
  BY <1>1
<1>5. PICK g : LoopRun(g, n)
  BY <1>3, <1>4
<1>6. g = [i \in 0..n |-> IF i = 0 THEN vd ELSE ClaimFor(g[i - 1], reg, Nth(Virtual, i))]
  BY <1>5 DEF LoopRun
<1>7. ClaimAll = [i \in 0..n |-> IF i = 0 THEN vd ELSE ClaimFor(ClaimAll[i - 1], reg, Nth(Virtual, i))]
  BY <1>6 DEF ClaimAll, n
<1>8. \A i \in 0..n :
        ClaimAll[i] = IF i = 0 THEN vd ELSE ClaimFor(ClaimAll[i - 1], reg, Nth(Virtual, i))
  BY <1>7
<1>9. 0 \in 0..n /\ \A i \in 1..n : i \in 0..n /\ i # 0
  BY <1>1
<1> QED
  BY <1>1, <1>8, <1>9 DEF n

\* The loop ends with a table in order.
LEMMA ClaimAllGood ==
  ASSUME GoodTable(vd)
  PROVE  GoodTable(ClaimAll[Cardinality(Virtual)])
<1> DEFINE n == Cardinality(Virtual)
           B == {i \in 0..n : ~GoodTable(ClaimAll[i])}
<1>1. n \in Nat
  BY ClaimAllDefined
<1>2. \A i \in 1..n : GoodTable(ClaimAll[i - 1]) => GoodTable(ClaimAll[i])
  BY ClaimAllDefined, ClaimForGood
<1>3. 0 \notin B
  BY ClaimAllDefined
<1> HIDE DEF n
<1>4. B = {}
  <2> SUFFICES ASSUME B # {} PROVE FALSE
    OBVIOUS
  <2>1. PICK m \in B : m = 0 \/ (m - 1 \in 0..n /\ m - 1 \notin B)
    BY <1>1, FirstBad
  <2>2. m \in 1..n /\ m - 1 \in 0..n /\ GoodTable(ClaimAll[m - 1])
    BY <1>1, <1>3, <2>1
  <2> QED
    BY <1>2, <2>1, <2>2
<1>5. n \in 0..n
  BY <1>1
<1> QED
  BY <1>4, <1>5 DEF n
-----------------------------------------------------------------------------
(* Our own addresses *)

\* handleFrame on a claim, as far as the devices are concerned: nothing, an echo,
\* or a device that lost takes another address.
LEMMA HandleClaimGood ==
  ASSUME GoodTable(vd), HandleClaim
  PROVE  GoodTable(vd')
<1> DEFINE f == Head(rx)
           r == RecordPacket(reg, f.src)
           here == {d \in Virtual : Active(d) /\ vd[d].source = f.src}
<1>1. vd' = vd \/ \E d \in here : BusClaim(d, r, f)
  BY DEF HandleClaim
<1>2. CASE \E d \in here : BusClaim(d, r, f)
  <2>1. PICK d \in here : BusClaim(d, r, f)
    BY <1>2
  <2>2. d \in Virtual /\ Active(d)
    OBVIOUS
  <2> HIDE DEF r, f, here
  <2>3. vd' = vd \/ vd' = [vd EXCEPT ![d].state = "held"] \/ vd' = ClaimFor(vd, r, d)
    BY <2>1 DEF BusClaim
  <2> QED
    BY <2>2, <2>3, EchoGood, ClaimForGood
<1> QED
  BY <1>1, <1>2

\* GoodTable(vd) is inductive.
LEMMA TableInductive == GoodTable(vd) /\ [ANext]_avars => GoodTable(vd')
<1> SUFFICES ASSUME GoodTable(vd), [ANext]_avars PROVE GoodTable(vd')
  OBVIOUS
<1>1. CASE StartAfterDiscovery
  BY <1>1, ClaimAllGood DEF StartAfterDiscovery
<1>2. CASE HandleClaim
  BY <1>2, HandleClaimGood
<1>3. CASE Heartbeat \/ Expire \/ HandleData \/ HandleRequest \/ HandleInfo \/ Transmit \/ UNCHANGED avars
  BY <1>3 DEF Heartbeat, Expire, HandleData, HandleRequest, HandleInfo, Transmit, avars
<1>4. CASE \E p \in Peers : PeerActs(p) \/ PeerStarts(p)
  BY <1>4 DEF PeerActs, PeerStarts, PeerClaims
<1> QED
  BY <1>1, <1>2, <1>3, <1>4 DEF ANext, Lplex

\* Before StartAfterDiscovery no virtual device is active.
LEMMA TableInit == AInit => GoodTable(vd)
<1> SUFFICES ASSUME AInit PROVE GoodTable(vd)
  OBVIOUS
<1>1. vd = [d \in Virtual |-> [state |-> "idle", source |-> 0]]
  BY DEF AInit
<1>2. \A d \in Virtual : ~ActiveIn(vd, d)
  BY <1>1 DEF ActiveIn
<1>3. vd \in [Virtual -> [state : States, source : Nat]]
  BY <1>1 DEF States
<1> QED
  BY <1>2, <1>3 DEF GoodTable

\* VirtualDeviceManager: for any number of devices and addresses, two virtual
\* devices never use one address.
THEOREM OwnAddressesNeverClash == ASpec => []OwnAddressesDistinct
<1>1. GoodTable(vd) => OwnAddressesDistinct
  BY DEF GoodTable, OwnAddressesDistinct, Active, ActiveIn
<1>2. GoodTable(vd) /\ [ANext]_avars => GoodTable(vd)'
  BY TableInductive
<1> QED
  BY <1>1, <1>2, TableInit, PTL DEF ASpec
-----------------------------------------------------------------------------
(* Frames in queues *)

IsSeq(s) == \E S : s \in Seq(S)

\* The frame f is somewhere in the queue s.
In(f, s) == \E i \in 1..Len(s) : s[i] = f

\* What a channel send does to a queue.
LEMMA InAppend ==
  ASSUME NEW s, IsSeq(s), NEW f
  PROVE  /\ IsSeq(Append(s, f))
         /\ In(f, Append(s, f))
         /\ \A g : In(g, s) => In(g, Append(s, f))
<1>1. PICK S : s \in Seq(S)
  BY DEF IsSeq
<1> DEFINE T == S \union {f}
           u == Append(s, f)
<1>2. s \in Seq(T) /\ f \in T
  BY <1>1
<1>3. u \in Seq(T) /\ Len(u) = Len(s) + 1 /\ u[Len(s) + 1] = f /\ Len(s) \in Nat
      /\ \A i \in 1..Len(s) : u[i] = s[i]
  BY <1>2
<1> HIDE DEF u, T
<1>4. IsSeq(u)
  BY <1>3 DEF IsSeq
<1>5. In(f, u)
  BY <1>3 DEF In
<1>6. \A g : In(g, s) => In(g, u)
  BY <1>3 DEF In
<1> QED
  BY <1>4, <1>5, <1>6 DEF u

\* A channel receive takes the first frame and leaves the others.
LEMMA InTail ==
  ASSUME NEW s, IsSeq(s), s # <<>>
  PROVE  /\ IsSeq(Tail(s))
         /\ \A g : In(g, s) => g = Head(s) \/ In(g, Tail(s))
<1>1. PICK S : s \in Seq(S)
  BY DEF IsSeq
<1> DEFINE u == Tail(s)
<1>2. u \in Seq(S) /\ Len(u) = Len(s) - 1 /\ Len(s) \in Nat /\ Len(s) > 0 /\ Head(s) = s[1]
      /\ \A i \in 1..Len(u) : u[i] = s[i + 1]
  BY <1>1
<1> HIDE DEF u
<1>3. ASSUME NEW g, In(g, s) PROVE g = Head(s) \/ In(g, u)
  <2>1. PICK i \in 1..Len(s) : s[i] = g
    BY <1>3 DEF In
  <2>2. CASE i = 1
    BY <1>2, <2>1, <2>2
  <2>3. CASE i # 1
    <3>1. i - 1 \in 1..Len(u) /\ u[i - 1] = g
      BY <1>2, <2>1, <2>3
    <3> QED
      BY <3>1 DEF In
  <2> QED
    BY <2>2, <2>3
<1>4. IsSeq(u)
  BY <1>2 DEF IsSeq
<1> QED
  BY <1>3, <1>4 DEF u

\* Several sends, one after the other.
LEMMA InConcat ==
  ASSUME NEW s, IsSeq(s), NEW t, IsSeq(t)
  PROVE  /\ IsSeq(s \o t)
         /\ \A g : In(g, s) \/ In(g, t) => In(g, s \o t)
<1>1. PICK S : s \in Seq(S)
  BY DEF IsSeq
<1>2. PICK T : t \in Seq(T)
  BY DEF IsSeq
<1> DEFINE U == S \union T
           u == s \o t
<1>3. s \in Seq(U) /\ t \in Seq(U)
  BY <1>1, <1>2
<1> HIDE DEF U
<1>4. u \in Seq(U) /\ Len(u) = Len(s) + Len(t) /\ Len(s) \in Nat /\ Len(t) \in Nat
  BY <1>3
<1>5. /\ \A i \in 1..Len(s) : u[i] = s[i]
      /\ \A i \in 1..Len(t) : u[Len(s) + i] = t[i]
  BY <1>3
<1> HIDE DEF u
<1>6. IsSeq(u)
  BY <1>4 DEF IsSeq
<1>7. \A g : In(g, s) => In(g, u)
  BY <1>4, <1>5 DEF In
<1>8. ASSUME NEW g, In(g, t) PROVE In(g, u)
  <2>1. PICK i \in 1..Len(t) : t[i] = g
    BY <1>8 DEF In
  <2>2. Len(s) + i \in 1..Len(u) /\ u[Len(s) + i] = g
    BY <1>4, <1>5, <2>1
  <2> QED
    BY <2>2 DEF In
<1> QED
  BY <1>6, <1>7, <1>8 DEF u

\* queueTx: a frame is in the transmit queue afterwards, or one was dropped.
LEMMA QueueEffect ==
  ASSUME IsSeq(tx), dropped \in BOOLEAN, NEW fs, IsSeq(fs), Queue(fs)
  PROVE  /\ IsSeq(tx')
         /\ dropped' \in BOOLEAN
         /\ ~dropped' => ~dropped /\ \A g : In(g, tx) \/ In(g, fs) => In(g, tx')
<1> DEFINE all == tx \o fs
<1>1. IsSeq(all) /\ \A g : In(g, tx) \/ In(g, fs) => In(g, all)
  BY InConcat
<1>2. /\ tx' = SubSeq(all, 1, IF Len(all) > TxCap THEN TxCap ELSE Len(all))
      /\ dropped' = (dropped \/ Len(all) > TxCap)
  BY DEF Queue
<1> HIDE DEF all
<1>3. PICK S : all \in Seq(S)
  BY <1>1 DEF IsSeq
<1>4. tx' \in Seq(S)
  BY <1>2, <1>3, ClaimAssumption
<1>5. ~(Len(all) > TxCap) => tx' = all
  BY <1>2, <1>3
<1> QED
  BY <1>1, <1>2, <1>4, <1>5 DEF IsSeq
-----------------------------------------------------------------------------
(* The order of the slice *)

\* Two devices of a set have different places in it.
LEMMA PlacesDiffer ==
  ASSUME NEW S, S \subseteq Virtual, NEW d \in S, NEW c \in S,
         Cardinality({e \in S : e <= d}) = Cardinality({e \in S : e <= c})
  PROVE  c = d
<1>1. ASSUME NEW x \in S, NEW y \in S, x < y,
             Cardinality({e \in S : e <= x}) = Cardinality({e \in S : e <= y})
      PROVE  FALSE
  <2> DEFINE X == {e \in S : e <= x}
             Y == {e \in S : e <= y}
  <2>1. \A e \in S : e \in Nat
    BY ClaimAssumption
  <2>2. X \in SUBSET Y /\ y \in Y /\ y \notin X
    BY <1>1, <2>1
  <2>3. IsFiniteSet(Y)
    BY ClaimAssumption, FS_Subset
  <2>4. Cardinality(X) = Cardinality(Y)
    BY <1>1
  <2> HIDE DEF X, Y
  <2> QED
    BY <2>2, <2>3, <2>4, FS_Subset
<1>2. d \in Nat /\ c \in Nat
  BY ClaimAssumption
<1>3. ~(d < c) /\ ~(c < d)
  BY <1>1
<1> QED
  BY <1>2, <1>3

\* The loop of Heartbeat, HandleISORequest and StartAfterDiscovery misses nobody.
LEMMA EverybodyClaims ==
  ASSUME NEW v, NEW S, S \subseteq Virtual
  PROVE  /\ IsSeq(ClaimsOf(v, S))
         /\ \A d \in S : In(Claim(d, v[d].source), ClaimsOf(v, S))
<1> DEFINE n == Cardinality(S)
           F(i) == Claim(Nth(S, i), v[Nth(S, i)].source)
           q == [i \in 1..n |-> F(i)]
<1>1. IsFiniteSet(S) /\ n \in Nat
  BY ClaimAssumption, FS_Subset, FS_CardinalityType
<1>2. ClaimsOf(v, S) = q
  BY DEF ClaimsOf
<1>3. ASSUME NEW d \in S
      PROVE  \E i \in 1..n : Nth(S, i) = d
  <2> DEFINE L == {e \in S : e <= d}
             i == Cardinality(L)
  <2>1. d \in L /\ L \in SUBSET S
    BY ClaimAssumption
  <2>2. IsFiniteSet(L) /\ i <= n
    BY <1>1, <2>1, FS_Subset
  <2>3. i \in Nat /\ i # 0
    BY <2>1, <2>2, FS_CardinalityType, FS_EmptySet
  <2>4. i \in 1..n
    BY <1>1, <2>2, <2>3
  <2>5. Nth(S, i) \in S /\ Cardinality({e \in S : e <= Nth(S, i)}) = i
    BY DEF Nth
  <2>6. Nth(S, i) = d
    BY <2>5, PlacesDiffer
  <2> QED
    BY <2>4, <2>6
<1> HIDE DEF n, F
<1>4. q \in Seq({F(i) : i \in 1..n}) /\ Len(q) = n
  BY <1>1
<1>5. IsSeq(q)
  BY <1>4 DEF IsSeq
<1>6. ASSUME NEW d \in S PROVE In(Claim(d, v[d].source), q)
  <2>1. PICK i \in 1..n : Nth(S, i) = d
    BY <1>3
  <2>2. q[i] = Claim(d, v[d].source)
    BY <2>1 DEF F
  <2> QED
    BY <1>4, <2>2 DEF In
<1> QED
  BY <1>2, <1>5, <1>6
-----------------------------------------------------------------------------
(* Conflicts *)

\* A virtual device uses the address of a peer that wins it.
Contest(d, p) == Active(d) /\ paddr[p] = vd[d].source /\ p < d

\* The conflict is known to somebody: the peer's claim is still to be handled, or
\* ours is still to be sent, or the peer is about to act.
Settling(d, p) ==
  \/ In(Claim(p, vd[d].source), rx)
  \/ In(Claim(d, vd[d].source), tx)
  \/ owes[p] # "nothing"

\* At rest nothing is on its way; so what has to be kept up is that no conflict
\* is ever forgotten on the way there.
RestInv ==
  /\ IsSeq(tx) /\ IsSeq(rx) /\ dropped \in BOOLEAN
  /\ DOMAIN paddr = Peers
  /\ ~dropped => \A d \in Virtual, p \in Peers : Contest(d, p) => Settling(d, p)

\* A peer that has something to do about its address never comes to owe nothing
\* by what it hears.
LEMMA ReactionKeeps ==
  ASSUME NEW p, NEW f, owes[p] # "nothing"
  PROVE  Reaction(p, f) # "nothing"
BY DEF Reaction

\* A step of lplex forgets no conflict if the devices that it moves claim their
\* new addresses, and so does every device whose opponent's claim it takes.
LEMMA LplexStep ==
  ASSUME RestInv, NEW fs, IsSeq(fs), Queue(fs), UNCHANGED <<paddr, owes>>, IsSeq(rx'),
         \A d \in Virtual :
           Active(d)' => (Active(d) /\ vd'[d].source = vd[d].source) \/ In(Claim(d, vd'[d].source), fs),
         \A d \in Virtual, p \in Peers :
           Contest(d, p) /\ In(Claim(p, vd[d].source), rx)
             => In(Claim(p, vd[d].source), rx') \/ In(Claim(d, vd'[d].source), fs)
  PROVE  RestInv'
<1>1. /\ IsSeq(tx') /\ dropped' \in BOOLEAN
      /\ ~dropped' => ~dropped /\ \A g : In(g, tx) \/ In(g, fs) => In(g, tx')
  BY QueueEffect DEF RestInv
<1>2. ASSUME ~dropped', NEW d \in Virtual, NEW p \in Peers, Contest(d, p)'
      PROVE  Settling(d, p)'
  <2>1. CASE In(Claim(d, vd'[d].source), fs)
    <3>1. In(Claim(d, vd'[d].source), tx')
      BY <1>1, <1>2, <2>1
    <3> QED
      BY <3>1 DEF Settling
  <2>2. CASE ~In(Claim(d, vd'[d].source), fs)
    <3>0. Active(d)' /\ paddr[p] = vd'[d].source /\ p < d
      BY <1>2 DEF Contest
    <3>1. Active(d) /\ vd'[d].source = vd[d].source
      BY <3>0, <2>2
    <3>2. Contest(d, p)
      BY <3>0, <3>1 DEF Contest
    <3>3. Settling(d, p)
      BY <1>1, <1>2, <3>2 DEF RestInv
    <3>4. In(Claim(p, vd[d].source), rx) => In(Claim(p, vd'[d].source), rx')
      BY <3>1, <3>2, <2>2
    <3>5. In(Claim(d, vd[d].source), tx) => In(Claim(d, vd'[d].source), tx')
      BY <1>1, <1>2, <3>1
    <3> QED
      BY <3>3, <3>4, <3>5 DEF Settling
  <2> QED
    BY <2>1, <2>2
<1> QED
  BY <1>1, <1>2 DEF RestInv

\* A frame of a peer, or one of ours, comes onto the bus.
LEMMA BusStep ==
  ASSUME RestInv, NEW f, OnBus(f), IsSeq(tx'), vd' = vd, dropped' = dropped, DOMAIN paddr' = Peers,
         \A p \in Peers : owes[p] # "nothing" => owes'[p] # "nothing" \/ f = Claim(p, paddr'[p]),
         \A p \in Peers : paddr'[p] = paddr[p] \/ f = Claim(p, paddr'[p]),
         \A g : In(g, tx) => In(g, tx') \/ g = f,
         \A d \in Virtual, p \in Peers :
           Contest(d, p) /\ f = Claim(d, vd[d].source) => owes'[p] # "nothing"
  PROVE  RestInv'
<1>1. IsSeq(rx') /\ In(f, rx') /\ \A g : In(g, rx) => In(g, rx')
  BY InAppend DEF OnBus, RestInv
<1>2. ASSUME ~dropped', NEW d \in Virtual, NEW p \in Peers, Contest(d, p)'
      PROVE  Settling(d, p)'
  <2>0. Active(d) /\ paddr'[p] = vd[d].source /\ p < d
    BY <1>2 DEF Contest, Active
  <2>1. CASE f = Claim(p, paddr'[p])
    <3>1. In(Claim(p, vd'[d].source), rx')
      BY <1>1, <2>0, <2>1
    <3> QED
      BY <3>1 DEF Settling
  <2>2. CASE f # Claim(p, paddr'[p])
    <3>1. Contest(d, p)
      BY <2>0, <2>2 DEF Contest
    <3>2. Settling(d, p)
      BY <1>2, <3>1 DEF RestInv
    <3>3. CASE In(Claim(p, vd[d].source), rx)
      <4>1. In(Claim(p, vd'[d].source), rx')
        BY <1>1, <3>3
      <4> QED
        BY <4>1 DEF Settling
    <3>4. CASE owes[p] # "nothing"
      BY <2>2, <3>4 DEF Settling
    <3>5. CASE In(Claim(d, vd[d].source), tx)
      <4>1. In(Claim(d, vd[d].source), tx') \/ Claim(d, vd[d].source) = f
        BY <3>5
      <4>2. In(Claim(d, vd'[d].source), tx') \/ owes'[p] # "nothing"
        BY <3>1, <4>1
      <4> QED
        BY <4>2 DEF Settling
    <3> QED
      BY <3>2, <3>3, <3>4, <3>5 DEF Settling
  <2> QED
    BY <2>1, <2>2
<1> QED
  BY <1>1, <1>2 DEF RestInv

\* A peer takes an address, or gives its address up.
LEMMA PeerClaimsKeeps ==
  ASSUME RestInv, NEW p \in Peers, NEW a, PeerClaims(p, a)
  PROVE  RestInv'
<1> DEFINE f == Claim(p, a)
<1>1. OnBus(f) /\ vd' = vd /\ tx' = tx /\ dropped' = dropped
  BY DEF PeerClaims
<1>2. paddr' = [paddr EXCEPT ![p] = a]
  BY DEF PeerClaims
<1>3. DOMAIN paddr' = Peers /\ paddr'[p] = a /\ \A q \in Peers : q # p => paddr'[q] = paddr[q]
  BY <1>2 DEF RestInv
<1>4. owes' = [q \in Peers |-> IF q = p THEN "nothing" ELSE Reaction(q, f)]
  BY DEF PeerClaims
<1>5. \A q \in Peers : owes[q] # "nothing" => owes'[q] # "nothing" \/ f = Claim(q, paddr'[q])
  BY <1>3, <1>4, ReactionKeeps
<1>6. \A q \in Peers : paddr'[q] = paddr[q] \/ f = Claim(q, paddr'[q])
  BY <1>3
<1>7. \A d \in Virtual : f # Claim(d, vd[d].source)
  BY ClaimAssumption DEF Claim
<1>8. IsSeq(tx')
  BY <1>1 DEF RestInv
<1> HIDE DEF f
<1> QED
  BY <1>1, <1>3, <1>5, <1>6, <1>7, <1>8, BusStep

\* The CAN writer puts our frame on the bus: a peer whose address we claim and
\* that wins it will defend it.
LEMMA TransmitKeeps ==
  ASSUME RestInv, GoodTable(vd), Transmit
  PROVE  RestInv'
<1> DEFINE f == Head(tx)
<1>1. /\ OnBus(f) /\ tx' = Tail(tx) /\ tx # <<>> /\ vd' = vd /\ dropped' = dropped /\ paddr' = paddr
      /\ owes' = [p \in Peers |-> Reaction(p, f)]
  BY DEF Transmit
<1>2. IsSeq(tx') /\ \A g : In(g, tx) => In(g, tx') \/ g = f
  BY <1>1, InTail DEF RestInv
<1>3. \A p \in Peers : owes[p] # "nothing" => owes'[p] # "nothing"
  BY <1>1, ReactionKeeps
<1> HIDE DEF f
<1>4. ASSUME NEW d \in Virtual, NEW p \in Peers, Contest(d, p), f = Claim(d, vd[d].source)
      PROVE  owes'[p] # "nothing"
  <2>1. vd[d].source \in Addrs
    BY <1>4 DEF Contest, GoodTable, Active, ActiveIn
  <2>2. paddr[p] # Null
    BY <1>4, <2>1, ClaimAssumption DEF Contest, Addrs, Null
  <2>3. f.kind = "claim" /\ f.src = paddr[p] /\ f.name = d
    BY <1>4 DEF Claim, Contest
  <2>4. d # p
    BY ClaimAssumption
  <2>5. Reaction(p, f) \in {"move", "claim"}
    BY <2>2, <2>3, <2>4 DEF Reaction
  <2> QED
    BY <1>1, <2>5
<1>5. DOMAIN paddr' = Peers
  BY <1>1 DEF RestInv
<1> QED
  BY <1>1, <1>2, <1>3, <1>4, <1>5, BusStep

\* One frame, no frame, or one before others.
LEMMA SmallSeqs ==
  /\ IsSeq(<<>>)
  /\ \A x : IsSeq(<<x>>) /\ In(x, <<x>>)
  /\ \A r, f : IsSeq(AskInfo(r, f))
<1>1. IsSeq(<<>>)
  <2>1. <<>> \in Seq({})
    OBVIOUS
  <2> QED
    BY <2>1 DEF IsSeq
<1>2. ASSUME NEW x PROVE IsSeq(<<x>>) /\ In(x, <<x>>)
  <2>1. <<x>> \in Seq({x}) /\ Len(<<x>>) = 1 /\ <<x>>[1] = x
    OBVIOUS
  <2>2. 1 \in 1..1
    OBVIOUS
  <2> QED
    BY <2>1, <2>2 DEF IsSeq, In
<1> QED
  BY <1>1, <1>2 DEF AskInfo

\* handleFrame on a claim: whoever is in conflict with the claimant is the one
\* device at that address, and it defends the address or moves.
LEMMA HandleClaimKeeps ==
  ASSUME RestInv, GoodTable(vd), HandleClaim
  PROVE  RestInv'
<1> DEFINE f == Head(rx)
           r == RecordPacket(reg, f.src)
           here == {d \in Virtual : Active(d) /\ vd[d].source = f.src}
<1>1. /\ rx # <<>> /\ rx' = Tail(rx) /\ UNCHANGED <<paddr, owes>>
      /\ \/ here = {} /\ vd' = vd /\ Queue(AskInfo(r, f))
         \/ \E d \in here : BusClaim(d, r, f)
  BY DEF HandleClaim, busVars
<1>2. IsSeq(rx') /\ \A g : In(g, rx) => g = f \/ In(g, rx')
  BY <1>1, InTail DEF RestInv
<1>3. \A d \in Virtual, p \in Peers :
        Contest(d, p) /\ In(Claim(p, vd[d].source), rx) /\ ~In(Claim(p, vd[d].source), rx')
          => d \in here /\ f.name = p /\ p < d
  BY <1>2 DEF Contest, Claim
<1>4. \A d, e \in here : d = e
  BY DEF GoodTable, Active, ActiveIn
<1>5. \A d \in here : d \in Virtual /\ Active(d)
  OBVIOUS
<1> HIDE DEF f, r, here
<1>6. CASE here = {} /\ vd' = vd /\ Queue(AskInfo(r, f))
  <2>1. \A d \in Virtual : Active(d)' => Active(d) /\ vd'[d].source = vd[d].source
    BY <1>6 DEF Active
  <2>2. \A d \in Virtual, p \in Peers :
          Contest(d, p) /\ In(Claim(p, vd[d].source), rx) => In(Claim(p, vd[d].source), rx')
    BY <1>3, <1>6
  <2> QED
    BY <1>1, <1>2, <1>6, <2>1, <2>2, SmallSeqs, LplexStep
<1>7. CASE \E d \in here : BusClaim(d, r, f)
  <2>1. PICK c \in here : BusClaim(c, r, f)
    BY <1>7
  <2>2. c \in Virtual /\ Active(c) /\ c \in Nat
    BY <1>5, ClaimAssumption
  <2>3. CASE f.name = c
    <3>1. vd' = [vd EXCEPT ![c].state = "held"] /\ Queue(<<>>)
      BY <2>1, <2>3 DEF BusClaim
    <3>2. \A d \in Virtual : Active(d)' => Active(d) /\ vd'[d].source = vd[d].source
      BY <2>2, <3>1 DEF Active, GoodTable
    <3>3. \A d \in Virtual, p \in Peers :
            Contest(d, p) /\ In(Claim(p, vd[d].source), rx) => In(Claim(p, vd[d].source), rx')
      BY <1>3, <2>2, <2>3, ClaimAssumption
    <3> QED
      BY <1>1, <1>2, <3>1, <3>2, <3>3, SmallSeqs, LplexStep
  <2>4. CASE f.name # c
    <3> DEFINE fs == <<Claim(c, vd'[c].source)>> \o AskInfo(r, f)
    <3>1. (vd' = vd \/ vd' = ClaimFor(vd, r, c)) /\ Queue(fs)
      BY <2>1, <2>4 DEF BusClaim
    <3>2. IsSeq(fs) /\ In(Claim(c, vd'[c].source), fs)
      BY SmallSeqs, InConcat
    <3> HIDE DEF fs
    <3>3. \A d \in Virtual : d # c => vd'[d] = vd[d]
      BY <3>1 DEF ClaimFor, GoodTable
    <3>4. \A d \in Virtual :
            Active(d)' => (Active(d) /\ vd'[d].source = vd[d].source) \/ In(Claim(d, vd'[d].source), fs)
      BY <3>2, <3>3 DEF Active
    <3>5. \A d \in Virtual, p \in Peers :
            Contest(d, p) /\ In(Claim(p, vd[d].source), rx)
              => In(Claim(p, vd[d].source), rx') \/ In(Claim(d, vd'[d].source), fs)
      BY <1>3, <1>4, <3>2
    <3> QED
      BY <1>1, <1>2, <3>1, <3>2, <3>4, <3>5, LplexStep
  <2> QED
    BY <2>3, <2>4
<1> QED
  BY <1>1, <1>6, <1>7

\* handleFrame on the other frames: none of them is a claim, and the answers only
\* make the transmit queue longer.
LEMMA OtherFrameKeeps ==
  ASSUME RestInv, HandleData \/ HandleRequest \/ HandleInfo
  PROVE  RestInv'
<1>1. /\ rx # <<>> /\ Head(rx).kind # "claim" /\ rx' = Tail(rx)
      /\ UNCHANGED <<vd, paddr, owes>>
  BY DEF HandleData, HandleRequest, HandleInfo, busVars
<1>2. IsSeq(rx') /\ \A g : In(g, rx) => g = Head(rx) \/ In(g, rx')
  BY <1>1, InTail DEF RestInv
<1>3. \A n, a : In(Claim(n, a), rx) => In(Claim(n, a), rx')
  BY <1>1, <1>2 DEF Claim
<1>4. \A d \in Virtual : Active(d)' => Active(d) /\ vd'[d].source = vd[d].source
  BY <1>1 DEF Active
<1>5. ASSUME NEW fs, IsSeq(fs), Queue(fs) PROVE RestInv'
  BY <1>1, <1>2, <1>3, <1>4, <1>5, LplexStep
<1>6. CASE HandleData
  <2> DEFINE fs == IF reg' # reg THEN <<Request(RequestSource(vd), Head(rx).src)>> ELSE <<>>
  <2>1. Queue(fs)
    BY <1>6 DEF HandleData
  <2>2. IsSeq(fs)
    BY SmallSeqs
  <2> QED
    BY <1>5, <2>1, <2>2
<1>7. CASE HandleRequest
  <2> DEFINE f == Head(rx)
             S == {d \in Virtual : Active(d) /\ f.dst \in {vd[d].source, Global}}
             claims == ClaimsOf(vd, S)
             infos == [i \in DOMAIN claims |-> Info(claims[i].src)]
  <2>1. Queue(IF f.kind = "request" THEN claims ELSE infos)
    BY <1>7 DEF HandleRequest
  <2>2. IsSeq(claims)
    BY EverybodyClaims
  <2> HIDE DEF claims
  <2>3. IsSeq(infos)
    <3>1. PICK T : claims \in Seq(T)
      BY <2>2 DEF IsSeq
    <3>2. DOMAIN claims = 1..Len(claims) /\ Len(claims) \in Nat
      BY <3>1
    <3>3. infos \in Seq({Info(claims[i].src) : i \in DOMAIN claims})
      BY <3>2
    <3> QED
      BY <3>3 DEF IsSeq
  <2> QED
    BY <1>5, <2>1, <2>2, <2>3
<1>8. CASE HandleInfo
  <2>1. tx' = tx /\ dropped' = dropped
    BY <1>8 DEF HandleInfo
  <2>2. ASSUME ~dropped', NEW d \in Virtual, NEW p \in Peers, Contest(d, p)'
        PROVE  Settling(d, p)'
    <3>1. Contest(d, p)
      BY <1>1, <2>2 DEF Contest, Active
    <3>2. Settling(d, p)
      BY <2>1, <2>2, <3>1 DEF RestInv
    <3> QED
      BY <1>1, <1>3, <2>1, <3>2 DEF Settling
  <2> QED
    BY <1>1, <1>2, <2>1, <2>2 DEF RestInv
<1> QED
  BY <1>6, <1>7, <1>8

\* StartAfterDiscovery and Heartbeat: every device that has got an address says so.
LEMMA OwnClaimsKeep ==
  ASSUME RestInv, StartAfterDiscovery \/ Heartbeat
  PROVE  RestInv'
<1>1. rx' = rx /\ IsSeq(rx') /\ UNCHANGED <<paddr, owes>>
  BY DEF StartAfterDiscovery, Heartbeat, busVars, RestInv
<1>2. CASE StartAfterDiscovery
  <2> DEFINE fs == ClaimsOf(vd', Virtual)
  <2>1. Queue(fs)
    BY <1>2 DEF StartAfterDiscovery
  <2>2. IsSeq(fs) /\ \A d \in Virtual : In(Claim(d, vd'[d].source), fs)
    BY EverybodyClaims
  <2> HIDE DEF fs
  <2> QED
    BY <1>1, <2>1, <2>2, LplexStep
<1>3. CASE Heartbeat
  <2> DEFINE fs == ClaimsOf(vd, {d \in Virtual : vd[d].state = "held"})
  <2>1. Queue(fs) /\ vd' = vd
    BY <1>3 DEF Heartbeat
  <2>2. IsSeq(fs)
    BY EverybodyClaims
  <2>3. \A d \in Virtual : Active(d)' => Active(d) /\ vd'[d].source = vd[d].source
    BY <2>1 DEF Active
  <2> HIDE DEF fs
  <2> QED
    BY <1>1, <2>1, <2>2, <2>3, LplexStep
<1> QED
  BY <1>2, <1>3

\* Data and requests of a peer change nobody's address.
LEMMA PeerKeeps ==
  ASSUME RestInv, NEW p \in Peers, PeerActs(p) \/ PeerStarts(p)
  PROVE  RestInv'
<1>1. CASE \E a : PeerClaims(p, a)
  BY <1>1, PeerClaimsKeeps
<1>2. CASE \E f \in {Data(paddr[p]), Request(paddr[p], Global)} :
             OnBus(f) /\ UNCHANGED <<vd, tx, dropped, paddr, owes>>
  <2>1. PICK f \in {Data(paddr[p]), Request(paddr[p], Global)} :
          OnBus(f) /\ UNCHANGED <<vd, tx, dropped, paddr, owes>>
    BY <1>2
  <2>2. \A d, a : f # Claim(d, a)
    BY DEF Data, Request, Claim
  <2>3. IsSeq(tx') /\ DOMAIN paddr' = Peers
    BY <2>1 DEF RestInv
  <2> QED
    BY <2>1, <2>2, <2>3, BusStep
<1> QED
  BY <1>1, <1>2 DEF PeerActs, PeerStarts

\* RestInv is inductive, given that our own addresses are distinct.
LEMMA RestInductive ==
  ASSUME RestInv, GoodTable(vd), [ANext]_avars
  PROVE  RestInv'
<1>1. CASE Expire \/ UNCHANGED avars
  <2>1. UNCHANGED <<vd, tx, rx, dropped, paddr, owes>>
    BY <1>1 DEF Expire, avars, busVars
  <2>2. \A d, p : (Contest(d, p)' <=> Contest(d, p)) /\ (Settling(d, p)' <=> Settling(d, p))
    BY <2>1 DEF Contest, Settling, Active
  <2> QED
    BY <2>1, <2>2 DEF RestInv
<1>2. CASE StartAfterDiscovery \/ Heartbeat
  BY <1>2, OwnClaimsKeep
<1>3. CASE HandleClaim
  BY <1>3, HandleClaimKeeps
<1>4. CASE HandleData \/ HandleRequest \/ HandleInfo
  BY <1>4, OtherFrameKeeps
<1>5. CASE Transmit
  BY <1>5, TransmitKeeps
<1>6. CASE \E p \in Peers : PeerActs(p) \/ PeerStarts(p)
  BY <1>6, PeerKeeps
<1> QED
  BY <1>1, <1>2, <1>3, <1>4, <1>5, <1>6 DEF ANext, Lplex

\* Address claiming as a whole: for any number of devices and addresses, when the
\* bus is quiet and the transmit queue has dropped nothing, no virtual device uses
\* the address of a peer that wins it.
THEOREM QuietBusHasNoConflict == ASpec => []NoConflictAtRest
<1> DEFINE Inv == RestInv /\ GoodTable(vd)
<1>1. AInit => Inv
  <2> SUFFICES ASSUME AInit PROVE RestInv
    BY TableInit
  <2>1. tx = <<>> /\ rx = <<>> /\ dropped = FALSE /\ DOMAIN paddr = Peers
    BY DEF AInit
  <2>2. \A d \in Virtual : ~Active(d)
    BY DEF AInit, Active
  <2> QED
    BY <2>1, <2>2, SmallSeqs DEF RestInv, Contest
<1>2. Inv /\ [ANext]_avars => Inv'
  BY RestInductive, TableInductive
<1>3. Inv => NoConflictAtRest
  <2> SUFFICES ASSUME Inv, ~dropped, tx = <<>>, rx = <<>>, \A p \in Peers : owes[p] = "nothing",
                      NEW d \in Virtual, NEW p \in Peers, Active(d), paddr[p] = vd[d].source
               PROVE  d < p
    BY DEF NoConflictAtRest
  <2>1. \A g : ~In(g, tx) /\ ~In(g, rx)
    BY DEF In
  <2>2. ~Settling(d, p)
    BY <2>1 DEF Settling
  <2>3. ~Contest(d, p)
    BY <2>2 DEF RestInv
  <2>4. ~(p < d)
    BY <2>3 DEF Contest
  <2>5. d \in Nat /\ p \in Nat /\ d # p
    BY ClaimAssumption
  <2> QED
    BY <2>4, <2>5
<1> HIDE DEF Inv
<1> QED
  BY <1>1, <1>2, <1>3, PTL DEF ASpec
=============================================================================
