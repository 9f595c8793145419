---------------------------- MODULE CloudProofs -----------------------------
(***************************************************************************)
(* The cloud's side of a boat.  Registry, for every set of NAMEs and       *)
(* addresses: what the device registries of boat and replica say of the    *)
(* bus.  Instances, for every number of boats, broker starts and channel   *)
(* capacities: what is in the journal when the process has shut down.      *)
(***************************************************************************)
EXTENDS Registry, Instances, TLAPS, FiniteSetTheorems
-----------------------------------------------------------------------------
(* Device registries *)

Device == [name : Names \union {NoName}, prod : BOOLEAN, idle : Nat \union {-1}]
Registries == [dev : [Addresses -> Device], val : SUBSET Addresses]

\* A NAME is held by one source at most, and sources with a value are known.
Good(r) ==
  /\ r \in Registries
  /\ \A s, t \in Addresses : (s # t /\ r.dev[s].name # NoName) => r.dev[s].name # r.dev[t].name
  /\ \A s \in Sources \intersect r.val : Known(r, s)

\* The frames of the named device at s have been handled by the replica.
Agrees(s) == cloud.dev[s].name = boat.dev[s].name /\ (boat.dev[s].prod => cloud.dev[s].prod)
SeedsHold ==
  /\ seeds \subseteq Synthesized(boat) /\ fresh \in BOOLEAN /\ (fresh => seeds = {})
  /\ (seeds # {} \/ fresh) =>
       \A s \in Addresses : (boat.dev[s].name # NoName /\ \A d \in seeds : d.src # s) => Agrees(s)

GInv == at \in [Names -> Addresses] /\ Good(boat) /\ Good(cloud) /\ SeedsHold

\* A device nobody heard of.
LEMMA NoDeviceType == NoDevice \in Device /\ NoDevice.name = NoName /\ NoDevice.prod = FALSE /\ NoDevice.idle = -1
BY DEF NoDevice, Device

\* The parts of a registry.
LEMMA DeviceAt ==
  ASSUME NEW r \in Registries, NEW s \in Addresses
  PROVE  /\ r.dev[s] \in Device /\ r.dev[s].name \in Names \union {NoName}
         /\ r.dev[s].prod \in BOOLEAN /\ r.dev[s].idle \in Nat \union {-1}
         /\ (r.dev[s].name # NoName => Known(r, s)) /\ (r.dev[s].idle # -1 => Known(r, s))
         /\ r = [dev |-> r.dev, val |-> r.val] /\ r.dev \in [Addresses -> Device] /\ r.val \subseteq Addresses
BY NoDeviceType DEF Registries, Device, Known

\* A registry that differs from r in the device at s.
LEMMA DeviceSet ==
  ASSUME NEW r \in Registries, NEW s \in Addresses, NEW d \in Device
  PROVE  LET q == [r EXCEPT !.dev[s] = d]
         IN  /\ q \in Registries /\ q.val = r.val /\ q.dev[s] = d
             /\ \A t \in Addresses : t # s => q.dev[t] = r.dev[t]
BY DEF Registries

\* RecordPacket notes that s was heard and changes no NAME, product or value.
LEMMA RecordPacketIs ==
  ASSUME NEW r \in Registries, NEW s \in Addresses
  PROVE  LET q == RecordPacket(r, s)
         IN  /\ q \in Registries /\ q.val = r.val
             /\ \A t \in Addresses : /\ q.dev[t].name = r.dev[t].name /\ q.dev[t].prod = r.dev[t].prod
                                     /\ Known(r, t) => Known(q, t)
             /\ s # Null => Known(q, s)
<1> DEFINE q == RecordPacket(r, s)
<1>1. CASE s = Null
  BY <1>1 DEF RecordPacket
<1>2. CASE s # Null
  <2> DEFINE e == IF Known(r, s) THEN [r.dev[s] EXCEPT !.idle = 0] ELSE [NoDevice EXCEPT !.idle = 0]
  <2>1. q = [r EXCEPT !.dev[s] = e]
    BY <1>2 DEF RecordPacket
  <2>2. r.dev[s] \in Device
    BY DeviceAt
  <2>3. e \in Device /\ e.idle = 0 /\ e.name = r.dev[s].name /\ e.prod = r.dev[s].prod
    BY <2>2, NoDeviceType DEF Device, Known
  <2> HIDE DEF e, q
  <2>4. /\ q \in Registries /\ q.val = r.val /\ q.dev[s] = e
        /\ \A t \in Addresses : t # s => q.dev[t] = r.dev[t]
    BY <2>1, <2>3, DeviceSet
  <2>5. Known(q, s)
    BY <2>3, <2>4, DeviceAt
  <2>6. \A t \in Addresses : Known(r, t) => Known(q, t)
    BY <2>4, <2>5 DEF Known
  <2> QED BY <2>3, <2>4, <2>5, <2>6 DEF q
<1> QED BY <1>1, <1>2

\* A registry stays good when NAMEs and values stay and no source is forgotten.
LEMMA NamesKept ==
  ASSUME NEW r, Good(r), NEW q \in Registries, q.val = r.val,
         \A t \in Addresses : q.dev[t].name = r.dev[t].name /\ (Known(r, t) => Known(q, t))
  PROVE  Good(q)
BY DEF Good, Addresses

\* RecordPacket keeps a registry good.
LEMMA RecordPacketGood ==
  ASSUME NEW r, Good(r), NEW s \in Addresses
  PROVE  Good(RecordPacket(r, s))
<1>1. r \in Registries
  BY DEF Good
<1>2. LET q == RecordPacket(r, s)
      IN  /\ q \in Registries /\ q.val = r.val
          /\ \A t \in Addresses : q.dev[t].name = r.dev[t].name /\ (Known(r, t) => Known(q, t))
  BY <1>1, RecordPacketIs
<1> QED BY <1>2, NamesKept

\* Removing sources clears their devices and their values, no others.
LEMMA RemovedIs ==
  ASSUME NEW r \in Registries, NEW ss \in SUBSET Addresses
  PROVE  LET q == Removed(r, ss)
         IN  /\ q \in Registries /\ q.val = r.val \ ss
             /\ \A t \in Addresses : q.dev[t] = IF t \in ss THEN NoDevice ELSE r.dev[t]
<1> DEFINE d == [s \in Addresses |-> IF s \in ss THEN NoDevice ELSE r.dev[s]]
           m == [r EXCEPT !.dev = d]
<1>1. d \in [Addresses -> Device] /\ \A t \in Addresses : d[t] = IF t \in ss THEN NoDevice ELSE r.dev[t]
  BY NoDeviceType DEF Registries
<1>2. Removed(r, ss) = [m EXCEPT !.val = m.val \ ss]
  BY DEF Removed, RemoveSource
<1> HIDE DEF d
<1>3. m = [dev |-> d, val |-> r.val]
  BY DEF Registries
<1> HIDE DEF m
<1>4. Removed(r, ss) = [dev |-> d, val |-> r.val \ ss]
  BY <1>2, <1>3
<1>5. r.val \ ss \subseteq Addresses
  BY DEF Registries
<1> QED BY <1>1, <1>4, <1>5 DEF Registries

\* Removing sources keeps a registry good.
LEMMA RemovedGood ==
  ASSUME NEW r, Good(r), NEW ss \in SUBSET Addresses
  PROVE  Good(Removed(r, ss))
<1>1. r \in Registries
  BY DEF Good
<1> DEFINE q == Removed(r, ss)
<1>2. /\ q \in Registries /\ q.val = r.val \ ss
      /\ \A t \in Addresses : q.dev[t] = IF t \in ss THEN NoDevice ELSE r.dev[t]
  BY <1>1, RemovedIs
<1> HIDE DEF q
<1>3. ASSUME NEW s \in Addresses, NEW t \in Addresses, s # t, q.dev[s].name # NoName PROVE q.dev[s].name # q.dev[t].name
  BY <1>2, <1>3, NoDeviceType DEF Good
<1>4. ASSUME NEW s \in Sources \intersect q.val PROVE Known(q, s)
  BY <1>2, <1>4 DEF Good, Known, Addresses
<1>5. Good(q)
  BY <1>2, <1>3, <1>4 DEF Good
<1> QED BY <1>5 DEF q

\* What a claim changes: the claimant has the NAME, other holders of it are gone.
LEMMA ClaimIs ==
  ASSUME NEW r \in Registries, NEW s \in Addresses, NEW n \in Names
  PROVE  LET q == HandleAddressClaim(r, s, n)
         IN  /\ q \in Registries /\ q.dev[s].name = n
             /\ \A t \in Addresses \ {s} :
                  \/ q.dev[t] = r.dev[t] /\ (t \in q.val => t \in r.val) /\ (News(r, s, n) => r.dev[t].name # n)
                  \/ q.dev[t] = NoDevice /\ t \notin q.val /\ r.dev[t].name = n
             /\ q # r => News(r, s, n)
<1> DEFINE q == HandleAddressClaim(r, s, n)
<1>1. CASE ~News(r, s, n)
  BY <1>1 DEF HandleAddressClaim, News
<1>2. CASE News(r, s, n)
  <2> DEFINE ss == Evicted(r, s, n)
             m == Removed(r, ss)
             e == [name |-> n, prod |-> FALSE, idle |-> IF Known(r, s) THEN r.dev[s].idle ELSE IdleTicks + 1]
  <2>1. ss \in SUBSET Addresses /\ s \notin ss
    BY DEF Evicted
  <2>2. /\ m \in Registries /\ m.val = r.val \ ss
        /\ \A t \in Addresses : m.dev[t] = IF t \in ss THEN NoDevice ELSE r.dev[t]
    BY <2>1, RemovedIs
  <2>3. e \in Device /\ e.name = n
    BY DeviceAt, RegistryAssumption DEF Device
  <2>4. q = [m EXCEPT !.dev[s] = e]
    BY <1>2 DEF HandleAddressClaim
  <2>5. \A t \in Addresses \ {s} : t \in ss <=> r.dev[t].name = n
    BY DeviceAt, RegistryAssumption DEF Evicted
  <2> HIDE DEF q, m, e, ss
  <2>6. /\ q \in Registries /\ q.val = m.val /\ q.dev[s] = e
        /\ \A t \in Addresses : t # s => q.dev[t] = m.dev[t]
    BY <2>2, <2>3, <2>4, DeviceSet
  <2>7. \A t \in Addresses \ {s} :
          \/ q.dev[t] = r.dev[t] /\ (t \in q.val => t \in r.val) /\ (News(r, s, n) => r.dev[t].name # n)
          \/ q.dev[t] = NoDevice /\ t \notin q.val /\ r.dev[t].name = n
    BY <2>2, <2>5, <2>6
  <2> QED BY <1>2, <2>3, <2>6, <2>7 DEF q
<1> QED BY <1>1, <1>2

\* HandleAddressClaim, which evicts the former holder of the NAME, keeps a registry good.
LEMMA ClaimGood ==
  ASSUME NEW r, Good(r), NEW s \in Addresses, NEW n \in Names
  PROVE  Good(HandleAddressClaim(r, s, n))
<1> DEFINE q == HandleAddressClaim(r, s, n)
<1>0. r \in Registries
  BY DEF Good
<1>1. /\ q \in Registries /\ q.dev[s].name = n
      /\ \A t \in Addresses \ {s} :
           \/ q.dev[t] = r.dev[t] /\ (t \in q.val => t \in r.val) /\ (News(r, s, n) => r.dev[t].name # n)
           \/ q.dev[t] = NoDevice /\ t \notin q.val /\ r.dev[t].name = n
      /\ q # r => News(r, s, n)
  BY <1>0, ClaimIs
<1> HIDE DEF q
<1>2. n # NoName
  BY RegistryAssumption
<1>3. CASE q = r
  BY <1>3 DEF q
<1>4. CASE q # r
  <2>1. \A t \in Addresses \ {s} : q.dev[t].name # n
    BY <1>1, <1>2, <1>4, NoDeviceType
  <2>2. ASSUME NEW t \in Addresses, NEW u \in Addresses, t # u, q.dev[t].name # NoName
        PROVE  q.dev[t].name # q.dev[u].name
    <3>1. CASE t = s \/ u = s
      BY <1>1, <2>1, <2>2, <3>1
    <3>2. CASE t # s /\ u # s
      BY <1>1, <2>2, <3>2, NoDeviceType DEF Good
    <3> QED BY <3>1, <3>2
  <2>3. ASSUME NEW t \in Sources \intersect q.val PROVE Known(q, t)
    <3>1. CASE t = s
      BY <1>1, <1>2, <3>1, DeviceAt
    <3>2. CASE t # s
      BY <1>1, <2>3, <3>2 DEF Good, Known, Addresses
    <3> QED BY <3>1, <3>2
  <2>4. Good(q)
    BY <1>1, <2>2, <2>3 DEF Good
  <2> QED BY <2>4 DEF q
<1> QED BY <1>3, <1>4

\* HandleProductInfo adds product information to a known source.
LEMMA ProductIs ==
  ASSUME NEW r \in Registries, NEW s \in Addresses
  PROVE  LET q == HandleProductInfo(r, s)
         IN  /\ q \in Registries /\ q.val = r.val
             /\ \A t \in Addresses : /\ q.dev[t].name = r.dev[t].name /\ (r.dev[t].prod => q.dev[t].prod)
                                     /\ Known(r, t) => Known(q, t)
             /\ Known(r, s) => q.dev[s].prod
<1> DEFINE q == HandleProductInfo(r, s)
<1>1. CASE ~Known(r, s)
  BY <1>1 DEF HandleProductInfo
<1>2. CASE Known(r, s)
  <2> DEFINE e == [r.dev[s] EXCEPT !.prod = TRUE]
  <2>1. q = [r EXCEPT !.dev[s] = e]
    BY <1>2 DEF HandleProductInfo
  <2>2. e \in Device /\ e.prod = TRUE /\ e.name = r.dev[s].name
    BY DeviceAt, ZenonT(90) DEF Device
  <2> HIDE DEF e, q
  <2>3. /\ q \in Registries /\ q.val = r.val /\ q.dev[s] = e
        /\ \A t \in Addresses : t # s => q.dev[t] = r.dev[t]
    BY <2>1, <2>2, DeviceSet
  <2>4. Known(q, s)
    BY <2>2, <2>3, NoDeviceType DEF Known
  <2>5. \A t \in Addresses : Known(r, t) => Known(q, t)
    BY <2>3, <2>4 DEF Known
  <2> QED BY <2>2, <2>3, <2>5 DEF q
<1> QED BY <1>1, <1>2

\* HandleProductInfo keeps a registry good.
LEMMA ProductGood ==
  ASSUME NEW r, Good(r), NEW s \in Addresses
  PROVE  Good(HandleProductInfo(r, s))
<1>1. r \in Registries
  BY DEF Good
<1>2. LET q == HandleProductInfo(r, s)
      IN  /\ q \in Registries /\ q.val = r.val
          /\ \A t \in Addresses : q.dev[t].name = r.dev[t].name /\ (Known(r, t) => Known(q, t))
  BY <1>1, ProductIs
<1> QED BY <1>2, NamesKept

\* A source whose packet was recorded is known after its frame.
LEMMA ClaimKnows ==
  ASSUME NEW r \in Registries, NEW s \in Addresses, NEW n \in Names
  PROVE  Known(HandleAddressClaim(r, s, n), s)
<1> DEFINE q == HandleAddressClaim(r, s, n)
<1>1. q \in Registries /\ q.dev[s].name = n /\ n # NoName
  BY ClaimIs, RegistryAssumption
<1> HIDE DEF q
<1>2. Known(q, s)
  BY <1>1, DeviceAt
<1> QED BY <1>2 DEF q

\* handleFrame keeps a registry good, whatever the frame.
LEMMA HandleFrameGood ==
  ASSUME NEW r, Good(r), NEW k \in {"claim", "product", "data"}, NEW s \in Addresses, NEW n \in Names
  PROVE  Good(HandleFrame(r, BusFrame(k, s, n)))
<1> DEFINE f == BusFrame(k, s, n)
           p == RecordPacket(r, s)
           q == CASE f.kind = "claim" -> HandleAddressClaim(p, f.src, f.name)
                  [] f.kind = "product" -> HandleProductInfo(p, f.src)
                  [] f.kind = "data" -> p
<1>0. r \in Registries /\ f.kind = k /\ f.src = s /\ f.name = n
  BY DEF Good, BusFrame
<1>1. Good(p) /\ p \in Registries /\ (s # Null => Known(p, s))
  BY <1>0, RecordPacketGood, RecordPacketIs
<1>2. Good(q) /\ (s # Null => Known(q, s))
  <2>1. CASE k = "claim"
    <3>1. q = HandleAddressClaim(p, s, n)
      BY <1>0, <2>1
    <3> HIDE DEF q, p
    <3> QED BY <1>1, <3>1, ClaimGood, ClaimKnows
  <2>2. CASE k = "product"
    <3>1. q = HandleProductInfo(p, s)
      BY <1>0, <2>2
    <3> HIDE DEF q, p
    <3> QED BY <1>1, <3>1, ProductGood, ProductIs
  <2>3. CASE k = "data"
    <3>1. q = p
      BY <1>0, <2>3
    <3> QED BY <1>1, <3>1
  <2> QED BY <2>1, <2>2, <2>3
<1>3. HandleFrame(r, f) = [q EXCEPT !.val = @ \union {s}]
  BY <1>0 DEF HandleFrame
<1> HIDE DEF q
<1> DEFINE v == [q EXCEPT !.val = @ \union {s}]
<1>4. v \in Registries /\ v.dev = q.dev /\ v.val = q.val \union {s}
  BY <1>2 DEF Good, Registries
<1>5. Good(v)
  <2>1. ASSUME NEW t \in Sources \intersect v.val PROVE Known(v, t)
    BY <1>2, <1>4, RegistryAssumption DEF Good, Known
  <2> QED BY <1>2, <1>4, <2>1 DEF Good
<1> QED BY <1>3, <1>5

\* The passing of time keeps a registry good.
LEMMA AgedGood ==
  ASSUME NEW r, Good(r)
  PROVE  Good(Aged(r))
<1> DEFINE d == [s \in Addresses |-> IF Known(r, s) /\ r.dev[s].idle <= IdleTicks
                                     THEN [r.dev[s] EXCEPT !.idle = @ + 1] ELSE r.dev[s]]
           q == [r EXCEPT !.dev = d]
<1>0. r \in Registries
  BY DEF Good
<1>1. Aged(r) = q
  BY DEF Aged
<1>2. ASSUME NEW s \in Addresses
      PROVE  d[s] \in Device /\ d[s].name = r.dev[s].name /\ (Known(r, s) => d[s] # NoDevice)
  <2>1. r.dev[s] \in Device
    BY <1>0, DeviceAt
  <2>2. [r.dev[s] EXCEPT !.idle = @ + 1] \in Device /\ [r.dev[s] EXCEPT !.idle = @ + 1].idle # -1
        /\ [r.dev[s] EXCEPT !.idle = @ + 1].name = r.dev[s].name
    BY <2>1 DEF Device
  <2> QED BY <2>1, <2>2, NoDeviceType DEF Known
<1> HIDE DEF d
<1>3. d \in [Addresses -> Device]
  BY <1>2 DEF d
<1>4. q \in Registries /\ q.val = r.val /\ q.dev = d
  BY <1>0, <1>3 DEF Registries
<1>5. \A t \in Addresses : q.dev[t].name = r.dev[t].name /\ (Known(r, t) => Known(q, t))
  BY <1>2, <1>4 DEF Known
<1> HIDE DEF q
<1> QED BY <1>1, <1>4, <1>5, NamesKept

\* The registry of a new broker is good.
LEMMA EmptyGood == Good(Empty)
BY NoDeviceType DEF Good, Empty, Registries

\* What a replica may have believed before the stream began is good.
LEMMA BeliefsGood ==
  ASSUME NEW r \in Beliefs
  PROVE  Good(r)
<1>1. PICK b \in [Sources -> Names \union {NoName}] :
        /\ \A s, t \in Sources : (s # t /\ b[s] # NoName) => b[s] # b[t]
        /\ r = [dev |-> [s \in Addresses |-> IF s = Null \/ b[s] = NoName THEN NoDevice
                                             ELSE [name |-> b[s], prod |-> TRUE, idle |-> 0]],
                val |-> {}]
  BY DEF Beliefs
<1>2. ASSUME NEW s \in Addresses
      PROVE  r.dev[s] \in Device /\ r.dev[s].name = IF s = Null THEN NoName ELSE b[s]
  <2>1. CASE s = Null \/ b[s] = NoName
    BY <1>1, <2>1, NoDeviceType
  <2>2. CASE ~(s = Null \/ b[s] = NoName)
    <3>1. r.dev[s] = [name |-> b[s], prod |-> TRUE, idle |-> 0] /\ s \in Sources
      BY <1>1, <2>2 DEF Addresses
    <3> QED BY <1>1, <2>2, <3>1 DEF Device
  <2> QED BY <2>1, <2>2
<1>3. r.dev \in [Addresses -> Device] /\ r.val = {} /\ r = [dev |-> r.dev, val |-> r.val]
  <2>1. r.dev = [s \in Addresses |-> r.dev[s]]
    BY <1>1
  <2> QED BY <1>1, <1>2, <2>1
<1>4. r \in Registries
  BY <1>3 DEF Registries
<1>5. ASSUME NEW s \in Addresses, NEW t \in Addresses, s # t, r.dev[s].name # NoName
      PROVE  r.dev[s].name # r.dev[t].name
  BY <1>1, <1>2, <1>5 DEF Addresses
<1> QED BY <1>3, <1>4, <1>5 DEF Good

\* The filters agree on any registry.
LEMMA FiltersAgree ==
  ASSUME NEW r \in Registries, NEW f \in Filters, NEW s \in Addresses
  PROVE  /\ ResolvedMatches(Resolve(r, f), s) = Matches(r, f, s)
         /\ ReplayMatches(DeviceTable(r), f, s) = Matches(r, f, s)
         /\ (s \in Listed(r, f)) = (s \in r.val /\ Matches(r, f, s))
<1>0. f.names \subseteq Names /\ f.exclude \subseteq Names /\ NoName \notin Names
  BY RegistryAssumption DEF Filters
<1>1. /\ Resolve(r, f).all = (f.names = {})
      /\ s \in Resolve(r, f).sources <=> Known(r, s) /\ r.dev[s].name \in f.names
      /\ s \in Resolve(r, f).exclude <=> Known(r, s) /\ r.dev[s].name \in f.exclude
  BY DEF Resolve
<1>2. ResolvedMatches(Resolve(r, f), s) = Matches(r, f, s)
  BY <1>1 DEF ResolvedMatches, Matches
<1>3. /\ s \in DOMAIN DeviceTable(r) <=> Known(r, s) /\ r.dev[s].name # NoName
      /\ s \in DOMAIN DeviceTable(r) => DeviceTable(r)[s] = r.dev[s].name
  BY DEF DeviceTable
<1>4. ReplayMatches(DeviceTable(r), f, s) = Matches(r, f, s)
  BY <1>0, <1>3 DEF ReplayMatches, Matches
<1>5. ValuePasses(r, f, s) = Matches(r, f, s)
  BY <1>0 DEF ValuePasses, Matches
<1>6. (s \in Listed(r, f)) = (s \in r.val /\ Matches(r, f, s))
  BY <1>5 DEF Listed
<1> QED BY <1>2, <1>4, <1>6

\* In a good registry the five ways to resolve a NAME agree.
LEMMA GoodHolds ==
  ASSUME NEW r, Good(r)
  PROVE  Holds(r)
BY FiltersAgree DEF Good, Holds

\* The handling of a device's frames by the replica.
SeedResult(d) ==
  LET c == HandleFrame(cloud, BusFrame("claim", d.src, d.name))
  IN  IF Len(d.kinds) = 2 THEN HandleFrame(c, BusFrame("product", d.src, d.name)) ELSE c

\* The frames synthesized for a device carry its NAME, and its product if the boat has it.
LEMMA SeedIs ==
  ASSUME NEW d \in Synthesized(boat)
  PROVE  /\ d.src \in Addresses /\ d.name = boat.dev[d.src].name /\ d.name # NoName
         /\ boat.dev[d.src].prod => Len(d.kinds) = 2
BY DEF Synthesized

\* A synthesized claim puts the NAME at its source and disturbs no other device.
LEMMA ClaimFrameIs ==
  ASSUME NEW r \in Registries, NEW s \in Addresses, NEW n \in Names
  PROVE  LET q == HandleFrame(r, BusFrame("claim", s, n))
         IN  /\ q.dev[s].name = n /\ Known(q, s)
             /\ \A t \in Addresses \ {s} : r.dev[t].name # n =>
                  q.dev[t].name = r.dev[t].name /\ (r.dev[t].prod => q.dev[t].prod)
<1> DEFINE p == RecordPacket(r, s)
           c == HandleAddressClaim(p, s, n)
           q == HandleFrame(r, BusFrame("claim", s, n))
<1>1. q = [c EXCEPT !.val = @ \union {s}]
  BY DEF HandleFrame, BusFrame
<1>2. /\ p \in Registries
      /\ \A t \in Addresses : p.dev[t].name = r.dev[t].name /\ p.dev[t].prod = r.dev[t].prod
  BY RecordPacketIs
<1> HIDE DEF p
<1>3. /\ c \in Registries /\ c.dev[s].name = n /\ Known(c, s)
      /\ \A t \in Addresses \ {s} : c.dev[t] = p.dev[t] \/ p.dev[t].name = n
  BY <1>2, ClaimIs, ClaimKnows
<1> HIDE DEF c, q
<1>4. q.dev = c.dev
  BY <1>1, <1>3 DEF Registries
<1>5. Known(q, s) /\ q.dev[s].name = n
  BY <1>3, <1>4 DEF Known
<1>6. \A t \in Addresses \ {s} : r.dev[t].name # n =>
         q.dev[t].name = r.dev[t].name /\ (r.dev[t].prod => q.dev[t].prod)
  BY <1>2, <1>3, <1>4
<1> QED BY <1>5, <1>6 DEF q

\* A synthesized product frame marks its source and takes nothing from any other.
LEMMA ProductFrameIs ==
  ASSUME NEW r \in Registries, NEW s \in Addresses, NEW n \in Names, Known(r, s)
  PROVE  LET q == HandleFrame(r, BusFrame("product", s, n))
         IN  /\ q.dev[s].prod
             /\ \A t \in Addresses : q.dev[t].name = r.dev[t].name /\ (r.dev[t].prod => q.dev[t].prod)
<1> DEFINE p == RecordPacket(r, s)
           c == HandleProductInfo(p, s)
           q == HandleFrame(r, BusFrame("product", s, n))
<1>1. q = [c EXCEPT !.val = @ \union {s}]
  BY DEF HandleFrame, BusFrame
<1>2. /\ p \in Registries /\ Known(p, s)
      /\ \A t \in Addresses : p.dev[t].name = r.dev[t].name /\ p.dev[t].prod = r.dev[t].prod
  BY RecordPacketIs
<1> HIDE DEF p
<1>3. /\ c \in Registries /\ c.dev[s].prod
      /\ \A t \in Addresses : c.dev[t].name = p.dev[t].name /\ (p.dev[t].prod => c.dev[t].prod)
  BY <1>2, ProductIs
<1> HIDE DEF c, q
<1>4. q.dev = c.dev
  BY <1>1, <1>3 DEF Registries
<1>5. \A t \in Addresses : q.dev[t].name = r.dev[t].name /\ (r.dev[t].prod => q.dev[t].prod)
  BY <1>2, <1>3, <1>4
<1> QED BY <1>3, <1>4, <1>5 DEF q

\* After its frames the replica has the device, and still has the others.
LEMMA SeedResultIs ==
  ASSUME Good(boat), Good(cloud), NEW d \in Synthesized(boat)
  PROVE  LET q == SeedResult(d)
         IN  /\ Good(q) /\ q.dev[d.src].name = boat.dev[d.src].name
             /\ boat.dev[d.src].prod => q.dev[d.src].prod
             /\ \A t \in Addresses \ {d.src} :
                  (boat.dev[t].name # NoName /\ Agrees(t)) =>
                    q.dev[t].name = boat.dev[t].name /\ (boat.dev[t].prod => q.dev[t].prod)
<1> DEFINE s == d.src
           n == d.name
           c == HandleFrame(cloud, BusFrame("claim", s, n))
           e == HandleFrame(c, BusFrame("product", s, n))
<1>1. s \in Addresses /\ n = boat.dev[s].name /\ n # NoName /\ (boat.dev[s].prod => Len(d.kinds) = 2)
  BY SeedIs
<1>2. boat \in Registries /\ cloud \in Registries
  BY DEF Good
<1>3. n \in Names
  BY <1>1, <1>2, DeviceAt
<1>4. Good(c) /\ c \in Registries
  <2>1. "claim" \in {"claim", "product", "data"}
    OBVIOUS
  <2>2. Good(c)
    BY <1>1, <1>3, <2>1, HandleFrameGood, ZenonT(30)
  <2> HIDE DEF c
  <2> QED BY <2>2 DEF Good
<1>5. /\ c.dev[s].name = n /\ Known(c, s)
      /\ \A t \in Addresses \ {s} : cloud.dev[t].name # n =>
           c.dev[t].name = cloud.dev[t].name /\ (cloud.dev[t].prod => c.dev[t].prod)
  BY <1>1, <1>2, <1>3, ClaimFrameIs
<1>6. \A t \in Addresses \ {s} : (boat.dev[t].name # NoName /\ Agrees(t)) =>
        c.dev[t].name = boat.dev[t].name /\ (boat.dev[t].prod => c.dev[t].prod)
  <2>1. \A t \in Addresses \ {s} : boat.dev[t].name # NoName => boat.dev[t].name # n
    BY <1>1 DEF Good
  <2> HIDE DEF c, s, n
  <2> QED BY <1>5, <2>1 DEF Agrees
<1>7. CASE Len(d.kinds) = 2
  <2>1. SeedResult(d) = e
    BY <1>7 DEF SeedResult
  <2> HIDE DEF c
  <2>2. Good(e)
    BY <1>1, <1>3, <1>4, HandleFrameGood
  <2>3. e.dev[s].prod /\ \A t \in Addresses : e.dev[t].name = c.dev[t].name /\ (c.dev[t].prod => e.dev[t].prod)
    BY <1>1, <1>3, <1>4, <1>5, ProductFrameIs
  <2> HIDE DEF e
  <2> QED BY <1>1, <1>5, <1>6, <2>1, <2>2, <2>3
<1>8. CASE Len(d.kinds) # 2
  <2>1. SeedResult(d) = c
    BY <1>8 DEF SeedResult
  <2> HIDE DEF c
  <2> QED BY <1>1, <1>4, <1>5, <1>6, <1>8, <2>1
<1> QED BY <1>7, <1>8

\* Boat and replica start in the invariant.
LEMMA GInitHolds == GInit => GInv
<1> SUFFICES ASSUME GInit PROVE GInv
  OBVIOUS
<1>1. at \in [Names -> Sources]
  BY RegistryAssumption DEF GInit
<1>2. at \in [Names -> Addresses]
  BY <1>1 DEF Addresses
<1>3. Good(boat) /\ Good(cloud)
  BY EmptyGood DEF GInit
<1>4. SeedsHold
  BY DEF GInit, SeedsHold
<1> QED BY <1>2, <1>3, <1>4 DEF GInv

\* When the boat goes on, the replica's side is begun anew.
LEMMA BoatMovesHolds ==
  ASSUME GInv, BoatMoves, Good(boat'), at' \in [Names -> Addresses]
  PROVE  GInv'
<1>1. seeds' = {} /\ fresh' = FALSE /\ cloud' = Empty
  BY DEF BoatMoves
<1>2. SeedsHold'
  BY <1>1 DEF SeedsHold
<1>3. Good(cloud')
  BY <1>1, EmptyGood
<1>4. GInv' = (at' \in [Names -> Addresses] /\ Good(boat') /\ Good(cloud') /\ SeedsHold')
  BY DEF GInv, Good, Known
<1> QED BY <1>2, <1>3, <1>4

\* Every step keeps the invariant.
LEMMA GNextHolds == GInv /\ [GNext]_gvars => GInv'
<1> SUFFICES ASSUME GInv, [GNext]_gvars PROVE GInv'
  OBVIOUS
<1>0. at \in [Names -> Addresses] /\ Good(boat) /\ Good(cloud) /\ SeedsHold
  BY DEF GInv
<1>a. Null \in Addresses /\ Sources \subseteq Addresses
  BY DEF Addresses
<1>1. CASE Upkeep
  <2>1. BoatMoves /\ boat' = ExpireDevices(Aged(boat)) /\ at' = at
    BY <1>1 DEF Upkeep
  <2>2. Good(boat')
    <3>1. Expired(Aged(boat)) \in SUBSET Addresses
      BY DEF Expired
    <3> QED BY <1>0, <2>1, <3>1, AgedGood, RemovedGood DEF ExpireDevices
  <2> QED BY <1>0, <2>1, <2>2, BoatMovesHolds
<1>2. CASE LoseRequest
  BY <1>0, <1>2, BoatMovesHolds DEF LoseRequest
<1>3. CASE StreamBegins
  <2>1. seeds' = Synthesized(boat) /\ cloud' \in Beliefs /\ UNCHANGED <<at, boat, fresh>> /\ ~fresh
        /\ seeds' # {}
    BY <1>3 DEF StreamBegins
  <2>2. Good(cloud')
    BY <2>1, BeliefsGood
  <2>3. ASSUME NEW s \in Addresses, boat.dev[s].name # NoName PROVE \E d \in seeds' : d.src = s
    <3>1. Known(boat, s)
      BY <1>0, <2>3, DeviceAt DEF Good
    <3> DEFINE d == [src |-> s, name |-> boat.dev[s].name,
                     kinds |-> IF boat.dev[s].prod THEN <<"claim", "product">> ELSE <<"claim">>]
    <3>2. d \in Synthesized(boat)
      BY <2>3, <3>1 DEF Synthesized
    <3>3. d.src = s
      OBVIOUS
    <3> QED BY <2>1, <3>2, <3>3
  <2>4. Synthesized(boat)' = Synthesized(boat)
    BY <2>1 DEF Synthesized, Known
  <2>5. SeedsHold'
    BY <1>0, <2>1, <2>3, <2>4 DEF SeedsHold
  <2>6. GInv' = (at' \in [Names -> Addresses] /\ Good(boat') /\ Good(cloud') /\ SeedsHold')
    BY DEF GInv, Good, Known
  <2> QED BY <1>0, <2>1, <2>2, <2>5, <2>6
<1>4. CASE SeedHandled
  <2>1. PICK d \in seeds : /\ seeds' = seeds \ {d} /\ fresh' = (seeds = {d}) /\ cloud' = SeedResult(d)
                           /\ UNCHANGED <<at, boat>>
    BY <1>4 DEF SeedHandled, SeedResult
  <2>2. d \in Synthesized(boat) /\ seeds # {}
    BY <1>0, <2>1 DEF SeedsHold
  <2>3. /\ Good(cloud') /\ cloud'.dev[d.src].name = boat.dev[d.src].name
        /\ boat.dev[d.src].prod => cloud'.dev[d.src].prod
        /\ \A t \in Addresses \ {d.src} :
             (boat.dev[t].name # NoName /\ Agrees(t)) =>
               cloud'.dev[t].name = boat.dev[t].name /\ (boat.dev[t].prod => cloud'.dev[t].prod)
    BY <1>0, <2>1, <2>2, SeedResultIs
  <2>4. ASSUME NEW s \in Addresses, boat.dev[s].name # NoName, \A x \in seeds' : x.src # s
        PROVE  Agrees(s)'
    <3>1. CASE s = d.src
      BY <2>1, <2>3, <3>1 DEF Agrees
    <3>2. CASE s # d.src
      <4>1. Agrees(s)
        BY <1>0, <2>1, <2>2, <2>4, <3>2 DEF SeedsHold
      <4> QED BY <2>1, <2>3, <2>4, <3>2, <4>1 DEF Agrees
    <3> QED BY <3>1, <3>2
  <2>5. Synthesized(boat)' = Synthesized(boat)
    BY <2>1 DEF Synthesized, Known
  <2>6. SeedsHold'
    BY <1>0, <2>1, <2>4, <2>5 DEF SeedsHold
  <2>7. GInv' = (at' \in [Names -> Addresses] /\ Good(boat') /\ Good(cloud') /\ SeedsHold')
    BY DEF GInv, Good, Known
  <2> QED BY <1>0, <2>1, <2>3, <2>6, <2>7
<1>5. ASSUME NEW n \in Names, NEW s \in Addresses, Move(n, s) PROVE GInv'
  <2>1. BoatMoves /\ at' = [at EXCEPT ![n] = s]
        /\ (boat' = HandleFrame(boat, BusFrame("claim", s, n)) \/ boat' = boat)
    BY <1>5 DEF Move, Hear
  <2>2. at' \in [Names -> Addresses]
    BY <1>0, <2>1
  <2>3. Good(boat')
    BY <1>0, <2>1, HandleFrameGood
  <2> QED BY <2>1, <2>2, <2>3, BoatMovesHolds
<1>6. ASSUME NEW n \in Names, Data(n) PROVE GInv'
  <2>1. BoatMoves /\ boat' = HandleFrame(boat, BusFrame("data", at[n], n)) /\ at' = at
    BY <1>6 DEF Data, Hear
  <2>2. Good(boat')
    BY <1>0, <2>1, HandleFrameGood
  <2> QED BY <1>0, <2>1, <2>2, BoatMovesHolds
<1>7. ASSUME NEW n \in Names, NEW k \in {"claim", "product"}, Answer(n, k) PROVE GInv'
  <2>1. BoatMoves /\ boat' = HandleFrame(boat, BusFrame(k, at[n], n)) /\ at' = at
    BY <1>7 DEF Answer
  <2>2. Good(boat')
    BY <1>0, <2>1, HandleFrameGood
  <2> QED BY <1>0, <2>1, <2>2, BoatMovesHolds
<1>8. CASE UNCHANGED gvars
  BY <1>8 DEF gvars, GInv, Good, Known, SeedsHold, Agrees, Synthesized
<1> QED BY <1>1, <1>2, <1>3, <1>4, <1>5, <1>6, <1>7, <1>8 DEF GNext

\* Whatever devices come, move and fall silent, a NAME is held by one source, removed
\* sources leave no value, NAME filters agree, and a replica that has handled the frames a
\* live stream began with has the boat's NAMEs and products (devices.go, values.go,
\* replication_client.go).
THEOREM RegistryIsKept == GSpec => []RegistryHolds
<1>1. GInv => RegistryHolds
  <2> SUFFICES ASSUME GInv PROVE RegistryHolds
    OBVIOUS
  <2>1. Holds(boat) /\ Holds(cloud)
    BY GoodHolds DEF GInv
  <2>2. fresh => SeedAgrees
    BY DEF GInv, SeedsHold, SeedAgrees, Agrees
  <2> QED BY <2>1, <2>2 DEF RegistryHolds
<1> QED BY <1>1, GInitHolds, GNextHolds, PTL DEF GSpec
-----------------------------------------------------------------------------
(* Instances *)

Life == [run : {"none", "running", "done"}, rx : Seq(Nat), rxClosed : BOOLEAN, jq : Seq(Nat),
         jqClosed : BOOLEAN, cancelled : BOOLEAN, writer : {"none", "new", "running", "done"},
         doneCh : 0..MaxLives, doneClosed : BOOLEAN, paused : BOOLEAN, mem : SUBSET Nat, given : SUBSET Nat]
Fields == [known : BOOLEAN, broker : 0..MaxLives, ch : 0..MaxLives, done : 0..MaxLives, cursor : Nat]
Phases == {"serving", "draining", "stopping", "exiting", "stopped"}
StopStates == [left : SUBSET Boats, boat : Boats \union {0}, step : {"none", "broker", "writer", "save"}]

ITypeOK ==
  /\ graceful \in BOOLEAN /\ panicked \in BOOLEAN /\ phase \in Phases /\ stopping \in StopStates
  /\ inst \in [Boats -> Fields] /\ life \in [Boats -> [Lives -> Life]]
  /\ liveStream \in [Boats -> {"none", "open", "bound"}]
  /\ disk \in [Boats -> SUBSET Nat] /\ saved \in [Boats -> Nat] /\ dropped \in [Boats -> SUBSET Nat]
  /\ keeper \in Boats \union {"idle"}

First(b) == life[b][1]

\* A boat whose broker was never started.
Fresh(b) ==
  /\ life[b] = [k \in Lives |-> NoLife] /\ liveStream[b] = "none" /\ saved[b] = 0
  /\ inst[b].broker = 0 /\ inst[b].ch = 0 /\ inst[b].done = 0 /\ inst[b].cursor = 0

\* What holds of a boat's first life, and of the later ones for its sake.
FirstLife(b) ==
  LET l == First(b)
  IN  /\ l.given \subseteq ToSet(l.rx) \union ToSet(l.jq) \union l.mem \union disk[b] \union dropped[b]
      /\ l.run = "none" => Fresh(b)
      /\ l.run = "done" => l.rx = <<>> /\ l.rxClosed
      /\ l.rxClosed => inst[b].broker # 1
      /\ l.jqClosed \/ l.cancelled => l.run = "done"
      /\ l.writer = "done" => l.run = "done" /\ l.jq = <<>> /\ l.mem = {}
      /\ l.doneClosed => l.writer = "done"
LaterLives(b) ==
  \A k \in Lives \ {1} :
    /\ ~life[b][k].jqClosed /\ life[b][k].doneCh # 1
    /\ life[b][k].writer # "none" => inst[b].done # 1

\* Not stopped yet: there is no broker, or the first one.
Untouched(b) ==
  \/ Fresh(b)
  \/ /\ inst[b].known /\ inst[b].broker = 1 /\ inst[b].ch = 1 /\ inst[b].done = 1
     /\ First(b).run = "running" /\ ~First(b).rxClosed /\ ~First(b).jqClosed /\ ~First(b).cancelled
     /\ First(b).writer \in {"new", "running"}
Finished(b) == Fresh(b) \/ First(b).doneClosed

StageOf(b) ==
  LET early == phase \in {"serving", "draining"} \/ (phase = "stopping" /\ b \in stopping.left)
  IN  /\ early => Untouched(b)
      /\ (~early /\ b # stopping.boat) => Finished(b)
      /\ (b = stopping.boat /\ stopping.step = "broker") =>
           inst[b].broker = 0 /\ inst[b].ch = 1 /\ First(b).rxClosed /\ First(b).run # "none"
      /\ (b = stopping.boat /\ stopping.step = "writer") => First(b).jqClosed
      /\ (b = stopping.boat /\ stopping.step = "save") => Finished(b)

\* With a graceful stop there is one life.
OneLife(b) ==
  /\ \A k \in Lives \ {1} : life[b][k] = NoLife
  /\ inst[b].done \in {0, 1} /\ (First(b).writer = "new" => inst[b].done = 1)
  /\ First(b).writer = "running" => First(b).doneCh = 1
  /\ 1..inst[b].cursor \subseteq First(b).given \union dropped[b]
  /\ saved[b] <= inst[b].cursor
  /\ phase \notin {"serving", "draining"} => liveStream[b] = "none"

StoppingHolds ==
  /\ phase # "stopping" => stopping = NotStopping
  /\ (stopping.boat = 0) = (stopping.step = "none")
  /\ stopping.boat \notin stopping.left
  /\ held = IF stopping.step \in {"broker", "save"} THEN {stopping.boat} ELSE {}
  /\ graceful => ~panicked

InstancesInv ==
  /\ ITypeOK /\ StoppingHolds
  /\ \A b \in Boats : FirstLife(b) /\ LaterLives(b) /\ StageOf(b) /\ (graceful => OneLife(b))

\* The first life is one, and numbers other than 0 stand for lives.
LEMMA OneIsALife == 1 \in Lives /\ Lives \subseteq Nat /\ 0 \notin Lives /\ \A k \in 0..MaxLives : k # 0 => k \in Lives
BY InstancesAssumption DEF Lives

\* A life not started.
LEMMA NoLifeType ==
  /\ NoLife \in Life /\ NoLife.run = "none" /\ NoLife.writer = "none" /\ NoLife.doneCh = 0
  /\ NoLife.rx = <<>> /\ NoLife.jq = <<>> /\ NoLife.mem = {} /\ NoLife.given = {}
  /\ ~NoLife.rxClosed /\ ~NoLife.jqClosed /\ ~NoLife.cancelled /\ ~NoLife.doneClosed
BY InstancesAssumption DEF NoLife, Life

\* The fields of a life.
LEMMA LifeFields ==
  ASSUME NEW l \in Life
  PROVE  /\ l.rx \in Seq(Nat) /\ l.jq \in Seq(Nat) /\ l.mem \subseteq Nat /\ l.given \subseteq Nat
         /\ l.run \in {"none", "running", "done"} /\ l.writer \in {"none", "new", "running", "done"}
         /\ l.doneCh \in 0..MaxLives
         /\ l.rxClosed \in BOOLEAN /\ l.jqClosed \in BOOLEAN /\ l.cancelled \in BOOLEAN
         /\ l.doneClosed \in BOOLEAN /\ l.paused \in BOOLEAN
BY DEF Life

\* The lives of a boat.
LEMMA LifeAt ==
  ASSUME ITypeOK, NEW b \in Boats, NEW k \in Lives
  PROVE  life[b] \in [Lives -> Life] /\ life[b][k] \in Life
BY DEF ITypeOK

\* The fields of an InstanceState, and a boat's files.
LEMMA FieldsAt ==
  ASSUME ITypeOK, NEW b \in Boats
  PROVE  /\ inst[b] \in Fields /\ inst[b].known \in BOOLEAN /\ inst[b].cursor \in Nat
         /\ inst[b].broker \in 0..MaxLives /\ inst[b].ch \in 0..MaxLives /\ inst[b].done \in 0..MaxLives
         /\ disk[b] \subseteq Nat /\ dropped[b] \subseteq Nat /\ saved[b] \in Nat
BY DEF ITypeOK, Fields

\* A goroutine changes its own life only.
LEMMA SetLifeIs ==
  ASSUME ITypeOK, NEW b \in Boats, NEW k \in Lives, NEW l \in Life, SetLife(b, k, l)
  PROVE  /\ life' \in [Boats -> [Lives -> Life]] /\ life'[b][k] = l
         /\ \A j \in Lives : j # k => life'[b][j] = life[b][j]
         /\ \A c \in Boats : c # b => life'[c] = life[c]
BY DEF ITypeOK, SetLife

\* What depends on a boat's own state only.
LEMMA BoatKept ==
  ASSUME NEW c \in Boats, inst'[c] = inst[c], life'[c] = life[c], liveStream'[c] = liveStream[c],
         disk'[c] = disk[c], saved'[c] = saved[c], dropped'[c] = dropped[c]
  PROVE  /\ FirstLife(c)' = FirstLife(c) /\ LaterLives(c)' = LaterLives(c)
         /\ Untouched(c)' = Untouched(c) /\ Finished(c)' = Finished(c)
         /\ First(c)' = First(c)
         /\ phase' = phase => OneLife(c)' = OneLife(c)
<1>1. First(c)' = First(c) /\ Fresh(c)' = Fresh(c)
  BY DEF First, Fresh
<1>2. FirstLife(c)' = FirstLife(c)
  BY <1>1 DEF FirstLife, ToSet
<1>3. LaterLives(c)' = LaterLives(c)
  BY DEF LaterLives
<1>4. Untouched(c)' = Untouched(c) /\ Finished(c)' = Finished(c)
  BY <1>1 DEF Untouched, Finished
<1>5. phase' = phase => OneLife(c)' = OneLife(c)
  BY <1>1 DEF OneLife
<1> QED BY <1>1, <1>2, <1>3, <1>4, <1>5

\* The state of boats other than b is left alone.
Alone(b) ==
  \A c \in Boats : c # b =>
    /\ inst'[c] = inst[c] /\ life'[c] = life[c] /\ liveStream'[c] = liveStream[c]
    /\ disk'[c] = disk[c] /\ saved'[c] = saved[c] /\ dropped'[c] = dropped[c]

\* A step of one boat, main going nowhere.
LEMMA LocalStep ==
  ASSUME InstancesInv, ITypeOK', NEW b \in Boats, UNCHANGED <<graceful, phase, stopping, held>>, Alone(b),
         FirstLife(b)', LaterLives(b)', Untouched(b) => Untouched(b)',
         phase \in {"serving", "draining"} \/ (Finished(b) => Finished(b)'),
         First(b).jqClosed => First(b).jqClosed',
         b \notin held \/ (inst'[b] = inst[b] /\ (First(b).rxClosed => First(b).rxClosed')
                                             /\ (First(b).run # "none" => First(b).run' # "none")),
         graceful => OneLife(b)' /\ ~panicked'
  PROVE  InstancesInv'
<1>1. StoppingHolds'
  BY DEF InstancesInv, StoppingHolds
<1>2. ASSUME NEW c \in Boats PROVE FirstLife(c)' /\ LaterLives(c)' /\ StageOf(c)' /\ (graceful' => OneLife(c)')
  <2>0. FirstLife(c) /\ LaterLives(c) /\ StageOf(c) /\ (graceful => OneLife(c)) /\ StoppingHolds
    BY DEF InstancesInv
  <2>1. CASE c # b
    <3>1. /\ FirstLife(c)' = FirstLife(c) /\ LaterLives(c)' = LaterLives(c)
          /\ Untouched(c)' = Untouched(c) /\ Finished(c)' = Finished(c)
          /\ First(c)' = First(c) /\ OneLife(c)' = OneLife(c) /\ inst'[c] = inst[c]
      BY <2>1, BoatKept DEF Alone
    <3>2. StageOf(c)'
      BY <2>0, <3>1 DEF StageOf
    <3> QED BY <2>0, <3>1, <3>2
  <2>2. CASE c = b
    <3>1. (b = stopping.boat /\ stopping.step = "broker") => b \in held
      BY <2>0 DEF StoppingHolds
    <3>2. phase \in {"serving", "draining"} => b # stopping.boat
      BY <2>0, InstancesAssumption DEF StoppingHolds, NotStopping
    <3>3. StageOf(b)'
      BY <2>0, <2>2, <3>1, <3>2 DEF StageOf
    <3> QED BY <2>2, <3>3
  <2> QED BY <2>1, <2>2
<1> QED BY <1>1, <1>2 DEF InstancesInv

\* A goroutine of a later life.
LEMMA LaterStep ==
  ASSUME InstancesInv, ITypeOK', NEW b \in Boats, NEW k \in Lives \ {1}, life[b][k] # NoLife,
         UNCHANGED <<graceful, phase, stopping, held, inst, liveStream, saved>>, Alone(b),
         life'[b][1] = life[b][1], disk[b] \subseteq disk'[b], dropped[b] \subseteq dropped'[b],
         \A j \in Lives \ {1} : ~life'[b][j].jqClosed /\ life'[b][j].doneCh # 1 /\ (life'[b][j].writer # "none" => inst[b].done # 1)
  PROVE  InstancesInv'
<1>0. FirstLife(b) /\ LaterLives(b) /\ StageOf(b) /\ (graceful => OneLife(b)) /\ StoppingHolds /\ ITypeOK
  BY DEF InstancesInv
<1>1. ~graceful
  BY <1>0 DEF OneLife
<1>2. ~Fresh(b)
  BY DEF Fresh
<1>3. First(b)' = First(b)
  BY DEF First
<1>4. FirstLife(b)'
  BY <1>0, <1>2, <1>3 DEF FirstLife, ToSet
<1>5. LaterLives(b)'
  BY DEF LaterLives
<1>6. (Untouched(b) => Untouched(b)') /\ (Finished(b) => Finished(b)')
  BY <1>2, <1>3 DEF Untouched, Finished
<1>7. /\ First(b).jqClosed => First(b).jqClosed'
      /\ First(b).rxClosed => First(b).rxClosed'
      /\ First(b).run # "none" => First(b).run' # "none"
      /\ inst'[b] = inst[b]
  BY <1>3
<1> QED BY <1>1, <1>4, <1>5, <1>6, <1>7, LocalStep

\* A goroutine of the first life, l before and m after the step.
LEMMA FirstStep ==
  ASSUME InstancesInv, ITypeOK', NEW b \in Boats, NEW l, NEW m, l = life[b][1], m = life'[b][1],
         UNCHANGED <<graceful, phase, stopping, held, inst, liveStream, saved, panicked>>, Alone(b),
         disk[b] \subseteq disk'[b], dropped[b] \subseteq dropped'[b],
         \A j \in Lives \ {1} : /\ life'[b][j].jqClosed = life[b][j].jqClosed /\ life'[b][j].doneCh = life[b][j].doneCh
                                /\ life'[b][j].writer = life[b][j].writer /\ (graceful => life'[b][j] = life[b][j]),
         l.run # "none", m.run = l.run \/ (m.run = "done" /\ l.rxClosed),
         m.run = "done" => m.rx = <<>>,
         m.given = l.given, m.rxClosed = l.rxClosed, m.jqClosed = l.jqClosed, m.cancelled = l.cancelled,
         ToSet(l.rx) \union ToSet(l.jq) \union l.mem \subseteq
           ToSet(m.rx) \union ToSet(m.jq) \union m.mem \union disk'[b] \union dropped'[b],
         m.writer = "done" => m.run = "done" /\ m.jq = <<>> /\ m.mem = {},
         m.doneClosed => m.writer = "done", l.doneClosed => m.doneClosed,
         (l.writer \in {"new", "running"} /\ ~l.jqClosed /\ ~l.cancelled) => m.writer \in {"new", "running"},
         m.writer = "new" => l.writer = "new",
         graceful => (m.writer = "running" => m.doneCh = 1)
  PROVE  InstancesInv'
<1>0. FirstLife(b) /\ LaterLives(b) /\ StageOf(b) /\ (graceful => OneLife(b)) /\ StoppingHolds /\ ITypeOK
  BY DEF InstancesInv
<1>a. First(b) = l /\ First(b)' = m
  BY DEF First
<1>2. ~Fresh(b)
  BY OneIsALife, NoLifeType DEF Fresh
<1>4. FirstLife(b)'
  <2>1. m.given \subseteq ToSet(m.rx) \union ToSet(m.jq) \union m.mem \union disk'[b] \union dropped'[b]
    BY <1>0, <1>a DEF FirstLife
  <2>2. m.run # "none"
    OBVIOUS
  <2>3. m.run = "done" => m.rx = <<>> /\ m.rxClosed
    BY <1>0, <1>a DEF FirstLife
  <2>4. m.rxClosed => inst'[b].broker # 1
    BY <1>0, <1>a DEF FirstLife
  <2>5. m.jqClosed \/ m.cancelled => m.run = "done"
    BY <1>0, <1>a DEF FirstLife
  <2> QED BY <1>a, <2>1, <2>2, <2>3, <2>4, <2>5 DEF FirstLife, ToSet
<1>5. LaterLives(b)'
  BY <1>0 DEF LaterLives
<1>6. (Untouched(b) => Untouched(b)') /\ (Finished(b) => Finished(b)')
  BY <1>2, <1>a DEF Untouched, Finished
<1>7. /\ First(b).jqClosed => First(b).jqClosed'
      /\ First(b).rxClosed => First(b).rxClosed'
      /\ First(b).run # "none" => First(b).run' # "none"
      /\ inst'[b] = inst[b]
  BY <1>a
<1>8. graceful => OneLife(b)' /\ ~panicked'
  <2> SUFFICES ASSUME graceful PROVE OneLife(b)' /\ ~panicked'
    OBVIOUS
  <2>1. OneLife(b) /\ ~panicked
    BY <1>0 DEF StoppingHolds
  <2>2. 1..inst'[b].cursor \subseteq First(b)'.given \union dropped'[b]
    BY <1>a, <2>1 DEF OneLife
  <2> QED BY <1>a, <2>1, <2>2 DEF OneLife
<1> QED BY <1>4, <1>5, <1>6, <1>7, <1>8, LocalStep

\* What an appended channel holds.
LEMMA ToSetAppend ==
  ASSUME NEW q \in Seq(Nat), NEW n \in Nat
  PROVE  ToSet(Append(q, n)) = ToSet(q) \union {n}
<1> DEFINE a == Append(q, n)
<1>1. /\ Len(q) \in Nat /\ DOMAIN q = 1..Len(q) /\ DOMAIN a = 1..(Len(q) + 1)
      /\ a[Len(q) + 1] = n /\ \A i \in 1..Len(q) : a[i] = q[i]
  OBVIOUS
<1>2. ASSUME NEW x \in ToSet(a) PROVE x \in ToSet(q) \union {n}
  <2>1. PICK i \in DOMAIN a : x = a[i]
    BY DEF ToSet
  <2>2. CASE i = Len(q) + 1
    BY <2>1, <2>2, <1>1
  <2>3. CASE i \in 1..Len(q)
    BY <2>1, <2>3, <1>1 DEF ToSet
  <2> QED BY <1>1, <2>2, <2>3
<1>3. ASSUME NEW x \in ToSet(q) PROVE x \in ToSet(a)
  <2>1. PICK i \in DOMAIN q : x = q[i]
    BY DEF ToSet
  <2>2. i \in DOMAIN a /\ a[i] = x
    BY <2>1, <1>1
  <2> QED BY <2>2 DEF ToSet
<1>4. n \in ToSet(a)
  <2>1. Len(q) + 1 \in DOMAIN a
    BY <1>1
  <2> QED BY <1>1, <2>1 DEF ToSet
<1> QED BY <1>2, <1>3, <1>4

\* What a channel holds when its head is taken.
LEMMA ToSetTail ==
  ASSUME NEW q \in Seq(Nat), q # <<>>
  PROVE  /\ ToSet(q) = ToSet(Tail(q)) \union {Head(q)}
         /\ Head(q) \in Nat /\ Tail(q) \in Seq(Nat)
<1> DEFINE t == Tail(q)
<1>1. /\ Len(q) \in Nat \ {0} /\ DOMAIN q = 1..Len(q) /\ DOMAIN t = 1..(Len(q) - 1)
      /\ Head(q) = q[1] /\ \A i \in 1..(Len(q) - 1) : t[i] = q[i+1]
      /\ Head(q) \in Nat /\ t \in Seq(Nat)
  OBVIOUS
<1>2. ASSUME NEW x \in ToSet(q) PROVE x \in ToSet(t) \union {Head(q)}
  <2>1. PICK i \in DOMAIN q : x = q[i]
    BY DEF ToSet
  <2>2. CASE i = 1
    BY <2>1, <2>2, <1>1
  <2>3. CASE i # 1
    <3>1. i - 1 \in DOMAIN t /\ t[i - 1] = x
      BY <2>1, <2>3, <1>1
    <3> QED BY <3>1 DEF ToSet
  <2> QED BY <2>2, <2>3
<1>3. ASSUME NEW x \in ToSet(t) PROVE x \in ToSet(q)
  <2>1. PICK i \in DOMAIN t : x = t[i]
    BY DEF ToSet
  <2>2. i + 1 \in DOMAIN q /\ q[i + 1] = x
    BY <2>1, <1>1
  <2> QED BY <2>2 DEF ToSet
<1>4. Head(q) \in ToSet(q)
  <2>1. 1 \in DOMAIN q
    BY <1>1
  <2> QED BY <1>1, <2>1 DEF ToSet
<1> QED BY <1>1, <1>2, <1>3, <1>4

\* What the invariant says of a boat's first life.
LEMMA FirstFacts ==
  ASSUME InstancesInv, NEW b \in Boats
  PROVE  LET l == life[b][1]
         IN  /\ l \in Life /\ FirstLife(b) /\ LaterLives(b) /\ (graceful => OneLife(b)) /\ First(b) = l
             /\ l.run = "done" => l.rx = <<>> /\ l.rxClosed
             /\ l.jqClosed \/ l.cancelled => l.run = "done"
             /\ l.writer = "done" => l.run = "done" /\ l.jq = <<>> /\ l.mem = {}
             /\ l.doneClosed => l.writer = "done"
             /\ l # NoLife => l.run # "none"
             /\ graceful => (l.writer = "new" => inst[b].done = 1) /\ (l.writer = "running" => l.doneCh = 1)
<1>1. ITypeOK /\ FirstLife(b) /\ LaterLives(b) /\ (graceful => OneLife(b))
  BY DEF InstancesInv
<1>2. life[b][1] \in Life
  BY <1>1, OneIsALife, LifeAt
<1>3. Fresh(b) => life[b][1] = NoLife
  BY OneIsALife DEF Fresh
<1> QED BY <1>1, <1>2, <1>3 DEF FirstLife, OneLife, First

\* A step of a life's goroutines that closes no channel, l before and m after it.
LEMMA GoroutineStep ==
  ASSUME InstancesInv, NEW b \in Boats, NEW k \in Lives, NEW l, l = life[b][k], NEW m \in Life, SetLife(b, k, m),
         UNCHANGED <<graceful, phase, stopping, held, inst, liveStream, saved, panicked, keeper>>,
         disk' \in [Boats -> SUBSET Nat], dropped' \in [Boats -> SUBSET Nat],
         disk[b] \subseteq disk'[b], dropped[b] \subseteq dropped'[b],
         \A c \in Boats : c # b => disk'[c] = disk[c] /\ dropped'[c] = dropped[c],
         l.run = "running" \/ l.writer \in {"new", "running"},
         m.run = l.run \/ (m.run = "done" /\ l.rxClosed),
         l.run = "done" => m.rx = l.rx, (l.run # "done" /\ m.run = "done") => m.rx = <<>>,
         m.given = l.given, m.rxClosed = l.rxClosed, m.jqClosed = l.jqClosed, m.cancelled = l.cancelled,
         m.doneClosed = l.doneClosed,
         ToSet(l.rx) \union ToSet(l.jq) \union l.mem \subseteq
           ToSet(m.rx) \union ToSet(m.jq) \union m.mem \union disk'[b] \union dropped'[b],
         \/ m.writer = l.writer /\ m.doneCh = l.doneCh
         \/ l.writer = "new" /\ m.writer = "running" /\ m.doneCh = inst[b].done
  PROVE  InstancesInv'
<1>0. ITypeOK /\ l \in Life
  BY LifeAt DEF InstancesInv
<1>1. l # NoLife
  BY NoLifeType
<1>2. /\ life' \in [Boats -> [Lives -> Life]] /\ life'[b][k] = m
      /\ \A j \in Lives : j # k => life'[b][j] = life[b][j]
      /\ \A c \in Boats : c # b => life'[c] = life[c]
  BY <1>0, SetLifeIs
<1>3. ITypeOK'
  BY <1>0, <1>2 DEF ITypeOK
<1>4. Alone(b)
  BY <1>2 DEF Alone
<1>5. CASE k = 1
  <2>1. /\ l.writer # "done" /\ ~l.doneClosed /\ l.run # "none"
        /\ l.run = "done" => l.rx = <<>>
        /\ graceful => (l.writer = "new" => inst[b].done = 1) /\ (l.writer = "running" => l.doneCh = 1)
    BY <1>1, <1>5, FirstFacts
  <2>2. l = life[b][1] /\ m = life'[b][1]
    BY <1>2, <1>5
  <2>3. \A j \in Lives \ {1} : life'[b][j] = life[b][j]
    BY <1>2, <1>5
  <2>4. m.run = "done" => m.rx = <<>>
    BY <2>1
  <2>5. m.writer # "done" /\ (m.writer = "new" => l.writer = "new") /\ ~m.doneClosed
        /\ (l.writer \in {"new", "running"} => m.writer \in {"new", "running"})
        /\ (graceful => (m.writer = "running" => m.doneCh = 1))
    BY <2>1
  <2> QED BY <1>3, <1>4, <2>1, <2>2, <2>3, <2>4, <2>5, FirstStep
<1>6. CASE k # 1
  <2>1. life'[b][1] = life[b][1]
    BY <1>2, <1>6, OneIsALife
  <2>2. ASSUME NEW j \in Lives \ {1}
        PROVE  ~life'[b][j].jqClosed /\ life'[b][j].doneCh # 1 /\ (life'[b][j].writer # "none" => inst[b].done # 1)
    <3>1. /\ ~life[b][j].jqClosed /\ life[b][j].doneCh # 1
          /\ life[b][j].writer # "none" => inst[b].done # 1
      BY FirstFacts DEF LaterLives
    <3>2. CASE j # k
      BY <1>2, <3>1, <3>2
    <3>3. CASE j = k
      BY <1>2, <3>1, <3>3
    <3> QED BY <3>2, <3>3
  <2> QED BY <1>1, <1>3, <1>4, <1>6, <2>1, <2>2, LaterStep
<1> QED BY <1>5, <1>6

\* Adding to the numbers kept for one boat.
LEMMA Grown ==
  ASSUME NEW f \in [Boats -> SUBSET Nat], NEW b \in Boats, NEW S \in SUBSET Nat,
         NEW g, g = [f EXCEPT ![b] = @ \union S]
  PROVE  /\ g \in [Boats -> SUBSET Nat] /\ g[b] = f[b] \union S
         /\ \A c \in Boats : c # b => g[c] = f[c]
OBVIOUS

\* Broker.Run handling a frame keeps the invariant.
LEMMA BrokerStepHolds ==
  ASSUME InstancesInv, NEW b \in Boats, NEW k \in Lives, BrokerStep(b, k)
  PROVE  InstancesInv'
<1> DEFINE l == life[b][k]
           h == Head(l.rx)
<1>0. ITypeOK /\ l \in Life /\ disk \in [Boats -> SUBSET Nat] /\ dropped \in [Boats -> SUBSET Nat]
  BY LifeAt DEF InstancesInv, ITypeOK
<1>1. /\ l.run = "running" /\ l.rx # <<>>
      /\ UNCHANGED <<graceful, phase, stopping, held, inst, liveStream, disk, saved, panicked, keeper>>
  BY DEF BrokerStep, mainVars, keeperVars
<1>2. l.rx \in Seq(Nat) /\ l.jq \in Seq(Nat) /\ l.mem \subseteq Nat
  BY <1>0, LifeFields
<1>3. ToSet(l.rx) = ToSet(Tail(l.rx)) \union {h} /\ h \in Nat /\ Tail(l.rx) \in Seq(Nat)
  BY <1>1, <1>2, ToSetTail
<1>4. CASE Len(l.jq) < JournalCap
  <2> DEFINE m == [l EXCEPT !.rx = Tail(@), !.jq = Append(@, h)]
  <2>1. SetLife(b, k, m) /\ dropped' = dropped
    BY <1>4 DEF BrokerStep
  <2>2. ToSet(Append(l.jq, h)) = ToSet(l.jq) \union {h} /\ Append(l.jq, h) \in Seq(Nat)
    BY <1>2, <1>3, ToSetAppend
  <2>3. m \in Life /\ m.rx = Tail(l.rx) /\ m.jq = Append(l.jq, h)
    BY <1>0, <1>3, <2>2 DEF Life
  <2>4. /\ m.given = l.given /\ m.mem = l.mem /\ m.run = l.run /\ m.rxClosed = l.rxClosed
        /\ m.jqClosed = l.jqClosed /\ m.cancelled = l.cancelled /\ m.writer = l.writer /\ m.doneCh = l.doneCh
        /\ m.doneClosed = l.doneClosed
    BY <1>0 DEF Life
  <2> HIDE DEF m, l, h
  <2>5. ToSet(l.rx) \union ToSet(l.jq) \union l.mem \subseteq
          ToSet(m.rx) \union ToSet(m.jq) \union m.mem \union disk'[b] \union dropped'[b]
    BY <1>3, <2>2, <2>3, <2>4
  <2> QED BY <1>0, <1>1, <2>1, <2>3, <2>4, <2>5, GoroutineStep DEF l
<1>5. CASE ~(Len(l.jq) < JournalCap)
  <2> DEFINE m == [l EXCEPT !.rx = Tail(@)]
  <2>1. SetLife(b, k, m) /\ dropped' = [dropped EXCEPT ![b] = @ \union {h}]
    BY <1>5 DEF BrokerStep
  <2>2. /\ dropped' \in [Boats -> SUBSET Nat] /\ dropped'[b] = dropped[b] \union {h}
        /\ \A c \in Boats : c # b => dropped'[c] = dropped[c]
    BY <1>0, <1>3, <2>1, Grown
  <2>3. m \in Life /\ m.rx = Tail(l.rx) /\ m.jq = l.jq
    BY <1>0, <1>3 DEF Life
  <2>4. /\ m.given = l.given /\ m.mem = l.mem /\ m.run = l.run /\ m.rxClosed = l.rxClosed
        /\ m.jqClosed = l.jqClosed /\ m.cancelled = l.cancelled /\ m.writer = l.writer /\ m.doneCh = l.doneCh
        /\ m.doneClosed = l.doneClosed
    BY <1>0 DEF Life
  <2> HIDE DEF m, l, h
  <2>5. ToSet(l.rx) \union ToSet(l.jq) \union l.mem \subseteq
          ToSet(m.rx) \union ToSet(m.jq) \union m.mem \union disk'[b] \union dropped'[b]
    BY <1>3, <2>2, <2>3, <2>4
  <2> QED BY <1>0, <1>1, <2>1, <2>2, <2>3, <2>4, <2>5, GoroutineStep DEF l
<1> QED BY <1>4, <1>5

\* Broker.Run returning keeps the invariant.
LEMMA BrokerExitHolds ==
  ASSUME InstancesInv, NEW b \in Boats, NEW k \in Lives, BrokerExit(b, k)
  PROVE  InstancesInv'
<1> DEFINE l == life[b][k]
           m == [l EXCEPT !.run = "done"]
<1>0. l \in Life /\ disk \in [Boats -> SUBSET Nat] /\ dropped \in [Boats -> SUBSET Nat]
  BY LifeAt DEF InstancesInv, ITypeOK
<1>1. /\ l.run = "running" /\ l.rx = <<>> /\ l.rxClosed /\ SetLife(b, k, m)
      /\ UNCHANGED <<graceful, phase, stopping, held, inst, liveStream, disk, saved, dropped, panicked, keeper>>
  BY DEF BrokerExit, mainVars, keeperVars
<1>2. m \in Life /\ m.run = "done"
  BY <1>0 DEF Life
<1>3. /\ m.rx = l.rx /\ m.jq = l.jq /\ m.given = l.given /\ m.mem = l.mem /\ m.rxClosed = l.rxClosed
      /\ m.jqClosed = l.jqClosed /\ m.cancelled = l.cancelled /\ m.writer = l.writer /\ m.doneCh = l.doneCh
      /\ m.doneClosed = l.doneClosed
  BY <1>0 DEF Life
<1> HIDE DEF m, l
<1>4. ToSet(l.rx) \union ToSet(l.jq) \union l.mem \subseteq
        ToSet(m.rx) \union ToSet(m.jq) \union m.mem \union disk'[b] \union dropped'[b]
  BY <1>3
<1> QED BY <1>0, <1>1, <1>2, <1>3, <1>4, GoroutineStep DEF l

\* The writer goroutine's start, where the deferred close reads journalDone, keeps the invariant.
LEMMA WriterStartHolds ==
  ASSUME InstancesInv, NEW b \in Boats, NEW k \in Lives, WriterStart(b, k)
  PROVE  InstancesInv'
<1> DEFINE l == life[b][k]
           m == [l EXCEPT !.writer = "running", !.doneCh = inst[b].done]
<1>0. l \in Life /\ disk \in [Boats -> SUBSET Nat] /\ dropped \in [Boats -> SUBSET Nat] /\ inst[b].done \in 0..MaxLives
  BY LifeAt, FieldsAt DEF InstancesInv, ITypeOK
<1>1. /\ l.writer = "new" /\ SetLife(b, k, m)
      /\ UNCHANGED <<graceful, phase, stopping, held, inst, liveStream, disk, saved, dropped, panicked, keeper>>
  BY DEF WriterStart, mainVars, keeperVars
<1>2. m \in Life /\ m.writer = "running" /\ m.doneCh = inst[b].done
  BY <1>0 DEF Life
<1>3. /\ m.rx = l.rx /\ m.jq = l.jq /\ m.given = l.given /\ m.mem = l.mem /\ m.rxClosed = l.rxClosed
      /\ m.jqClosed = l.jqClosed /\ m.cancelled = l.cancelled /\ m.run = l.run
      /\ m.doneClosed = l.doneClosed
  BY <1>0 DEF Life
<1> HIDE DEF m, l
<1>4. ToSet(l.rx) \union ToSet(l.jq) \union l.mem \subseteq
        ToSet(m.rx) \union ToSet(m.jq) \union m.mem \union disk'[b] \union dropped'[b]
  BY <1>3
<1> QED BY <1>0, <1>1, <1>2, <1>3, <1>4, GoroutineStep DEF l

\* The writer taking a frame, or discarding it while paused, keeps the invariant.
LEMMA WriterStepHolds ==
  ASSUME InstancesInv, NEW b \in Boats, NEW k \in Lives, WriterStep(b, k)
  PROVE  InstancesInv'
<1> DEFINE l == life[b][k]
           h == Head(l.jq)
<1>0. ITypeOK /\ l \in Life /\ disk \in [Boats -> SUBSET Nat] /\ dropped \in [Boats -> SUBSET Nat]
  BY LifeAt DEF InstancesInv, ITypeOK
<1>1. /\ l.writer = "running" /\ l.jq # <<>>
      /\ UNCHANGED <<graceful, phase, stopping, held, inst, liveStream, disk, saved, panicked, keeper>>
  BY DEF WriterStep, mainVars, keeperVars
<1>2. l.rx \in Seq(Nat) /\ l.jq \in Seq(Nat) /\ l.mem \subseteq Nat
  BY <1>0, LifeFields
<1>3. ToSet(l.jq) = ToSet(Tail(l.jq)) \union {h} /\ h \in Nat /\ Tail(l.jq) \in Seq(Nat)
  BY <1>1, <1>2, ToSetTail
<1>4. CASE ~l.paused
  <2> DEFINE m == [l EXCEPT !.jq = Tail(@), !.mem = @ \union {h}]
  <2>1. SetLife(b, k, m) /\ dropped' = dropped
    BY <1>4 DEF WriterStep
  <2>3. m \in Life /\ m.jq = Tail(l.jq) /\ m.mem = l.mem \union {h}
    <3>1. l.mem \union {h} \in SUBSET Nat
      BY <1>2, <1>3
    <3> HIDE DEF h
    <3> QED BY <1>0, <1>3, <3>1 DEF Life
  <2>4. /\ m.given = l.given /\ m.rx = l.rx /\ m.run = l.run /\ m.rxClosed = l.rxClosed
        /\ m.jqClosed = l.jqClosed /\ m.cancelled = l.cancelled /\ m.writer = l.writer /\ m.doneCh = l.doneCh
        /\ m.doneClosed = l.doneClosed
    BY <1>0 DEF Life
  <2> HIDE DEF m, l, h
  <2>5. ToSet(l.rx) \union ToSet(l.jq) \union l.mem \subseteq
          ToSet(m.rx) \union ToSet(m.jq) \union m.mem \union disk'[b] \union dropped'[b]
    BY <1>3, <2>3, <2>4
  <2> QED BY <1>0, <1>1, <2>1, <2>3, <2>4, <2>5, GoroutineStep DEF l
<1>5. CASE l.paused
  <2> DEFINE m == [l EXCEPT !.jq = Tail(@)]
  <2>1. SetLife(b, k, m) /\ dropped' = [dropped EXCEPT ![b] = @ \union {h}]
    BY <1>5 DEF WriterStep
  <2>2. /\ dropped' \in [Boats -> SUBSET Nat] /\ dropped'[b] = dropped[b] \union {h}
        /\ \A c \in Boats : c # b => dropped'[c] = dropped[c]
    BY <1>0, <1>3, <2>1, Grown
  <2>3. m \in Life /\ m.jq = Tail(l.jq) /\ m.mem = l.mem
    BY <1>0, <1>3 DEF Life
  <2>4. /\ m.given = l.given /\ m.rx = l.rx /\ m.run = l.run /\ m.rxClosed = l.rxClosed
        /\ m.jqClosed = l.jqClosed /\ m.cancelled = l.cancelled /\ m.writer = l.writer /\ m.doneCh = l.doneCh
        /\ m.doneClosed = l.doneClosed
    BY <1>0 DEF Life
  <2> HIDE DEF m, l, h
  <2>5. ToSet(l.rx) \union ToSet(l.jq) \union l.mem \subseteq
          ToSet(m.rx) \union ToSet(m.jq) \union m.mem \union disk'[b] \union dropped'[b]
    BY <1>3, <2>2, <2>3, <2>4
  <2> QED BY <1>0, <1>1, <2>1, <2>2, <2>3, <2>4, <2>5, GoroutineStep DEF l
<1> QED BY <1>4, <1>5

\* A rotation keeps the invariant.
LEMMA WriterRotateHolds ==
  ASSUME InstancesInv, NEW b \in Boats, NEW k \in Lives, WriterRotate(b, k)
  PROVE  InstancesInv'
<1> DEFINE l == life[b][k]
           m == [l EXCEPT !.mem = {}]
<1>0. l \in Life /\ disk \in [Boats -> SUBSET Nat] /\ dropped \in [Boats -> SUBSET Nat] /\ l.mem \in SUBSET Nat
  BY LifeAt, LifeFields DEF InstancesInv, ITypeOK
<1>1. /\ l.writer = "running" /\ SetLife(b, k, m) /\ disk' = [disk EXCEPT ![b] = @ \union l.mem]
      /\ UNCHANGED <<graceful, phase, stopping, held, inst, liveStream, saved, dropped, panicked, keeper>>
  BY DEF WriterRotate, mainVars, keeperVars
<1>2. m \in Life /\ m.mem = {}
  BY <1>0 DEF Life
<1>3. /\ m.rx = l.rx /\ m.jq = l.jq /\ m.given = l.given /\ m.rxClosed = l.rxClosed
      /\ m.jqClosed = l.jqClosed /\ m.cancelled = l.cancelled /\ m.run = l.run
      /\ m.doneClosed = l.doneClosed /\ m.writer = l.writer /\ m.doneCh = l.doneCh
  BY <1>0 DEF Life
<1> HIDE DEF m, l
<1>4. /\ disk' \in [Boats -> SUBSET Nat] /\ disk'[b] = disk[b] \union l.mem
      /\ \A c \in Boats : c # b => disk'[c] = disk[c]
  BY <1>0, <1>1, Grown
<1>5. ToSet(l.rx) \union ToSet(l.jq) \union l.mem \subseteq
        ToSet(m.rx) \union ToSet(m.jq) \union m.mem \union disk'[b] \union dropped'[b]
  BY <1>3, <1>4
<1> QED BY <1>0, <1>1, <1>2, <1>3, <1>4, <1>5, GoroutineStep DEF l

\* Replacing one life of one boat.
LEMMA LifeSet ==
  ASSUME NEW f \in [Boats -> [Lives -> Life]], NEW b \in Boats, NEW k \in Lives, NEW l \in Life,
         NEW g, g = [f EXCEPT ![b][k] = l]
  PROVE  /\ g \in [Boats -> [Lives -> Life]] /\ g[b][k] = l
         /\ \A j \in Lives : j # k => g[b][j] = f[b][j]
         /\ \A c \in Boats : c # b => g[c] = f[c]
OBVIOUS

\* A writer that ends closes the channel j it found: the lives after the step.
LEMMA WriterEndsIs ==
  ASSUME ITypeOK, NEW b \in Boats, NEW k \in Lives, NEW j \in Lives,
         life' = [life EXCEPT ![b][k].writer = "done", ![b][k].mem = {}, ![b][j].doneClosed = TRUE]
  PROVE  /\ life' \in [Boats -> [Lives -> Life]]
         /\ \A c \in Boats : c # b => life'[c] = life[c]
         /\ \A i \in Lives \ {j, k} : life'[b][i] = life[b][i]
         /\ j # k => life'[b][k] = [life[b][k] EXCEPT !.writer = "done", !.mem = {}]
         /\ j # k => life'[b][j] = [life[b][j] EXCEPT !.doneClosed = TRUE]
         /\ j = k => life'[b][k] = [life[b][k] EXCEPT !.writer = "done", !.mem = {}, !.doneClosed = TRUE]
<1> DEFINE x == [life[b][k] EXCEPT !.writer = "done", !.mem = {}]
           f == [life EXCEPT ![b][k] = x]
           y == [f[b][j] EXCEPT !.doneClosed = TRUE]
<1>1. life \in [Boats -> [Lives -> Life]] /\ life[b][k] \in Life
  BY DEF ITypeOK
<1>2. x \in Life
  <2> DEFINE u == life[b][k]
  <2>1. [u EXCEPT !.writer = "done", !.mem = {}] \in Life
    <3> HIDE DEF u
    <3>1. u \in Life
      BY <1>1 DEF u
    <3> QED BY <3>1 DEF Life
  <2> QED BY <2>1
<1>3. life' = [f EXCEPT ![b][j] = y]
  BY <1>1
<1> HIDE DEF x
<1>4. f \in [Boats -> [Lives -> Life]] /\ f[b][k] = x
      /\ (\A i \in Lives : i # k => f[b][i] = life[b][i]) /\ (\A c \in Boats : c # b => f[c] = life[c])
  BY <1>1, <1>2, LifeSet
<1> HIDE DEF f
<1>5. y \in Life
  <2>1. f[b][j] \in Life
    BY <1>4
  <2> QED BY <2>1 DEF Life
<1> HIDE DEF y
<1>6. life' \in [Boats -> [Lives -> Life]] /\ life'[b][j] = y
      /\ (\A i \in Lives : i # j => life'[b][i] = f[b][i]) /\ (\A c \in Boats : c # b => life'[c] = f[c])
  <2> DEFINE g == [f EXCEPT ![b][j] = y]
  <2>1. g \in [Boats -> [Lives -> Life]] /\ g[b][j] = y
        /\ (\A i \in Lives : i # j => g[b][i] = f[b][i]) /\ (\A c \in Boats : c # b => g[c] = f[c])
    BY <1>4, <1>5, LifeSet
  <2>2. life' = g
    BY <1>3
  <2> HIDE DEF g
  <2> QED BY <2>1, <2>2
<1>7. j = k => y = [life[b][k] EXCEPT !.writer = "done", !.mem = {}, !.doneClosed = TRUE]
  BY <1>1, <1>4 DEF y, x, Life
<1>8. j # k => y = [life[b][j] EXCEPT !.doneClosed = TRUE]
  BY <1>4 DEF y
<1>9. j # k => life'[b][k] = [life[b][k] EXCEPT !.writer = "done", !.mem = {}]
  BY <1>4, <1>6 DEF x
<1>10. \A c \in Boats : c # b => life'[c] = life[c]
  BY <1>4, <1>6
<1>11. \A i \in Lives \ {j, k} : life'[b][i] = life[b][i]
  BY <1>4, <1>6
<1> QED BY <1>6, <1>7, <1>8, <1>9, <1>10, <1>11

\* The writer draining, finalizing and closing the channel it found keeps the invariant.
LEMMA WriterExitHolds ==
  ASSUME InstancesInv, NEW b \in Boats, NEW k \in Lives, WriterExit(b, k)
  PROVE  InstancesInv'
<1> DEFINE l == life[b][k]
           j == l.doneCh
<1>0. ITypeOK /\ l \in Life /\ disk \in [Boats -> SUBSET Nat] /\ dropped \in [Boats -> SUBSET Nat]
      /\ l.mem \in SUBSET Nat /\ j \in 0..MaxLives
  BY LifeAt, LifeFields DEF InstancesInv, ITypeOK
<1>1. /\ l.writer = "running" /\ l.jq = <<>> /\ (l.jqClosed \/ l.cancelled)
      /\ disk' = [disk EXCEPT ![b] = @ \union l.mem]
      /\ UNCHANGED <<graceful, phase, stopping, held, inst, liveStream, saved, dropped, keeper>>
  BY DEF WriterExit, mainVars
<1>2. /\ disk' \in [Boats -> SUBSET Nat] /\ disk'[b] = disk[b] \union l.mem
      /\ \A c \in Boats : c # b => disk'[c] = disk[c]
  BY <1>0, <1>1, Grown
<1>3. l # NoLife
  BY <1>1, NoLifeType
<1>4. graceful => k = 1 /\ j = 1 /\ ~life[b][j].doneClosed
  <2> SUFFICES ASSUME graceful PROVE k = 1 /\ j = 1 /\ ~life[b][j].doneClosed
    OBVIOUS
  <2>1. k = 1
    BY <1>3, FirstFacts DEF OneLife
  <2> QED BY <1>1, <2>1, FirstFacts
<1>5. CASE j # 0 /\ ~life[b][j].doneClosed
  <2>0. j \in Lives
    BY <1>0, <1>5, OneIsALife
  <2>1. life' = [life EXCEPT ![b][k].writer = "done", ![b][k].mem = {}, ![b][j].doneClosed = TRUE]
        /\ panicked' = panicked
    BY <1>5 DEF WriterExit
  <2> HIDE DEF j
  <2>2. /\ life' \in [Boats -> [Lives -> Life]]
        /\ \A c \in Boats : c # b => life'[c] = life[c]
        /\ \A i \in Lives \ {j, k} : life'[b][i] = life[b][i]
        /\ j # k => life'[b][k] = [l EXCEPT !.writer = "done", !.mem = {}]
        /\ j # k => life'[b][j] = [life[b][j] EXCEPT !.doneClosed = TRUE]
        /\ j = k => life'[b][k] = [l EXCEPT !.writer = "done", !.mem = {}, !.doneClosed = TRUE]
    BY <1>0, <2>0, <2>1, WriterEndsIs
  <2>3. ITypeOK' /\ Alone(b)
    BY <1>0, <1>1, <1>2, <2>1, <2>2 DEF ITypeOK, Alone
  <2> DEFINE m == life'[b][k]
  <2>4. /\ m.writer = "done" /\ m.mem = {} /\ m.jq = l.jq /\ m.rx = l.rx /\ m.given = l.given /\ m.run = l.run
        /\ m.rxClosed = l.rxClosed /\ m.jqClosed = l.jqClosed /\ m.cancelled = l.cancelled /\ m.doneCh = l.doneCh
        /\ l.doneClosed => m.doneClosed
    <3>1. CASE j = k
      BY <1>0, <2>2, <3>1, ZenonT(90) DEF Life
    <3>2. CASE j # k
      BY <1>0, <2>2, <3>2, ZenonT(90) DEF Life
    <3> QED BY <3>1, <3>2
  <2>5. j # k => LET o == life'[b][j] IN
          /\ o.jqClosed = life[b][j].jqClosed /\ o.doneCh = life[b][j].doneCh /\ o.writer = life[b][j].writer
    <3>1. life[b][j] \in Life
      BY <1>0, <2>0, LifeAt
    <3> QED BY <2>2, <3>1 DEF Life
  <2>6. CASE k = 1
    <3>1. l = life[b][1] /\ m = life'[b][1]
      BY <2>6
    <3>2. /\ l.run = "done" /\ l.rx = <<>> /\ l.run # "none" /\ l.rxClosed
      BY <1>1, <2>6, FirstFacts
    <3>3. ASSUME NEW i \in Lives \ {1}
          PROVE  /\ life'[b][i].jqClosed = life[b][i].jqClosed /\ life'[b][i].doneCh = life[b][i].doneCh
                 /\ life'[b][i].writer = life[b][i].writer /\ (graceful => life'[b][i] = life[b][i])
      BY <1>4, <2>2, <2>5, <2>6
    <3>4. ToSet(l.rx) \union ToSet(l.jq) \union l.mem \subseteq
            ToSet(m.rx) \union ToSet(m.jq) \union m.mem \union disk'[b] \union dropped'[b]
      BY <1>2, <2>4
    <3> HIDE DEF m, l
    <3>5. disk[b] \subseteq disk'[b] /\ dropped[b] \subseteq dropped'[b]
      BY <1>1, <1>2
    <3>6. /\ m.run = l.run /\ (m.run = "done" => m.rx = <<>>)
          /\ (m.writer = "done" => m.run = "done" /\ m.jq = <<>> /\ m.mem = {})
          /\ (m.doneClosed => m.writer = "done") /\ (l.doneClosed => m.doneClosed)
          /\ (m.writer = "new" => l.writer = "new") /\ (m.writer = "running" => m.doneCh = 1)
          /\ ((l.writer \in {"new", "running"} /\ ~l.jqClosed /\ ~l.cancelled) => m.writer \in {"new", "running"})
      BY <1>1, <2>4, <3>2
    <3>7. UNCHANGED <<graceful, phase, stopping, held, inst, liveStream, saved, panicked>>
      BY <1>1, <2>1
    <3>8. m.given = l.given /\ m.rxClosed = l.rxClosed /\ m.jqClosed = l.jqClosed /\ m.cancelled = l.cancelled
      BY <2>4
    <3>9. PICK u, v : u = l /\ v = m
      OBVIOUS
    <3>10. /\ u = life[b][1] /\ v = life'[b][1] /\ u.run # "none"
           /\ v.run = u.run /\ (v.run = "done" => v.rx = <<>>)
           /\ (v.writer = "done" => v.run = "done" /\ v.jq = <<>> /\ v.mem = {})
           /\ (v.doneClosed => v.writer = "done") /\ (u.doneClosed => v.doneClosed)
           /\ (v.writer = "new" => u.writer = "new") /\ (v.writer = "running" => v.doneCh = 1)
           /\ ((u.writer \in {"new", "running"} /\ ~u.jqClosed /\ ~u.cancelled) => v.writer \in {"new", "running"})
           /\ v.given = u.given /\ v.rxClosed = u.rxClosed /\ v.jqClosed = u.jqClosed /\ v.cancelled = u.cancelled
           /\ ToSet(u.rx) \union ToSet(u.jq) \union u.mem \subseteq
                ToSet(v.rx) \union ToSet(v.jq) \union v.mem \union disk'[b] \union dropped'[b]
      BY <3>1, <3>2, <3>4, <3>6, <3>8, <3>9
    <3> QED BY <2>3, <3>3, <3>5, <3>7, <3>10, FirstStep
  <2>7. CASE k # 1
    <3>1. LaterLives(b)
      BY FirstFacts
    <3>2. j # 1
      BY <2>7, <3>1 DEF LaterLives, j
    <3>3. life'[b][1] = life[b][1]
      BY <2>2, <2>7, <3>2, OneIsALife
    <3>4. ASSUME NEW i \in Lives \ {1}
          PROVE  ~life'[b][i].jqClosed /\ life'[b][i].doneCh # 1 /\ (life'[b][i].writer # "none" => inst[b].done # 1)
      <4>1. /\ ~life[b][i].jqClosed /\ life[b][i].doneCh # 1 /\ (life[b][i].writer # "none" => inst[b].done # 1)
        BY <3>1 DEF LaterLives
      <4>2. CASE i = k
        BY <1>1, <2>4, <4>1, <4>2
      <4>3. CASE i # k
        BY <2>2, <2>5, <4>1, <4>3
      <4> QED BY <4>2, <4>3
    <3> QED BY <1>1, <1>2, <1>3, <2>3, <2>7, <3>3, <3>4, LaterStep
  <2> QED BY <2>6, <2>7
<1>6. CASE ~(j # 0 /\ ~life[b][j].doneClosed)
  <2>1. panicked' = TRUE /\ life' = life
    BY <1>6 DEF WriterExit
  <2>2. ~graceful
    BY <1>4, <1>6
  <2>3. panicked' \in BOOLEAN
    BY <2>1
  <2>4. ITypeOK'
    BY <1>0, <1>1, <1>2, <2>1, <2>3 DEF ITypeOK
  <2>5. Alone(b)
    BY <1>1, <1>2, <2>1 DEF Alone
  <2>6. First(b)' = First(b) /\ Fresh(b)' = Fresh(b)
    BY <1>1, <2>1 DEF First, Fresh
  <2>7. FirstLife(b)'
    BY <1>1, <1>2, <2>6, FirstFacts DEF FirstLife, ToSet
  <2>8. LaterLives(b)' /\ (Untouched(b) => Untouched(b)') /\ (Finished(b) => Finished(b)')
    BY <1>1, <2>1, <2>6, FirstFacts DEF LaterLives, Untouched, Finished
  <2> QED BY <1>1, <2>2, <2>4, <2>5, <2>6, <2>7, <2>8, LocalStep
<1> QED BY <1>5, <1>6
-----------------------------------------------------------------------------
(* The handlers *)

Born == [NoLife EXCEPT !.run = "running", !.writer = "new"]

\* The life that ensureBroker starts.
LEMMA BornType ==
  /\ Born \in Life /\ Born.run = "running" /\ Born.writer = "new" /\ Born.doneCh = 0
  /\ Born.rx = <<>> /\ Born.jq = <<>> /\ Born.mem = {} /\ Born.given = {}
  /\ ~Born.rxClosed /\ ~Born.jqClosed /\ ~Born.cancelled /\ ~Born.doneClosed
BY NoLifeType DEF Born, Life

\* The lives started are counted: none of a fresh boat, one at least of another.
LEMMA StartedIs ==
  ASSUME InstancesInv, NEW b \in Boats
  PROVE  /\ Started(b) \in Nat
         /\ Fresh(b) => Started(b) = 0
         /\ ~Fresh(b) => Started(b) # 0
<1> DEFINE S == {k \in Lives : life[b][k].run # "none"}
<1>1. IsFiniteSet(Lives)
  BY FS_Interval, InstancesAssumption DEF Lives
<1>2. IsFiniteSet(S) /\ Cardinality(S) \in Nat
  BY <1>1, FS_Subset, FS_CardinalityType
<1>3. Fresh(b) => S = {}
  BY NoLifeType DEF Fresh
<1>4. ~Fresh(b) => 1 \in S
  BY OneIsALife, FirstFacts DEF FirstLife
<1>5. Started(b) = Cardinality(S)
  BY DEF Started
<1> HIDE DEF S
<1>6. (Cardinality(S) = 0) <=> (S = {})
  BY <1>2, FS_EmptySet
<1> QED BY <1>2, <1>3, <1>4, <1>5, <1>6

\* What ensureBroker leaves: the broker there was, or a new life.
LEMMA Ensured ==
  ASSUME InstancesInv, NEW b \in Boats, MayStart(b)
  PROVE  LET k == BrokerOf(b) e == EnsuredInst(b) g == EnsuredLife(b)
         IN  /\ k \in Lives /\ e \in Fields /\ e.known = TRUE /\ e.broker = k /\ e.cursor = inst[b].cursor
             /\ g \in [Lives -> Life]
             /\ inst[b].broker # 0 => k = inst[b].broker /\ g = life[b] /\ e.ch = inst[b].ch /\ e.done = inst[b].done
             /\ inst[b].broker = 0 => /\ e.ch = k /\ e.done = k /\ g[k] = Born
                                      /\ \A j \in Lives : j # k => g[j] = life[b][j]
                                      /\ (k = 1) <=> Fresh(b)
<1>0. ITypeOK /\ inst[b] \in Fields /\ life[b] \in [Lives -> Life] /\ inst[b].broker \in 0..MaxLives
  BY FieldsAt, LifeAt, OneIsALife DEF InstancesInv
<1>1. CASE inst[b].broker # 0
  <2>1. BrokerOf(b) = inst[b].broker /\ EnsuredLife(b) = life[b] /\ EnsuredInst(b) = [inst[b] EXCEPT !.known = TRUE]
    BY <1>1 DEF BrokerOf, EnsuredLife, EnsuredInst
  <2>2. inst[b].broker \in Lives
    BY <1>0, <1>1, OneIsALife
  <2>3. [inst[b] EXCEPT !.known = TRUE] \in Fields
    BY <1>0 DEF Fields
  <2>4. EnsuredInst(b).known = TRUE /\ EnsuredInst(b).broker = inst[b].broker /\ EnsuredInst(b).cursor = inst[b].cursor
        /\ EnsuredInst(b).ch = inst[b].ch /\ EnsuredInst(b).done = inst[b].done
    BY <1>0, <2>1 DEF Fields
  <2> QED BY <1>0, <1>1, <2>1, <2>2, <2>3, <2>4
<1>2. CASE inst[b].broker = 0
  <2> DEFINE k == Started(b) + 1
             e == [inst[b] EXCEPT !.known = TRUE, !.broker = k, !.ch = k, !.done = k]
             g == [life[b] EXCEPT ![k] = Born]
  <2>1. Started(b) < MaxLives
    BY <1>2 DEF MayStart
  <2>2. k \in Lives /\ k \in 0..MaxLives /\ ((k = 1) <=> Fresh(b))
    <3>1. Started(b) \in Nat
      BY StartedIs
    <3>2. k \in Lives /\ k \in 0..MaxLives
      BY <2>1, <3>1, InstancesAssumption DEF Lives
    <3>3. (k = 1) <=> (Started(b) = 0)
      BY <3>1
    <3>4. (Started(b) = 0) <=> Fresh(b)
      BY StartedIs
    <3> HIDE DEF k
    <3>5. Fresh(b) \in BOOLEAN
      BY DEF Fresh
    <3> QED BY <3>2, <3>3, <3>4, <3>5
  <2>3. BrokerOf(b) = k /\ EnsuredLife(b) = g /\ EnsuredInst(b) = e
    BY <1>2 DEF BrokerOf, EnsuredLife, EnsuredInst, Born
  <2> HIDE DEF k
  <2>4. e \in Fields /\ e.known = TRUE /\ e.broker = k /\ e.ch = k /\ e.done = k /\ e.cursor = inst[b].cursor
    BY <1>0, <2>2 DEF Fields
  <2>5. g \in [Lives -> Life] /\ g[k] = Born /\ \A j \in Lives : j # k => g[j] = life[b][j]
    BY <1>0, <2>2, BornType
  <2> HIDE DEF e, g
  <2> QED BY <1>2, <2>2, <2>3, <2>4, <2>5
<1> QED BY <1>1, <1>2
\* A handler that serves boat b through its broker: m is the broker's life after
\* the step, which may have given it one frame, c the cursor.
LEMMA Served ==
  ASSUME InstancesInv, NEW b \in Boats, b \notin held, MayStart(b), NEW k, k = BrokerOf(b),
         NEW l, l = EnsuredLife(b)[k], NEW m \in Life, NEW c \in Nat,
         Fresh(b) \/ graceful => phase \in {"serving", "draining"},
         UNCHANGED <<graceful, phase, stopping, held, panicked>>, ITypeOK', Alone(b),
         inst'[b].known = TRUE, inst'[b].broker = k, inst'[b].ch = EnsuredInst(b).ch,
         inst'[b].done = EnsuredInst(b).done, inst'[b].cursor = c,
         life'[b][k] = m, \A j \in Lives : j # k => life'[b][j] = EnsuredLife(b)[j],
         disk[b] \subseteq disk'[b], dropped[b] \subseteq dropped'[b],
         m.run = l.run, m.rxClosed = l.rxClosed, m.jq = l.jq, m.jqClosed = l.jqClosed, m.cancelled = l.cancelled,
         m.writer = l.writer, m.doneCh = l.doneCh, m.doneClosed = l.doneClosed, m.mem = l.mem,
         ToSet(l.rx) \subseteq ToSet(m.rx), l.given \subseteq m.given, m.given \subseteq l.given \union ToSet(m.rx),
         1..c \subseteq (1..inst[b].cursor) \union m.given \union dropped'[b], graceful => saved'[b] <= c
  PROVE  InstancesInv'
<1>0. FirstLife(b) /\ LaterLives(b) /\ StageOf(b) /\ (graceful => OneLife(b)) /\ StoppingHolds /\ ITypeOK
  BY DEF InstancesInv
<1>a. /\ k \in Lives /\ EnsuredInst(b).broker = k /\ EnsuredLife(b) \in [Lives -> Life]
      /\ inst[b].broker # 0 => /\ k = inst[b].broker /\ EnsuredLife(b) = life[b]
                               /\ inst'[b].ch = inst[b].ch /\ inst'[b].done = inst[b].done
      /\ inst[b].broker = 0 => /\ inst'[b].ch = k /\ inst'[b].done = k /\ l = Born
                               /\ \A j \in Lives : j # k => EnsuredLife(b)[j] = life[b][j]
                               /\ (k = 1) <=> Fresh(b)
  <2>1. LET e == EnsuredInst(b) g == EnsuredLife(b)
        IN  /\ k \in Lives /\ e.broker = k /\ g \in [Lives -> Life]
            /\ inst[b].broker # 0 => k = inst[b].broker /\ g = life[b] /\ e.ch = inst[b].ch /\ e.done = inst[b].done
            /\ inst[b].broker = 0 => /\ e.ch = k /\ e.done = k /\ g[k] = Born
                                     /\ \A j \in Lives : j # k => g[j] = life[b][j]
                                     /\ (k = 1) <=> Fresh(b)
    BY Ensured, ZenonT(90)
  <2> QED BY <2>1
<1>b. phase \in {"serving", "draining"} => Untouched(b)
  BY <1>0 DEF StageOf
<1>c. First(b) = life[b][1] /\ First(b)' = life'[b][1] /\ 1 \in Lives
  BY OneIsALife DEF First
<1>d. graceful => ~panicked'
  BY <1>0 DEF StoppingHolds
<1>1. CASE inst[b].broker = 1
  <2>1. k = 1 /\ l = life[b][1] /\ First(b) = l /\ First(b)' = m /\ ~Fresh(b) /\ ~Fresh(b)'
    BY <1>1, <1>a, <1>c DEF Fresh
  <2>2. \A j \in Lives \ {1} : life'[b][j] = life[b][j]
    BY <1>1, <1>a, <2>1
  <2>3. inst'[b].ch = inst[b].ch /\ inst'[b].done = inst[b].done /\ inst'[b].broker = 1
    BY <1>1, <1>a
  <2>4. ~l.rxClosed /\ l.run # "done" /\ l.run # "none"
    BY <1>0, <1>1, <2>1 DEF FirstLife
  <2>5. FirstLife(b)'
    <3>1. m.given \subseteq ToSet(m.rx) \union ToSet(m.jq) \union m.mem \union disk'[b] \union dropped'[b]
      BY <1>0, <2>1 DEF FirstLife
    <3>2. m.jqClosed \/ m.cancelled => m.run = "done"
      BY <1>0, <2>1 DEF FirstLife
    <3>3. m.writer = "done" => m.run = "done" /\ m.jq = <<>> /\ m.mem = {}
      BY <1>0, <2>1 DEF FirstLife
    <3>4. m.doneClosed => m.writer = "done"
      BY <1>0, <2>1 DEF FirstLife
    <3> QED BY <2>1, <2>4, <3>1, <3>2, <3>3, <3>4 DEF FirstLife, ToSet
  <2>6. LaterLives(b)'
    BY <1>0, <2>2, <2>3 DEF LaterLives
  <2>7. (Untouched(b) => Untouched(b)') /\ (Finished(b) => Finished(b)')
    BY <2>1, <2>3, <2>4 DEF Untouched, Finished
  <2>8. ASSUME graceful PROVE OneLife(b)'
    <3>1. OneLife(b)
      BY <1>0, <2>8
    <3>2. 1..c \subseteq First(b)'.given \union dropped'[b]
      BY <2>1, <3>1 DEF OneLife
    <3>3. /\ \A j \in Lives \ {1} : life'[b][j] = NoLife
          /\ inst'[b].done \in {0, 1} /\ (m.writer = "new" => inst'[b].done = 1)
          /\ m.writer = "running" => m.doneCh = 1
      BY <2>1, <2>2, <2>3, <3>1 DEF OneLife
    <3> QED BY <2>1, <2>8, <3>2, <3>3 DEF OneLife
  <2>9. First(b).jqClosed => First(b).jqClosed'
    BY <2>1
  <2> QED BY <1>d, <2>5, <2>6, <2>7, <2>8, <2>9, LocalStep
<1>2. CASE inst[b].broker = 0 /\ Fresh(b)
  <2>1. k = 1 /\ l = Born /\ First(b)' = m /\ m.run = "running" /\ inst'[b].ch = 1 /\ inst'[b].done = 1
    BY <1>2, <1>a, <1>c, BornType
  <2>2. \A j \in Lives \ {1} : life'[b][j] = NoLife
    BY <1>2, <1>a, <2>1 DEF Fresh
  <2>3. ~Fresh(b)'
    BY <2>1 DEF Fresh
  <2>4. phase \in {"serving", "draining"}
    BY <1>2
  <2>5. /\ ~m.rxClosed /\ ~m.jqClosed /\ ~m.cancelled /\ ~m.doneClosed /\ m.writer = "new" /\ m.jq = <<>> /\ m.mem = {}
        /\ m.given \subseteq ToSet(m.rx)
    BY <2>1, BornType
  <2>6. FirstLife(b)'
    BY <2>1, <2>5 DEF FirstLife, ToSet
  <2>7. LaterLives(b)'
    BY <2>2, NoLifeType DEF LaterLives
  <2>8. Untouched(b)'
    BY <2>1, <2>5 DEF Untouched
  <2>9. ASSUME graceful PROVE OneLife(b)'
    <3>1. inst[b].cursor = 0
      BY <1>2 DEF Fresh
    <3>2. 1..inst[b].cursor = {}
      BY <3>1
    <3>3. 1..c \subseteq m.given \union dropped'[b]
      BY <3>2
    <3> QED BY <2>1, <2>2, <2>4, <2>5, <2>9, <3>3 DEF OneLife
  <2>10. ~First(b).jqClosed
    BY <1>2, <1>c, NoLifeType DEF Fresh
  <2> QED BY <1>d, <2>4, <2>6, <2>7, <2>8, <2>9, <2>10, LocalStep
<1>3. CASE inst[b].broker # 1 /\ ~Fresh(b)
  <2>1. ~Untouched(b) /\ ~graceful /\ phase \notin {"serving", "draining"}
    BY <1>3, <1>b DEF Untouched
  <2>2. k # 1 /\ inst'[b].broker # 1
    BY <1>3, <1>a
  <2>3. First(b)' = First(b)
    BY <1>3, <1>a, <1>c, <2>2
  <2>4. First(b).run # "none"
    BY <1>0, <1>3 DEF FirstLife
  <2>5. ~Fresh(b)'
    BY <2>3, <2>4, <1>c, NoLifeType DEF Fresh
  <2>6. FirstLife(b)'
    BY <1>0, <2>2, <2>3, <2>4 DEF FirstLife, ToSet
  <2>7. LaterLives(b)'
    <3> SUFFICES ASSUME NEW j \in Lives \ {1}
                 PROVE  ~life'[b][j].jqClosed /\ life'[b][j].doneCh # 1 /\ (life'[b][j].writer # "none" => inst'[b].done # 1)
      BY DEF LaterLives
    <3>1. ~life[b][j].jqClosed /\ life[b][j].doneCh # 1 /\ (life[b][j].writer # "none" => inst[b].done # 1)
      BY <1>0 DEF LaterLives
    <3>2. CASE inst[b].broker # 0
      <4>1. CASE j = k
        BY <1>a, <3>1, <3>2, <4>1
      <4>2. CASE j # k
        BY <1>a, <3>1, <3>2, <4>2
      <4> QED BY <4>1, <4>2
    <3>3. CASE inst[b].broker = 0
      <4>1. CASE j = k
        BY <1>a, <3>1, <3>3, <4>1, BornType
      <4>2. CASE j # k
        BY <1>a, <2>2, <3>1, <3>3, <4>2
      <4> QED BY <4>1, <4>2
    <3> QED BY <3>2, <3>3
  <2>8. Finished(b) => Finished(b)'
    BY <1>3, <2>3 DEF Finished
  <2>9. First(b).jqClosed => First(b).jqClosed'
    BY <2>3
  <2> QED BY <2>1, <2>6, <2>7, <2>8, <2>9, LocalStep
<1>4. Fresh(b) => inst[b].broker = 0
  BY DEF Fresh
<1> QED BY <1>1, <1>2, <1>3, <1>4

\* The instances and lives after a handler's step are as Ensured says.
LEMMA HandshakeHolds ==
  ASSUME InstancesInv, NEW b \in Boats, Handshake(b) \/ GetInstanceBroker(b)
  PROVE  InstancesInv'
<1> DEFINE k == BrokerOf(b)
           e == EnsuredInst(b)
           g == EnsuredLife(b)
           l == g[k]
<1>0. ITypeOK /\ inst[b].cursor \in Nat /\ saved[b] \in Nat
  BY FieldsAt DEF InstancesInv
<1>1. /\ b \notin held /\ MayStart(b) /\ phase \in {"serving", "draining"}
      /\ inst' = [inst EXCEPT ![b] = e] /\ life' = [life EXCEPT ![b] = g]
      /\ UNCHANGED <<graceful, phase, stopping, held, disk, dropped, keeper, panicked>>
      /\ \/ saved' = saved /\ liveStream' = liveStream
         \/ saved' = [saved EXCEPT ![b] = inst[b].cursor] /\ liveStream' = [liveStream EXCEPT ![b] = "open"]
  BY DEF Handshake, GetInstanceBroker, Unlocked, mainVars, keeperVars
<1>2. k \in Lives /\ e \in Fields /\ e.known = TRUE /\ e.broker = k /\ e.cursor = inst[b].cursor /\ g \in [Lives -> Life]
  BY <1>1, Ensured
<1> HIDE DEF k, e, g
<1>3. /\ inst' \in [Boats -> Fields] /\ inst'[b] = e /\ life' \in [Boats -> [Lives -> Life]] /\ life'[b] = g
      /\ \A c \in Boats : c # b => inst'[c] = inst[c] /\ life'[c] = life[c]
  BY <1>0, <1>1, <1>2 DEF ITypeOK
<1>4. /\ saved' \in [Boats -> Nat] /\ liveStream' \in [Boats -> {"none", "open", "bound"}]
      /\ \A c \in Boats : c # b => saved'[c] = saved[c] /\ liveStream'[c] = liveStream[c]
      /\ saved'[b] \in {saved[b], inst[b].cursor}
  BY <1>0, <1>1 DEF ITypeOK
<1>5. ITypeOK' /\ Alone(b)
  BY <1>0, <1>1, <1>3, <1>4 DEF ITypeOK, Alone
<1>6. graceful => saved'[b] <= inst[b].cursor
  <2>1. graceful => saved[b] <= inst[b].cursor
    BY DEF InstancesInv, OneLife
  <2>2. inst[b].cursor <= inst[b].cursor
    BY <1>0
  <2> QED BY <1>4, <2>1, <2>2
<1>7. PICK u, v : u = k /\ v = g[k]
  OBVIOUS
<1>8. u = BrokerOf(b) /\ v = EnsuredLife(b)[u] /\ v \in Life /\ life'[b][u] = v
      /\ (\A j \in Lives : j # u => life'[b][j] = EnsuredLife(b)[j])
      /\ inst'[b].known = TRUE /\ inst'[b].broker = u /\ inst'[b].ch = EnsuredInst(b).ch
      /\ inst'[b].done = EnsuredInst(b).done /\ inst'[b].cursor = inst[b].cursor
  BY <1>2, <1>3, <1>7 DEF k, e, g
<1>9. /\ v.given \subseteq v.given \union ToSet(v.rx)
      /\ 1..inst[b].cursor \subseteq (1..inst[b].cursor) \union v.given \union dropped'[b]
      /\ disk[b] \subseteq disk'[b] /\ dropped[b] \subseteq dropped'[b]
  BY <1>1
<1>10. UNCHANGED <<graceful, phase, stopping, held, panicked>>
  BY <1>1
<1> QED BY <1>0, <1>1, <1>5, <1>6, <1>8, <1>9, <1>10, Served, ZenonT(90)

\* A frame on a Live stream keeps the invariant.
LEMMA LiveFrameHolds ==
  ASSUME InstancesInv, NEW b \in Boats, LiveFrame(b)
  PROVE  InstancesInv'
<1> DEFINE n == inst[b].cursor + 1
           k == BrokerOf(b)
           e == EnsuredInst(b)
           g == EnsuredLife(b)
           l == g[k]
           x == [e EXCEPT !.cursor = n]
<1>0. ITypeOK /\ n \in Nat /\ saved[b] \in Nat /\ inst[b].cursor \in Nat
  BY FieldsAt DEF InstancesInv
<1>1. /\ b \notin held /\ MayStart(b) /\ liveStream[b] # "none"
      /\ inst' = [inst EXCEPT ![b] = x] /\ liveStream' = [liveStream EXCEPT ![b] = "bound"]
      /\ UNCHANGED <<graceful, phase, stopping, held, disk, keeper, panicked>>
      /\ saved' \in {saved, [saved EXCEPT ![b] = n]}
  BY DEF LiveFrame, Unlocked, mainVars, keeperVars
<1>2. k \in Lives /\ e \in Fields /\ e.known = TRUE /\ e.broker = k /\ g \in [Lives -> Life]
  BY <1>1, Ensured
<1>a. Fresh(b) \/ graceful => phase \in {"serving", "draining"}
  <2>1. ~Fresh(b)
    BY <1>1 DEF Fresh
  <2>2. graceful => OneLife(b)
    BY DEF InstancesInv
  <2> QED BY <1>1, <2>1, <2>2 DEF OneLife
<1> HIDE DEF n, k, e, g
<1>3. x \in Fields /\ x.known = TRUE /\ x.broker = k /\ x.ch = e.ch /\ x.done = e.done /\ x.cursor = n
  BY <1>0, <1>2 DEF Fields
<1> HIDE DEF x
<1>4. /\ inst' \in [Boats -> Fields] /\ inst'[b] = x /\ (\A c \in Boats : c # b => inst'[c] = inst[c])
      /\ liveStream' \in [Boats -> {"none", "open", "bound"}]
      /\ \A c \in Boats : c # b => liveStream'[c] = liveStream[c]
  BY <1>0, <1>1, <1>3 DEF ITypeOK
<1>5. /\ saved' \in [Boats -> Nat] /\ saved'[b] \in {saved[b], n}
      /\ \A c \in Boats : c # b => saved'[c] = saved[c]
  BY <1>0, <1>1 DEF ITypeOK
<1>6. graceful => saved'[b] <= n
  <2>1. graceful => saved[b] <= inst[b].cursor
    BY DEF InstancesInv, OneLife
  <2>2. inst[b].cursor <= n /\ n <= n
    BY <1>0 DEF n
  <2> QED BY <1>0, <1>5, <2>1, <2>2
<1>7. l \in Life /\ l.rx \in Seq(Nat) /\ l.given \in SUBSET Nat
  BY <1>2, LifeFields
<1>8. 1..n \subseteq (1..inst[b].cursor) \union {n}
  BY <1>0 DEF n
<1>9. CASE Len(l.rx) < RxCap
  <2> DEFINE m == [l EXCEPT !.rx = Append(@, n), !.given = @ \union {n}]
             h == [g EXCEPT ![k].rx = Append(@, n), ![k].given = @ \union {n}]
  <2>1. life' = [life EXCEPT ![b] = h] /\ dropped' = dropped
    BY <1>9 DEF LiveFrame, n, k, g
  <2>2. Append(l.rx, n) \in Seq(Nat) /\ ToSet(Append(l.rx, n)) = ToSet(l.rx) \union {n}
        /\ l.given \union {n} \in SUBSET Nat
    BY <1>0, <1>7, ToSetAppend
  <2>3. m \in Life /\ m.rx = Append(l.rx, n) /\ m.given = l.given \union {n}
    <3> HIDE DEF l
    <3> QED BY <1>7, <2>2 DEF Life
  <2>4. /\ m.run = l.run /\ m.rxClosed = l.rxClosed /\ m.jq = l.jq /\ m.jqClosed = l.jqClosed /\ m.cancelled = l.cancelled
        /\ m.writer = l.writer /\ m.doneCh = l.doneCh /\ m.doneClosed = l.doneClosed /\ m.mem = l.mem
    <3> HIDE DEF l
    <3> QED BY <1>7 DEF Life
  <2>5. h = [g EXCEPT ![k] = m]
    BY <1>2, <1>7 DEF Life
  <2> HIDE DEF m, h
  <2>6. h \in [Lives -> Life] /\ h[k] = m /\ \A j \in Lives : j # k => h[j] = g[j]
    BY <1>2, <2>3, <2>5
  <2>7. /\ life' \in [Boats -> [Lives -> Life]] /\ life'[b] = h
        /\ \A c \in Boats : c # b => life'[c] = life[c]
    BY <1>0, <2>1, <2>6 DEF ITypeOK
  <2>8. ITypeOK' /\ Alone(b)
    BY <1>0, <1>1, <1>4, <1>5, <2>1, <2>7 DEF ITypeOK, Alone
  <2>9. PICK u, v, w, c : u = k /\ v = l /\ w = m /\ c = n
    OBVIOUS
  <2>10. /\ u = BrokerOf(b) /\ v = EnsuredLife(b)[u] /\ w \in Life /\ life'[b][u] = w
         /\ \A j \in Lives : j # u => life'[b][j] = EnsuredLife(b)[j]
         /\ inst'[b].known = TRUE /\ inst'[b].broker = u /\ inst'[b].ch = EnsuredInst(b).ch
         /\ inst'[b].done = EnsuredInst(b).done /\ inst'[b].cursor = c /\ c \in Nat /\ (graceful => saved'[b] <= c)
    BY <1>0, <1>3, <1>4, <1>6, <2>3, <2>6, <2>7, <2>9 DEF k, e, g
  <2>11. /\ w.run = v.run /\ w.rxClosed = v.rxClosed /\ w.jq = v.jq /\ w.jqClosed = v.jqClosed /\ w.cancelled = v.cancelled
         /\ w.writer = v.writer /\ w.doneCh = v.doneCh /\ w.doneClosed = v.doneClosed /\ w.mem = v.mem
         /\ ToSet(v.rx) \subseteq ToSet(w.rx) /\ v.given \subseteq w.given /\ w.given \subseteq v.given \union ToSet(w.rx)
         /\ 1..c \subseteq (1..inst[b].cursor) \union w.given \union dropped'[b]
    <3> HIDE DEF l
    <3> QED BY <1>8, <2>2, <2>3, <2>4, <2>9
  <2>12. disk[b] \subseteq disk'[b] /\ dropped[b] \subseteq dropped'[b]
    BY <1>1, <2>1
  <2>13. UNCHANGED <<graceful, phase, stopping, held, panicked>> /\ b \notin held /\ MayStart(b)
    BY <1>0, <1>1
  <2> HIDE DEF l
  <2> QED BY <1>a, <2>8, <2>10, <2>11, <2>12, <2>13, Served, ZenonT(120)
<1>10. CASE ~(Len(l.rx) < RxCap)
  <2>1. life' = [life EXCEPT ![b] = g] /\ dropped' = [dropped EXCEPT ![b] = @ \union {n}]
    BY <1>10 DEF LiveFrame, n, k, g
  <2>2. /\ dropped' \in [Boats -> SUBSET Nat] /\ dropped'[b] = dropped[b] \union {n}
        /\ \A c \in Boats : c # b => dropped'[c] = dropped[c]
    <3>1. dropped \in [Boats -> SUBSET Nat] /\ {n} \in SUBSET Nat
      BY <1>0 DEF ITypeOK
    <3> QED BY <2>1, <3>1, Grown
  <2>7. /\ life' \in [Boats -> [Lives -> Life]] /\ life'[b] = g
        /\ \A c \in Boats : c # b => life'[c] = life[c]
    BY <1>0, <1>2, <2>1 DEF ITypeOK
  <2>8. ITypeOK' /\ Alone(b)
    BY <1>0, <1>1, <1>4, <1>5, <2>2, <2>7 DEF ITypeOK, Alone
  <2>9. PICK u, v : u = k /\ v = l
    OBVIOUS
  <2>10. /\ u = BrokerOf(b) /\ v = EnsuredLife(b)[u] /\ v \in Life /\ life'[b][u] = v
         /\ \A j \in Lives : j # u => life'[b][j] = EnsuredLife(b)[j]
         /\ inst'[b].known = TRUE /\ inst'[b].broker = u /\ inst'[b].ch = EnsuredInst(b).ch
         /\ inst'[b].done = EnsuredInst(b).done /\ inst'[b].cursor = n
    BY <1>3, <1>4, <1>7, <2>7, <2>9 DEF k, e, g
  <2>11. /\ v.given \subseteq v.given \union ToSet(v.rx)
         /\ 1..n \subseteq (1..inst[b].cursor) \union v.given \union dropped'[b]
    BY <1>8, <2>2
  <2>12. disk[b] \subseteq disk'[b] /\ dropped[b] \subseteq dropped'[b]
    BY <1>1, <2>2
  <2>13. UNCHANGED <<graceful, phase, stopping, held, panicked>> /\ b \notin held /\ MayStart(b) /\ n \in Nat
    BY <1>0, <1>1
  <2> HIDE DEF l
  <2> QED BY <1>6, <1>a, <2>8, <2>10, <2>11, <2>12, <2>13, Served
<1> QED BY <1>9, <1>10

\* The end of a Live stream keeps the invariant.
LEMMA LiveEndHolds ==
  ASSUME InstancesInv, NEW b \in Boats, LiveEnd(b)
  PROVE  InstancesInv'
<1>0. ITypeOK /\ FirstLife(b) /\ LaterLives(b) /\ (graceful => OneLife(b)) /\ StoppingHolds
  BY DEF InstancesInv
<1>1. /\ liveStream' = [liveStream EXCEPT ![b] = "none"]
      /\ UNCHANGED <<graceful, phase, stopping, held, inst, life, disk, saved, dropped, keeper, panicked>>
  BY DEF LiveEnd, mainVars, keeperVars
<1>2. /\ liveStream' \in [Boats -> {"none", "open", "bound"}] /\ liveStream'[b] = "none"
      /\ \A c \in Boats : c # b => liveStream'[c] = liveStream[c]
  BY <1>0, <1>1 DEF ITypeOK
<1>3. ITypeOK' /\ Alone(b)
  BY <1>0, <1>1, <1>2 DEF ITypeOK, Alone
<1>4. First(b)' = First(b) /\ (Fresh(b) => Fresh(b)')
  BY <1>1, <1>2 DEF First, Fresh
<1>5. FirstLife(b)' /\ LaterLives(b)'
  BY <1>0, <1>1, <1>4 DEF FirstLife, LaterLives, ToSet
<1>6. (Untouched(b) => Untouched(b)') /\ (Finished(b) => Finished(b)')
  BY <1>1, <1>4 DEF Untouched, Finished
<1>7. graceful => OneLife(b)' /\ ~panicked'
  BY <1>0, <1>1, <1>2, <1>4 DEF OneLife, StoppingHolds
<1>8. /\ First(b).jqClosed => First(b).jqClosed'
      /\ First(b).rxClosed => First(b).rxClosed'
      /\ First(b).run # "none" => First(b).run' # "none"
      /\ inst'[b] = inst[b]
  BY <1>1, <1>4
<1> QED BY <1>1, <1>3, <1>5, <1>6, <1>7, <1>8, LocalStep
-----------------------------------------------------------------------------
(* Shutting down *)

\* A step of main that leaves every boat's state alone.
LEMMA MainStep ==
  ASSUME InstancesInv, UNCHANGED <<graceful, inst, life, liveStream, disk, saved, dropped, keeper, panicked>>,
         phase' \in Phases, stopping' \in StopStates, StoppingHolds',
         \A b \in Boats : Untouched(b)' = Untouched(b) /\ Finished(b)' = Finished(b) => StageOf(b)',
         \A b \in Boats : graceful /\ phase' \notin {"serving", "draining"} => liveStream[b] = "none"
  PROVE  InstancesInv'
<1>1. ITypeOK'
  BY DEF InstancesInv, ITypeOK
<1>2. ASSUME NEW b \in Boats PROVE FirstLife(b)' /\ LaterLives(b)' /\ StageOf(b)' /\ (graceful' => OneLife(b)')
  <2>1. FirstLife(b) /\ LaterLives(b) /\ (graceful => OneLife(b))
    BY DEF InstancesInv
  <2>2. /\ FirstLife(b)' = FirstLife(b) /\ LaterLives(b)' = LaterLives(b)
        /\ Untouched(b)' = Untouched(b) /\ Finished(b)' = Finished(b) /\ First(b)' = First(b)
    BY BoatKept
  <2>3. graceful' => OneLife(b)'
    BY <2>1, <2>2 DEF OneLife
  <2> QED BY <2>1, <2>2, <2>3
<1> QED BY <1>1, <1>2 DEF InstancesInv

\* main's signal handler keeps the invariant.
LEMMA BeginShutdownHolds ==
  ASSUME InstancesInv, BeginShutdown
  PROVE  InstancesInv'
<1>0. StoppingHolds /\ ITypeOK
  BY DEF InstancesInv
<1>1. /\ phase = "serving" /\ phase' = "draining"
      /\ UNCHANGED <<graceful, stopping, held, inst, life, liveStream, disk, saved, dropped, keeper, panicked>>
  BY DEF BeginShutdown, keeperVars
<1>2. StoppingHolds' /\ phase' \in Phases /\ stopping' \in StopStates
  BY <1>0, <1>1 DEF StoppingHolds, ITypeOK, Phases
<1>3. ASSUME NEW b \in Boats, Untouched(b)' = Untouched(b) PROVE StageOf(b)'
  <2>1. StageOf(b) /\ stopping.boat = 0 /\ b # 0
    BY <1>0, <1>1, InstancesAssumption DEF InstancesInv, StoppingHolds, NotStopping
  <2> QED BY <1>1, <1>3, <2>1 DEF StageOf
<1> QED BY <1>1, <1>2, <1>3, MainStep

\* InstanceManager.Shutdown, taking the lock, keeps the invariant: the boats it does not know are fresh.
LEMMA ShutdownHolds ==
  ASSUME InstancesInv, Shutdown
  PROVE  InstancesInv'
<1>0. StoppingHolds /\ ITypeOK
  BY DEF InstancesInv
<1>1. /\ phase = "draining" /\ phase' = "stopping" /\ ServersStopped
      /\ stopping' = [NotStopping EXCEPT !.left = {b \in Boats : inst[b].known}]
      /\ UNCHANGED <<graceful, held, inst, life, liveStream, disk, saved, dropped, keeper, panicked>>
  BY DEF Shutdown, keeperVars
<1>2. /\ stopping' \in StopStates /\ stopping'.left = {b \in Boats : inst[b].known}
      /\ stopping'.boat = 0 /\ stopping'.step = "none"
  BY <1>1 DEF NotStopping, StopStates
<1>3. held = {}
  BY <1>0, <1>1 DEF StoppingHolds, NotStopping
<1>4. StoppingHolds' /\ phase' \in Phases
  BY <1>0, <1>1, <1>2, <1>3, InstancesAssumption DEF StoppingHolds, Phases
<1>5. ASSUME NEW b \in Boats, Untouched(b)' = Untouched(b), Finished(b)' = Finished(b) PROVE StageOf(b)'
  <2>1. Untouched(b) /\ b # 0
    BY <1>1, InstancesAssumption DEF InstancesInv, StageOf
  <2>2. inst[b].known \/ Finished(b)
    BY <2>1 DEF Untouched, Finished
  <2> QED BY <1>1, <1>2, <1>5, <2>1, <2>2 DEF StageOf
<1>6. graceful => \A b \in Boats : liveStream[b] = "none"
  BY <1>1 DEF ServersStopped
<1> QED BY <1>1, <1>2, <1>4, <1>5, <1>6, MainStep

\* Shutdown returning, and main exiting, keep the invariant.
LEMMA LeavingHolds ==
  ASSUME InstancesInv, ShutdownDone \/ Exit
  PROVE  InstancesInv'
<1>0. StoppingHolds /\ ITypeOK
  BY DEF InstancesInv
<1>1. /\ phase \in {"stopping", "exiting"} /\ phase' \in {"exiting", "stopped"}
      /\ UNCHANGED <<graceful, stopping, held, inst, life, liveStream, disk, saved, dropped, keeper, panicked>>
  BY DEF ShutdownDone, Exit, keeperVars
<1>2. stopping = NotStopping
  BY <1>0, <1>1 DEF ShutdownDone, Exit, StoppingHolds
<1>3. StoppingHolds' /\ phase' \in Phases /\ stopping' \in StopStates
  BY <1>0, <1>1, <1>2 DEF StoppingHolds, ITypeOK, Phases
<1>4. ASSUME NEW b \in Boats, Finished(b)' = Finished(b) PROVE StageOf(b)'
  <2>1. StageOf(b) /\ stopping.boat # b /\ stopping.left = {}
    BY <1>2, InstancesAssumption DEF InstancesInv, NotStopping
  <2> QED BY <1>1, <1>4, <2>1 DEF StageOf
<1>5. \A b \in Boats : graceful => liveStream[b] = "none"
  BY <1>1 DEF InstancesInv, OneLife
<1> QED BY <1>1, <1>3, <1>4, <1>5, MainStep

\* A step of Shutdown's loop that is about boat b.
LEMMA LoopStep ==
  ASSUME InstancesInv, ITypeOK', NEW b \in Boats, phase = "stopping", UNCHANGED <<graceful, phase, panicked>>, Alone(b),
         stopping.boat \in {0, b}, stopping'.boat \in {0, b}, b \notin stopping'.left,
         stopping'.left \subseteq stopping.left, stopping.left \subseteq stopping'.left \union {b},
         (stopping'.boat = 0) = (stopping'.step = "none"),
         held' = IF stopping'.step \in {"broker", "save"} THEN {b} ELSE {},
         FirstLife(b)', LaterLives(b)', StageOf(b)', graceful => OneLife(b)'
  PROVE  InstancesInv'
<1>0. 0 \notin Boats /\ stopping'.left \subseteq Boats
  BY InstancesAssumption DEF ITypeOK, StopStates
<1>1. StoppingHolds'
  <2>1. stopping'.step \in {"broker", "save"} => stopping'.boat = b
    BY <1>0
  <2>2. graceful => ~panicked
    BY DEF InstancesInv, StoppingHolds
  <2> QED BY <1>0, <2>1, <2>2 DEF StoppingHolds
<1>2. ASSUME NEW c \in Boats PROVE FirstLife(c)' /\ LaterLives(c)' /\ StageOf(c)' /\ (graceful' => OneLife(c)')
  <2>1. CASE c # b
    <3>0. FirstLife(c) /\ LaterLives(c) /\ StageOf(c) /\ (graceful => OneLife(c))
      BY DEF InstancesInv
    <3>1. /\ FirstLife(c)' = FirstLife(c) /\ LaterLives(c)' = LaterLives(c)
          /\ Untouched(c)' = Untouched(c) /\ Finished(c)' = Finished(c)
          /\ First(c)' = First(c) /\ OneLife(c)' = OneLife(c) /\ inst'[c] = inst[c]
      BY <2>1, BoatKept DEF Alone
    <3>2. c # stopping.boat /\ c # stopping'.boat /\ ((c \in stopping'.left) <=> (c \in stopping.left))
      BY <1>0, <2>1
    <3>3. StageOf(c)'
      BY <3>0, <3>1, <3>2 DEF StageOf
    <3> QED BY <3>0, <3>1, <3>3
  <2> QED BY <2>1
<1> QED BY <1>1, <1>2 DEF InstancesInv

\* stopBroker's CloseRx keeps the invariant.
LEMMA StopCloseRxHolds ==
  ASSUME InstancesInv, StopCloseRx
  PROVE  InstancesInv'
<1>0. StoppingHolds /\ ITypeOK
  BY DEF InstancesInv
<1>1. PICK b \in stopping.left :
        /\ stopping' = [left |-> stopping.left \ {b}, boat |-> b, step |-> IF inst[b].broker = 0 THEN "save" ELSE "broker"]
        /\ held' = held \union {b} /\ inst' = [inst EXCEPT ![b].broker = 0]
        /\ life' = IF inst[b].broker = 0 THEN life ELSE [life EXCEPT ![b][inst[b].broker].rxClosed = TRUE]
  BY DEF StopCloseRx
<1>2. /\ phase = "stopping" /\ stopping.boat = 0
      /\ UNCHANGED <<graceful, phase, liveStream, disk, saved, dropped, keeper, panicked>>
  BY DEF StopCloseRx, keeperVars
<1>3. b \in Boats /\ stopping.left \subseteq Boats /\ b # 0
  BY <1>0, InstancesAssumption DEF ITypeOK, StopStates
<1>4. stopping.step = "none" /\ held = {} /\ held' = {b}
  BY <1>0, <1>1, <1>2 DEF StoppingHolds
<1>5. /\ stopping' \in StopStates /\ stopping'.left = stopping.left \ {b} /\ stopping'.boat = b
      /\ stopping'.step = IF inst[b].broker = 0 THEN "save" ELSE "broker"
  BY <1>1, <1>3 DEF StopStates
<1> DEFINE e == [inst[b] EXCEPT !.broker = 0]
<1>6. e \in Fields /\ e.broker = 0 /\ e.ch = inst[b].ch /\ e.done = inst[b].done /\ e.cursor = inst[b].cursor
  <2>1. inst[b] \in Fields
    BY <1>0, <1>3, FieldsAt
  <2> QED BY <2>1, InstancesAssumption DEF Fields
<1>7. /\ inst' \in [Boats -> Fields] /\ inst'[b] = e
      /\ \A c \in Boats : c # b => inst'[c] = inst[c]
  <2>1. inst' = [inst EXCEPT ![b] = e]
    BY <1>1
  <2> HIDE DEF e
  <2> QED BY <1>0, <1>3, <1>6, <2>1 DEF ITypeOK
<1> HIDE DEF e
<1>8. Untouched(b) /\ FirstLife(b) /\ LaterLives(b) /\ (graceful => OneLife(b)) /\ First(b) = life[b][1] /\ First(b)' = life'[b][1]
  BY <1>2, <1>3 DEF InstancesInv, StageOf, First
<1>9. CASE Fresh(b)
  <2>1. inst[b].broker = 0 /\ life' = life
    BY <1>1, <1>9 DEF Fresh
  <2>2. Fresh(b)' /\ First(b)' = First(b)
    BY <1>2, <1>6, <1>7, <1>8, <1>9, <2>1 DEF Fresh
  <2>3. ITypeOK' /\ Alone(b)
    BY <1>0, <1>2, <1>5, <1>7, <2>1 DEF ITypeOK, Alone
  <2>4. FirstLife(b)' /\ LaterLives(b)'
    <3>1. inst'[b].broker # 1
      BY <1>6, <1>7
    <3>2. FirstLife(b)'
      BY <1>2, <1>8, <2>2, <3>1 DEF FirstLife, ToSet
    <3> QED BY <1>6, <1>7, <1>8, <2>1, <3>2 DEF LaterLives
  <2>5. StageOf(b)'
    BY <1>2, <1>5, <2>1, <2>2 DEF StageOf, Finished
  <2>6. graceful => OneLife(b)'
    BY <1>2, <1>6, <1>7, <1>8, <2>1, <2>2 DEF OneLife
  <2> QED BY <1>2, <1>3, <1>4, <1>5, <2>1, <2>3, <2>4, <2>5, <2>6, LoopStep
<1>10. CASE ~Fresh(b)
  <2>1. /\ inst[b].broker = 1 /\ inst[b].ch = 1 /\ First(b).run = "running"
        /\ life' = [life EXCEPT ![b][1].rxClosed = TRUE]
    <3>1. inst[b].broker = 1 /\ inst[b].ch = 1 /\ First(b).run = "running"
      BY <1>8, <1>10 DEF Untouched
    <3>2. life' = [life EXCEPT ![b][inst[b].broker].rxClosed = TRUE]
      BY <1>1, <3>1
    <3> QED BY <3>1, <3>2
  <2> DEFINE l == life[b][1]
             m == [l EXCEPT !.rxClosed = TRUE]
  <2>2. l \in Life /\ 1 \in Lives
    BY <1>0, <1>3, OneIsALife, LifeAt
  <2>3. life' = [life EXCEPT ![b][1] = m]
    BY <2>1
  <2> HIDE DEF l
  <2>4. m \in Life /\ m.rxClosed = TRUE /\ m.run = l.run /\ m.rx = l.rx /\ m.jq = l.jq /\ m.mem = l.mem /\ m.given = l.given
        /\ m.jqClosed = l.jqClosed /\ m.cancelled = l.cancelled /\ m.writer = l.writer /\ m.doneCh = l.doneCh
        /\ m.doneClosed = l.doneClosed
    BY <2>2 DEF Life
  <2> HIDE DEF m
  <2>5. /\ life' \in [Boats -> [Lives -> Life]] /\ life'[b][1] = m
        /\ \A j \in Lives : j # 1 => life'[b][j] = life[b][j]
        /\ \A c \in Boats : c # b => life'[c] = life[c]
    BY <1>0, <1>3, <2>2, <2>3, <2>4 DEF ITypeOK
  <2>6. ITypeOK' /\ Alone(b)
    BY <1>0, <1>2, <1>5, <1>7, <2>5 DEF ITypeOK, Alone
  <2>7. First(b) = l /\ First(b)' = m /\ inst'[b].broker = 0 /\ inst'[b].ch = 1 /\ inst'[b].done = inst[b].done
        /\ inst'[b].cursor = inst[b].cursor
    BY <1>6, <1>7, <1>8, <2>1, <2>5 DEF l
  <2>8. FirstLife(b)'
    BY <1>2, <1>8, <2>1, <2>4, <2>7 DEF FirstLife, ToSet
  <2>9. LaterLives(b)'
    BY <1>8, <2>5, <2>7 DEF LaterLives
  <2>10. StageOf(b)'
    BY <1>2, <1>5, <2>1, <2>4, <2>7 DEF StageOf
  <2>11. graceful => OneLife(b)'
    BY <1>2, <1>8, <2>4, <2>5, <2>7 DEF OneLife
  <2> QED BY <1>2, <1>3, <1>4, <1>5, <2>1, <2>6, <2>8, <2>9, <2>10, <2>11, LoopStep
<1> QED BY <1>9, <1>10
\* stopBroker closing the journal channel keeps the invariant.
LEMMA StopCloseJournalHolds ==
  ASSUME InstancesInv, StopCloseJournal
  PROVE  InstancesInv'
<1>b. PICK b : b = stopping.boat
  OBVIOUS
<1> DEFINE l == life[b][1]
           m == [l EXCEPT !.jqClosed = TRUE, !.cancelled = TRUE]
<1>0. StoppingHolds /\ ITypeOK
  BY DEF InstancesInv
<1>1. /\ phase = "stopping" /\ stopping.step = "broker" /\ BrokerDone(life[b][inst[b].ch])
      /\ life' = [life EXCEPT ![b][inst[b].ch].jqClosed = TRUE, ![b][inst[b].ch].cancelled = TRUE]
      /\ stopping' = [stopping EXCEPT !.step = "writer"] /\ held' = held \ {b}
      /\ UNCHANGED <<graceful, phase, inst, liveStream, disk, saved, dropped, keeper, panicked>>
  BY <1>b DEF StopCloseJournal, keeperVars
<1>2. b \in Boats /\ b # 0 /\ b \notin stopping.left /\ held' = {}
  BY <1>0, <1>1, <1>b DEF StoppingHolds, ITypeOK, StopStates
<1>3. stopping' \in StopStates /\ stopping'.left = stopping.left /\ stopping'.boat = b /\ stopping'.step = "writer"
  BY <1>0, <1>1, <1>b DEF ITypeOK, StopStates
<1>4. FirstLife(b) /\ LaterLives(b) /\ StageOf(b) /\ (graceful => OneLife(b))
  BY <1>2 DEF InstancesInv
<1>5. inst[b].broker = 0 /\ inst[b].ch = 1 /\ First(b).rxClosed
  BY <1>1, <1>4, <1>b DEF StageOf
<1>6. l \in Life /\ 1 \in Lives
  BY <1>0, <1>2, OneIsALife, LifeAt
<1>7. life' = [life EXCEPT ![b][1] = m] /\ l.run = "done"
  <2>1. life' = [life EXCEPT ![b][1].jqClosed = TRUE, ![b][1].cancelled = TRUE]
    BY <1>1, <1>5
  <2>2. life \in [Boats -> [Lives -> Life]]
    BY <1>0 DEF ITypeOK
  <2>3. life' = [life EXCEPT ![b][1] = m]
    BY <1>2, <1>6, <2>1, <2>2
  <2> QED BY <1>1, <1>5, <2>3 DEF BrokerDone
<1> HIDE DEF l
<1>8. m \in Life /\ m.rxClosed = l.rxClosed /\ m.run = l.run /\ m.rx = l.rx /\ m.jq = l.jq /\ m.mem = l.mem /\ m.given = l.given
      /\ m.jqClosed = TRUE /\ m.cancelled = TRUE /\ m.writer = l.writer /\ m.doneCh = l.doneCh
      /\ m.doneClosed = l.doneClosed
  BY <1>6 DEF Life
<1> HIDE DEF m
<1>9. /\ life' \in [Boats -> [Lives -> Life]] /\ life'[b][1] = m
      /\ \A j \in Lives : j # 1 => life'[b][j] = life[b][j]
      /\ \A c \in Boats : c # b => life'[c] = life[c]
  BY <1>0, <1>2, <1>6, <1>7, <1>8 DEF ITypeOK
<1>10. ITypeOK' /\ Alone(b)
  BY <1>0, <1>1, <1>3, <1>9 DEF ITypeOK, Alone
<1>11. First(b) = l /\ First(b)' = m
  BY <1>9 DEF First, l
<1>12. FirstLife(b)'
  BY <1>1, <1>4, <1>5, <1>7, <1>8, <1>11 DEF FirstLife, ToSet
<1>13. LaterLives(b)'
  BY <1>1, <1>4, <1>9 DEF LaterLives
<1>14. StageOf(b)'
  BY <1>1, <1>2, <1>3, <1>8, <1>11 DEF StageOf
<1>15. graceful => OneLife(b)'
  <2> SUFFICES ASSUME graceful PROVE OneLife(b)'
    OBVIOUS
  <2>1. OneLife(b)
    BY <1>4
  <2>2. \A j \in Lives \ {1} : life'[b][j] = NoLife
    BY <1>9, <2>1 DEF OneLife
  <2> QED BY <1>1, <1>8, <1>11, <2>1, <2>2 DEF OneLife
<1> QED BY <1>1, <1>2, <1>3, <1>10, <1>12, <1>13, <1>14, <1>15, <1>b, LoopStep

\* stopBroker's wait for journalDone keeps the invariant: only the first life's writer can end it.
LEMMA StopWaitWriterHolds ==
  ASSUME InstancesInv, StopWaitWriter
  PROVE  InstancesInv'
<1>b. PICK b : b = stopping.boat
  OBVIOUS
<1> DEFINE e == [inst[b] EXCEPT !.ch = 0, !.done = 0]
<1>0. StoppingHolds /\ ITypeOK
  BY DEF InstancesInv
<1>1. /\ phase = "stopping" /\ stopping.step = "writer" /\ \E k \in Lives : life[b][k].jqClosed /\ life[b][k].doneClosed
      /\ held' = held \union {b} /\ inst' = [inst EXCEPT ![b].ch = 0, ![b].done = 0]
      /\ stopping' = [stopping EXCEPT !.step = "save"]
      /\ UNCHANGED <<graceful, phase, life, liveStream, disk, saved, dropped, keeper, panicked>>
  BY <1>b DEF StopWaitWriter, keeperVars
<1>2. b \in Boats /\ b # 0 /\ b \notin stopping.left /\ held' = {b}
  BY <1>0, <1>1, <1>b DEF StoppingHolds, ITypeOK, StopStates
<1>3. stopping' \in StopStates /\ stopping'.left = stopping.left /\ stopping'.boat = b /\ stopping'.step = "save"
  BY <1>0, <1>1, <1>b DEF ITypeOK, StopStates
<1>4. FirstLife(b) /\ LaterLives(b) /\ (graceful => OneLife(b))
  BY <1>2 DEF InstancesInv
<1>5. First(b).doneClosed /\ First(b).writer = "done" /\ First(b).run = "done"
  BY <1>1, <1>4 DEF LaterLives, FirstLife, First
<1>6. e \in Fields /\ e.broker = inst[b].broker /\ e.ch = 0 /\ e.done = 0 /\ e.cursor = inst[b].cursor
  <2>1. inst[b] \in Fields
    BY <1>0, <1>2, FieldsAt
  <2>2. 0 \in 0..MaxLives
    BY InstancesAssumption
  <2> QED BY <2>1, <2>2 DEF Fields
<1>7. /\ inst' \in [Boats -> Fields] /\ inst'[b] = e
      /\ \A c \in Boats : c # b => inst'[c] = inst[c]
  <2>1. inst \in [Boats -> Fields]
    BY <1>0 DEF ITypeOK
  <2>2. inst' = [inst EXCEPT ![b] = e]
    BY <1>1, <1>2, <2>1
  <2> HIDE DEF e
  <2> QED BY <1>2, <1>6, <2>1, <2>2
<1> HIDE DEF e
<1>8. ITypeOK' /\ Alone(b)
  BY <1>0, <1>1, <1>3, <1>7 DEF ITypeOK, Alone
<1>9. First(b)' = First(b)
  BY <1>1 DEF First
<1>10. FirstLife(b)'
  BY <1>1, <1>4, <1>5, <1>6, <1>7, <1>9 DEF FirstLife, ToSet
<1>11. LaterLives(b)'
  BY <1>1, <1>4, <1>6, <1>7 DEF LaterLives
<1>12. StageOf(b)'
  BY <1>1, <1>2, <1>3, <1>5, <1>9 DEF StageOf, Finished
<1>13. graceful => OneLife(b)'
  BY <1>1, <1>4, <1>5, <1>6, <1>7, <1>9 DEF OneLife
<1> QED BY <1>1, <1>2, <1>3, <1>8, <1>10, <1>11, <1>12, <1>13, <1>b, LoopStep

\* Shutdown's save keeps the invariant.
LEMMA StopSaveHolds ==
  ASSUME InstancesInv, StopSave
  PROVE  InstancesInv'
<1>b. PICK b : b = stopping.boat
  OBVIOUS
<1>0. StoppingHolds /\ ITypeOK
  BY DEF InstancesInv
<1>1. /\ phase = "stopping" /\ stopping.step = "save" /\ saved' = [saved EXCEPT ![b] = inst[b].cursor]
      /\ held' = held \ {b} /\ stopping' = [NotStopping EXCEPT !.left = stopping.left]
      /\ UNCHANGED <<graceful, phase, inst, life, liveStream, disk, dropped, keeper, panicked>>
  BY <1>b DEF StopSave, keeperVars
<1>2. b \in Boats /\ b # 0 /\ b \notin stopping.left /\ held' = {}
  BY <1>0, <1>1, <1>b DEF StoppingHolds, ITypeOK, StopStates
<1>3. stopping' \in StopStates /\ stopping'.left = stopping.left /\ stopping'.boat = 0 /\ stopping'.step = "none"
  BY <1>0, <1>1, <1>b DEF ITypeOK, StopStates, NotStopping
<1>4. FirstLife(b) /\ LaterLives(b) /\ (graceful => OneLife(b)) /\ Finished(b) /\ inst[b].cursor \in Nat
  BY <1>0, <1>1, <1>2, <1>b, FieldsAt DEF InstancesInv, StageOf
<1>5. /\ saved' \in [Boats -> Nat] /\ saved'[b] = inst[b].cursor
      /\ \A c \in Boats : c # b => saved'[c] = saved[c]
  BY <1>0, <1>1, <1>2, <1>4 DEF ITypeOK
<1>6. ITypeOK' /\ Alone(b)
  BY <1>0, <1>1, <1>3, <1>5 DEF ITypeOK, Alone
<1>7. First(b)' = First(b) /\ (Fresh(b) => Fresh(b)')
  BY <1>1, <1>5 DEF First, Fresh
<1>8. FirstLife(b)' /\ LaterLives(b)'
  BY <1>1, <1>4, <1>7 DEF FirstLife, LaterLives, ToSet
<1>9. StageOf(b)'
  BY <1>1, <1>2, <1>3, <1>4, <1>7 DEF StageOf, Finished
<1>10. graceful => OneLife(b)'
  <2>1. inst[b].cursor <= inst[b].cursor
    BY <1>4
  <2> QED BY <1>1, <1>4, <1>5, <1>7, <2>1 DEF OneLife
<1> QED BY <1>1, <1>2, <1>3, <1>6, <1>8, <1>9, <1>10, <1>b, LoopStep
-----------------------------------------------------------------------------
(* The keeper *)

\* The keeper taking a notification, or nothing at all, keeps the invariant.
LEMMA KeeperTakeHolds ==
  ASSUME InstancesInv, \/ KeeperTake
               \/ UNCHANGED ivars
  PROVE  InstancesInv'
<1>0. StoppingHolds /\ ITypeOK
  BY DEF InstancesInv
<1>1. /\ keeper' \in Boats \union {"idle"}
      /\ UNCHANGED <<graceful, phase, stopping, held, inst, life, liveStream, disk, saved, dropped, panicked>>
  BY <1>0 DEF KeeperTake, mainVars, ivars, ITypeOK
<1>2. ITypeOK' /\ StoppingHolds'
  BY <1>0, <1>1 DEF ITypeOK, StoppingHolds
<1>3. ASSUME NEW b \in Boats PROVE FirstLife(b)' /\ LaterLives(b)' /\ StageOf(b)' /\ (graceful' => OneLife(b)')
  <2>1. FirstLife(b) /\ LaterLives(b) /\ StageOf(b) /\ (graceful => OneLife(b))
    BY DEF InstancesInv
  <2>2. /\ FirstLife(b)' = FirstLife(b) /\ LaterLives(b)' = LaterLives(b)
        /\ Untouched(b)' = Untouched(b) /\ Finished(b)' = Finished(b) /\ First(b)' = First(b) /\ OneLife(b)' = OneLife(b)
    BY <1>1, BoatKept
  <2>3. StageOf(b)'
    BY <1>1, <2>1, <2>2 DEF StageOf
  <2> QED BY <1>1, <2>1, <2>2, <2>3
<1> QED BY <1>2, <1>3 DEF InstancesInv

\* The keeper's pause callback keeps the invariant.
LEMMA SetInstancePausedHolds ==
  ASSUME InstancesInv, SetInstancePaused
  PROVE  InstancesInv'
<1>b. PICK b : b = keeper
  OBVIOUS
<1> DEFINE k == inst[b].done
           l == life[b][k]
           m == [l EXCEPT !.paused = ~@]
<1>0. StoppingHolds /\ ITypeOK
  BY DEF InstancesInv
<1>1. /\ b # "idle" /\ b \notin held /\ keeper' = "idle"
      /\ life' = IF k = 0 THEN life ELSE [life EXCEPT ![b][k].paused = ~@]
      /\ UNCHANGED <<graceful, phase, stopping, held, inst, liveStream, disk, saved, dropped, panicked>>
  BY <1>b DEF SetInstancePaused, Unlocked, mainVars
<1>2. b \in Boats /\ k \in 0..MaxLives
  <2>1. b \in Boats
    BY <1>0, <1>1, <1>b DEF ITypeOK
  <2> QED BY <1>0, <2>1, FieldsAt
<1>3. FirstLife(b) /\ LaterLives(b) /\ (graceful => OneLife(b) /\ ~panicked)
  BY <1>0, <1>2 DEF InstancesInv, StoppingHolds
<1>4. /\ life' \in [Boats -> [Lives -> Life]] /\ (\A c \in Boats : c # b => life'[c] = life[c])
      /\ \A j \in Lives : /\ j # k => life'[b][j] = life[b][j]
                          /\ \A f \in {"run", "rx", "rxClosed", "jq", "jqClosed", "cancelled", "writer", "doneCh",
                                       "doneClosed", "mem", "given"} : life'[b][j][f] = life[b][j][f]
  <2>1. CASE k = 0
    BY <1>0, <1>1, <2>1 DEF ITypeOK
  <2>2. CASE k # 0
    <3>1. k \in Lives /\ l \in Life /\ life \in [Boats -> [Lives -> Life]]
      BY <1>0, <1>2, <2>2, OneIsALife, LifeAt DEF ITypeOK
    <3>2. life' = [life EXCEPT ![b][k] = m]
      BY <1>1, <2>2
    <3> HIDE DEF k, l
    <3>3. m \in Life
      BY <3>1 DEF Life
    <3>4. \A f \in {"run", "rx", "rxClosed", "jq", "jqClosed", "cancelled", "writer", "doneCh",
                    "doneClosed", "mem", "given"} : m[f] = l[f]
      BY <3>1 DEF Life
    <3> HIDE DEF m
    <3>5. /\ life' \in [Boats -> [Lives -> Life]] /\ life'[b][k] = m
          /\ \A j \in Lives : j # k => life'[b][j] = life[b][j]
          /\ \A c \in Boats : c # b => life'[c] = life[c]
      BY <1>2, <3>1, <3>2, <3>3
    <3> QED BY <3>4, <3>5 DEF l
  <2> QED BY <2>1, <2>2
<1>5. keeper' \in Boats \union {"idle"}
  BY <1>1
<1>6. ITypeOK' /\ Alone(b)
  BY <1>0, <1>1, <1>4, <1>5 DEF ITypeOK, Alone
<1> HIDE DEF m, l
<1> DEFINE u == First(b)
           v == First(b)'
<1>7. /\ v.run = u.run /\ v.rx = u.rx /\ v.rxClosed = u.rxClosed /\ v.jq = u.jq /\ v.jqClosed = u.jqClosed
      /\ v.cancelled = u.cancelled /\ v.writer = u.writer /\ v.doneCh = u.doneCh /\ v.doneClosed = u.doneClosed
      /\ v.mem = u.mem /\ v.given = u.given
  BY <1>4, OneIsALife DEF First
<1>8. Fresh(b) => Fresh(b)'
  <2>1. Fresh(b) => k = 0
    BY DEF Fresh
  <2> QED BY <1>1, <2>1 DEF Fresh
<1> HIDE DEF k, u, v
<1>9. FirstLife(b)'
  BY <1>1, <1>3, <1>7, <1>8 DEF FirstLife, ToSet, u, v
<1>10. LaterLives(b)'
  BY <1>1, <1>3, <1>4 DEF LaterLives
<1>11. (Untouched(b) => Untouched(b)') /\ (Finished(b) => Finished(b)')
  BY <1>1, <1>7, <1>8 DEF Untouched, Finished, u, v
<1>12. ASSUME graceful PROVE OneLife(b)'
  <2>1. OneLife(b)
    BY <1>3, <1>12
  <2>2. \A j \in Lives \ {1} : life'[b][j] = life[b][j]
    BY <1>4, <2>1, OneIsALife DEF OneLife, k
  <2> QED BY <1>1, <1>7, <2>1, <2>2 DEF OneLife, u, v
<1>13. First(b).jqClosed => First(b).jqClosed'
  BY <1>7 DEF u, v
<1> QED BY <1>1, <1>2, <1>3, <1>6, <1>9, <1>10, <1>11, <1>12, <1>13, LocalStep
-----------------------------------------------------------------------------

\* The manager starts in the invariant.
LEMMA InstancesInit == IInit => InstancesInv
<1> SUFFICES ASSUME IInit PROVE InstancesInv
  OBVIOUS
<1>1. ITypeOK
  <2>1. inst \in [Boats -> Fields]
    <3>1. Unknown \in Fields /\ Loaded \in Fields
      <4>1. 0 \in 0..MaxLives
        BY InstancesAssumption
      <4>2. Unknown \in Fields
        BY <4>1 DEF Unknown, Fields
      <4> QED BY <4>2 DEF Loaded, Fields
    <3> QED BY <3>1 DEF IInit
  <2>2. life \in [Boats -> [Lives -> Life]]
    BY NoLifeType DEF IInit
  <2>3. stopping \in StopStates /\ phase \in Phases /\ panicked \in BOOLEAN /\ graceful \in BOOLEAN
    BY DEF IInit, NotStopping, StopStates, Phases
  <2> QED BY <2>1, <2>2, <2>3 DEF IInit, ITypeOK
<1>2. StoppingHolds
  BY InstancesAssumption DEF IInit, StoppingHolds, NotStopping
<1>3. ASSUME NEW b \in Boats PROVE FirstLife(b) /\ LaterLives(b) /\ StageOf(b) /\ (graceful => OneLife(b))
  <2>1. inst[b].broker = 0 /\ inst[b].ch = 0 /\ inst[b].done = 0 /\ inst[b].cursor = 0
    <3>1. inst[b] \in {Unknown, Loaded}
      BY DEF IInit
    <3> QED BY <3>1 DEF Unknown, Loaded
  <2>2. Fresh(b) /\ First(b) = NoLife
    BY <2>1, OneIsALife DEF IInit, Fresh, First
  <2>3. FirstLife(b)
    BY <2>1, <2>2, NoLifeType DEF FirstLife
  <2>4. LaterLives(b) /\ \A k \in Lives \ {1} : life[b][k] = NoLife
    BY <2>1, NoLifeType DEF LaterLives, IInit
  <2>5. StageOf(b)
    BY <2>2, InstancesAssumption DEF StageOf, Untouched, Finished, IInit, NotStopping
  <2>6. OneLife(b)
    <3>1. saved[b] = 0 /\ 1..0 = {}
      BY DEF IInit
    <3> QED BY <2>1, <2>2, <2>4, <3>1, NoLifeType DEF OneLife, IInit
  <2> QED BY <2>3, <2>4, <2>5, <2>6
<1> QED BY <1>1, <1>2, <1>3 DEF InstancesInv

\* Every step keeps the invariant.
LEMMA InstancesNext == InstancesInv /\ [INext]_ivars => InstancesInv'
<1> SUFFICES ASSUME InstancesInv, [INext]_ivars PROVE InstancesInv'
  OBVIOUS
<1>1. CASE Handlers
  <2>1. PICK b \in Boats : Handshake(b) \/ GetInstanceBroker(b) \/ LiveFrame(b) \/ LiveEnd(b)
    BY <1>1 DEF Handlers
  <2> QED BY <2>1, HandshakeHolds, LiveFrameHolds, LiveEndHolds
<1>2. CASE Goroutines
  <2>1. PICK b \in Boats, k \in Lives : Goroutine(b, k)
    BY <1>2 DEF Goroutines
  <2> QED BY <2>1, BrokerStepHolds, BrokerExitHolds, WriterStartHolds, WriterStepHolds, WriterRotateHolds, WriterExitHolds
          DEF Goroutine
<1>3. CASE StopSteps
  BY <1>3, ShutdownHolds, StopCloseRxHolds, StopCloseJournalHolds, StopWaitWriterHolds, StopSaveHolds, LeavingHolds
     DEF StopSteps
<1>4. CASE Keeper
  BY <1>4, KeeperTakeHolds, SetInstancePausedHolds DEF Keeper
<1>5. CASE BeginShutdown
  BY <1>5, BeginShutdownHolds
<1>6. CASE UNCHANGED ivars
  BY <1>6, KeeperTakeHolds
<1> QED BY <1>1, <1>2, <1>3, <1>4, <1>5, <1>6 DEF INext

\* At exit the stage of every boat is "finished": its first writer has flushed everything.
LEMMA InstancesInvMeans == InstancesInv => ExitComplete
<1> SUFFICES ASSUME InstancesInv PROVE ExitComplete
  OBVIOUS
<1>1. StoppingHolds /\ ITypeOK
  BY DEF InstancesInv
<1>2. ASSUME phase = "stopped", NEW b \in Boats
      PROVE  /\ graceful => 1..saved[b] \subseteq disk[b] \union dropped[b]
             /\ life[b][1].given \subseteq disk[b] \union dropped[b]
  <2>1. FirstLife(b) /\ StageOf(b) /\ (graceful => OneLife(b)) /\ inst[b].cursor \in Nat /\ saved[b] \in Nat
    BY <1>1, FieldsAt DEF InstancesInv
  <2>2. Finished(b)
    BY <1>1, <1>2, <2>1, InstancesAssumption DEF StoppingHolds, NotStopping, StageOf
  <2>3. First(b) = life[b][1] /\ 1 \in Lives
    BY OneIsALife DEF First
  <2>4. CASE Fresh(b)
    <3>1. saved[b] = 0 /\ life[b][1] = NoLife
      BY <2>3, <2>4 DEF Fresh
    <3>2. 1..saved[b] = {}
      BY <3>1
    <3> QED BY <3>1, <3>2, NoLifeType
  <2>5. CASE First(b).doneClosed
    <3>1. First(b).rx = <<>> /\ First(b).jq = <<>> /\ First(b).mem = {}
      BY <2>1, <2>5 DEF FirstLife
    <3>2. ToSet(<<>>) = {}
      BY DEF ToSet
    <3>3. First(b).given \subseteq disk[b] \union dropped[b]
      BY <2>1, <3>1, <3>2 DEF FirstLife
    <3>4. graceful => 1..inst[b].cursor \subseteq First(b).given \union dropped[b] /\ saved[b] <= inst[b].cursor
      BY <2>1 DEF OneLife
    <3>5. saved[b] <= inst[b].cursor => 1..saved[b] \subseteq 1..inst[b].cursor
      BY <2>1
    <3> QED BY <2>3, <3>3, <3>4, <3>5
  <2> QED BY <2>2, <2>4, <2>5 DEF Finished
<1> QED BY <1>1, <1>2 DEF ExitComplete, StoppingHolds

\* When the cloud process has shut down, every frame that the stopped brokers were given
\* is in the journal unless a full channel or a paused writer dropped it; with a graceful
\* stop every frame that state.json counts is, and no goroutine closed a channel twice
\* (replication_server.go Shutdown and stopBroker, cmd/lplex-cloud/main.go).
THEOREM ExitIsComplete == ISpec => []ExitComplete
BY InstancesInit, InstancesNext, InstancesInvMeans, PTL DEF ISpec
=============================================================================
