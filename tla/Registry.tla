------------------------------- MODULE Registry -------------------------------
(***************************************************************************)
(* What the boat and its replica on the cloud know of the devices on the   *)
(* bus: the device registry (devices.go), the last value of every PGN by   *)
(* source (values.go), the broker's upkeep of both (handleFrame,           *)
(* expireDevices, retryProductInfo), the filters that read them            *)
(* (EventFilter and its resolved forms), and the claims and product        *)
(* information a boat sends when its live stream begins                    *)
(* (SynthesizeFrames).                                                     *)
(*                                                                         *)
(* One bus.  A device is its NAME; its product information is one fact.    *)
(* Null stands for the addresses 254 and 255.                              *)
(***************************************************************************)
EXTENDS Integers, Sequences, FiniteSets

CONSTANTS
  Names,      \* the devices on the bus
  Sources,    \* addresses
  Null,       \* the address of a device that cannot claim one
  NoName,     \* the NAME of a source that has not claimed
  IdleTicks,  \* ticks without a packet after which a device is forgotten
  MaxMoves    \* bound: address changes of the devices

\* The bus begins with an address for every device.
ASSUME RegistryAssumption ==
  /\ NoName \notin Names /\ Null \notin Sources /\ IdleTicks \in Nat /\ MaxMoves \in Nat
  /\ \E a \in [Names -> Sources] : \A m, n \in Names : m # n => a[m] # a[n]

VARIABLES
  at,      \* the bus: the address of a device, Null if it has none
  moves,   \* the bus: address changes so far
  boat,    \* the boat's registry and values
  cloud,   \* the replica's, while a live stream begins
  asked,   \* requests on their way to a device: <<address, PGN>>, none to Null
  seeds,   \* frames of SynthesizeFrames that the replica has yet to handle
  fresh    \* history: the replica has handled them, and nothing has happened since

gvars == <<at, moves, boat, cloud, asked, seeds, fresh>>

Addresses == Sources \union {Null}
NoDevice == [name |-> NoName, prod |-> FALSE, idle |-> -1]
Known(r, s) == r.dev[s] # NoDevice

\* A registry: a device, or none, by source, and the sources with a value.
Empty == [dev |-> [s \in Addresses |-> NoDevice], val |-> {}]

GInit ==
  /\ at = CHOOSE a \in [Names -> Sources] : \A m, n \in Names : m # n => a[m] # a[n]
  /\ moves = 0
  /\ boat = Empty /\ cloud = Empty /\ asked = {} /\ seeds = {} /\ fresh = FALSE
-----------------------------------------------------------------------------
(* The registry *)

\* RecordPacket: addresses that are no device's are not recorded.
RecordPacket(r, s) ==
  IF s = Null THEN r
  ELSE [r EXCEPT !.dev[s] = IF Known(r, s) THEN [@ EXCEPT !.idle = 0] ELSE [NoDevice EXCEPT !.idle = 0]]

\* Mutant: the former holder of the NAME stays.
Evicted_None(r, s, n) == {}
\* The other source of this NAME, if there is one.
Evicted(r, s, n) == {t \in Addresses \ {s} : Known(r, t) /\ r.dev[t].name = n}

RemoveSource(r, ss) == [r EXCEPT !.val = @ \ ss]
Removed(r, ss) ==
  RemoveSource([r EXCEPT !.dev = [s \in Addresses |-> IF s \in ss THEN NoDevice ELSE @[s]]], ss)

\* A claim that changes something.
News(r, s, n) == r.dev[s].name # n

\* HandleAddressClaim, with the broker's removal of the evicted source's values.
\* The packet counts stay, the product information does not; a source that was
\* not recorded has never been seen.
HandleAddressClaim(r, s, n) ==
  IF ~News(r, s, n) THEN r
  ELSE [Removed(r, Evicted(r, s, n)) EXCEPT
          !.dev[s] = [name |-> n, prod |-> FALSE, idle |-> IF Known(r, s) THEN r.dev[s].idle ELSE IdleTicks + 1]]

HandleProductInfo(r, s) == IF Known(r, s) THEN [r EXCEPT !.dev[s].prod = TRUE] ELSE r

Expired(r) == {s \in Addresses : Known(r, s) /\ r.dev[s].idle > IdleTicks}
Aged(r) == [r EXCEPT !.dev = [s \in Addresses |->
              IF Known(r, s) /\ r.dev[s].idle <= IdleTicks THEN [r.dev[s] EXCEPT !.idle = @ + 1] ELSE r.dev[s]]]
ExpireDevices(r) == Removed(r, Expired(r))

\* Mutant: the sources that have not claimed.
SourcesMissingProductInfo_Nameless(r) == {s \in Sources : Known(r, s) /\ r.dev[s].name = NoName}
SourcesMissingProductInfo(r) ==
  {s \in Sources : Known(r, s) /\ r.dev[s].name # NoName /\ ~r.dev[s].prod}
-----------------------------------------------------------------------------
(* The broker *)

\* handleFrame: a frame is a claim, product information or data, from n at s.
BusFrame(k, s, n) == [kind |-> k, src |-> s, name |-> n]
HandleFrame(r, f) ==
  LET p == RecordPacket(r, f.src)
      q == CASE f.kind = "claim" -> HandleAddressClaim(p, f.src, f.name)
             [] f.kind = "product" -> HandleProductInfo(p, f.src)
             [] f.kind = "data" -> p
  IN  [q EXCEPT !.val = @ \union {f.src}]

\* The requests it makes, which a replica does not; nobody answers for Null.
Requests(r, f) ==
  CASE f.src = Null -> {}
    [] f.kind = "claim" /\ News(r, f.src, f.name) -> {<<f.src, "product">>}
    [] f.kind = "data" /\ ~Known(r, f.src) -> {<<f.src, "claim">>}
    [] OTHER -> {}

Hear(f) ==
  /\ boat' = HandleFrame(boat, f)
  /\ asked' = asked \union Requests(boat, f)

\* The boat goes on when no stream is beginning: what it does meanwhile does not
\* change the frames the stream begins with, so it does it afterwards.
BoatMoves == seeds = {} /\ fresh' = FALSE /\ cloud' = Empty /\ UNCHANGED seeds

RetryProductInfo(r) == {<<s, "product">> : s \in SourcesMissingProductInfo(r)}
\* The broker's ticker.
Upkeep ==
  /\ BoatMoves
  /\ boat' = ExpireDevices(Aged(boat))
  /\ asked' = asked \union RetryProductInfo(boat')
  /\ boat' # boat \/ asked' # asked
  /\ UNCHANGED <<at, moves>>
-----------------------------------------------------------------------------
(* The bus *)

Free(s) == \A n \in Names : at[n] # s

\* A device takes an address, or can take none, and says so; the boat hears it or
\* is not listening.
Move(n, s) ==
  /\ BoatMoves /\ moves < MaxMoves /\ s # at[n] /\ (s = Null \/ Free(s))
  /\ moves' = moves + 1 /\ at' = [at EXCEPT ![n] = s]
  /\ Hear(BusFrame("claim", s, n)) \/ UNCHANGED <<boat, asked>>

Data(n) ==
  /\ BoatMoves /\ at[n] # Null
  /\ Hear(BusFrame("data", at[n], n))
  /\ boat' # boat \/ asked' # asked
  /\ UNCHANGED <<at, moves>>

Answer(n, k) ==
  /\ BoatMoves
  /\ at[n] # Null /\ <<at[n], k>> \in asked
  /\ LET f == BusFrame(k, at[n], n)
     IN  /\ boat' = HandleFrame(boat, f)
         /\ asked' = (asked \ {<<at[n], k>>}) \union Requests(boat, f)
  /\ UNCHANGED <<at, moves>>

\* A request, or its answer, is lost, or no device is there.
LoseRequest ==
  /\ BoatMoves
  /\ \E q \in asked : asked' = asked \ {q}
  /\ UNCHANGED <<at, moves, boat>>
-----------------------------------------------------------------------------
(* The live stream *)

\* SynthesizeFrames: in any order of the devices, a device's claim first.
Synthesized(r) ==
  {[src |-> s, name |-> r.dev[s].name, kinds |-> IF r.dev[s].prod THEN <<"claim", "product">> ELSE <<"claim">>] :
     s \in {t \in Addresses : Known(r, t) /\ r.dev[t].name # NoName}}

\* What the replica may believe by then, of the devices' addresses.
Beliefs ==
  {[dev |-> [s \in Addresses |-> IF s = Null \/ b[s] = NoName THEN NoDevice
                                 ELSE [name |-> b[s], prod |-> TRUE, idle |-> 0]],
    val |-> {}] :
     b \in {c \in [Sources -> Names \union {NoName}] :
              \A s, t \in Sources : (s # t /\ c[s] # NoName) => c[s] # c[t]}}

StreamBegins ==
  /\ seeds = {} /\ ~fresh /\ Synthesized(boat) # {}
  /\ seeds' = Synthesized(boat) /\ cloud' \in Beliefs
  /\ UNCHANGED <<at, moves, boat, asked, fresh>>

\* The replica handles the frames of a device.
SeedHandled ==
  \E d \in seeds :
    /\ seeds' = seeds \ {d} /\ fresh' = (seeds = {d})
    /\ LET c == HandleFrame(cloud, BusFrame("claim", d.src, d.name))
       IN  cloud' = IF Len(d.kinds) = 2 THEN HandleFrame(c, BusFrame("product", d.src, d.name)) ELSE c
    /\ UNCHANGED <<at, moves, boat, asked>>

GNext ==
  \/ Upkeep \/ LoseRequest \/ StreamBegins \/ SeedHandled
  \/ \E n \in Names : (\E s \in Addresses : Move(n, s)) \/ Data(n) \/ (\E k \in {"claim", "product"} : Answer(n, k))

\* The ticker runs; a device that is asked again and again answers.
GFairness ==
  /\ WF_gvars(Upkeep) /\ WF_gvars(SeedHandled)
  /\ \A n \in Names : SF_gvars(Answer(n, "product"))
GSpec == GInit /\ [][GNext]_gvars /\ GFairness
-----------------------------------------------------------------------------
(* Filters *)

\* Criteria on the device and its name; a device that has not claimed has none.
Filters == [names : SUBSET Names, exclude : SUBSET Names]

\* EventFilter.matches, frame by frame.
Matches(r, f, s) ==
  /\ ~(Known(r, s) /\ r.dev[s].name \in f.exclude)
  /\ f.names # {} => Known(r, s) /\ r.dev[s].name \in f.names

\* resolve and resolvedFilter.matches, for a consumer.
Resolve(r, f) ==
  [all |-> f.names = {},
   sources |-> {s \in Addresses : Known(r, s) /\ r.dev[s].name \in f.names},
   exclude |-> {s \in Addresses : Known(r, s) /\ r.dev[s].name \in f.exclude}]
ResolvedMatches(q, s) == s \notin q.exclude /\ (q.all \/ s \in q.sources)

\* newValueFilter and valueFilter.matches: a device without a NAME meets no criterion.
ValuePasses(r, f, s) ==
  /\ ~(Known(r, s) /\ r.dev[s].name \in f.exclude)
  /\ f.names # {} => Known(r, s) /\ r.dev[s].name # NoName /\ r.dev[s].name \in f.names
\* Snapshot: the sources listed.
Listed(r, f) == {s \in r.val : ValuePasses(r, f, s)}

\* What a journal block says of the devices when it is begun, and loadDeviceTable
\* finds there: the ones with a NAME.  matchesReplayFilter goes by it.
DeviceTable(r) == [s \in {t \in Addresses : Known(r, t) /\ r.dev[t].name # NoName} |-> r.dev[s].name]
ReplayMatches(t, f, s) ==
  /\ ~(s \in DOMAIN t /\ t[s] \in f.exclude)
  /\ f.names # {} => s \in DOMAIN t /\ t[s] \in f.names
-----------------------------------------------------------------------------
(* Properties *)

Holds(r) ==
  /\ \A s, t \in Addresses : (s # t /\ r.dev[s].name # NoName) => r.dev[s].name # r.dev[t].name
  /\ \A s \in Sources \intersect r.val : Known(r, s)
  /\ \A f \in Filters : \A s \in Addresses :
       /\ ResolvedMatches(Resolve(r, f), s) = Matches(r, f, s)
       /\ ReplayMatches(DeviceTable(r), f, s) = Matches(r, f, s)
       /\ (s \in Listed(r, f)) = (s \in r.val /\ Matches(r, f, s))

\* What the replica knows when it has handled the frames a stream began with.
SeedAgrees ==
  \A s \in Addresses : boat.dev[s].name # NoName =>
    /\ cloud.dev[s].name = boat.dev[s].name
    /\ boat.dev[s].prod => cloud.dev[s].prod

\* In the boat's and the replica's registry a NAME is held by one source at most,
\* a source that was evicted or has expired leaves no value behind, and a filter
\* on NAMEs picks the same sources frame by frame, resolved for a consumer, in a
\* snapshot of the values and by the device table of a journal block begun now,
\* whatever devices come, move and fall silent.  When
\* the replica has handled the frames a live stream began with, in whatever order
\* and whatever it believed before, it has every NAME and all product information
\* that the boat had, at the boat's addresses.
RegistryHolds ==
  /\ Holds(IF seeds = {} /\ ~fresh THEN boat ELSE cloud)
  /\ fresh => SeedAgrees

Waiting(n) == at[n] # Null /\ boat.dev[at[n]].name = n /\ ~boat.dev[at[n]].prod

\* A device whose NAME the boat knows, and keeps, has its product information in
\* the end, though requests and answers are lost and the NAME was heard before
\* or after a move (handleFrame's request, and retryProductInfo).  A device whose
\* NAME was not heard may stay without one: its claim is asked for once.
ProductInfoArrives == \A n \in Names : []<>~Waiting(n)
=============================================================================
