# lplex: specifications, model checking and proofs

lplex reads NMEA 2000 frames from CAN buses on a boat, numbers them, keeps the
latest ones in a ring in memory and all of them in journal files on disk, serves
them to clients, and replicates them to a cloud server over links that come and
go. This directory holds TLA+ models of the parts in which order, loss, failure
and limits decide whether that works, TLC runs on small instances of them, and
proofs for instances of every size.

## 1. Inventory

| component | source | state | operations |
|---|---|---|---|
| broker | `broker.go` | ring, `head`, `tail`, device registry, sessions, `txFrames` | `handleFrame` (one goroutine), `queueTx`, `expireDevices`, `CloseRx` |
| journal writer | `journal_writer.go` | open file, block in memory, `paused` | `appendFrame`, `flushBlock`, `checkRotation`, `finalize`, `SetPaused` |
| pull consumers | `consumer.go`, `journal/reader.go` | cursor, notify channel, open journal file | `NewConsumer`, `Next`, `Close` |
| hole tracker | `replication.go` | sorted half-open ranges | `Add`, `Fill`, `ContinuousThrough`, `TotalMissing` |
| replication client | `replication_client.go` | cloud cursor, holes, connection | connect, live stream, status, backfill |
| replication server | `replication_server.go` | per boat: cursor, holes, boat head, broker, `state.json` | `Handshake`, `Live`, `Backfill`, `stopBroker`, `Shutdown` |
| journal keeper | `keeper/keeper.go` | pending files, backoff, pause, rotation channel | scan, startup sweep, rotation, script, retry |
| virtual devices, registry | `virtual_device.go`, `devices.go` | claim state and address per device; NAME by source | claim, echo, conflict, heartbeat, expiry |
| client sessions | `broker.go`, `server.go`, `slots.go`, `lplexc/session.go`, `cmd/lplex/cmd_dump.go` | per client: acknowledged number, filter, last activity; the client's last number | create, stream, acknowledge, expire, reconnect |
| fan-out, send, query | `broker.go`, `server.go`, `websocket.go`, `can.go` | subscribers' channels, transmit queue | subscribe, fan out, drop, send, query |
| cloud instances | `replication_server.go`, `cmd/lplex-cloud/main.go` | per boat: broker, channels, writer, `journalDone` | `ensureBroker`, `stopBroker`, pause, `Shutdown` |
| request rules | `requestrules/` | freshness and last request per rule, device and datum | tick, frame, device on and off |
| registry, values, filters | `devices.go`, `values.go`, `broker.go` | NAME and product information by source; last value by source | claim, packet, eviction, expiry, retry, seed of a replica |
| journal files | `journal_writer.go`, `block_writer.go`, `journal/reader.go`, `history.go` | blocks, index, reader position | append, close, open, scan, seek, prefetch, query |
| fast packet | `fastpacket.go`, `can.go` | sequence counter, assemblies in progress | fragment, frame, purge |
| change tracker | `changetracker/` | baseline per key, replayer's state | packet, tick, remove, apply |
| display filter | `filter/` | none | lex, parse, evaluate |
| alerts, bus silence, health | `alerting.go`, `bus_silence.go`, `health.go` | last alert times, channel, silence | fire, check, send |
| send policy, MQTT, metrics, CLI, PGN generator | | | mostly stateless, or display |

How they interact. CAN readers put frames on `rxFrames`; the broker goroutine is
their only reader. It updates the registry and the virtual devices (which answer
through `txFrames`, and hear their own frames come back as echoes), appends to
the ring under `mu`, wakes consumers through channels of capacity one, and sends
the frame to the journal channel without ever blocking. The journal writer is a
goroutine of its own; it tells the keeper of rotated files through a channel that
drops when full, and the keeper pauses it through a callback. A consumer reads the
ring under a read lock, one entry at a time, or opens the journal files itself,
beside the writer that is appending to them. The replication client is one
consumer and one reader of journal blocks; the server's handlers share an
instance's state under its lock and feed a second broker in replica mode.

What is hard: non-blocking sends that drop; values used after the lock that
protected them is released; messages of a broken stream processed after the next
handshake; a crash between two independent writes; a retry timer shared by
everything that failed; the order of statements at shutdown. `PROJECT.json` lists
these hazards at their lines, with the properties that cover them.

## 2. Modules

| module | models | composed from |
|---|---|---|
| `JournalWriter` | the broker's journal send, the writer goroutine, both shutdown sequences | |
| `TieredLog` | ring, journal and pull consumers | extends `JournalWriter` |
| `HoleRanges` | the hole tracker's operations as operators | |
| `HoleSet` | abstract: a set of missing numbers | |
| `HoleTracker` | a tracker under arbitrary calls; implements `HoleSet` | `HoleRanges`, instance of `HoleSet` |
| `Replication` | boat client, cloud server, the two streams, crashes | extends `HoleRanges` |
| `Keeper` | retention and archiving of one directory | |
| `AddressClaim` | virtual devices, registry, discovery, the bus | |
| `Sessions` | a buffered client from end to end, over server restarts | |
| `FanOut` | subscribers, `/events`, `/ws`, `/send`, `/query`, the transmit path | |
| `Instances` | the cloud's brokers from first connection to process exit | |
| `RequestRules` | the request-rule engine | |
| `Registry` | device registry, values and filters of boat and replica | |
| `JournalFile` | a journal file in cells, its writers, reader and history query | |
| `FastPacket` | fragmentation and reassembly | |
| `ChangeTracker` | tracker, diffs and replayer | |
| `DisplayFilter` | lexer's tokens, parser, evaluation; `RECURSIVE`, for TLC only | |
| `Alerts` | monitor, replication alerts, alert manager, health endpoint | |
| `HoleRangesProofs` | what `Add`, `Fill` and `ContinuousThrough` compute, for all ranges; lemmas on loops | extends `HoleRanges` |
| `ReplicationProofs` | theorems about `HoleTracker` and `Replication` | extends both and `HoleRangesProofs` |
| `TieredLogProofs` | theorems about `JournalWriter` and `TieredLog` | extends `TieredLog` |
| `JournalFileProofs` | theorems about `JournalFile` | extends it and `HoleRangesProofs`, for the loops |
| `ServiceProofs` | theorems about `Keeper`, `Alerts` and `FastPacket` | extends the three |
| `ClientProofs` | theorems about `Sessions`, `FanOut` and `ChangeTracker` | extends the three |
| `CloudProofs` | theorems about `Registry` and `Instances` | extends both |
| `AddressClaimProofs` | theorems about `AddressClaim` | extends it |
| `MC...` | the module TLC runs; `MCServices` and `MCComponents` run several modules each, which they extend, but for `RequestRules` and `DisplayFilter`, of which they have an instance | |

Definitions keep the names of the functions they model; the map from definitions
to lines is in `PROJECT.json`. Definitions called `X_Something` before a
definition `X` are its mutants: plausible mistakes in that code which a property
must catch.

**JournalWriter.** One action per select branch of `Run`: `AppendFrame` is the
whole of `appendFrame` with the flush, rotation and re-initialisation inside it,
`Discard` the paused branch, `Finalize` both exits, `IOFails` any failing create,
write, sync or close. A frame is its number and whether it is an address claim
(claims add an entry to the block's device table). Space is counted in units: one
per frame, `EntrySize` per table entry. `stop` counts the shutdown statements that
have run; boat and cloud have them in different orders. `HandleFrame` is the
broker's side: numbering, and the send that drops or, on a closed channel, panics.
A replica takes the number that came with the frame, including 0 (the device
snapshot) and the last number again after a reconnect.

**TieredLog.** `THandleFrame` is `HandleFrame` with the ring append, the tail's
advance and the wake-ups. A consumer goes through `Next` in the steps between
which locks are free: `RingRange` (choose a tier), `ReadEntry`, `Select` and
`Wake`, and in the journal `OpenJournal`, `JournalFrame`, `NextFile`,
`SwitchToRing`. The file list is a snapshot, and so are the blocks of the file
being read. A reader cannot see a frame's number: it computes base + index
(`Label`), while the model also knows the true one (`SeqAt`). The filter's verdict
is a free choice per frame.

**Replication.** The boat produces frames and flushes blocks; `Dial` and
`Handshake` are separate, and the answer may be lost. Each stream is a queue that
delivers in order; `Disconnect` loses all but a prefix of both, and that prefix
stays with handlers of the broken stream (`oldLive`, `oldFill`) that go on while a
new connection is up. `CloudCrash` keeps `state.json` and the flushed journal,
`CloudRestart` is `Shutdown` and a start. `lost` and `jumped` are history
variables: frames the code gave up by dropping or by a crash, and the branch that
sets the cursor to the boat's reported head. The boat is assumed to know at least
one device, so a live stream begins with a snapshot frame.

Loops over slices (`Add`, `Fill`, `TotalMissing`, `backfillFromFile`) are recursive
functions over the number of rounds done, so that they can be reasoned about.

**Keeper.** A file is its place in the order of creation, with size one. A script
run is two steps, `StartScript` and `ScriptEnds`, and the writer goes on between
them; the outcome is any subset of the batch. `whole` and `partial` record whether
a file was closed when it was archived.

**AddressClaim.** Everybody on the bus hears every frame in one order, our own
transmissions included. Real devices are external: they obey the rule that the
lower NAME wins, answer requests, and come, move and talk as they like within
`MaxEvents`. `dropped` is history: a claim did not fit into the full `txFrames`.
`NoConflictAtRest` speaks of buses on which that has not happened: a claim that was
never sent is not answered, and the conflict can then last while the bus is quiet.

**Sessions.** The server side is the session table and the three handlers; the
client is `lplex dump`: create, subscribe, read, acknowledge `lastSeq` on a ticker,
reconnect. `wire` holds what is written to a stream and not read yet; a cancelled
acknowledgement may still be handled after the next reconnect (`lateAcks`). The stream's consumer is the one `TieredLog`
models, reduced to what it promises. `base`, `got`, `foreign` and `foreignAck` are
history: from where on a client may count on frames, what it read, and whether a
number of an earlier server start was acknowledged to a later one.

**FanOut.** One channel per subscriber for frames and device events, and a query is
one more subscriber. `due` and `dropped` are history. Claims move the virtual
device between ready and not ready; `/ws` sends without asking.

**Instances.** Every start of a boat's broker is a life with its own goroutines and
channels, because the fields of `InstanceState` are overwritten by the next one.
What happens under `inst.mu` is one step; `stopBroker` is several, since it gives
the lock up. The two ways the cloud listens (gRPC on its own port, stopped
gracefully, or shared with HTTP and given five seconds) are both initial states.

**RequestRules.** Two rules in order, the first with or without maximal age, online
request and trigger, with or without a floor over both; a request may be lost anywhere. Ages count up to the interval
that matters.

**Registry.** Two registries with the same code: the boat's, fed by the bus, and
the replica's, fed by the frames `SynthesizeFrames` makes when a live stream
begins, in any order. A filter is a set of NAMEs, read in the four ways the code
does: per frame, resolved, in a value snapshot, and from a block's device table.

**JournalFile.** Cells rather than bytes: a crash or failed write may cut after
any cell. The reader finds blocks by index or scan, seeks by number or time, reads
ahead or not, and may have opened the file while it grew. The loops (the scan, the
binary search, the reading of a history query and its choice of frames) are
functions over their rounds.

**FastPacket.** Sizes that are 6, 7, 8 and 32 in the code are parameters. A byte of
a payload is named by node, payload and position, so that a mixture shows. One
counter numbers the transfers of all PGNs of a writer, so the reader of one PGN sees
it jump (`BeginOther`). `unseen` counts what the reader misses of a node while an
assembly is in time, lost frames and transfers of other PGNs; that it stays within
`MaxUnseen`, at most the number of counters, is an assumption about the traffic: the timeout of 750 ms and the pacing of 50 ms leave room for
fifteen transfers and there are eight counters, so the code does not enforce it. It
is sharp: with one more, TLC finds a packet put together from two.

**ChangeTracker.** Packets are not empty. A changed byte's place in a diff is its
rank among the changed ones (`Rank`, `BytesAt`).

**DisplayFilter** is compared with a definition of the meaning of an expression that
splits it at its outermost connective, without a parser.

**Alerts.** Each kind of alert has its own window; `fate` is history: whether the
alert of a topic's last change was told, is queued, or was suppressed or lost.

## 3. Runs

| run | shows |
|---|---|
| `JournalBoat` | every numbered frame is in exactly one place (disk, block, channel, or counted as lost); labels drift by exactly the losses; the device table never covers a frame but a closing claim's; a shutdown loses at most the one frame whose arrival rotated the file |
| `JournalCloud` | `stopBroker` never sends on a closed channel and always ends |
| `JournalBoatShutdown` | violation: the boat's `main` closes the journal channel under a broker that may still send |
| `ReplicationCrash` | late messages of broken streams, three connections, failing block writes, a full replica broker, a crash or restart of the cloud: no untracked gap below the cursor, holes are closed by data on disk only |
| `ReplicationLive` | flushed numbers of a hole are delivered while the connection lasts |
| `ReplicationJump` | violation: the cursor can pass frames that never arrived |
| `TieredLog` | ring exact; frames delivered under their own numbers; nothing between the tiers; a frame in the ring is never refused; no lost wake-up |
| `Keeper` | deletion only after archiving or by policy; retries always armed; the size cap is enforced or recording paused; a pause ends when the script works |
| `KeeperDropped` | violation: a dropped rotation notification is not picked up by the periodic scan |
| `AddressClaim` | own addresses distinct; no lost conflict when the bus is quiet; every claim settles |
| `Services` | sessions: acknowledged means read, an open stream delivers; cloud instances: complete journals at exit, shutdown ends; request rules: what is missing is asked for again; registry: one holder per NAME, no values left behind, filters agree, the replica's seed is complete, product information arrives |
| `Components` | hole tracker against a set of numbers; fan-out in order and no missed answer; alerts against the states they tell of; fast packets whole; journal files readable up to the cut and history windows exact; change events replayable; filters mean what they say |

The modules of `Services` share no state, nor do those of `Components`. A
behaviour runs one of them (`part`) from any of its initial states while the others
stay in one of theirs, so the state graph is the disjoint union of the parts'
graphs, not their product, and a property restricted to its part means what it
means for the part alone. Fairness is stated for the part that runs. The parts that
promise progress are in `Services`, those with invariants only in `Components`.

**Bounds.** They are the smallest at which the interesting cases occur, and larger
ones were tried where time allowed. Journal: six frames over a channel of two and
blocks of three units give full channels, several blocks, rotations in every
position and blocks ended by a claim. Hole tracker: numbers up to six hold three
separate holes. Replication: blocks of two, three connections and heads up to
three where everything can fail, two connections and heads up to four for
liveness, five for the jump: a hole that is partly flushed, a
partly filled hole, a second gap while the first is open. Tiered log: a ring of four, one more than channel and
block together (the smallest ring for which `NoBlindSpot` is meant), and seven
frames, so that the ring turns over and a consumer can fall off it. Consumers do
not influence each other, one is enough. Keeper: three files with a cap of two and
a soft threshold of one, a rotation channel of one, one restart. Address claims:
two virtual and two real devices with interleaved NAMEs contend for two addresses.
Sessions: two frames, two connections and one restart, enough for an acknowledgement
that is late by a connection or a server start; three frames were tried. Instances:
one boat (boats share the manager's lock only) with two lives and queues of one.
Registry: two devices move twice over two addresses and the null address. Request
rules: two data, intervals of two units. Fan-out: three events over a channel of
two. Fast packets: two nodes, two counters, two transfers each and at most two of
them or of their frames unseen; payloads of two frames, the second padded, and of three.
Journal files: three blocks of one or two frames. Change tracker: packets below, at
and above the mask size. Filters: up to eleven words from nine phrases. Alerts: a
window of two ticks and a channel of one.
`CrashView` hides `state.json` once the cloud can no longer crash: nothing reads it
then.

**Fairness.** Journal: the writer and the broker goroutine are scheduled, and a
shutdown that has begun goes on. Tiered log: only that readers keep calling `Next`;
no further frame is promised, which makes a lost wake-up visible. Replication: the
sender of holes and the receiving handlers; neither dialling, nor frames, nor an
intact network. Keeper: the branches of the select are taken again and again when
ready (Go picks at random), which is strong fairness, and a script ends because it
has a timeout; that it succeeds is assumed only in `PauseEnds`. Address claims: the
broker, the CAN writer and the start goroutine run, and devices on the bus answer.
Sessions: handler and client read and write while the stream is open; no
reconnect and no acknowledgement is promised. Instances: the goroutines, the
keeper and the shutdown that has begun; boats may keep their streams for ever.
Request rules: clock and ticker. Registry: the broker's ticker, the replica's
broker, and a device that is asked again and again answers at last (strong
fairness: single answers may be lost). Liveness is stated as "again and again the
promise is kept": under it, nothing stays undelivered, unasked or running for
ever.
Deadlock is not checked: every model ends in a state with its bounds used up or its
processes stopped.

**Disagreements** between code and documentation are the three violation runs. More
were met, and are stated exactly by properties or listed as hazards: frames after a
drop are labelled one too low in the rest of their block, where `docs/adr/004` promises equal numbers (`DriftIsLoss` states the exact
deviation), and the frame in memory after a rotation is lost by an immediate
shutdown, where the comment on `finalize` promises a flush
(`FinalizeLosesAtMostOne` bounds the loss). `HandleAddressClaim` says it preserves
product information and drops it (`ProductInfoArrives`: it is asked for again); the
request-rule package promises its interval across absences of a device and forgets
it; `/healthz` and the silence monitor differ at the very instant of the timeout
(`AlertsAgree`).

**Seen in the code, not stated as a property.** The models reproduce the first group;
the second is outside them.

- `replication_server.go:614`, `:418`: after a reconnect an old stream's error path
  clears `Connected`; `LagSeqs` is an unsigned difference with a cursor that may be
  ahead. Both are displayed only.
- `cmd/lplex/cmd_dump.go:614`: `lastSeq` outlives a server restart and is
  acknowledged to a server that has not given that number yet (`foreignAck`).
- `server.go:245`: a session that never acknowledged is streamed to live only.
- `broker.go:675`: the claim of a new source is asked for once; if that is lost the
  device stays without NAME while it keeps talking.
- `requestrules/requestrules.go:381`, `:287`: the floor over all rules can starve
  later ones; an absence resets a target's interval.
- `block_writer.go:129`: the writer goes on after a failed write, and later blocks of
  the file may be out of a reader's reach though their holes are closed.
- `alerting.go:99`, `:103`: a second silence within the window is suppressed while
  its end is reported; an alert dropped on the full buffer still opens a window.
- `fastpacket.go:153`, `can.go:117`: payloads above 223 bytes wrap the frame number;
  short payloads of fast-packet PGNs go out unfragmented.
- `replication_client.go:605`: raw blocks are read behind a 20-byte header, which
  dictionary-compressed blocks do not have.
- `cmd/lplex/cmd_dump.go:654`: with `--changes` a second goroutine uses the tracker.
- `replication_server.go:674`: a seed frame dropped by the full replica broker is not
  sent again.

## 4. Proofs

The theorems hold for every value of the constants that meets the named assumptions
of the modules (`SizesAssumption`, `RingAssumption`, `KeeperAssumption`,
`ClaimAssumption`, `ReplicationAssumption`, `FanOutAssumption`, `AlertsAssumption`,
`RegistryAssumption`, `InstancesAssumption`, `FastPacketAssumption`,
`ChangeTrackerAssumption`, `JournalFileAssumption`): sizes and bounds are natural
numbers, channels, blocks and packets are not empty, the sets of devices are finite,
a payload can be numbered, and `MaxUnseen` as above. Some theorems have one
hypothesis more, given below. `~ReplicaMode` means: this is the boat, which
numbers frames itself.

| theorem | states | hypothesis | inductive invariant, and why it is needed |
|---|---|---|---|
| `JTypeCorrect` | `JTypeOK` | | is inductive itself; its point is the channel's capacity and that the open file is in the directory |
| `ReplicaNeverPanics` | `NoSendOnClosedChannel` | `ReplicaMode` | adds that past the close the broker is done: what fails on the boat |
| `PipelineCorrect` | `PipelineInOrder` | `~ReplicaMode` | channel and block hold consecutive numbers ending at the head, all earlier ones are on disk; needs the bound on the block's length |
| `EveryFrameIsSomewhere` | `EveryFrameAccounted` | `~ReplicaMode` | numbers in channel and block ascend, those on disk, in the block, in the channel and the lost ones are apart, and the next is above all |
| `LabelsDriftByLoss` | `DriftIsLoss` | `~ReplicaMode` | the same for the block in memory: its labels are off by the drops counted in it, and a later drop moves no earlier label; counting needs the theorems on finite sets |
| `ReservationSuffices` | `ReservationHolds` | `TableLeavesRoom` | the table of the block in memory fits too (`TableFits`), and every block on disk has a frame and can be read; only claims of new devices add an entry |
| `RotationLosesAtMostOne` | `FinalizeLosesAtMostOne` | | without an open file the block is empty or just begun |
| `RunsTheJournal` | `JSpec` | | each step of `TieredLog` is a step of `JournalWriter` or leaves it alone, so the journal's theorems hold in the composition |
| `RingCorrect` | `RingExact` | `~ReplicaMode` | bounds on tail and head; numbers less than a ring size apart have different slots |
| `NoBlindSpotBetweenTiers` | `NoBlindSpot` | `~ReplicaMode` | from `PipelineCorrect` and the ring: what is not on disk is at most channel plus block |
| `ConsumersSeeTrueNumbers` | `DeliveredTrue` | `~ReplicaMode` | `ConsInv`: a consumer about to read the ring is behind the head, one about to list the journal behind the tail, and an open reader points into blocks that stay where they are; their labels are exact while nothing is lost |
| `FallsBehindOnlyTheRing` | `GivesUpOnlyBehindRing` | `~ReplicaMode` | the same, for the steps that fail |
| `NoRetryForgotten` | `RetryArmed` | | `RetryInv`: a timer is set exactly while there is a backoff, and then files are pending, also while a script runs and during the start |
| `NothingDeletedUnarchived` | `DeletedWasArchived` (action) | | `MarkersTrue`: a file marked as archived was taken by the script |
| `OwnAddressesNeverClash` | `OwnAddressesDistinct` | | `GoodTable`: also during the start, in which the devices claim one after the other |
| `QuietBusHasNoConflict` | `NoConflictAtRest` | | `RestInv`: every contest for an address is still being settled: the peer's claim is in `rx`, ours in `tx`, or the peer owes an answer |
| `TrackerIsASet` | `HolesImplementSet` (refinement) | `MaxEnd \in Nat` | the ranges are sorted, not empty and do not touch (`Tidy`) |
| `TrackerAnswersRight` | `HolesAgree` | `MaxEnd \in Nat` | the same |
| `CursorNeverPassesAGap` | `CursorBacked` | | `AllBacked`: for the instance and for `state.json`, which a crash brings back, everything up to the cursor has arrived or is lost, and below a missing number everything has arrived, is lost, or is missing too. The second part carries the move of the cursor to just below the first hole |
| `NoGapUntracked` | `GapsTracked` | | adds `Bounded`: no cursor, hole or message is above the number the boat had when it dialled. Without it a handshake with head 0 and a cursor above 0 would start the live stream past a gap |
| `HolesCloseWithData` | `HoleClosedByData` (action) | | the same invariant: `Fill` takes out exactly the block's numbers |
| `CursorCoversOnlyTheRead` | `AckedWasRead` | | every number that may become the cursor (the session's, the client's last, acknowledgements under way or cancelled) is covered by what was read, and the stream leaves nothing out up to any number on the wire; numbers of an earlier server start are excepted |
| `ListenersInOrder` | `ListenerInOrder` | | `FInv`: what was written to a listener, followed by what is in its channel, is its story: in order, without repetition, exactly what was due less what was dropped (`Story`) |
| `QueriesHear` | `QueryHears` | | the same invariant: while a query waits it is a subscriber with its own filter, and a subscription that has just begun has no answer to miss |
| `ReplayerFollows` | `ReplayFollows` | | `ChangesInv`: the events on the way lead from the replayer's packet to the tracker's baseline (`Course`, a sequence of packets, one step per event) |
| `AlertsAgreeHolds` | `AlertsAgree` | | `AlertsInv`: what was last said of each topic agrees with monitor and client; and according to its `fate` it is last in the channel, or told with nothing of the topic behind it |
| `PacketsArriveWhole` | `PacketsWhole` | | `PacketsInv`: per node, what is under way, what the assembly holds and what is to come are pieces of one transfer, or of one that was cut and cannot be completed, since fewer transfers than counters lie between |
| `RegistryIsKept` | `RegistryHolds` | | `GInv`: values belong to known sources, a NAME to one of them, and where the replica's seed has been handled the two registries agree |
| `ExitIsComplete` | `ExitComplete` | | `InstancesInv`: per boat, which of its lives may still run in each phase of the shutdown, and where the frames counted by a life are |
| `JournalIsRead` | `ReadComplete` | | `Layout` (below) and `ReaderInv`: the reader's blocks are right as far as it knew the file, what was read ahead is the block it is taken for, what was given is in order and complete up to the next frame |
| `HistoryIsExact` | `HistoryExact` | | `Layout`: the frames stored before a failure can all be found and read; for each loop what holds after every round (`ReadUpTo`, `AnswerGood`) |

`Layout` says what a journal file looks like at any time: the blocks stored before
a failure are at its beginning, one behind the other, where the index and the
sizes say; every cell belongs to a block that was given, blocks begin in order, a
header is followed by its own payload or by another kind of cell; behind the stored
blocks no whole block begins unless a block writer went on after a failure; the
tail of an index is the last cell, behind all offsets. From it `BlocksFound` follows:
by size, by index or by scan a reader finds the stored blocks first, and without a
failed block write no others. Reading beside the writer needs that a file only grows.

`TableLeavesRoom` says that the device table of all devices fits into a block with a
frame to spare. The default block of 262144 bytes meets it for all 253 devices of a
bus at 147 bytes each; a block of 4096 bytes, the smallest the configuration takes,
does not with many devices.

**Loops.** The provers have no induction over data. A loop is a recursive function
over its rounds; `LoopExists` shows that such a function exists (by a minimal
counterexample, from the well-foundedness of the natural numbers) and `AllRounds`
that what the first round has and each round passes on, all rounds have. With these
`AddMeaning`, `FillMeaning` and `ContinuousMeaning` say what the hole tracker's loops
compute for every input, and both parts of `ReplicationProofs` cite them;
`SearchFinds`, `ScanFound`, `FramesFromGood` and `QueryGood` say it of the loops over
journal files.

**What the proofs changed.** `NoConflictAtRest` used to say nothing of dropped
claims and passed only because of the run's bounds: its proof did not go through,
and TLC found the counterexample with a channel of one. It is now stated for buses
without a dropped claim, and its mutant is a peer that does not answer a claim.
`PacketsWhole` used to bound all losses together, and the model gave each PGN a
counter of its own. The proof asked why an old assembly can never be completed by a
later transfer; the answer, a bound on what a reader misses of one node, is now the
assumption on `MaxUnseen`, and the counter is shared as in `can.go`.

**Only model-checked.** All liveness properties (fairness and `ENABLED` are out of
the prover's reach): `ShutdownTerminates`, `BackfillDelivers`, `ConsumerProgress`,
`CapEnforced`, `PauseEnds`, `ClaimSettles`, `StreamDelivers`, `ShutdownEnds`,
`StaleIsRequested`, `ProductInfoArrives`. `FilterMeans`: parser and meaning are
`RECURSIVE` operators over trees, and that they agree needs an induction over
expressions. All other invariants and action properties of the passing runs are
proved. `JTypeOK` is proved and no longer an invariant of a run.

## 5. Not modelled

Listed with reasons in `PROJECT.json`. In short: the PGN definitions, their
generator and the generated code (bit-field decoding without state), protocol
buffers, formatting and JSON, compression and checksums beyond "does this block
decode", front ends other than `lplex dump`, metrics, the event log, the MQTT
bridge (a subscriber like any other, in front of an external library), rate limits
and authentication. Within modelled parts: a restart of the boat's process in
`Replication`, after which numbering starts again at 1 (`Sessions` has the server
restart); several journal directories under one keeper; several buses (the live
stream carries none, so a replica merges them); a journal writer that cannot be
created; CAN socket errors and reconnects; the 250 ms hold-off after a claim.

## 6. Plan

Done: all modules of section 2 and the theorems of section 4; of the invariants only
`FilterMeans` is left to TLC. Of the original plan, the boat restart in `Replication`
is open: the code has no answer to it to check (cursor and holes of the earlier
numbering stay), it is listed as a hazard.

If the code changes: a new select branch or handler is a new action and one more step
in the proof of its module's inductive invariant; the runs tell first whether the
properties still hold. If a limit on transfers within the reassembly timeout is ever
added to `can.go`, `MaxUnseen` can become a bound the model derives.
