----------------------------- MODULE FastPacket -----------------------------
(***************************************************************************)
(* Fast-packet transfer of one PGN: a sender like CANWriter fragments a    *)
(* payload (FragmentFastPacket), the bus loses frames and interleaves the  *)
(* nodes, CANReader reassembles by source (FastPacketAssembler.Process).   *)
(* The transfers of other PGNs, which other assemblies take, share only    *)
(* the sender's sequence counter.                                          *)
(*                                                                         *)
(* A byte is named by its node, payload and position, so that a payload    *)
(* made of two shows.  The sizes are parameters: 6 bytes in the first      *)
(* frame, 7 in the others, 32 frame numbers and 8 sequence counters in the *)
(* code.                                                                   *)
(***************************************************************************)
EXTENDS Integers, Sequences, FiniteSets

CONSTANTS
  Nodes,         \* sources that send the PGN
  First, Rest,   \* data bytes in the first and in a later frame
  Nums,          \* frame numbers: a byte's low bits
  Counters,      \* sequence counters: its high bits
  PacketLengths, \* payload lengths sent
  MaxTransfers,  \* bound: transfers of a node
  MaxUnseen      \* what a source may lose, or send of other PGNs, while a reassembly is in time

\* Payloads are those of the standard, whose frames can be numbered; what goes
\* unseen within the timeout does not exceed the sequence counters.
ASSUME FastPacketAssumption ==
  /\ First \in Nat \ {0} /\ Rest \in Nat \ {0} /\ Nums \in Nat \ {0} /\ Counters \in Nat \ {0}
  /\ PacketLengths \subseteq 1..(First + (Nums - 1) * Rest)
  /\ MaxTransfers \in Nat /\ MaxUnseen \in 0..Counters

VARIABLES
  counter,  \* per node: CANWriter's seqCounter
  out,      \* per node: the frames of the transfer under way, still to be sent
  asm,      \* the assembler: inProgress per source, or NoState
  late,     \* sources whose reassembly is older than the timeout
  unseen,   \* history, per node: what the assembler has missed since its reassembly began
  sent,     \* history, per node: its payloads
  intact,   \* history, per node: those of which no frame was lost, or came too late
  rx        \* history, per source: payloads given to rxFrames

pvars == <<counter, out, asm, late, unseen, sent, intact, rx>>

Pad == <<0, 0, 0>>
Payload(n, m, len) == [j \in 1..len |-> <<n, m, j>>]
NoState == [counter |-> -1, total |-> 0, data |-> <<>>, next |-> 0]

PInit ==
  /\ counter = [n \in Nodes |-> 0] /\ out = [n \in Nodes |-> <<>>]
  /\ asm = [n \in Nodes |-> NoState] /\ late = {} /\ unseen = [n \in Nodes |-> 0]
  /\ sent = [n \in Nodes |-> <<>>] /\ intact = [n \in Nodes |-> {}] /\ rx = [n \in Nodes |-> <<>>]

InTime(n) == asm[n] # NoState /\ n \notin late

\* The assembler misses something of n.
Missed(n) ==
  /\ InTime(n) => unseen[n] < MaxUnseen
  /\ unseen' = [unseen EXCEPT ![n] = IF InTime(n) THEN @ + 1 ELSE 0]
-----------------------------------------------------------------------------
(* Sending *)

Shortest(a, b) == IF a < b THEN a ELSE b

\* The number of frames after the first.
Later(len) == IF len <= First THEN 0 ELSE (len - First + Rest - 1) \div Rest

\* Size bytes of the data from a position on; what is left of the last frame is padding.
Chunk(data, from, size) == [j \in 1..size |-> IF from + j <= Len(data) THEN data[from + j] ELSE Pad]

\* Frame i; its number wraps.
Fragment(data, c, i) ==
  IF i = 0 THEN [counter |-> c, num |-> 0, total |-> Len(data), bytes |-> Chunk(data, 0, First)]
  ELSE [counter |-> c, num |-> i % Nums, total |-> 0, bytes |-> Chunk(data, First + (i - 1) * Rest, Rest)]

FragmentFastPacket(data, c) == [i \in 1..(Later(Len(data)) + 1) |-> Fragment(data, c, i - 1)]

Counted(n) == counter' = [counter EXCEPT ![n] = (@ + 1) % Counters]

\* CANWriter takes a request.
Begin(n) ==
  /\ out[n] = <<>> /\ Len(sent[n]) < MaxTransfers
  /\ \E len \in PacketLengths :
       LET p == Payload(n, Len(sent[n]) + 1, len)
       IN  /\ sent' = [sent EXCEPT ![n] = Append(@, p)]
           /\ out' = [out EXCEPT ![n] = FragmentFastPacket(p, counter[n])]
           /\ intact' = [intact EXCEPT ![n] = @ \union {Len(sent[n]) + 1}]
  /\ Counted(n)
  /\ UNCHANGED <<asm, late, unseen, rx>>

\* A request of another PGN takes a counter.
BeginOther(n) ==
  /\ out[n] = <<>>
  /\ Missed(n)
  /\ Counted(n)
  /\ UNCHANGED <<out, asm, late, sent, intact, rx>>
-----------------------------------------------------------------------------
(* Receiving *)

Done(data) == [st |-> NoState, data |-> data]
Going(st) == [st |-> st, data |-> <<>>]

\* The data bytes of a frame, cut to what the transfer still lacks.
Taken(st, f) == SubSeq(f.bytes, 1, Shortest(Len(f.bytes), st.total - Len(st.data)))

Extended(st, f) ==
  LET data == st.data \o Taken(st, f)
  IN  IF Len(data) >= st.total THEN Done(data)
      ELSE Going([counter |-> st.counter, total |-> st.total, data |-> data, next |-> st.next + 1])

\* Mutant: a later frame is taken whatever transfer it belongs to.
Continues_AnyCounter(st, f) == f.num = st.next
Continues(st, f) == f.counter = st.counter /\ f.num = st.next

\* Process: a first frame starts over; a later one must continue in time.
Process(st, f, timedOut) ==
  IF f.num = 0
    THEN IF f.total = 0 THEN Going(st)
         ELSE Extended([counter |-> f.counter, total |-> f.total, data |-> <<>>, next |-> 0], f)
  ELSE IF st = NoState \/ ~Continues(st, f) \/ timedOut THEN Going(NoState)
  ELSE Extended(st, f)

\* A frame reaches the assembler under its source.
Receive(n) ==
  /\ out[n] # <<>>
  /\ LET f == Head(out[n])
         r == Process(asm[n], f, n \in late)
     IN  /\ asm' = [asm EXCEPT ![n] = r.st]
         /\ late' = IF f.num = 0 THEN late \ {n} ELSE late
         /\ unseen' = IF f.num = 0 THEN [unseen EXCEPT ![n] = 0] ELSE unseen
         /\ rx' = IF r.data = <<>> THEN rx ELSE [rx EXCEPT ![n] = Append(@, r.data)]
  /\ out' = [out EXCEPT ![n] = Tail(@)]
  /\ UNCHANGED <<counter, sent, intact>>

\* The transfer under way is not complete any more.
Spoilt(n) == intact' = [intact EXCEPT ![n] = @ \ {Len(sent[n])}]

\* The bus loses a frame, or the transmission fails and CANWriter skips the rest.
Lose(n) ==
  /\ out[n] # <<>> /\ Missed(n) /\ Spoilt(n)
  /\ out' \in {[out EXCEPT ![n] = Tail(@)], [out EXCEPT ![n] = <<>>]}
  /\ UNCHANGED <<counter, asm, late, sent, rx>>

\* The timeout passes since the first frame.
Late(n) ==
  /\ InTime(n)
  /\ late' = late \union {n}
  /\ IF out[n] = <<>> \/ Head(out[n]).num = 0 THEN UNCHANGED intact ELSE Spoilt(n)
  /\ UNCHANGED <<counter, out, asm, unseen, sent, rx>>

\* PurgeStale, from CANReader's ticker.
Purge(n) ==
  /\ n \in late /\ asm[n] # NoState
  /\ asm' = [asm EXCEPT ![n] = NoState]
  /\ UNCHANGED <<counter, out, late, unseen, sent, intact, rx>>

PNext == \E n \in Nodes : Begin(n) \/ BeginOther(n) \/ Receive(n) \/ Lose(n) \/ Late(n) \/ Purge(n)
PSpec == PInit /\ [][PNext]_pvars
-----------------------------------------------------------------------------
(* Properties *)

Sending(n, m) == out[n] # <<>> /\ m = Len(sent[n])
Got(n, m) == \E i \in DOMAIN rx[n] : rx[n][i] = sent[n][m]

\* What the reader passes on was sent: no payload is put together from two
\* transfers or cut short, none comes twice or out of order, whatever the nodes
\* interleave and the bus loses, as long as the counter cannot come round unseen
\* while a reassembly is in time; and a transfer that lost nothing and was in time
\* has been passed on.
PacketsWhole ==
  \A n \in Nodes :
    /\ \A i \in DOMAIN rx[n] : \E m \in DOMAIN sent[n] : rx[n][i] = sent[n][m]
    /\ \A i, j \in DOMAIN rx[n] : i < j => rx[n][i][1][2] < rx[n][j][1][2]
    /\ \A m \in intact[n] : Sending(n, m) \/ Got(n, m)
=============================================================================
