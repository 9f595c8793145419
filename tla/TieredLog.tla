----------------------------- MODULE TieredLog -----------------------------
(***************************************************************************)
(* The tiered log: the broker's ring buffer (broker.go) in memory, the     *)
(* journal (JournalWriter) on disk, and the pull consumers that read both  *)
(* and wait at the head (consumer.go).                                     *)
(*                                                                         *)
(* A ring slot holds the sequence number of its entry.  A journal frame    *)
(* carries its number; a reader sees instead the label base + index.       *)
(***************************************************************************)
EXTENDS JournalWriter

CONSTANTS
  RingSize,  \* slots of the ring (a power of two)
  Consumers  \* the pull consumers

ASSUME RingAssumption == RingSize \in Nat \ {0}

VARIABLES
  ring,  \* Broker.ring: the number of the entry in each slot, 0 when unused
  tail,  \* Broker.tail
  cons   \* the consumers

tvars == <<jvars, ring, tail, cons>>

Slot(s) == s % RingSize

\* A consumer before NewConsumer.  jFiles is the number of files of its listing
\* (0: nil), jIdx the file it reads, jBlocks the blocks that file had when it was
\* opened, (blk, idx) the next frame there; got is the frame last returned.
NewCons ==
  [pc |-> "new", cursor |-> 1, notify |-> FALSE, jFiles |-> 0, jIdx |-> 0, jBlocks |-> 0,
   blk |-> 1, idx |-> 1, got |-> [label |-> 0, seq |-> 0]]

TInit ==
  /\ JInit
  /\ ring = [i \in 0..(RingSize - 1) |-> 0]
  /\ tail = 1
  /\ cons = [c \in Consumers |-> NewCons]
-----------------------------------------------------------------------------
(* The broker: handleFrame from the ring append to the journal send *)

\* Mutant: the ring is allowed to hold one entry too many.
TailAfter_Late(h) == IF h - tail > RingSize + 1 THEN h - RingSize - 1 ELSE tail

TailAfter(h) == IF h - tail > RingSize THEN h - RingSize ELSE tail

\* Mutant: the channel has no buffer, only a consumer inside the select is notified.
Notified_Waiting(cs) == [c \in Consumers |-> [cs[c] EXCEPT !.notify = (cs[c].pc = "wait")]]

\* notifyConsumers: a non-blocking send on a channel of capacity one.
Notified(cs) == [c \in Consumers |-> [cs[c] EXCEPT !.notify = (@ \/ cs[c].pc # "new")]]

THandleFrame ==
  \E s \in SeqChoices, k \in Claims :
    /\ HandleFrameAs(s, k)
    /\ ring' = [ring EXCEPT ![Slot(s)] = s]
    /\ tail' = TailAfter(head')
    /\ cons' = Notified(cons)

JournalStep ==
  /\ BrokerExit \/ ShutdownStep \/ SetPaused \/ Writer
  /\ UNCHANGED <<ring, tail, cons>>
-----------------------------------------------------------------------------
(* A consumer *)

ConsumerStep(c, r) ==
  /\ cons[c].pc # "closed"
  /\ broker # "panicked"
  /\ cons' = [cons EXCEPT ![c] = r]
  /\ UNCHANGED <<jvars, ring, tail>>

NewConsumer(c) ==
  /\ cons[c].pc = "new"
  /\ \E s \in 1..head : ConsumerStep(c, [cons[c] EXCEPT !.pc = "range", !.cursor = s])

\* Next: ringRange and the choice of a tier.
RingRange(c) ==
  /\ cons[c].pc = "range"
  /\ ConsumerStep(c, [cons[c] EXCEPT !.pc =
       IF cons[c].cursor < tail THEN "journal"
       ELSE IF cons[c].cursor < head THEN "read" ELSE "caughtup"])

\* readEntry, under its own lock: broker steps may have come between.
Readable(s) == tail <= s /\ s < head /\ ring[Slot(s)] = s

\* The cursor moves over the frame; the filter passes it to the caller or not.
Deliver(r, label, seq) ==
  [r EXCEPT !.cursor = @ + 1, !.got = [label |-> label, seq |-> seq]]

Filtered(r) == [r EXCEPT !.cursor = @ + 1]

\* Mutant: readEntry trusts the range it was given.
ReadEntry_Unchecked(c) ==
  LET r == cons[c] IN
    /\ r.pc = "read"
    /\ ConsumerStep(c, [Deliver(r, r.cursor, ring[Slot(r.cursor)]) EXCEPT !.pc = "range"])

ReadEntry(c) ==
  LET r == cons[c] IN
    /\ r.pc = "read"
    /\ \/ /\ Readable(r.cursor)
          /\ \E q \in {Deliver(r, r.cursor, ring[Slot(r.cursor)]), Filtered(r)} :
               ConsumerStep(c, [q EXCEPT !.pc = "range"])
       \/ /\ ~Readable(r.cursor)
          /\ ConsumerStep(c, [r EXCEPT !.pc = "failed"])

\* The select at the head is entered after ringRange has released the lock.
Select(c) ==
  /\ cons[c].pc = "caughtup"
  /\ ConsumerStep(c, [cons[c] EXCEPT !.pc = "wait"])

Wake(c) ==
  /\ cons[c].pc = "wait" /\ cons[c].notify
  /\ ConsumerStep(c, [cons[c] EXCEPT !.pc = "range", !.notify = FALSE])

\* Close: also ends a Next that is waiting.
CloseConsumer(c) ==
  /\ cons[c].pc \notin {"new", "closed"}
  /\ ConsumerStep(c, [cons[c] EXCEPT !.pc = "closed", !.notify = FALSE, !.jFiles = 0])
-----------------------------------------------------------------------------
(* readFromJournal *)

MaxIndex(S, default) == IF S = {} THEN default ELSE CHOOSE m \in S : \A n \in S : n <= m
MinIndex(S) == CHOOSE m \in S : \A n \in S : m <= n

\* findJournalFile: the last file before the first one that starts after the
\* cursor; files without a readable first frame are passed over.
Candidates == {i \in DOMAIN disk : disk[i] # <<>> /\ disk[i][1].base > 0}

FindJournalFile(s) ==
  MaxIndex({i \in Candidates : \A j \in Candidates : j <= i => disk[j][1].base <= s},
           MinIndex(Candidates))

\* SeekToSeq: the last block whose base is not after the cursor, or the first.
SeekToSeq(i, s) == MaxIndex({b \in DOMAIN disk[i] : disk[i][b].base <= s}, 1)

AtFile(r, i, b) ==
  [r EXCEPT !.jFiles = Len(disk), !.jIdx = i, !.jBlocks = Len(disk[i]), !.blk = b, !.idx = 1]

OpenJournal(c) ==
  LET r == cons[c] IN
    /\ r.pc = "journal" /\ r.jFiles = 0
    /\ ConsumerStep(c,
         IF Candidates = {} THEN [r EXCEPT !.pc = "failed"]
         ELSE AtFile(r, FindJournalFile(r.cursor),
                     SeekToSeq(FindJournalFile(r.cursor), r.cursor)))

HasFrame(r) == r.blk <= r.jBlocks

\* Reader.Next: on to the next frame of the file as it was when opened.
Skip(r) ==
  IF r.idx < Len(disk[r.jIdx][r.blk].frames) THEN [r EXCEPT !.idx = @ + 1]
  ELSE [r EXCEPT !.blk = @ + 1, !.idx = 1]

Label(r) == disk[r.jIdx][r.blk].base + r.idx - 1
SeqAt(r) == disk[r.jIdx][r.blk].frames[r.idx].seq

\* The loop's turns, while the cursor is behind the ring or once it has caught up.
Reading(c) == cons[c].pc = "journal" /\ cons[c].jFiles > 0

\* Mutant: the ring is not looked at again.
Behind_Unchecked(c) == Reading(c)

Behind(c) == Reading(c) /\ cons[c].cursor < tail

SwitchToRing(c) ==
  /\ Reading(c) /\ cons[c].cursor >= tail
  /\ ConsumerStep(c, [cons[c] EXCEPT !.pc = "range", !.jFiles = 0])

\* A frame of the journal: without number (the file is given up), already seen,
\* beyond the cursor (a gap), or the one looked for.  A frame the filter holds back
\* keeps the loop in the journal.
JournalFrame(c) ==
  LET r == cons[c] IN
    /\ Behind(c) /\ HasFrame(r)
    /\ \/ /\ Label(r) = 0
          /\ ConsumerStep(c, [r EXCEPT !.blk = r.jBlocks + 1])
       \/ /\ Label(r) \in 1..(r.cursor - 1)
          /\ ConsumerStep(c, Skip(r))
       \/ /\ Label(r) > r.cursor
          /\ ConsumerStep(c, [r EXCEPT !.pc = "failed"])
       \/ /\ Label(r) = r.cursor
          /\ \/ ConsumerStep(c, [Deliver(Skip(r), Label(r), SeqAt(r)) EXCEPT !.pc = "range"])
             \/ ConsumerStep(c, Filtered(Skip(r)))

\* The file is exhausted: on to the next of the listing, which is never renewed.
NextFile(c) ==
  LET r == cons[c] IN
    /\ Behind(c) /\ ~HasFrame(r)
    /\ IF r.jIdx >= r.jFiles
         THEN ConsumerStep(c, [r EXCEPT !.pc = "failed"])
         ELSE ConsumerStep(c, [r EXCEPT !.jIdx = @ + 1, !.jBlocks = Len(disk[r.jIdx + 1]),
                                        !.blk = 1, !.idx = 1])

Consume(c) ==
  \/ RingRange(c) \/ ReadEntry(c) \/ Select(c) \/ Wake(c)
  \/ OpenJournal(c) \/ SwitchToRing(c) \/ JournalFrame(c) \/ NextFile(c)

TNext ==
  \/ THandleFrame \/ JournalStep
  \/ \E c \in Consumers : NewConsumer(c) \/ Consume(c) \/ CloseConsumer(c)

TSpec == TInit /\ [][TNext]_tvars

\* Readers keep calling Next; nothing else is obliged to happen.
TFairSpec == TSpec /\ \A c \in Consumers : WF_tvars(Consume(c))
-----------------------------------------------------------------------------
(* Properties *)

\* The ring holds exactly the numbers tail..head-1, each in its slot, and never
\* more than it has slots (handleFrame's append and its advance of the tail).
RingExact ==
  /\ head - tail <= RingSize
  /\ \A s \in tail..(head - 1) : ring[Slot(s)] = s

\* As long as the journal lost nothing, a consumer is given each frame under its
\* own number, from whichever tier and across the switches between them.
DeliveredTrue ==
  lost = {} => \A c \in Consumers : cons[c].got.label = cons[c].got.seq

\* The ring is larger than what the journal channel and one block can hold, so
\* what has left the ring is on disk (journal running, nothing dropped).
NoBlindSpot ==
  (/\ RingSize > ChanCap + BlockSpace
   /\ writer = "running" /\ lost = {} /\ broker # "panicked")
     => 1..(tail - 1) \subseteq OnDisk

\* No lost wake-up: a consumer behind the head gets on, or is told that it fell
\* behind, without any further frame.
ConsumerProgress ==
  \A c \in Consumers : \A s \in 1..MaxSeq :
    (cons[c].pc \notin {"new"} /\ cons[c].cursor = s /\ s < head)
      ~> (cons[c].cursor > s \/ cons[c].pc \in {"failed", "closed"} \/ broker = "panicked")

\* Next gives up (ErrFallenBehind) only on a frame that has left the ring: one
\* that the ring still holds is never refused, whatever the broker did between
\* ringRange and readEntry or while the journal was read.
GivesUpOnlyBehindRing ==
  [][\A c \in Consumers :
       (cons[c].pc # "failed" /\ cons'[c].pc = "failed") => cons[c].cursor < tail]_tvars
=============================================================================
