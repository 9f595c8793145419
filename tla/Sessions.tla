------------------------------ MODULE Sessions ------------------------------
(***************************************************************************)
(* A buffered client session, from end to end: the broker's session table  *)
(* (broker.go), the handlers of PUT /clients/{id}, GET /clients/{id}/events*)
(* and PUT /clients/{id}/ack (server.go), the slots created at start-up    *)
(* (slots.go), and the client: lplexc's Session driven by `lplex dump`,    *)
(* which reconnects, re-creates its session and acknowledges on a ticker.  *)
(*                                                                         *)
(* A frame is its number and whether the session's filter passes it.  The  *)
(* stream's consumer is the one TieredLog models: it delivers the passing  *)
(* frames from its cursor in order, or ends when they are no longer kept.  *)
(* Time is counted in ticks of the broker's expiry timer.                  *)
(***************************************************************************)
EXTENDS Integers, Sequences, FiniteSets, SequencesExt

CONSTANTS
  MaxFrames,   \* bound: frames per server start
  MaxConnects, \* bound: times the client connects
  MaxRestarts, \* bound: server restarts
  Buffer,      \* the client's buffer_timeout, in ticks
  Slots        \* TRUE: the session may exist from start-up (a client slot)

VARIABLES
  frames,   \* server: for each number given so far, does the filter pass it
  oldest,   \* server: the oldest number still kept in ring or journal
  session,  \* server: the ClientSession, or NoSession
  stream,   \* server: the handler's next number to read, 0 without a handler
  from,     \* history: the number the stream began at
  wire,     \* numbers written to the stream, not yet read by the client
  client,   \* "idle", "created", "streaming", "closing" (ackFinal) or "done"
  lastSeq,  \* client: the last number read, over all connections
  acked,    \* client: lastAcked of this connection's ticker
  ack,      \* the ack request under way, or NoAck
  lateAcks, \* cancelled ack requests the server may still come to handle
  connects, restarts,  \* history: how often
  got,      \* history: numbers the client read since the server started
  base,     \* history: where the last stream without a cursor began
  foreign,    \* history: lastSeq is a number of an earlier server start
  foreignAck \* history: the server was given such a number

serverVars == <<frames, oldest, session, stream, from>>
clientVars == <<client, lastSeq, acked, ack, lateAcks>>
historyVars == <<connects, restarts, got, base, foreign, foreignAck>>
svars == <<serverVars, wire, clientVars, historyVars>>

Ack(n, old) == [n |-> n, old |-> old]   \* old: a number of an earlier server start
NoAck == Ack(0, FALSE)

NoSession == [cursor |-> -1, timeout |-> 0, age |-> 0]
HasSession == session # NoSession
NewSession(t) == [cursor |-> 0, timeout |-> t, age |-> 0]

AppliedSlots == IF Slots THEN {NoSession, NewSession(Buffer)} ELSE {NoSession}

SInit ==
  /\ frames = <<>> /\ oldest = 1 /\ session \in AppliedSlots /\ stream = 0 /\ from = 0 /\ wire = <<>>
  /\ client = "idle" /\ lastSeq = 0 /\ acked = 0 /\ ack = NoAck /\ lateAcks = {}
  /\ connects = 0 /\ restarts = 0 /\ got = {} /\ base = 1
  /\ foreign = FALSE /\ foreignAck = FALSE
-----------------------------------------------------------------------------
(* The server *)

Frame ==
  /\ Len(frames) < MaxFrames
  /\ \E passes \in BOOLEAN : frames' = Append(frames, passes)
  /\ UNCHANGED <<oldest, session, stream, from, wire, clientVars, historyVars>>

\* The oldest frame leaves the ring, and the journal (if there is one) has no copy.
Forget ==
  /\ oldest <= Len(frames)
  /\ oldest' = oldest + 1
  /\ UNCHANGED <<frames, session, stream, from, wire, clientVars, historyVars>>

\* Broker.CreateSession: a known session keeps its cursor unless the timeout is 0.
SessionAfterCreate(t) ==
  IF HasSession
    THEN [cursor |-> IF t = 0 THEN 0 ELSE session.cursor, timeout |-> t, age |-> 0]
    ELSE NewSession(t)

\* The handler's start: after the last acknowledged number, or live only.
StartAt == IF session.cursor > 0 THEN session.cursor + 1 ELSE Len(frames) + 1

\* handleCreateSession; the request's filter is the session's.
HandleCreateSession(t) == session' = SessionAfterCreate(t)

Touched(s) == IF s = NoSession THEN s ELSE [s EXCEPT !.age = 0]

\* AckSession stores the number as it comes.
SessionAfterAck(n) == [session EXCEPT !.cursor = n, !.age = 0]

\* handleSSE: 404 without a session, otherwise the stream starts.
HandleSSE ==
  /\ HasSession
  /\ stream' = StartAt /\ from' = StartAt
  /\ session' = Touched(session)
  /\ base' = IF session.cursor > 0 THEN base ELSE Len(frames) + 1

\* handleAck: 404 without a session.
HandleAck(a) ==
  /\ session' = IF HasSession THEN SessionAfterAck(a.n) ELSE session
  /\ foreignAck' = (foreignAck \/ (HasSession /\ a.old))

\* handleSSE's loop: the consumer skips what the filter does not pass.
\* Mutant: a frame that cannot be serialised ends the batch and is skipped.
StreamWrite_Skips ==
  /\ stream # 0 /\ stream >= oldest /\ stream <= Len(frames)
  /\ stream' = stream + 1
  /\ wire' \in {wire} \union (IF frames[stream] THEN {Append(wire, stream)} ELSE {})
  /\ UNCHANGED <<frames, oldest, session, from, clientVars, historyVars>>

StreamWrite ==
  /\ stream # 0 /\ stream >= oldest /\ stream <= Len(frames)
  /\ stream' = stream + 1
  /\ wire' = IF frames[stream] THEN Append(wire, stream) ELSE wire
  /\ UNCHANGED <<frames, oldest, session, from, clientVars, historyVars>>

\* ErrFallenBehind: the handler returns, what it wrote is still read.
StreamBehind ==
  /\ stream # 0 /\ stream < oldest
  /\ stream' = 0
  /\ UNCHANGED <<frames, oldest, session, from, wire, clientVars, historyVars>>

\* The broker's ticker: sessions grow older and expireSessions drops the idle
\* ones; whether a client is connected plays no part.
Tick ==
  /\ HasSession
  /\ session' = IF session.age >= session.timeout THEN NoSession
                ELSE [session EXCEPT !.age = session.age + 1]
  /\ UNCHANGED <<frames, oldest, stream, from, wire, clientVars, historyVars>>

Restart ==
  /\ restarts < MaxRestarts
  /\ restarts' = restarts + 1
  /\ frames' = <<>> /\ oldest' = 1 /\ session' \in AppliedSlots /\ stream' = 0 /\ from' = 0 /\ wire' = <<>>
  /\ ack' = NoAck /\ lateAcks' = {}   \* their connections are gone
  /\ got' = {} /\ base' = 1 /\ foreign' = (foreign \/ lastSeq > 0)
  /\ foreignAck' = FALSE
  /\ UNCHANGED <<client, lastSeq, acked, connects>>
-----------------------------------------------------------------------------
(* The client *)

\* runBuffered: PUT /clients/{id}; the response may be lost.
Create ==
  /\ client = "idle" /\ connects < MaxConnects
  /\ connects' = connects + 1
  /\ HandleCreateSession(Buffer)
  /\ client' \in {"created", "idle"}
  /\ acked' = 0
  /\ UNCHANGED <<frames, oldest, stream, from, wire, lastSeq, ack, lateAcks, restarts, got, base, foreign, foreignAck>>

\* GET /clients/{id}/events: 404 without a session.
Subscribe ==
  /\ client = "created"
  /\ \/ /\ ~HasSession
        /\ client' = "idle"
        /\ UNCHANGED <<stream, from, session, base>>
     \/ HandleSSE /\ client' = "streaming"
  /\ wire' = <<>>
  /\ UNCHANGED <<frames, oldest, lastSeq, acked, ack, lateAcks, connects, restarts, got, foreign, foreignAck>>

\* streamEvents: Subscription.Next returns the next frame.
Read ==
  /\ client = "streaming" /\ wire # <<>>
  /\ lastSeq' = Head(wire) /\ wire' = Tail(wire)
  /\ got' = got \union {Head(wire)}
  /\ foreign' = FALSE
  /\ UNCHANGED <<serverVars, client, acked, ack, lateAcks, connects, restarts, base, foreignAck>>

\* The ack ticker: one request at a time.
\* Mutant: acknowledges what is on the way as well.
SendAck_Ahead ==
  /\ client = "streaming" /\ ack = NoAck /\ wire # <<>>
  /\ ack' = Ack(Last(wire), FALSE)
  /\ UNCHANGED <<serverVars, wire, client, lastSeq, acked, lateAcks, historyVars>>

SendAck ==
  /\ client = "streaming" /\ ack = NoAck
  /\ lastSeq > acked
  /\ ack' = Ack(lastSeq, foreign)
  /\ UNCHANGED <<serverVars, wire, client, lastSeq, acked, lateAcks, historyVars>>

\* PUT /clients/{id}/ack: 404 without a session, which leaves lastAcked alone.
AckHandled ==
  /\ ack # NoAck
  /\ HandleAck(ack)
  /\ acked' = IF HasSession THEN ack.n ELSE acked
  /\ ack' = NoAck
  /\ UNCHANGED <<frames, oldest, stream, from, wire, client, lastSeq, lateAcks, connects, restarts, got, base, foreign>>

\* A cancelled request reaches the server after all, or never.
LateAck ==
  /\ \E a \in lateAcks :
       /\ HandleAck(a) \/ UNCHANGED <<session, foreignAck>>
       /\ lateAcks' = lateAcks \ {a}
  /\ UNCHANGED <<frames, oldest, stream, from, wire, client, lastSeq, acked, ack,
                 connects, restarts, got, base, foreign>>

\* The stream ends, for whatever reason: the handler stops, the ticker's
\* request is cancelled and may still arrive.
EndStream(next) ==
  /\ client = "streaming"
  /\ client' = next
  /\ stream' = 0 /\ from' = 0 /\ wire' = <<>>
  /\ ack' = NoAck
  /\ lateAcks' = lateAcks \union ({ack} \ {NoAck})
  /\ UNCHANGED <<frames, oldest, session, lastSeq, acked, historyVars>>

\* With or without --reconnect, and on a signal at any time.
Disconnect == EndStream("idle") \/ EndStream("closing")
Interrupt ==
  /\ client \in {"idle", "created"}
  /\ client' = "closing"
  /\ UNCHANGED <<serverVars, wire, lastSeq, acked, ack, lateAcks, historyVars>>

\* ackFinal: PUT with buffer_timeout PT0S, then the last number; either may fail.
AckFinal ==
  /\ client = "closing"
  /\ client' = "done"
  /\ \/ UNCHANGED <<session, foreignAck>>
     \/ lastSeq > 0 /\ session' = SessionAfterCreate(0) /\ UNCHANGED foreignAck
     \/ /\ lastSeq > 0 /\ session' = [SessionAfterCreate(0) EXCEPT !.cursor = lastSeq]
        /\ foreignAck' = (foreignAck \/ foreign)
  /\ UNCHANGED <<frames, oldest, stream, from, wire, lastSeq, acked, ack, lateAcks,
                 connects, restarts, got, base, foreign>>

Server == Frame \/ Forget \/ StreamWrite \/ StreamBehind \/ Tick \/ Restart
Client == Create \/ Subscribe \/ Read \/ SendAck \/ AckHandled \/ LateAck
          \/ Disconnect \/ Interrupt \/ AckFinal

SNext == Server \/ Client

\* The stream's handler and its reader run.
SFairness == WF_svars(StreamWrite \/ StreamBehind) /\ WF_svars(Read)
SSpec == SInit /\ [][SNext]_svars /\ SFairness
-----------------------------------------------------------------------------
(* Properties *)

Passing(lo, hi) == {s \in lo..hi : s \in DOMAIN frames /\ frames[s]}

\* "On reconnect, replays all frames since your last ACK": a session's cursor
\* never covers a frame its client did not read.  Acknowledgements that are
\* late, repeated or out of order, streams cut at any point and sessions created
\* again lose nothing; only what went by before the stream's first
\* acknowledgement, and numbers of an earlier server start, fall outside.
AckedWasRead ==
  (HasSession /\ ~foreignAck) => Passing(base, session.cursor) \subseteq got

Undelivered(s) ==
  client = "streaming" /\ stream # 0 /\ s >= from /\ s \in Passing(1, MaxFrames) /\ s \notin got

\* A frame the filter passes, from where the stream begins on, reaches a client
\* whose stream stays open, unless the server no longer keeps it.
StreamDelivers == \A s \in 1..MaxFrames : []<>~Undelivered(s)
=============================================================================
