------------------------------- MODULE FanOut -------------------------------
(***************************************************************************)
(* Ephemeral listeners and the transmit path: the broker's subscribers and *)
(* their bounded channels (broker.go), GET /events and /ws (server.go,     *)
(* websocket.go), POST /send and POST /query with the send policy, the     *)
(* transmit queue and the CAN writer that empties it onto the bus.         *)
(*                                                                         *)
(* Frames and device events reach a subscriber through one channel; a full *)
(* channel drops what does not fit.  A query is a subscriber too: it waits *)
(* for the answer to the ISO request it sends.                             *)
(***************************************************************************)
EXTENDS Integers, Sequences, FiniteSets, SequencesExt

CONSTANTS
  Listeners,  \* clients of /events and /ws
  Pgns,       \* PGNs that are sent, asked for and filtered by
  Claim,      \* the PGN of address claims (60928), not in Pgns
  Allowed,    \* PGNs the send policy lets through
  ChanCap,    \* capacity of a subscriber's channel
  TxCap,      \* capacity of the transmit queue
  MaxEvents,  \* bound: events
  MaxQueries  \* bound: queries

Q == "query"                  \* the subscriber of the query under way
Subscribers == Listeners \union {Q}
All == Pgns \union {Claim}

ASSUME FanOutAssumption ==
  /\ Q \notin Listeners /\ Claim \notin Pgns /\ Allowed \subseteq Pgns
  /\ ChanCap \in Nat \ {0} /\ TxCap \in Nat /\ MaxEvents \in Nat /\ MaxQueries \in Nat

VARIABLES
  seq,      \* the last event's number
  subs,     \* the subscribers: for each its filter's PGNs and its channel
  written,  \* history: the events written to each listener since it joined
  due,      \* history: the events fanned out to each listener since it joined
  dropped,  \* history: those of them a full channel dropped
  query,    \* the query under way: its phase, its PGN and what it returned
  queries,  \* history: queries started
  ready,    \* the virtual device has its address
  tx,       \* the transmit queue
  asked,    \* ISO requests on the bus, not answered yet
  answered  \* history: the query's PGN was received after its request was queued

fvars == <<seq, subs, written, due, dropped, query, queries, ready, tx, asked, answered>>

FrameEvent(n, p)  == [device |-> FALSE, n |-> n, pgn |-> p]
DeviceEvent(n)    == [device |-> TRUE, n |-> n, pgn |-> Claim]
NoAnswer          == [device |-> FALSE, n |-> 0, pgn |-> Claim]
NoQuery           == [phase |-> "none", pgn |-> Claim, answer |-> NoAnswer]

FInit ==
  /\ seq = 0 /\ subs = <<>>
  /\ written = [l \in Listeners |-> <<>>]
  /\ due = [l \in Listeners |-> {}] /\ dropped = [l \in Listeners |-> {}]
  /\ query = NoQuery /\ queries = 0
  /\ ready \in BOOLEAN /\ tx = <<>> /\ asked = {} /\ answered = FALSE
-----------------------------------------------------------------------------
(* Subscribing *)

WithSub(s, f) == [x \in DOMAIN subs \union {s} |->
                    IF x = s THEN [filter |-> f, ch |-> <<>>] ELSE subs[x]]
WithoutSub(s) == [x \in DOMAIN subs \ {s} |-> subs[x]]

\* ParseFilterParams: no filter, or one by PGN.
Filters == {All} \union {{p} : p \in Pgns}

\* GET /events or /ws.
Listen(l) ==
  /\ l \notin DOMAIN subs
  /\ \E f \in Filters : subs' = WithSub(l, f)
  /\ written' = [written EXCEPT ![l] = <<>>] /\ due' = [due EXCEPT ![l] = {}]
  /\ dropped' = [dropped EXCEPT ![l] = {}]
  /\ UNCHANGED <<seq, query, queries, ready, tx, asked, answered>>

\* The client goes away (or a WebSocket write fails): the cleanup function.
Leave(l) ==
  /\ l \in DOMAIN subs
  /\ subs' = WithoutSub(l)
  /\ UNCHANGED <<seq, written, due, dropped, query, queries, ready, tx, asked, answered>>

\* The handler's loop, one event.
WriteOut(l) ==
  /\ l \in DOMAIN subs /\ subs[l].ch # <<>>
  /\ written' = [written EXCEPT ![l] = Append(@, Head(subs[l].ch))]
  /\ subs' = [subs EXCEPT ![l].ch = Tail(@)]
  /\ UNCHANGED <<seq, due, dropped, query, queries, ready, tx, asked, answered>>
-----------------------------------------------------------------------------
(* Fan-out *)

\* Mutant: an event that does not fit replaces the oldest one.
Offer_Overwrites(ch, e) == IF Len(ch) < ChanCap THEN Append(ch, e) ELSE Append(Tail(ch), e)
Offer(ch, e) == IF Len(ch) < ChanCap THEN Append(ch, e) ELSE ch

\* fanOut goes by the filter, fanOutDevice to everyone.
Wants(s, e) == e.device \/ e.pgn \in subs[s].filter

\* The channel of s after an event, and the event if the full channel dropped it.
Offered(s, ch, e) == IF Wants(s, e) THEN Offer(ch, e) ELSE ch
Refused(s, ch, e) == IF Wants(s, e) /\ Len(ch) >= ChanCap THEN {e} ELSE {}

\* An event, or two, one after the other, for every subscriber.
FanOut(es) ==
  LET last == es[Len(es)]
      two == Len(es) = 2
      before(s) == IF two THEN Offered(s, subs[s].ch, es[1]) ELSE subs[s].ch
      refused(s) == Refused(s, before(s), last) \union
                    (IF two THEN Refused(s, subs[s].ch, es[1]) ELSE {})
  IN  /\ subs' = [s \in DOMAIN subs |-> [subs[s] EXCEPT !.ch = Offered(s, before(s), last)]]
      /\ due' = [l \in Listeners |->
                   IF l \in DOMAIN subs THEN due[l] \union {e \in ToSet(es) : Wants(l, e)} ELSE due[l]]
      /\ dropped' = [l \in Listeners |->
                       IF l \in DOMAIN subs THEN dropped[l] \union refused(l) ELSE dropped[l]]

\* handleFrame: an address claim of a new device is announced before the frame.
Received(p) ==
  LET n  == seq + 1
      es == IF p = Claim THEN <<DeviceEvent(n), FrameEvent(n, p)>> ELSE <<FrameEvent(n, p)>>
  IN  /\ seq < MaxEvents
      /\ seq' = n
      /\ FanOut(es)
      /\ answered' = (answered \/ (query.phase = "waiting" /\ p = query.pgn))
      /\ UNCHANGED <<written, query, queries, ready, tx>>

\* expireDevices: fanOutDeviceRemoved tells every subscriber.
DeviceRemoved ==
  /\ seq < MaxEvents
  /\ seq' = seq + 1
  /\ FanOut(<<DeviceEvent(seq + 1)>>)
  /\ UNCHANGED <<written, query, queries, ready, tx, asked, answered>>

HandleFrame == \E p \in All : Received(p) /\ UNCHANGED asked

\* A device answers a request.
Respond == \E p \in asked : Received(p) /\ asked' = asked \ {p}
-----------------------------------------------------------------------------
(* Sending and asking *)

\* QueueTx of a client's frame: the policy and the queue's room decide.
QueueSend ==
  /\ \E p \in Allowed : Len(tx) < TxCap /\ tx' = Append(tx, [ask |-> FALSE, pgn |-> p])
  /\ UNCHANGED <<seq, subs, written, due, dropped, query, queries, ready, asked, answered>>

\* POST /send waits for the virtual device's address.
Send == ready /\ QueueSend

\* A "send" message on /ws does not.
WsSend == (\E l \in Listeners : l \in DOMAIN subs) /\ QueueSend

\* Mutant: the request goes out before the subscription exists.
QuerySubscribe_Late ==
  /\ query.phase = "none" /\ queries < MaxQueries
  /\ ready
  /\ \E p \in Allowed :
       /\ query' = [phase |-> "subscribed", pgn |-> p, answer |-> NoAnswer]
       /\ subs' = WithSub(Q, {})
  /\ queries' = queries + 1
  /\ answered' = FALSE
  /\ UNCHANGED <<seq, written, due, dropped, ready, tx, asked>>

\* POST /query: the subscription comes first.
QuerySubscribe ==
  /\ query.phase = "none" /\ queries < MaxQueries
  /\ ready
  /\ \E p \in Allowed :
       /\ query' = [phase |-> "subscribed", pgn |-> p, answer |-> NoAnswer]
       /\ subs' = WithSub(Q, {p})
  /\ queries' = queries + 1
  /\ answered' = FALSE
  /\ UNCHANGED <<seq, written, due, dropped, ready, tx, asked>>

EndQuery(phase, answer) ==
  /\ query' = [NoQuery EXCEPT !.phase = IF phase = "answered" THEN phase ELSE "none",
                              !.pgn = query.pgn, !.answer = answer]
  /\ subs' = WithoutSub(Q)

\* SendISORequest: a full queue ends the query.
QuerySend ==
  /\ query.phase = "subscribed"
  /\ \/ /\ Len(tx) < TxCap
        /\ tx' = Append(tx, [ask |-> TRUE, pgn |-> query.pgn])
        /\ query' = [query EXCEPT !.phase = "waiting"]
        /\ UNCHANGED subs
     \/ /\ Len(tx) = TxCap
        /\ EndQuery("none", NoAnswer)
        /\ UNCHANGED tx
  /\ UNCHANGED <<seq, written, due, dropped, queries, ready, asked, answered>>

\* Whatever comes out of the channel first is the answer.
QueryAnswer ==
  /\ query.phase = "waiting" /\ subs[Q].ch # <<>>
  /\ EndQuery("answered", Head(subs[Q].ch))
  /\ UNCHANGED <<seq, written, due, dropped, queries, ready, tx, asked, answered>>

\* The context's deadline, or the client gives up.
QueryTimeout ==
  /\ query.phase = "waiting"
  /\ EndQuery("none", NoAnswer)
  /\ UNCHANGED <<seq, written, due, dropped, queries, ready, tx, asked, answered>>

QueryReturn ==
  /\ query.phase = "answered"
  /\ query' = NoQuery
  /\ UNCHANGED <<seq, subs, written, due, dropped, queries, ready, tx, asked, answered>>

\* The CAN writer; a failed transmission is logged and forgotten.
Transmit ==
  /\ tx # <<>>
  /\ tx' = Tail(tx)
  /\ asked' \in {asked} \union (IF Head(tx).ask THEN {asked \union {Head(tx).pgn}} ELSE {})
  /\ UNCHANGED <<seq, subs, written, due, dropped, query, queries, ready, answered>>

\* The virtual device gets, or loses, its address.
ClaimChange ==
  /\ ready' = ~ready
  /\ UNCHANGED <<seq, subs, written, due, dropped, query, queries, tx, asked, answered>>

ListenerStep == \E l \in Listeners : Listen(l) \/ Leave(l) \/ WriteOut(l)
QueryStep == QuerySubscribe \/ QuerySend \/ QueryAnswer \/ QueryTimeout \/ QueryReturn

FNext == ListenerStep \/ HandleFrame \/ DeviceRemoved \/ Respond \/ Send \/ WsSend \/ QueryStep \/ Transmit \/ ClaimChange

FSpec == FInit /\ [][FNext]_fvars
-----------------------------------------------------------------------------
(* Properties *)

\* The order of events: by number, an announcement before its frame.
Precedes(d, e) == d.n < e.n \/ (d.n = e.n /\ d.device /\ ~e.device)

\* What a listener was written and what waits in its channel is exactly what was
\* fanned out to it since it joined, without what a full channel dropped, once
\* and in the order of the bus.
ListenerInOrder ==
  \A l \in DOMAIN subs \intersect Listeners :
    LET q == written[l] \o subs[l].ch
    IN  /\ ToSet(q) = due[l] \ dropped[l]
        /\ \A i, j \in DOMAIN q : i < j => Precedes(q[i], q[j])

\* A query does not miss its answer: if the PGN was received at any time after
\* the request was queued, the waiting query has something to return.
QueryHears == (query.phase = "waiting" /\ answered) => subs[Q].ch # <<>>
=============================================================================
