---------------------------- MODULE ClientProofs ----------------------------
(***************************************************************************)
(* What the boat's clients are promised.  Sessions, for any number of      *)
(* frames, connections and server starts and any buffer timeout: a         *)
(* session's cursor covers only what its client has read.  FanOut, for any *)
(* set of subscribers, filters and channel capacity: a listener's events   *)
(* come in order, only those dropped on its full channel are missing, and  *)
(* a query hears its answer.  ChangeTracker, for any packets and mask      *)
(* width: who hears every change event can put the packets together.       *)
(***************************************************************************)
EXTENDS Sessions, FanOut, ChangeTracker, TLAPS, SequenceTheorems, FiniteSetTheorems
-----------------------------------------------------------------------------
(* Client sessions *)

Acks == [n : Nat, old : BOOLEAN]
Timeouts == {0, Buffer}
SessionRecords == [cursor : Int, timeout : Timeouts, age : Int]

STypes ==
  /\ frames \in Seq(BOOLEAN) /\ wire \in Seq(Nat) /\ stream \in Nat /\ base \in Nat \ {0}
  /\ session \in SessionRecords /\ lastSeq \in Nat
  /\ ack \in Acks /\ lateAcks \subseteq Acks
  /\ foreign \in BOOLEAN /\ foreignAck \in BOOLEAN
  /\ stream # 0 => client = "streaming"

\* The frame s of fs is one the client may count on from b on, up to the number n.
Owed(fs, b, s, n) == s \in 1..Len(fs) /\ b <= s /\ s <= n /\ fs[s]

\* The number n has been given, and what is owed up to n has been read.
Covered(fs, b, g, n) == n <= Len(fs) /\ \A s \in Nat : Owed(fs, b, s, n) => s \in g

OnWire(w, s, k) == \E j \in 1..k : w[j] = s

\* Nothing is left out of the stream: up to each number on the wire w, what is owed
\* has been read or is on the wire, not behind that number; up to the handler's
\* next number st it has been read or is on the wire.
Whole(fs, b, g, w, st) ==
  /\ \A i \in 1..Len(w) :
       /\ w[i] <= Len(fs)
       /\ \A s \in Nat : Owed(fs, b, s, w[i]) => s \in g \/ OnWire(w, s, i)
  /\ st # 0 =>
       /\ st - 1 <= Len(fs)
       /\ \A s \in Nat : Owed(fs, b, s, st - 1) => s \in g \/ OnWire(w, s, Len(w))

ReadUpTo(n) == Covered(frames, base, got, n)

\* Every number that may become the session's cursor is covered, unless it was
\* given by an earlier server start; and the stream leaves nothing out.
AcksCovered ==
  /\ ReadUpTo(session.cursor)
  /\ ~foreign => ReadUpTo(lastSeq)
  /\ ~ack.old => ReadUpTo(ack.n)
  /\ \A a \in lateAcks : ~a.old => ReadUpTo(a.n)

SInv == STypes /\ (~foreignAck => AcksCovered /\ Whole(frames, base, got, wire, stream))
-----------------------------------------------------------------------------
(* What is covered stays covered *)

\* Another frame, another read, another start of the stream, and numbers below all.
LEMMA CoveredKept ==
  ASSUME NEW fs \in Seq(BOOLEAN), NEW b \in Nat \ {0}, NEW g, NEW n \in Int
  PROVE  /\ Covered(fs, b, g, n) => \A x \in BOOLEAN : Covered(Append(fs, x), b, g, n)
         /\ Covered(fs, b, g, n) => \A h : Covered(fs, b, g \union {h}, n)
         /\ Covered(fs, b, g, n) => Covered(fs, Len(fs) + 1, g, n)
         /\ n <= 0 => Covered(fs, b, g, n)
<1>0. Len(fs) \in Nat
  OBVIOUS
<1>1. ASSUME Covered(fs, b, g, n), NEW x \in BOOLEAN PROVE Covered(Append(fs, x), b, g, n)
  <2> DEFINE u == Append(fs, x)
  <2>1. Len(u) = Len(fs) + 1 /\ \A i \in 1..Len(fs) : u[i] = fs[i]
    OBVIOUS
  <2> HIDE DEF u
  <2>2. n <= Len(fs)
    BY <1>1 DEF Covered
  <2>3. \A s \in Nat : Owed(u, b, s, n) => Owed(fs, b, s, n)
    BY <1>0, <2>1, <2>2 DEF Owed
  <2>4. n <= Len(u)
    BY <1>0, <2>1, <2>2
  <2> QED
    BY <1>1, <2>3, <2>4 DEF Covered, u
<1>2. ASSUME Covered(fs, b, g, n), NEW h PROVE Covered(fs, b, g \union {h}, n)
  BY <1>2 DEF Covered
<1>3. ASSUME Covered(fs, b, g, n) PROVE Covered(fs, Len(fs) + 1, g, n)
  BY <1>0, <1>3 DEF Covered, Owed
<1>4. ASSUME n <= 0 PROVE Covered(fs, b, g, n)
  BY <1>0, <1>4 DEF Covered, Owed
<1> QED
  BY <1>1, <1>2, <1>3, <1>4

\* A stream that starts behind a covered number, and one without handler and wire.
LEMMA WholeStart ==
  ASSUME NEW fs, NEW b, NEW g
  PROVE  /\ Whole(fs, b, g, <<>>, 0)
         /\ \A c \in Nat : Covered(fs, b, g, c) => Whole(fs, b, g, <<>>, c + 1)
<1>1. Len(<<>>) = 0 /\ \A i \in 1..0 : FALSE
  OBVIOUS
<1>2. \A c \in Nat : c + 1 # 0 /\ (c + 1) - 1 = c
  OBVIOUS
<1> QED
  BY <1>1, <1>2 DEF Whole, Covered

\* Another frame.
LEMMA WholeFrame ==
  ASSUME NEW fs \in Seq(BOOLEAN), NEW b, NEW g, NEW w \in Seq(Nat), NEW st \in Nat,
         Whole(fs, b, g, w, st), NEW x \in BOOLEAN
  PROVE  Whole(Append(fs, x), b, g, w, st)
<1> DEFINE u == Append(fs, x)
<1>1. Len(fs) \in Nat /\ Len(u) = Len(fs) + 1 /\ \A i \in 1..Len(fs) : u[i] = fs[i]
  OBVIOUS
<1> HIDE DEF u
<1>2. ASSUME NEW n \in Int, n <= Len(fs)
      PROVE  n <= Len(u) /\ \A s \in Nat : Owed(u, b, s, n) => Owed(fs, b, s, n)
  BY <1>1, <1>2 DEF Owed
<1>3. \A i \in 1..Len(w) : w[i] \in Int
  OBVIOUS
<1>4. st - 1 \in Int
  OBVIOUS
<1>5. ASSUME NEW i \in 1..Len(w)
      PROVE  /\ w[i] <= Len(u)
             /\ \A s \in Nat : Owed(u, b, s, w[i]) => s \in g \/ OnWire(w, s, i)
  <2>1. w[i] <= Len(fs) /\ \A s \in Nat : Owed(fs, b, s, w[i]) => s \in g \/ OnWire(w, s, i)
    BY DEF Whole
  <2> QED
    BY <1>2, <1>3, <2>1
<1>6. ASSUME st # 0
      PROVE  /\ st - 1 <= Len(u)
             /\ \A s \in Nat : Owed(u, b, s, st - 1) => s \in g \/ OnWire(w, s, Len(w))
  <2>1. /\ st - 1 <= Len(fs)
        /\ \A s \in Nat : Owed(fs, b, s, st - 1) => s \in g \/ OnWire(w, s, Len(w))
    BY <1>6 DEF Whole
  <2> QED
    BY <1>2, <1>4, <2>1
<1> QED
  BY <1>5, <1>6 DEF Whole, u

\* The handler returns.
LEMMA WholeStop ==
  ASSUME NEW fs, NEW b, NEW g, NEW w, NEW st, Whole(fs, b, g, w, st)
  PROVE  Whole(fs, b, g, w, 0)
BY DEF Whole

\* The handler goes on to the next number and writes it if the filter passes it.
LEMMA WholeWrite ==
  ASSUME NEW fs \in Seq(BOOLEAN), NEW b, NEW g, NEW w \in Seq(Nat), NEW st \in Nat,
         Whole(fs, b, g, w, st), st # 0, st <= Len(fs)
  PROVE  Whole(fs, b, g, IF fs[st] THEN Append(w, st) ELSE w, st + 1)
<1>0. /\ Len(fs) \in Nat /\ Len(w) \in Nat /\ st + 1 # 0 /\ (st + 1) - 1 = st /\ st \in 1..Len(fs)
      /\ fs[st] \in BOOLEAN
  OBVIOUS
<1>1. \A s \in Nat : Owed(fs, b, s, st - 1) => s \in g \/ OnWire(w, s, Len(w))
  BY DEF Whole
<1>2. \A i \in 1..Len(w) : /\ w[i] <= Len(fs)
                           /\ \A s \in Nat : Owed(fs, b, s, w[i]) => s \in g \/ OnWire(w, s, i)
  BY DEF Whole
<1>3. ASSUME NEW s \in Nat, Owed(fs, b, s, st) PROVE Owed(fs, b, s, st - 1) \/ (s = st /\ fs[st])
  BY <1>3 DEF Owed
<1>4. CASE ~fs[st]
  <2>1. \A s \in Nat : Owed(fs, b, s, st) => s \in g \/ OnWire(w, s, Len(w))
    BY <1>1, <1>3, <1>4
  <2>2. Whole(fs, b, g, w, st + 1)
    BY <1>0, <1>2, <2>1 DEF Whole
  <2> QED
    BY <1>4, <2>2
<1>5. CASE fs[st]
  <2> DEFINE u == Append(w, st)
             n == Len(w)
  <2>1. Len(u) = n + 1 /\ u[n + 1] = st /\ \A i \in 1..n : u[i] = w[i]
    OBVIOUS
  <2> HIDE DEF u
  <2>2. ASSUME NEW k \in 0..n, NEW s, OnWire(w, s, k) PROVE OnWire(u, s, k)
    <3>1. PICK j \in 1..k : w[j] = s
      BY <2>2 DEF OnWire
    <3>2. j \in 1..n
      BY <1>0
    <3> QED
      BY <2>1, <3>1, <3>2 DEF OnWire
  <2>3. \A s : OnWire(w, s, n) => OnWire(u, s, n + 1)
    BY <1>0, <2>1 DEF OnWire
  <2>4. OnWire(u, st, n + 1)
    BY <1>0, <2>1 DEF OnWire
  <2>5. \A s \in Nat : Owed(fs, b, s, st) => s \in g \/ OnWire(u, s, n + 1)
    BY <1>1, <1>3, <2>3, <2>4
  <2>6. ASSUME NEW i \in 1..(n + 1)
        PROVE  /\ u[i] <= Len(fs)
               /\ \A s \in Nat : Owed(fs, b, s, u[i]) => s \in g \/ OnWire(u, s, i)
    <3>1. CASE i = n + 1
      BY <2>1, <2>5, <3>1
    <3>2. CASE i # n + 1
      <4>1. i \in 1..n /\ i \in 0..n /\ u[i] = w[i]
        BY <1>0, <2>1, <3>2
      <4> QED
        BY <1>2, <2>2, <4>1
    <3> QED
      BY <3>1, <3>2
  <2>7. Whole(fs, b, g, u, st + 1)
    BY <1>0, <2>1, <2>5, <2>6 DEF Whole
  <2> QED
    BY <1>5, <2>7 DEF u
<1> QED
  BY <1>4, <1>5

\* The client reads the head of the wire: it is covered then, and the rest is whole.
LEMMA WholeRead ==
  ASSUME NEW fs \in Seq(BOOLEAN), NEW b, NEW g, NEW w \in Seq(Nat), NEW st \in Nat,
         Whole(fs, b, g, w, st), w # <<>>
  PROVE  /\ Covered(fs, b, g \union {Head(w)}, Head(w))
         /\ Whole(fs, b, g \union {Head(w)}, Tail(w), st)
<1> DEFINE h == Head(w)
           t == Tail(w)
           n == Len(w)
<1>1. /\ n \in Nat \ {0} /\ h = w[1] /\ Len(t) = n - 1 /\ \A i \in 1..(n - 1) : t[i] = w[i + 1]
  OBVIOUS
<1> HIDE DEF h, t, n
<1>2. \A i \in 1..n : /\ w[i] <= Len(fs)
                      /\ \A s \in Nat : Owed(fs, b, s, w[i]) => s \in g \/ OnWire(w, s, i)
  BY DEF Whole, n
<1>3. ASSUME NEW k \in 1..n, NEW s, OnWire(w, s, k) PROVE s = h \/ OnWire(t, s, k - 1)
  <2>1. PICK j \in 1..k : w[j] = s
    BY <1>3 DEF OnWire
  <2>2. CASE j = 1
    BY <1>1, <2>1, <2>2
  <2>3. CASE j # 1
    <3>1. j - 1 \in 1..(k - 1) /\ j - 1 \in 1..(n - 1) /\ (j - 1) + 1 = j
      BY <1>1, <2>3
    <3>2. t[j - 1] = s
      BY <1>1, <2>1, <3>1
    <3> QED
      BY <3>1, <3>2 DEF OnWire
  <2> QED
    BY <2>2, <2>3
<1>4. Covered(fs, b, g \union {h}, h)
  <2>1. 1 \in 1..n
    BY <1>1
  <2>2. \A s : OnWire(w, s, 1) => s = h
    BY <1>1 DEF OnWire
  <2> QED
    BY <1>1, <1>2, <2>1, <2>2 DEF Covered
<1>5. ASSUME NEW i \in 1..(n - 1)
      PROVE  /\ t[i] <= Len(fs)
             /\ \A s \in Nat : Owed(fs, b, s, t[i]) => s \in g \union {h} \/ OnWire(t, s, i)
  <2>1. i + 1 \in 1..n /\ t[i] = w[i + 1] /\ (i + 1) - 1 = i
    BY <1>1
  <2> QED
    BY <1>2, <1>3, <2>1
<1>6. ASSUME st # 0
      PROVE  /\ st - 1 <= Len(fs)
             /\ \A s \in Nat : Owed(fs, b, s, st - 1) => s \in g \union {h} \/ OnWire(t, s, n - 1)
  <2>1. /\ st - 1 <= Len(fs)
        /\ \A s \in Nat : Owed(fs, b, s, st - 1) => s \in g \/ OnWire(w, s, n)
    BY <1>6 DEF Whole, n
  <2>2. n \in 1..n
    BY <1>1
  <2> QED
    BY <1>3, <2>1, <2>2
<1>7. Whole(fs, b, g \union {h}, t, st)
  BY <1>1, <1>5, <1>6 DEF Whole
<1> QED
  BY <1>4, <1>7 DEF h, t
-----------------------------------------------------------------------------
(* The session table's records *)

\* A session's record.
LEMMA SessionFields ==
  ASSUME NEW z \in SessionRecords
  PROVE  z.cursor \in Int /\ z.age \in Int
BY DEF SessionRecords

\* A session that is touched, or grows older.
LEMMA AgedSession ==
  ASSUME NEW z \in SessionRecords, NEW a \in Int
  PROVE  [z EXCEPT !.age = a] \in SessionRecords /\ [z EXCEPT !.age = a].cursor = z.cursor
BY DEF SessionRecords

\* A session that is given another cursor.
LEMMA MovedSession ==
  ASSUME NEW z \in SessionRecords, NEW c \in Int
  PROVE  /\ [z EXCEPT !.cursor = c, !.age = 0] \in SessionRecords
         /\ [z EXCEPT !.cursor = c, !.age = 0].cursor = c
         /\ [z EXCEPT !.cursor = c] \in SessionRecords
         /\ [z EXCEPT !.cursor = c].cursor = c
<1>1. [z EXCEPT !.cursor = c] \in SessionRecords
  BY DEF SessionRecords
<1>0. [z EXCEPT !.cursor = c, !.age = 0] \in SessionRecords
  <2> DEFINE y == [z EXCEPT !.cursor = c]
  <2>1. [z EXCEPT !.cursor = c, !.age = 0] = [y EXCEPT !.age = 0]
    BY DEF SessionRecords
  <2>2. y \in SessionRecords
    BY <1>1
  <2> HIDE DEF y
  <2>3. [y EXCEPT !.age = 0] \in SessionRecords
    BY <2>2, AgedSession
  <2> QED
    BY <2>1, <2>3, Zenon
<1>2. [z EXCEPT !.cursor = c, !.age = 0].cursor = c /\ [z EXCEPT !.cursor = c].cursor = c
  BY DEF SessionRecords
<1> QED
  BY <1>0, <1>1, <1>2

\* The records the operations make up.
LEMMA NewRecords ==
  /\ NoSession \in SessionRecords /\ NoSession.cursor = -1
  /\ \A t \in {0, Buffer} :
       /\ NewSession(t) \in SessionRecords /\ NewSession(t).cursor = 0
       /\ session \in SessionRecords =>
            /\ SessionAfterCreate(t) \in SessionRecords
            /\ SessionAfterCreate(t).cursor \in {0, session.cursor}
            /\ t = 0 => SessionAfterCreate(t).cursor = 0
<1>1. NoSession \in SessionRecords /\ NoSession.cursor = -1
  BY DEF NoSession, SessionRecords, Timeouts
<1>2. ASSUME NEW t \in {0, Buffer} PROVE NewSession(t) \in SessionRecords /\ NewSession(t).cursor = 0
  BY DEF NewSession, SessionRecords, Timeouts
<1>3. ASSUME NEW t \in {0, Buffer}, session \in SessionRecords
      PROVE  /\ SessionAfterCreate(t) \in SessionRecords
             /\ SessionAfterCreate(t).cursor \in {0, session.cursor}
             /\ t = 0 => SessionAfterCreate(t).cursor = 0
  <2> DEFINE c == IF t = 0 THEN 0 ELSE session.cursor
             z == [cursor |-> c, timeout |-> t, age |-> 0]
  <2>1. c \in Int /\ c \in {0, session.cursor} /\ (t = 0 => c = 0)
    BY <1>3, SessionFields
  <2> HIDE DEF c
  <2>2. z \in SessionRecords /\ z.cursor = c
    BY <2>1 DEF SessionRecords, Timeouts
  <2>3. SessionAfterCreate(t) = z \/ SessionAfterCreate(t) = NewSession(t)
    BY DEF SessionAfterCreate, c
  <2> HIDE DEF z
  <2> QED
    BY <1>2, <2>1, <2>2, <2>3
<1> QED
  BY <1>1, <1>2, <1>3

\* An acknowledgement's record.
LEMMA AckFields ==
  /\ \A n \in Nat, o \in BOOLEAN : Ack(n, o) \in Acks /\ Ack(n, o).n = n /\ Ack(n, o).old = o
  /\ \A a \in Acks : a.n \in Nat /\ a.old \in BOOLEAN
  /\ NoAck \in Acks /\ NoAck.n = 0
BY DEF Ack, NoAck, Acks
-----------------------------------------------------------------------------
(* The steps *)

\* The initial states.
LEMMA SInitHolds == SInit => SInv
<1> SUFFICES ASSUME SInit PROVE SInv
  OBVIOUS
<1>1. session \in SessionRecords /\ session.cursor <= 0
  BY NewRecords DEF SInit, AppliedSlots
<1>2. /\ frames = <<>> /\ wire = <<>> /\ stream = 0 /\ base = 1 /\ lastSeq = 0
      /\ ack = NoAck /\ lateAcks = {} /\ foreign = FALSE /\ foreignAck = FALSE
  BY DEF SInit
<1>3. STypes
  <2>1. foreign \in BOOLEAN /\ foreignAck \in BOOLEAN
    BY <1>2
  <2>2. frames \in Seq(BOOLEAN) /\ wire \in Seq(Nat)
    BY <1>2
  <2> QED
    BY <1>1, <1>2, <2>1, <2>2, AckFields DEF STypes
<1>4. session.cursor \in Int /\ lastSeq \in Int /\ ack.n = 0
  BY <1>1, <1>2, SessionFields, AckFields
<1>5. \A n \in Int : n <= 0 => ReadUpTo(n)
  BY <1>3, CoveredKept DEF STypes, ReadUpTo
<1>6. AcksCovered
  BY <1>1, <1>2, <1>4, <1>5 DEF AcksCovered
<1>7. Whole(frames, base, got, wire, stream)
  BY <1>2, WholeStart
<1> QED
  BY <1>3, <1>6, <1>7 DEF SInv

\* The types of a step that leaves most variables alone.
LEMMA STypesStep == STypes /\ [SNext]_svars => STypes'
<1> SUFFICES ASSUME STypes, [SNext]_svars PROVE STypes'
  OBVIOUS
<1>0. /\ frames \in Seq(BOOLEAN) /\ wire \in Seq(Nat) /\ stream \in Nat /\ base \in Nat \ {0}
      /\ session \in SessionRecords /\ lastSeq \in Nat
      /\ ack \in Acks /\ lateAcks \subseteq Acks
      /\ foreign \in BOOLEAN /\ foreignAck \in BOOLEAN /\ Len(frames) \in Nat
      /\ session.cursor \in Int /\ session.age \in Int
  BY SessionFields DEF STypes
<1>a. Frame => STypes'
  BY <1>0 DEF Frame, STypes, clientVars, historyVars
<1>b. /\ Forget => STypes'
      /\ StreamBehind => STypes'
      /\ UNCHANGED svars => STypes'
      /\ Interrupt => STypes'
  BY <1>0 DEF Forget, StreamBehind, Interrupt, svars, serverVars, STypes, clientVars, historyVars
<1>c. StreamWrite => STypes'
  <2> SUFFICES ASSUME StreamWrite PROVE STypes'
    OBVIOUS
  <2>1. wire' \in Seq(Nat)
    <3>1. Append(wire, stream) \in Seq(Nat)
      BY <1>0
    <3> QED
      BY <1>0, <3>1 DEF StreamWrite
  <2>2. stream' \in Nat
    BY <1>0 DEF StreamWrite
  <2> QED
    BY <1>0, <2>1, <2>2 DEF StreamWrite, STypes, clientVars, historyVars
<1>d. Tick => STypes'
  <2> SUFFICES ASSUME Tick PROVE STypes'
    OBVIOUS
  <2>1. session' \in SessionRecords
    <3>1. session.age + 1 \in Int
      BY <1>0
    <3>2. session' = NoSession \/ session' = [session EXCEPT !.age = session.age + 1]
      BY DEF Tick
    <3> QED
      BY <1>0, <3>1, <3>2, NewRecords, AgedSession
  <2> QED
    BY <1>0, <2>1 DEF Tick, STypes, clientVars, historyVars
<1>e. Restart => STypes'
  <2> SUFFICES ASSUME Restart PROVE STypes'
    OBVIOUS
  <2>1. session' \in SessionRecords
    BY NewRecords DEF Restart, AppliedSlots
  <2>2. foreign' \in BOOLEAN /\ foreignAck' \in BOOLEAN
    BY DEF Restart
  <2>3. frames' \in Seq(BOOLEAN) /\ wire' \in Seq(Nat) /\ ack' \in Acks /\ lateAcks' \subseteq Acks
    BY AckFields DEF Restart
  <2>4. stream' \in Nat /\ base' \in Nat \ {0} /\ lastSeq' \in Nat /\ stream' = 0
    BY <1>0 DEF Restart
  <2> QED
    BY <2>1, <2>2, <2>3, <2>4 DEF STypes
<1>f. Create => STypes'
  <2> SUFFICES ASSUME Create PROVE STypes'
    OBVIOUS
  <2>1. session' \in SessionRecords
    BY <1>0, NewRecords DEF Create, HandleCreateSession
  <2> QED
    BY <1>0, <2>1 DEF Create, STypes
<1>g. Subscribe => STypes'
  <2> SUFFICES ASSUME Subscribe PROVE STypes'
    OBVIOUS
  <2>1. session' \in SessionRecords
    <3>1. session' \in {session, Touched(session)}
      BY DEF Subscribe, HandleSSE
    <3> QED
      BY <1>0, <3>1, AgedSession DEF Touched
  <2>2. stream' \in Nat /\ base' \in Nat \ {0}
    BY <1>0 DEF Subscribe, HandleSSE, StartAt
  <2>3. wire' \in Seq(Nat)
    BY DEF Subscribe
  <2> QED
    BY <1>0, <2>1, <2>2, <2>3 DEF Subscribe, STypes
<1>h. Read => STypes'
  <2> SUFFICES ASSUME Read PROVE STypes'
    OBVIOUS
  <2>1. Head(wire) \in Nat /\ Tail(wire) \in Seq(Nat)
    BY <1>0 DEF Read
  <2>2. foreign' \in BOOLEAN
    BY DEF Read
  <2> QED
    BY <1>0, <2>1, <2>2 DEF Read, STypes, serverVars
<1>i. SendAck => STypes'
  <2> SUFFICES ASSUME SendAck PROVE STypes'
    OBVIOUS
  <2>1. ack' \in Acks
    BY <1>0, AckFields DEF SendAck
  <2> QED
    BY <1>0, <2>1 DEF SendAck, STypes, serverVars, historyVars
<1>j. ASSUME NEW a \in Acks, HandleAck(a) PROVE session' \in SessionRecords /\ foreignAck' \in BOOLEAN
  <2>1. foreignAck' \in BOOLEAN
    BY <1>j DEF HandleAck
  <2>2. session' = SessionAfterAck(a.n) \/ session' = session
    BY <1>j DEF HandleAck
  <2>3. a.n \in Int
    BY AckFields
  <2>4. SessionAfterAck(a.n) \in SessionRecords
    BY <1>0, <2>3, MovedSession DEF SessionAfterAck
  <2> QED
    BY <1>0, <2>1, <2>2, <2>4
<1>k. AckHandled => STypes'
  <2> SUFFICES ASSUME AckHandled PROVE STypes'
    OBVIOUS
  <2>1. session' \in SessionRecords /\ foreignAck' \in BOOLEAN /\ ack' \in Acks
    BY <1>0, <1>j, AckFields DEF AckHandled
  <2> QED
    BY <1>0, <2>1 DEF AckHandled, STypes
<1>l. LateAck => STypes'
  <2> SUFFICES ASSUME LateAck PROVE STypes'
    OBVIOUS
  <2>1. PICK a \in lateAcks : /\ HandleAck(a) \/ UNCHANGED <<session, foreignAck>>
                              /\ lateAcks' = lateAcks \ {a}
    BY DEF LateAck
  <2>2. a \in Acks /\ lateAcks' \subseteq Acks
    BY <1>0, <2>1
  <2>3. session' \in SessionRecords /\ foreignAck' \in BOOLEAN
    BY <1>0, <1>j, <2>1, <2>2
  <2> QED
    BY <1>0, <2>2, <2>3 DEF LateAck, STypes
<1>m. ASSUME NEW next, EndStream(next) PROVE STypes'
  <2>1. ack' \in Acks /\ lateAcks' \subseteq Acks /\ wire' \in Seq(Nat) /\ stream' \in Nat
    BY <1>0, <1>m, AckFields DEF EndStream
  <2> QED
    BY <1>0, <1>m, <2>1 DEF EndStream, STypes, historyVars
<1>n. AckFinal => STypes'
  <2> SUFFICES ASSUME AckFinal PROVE STypes'
    OBVIOUS
  <2>1. foreignAck' \in BOOLEAN
    BY <1>0 DEF AckFinal
  <2>2. \/ session' = session \/ session' = SessionAfterCreate(0)
        \/ session' = [SessionAfterCreate(0) EXCEPT !.cursor = lastSeq]
    BY DEF AckFinal
  <2>3. SessionAfterCreate(0) \in SessionRecords /\ lastSeq \in Int
    BY <1>0, NewRecords
  <2>4. session' \in SessionRecords
    BY <1>0, <2>2, <2>3, MovedSession
  <2> QED
    BY <1>0, <2>1, <2>4 DEF AckFinal, STypes
<1> QED
  BY <1>a, <1>b, <1>c, <1>d, <1>e, <1>f, <1>g, <1>h, <1>i, <1>k, <1>l, <1>m, <1>n
     DEF SNext, Server, Client, Disconnect

\* What is covered stays covered when nothing but the session changes.
LEMMA SameHistory ==
  ASSUME UNCHANGED <<frames, base, got>>, NEW n
  PROVE  Covered(frames', base', got', n) <=> ReadUpTo(n)
BY DEF ReadUpTo

\* Every step keeps the invariant.
LEMMA SInvStep == SInv /\ [SNext]_svars => SInv'
<1> SUFFICES ASSUME SInv, [SNext]_svars PROVE SInv'
  OBVIOUS
<1>0. STypes /\ STypes'
  BY STypesStep DEF SInv
<1>1. /\ frames \in Seq(BOOLEAN) /\ wire \in Seq(Nat) /\ stream \in Nat /\ base \in Nat \ {0}
      /\ session \in SessionRecords /\ lastSeq \in Nat
      /\ ack \in Acks /\ lateAcks \subseteq Acks
      /\ Len(frames) \in Nat /\ session.cursor \in Int
      /\ ack.n \in Int /\ lastSeq \in Int /\ \A a \in lateAcks : a.n \in Int /\ a \in Acks
  <2>1. /\ frames \in Seq(BOOLEAN) /\ wire \in Seq(Nat) /\ stream \in Nat /\ base \in Nat \ {0}
        /\ session \in SessionRecords /\ lastSeq \in Nat
        /\ ack \in Acks /\ lateAcks \subseteq Acks
    BY <1>0 DEF STypes
  <2>2. session.cursor \in Int
    BY <2>1, SessionFields
  <2>3. ack.n \in Int /\ \A a \in lateAcks : a.n \in Int /\ a \in Acks
    <3>1. ack.n \in Nat /\ \A a \in lateAcks : a.n \in Nat /\ a \in Acks
      BY <2>1, AckFields, Zenon
    <3> QED
      BY <3>1
  <2> QED
    BY <2>1, <2>2, <2>3
<1> DEFINE Cov(n) == Covered(frames', base', got', n)
           Wh == Whole(frames, base, got, wire, stream)
           Goal == /\ Cov(session'.cursor)
                   /\ ~foreign' => Cov(lastSeq')
                   /\ ~ack'.old => Cov(ack'.n)
                   /\ \A a \in lateAcks' : ~a.old => Cov(a.n)
                   /\ Whole(frames', base', got', wire', stream')
<1>2. SUFFICES ASSUME ~foreignAck' PROVE Goal
  BY <1>0 DEF SInv, AcksCovered, ReadUpTo
<1>3. ~foreignAck => /\ ReadUpTo(session.cursor)
                     /\ ~foreign => ReadUpTo(lastSeq)
                     /\ ~ack.old => ReadUpTo(ack.n)
                     /\ \A a \in lateAcks : ~a.old => ReadUpTo(a.n)
                     /\ Wh
  BY DEF SInv, AcksCovered
<1>4. \A n \in Int : n <= 0 => Covered(frames', base', got', n)
  BY <1>0, CoveredKept DEF STypes
<1> HIDE DEF Cov
\* Steps that keep the acknowledgements but for what they take in.
<1>5. ASSUME /\ foreignAck' = foreignAck
             /\ \A n \in Int : ReadUpTo(n) => Cov(n)
             /\ session'.cursor \in {session.cursor, 0, -1}
             /\ UNCHANGED <<lastSeq, foreign, ack, lateAcks>>
             /\ Whole(frames', base', got', wire', stream')
      PROVE  Goal
  <2>1. Cov(0) /\ Cov(-1)
    BY <1>4 DEF Cov
  <2> QED
    BY <1>1, <1>2, <1>3, <1>5, <2>1
<1>6. UNCHANGED <<frames, base, got>> => \A n \in Int : ReadUpTo(n) => Cov(n)
  BY SameHistory DEF Cov
<1>a. Frame => Goal
  <2> SUFFICES ASSUME Frame PROVE Goal
    OBVIOUS
  <2>1. PICK x \in BOOLEAN : frames' = Append(frames, x)
    BY DEF Frame
  <2>2. /\ UNCHANGED <<session, stream, wire, lastSeq, ack, lateAcks, got, base, foreign, foreignAck>>
    BY DEF Frame, clientVars, historyVars
  <2>3. \A n \in Int : ReadUpTo(n) => Cov(n)
    BY <1>1, <2>1, <2>2, CoveredKept DEF ReadUpTo, Cov
  <2>4. Whole(frames', base', got', wire', stream')
    BY <1>1, <1>2, <1>3, <2>1, <2>2, WholeFrame
  <2> QED
    BY <1>5, <2>2, <2>3, <2>4
<1>b. Forget \/ Interrupt \/ UNCHANGED svars => Goal
  <2> SUFFICES ASSUME Forget \/ Interrupt \/ UNCHANGED svars PROVE Goal
    OBVIOUS
  <2>1. UNCHANGED <<frames, session, stream, wire, lastSeq, ack, lateAcks, got, base, foreign, foreignAck>>
    BY DEF Forget, Interrupt, svars, serverVars, clientVars, historyVars
  <2>2. Whole(frames', base', got', wire', stream')
    BY <1>2, <1>3, <2>1
  <2> QED
    BY <1>5, <1>6, <2>1, <2>2
<1>c. StreamWrite => Goal
  <2> SUFFICES ASSUME StreamWrite PROVE Goal
    OBVIOUS
  <2>1. /\ UNCHANGED <<frames, session, lastSeq, ack, lateAcks, got, base, foreign, foreignAck>>
        /\ stream # 0 /\ stream <= Len(frames) /\ stream' = stream + 1
        /\ wire' = IF frames[stream] THEN Append(wire, stream) ELSE wire
    BY DEF StreamWrite, clientVars, historyVars
  <2>2. Whole(frames', base', got', wire', stream')
    BY <1>1, <1>2, <1>3, <2>1, WholeWrite
  <2> QED
    BY <1>5, <1>6, <2>1, <2>2
<1>d. StreamBehind => Goal
  <2> SUFFICES ASSUME StreamBehind PROVE Goal
    OBVIOUS
  <2>1. /\ UNCHANGED <<frames, session, wire, lastSeq, ack, lateAcks, got, base, foreign, foreignAck>>
        /\ stream' = 0
    BY DEF StreamBehind, clientVars, historyVars
  <2>2. Whole(frames', base', got', wire', stream')
    BY <1>2, <1>3, <2>1, WholeStop
  <2> QED
    BY <1>5, <1>6, <2>1, <2>2
<1>e. Tick \/ Create => Goal
  <2> SUFFICES ASSUME Tick \/ Create PROVE Goal
    OBVIOUS
  <2>1. UNCHANGED <<frames, stream, wire, lastSeq, ack, lateAcks, got, base, foreign, foreignAck>>
    BY DEF Tick, Create, clientVars, historyVars
  <2>2. session'.cursor \in {session.cursor, 0, -1}
    <3>1. CASE Tick
      <4>1. session.age + 1 \in Int
        BY <1>1, SessionFields
      <4>2. session' = NoSession \/ session' = [session EXCEPT !.age = session.age + 1]
        BY <3>1 DEF Tick
      <4>3. CASE session' = NoSession
        BY <4>3, NewRecords
      <4>4. CASE session' = [session EXCEPT !.age = session.age + 1]
        <5>1. [session EXCEPT !.age = session.age + 1].cursor = session.cursor
          BY <1>1, <4>1, AgedSession
        <5> QED
          BY <4>4, <5>1
      <4> QED
        BY <4>2, <4>3, <4>4
    <3>2. CASE Create
      BY <1>1, <3>2, NewRecords DEF Create, HandleCreateSession
    <3> QED
      BY <3>1, <3>2
  <2>3. Whole(frames', base', got', wire', stream')
    BY <1>2, <1>3, <2>1
  <2> QED
    BY <1>5, <1>6, <2>1, <2>2, <2>3
<1>f. Restart => Goal
  <2> SUFFICES ASSUME Restart PROVE Goal
    OBVIOUS
  <2>1. /\ ack' = NoAck /\ lateAcks' = {} /\ wire' = <<>> /\ stream' = 0
        /\ foreign' = (foreign \/ lastSeq > 0) /\ lastSeq' = lastSeq
        /\ session' \in AppliedSlots
    BY DEF Restart
  <2>2. session'.cursor = 0 \/ session'.cursor = -1
    BY <2>1, NewRecords DEF AppliedSlots
  <2>3. Cov(0) /\ Cov(-1) /\ ack'.n = 0
    BY <1>4, <2>1, AckFields DEF Cov
  <2>4. ~foreign' => lastSeq' = 0
    <3>1. ~foreign' => ~(lastSeq > 0)
      BY <2>1, Zenon
    <3> QED
      BY <1>1, <2>1, <3>1
  <2> QED
    BY <2>1, <2>2, <2>3, <2>4, WholeStart
<1>g. Subscribe => Goal
  <2> SUFFICES ASSUME Subscribe PROVE Goal
    OBVIOUS
  <2>1. UNCHANGED <<frames, lastSeq, ack, lateAcks, got, foreign, foreignAck>> /\ wire' = <<>>
    BY DEF Subscribe
  <2>2. CASE UNCHANGED <<stream, session, base>> /\ ~HasSession
    <3>1. Whole(frames', base', got', <<>>, stream')
      <4>1. stream = 0
        BY <1>0 DEF STypes, Subscribe
      <4> QED
        BY <2>2, <4>1, WholeStart
    <3> QED
      BY <1>5, <1>6, <2>1, <2>2, <3>1
  <2>3. CASE HandleSSE
    <3>1. session'.cursor = session.cursor
      BY <1>1, <2>3, AgedSession DEF HandleSSE, Touched
    <3>2. CASE session.cursor > 0
      <4>1. base' = base /\ stream' = session.cursor + 1 /\ session.cursor \in Nat
        BY <1>1, <2>3, <3>2 DEF HandleSSE, StartAt
      <4>2. Covered(frames, base, got, session.cursor)
        BY <1>2, <1>3, <2>1 DEF ReadUpTo
      <4>3. Whole(frames', base', got', wire', stream')
        BY <2>1, <4>1, <4>2, WholeStart
      <4> QED
        BY <1>5, <1>6, <2>1, <3>1, <4>1, <4>3
    <3>3. CASE ~(session.cursor > 0)
      <4>1. base' = Len(frames) + 1 /\ stream' = Len(frames) + 1
        BY <2>3, <3>3 DEF HandleSSE, StartAt
      <4>2. \A n \in Int : ReadUpTo(n) => Cov(n)
        BY <1>1, <2>1, <4>1, CoveredKept DEF ReadUpTo, Cov
      <4>3. Covered(frames, Len(frames) + 1, got, Len(frames))
        BY <1>1 DEF Covered, Owed
      <4>4. Whole(frames', base', got', wire', stream')
        BY <1>1, <2>1, <4>1, <4>3, WholeStart
      <4> QED
        BY <1>5, <2>1, <3>1, <4>2, <4>4
    <3> QED
      BY <3>2, <3>3
  <2> QED
    BY <2>2, <2>3 DEF Subscribe
<1>h. Read => Goal
  <2> SUFFICES ASSUME Read PROVE Goal
    OBVIOUS
  <2>1. /\ UNCHANGED <<frames, session, stream, ack, lateAcks, base, foreignAck>> /\ wire # <<>>
        /\ lastSeq' = Head(wire) /\ wire' = Tail(wire) /\ got' = got \union {Head(wire)}
    BY DEF Read, serverVars
  <2>2. \A n \in Int : ReadUpTo(n) => Cov(n)
    BY <1>1, <2>1, CoveredKept DEF ReadUpTo, Cov
  <2>3. Cov(lastSeq') /\ Whole(frames', base', got', wire', stream')
    BY <1>1, <1>2, <1>3, <2>1, WholeRead DEF Cov
  <2> QED
    BY <1>1, <1>2, <1>3, <2>1, <2>2, <2>3
<1>i. SendAck => Goal
  <2> SUFFICES ASSUME SendAck PROVE Goal
    OBVIOUS
  <2>1. /\ UNCHANGED <<frames, session, stream, wire, lastSeq, lateAcks, got, base, foreign, foreignAck>>
        /\ ack' = Ack(lastSeq, foreign)
    BY DEF SendAck, serverVars, historyVars
  <2>2. ack'.n = lastSeq /\ ack'.old = foreign
    BY <1>0, <2>1, AckFields DEF STypes
  <2>3. \A n \in Int : ReadUpTo(n) => Cov(n)
    BY <1>6, <2>1
  <2>4. Whole(frames', base', got', wire', stream')
    BY <1>2, <1>3, <2>1
  <2> QED
    BY <1>1, <1>2, <1>3, <2>1, <2>2, <2>3, <2>4
<1>j. ASSUME NEW a \in Acks, HandleAck(a), ~a.old => ReadUpTo(a.n), UNCHANGED <<frames, base, got>>
      PROVE  ~foreignAck /\ Cov(session'.cursor)
  <2>1. ~foreignAck /\ (HasSession => ~a.old)
    BY <1>2, <1>j DEF HandleAck
  <2>2. a.n \in Int
    BY AckFields
  <2>3. CASE HasSession
    <3>1. session'.cursor = a.n
      BY <1>1, <1>j, <2>2, <2>3, MovedSession DEF HandleAck, SessionAfterAck
    <3> QED
      BY <1>6, <1>j, <2>1, <2>2, <2>3, <3>1
  <2>4. CASE ~HasSession
    <3>1. session' = session
      BY <1>j, <2>4 DEF HandleAck
    <3> QED
      BY <1>1, <1>3, <1>6, <1>j, <2>1, <3>1
  <2> QED
    BY <2>1, <2>3, <2>4
<1>k. AckHandled => Goal
  <2> SUFFICES ASSUME AckHandled PROVE Goal
    OBVIOUS
  <2>1. /\ UNCHANGED <<frames, stream, wire, lastSeq, lateAcks, got, base, foreign>>
        /\ HandleAck(ack) /\ ack' = NoAck
    BY DEF AckHandled
  <2>2. ~foreignAck
    BY <1>2, <2>1 DEF HandleAck
  <2>3. Cov(session'.cursor)
    BY <1>1, <1>3, <1>j, <2>1, <2>2
  <2>4. Cov(ack'.n)
    BY <1>4, <2>1, AckFields DEF Cov
  <2>5. \A n \in Int : ReadUpTo(n) => Cov(n)
    BY <1>6, <2>1
  <2>6. Whole(frames', base', got', wire', stream')
    BY <1>3, <2>1, <2>2
  <2> QED
    BY <1>1, <1>3, <2>1, <2>2, <2>3, <2>4, <2>5, <2>6
<1>l. LateAck => Goal
  <2> SUFFICES ASSUME LateAck PROVE Goal
    OBVIOUS
  <2>1. PICK a \in lateAcks : /\ HandleAck(a) \/ UNCHANGED <<session, foreignAck>>
                              /\ lateAcks' = lateAcks \ {a}
    BY DEF LateAck
  <2>2. UNCHANGED <<frames, stream, wire, lastSeq, ack, got, base, foreign>>
    BY DEF LateAck
  <2>3. ~foreignAck
    BY <1>2, <2>1 DEF HandleAck
  <2>4. \A n \in Int : ReadUpTo(n) => Cov(n)
    BY <1>6, <2>2
  <2>5. Cov(session'.cursor)
    <3>1. CASE HandleAck(a)
      BY <1>1, <1>3, <1>j, <2>2, <2>3, <3>1
    <3>2. CASE UNCHANGED <<session, foreignAck>>
      BY <1>1, <1>3, <2>3, <2>4, <3>2
    <3> QED
      BY <2>1, <3>1, <3>2
  <2>6. Whole(frames', base', got', wire', stream')
    BY <1>3, <2>2, <2>3
  <2> QED
    BY <1>1, <1>3, <2>1, <2>2, <2>3, <2>4, <2>5, <2>6
<1>m. ASSUME NEW next, EndStream(next) PROVE Goal
  <2>1. /\ UNCHANGED <<frames, session, lastSeq, got, base, foreign, foreignAck>>
        /\ stream' = 0 /\ wire' = <<>> /\ ack' = NoAck /\ lateAcks' \subseteq lateAcks \union {ack}
    BY <1>m DEF EndStream, historyVars
  <2>2. \A n \in Int : ReadUpTo(n) => Cov(n)
    BY <1>6, <2>1
  <2>3. Cov(ack'.n)
    BY <1>4, <2>1, AckFields DEF Cov
  <2>4. Whole(frames', base', got', wire', stream')
    BY <2>1, WholeStart
  <2> QED
    BY <1>1, <1>2, <1>3, <2>1, <2>2, <2>3, <2>4
<1>n. AckFinal => Goal
  <2> SUFFICES ASSUME AckFinal PROVE Goal
    OBVIOUS
  <2>1. UNCHANGED <<frames, stream, wire, lastSeq, ack, lateAcks, got, base, foreign>>
    BY DEF AckFinal
  <2>2. \A n \in Int : ReadUpTo(n) => Cov(n)
    BY <1>6, <2>1
  <2>3. ~foreignAck
    BY <1>2 DEF AckFinal
  <2>4. Cov(session'.cursor)
    <3>1. CASE session' = session
      BY <1>1, <1>3, <2>2, <2>3, <3>1
    <3>2. CASE session' = SessionAfterCreate(0)
      <4>1. session'.cursor = 0
        BY <1>1, <3>2, NewRecords
      <4> QED
        BY <1>4, <4>1 DEF Cov
    <3>3. CASE /\ session' = [SessionAfterCreate(0) EXCEPT !.cursor = lastSeq]
               /\ foreignAck' = (foreignAck \/ foreign)
      <4>1. SessionAfterCreate(0) \in SessionRecords
        BY <1>1, NewRecords
      <4>2. session'.cursor = lastSeq
        BY <1>1, <3>3, <4>1, MovedSession
      <4>3. ~foreign
        BY <1>2, <3>3
      <4> QED
        BY <1>1, <1>3, <2>2, <2>3, <4>2, <4>3
    <3> QED
      BY <3>1, <3>2, <3>3 DEF AckFinal
  <2>5. Whole(frames', base', got', wire', stream')
    BY <1>3, <2>1, <2>3
  <2> QED
    BY <1>1, <1>3, <2>1, <2>2, <2>3, <2>4, <2>5
<1> QED
  BY <1>a, <1>b, <1>c, <1>d, <1>e, <1>f, <1>g, <1>h, <1>i, <1>k, <1>l, <1>m, <1>n
     DEF SNext, Server, Client, Disconnect

\* "On reconnect, replays all frames since your last ACK": whatever acknowledgements
\* come late, twice or out of order, however streams are cut and sessions created
\* again, a session's cursor never covers a frame its client did not read, but for
\* numbers of an earlier server start.
THEOREM CursorCoversOnlyTheRead == SSpec => []AckedWasRead
<1>1. SInit => SInv
  BY SInitHolds
<1>2. SInv /\ [SNext]_svars => SInv'
  BY SInvStep
<1>3. SInv => AckedWasRead
  <2> SUFFICES ASSUME SInv, ~foreignAck, NEW s \in Passing(base, session.cursor) PROVE s \in got
    BY DEF AckedWasRead
  <2>1. /\ frames \in Seq(BOOLEAN) /\ base \in Nat /\ session.cursor \in Int /\ Len(frames) \in Nat
    BY SessionFields DEF SInv, STypes
  <2>2. s \in base..session.cursor /\ s \in DOMAIN frames /\ frames[s]
    BY DEF Passing
  <2>3. s \in Nat /\ Owed(frames, base, s, session.cursor)
    BY <2>1, <2>2 DEF Owed
  <2>4. Covered(frames, base, got, session.cursor)
    BY DEF SInv, AcksCovered, ReadUpTo
  <2> QED
    BY <2>3, <2>4 DEF Covered
<1> QED
  BY <1>1, <1>2, <1>3, PTL DEF SSpec
-----------------------------------------------------------------------------
(* Fan-out and on-demand queries *)

Events == [device : BOOLEAN, n : Nat, pgn : All]
Sub == [filter : SUBSET All, ch : Seq(Events)]
Phases == {"none", "subscribed", "waiting", "answered"}

FTypeOK ==
  /\ seq \in Nat
  /\ DOMAIN subs \subseteq Subscribers /\ subs \in [DOMAIN subs -> Sub]
  /\ written \in [Listeners -> Seq(Events)]
  /\ due \in [Listeners -> SUBSET Events] /\ dropped \in [Listeners -> SUBSET Events]
  /\ query \in [phase : Phases, pgn : All, answer : Events]
  /\ answered \in BOOLEAN
  /\ asked \subseteq All /\ tx \in Seq([ask : BOOLEAN, pgn : All])

\* A listener's events q, of those that were due and those that were dropped.
Story(q, D, X) ==
  /\ ToSet(q) = D \ X /\ X \subseteq D
  /\ \A i, j \in DOMAIN q : i < j => Precedes(q[i], q[j])

ListenerHolds(l) ==
  /\ Story(written[l] \o subs[l].ch, due[l], dropped[l])
  /\ \A e \in due[l] : e.n <= seq

QueryHolds ==
  query.phase \in {"subscribed", "waiting"} =>
    /\ Q \in DOMAIN subs /\ query.pgn \in Pgns /\ subs[Q].filter = {query.pgn}
    /\ query.phase = "subscribed" => ~answered

FInv ==
  /\ FTypeOK /\ QueryHolds /\ QueryHears
  /\ \A l \in DOMAIN subs \intersect Listeners : ListenerHolds(l)

\* What fanOut and fanOutDevice send are events.
LEMMA EventTypes ==
  ASSUME NEW n \in Nat, NEW p \in All
  PROVE  FrameEvent(n, p) \in Events /\ DeviceEvent(n) \in Events
BY DEF FrameEvent, DeviceEvent, Events, All

\* An event later than all that were due, sent, goes to the end of the listener's story.
LEMMA StoryAppends ==
  ASSUME NEW q \in Seq(Events), NEW D \in SUBSET Events, NEW X \in SUBSET Events, NEW e \in Events,
         Story(q, D, X), \A d \in D : Precedes(d, e)
  PROVE  Story(Append(q, e), D \union {e}, X)
<1> DEFINE r == Append(q, e)
<1>1. /\ Len(q) \in Nat /\ DOMAIN q = 1..Len(q) /\ DOMAIN r = 1..(Len(q) + 1)
      /\ r[Len(q) + 1] = e /\ \A i \in 1..Len(q) : r[i] = q[i]
  OBVIOUS
<1>2. e \notin D
  <2>1. ~Precedes(e, e)
    BY DEF Precedes, Events
  <2> QED BY <2>1
<1>3. ToSet(r) = ToSet(q) \union {e}
  <2>1. ASSUME NEW x \in ToSet(r) PROVE x \in ToSet(q) \union {e}
    <3>1. PICK i \in DOMAIN r : x = r[i]
      BY DEF ToSet
    <3>2. CASE i = Len(q) + 1
      BY <3>1, <3>2, <1>1
    <3>3. CASE i \in 1..Len(q)
      BY <3>1, <3>3, <1>1 DEF ToSet
    <3> QED BY <1>1, <3>2, <3>3
  <2>2. ASSUME NEW x \in ToSet(q) PROVE x \in ToSet(r)
    <3>1. PICK i \in DOMAIN q : x = q[i]
      BY DEF ToSet
    <3>2. i \in DOMAIN r /\ r[i] = x
      BY <3>1, <1>1
    <3> QED BY <3>2 DEF ToSet
  <2>3. e \in ToSet(r)
    <3>1. Len(q) + 1 \in DOMAIN r
      BY <1>1
    <3> QED BY <1>1, <3>1 DEF ToSet
  <2> QED BY <2>1, <2>2, <2>3
<1>4. ASSUME NEW i \in DOMAIN r, NEW j \in DOMAIN r, i < j PROVE Precedes(r[i], r[j])
  <2>1. i \in 1..Len(q)
    BY <1>1, <1>4
  <2>2. CASE j = Len(q) + 1
    <3>1. r[i] \in D
      <4>1. r[i] \in ToSet(q)
        BY <2>1, <1>1 DEF ToSet
      <4> QED BY <4>1 DEF Story
    <3> QED BY <3>1, <2>2, <1>1
  <2>3. CASE j \in 1..Len(q)
    BY <2>1, <2>3, <1>1, <1>4 DEF Story
  <2> QED BY <1>1, <2>2, <2>3
<1>5. (D \ X) \union {e} = (D \union {e}) \ X
  BY <1>2 DEF Story
<1> QED BY <1>3, <1>4, <1>5 DEF Story

\* One event, offered to the channel c of a listener that was written w.
LEMMA StoryOffered ==
  ASSUME NEW w \in Seq(Events), NEW c \in Seq(Events), NEW D \in SUBSET Events, NEW X \in SUBSET Events,
         NEW e \in Events, Story(w \o c, D, X), \A d \in D : Precedes(d, e)
  PROVE  Story(w \o Offer(c, e), D \union {e}, X \union (IF Len(c) >= ChanCap THEN {e} ELSE {}))
<1>0. Len(c) \in Nat /\ ChanCap \in Nat /\ w \o c \in Seq(Events)
  BY FanOutAssumption
<1>1. CASE Len(c) < ChanCap
  <2>1. w \o Append(c, e) = Append(w \o c, e)
    OBVIOUS
  <2>2. Story(Append(w \o c, e), D \union {e}, X)
    BY <1>0, StoryAppends
  <2>3. (IF Len(c) >= ChanCap THEN {e} ELSE {}) = {} /\ X \union {} = X
    BY <1>0, <1>1
  <2> QED BY <1>1, <2>1, <2>2, <2>3 DEF Offer
<1>2. CASE Len(c) >= ChanCap
  <2>1. Offer(c, e) = c
    BY <1>0, <1>2 DEF Offer
  <2>2. (D \union {e}) \ (X \union {e}) = D \ X
    <3>1. e \notin D
      BY DEF Precedes, Events
    <3> QED BY <3>1
  <2> QED BY <1>2, <2>1, <2>2 DEF Story
<1> QED BY <1>0, <1>1, <1>2

\* An offer leaves a channel of events, and never empties it.
LEMMA OfferedTypes ==
  ASSUME NEW s, NEW c \in Seq(Events), NEW e \in Events
  PROVE  Offered(s, c, e) \in Seq(Events) /\ (c # <<>> => Offered(s, c, e) # <<>>)
BY DEF Offered, Offer

\* The same by the listener's filter.
LEMMA StoryContinues ==
  ASSUME NEW s, NEW w \in Seq(Events), NEW c \in Seq(Events),
         NEW D \in SUBSET Events, NEW X \in SUBSET Events,
         NEW e \in Events, Story(w \o c, D, X), \A d \in D : Precedes(d, e)
  PROVE  Story(w \o Offered(s, c, e), D \union {x \in {e} : Wants(s, x)}, X \union Refused(s, c, e))
<1>1. CASE Wants(s, e)
  <2>1. {x \in {e} : Wants(s, x)} = {e}
    BY <1>1
  <2>2. Refused(s, c, e) = IF Len(c) >= ChanCap THEN {e} ELSE {}
    BY <1>1 DEF Refused
  <2> QED BY <1>1, <2>1, <2>2, StoryOffered DEF Offered
<1>2. CASE ~Wants(s, e)
  <2>1. {x \in {e} : Wants(s, x)} = {}
    BY <1>2
  <2>2. Refused(s, c, e) = {} /\ Offered(s, c, e) = c
    BY <1>2 DEF Refused, Offered
  <2>3. D \union {} = D /\ X \union {} = X
    OBVIOUS
  <2> QED BY <2>1, <2>2, <2>3
<1> QED BY <1>1, <1>2

\* What FanOut does with one event and with two.
LEMMA FanOutOne ==
  ASSUME NEW e, FanOut(<<e>>)
  PROVE  /\ subs' = [s \in DOMAIN subs |-> subs'[s]]
         /\ due' = [l \in Listeners |-> due'[l]] /\ dropped' = [l \in Listeners |-> dropped'[l]]
         /\ \A s \in DOMAIN subs : subs'[s] = [subs[s] EXCEPT !.ch = Offered(s, subs[s].ch, e)]
         /\ \A l \in Listeners \ DOMAIN subs : due'[l] = due[l] /\ dropped'[l] = dropped[l]
         /\ \A l \in Listeners \intersect DOMAIN subs :
              /\ due'[l] = due[l] \union {x \in {e} : Wants(l, x)}
              /\ dropped'[l] = dropped[l] \union Refused(l, subs[l].ch, e)
<1>1. Len(<<e>>) = 1 /\ <<e>>[1] = e /\ ToSet(<<e>>) = {e}
  BY DEF ToSet
<1>2. /\ subs' = [s \in DOMAIN subs |-> [subs[s] EXCEPT !.ch = Offered(s, subs[s].ch, e)]]
      /\ due' = [l \in Listeners |-> IF l \in DOMAIN subs THEN due[l] \union {x \in {e} : Wants(l, x)} ELSE due[l]]
      /\ dropped' = [l \in Listeners |-> IF l \in DOMAIN subs THEN dropped[l] \union (Refused(l, subs[l].ch, e) \union {})
                                         ELSE dropped[l]]
  <2>1. (Len(<<e>>) = 2) = FALSE
    BY <1>1
  <2> QED BY <1>1, <2>1, Zenon DEF FanOut
<1>3. ASSUME NEW l \in Listeners \intersect DOMAIN subs
      PROVE  dropped'[l] = dropped[l] \union Refused(l, subs[l].ch, e)
  <2>1. dropped'[l] = dropped[l] \union (Refused(l, subs[l].ch, e) \union {})
    BY <1>2
  <2> QED BY <2>1
<1> QED BY <1>2, <1>3

\* What fanning out a claim's announcement and the claim itself does, subscriber by subscriber.
LEMMA FanOutTwo ==
  ASSUME NEW d, NEW e, FanOut(<<d, e>>)
  PROVE  /\ subs' = [s \in DOMAIN subs |-> subs'[s]]
         /\ due' = [l \in Listeners |-> due'[l]] /\ dropped' = [l \in Listeners |-> dropped'[l]]
         /\ \A s \in DOMAIN subs : subs'[s] = [subs[s] EXCEPT !.ch = Offered(s, Offered(s, subs[s].ch, d), e)]
         /\ \A l \in Listeners \ DOMAIN subs : due'[l] = due[l] /\ dropped'[l] = dropped[l]
         /\ \A l \in Listeners \intersect DOMAIN subs :
              /\ due'[l] = due[l] \union {x \in {d, e} : Wants(l, x)}
              /\ dropped'[l] = dropped[l] \union (Refused(l, Offered(l, subs[l].ch, d), e) \union Refused(l, subs[l].ch, d))
<1>1. Len(<<d, e>>) = 2 /\ <<d, e>>[1] = d /\ <<d, e>>[2] = e /\ ToSet(<<d, e>>) = {d, e}
  BY DEF ToSet
<1>2. /\ subs' = [s \in DOMAIN subs |-> [subs[s] EXCEPT !.ch = Offered(s, Offered(s, subs[s].ch, d), e)]]
      /\ due' = [l \in Listeners |-> IF l \in DOMAIN subs THEN due[l] \union {x \in {d, e} : Wants(l, x)} ELSE due[l]]
      /\ dropped' = [l \in Listeners |->
                       IF l \in DOMAIN subs
                       THEN dropped[l] \union (Refused(l, Offered(l, subs[l].ch, d), e) \union Refused(l, subs[l].ch, d))
                       ELSE dropped[l]]
  BY <1>1 DEF FanOut
<1> QED BY <1>2

\* One event: the types, the filters and the listeners' stories.
LEMMA OneKeeps ==
  ASSUME FInv, NEW e \in Events, e.n = seq + 1, FanOut(<<e>>), written' = written, seq' = seq + 1
  PROVE  /\ DOMAIN subs' = DOMAIN subs /\ subs' \in [DOMAIN subs' -> Sub]
         /\ \A s \in DOMAIN subs : subs'[s].filter = subs[s].filter /\ subs'[s].ch = Offered(s, subs[s].ch, e)
         /\ due' \in [Listeners -> SUBSET Events] /\ dropped' \in [Listeners -> SUBSET Events]
         /\ \A l \in DOMAIN subs' \intersect Listeners : ListenerHolds(l)'
<1> USE DEF FInv, FTypeOK
<1>1. DOMAIN subs' = DOMAIN subs
  BY FanOutOne
<1>2. ASSUME NEW s \in DOMAIN subs
      PROVE  /\ subs[s].ch \in Seq(Events) /\ subs'[s] \in Sub
             /\ subs'[s].filter = subs[s].filter /\ subs'[s].ch = Offered(s, subs[s].ch, e)
  <2>1. subs[s] \in Sub /\ subs[s].ch \in Seq(Events)
    BY DEF Sub
  <2>2. subs'[s] = [subs[s] EXCEPT !.ch = Offered(s, subs[s].ch, e)]
    BY FanOutOne
  <2>3. Offered(s, subs[s].ch, e) \in Seq(Events)
    BY <2>1, OfferedTypes
  <2> QED BY <2>1, <2>2, <2>3 DEF Sub
<1>3. subs' \in [DOMAIN subs' -> Sub]
  BY <1>1, <1>2, FanOutOne
<1>4. due' \in [Listeners -> SUBSET Events]
  <2>1. ASSUME NEW l \in Listeners PROVE due'[l] \in SUBSET Events
    <3>1. due[l] \subseteq Events /\ {x \in {e} : Wants(l, x)} \subseteq Events
      OBVIOUS
    <3>2. due'[l] = due[l] \/ due'[l] = due[l] \union {x \in {e} : Wants(l, x)}
      BY FanOutOne
    <3> QED BY <3>1, <3>2
  <2> QED BY <2>1, FanOutOne
<1>5. dropped' \in [Listeners -> SUBSET Events]
  <2>1. ASSUME NEW l \in Listeners PROVE dropped'[l] \in SUBSET Events
    <3>1. dropped[l] \subseteq Events /\ Refused(l, subs[l].ch, e) \subseteq Events
      BY DEF Refused
    <3>2. dropped'[l] = dropped[l] \/ dropped'[l] = dropped[l] \union Refused(l, subs[l].ch, e)
      BY FanOutOne
    <3> QED BY <3>1, <3>2
  <2> QED BY <2>1, FanOutOne
<1>6. ASSUME NEW l \in DOMAIN subs \intersect Listeners PROVE ListenerHolds(l)'
  <2>1. /\ due'[l] = due[l] \union {x \in {e} : Wants(l, x)}
        /\ dropped'[l] = dropped[l] \union Refused(l, subs[l].ch, e)
        /\ subs'[l].ch = Offered(l, subs[l].ch, e)
    BY <1>2, FanOutOne
  <2>2. /\ written[l] \in Seq(Events) /\ subs[l].ch \in Seq(Events)
        /\ due[l] \in SUBSET Events /\ dropped[l] \in SUBSET Events
    BY <1>2
  <2>3. Story(written[l] \o subs[l].ch, due[l], dropped[l]) /\ \A d \in due[l] : d.n <= seq
    BY DEF ListenerHolds
  <2>4. \A d \in due[l] : Precedes(d, e)
    BY <2>2, <2>3 DEF Precedes, Events
  <2>5. Story(written[l] \o subs'[l].ch, due'[l], dropped'[l])
    <3>1. Story(written[l] \o Offered(l, subs[l].ch, e), due[l] \union {x \in {e} : Wants(l, x)},
                dropped[l] \union Refused(l, subs[l].ch, e))
      BY <2>2, <2>3, <2>4, StoryContinues
    <3> QED BY <2>1, <3>1
  <2>6. \A d \in due'[l] : d.n <= seq'
    BY <2>1, <2>2, <2>3 DEF Events
  <2>7. ListenerHolds(l)' = (Story(written'[l] \o subs'[l].ch, due'[l], dropped'[l]) /\ \A d \in due'[l] : d.n <= seq')
    BY DEF ListenerHolds, Story, Precedes, ToSet
  <2> QED BY <2>5, <2>6, <2>7
<1> QED BY <1>1, <1>2, <1>3, <1>4, <1>5, <1>6

\* A device's announcement and its frame.
LEMMA TwoKeep ==
  ASSUME FInv, NEW d \in Events, NEW e \in Events, d.n = seq + 1, e.n = seq + 1, d.device, ~e.device,
         FanOut(<<d, e>>), written' = written, seq' = seq + 1
  PROVE  /\ DOMAIN subs' = DOMAIN subs /\ subs' \in [DOMAIN subs' -> Sub]
         /\ \A s \in DOMAIN subs : /\ subs'[s].filter = subs[s].filter
                                   /\ subs'[s].ch = Offered(s, Offered(s, subs[s].ch, d), e)
         /\ due' \in [Listeners -> SUBSET Events] /\ dropped' \in [Listeners -> SUBSET Events]
         /\ \A l \in DOMAIN subs' \intersect Listeners : ListenerHolds(l)'
<1> USE DEF FInv, FTypeOK
<1> DEFINE mid(s) == Offered(s, subs[s].ch, d)
<1>1. DOMAIN subs' = DOMAIN subs
  BY FanOutTwo
<1>2. ASSUME NEW s \in DOMAIN subs
      PROVE  /\ subs[s].ch \in Seq(Events) /\ subs'[s] \in Sub /\ mid(s) \in Seq(Events)
             /\ subs'[s].filter = subs[s].filter /\ subs'[s].ch = Offered(s, mid(s), e)
  <2>1. subs[s] \in Sub /\ subs[s].ch \in Seq(Events)
    BY DEF Sub
  <2>2. subs'[s] = [subs[s] EXCEPT !.ch = Offered(s, mid(s), e)]
    BY FanOutTwo
  <2>3. mid(s) \in Seq(Events)
    BY <2>1, OfferedTypes
  <2>4. Offered(s, mid(s), e) \in Seq(Events)
    BY <2>3, OfferedTypes
  <2> QED BY <2>1, <2>2, <2>3, <2>4 DEF Sub
<1>3. subs' \in [DOMAIN subs' -> Sub]
  BY <1>1, <1>2, FanOutTwo
<1>4. due' \in [Listeners -> SUBSET Events]
  <2>1. ASSUME NEW l \in Listeners PROVE due'[l] \in SUBSET Events
    <3>1. due[l] \subseteq Events /\ {x \in {d, e} : Wants(l, x)} \subseteq Events
      OBVIOUS
    <3>2. due'[l] = due[l] \/ due'[l] = due[l] \union {x \in {d, e} : Wants(l, x)}
      BY FanOutTwo
    <3> QED BY <3>1, <3>2
  <2> QED BY <2>1, FanOutTwo
<1>5. dropped' \in [Listeners -> SUBSET Events]
  <2>1. ASSUME NEW l \in Listeners PROVE dropped'[l] \in SUBSET Events
    <3>1. dropped[l] \subseteq Events /\ (Refused(l, Offered(l, subs[l].ch, d), e) \union Refused(l, subs[l].ch, d)) \subseteq Events
      BY DEF Refused
    <3>2. dropped'[l] = dropped[l] \/ dropped'[l] = dropped[l] \union (Refused(l, Offered(l, subs[l].ch, d), e) \union Refused(l, subs[l].ch, d))
      BY FanOutTwo
    <3> QED BY <3>1, <3>2
  <2> QED BY <2>1, FanOutTwo
<1>6. ASSUME NEW l \in DOMAIN subs \intersect Listeners PROVE ListenerHolds(l)'
  <2> DEFINE D1 == due[l] \union {x \in {d} : Wants(l, x)}
             X1 == dropped[l] \union Refused(l, subs[l].ch, d)
             c1 == mid(l)
             w == written[l]
  <2>1. /\ due'[l] = due[l] \union {x \in {d, e} : Wants(l, x)}
        /\ dropped'[l] = dropped[l] \union (Refused(l, c1, e) \union Refused(l, subs[l].ch, d))
        /\ subs'[l].ch = Offered(l, c1, e)
    BY <1>2, FanOutTwo
  <2>2. /\ w \in Seq(Events) /\ subs[l].ch \in Seq(Events) /\ c1 \in Seq(Events)
        /\ due[l] \in SUBSET Events /\ dropped[l] \in SUBSET Events
    BY <1>2
  <2>3. Story(w \o subs[l].ch, due[l], dropped[l]) /\ \A x \in due[l] : x.n <= seq
    BY DEF ListenerHolds
  <2>4. (\A x \in due[l] : Precedes(x, d) /\ Precedes(x, e)) /\ Precedes(d, e)
    BY <2>2, <2>3 DEF Precedes, Events
  <2>5. Story(w \o c1, D1, X1)
    BY <2>2, <2>3, <2>4, StoryContinues
  <2>6. D1 \in SUBSET Events /\ X1 \in SUBSET Events /\ \A x \in D1 : Precedes(x, e)
    BY <2>2, <2>4 DEF Refused
  <2>7. due'[l] = D1 \union {x \in {e} : Wants(l, x)} /\ dropped'[l] = X1 \union Refused(l, c1, e)
    BY <2>1
  <2> HIDE DEF D1, X1, c1
  <2>8. Story(w \o Offered(l, c1, e), D1 \union {x \in {e} : Wants(l, x)}, X1 \union Refused(l, c1, e))
    BY <2>2, <2>5, <2>6, StoryContinues
  <2>9. Story(written[l] \o subs'[l].ch, due'[l], dropped'[l])
    BY <2>1, <2>7, <2>8
  <2>10. \A x \in due'[l] : x.n <= seq'
    BY <2>1, <2>2, <2>3 DEF Events
  <2>11. ListenerHolds(l)' = (Story(written'[l] \o subs'[l].ch, due'[l], dropped'[l]) /\ \A x \in due'[l] : x.n <= seq')
    BY DEF ListenerHolds, Story, Precedes, ToSet
  <2> QED BY <2>9, <2>10, <2>11
<1> QED BY <1>1, <1>2, <1>3, <1>4, <1>5, <1>6

\* Lemmas for the steps that leave a listener's events alone.
LEMMA ListenerKept ==
  ASSUME NEW l, ListenerHolds(l), seq' = seq, written'[l] \o subs'[l].ch = written[l] \o subs[l].ch,
         due'[l] = due[l], dropped'[l] = dropped[l]
  PROVE  ListenerHolds(l)'
<1>1. ListenerHolds(l)' = (Story(written'[l] \o subs'[l].ch, due'[l], dropped'[l]) /\ \A x \in due'[l] : x.n <= seq')
  BY DEF ListenerHolds, Story, Precedes, ToSet
<1> QED BY <1>1 DEF ListenerHolds

\* handleFrame keeps the invariant, whether a device spoke unasked or answered a request.
LEMMA ReceivedKeeps ==
  ASSUME FInv, NEW p \in All, Received(p), asked' \subseteq All
  PROVE  FInv'
<1> USE DEF FInv
<1>0. FTypeOK /\ QueryHolds /\ QueryHears
  OBVIOUS
<1>a. /\ seq \in Nat /\ seq' = seq + 1 /\ written' = written /\ query' = query
      /\ queries' = queries /\ tx' = tx
      /\ answered' = (answered \/ (query.phase = "waiting" /\ p = query.pgn))
  BY DEF Received, FTypeOK
<1> DEFINE d == DeviceEvent(seq + 1)
           e == FrameEvent(seq + 1, p)
<1>b. d \in Events /\ e \in Events /\ d.n = seq + 1 /\ e.n = seq + 1 /\ d.device /\ ~e.device /\ e.pgn = p
  BY <1>a, EventTypes DEF DeviceEvent, FrameEvent
<1>1. CASE p = Claim
  <2>1. FanOut(<<d, e>>)
    BY <1>1 DEF Received
  <2> HIDE DEF d, e
  <2>2. /\ DOMAIN subs' = DOMAIN subs /\ subs' \in [DOMAIN subs' -> Sub]
        /\ \A s \in DOMAIN subs : /\ subs'[s].filter = subs[s].filter
                                  /\ subs'[s].ch = Offered(s, Offered(s, subs[s].ch, d), e)
        /\ due' \in [Listeners -> SUBSET Events] /\ dropped' \in [Listeners -> SUBSET Events]
        /\ \A l \in DOMAIN subs' \intersect Listeners : ListenerHolds(l)'
    BY <1>a, <1>b, <2>1, TwoKeep
  <2>3. FTypeOK'
    BY <1>0, <1>a, <2>2 DEF FTypeOK
  <2>4. QueryHolds'
    BY <1>0, <1>a, <2>2 DEF QueryHolds
  <2>5. QueryHears'
    <3> SUFFICES ASSUME query.phase = "waiting", answered' PROVE subs'[Q].ch # <<>>
      BY <1>a DEF QueryHears
    <3>1. Q \in DOMAIN subs /\ query.pgn \in Pgns
      BY <1>0 DEF QueryHolds
    <3>2. answered
      BY <1>1, <1>a, <3>1, FanOutAssumption
    <3>3. subs[Q].ch # <<>> /\ subs[Q].ch \in Seq(Events)
      BY <1>0, <3>1, <3>2 DEF QueryHears, FTypeOK, Sub
    <3>4. Offered(Q, subs[Q].ch, d) # <<>> /\ Offered(Q, subs[Q].ch, d) \in Seq(Events)
      BY <1>b, <3>3, OfferedTypes
    <3> QED BY <1>b, <2>2, <3>1, <3>4, OfferedTypes
  <2> QED BY <2>2, <2>3, <2>4, <2>5
<1>2. CASE p # Claim
  <2>1. FanOut(<<e>>)
    BY <1>2 DEF Received
  <2> HIDE DEF d, e
  <2>2. /\ DOMAIN subs' = DOMAIN subs /\ subs' \in [DOMAIN subs' -> Sub]
        /\ \A s \in DOMAIN subs : subs'[s].filter = subs[s].filter /\ subs'[s].ch = Offered(s, subs[s].ch, e)
        /\ due' \in [Listeners -> SUBSET Events] /\ dropped' \in [Listeners -> SUBSET Events]
        /\ \A l \in DOMAIN subs' \intersect Listeners : ListenerHolds(l)'
    BY <1>a, <1>b, <2>1, OneKeeps
  <2>3. FTypeOK'
    BY <1>0, <1>a, <2>2 DEF FTypeOK
  <2>4. QueryHolds'
    BY <1>0, <1>a, <2>2 DEF QueryHolds
  <2>5. QueryHears'
    <3> SUFFICES ASSUME query.phase = "waiting", answered' PROVE subs'[Q].ch # <<>>
      BY <1>a DEF QueryHears
    <3>1. Q \in DOMAIN subs /\ query.pgn \in Pgns /\ subs[Q].filter = {query.pgn}
      BY <1>0 DEF QueryHolds
    <3>2. subs[Q].ch \in Seq(Events)
      BY <1>0, <3>1 DEF FTypeOK, Sub
    <3>3. CASE answered
      <4>1. subs[Q].ch # <<>>
        BY <1>0, <3>3 DEF QueryHears
      <4> QED BY <1>b, <2>2, <3>1, <3>2, <4>1, OfferedTypes
    <3>4. CASE p = query.pgn
      <4>1. Wants(Q, e)
        BY <1>b, <3>1, <3>4 DEF Wants
      <4>2. Offer(subs[Q].ch, e) # <<>>
        <5>1. Len(subs[Q].ch) \in Nat /\ (subs[Q].ch = <<>> => Len(subs[Q].ch) < ChanCap)
          BY <3>2, FanOutAssumption
        <5>2. Append(subs[Q].ch, e) # <<>>
          BY <1>b, <3>2
        <5> QED BY <5>1, <5>2 DEF Offer
      <4> QED BY <2>2, <3>1, <4>1, <4>2 DEF Offered
    <3> QED BY <1>a, <3>3, <3>4
  <2> QED BY <2>2, <2>3, <2>4, <2>5
<1> QED BY <1>1, <1>2

\* Writing out the channel's head leaves what was written and what waits, read as one, the same.
LEMMA HeadMoves ==
  ASSUME NEW w \in Seq(Events), NEW c \in Seq(Events), c # <<>>
  PROVE  Append(w, Head(c)) \o Tail(c) = w \o c
<1> DEFINE a == Append(w, Head(c))
           t == Tail(c)
           q == a \o t
           r == w \o c
<1>1. /\ Len(w) \in Nat /\ Len(c) \in Nat \ {0} /\ Head(c) = c[1] /\ Head(c) \in Events
      /\ t \in Seq(Events) /\ Len(t) = Len(c) - 1 /\ \A i \in 1..Len(t) : t[i] = c[i+1]
  OBVIOUS
<1>2. a \in Seq(Events) /\ Len(a) = Len(w) + 1 /\ a[Len(w) + 1] = c[1] /\ \A i \in 1..Len(w) : a[i] = w[i]
  BY <1>1
<1>3. q \in Seq(Events) /\ r \in Seq(Events) /\ Len(q) = Len(w) + Len(c) /\ Len(r) = Len(w) + Len(c)
  BY <1>1, <1>2
<1>4. ASSUME NEW i \in 1..(Len(w) + Len(c)) PROVE q[i] = r[i]
  <2>1. CASE i \in 1..Len(w)
    BY <2>1, <1>1, <1>2
  <2>2. CASE i = Len(w) + 1
    <3>1. q[i] = a[i] /\ r[i] = c[i - Len(w)]
      BY <2>2, <1>1, <1>2
    <3> QED BY <3>1, <2>2, <1>1, <1>2
  <2>3. CASE i > Len(w) + 1
    <3>1. q[i] = t[i - Len(a)] /\ r[i] = c[i - Len(w)] /\ i - Len(a) \in 1..Len(t) /\ i - Len(a) + 1 = i - Len(w)
      BY <2>3, <1>1, <1>2
    <3> QED BY <3>1, <1>1
  <2> QED BY <1>1, <2>1, <2>2, <2>3
<1> QED BY <1>3, <1>4

\* The handlers of /events and /ws keep the invariant.
LEMMA ListenerSteps ==
  ASSUME FInv, NEW l \in Listeners, Listen(l) \/ Leave(l) \/ WriteOut(l)
  PROVE  FInv'
<1> USE DEF FInv
<1>0. FTypeOK /\ QueryHolds /\ QueryHears /\ l # Q /\ l \in Subscribers
  BY FanOutAssumption DEF Subscribers
<1>a. UNCHANGED <<seq, query, queries, ready, tx, asked, answered>>
  BY DEF Listen, Leave, WriteOut
<1>b. (Q \in DOMAIN subs => Q \in DOMAIN subs' /\ subs'[Q] = subs[Q]) => QueryHolds' /\ QueryHears'
  <2> SUFFICES ASSUME Q \in DOMAIN subs => Q \in DOMAIN subs' /\ subs'[Q] = subs[Q] PROVE QueryHolds' /\ QueryHears'
    OBVIOUS
  <2>1. QueryHolds'
    BY <1>0, <1>a DEF QueryHolds
  <2>2. QueryHears'
    BY <1>0, <1>a DEF QueryHolds, QueryHears
  <2> QED BY <2>1, <2>2
<1>1. CASE Listen(l)
  <2>1. PICK f \in Filters : subs' = WithSub(l, f)
    BY <1>1 DEF Listen
  <2>2. f \subseteq All
    BY DEF Filters, All
  <2>3. DOMAIN subs' = DOMAIN subs \union {l} /\ subs'[l] = [filter |-> f, ch |-> <<>>]
        /\ \A x \in DOMAIN subs : x # l => subs'[x] = subs[x]
    BY <2>1 DEF WithSub
  <2>4. subs' \in [DOMAIN subs' -> Sub]
    <3>1. [filter |-> f, ch |-> <<>>] \in Sub
      BY <2>2 DEF Sub
    <3>2. ASSUME NEW x \in DOMAIN subs' PROVE subs'[x] \in Sub
      BY <1>0, <2>3, <3>1 DEF FTypeOK
    <3>3. subs' = [x \in DOMAIN subs' |-> subs'[x]]
      BY <2>1 DEF WithSub
    <3> QED BY <3>2, <3>3
  <2>5. /\ written' = [written EXCEPT ![l] = <<>>] /\ due' = [due EXCEPT ![l] = {}]
        /\ dropped' = [dropped EXCEPT ![l] = {}]
    BY <1>1 DEF Listen
  <2>6. FTypeOK'
    <3>1. written' \in [Listeners -> Seq(Events)]
      BY <1>0, <2>5 DEF FTypeOK
    <3>2. due' \in [Listeners -> SUBSET Events] /\ dropped' \in [Listeners -> SUBSET Events]
      BY <1>0, <2>5 DEF FTypeOK
    <3> QED BY <1>0, <1>a, <2>3, <2>4, <3>1, <3>2 DEF FTypeOK
  <2>7. ASSUME NEW m \in DOMAIN subs' \intersect Listeners PROVE ListenerHolds(m)'
    <3>1. CASE m = l
      <4>1. written'[m] = <<>> /\ due'[m] = {} /\ dropped'[m] = {} /\ subs'[m].ch = <<>>
        BY <1>0, <2>3, <2>5, <3>1 DEF FTypeOK
      <4>2. written'[m] \o subs'[m].ch = <<>>
        BY <4>1
      <4> QED BY <4>1, <4>2 DEF ListenerHolds, Story, ToSet
    <3>2. CASE m # l
      <4>1. m \in DOMAIN subs /\ subs'[m] = subs[m]
        BY <2>3, <3>2
      <4>2. written'[m] = written[m] /\ due'[m] = due[m] /\ dropped'[m] = dropped[m]
        BY <1>0, <2>5, <3>2 DEF FTypeOK
      <4> QED BY <1>a, <4>1, <4>2, ListenerKept
    <3> QED BY <3>1, <3>2
  <2> QED BY <1>0, <1>b, <2>3, <2>6, <2>7
<1>2. CASE Leave(l)
  <2>1. /\ DOMAIN subs' = DOMAIN subs \ {l} /\ subs' = [x \in DOMAIN subs' |-> subs'[x]]
        /\ \A x \in DOMAIN subs' : subs'[x] = subs[x]
    BY <1>2 DEF Leave, WithoutSub
  <2>2. UNCHANGED <<written, due, dropped>>
    BY <1>2 DEF Leave
  <2>3. subs' \in [DOMAIN subs' -> Sub]
    BY <1>0, <2>1 DEF FTypeOK
  <2>4. FTypeOK'
    BY <1>0, <1>a, <2>1, <2>2, <2>3 DEF FTypeOK
  <2>5. ASSUME NEW m \in DOMAIN subs' \intersect Listeners PROVE ListenerHolds(m)'
    BY <1>a, <2>1, <2>2, ListenerKept
  <2> QED BY <1>0, <1>b, <2>1, <2>4, <2>5
<1>3. CASE WriteOut(l)
  <2>1. /\ l \in DOMAIN subs /\ subs[l].ch # <<>>
        /\ written' = [written EXCEPT ![l] = Append(@, Head(subs[l].ch))]
        /\ subs' = [subs EXCEPT ![l].ch = Tail(@)] /\ UNCHANGED <<due, dropped>>
    BY <1>3 DEF WriteOut
  <2>2. subs[l] \in Sub /\ subs[l].ch \in Seq(Events) /\ written[l] \in Seq(Events)
    BY <1>0, <2>1 DEF FTypeOK, Sub
  <2>3. /\ DOMAIN subs' = DOMAIN subs /\ subs' = [x \in DOMAIN subs' |-> subs'[x]]
        /\ \A x \in DOMAIN subs : x # l => subs'[x] = subs[x]
        /\ subs'[l] = [subs[l] EXCEPT !.ch = Tail(subs[l].ch)]
    BY <1>0, <2>1 DEF FTypeOK
  <2>4. subs'[l] \in Sub /\ subs'[l].ch = Tail(subs[l].ch)
    <3>1. Tail(subs[l].ch) \in Seq(Events)
      BY <2>1, <2>2
    <3> QED BY <2>2, <2>3, <3>1 DEF Sub
  <2>5. subs' \in [DOMAIN subs' -> Sub]
    BY <1>0, <2>3, <2>4 DEF FTypeOK
  <2>6. written' \in [Listeners -> Seq(Events)] /\ written'[l] = Append(written[l], Head(subs[l].ch))
        /\ \A m \in Listeners : m # l => written'[m] = written[m]
    <3>1. Append(written[l], Head(subs[l].ch)) \in Seq(Events)
      BY <2>1, <2>2
    <3> QED BY <1>0, <2>1, <3>1 DEF FTypeOK
  <2>7. FTypeOK'
    BY <1>0, <1>a, <2>1, <2>3, <2>5, <2>6 DEF FTypeOK
  <2>8. ASSUME NEW m \in DOMAIN subs' \intersect Listeners PROVE ListenerHolds(m)'
    <3>1. written'[m] \o subs'[m].ch = written[m] \o subs[m].ch
      <4>1. CASE m = l
        <5>1. Append(written[l], Head(subs[l].ch)) \o Tail(subs[l].ch) = written[l] \o subs[l].ch
          BY <2>1, <2>2, HeadMoves
        <5> QED BY <4>1, <5>1, <2>4, <2>6
      <4>2. CASE m # l
        BY <4>2, <2>3, <2>6
      <4> QED BY <4>1, <4>2
    <3> QED BY <1>a, <2>1, <2>3, <3>1, ListenerKept
  <2> QED BY <1>0, <1>b, <2>3, <2>7, <2>8
<1> QED BY <1>1, <1>2, <1>3

\* POST /query keeps the invariant, at every one of its steps.
LEMMA QuerySteps ==
  ASSUME FInv, QueryStep
  PROVE  FInv'
<1> USE DEF FInv
<1>0. FTypeOK /\ QueryHolds /\ QueryHears
  OBVIOUS
<1>a. UNCHANGED <<seq, written, due, dropped, ready, asked>>
  BY DEF QueryStep, QuerySubscribe, QuerySend, QueryAnswer, QueryTimeout, QueryReturn
<1>b. Q \notin Listeners /\ Claim \in All /\ Q \in Subscribers /\ NoAnswer \in Events
  BY FanOutAssumption DEF All, Subscribers, NoAnswer, Events
<1>c. ASSUME \A m \in DOMAIN subs' \intersect Listeners : m \in DOMAIN subs /\ subs'[m] = subs[m]
      PROVE  \A m \in DOMAIN subs' \intersect Listeners : ListenerHolds(m)'
  BY <1>a, <1>c, ListenerKept
<1>d. ASSUME NEW phase, NEW answer \in Events, EndQuery(phase, answer), answered' = answered, tx' = tx
      PROVE  FInv'
  <2>1. /\ query' = [phase |-> IF phase = "answered" THEN phase ELSE "none", pgn |-> query.pgn, answer |-> answer]
        /\ subs' = WithoutSub(Q)
    BY <1>d DEF EndQuery, NoQuery
  <2>2. query' \in [phase : Phases, pgn : All, answer : Events] /\ query'.phase \notin {"subscribed", "waiting"}
    BY <1>0, <1>d, <2>1 DEF FTypeOK, Phases
  <2>3. /\ DOMAIN subs' = DOMAIN subs \ {Q} /\ subs' = [x \in DOMAIN subs' |-> subs'[x]]
        /\ \A x \in DOMAIN subs' : subs'[x] = subs[x]
    BY <2>1 DEF WithoutSub
  <2>4. subs' \in [DOMAIN subs' -> Sub]
    BY <1>0, <2>3 DEF FTypeOK
  <2>5. FTypeOK'
    BY <1>0, <1>a, <1>d, <2>2, <2>3, <2>4 DEF FTypeOK
  <2>6. QueryHolds' /\ QueryHears'
    BY <2>2 DEF QueryHolds, QueryHears
  <2> QED BY <1>c, <2>3, <2>5, <2>6
<1>1. CASE QuerySubscribe
  <2>1. PICK p \in Allowed : /\ query' = [phase |-> "subscribed", pgn |-> p, answer |-> NoAnswer]
                             /\ subs' = WithSub(Q, {p})
    BY <1>1 DEF QuerySubscribe
  <2>2. p \in Pgns /\ p \in All /\ answered' = FALSE /\ tx' = tx
    BY <1>1, FanOutAssumption DEF QuerySubscribe, All
  <2>3. DOMAIN subs' = DOMAIN subs \union {Q} /\ subs'[Q] = [filter |-> {p}, ch |-> <<>>]
        /\ subs' = [x \in DOMAIN subs' |-> subs'[x]]
        /\ \A x \in DOMAIN subs : x # Q => subs'[x] = subs[x]
    BY <2>1 DEF WithSub
  <2>4. subs' \in [DOMAIN subs' -> Sub]
    <3>1. [filter |-> {p}, ch |-> <<>>] \in Sub
      BY <2>2 DEF Sub
    <3>2. ASSUME NEW x \in DOMAIN subs' PROVE subs'[x] \in Sub
      BY <1>0, <2>3, <3>1 DEF FTypeOK
    <3> QED BY <2>3, <3>2
  <2>5. query' \in [phase : Phases, pgn : All, answer : Events]
    BY <1>b, <2>1, <2>2 DEF Phases
  <2>6. answered' \in BOOLEAN
    BY <2>2
  <2>7. FTypeOK'
    BY <1>0, <1>a, <1>b, <2>2, <2>3, <2>4, <2>5, <2>6 DEF FTypeOK
  <2>8. QueryHolds'
    <3>1. query'.pgn = p /\ subs'[Q].filter = {p} /\ Q \in DOMAIN subs'
      BY <2>1, <2>3
    <3> QED BY <2>2, <3>1 DEF QueryHolds
  <2>9. QueryHears'
    BY <2>2 DEF QueryHears
  <2> QED BY <1>b, <1>c, <2>3, <2>7, <2>8, <2>9
<1>2. CASE QuerySend
  <2>1. CASE EndQuery("none", NoAnswer) /\ tx' = tx
    BY <1>2, <1>b, <1>d, <2>1 DEF QuerySend
  <2>2. CASE /\ tx' = Append(tx, [ask |-> TRUE, pgn |-> query.pgn])
             /\ query' = [query EXCEPT !.phase = "waiting"] /\ UNCHANGED subs
    <3>1. query.phase = "subscribed" /\ answered' = answered
      BY <1>2 DEF QuerySend
    <3>2. query' \in [phase : Phases, pgn : All, answer : Events] /\ query'.pgn = query.pgn
      BY <1>0, <2>2 DEF FTypeOK, Phases
    <3>3. tx' \in Seq([ask : BOOLEAN, pgn : All])
      BY <1>0, <2>2 DEF FTypeOK
    <3>4. FTypeOK'
      BY <1>0, <1>a, <2>2, <3>1, <3>2, <3>3 DEF FTypeOK
    <3>5. QueryHolds'
      BY <1>0, <2>2, <3>1, <3>2 DEF QueryHolds
    <3>6. QueryHears'
      BY <1>0, <2>2, <3>1 DEF QueryHears, QueryHolds
    <3> QED BY <1>c, <2>2, <3>4, <3>5, <3>6
  <2> QED BY <1>2, <2>1, <2>2 DEF QuerySend
<1>3. CASE QueryAnswer
  <2>1. EndQuery("answered", Head(subs[Q].ch)) /\ answered' = answered /\ tx' = tx /\ subs[Q].ch # <<>>
        /\ query.phase = "waiting"
    BY <1>3 DEF QueryAnswer
  <2>2. Head(subs[Q].ch) \in Events
    <3>1. subs[Q].ch \in Seq(Events)
      BY <1>0, <2>1 DEF QueryHolds, FTypeOK, Sub
    <3> QED BY <2>1, <3>1
  <2> QED BY <1>d, <2>1, <2>2
<1>4. CASE QueryTimeout
  BY <1>4, <1>b, <1>d DEF QueryTimeout
<1>5. CASE QueryReturn
  <2>1. query' = NoQuery /\ UNCHANGED <<subs, tx, answered>>
    BY <1>5 DEF QueryReturn
  <2>2. query' \in [phase : Phases, pgn : All, answer : Events] /\ query'.phase = "none"
    BY <1>b, <2>1 DEF NoQuery, Phases
  <2>3. FTypeOK'
    BY <1>0, <1>a, <2>1, <2>2 DEF FTypeOK
  <2>4. QueryHolds' /\ QueryHears'
    BY <2>2 DEF QueryHolds, QueryHears
  <2> QED BY <1>c, <2>1, <2>3, <2>4
<1> QED BY <1>1, <1>2, <1>3, <1>4, <1>5 DEF QueryStep

\* Steps of the transmit path, and stuttering.
LEMMA OtherSteps ==
  ASSUME FInv, UNCHANGED <<seq, subs, written, due, dropped, query, answered>>,
         asked' \subseteq All, tx' \in Seq([ask : BOOLEAN, pgn : All])
  PROVE  FInv'
<1> USE DEF FInv
<1>1. FTypeOK'
  BY DEF FTypeOK
<1>2. QueryHolds' /\ QueryHears'
  BY DEF QueryHolds, QueryHears
<1>3. ASSUME NEW m \in DOMAIN subs' \intersect Listeners PROVE ListenerHolds(m)'
  BY ListenerKept
<1> QED BY <1>1, <1>2, <1>3

\* The broker starts in the invariant.
LEMMA FInitHolds == FInit => FInv
<1> SUFFICES ASSUME FInit PROVE FInv
  OBVIOUS
<1>1. DOMAIN subs = {} /\ subs \in [DOMAIN subs -> Sub]
  BY DEF FInit
<1>2. NoQuery \in [phase : Phases, pgn : All, answer : Events] /\ NoQuery.phase = "none"
  BY DEF NoQuery, NoAnswer, Phases, Events, All
<1>3. written \in [Listeners -> Seq(Events)]
  BY DEF FInit
<1>4. due \in [Listeners -> SUBSET Events] /\ dropped \in [Listeners -> SUBSET Events]
  BY DEF FInit
<1>5. answered \in BOOLEAN
  BY DEF FInit
<1>6. FTypeOK
  BY <1>1, <1>2, <1>3, <1>4, <1>5 DEF FInit, FTypeOK
<1>7. QueryHolds /\ QueryHears
  BY <1>2 DEF FInit, QueryHolds, QueryHears
<1> QED BY <1>1, <1>6, <1>7 DEF FInv

\* Every step keeps the invariant.
LEMMA FNextHolds == FInv /\ [FNext]_fvars => FInv'
<1> SUFFICES ASSUME FInv, [FNext]_fvars PROVE FInv'
  OBVIOUS
<1>0. FTypeOK
  BY DEF FInv
<1>1. CASE ListenerStep
  BY <1>1, ListenerSteps DEF ListenerStep
<1>2. CASE HandleFrame
  <2>1. PICK p \in All : Received(p) /\ asked' = asked
    BY <1>2 DEF HandleFrame
  <2> QED BY <1>0, <2>1, ReceivedKeeps DEF FTypeOK
<1>3. CASE Respond
  <2>1. PICK p \in asked : Received(p) /\ asked' = asked \ {p}
    BY <1>3 DEF Respond
  <2>2. p \in All /\ asked' \subseteq All
    BY <1>0, <2>1 DEF FTypeOK
  <2> QED BY <2>1, <2>2, ReceivedKeeps
<1>4. CASE DeviceRemoved
  <2> DEFINE e == DeviceEvent(seq + 1)
  <2>1. /\ FanOut(<<e>>) /\ seq' = seq + 1 /\ written' = written
        /\ UNCHANGED <<query, tx, asked, answered>>
    BY <1>4 DEF DeviceRemoved
  <2>2. e \in Events /\ e.n = seq + 1
    BY <1>0 DEF FTypeOK, DeviceEvent, Events, All
  <2> HIDE DEF e
  <2>3. /\ DOMAIN subs' = DOMAIN subs /\ subs' \in [DOMAIN subs' -> Sub]
        /\ \A s \in DOMAIN subs : subs'[s].filter = subs[s].filter /\ subs'[s].ch = Offered(s, subs[s].ch, e)
        /\ due' \in [Listeners -> SUBSET Events] /\ dropped' \in [Listeners -> SUBSET Events]
        /\ \A l \in DOMAIN subs' \intersect Listeners : ListenerHolds(l)'
    BY <2>1, <2>2, OneKeeps
  <2>4. FTypeOK'
    BY <1>0, <2>1, <2>3 DEF FTypeOK
  <2>5. QueryHolds'
    BY <2>1, <2>3 DEF QueryHolds, FInv
  <2>6. QueryHears'
    <3> SUFFICES ASSUME query.phase = "waiting", answered PROVE subs'[Q].ch # <<>>
      BY <2>1 DEF QueryHears
    <3>1. Q \in DOMAIN subs /\ subs[Q].ch # <<>>
      BY DEF FInv, QueryHolds, QueryHears
    <3>2. subs[Q].ch \in Seq(Events)
      BY <1>0, <3>1 DEF FTypeOK, Sub
    <3> QED BY <2>2, <2>3, <3>1, <3>2, OfferedTypes
  <2> QED BY <2>3, <2>4, <2>5, <2>6 DEF FInv
<1>5. CASE Send \/ WsSend
  <2>1. QueueSend
    BY <1>5 DEF Send, WsSend
  <2>2. PICK p \in Allowed : tx' = Append(tx, [ask |-> FALSE, pgn |-> p])
    BY <2>1 DEF QueueSend
  <2>3. tx' \in Seq([ask : BOOLEAN, pgn : All])
    <3>1. p \in All
      BY FanOutAssumption DEF All
    <3>2. [ask |-> FALSE, pgn |-> p] \in [ask : BOOLEAN, pgn : All]
      BY <3>1
    <3> QED BY <1>0, <2>2, <3>2 DEF FTypeOK
  <2> QED BY <1>0, <2>1, <2>3, OtherSteps DEF QueueSend, FTypeOK
<1>6. CASE QueryStep
  BY <1>6, QuerySteps
<1>7. CASE Transmit
  <2>1. tx' \in Seq([ask : BOOLEAN, pgn : All]) /\ Head(tx).pgn \in All
    <3>1. Head(tx) \in [ask : BOOLEAN, pgn : All] /\ Tail(tx) \in Seq([ask : BOOLEAN, pgn : All])
      <4>1. tx \in Seq([ask : BOOLEAN, pgn : All]) /\ tx # <<>>
        BY <1>0, <1>7 DEF Transmit, FTypeOK
      <4> QED BY <4>1, HeadTailProperties
    <3> QED BY <1>7, <3>1 DEF Transmit
  <2>2. asked' \subseteq All
    BY <1>0, <1>7, <2>1 DEF Transmit, FTypeOK
  <2> QED BY <1>7, <2>1, <2>2, OtherSteps DEF Transmit
<1>8. CASE ClaimChange
  BY <1>0, <1>8, OtherSteps DEF ClaimChange, FTypeOK
<1>9. CASE UNCHANGED fvars
  BY <1>0, <1>9, OtherSteps DEF fvars, FTypeOK
<1> QED BY <1>1, <1>2, <1>3, <1>4, <1>5, <1>6, <1>7, <1>8, <1>9 DEF FNext

\* The broker's subscribers, the query and the queues have their types, whatever the
\* clients and the bus do (broker.go fanOut, server.go).
THEOREM FanOutTypes == FSpec => []FTypeOK
<1>1. FInv => FTypeOK
  BY DEF FInv
<1> QED BY <1>1, FInitHolds, FNextHolds, PTL DEF FSpec

\* Every client of /events and /ws gets, once and in the order of the bus, exactly what
\* was fanned out to it since it joined without what its full channel dropped (broker.go
\* fanOut and fanOutDevice, server.go HandleEphemeralSSE).
THEOREM ListenersInOrder == FSpec => []ListenerInOrder
<1>1. FInv => ListenerInOrder
  BY DEF FInv, ListenerHolds, Story, ListenerInOrder
<1> QED BY <1>1, FInitHolds, FNextHolds, PTL DEF FSpec

\* POST /query subscribes before it asks: whenever its PGN is received after the request
\* was queued, the waiting query has an answer to return (server.go handleQuery).
THEOREM QueriesHear == FSpec => []QueryHears
<1>1. FInv => QueryHears
  BY DEF FInv
<1> QED BY <1>1, FInitHolds, FNextHolds, PTL DEF FSpec
-----------------------------------------------------------------------------
(* Change tracker: what Apply makes of MaskDiff *)

\* A packet is a sequence of bytes and not empty.
LEMMA PacketShape ==
  ASSUME NEW p \in Packets
  PROVE  /\ p \in Seq(Bytes) /\ Len(p) \in Nat \ {0} /\ DOMAIN p = 1..Len(p)
         /\ p # NoPacket /\ [data |-> p, idle |-> FALSE] # NoPair
<1>1. PICK n \in Lengths : p \in [1..n -> Bytes]
  BY DEF Packets
<1>2. n \in Nat \ {0}
  BY ChangeTrackerAssumption DEF ChangeTrackerAssumption
<1>3. p \in Seq(Bytes) /\ Len(p) = n
  BY <1>1, <1>2
<1>4. p # NoPacket
  BY <1>2, <1>3 DEF NoPacket
<1>5. [data |-> p, idle |-> FALSE] # NoPair
  BY <1>4 DEF NoPair
<1> QED BY <1>2, <1>3, <1>4, <1>5

\* The mask has a byte for every position, and one byte when the packet is short.
LEMMA MaskHolds ==
  ASSUME NEW n \in Nat \ {0}
  PROVE  /\ MaskLen(n) \in Nat \ {0}
         /\ n <= Bits => MaskLen(n) = 1
         /\ \A i \in 1..n : ((i - 1) \div Bits) + 1 \in 1..MaskLen(n)
<1>0. Bits \in Nat \ {0}
  BY ChangeTrackerAssumption DEF ChangeTrackerAssumption
<1>1. MaskLen(n) = ((n - 1) \div Bits) + 1
  BY <1>0 DEF MaskLen
<1>2. \A a, b \in Nat : a <= b => (a \div Bits) \in Nat /\ (a \div Bits) <= (b \div Bits)
  BY <1>0
<1>3. \A a \in Nat : a < Bits => (a \div Bits) = 0
  BY <1>0
<1> QED BY <1>0, <1>1, <1>2, <1>3

\* No two positions have the same rank, and no rank exceeds their number.
LEMMA RanksDiffer ==
  ASSUME NEW ps \in SUBSET Nat, IsFiniteSet(ps)
  PROVE  /\ Cardinality(ps) \in Nat
         /\ \A i \in ps : Rank(i, ps) \in 1..Cardinality(ps)
         /\ \A i, j \in ps : Rank(i, ps) = Rank(j, ps) => i = j
<1> DEFINE upTo(i) == {k \in ps : k <= i}
<1>1. \A i \in ps : IsFiniteSet(upTo(i)) /\ Cardinality(upTo(i)) \in Nat
                    /\ Cardinality(upTo(i)) <= Cardinality(ps)
  BY FS_Subset, FS_CardinalityType
<1>2. ASSUME NEW i \in ps PROVE Cardinality(upTo(i)) # 0
  <2>1. upTo(i) # {}
    OBVIOUS
  <2> QED BY <1>1, <2>1, FS_EmptySet
<1>3. ASSUME NEW i \in ps, NEW j \in ps, i < j PROVE Cardinality(upTo(i)) # Cardinality(upTo(j))
  <2>0. i \in Nat /\ j \in Nat /\ ps \subseteq Nat
    OBVIOUS
  <2>a. ASSUME NEW k \in upTo(i) PROVE k \in upTo(j)
    <3>1. k \in Nat /\ k <= i /\ k \in ps
      BY <2>0
    <3>2. k <= j
      BY <2>0, <3>1, <1>3
    <3> QED BY <3>1, <3>2
  <2>b. j \in upTo(j) /\ j \notin upTo(i)
    BY <2>0, <1>3
  <2>1. upTo(i) \subseteq upTo(j) /\ j \in upTo(j) /\ j \notin upTo(i)
    BY <2>a, <2>b
  <2>2. upTo(i) # upTo(j)
    BY <2>1
  <2> HIDE DEF upTo
  <2> QED BY <1>1, <2>1, <2>2, FS_Subset
<1>4. Cardinality(ps) \in Nat
  BY FS_CardinalityType
<1>5. ASSUME NEW i \in ps PROVE Cardinality(upTo(i)) \in 1..Cardinality(ps)
  BY <1>1, <1>2, <1>4
<1>6. ASSUME NEW i \in ps, NEW j \in ps, Cardinality(upTo(i)) = Cardinality(upTo(j)) PROVE i = j
  <2>1. ~(i < j) /\ ~(j < i)
    BY <1>3, <1>6
  <2> QED BY <2>1
<1> QED BY <1>4, <1>5, <1>6 DEF Rank

\* BytesAt has the byte of position i at the rank of i.
LEMMA BytesInOrder ==
  ASSUME NEW ps \in SUBSET Nat, IsFiniteSet(ps), NEW p
  PROVE  /\ \E S : BytesAt(p, ps) \in Seq(S)
         /\ Len(BytesAt(p, ps)) = Cardinality(ps)
         /\ \A i \in ps : BytesAt(p, ps)[Rank(i, ps)] = p[i]
<1> DEFINE at(k) == CHOOSE i \in ps : Rank(i, ps) = k
           S == {p[at(k)] : k \in 1..Cardinality(ps)}
<1>1. Cardinality(ps) \in Nat /\ (\A i \in ps : Rank(i, ps) \in 1..Cardinality(ps))
  BY RanksDiffer
<1>2. ASSUME NEW i \in ps PROVE at(Rank(i, ps)) = i
  <2>1. at(Rank(i, ps)) \in ps /\ Rank(at(Rank(i, ps)), ps) = Rank(i, ps)
    OBVIOUS
  <2> QED BY <2>1, RanksDiffer
<1>3. BytesAt(p, ps) = [k \in 1..Cardinality(ps) |-> p[at(k)]]
  BY DEF BytesAt
<1>4. \A k \in 1..Cardinality(ps) : p[at(k)] \in S
  OBVIOUS
<1> HIDE DEF at, S
<1>5. BytesAt(p, ps) \in Seq(S) /\ Len(BytesAt(p, ps)) = Cardinality(ps)
  BY <1>1, <1>3, <1>4
<1>6. ASSUME NEW i \in ps PROVE BytesAt(p, ps)[Rank(i, ps)] = p[i]
  BY <1>1, <1>2, <1>3
<1> QED BY <1>5, <1>6

\* How many bytes of a diff come before the mask.
From(n) == IF n <= Bits THEN 0 ELSE 1

\* Where MaskDiff puts what: the mask's length if the packet is long, the mask, the bytes.
LEMMA DiffLayout ==
  ASSUME NEW prev \in Packets, NEW curr \in Packets, Len(prev) = Len(curr),
         NEW d, d = MaskDiff(prev, curr), NEW n, n = Len(curr), NEW ps, ps = Changed(prev, curr)
  PROVE  /\ Len(d) >= From(n) + MaskLen(n)
         /\ n > Bits => d[1] = MaskLen(n)
         /\ \A b \in 1..MaskLen(n) : d[From(n) + b] = {i \in ps : (i - 1) \div Bits = b - 1}
         /\ \A i \in ps : d[From(n) + MaskLen(n) + Rank(i, ps)] = curr[i]
<1> DEFINE A == IF n <= Bits THEN <<>> ELSE <<MaskLen(n)>>
           B == Masks(n, ps)
           C == BytesAt(curr, ps)
<1>1. n \in Nat \ {0} /\ Bits \in Nat \ {0} /\ MaskLen(n) \in Nat \ {0}
  BY PacketShape, MaskHolds, ChangeTrackerAssumption DEF ChangeTrackerAssumption
<1>2. ps \in SUBSET (1..n) /\ ps \in SUBSET Nat /\ IsFiniteSet(ps)
  <2>1. ps \subseteq 1..n
    BY PacketShape DEF Changed
  <2>2. IsFiniteSet(1..n)
    BY <1>1, FS_Interval
  <2>3. IsFiniteSet(ps)
    BY <2>1, <2>2, FS_Subset
  <2> QED BY <1>1, <2>1, <2>3
<1>3. PICK T : C \in Seq(T)
  BY <1>2, BytesInOrder
<1>4. Cardinality(ps) \in Nat /\ Len(C) = Cardinality(ps)
  BY <1>2, BytesInOrder, RanksDiffer
<1>5. \A i \in ps : Rank(i, ps) \in 1..Len(C) /\ C[Rank(i, ps)] = curr[i]
  BY <1>2, <1>4, BytesInOrder, RanksDiffer
<1> DEFINE S == Nat \union (SUBSET Nat) \union T
<1>6. A \in Seq(S) /\ Len(A) = From(n) /\ (n > Bits => A[1] = MaskLen(n))
  <2>1. CASE n <= Bits
    BY <2>1, <1>1 DEF From
  <2>2. CASE n > Bits
    <3>1. A = <<MaskLen(n)>> /\ From(n) = 1
      BY <2>2, <1>1 DEF From
    <3>2. MaskLen(n) \in S
      BY <1>1
    <3> HIDE DEF A, S
    <3>3. A \in Seq(S) /\ Len(A) = 1 /\ A[1] = MaskLen(n)
      BY <3>1, <3>2
    <3> QED BY <3>1, <3>3
  <2>3. n <= Bits \/ n > Bits
    BY <1>1
  <2> QED BY <2>1, <2>2, <2>3, Zenon
<1>7. /\ B \in Seq(S) /\ Len(B) = MaskLen(n)
      /\ \A b \in 1..MaskLen(n) : B[b] = {i \in ps : (i - 1) \div Bits = b - 1}
  BY <1>1, <1>2 DEF Masks
<1>8. C \in Seq(S)
  <2>1. T \subseteq S
    OBVIOUS
  <2> HIDE DEF C, S
  <2>2. C \in [1..Len(C) -> S] /\ Len(C) \in Nat
    BY <1>3, <2>1
  <2> QED BY <2>2
<1>9. d = A \o B \o C
  BY DEF MaskDiff
<1> HIDE DEF A, B, C, S
<1>10. /\ A \o B \in Seq(S) /\ Len(A \o B) = From(n) + MaskLen(n)
       /\ \A k \in 1..Len(A) : (A \o B)[k] = A[k]
       /\ \A k \in 1..Len(B) : (A \o B)[From(n) + k] = B[k]
  <2>1. Len(B) = MaskLen(n) /\ Len(A) = From(n)
    BY <1>6, <1>7
  <2>2. /\ A \o B \in Seq(S) /\ Len(A \o B) = Len(A) + Len(B)
        /\ \A k \in 1..Len(A) : (A \o B)[k] = A[k]
        /\ \A k \in 1..Len(B) : (A \o B)[Len(A) + k] = B[k]
    <3>1. A \in Seq(S) /\ B \in Seq(S) /\ Len(A) \in Nat /\ Len(B) \in Nat
      BY <1>6, <1>7
    <3> QED BY <3>1, ConcatProperties
  <2> QED BY <2>1, <2>2
<1>11. /\ Len(d) = Len(A \o B) + Len(C)
       /\ \A k \in 1..Len(A \o B) : d[k] = (A \o B)[k]
       /\ \A k \in 1..Len(C) : d[Len(A \o B) + k] = C[k]
  BY <1>8, <1>9, <1>10
<1>12. From(n) \in Nat /\ (n > Bits => From(n) = 1)
  BY <1>1 DEF From
<1>13. Len(d) >= From(n) + MaskLen(n)
  BY <1>1, <1>4, <1>10, <1>11, <1>12
<1>14. n > Bits => d[1] = MaskLen(n)
  <2>1. SUFFICES ASSUME n > Bits PROVE d[1] = MaskLen(n)
    OBVIOUS
  <2>2. 1 \in 1..Len(A) /\ 1 \in 1..Len(A \o B)
    BY <1>1, <1>6, <1>10, <1>12, <2>1
  <2>3. d[1] = A[1]
    BY <2>2, <1>10, <1>11
  <2> QED BY <1>6, <2>1, <2>3
<1>15. ASSUME NEW b \in 1..MaskLen(n) PROVE d[From(n) + b] = B[b]
  <2>1. From(n) + b \in 1..Len(A \o B)
    BY <1>1, <1>10, <1>12
  <2> QED BY <2>1, <1>7, <1>10, <1>11
<1>16. \A i \in ps : d[From(n) + MaskLen(n) + Rank(i, ps)] = curr[i]
  BY <1>5, <1>10, <1>11
<1> QED BY <1>7, <1>13, <1>14, <1>15, <1>16

\* Apply puts together the packet that MaskDiff took apart.
LEMMA ApplyRestores ==
  ASSUME NEW prev \in Packets, NEW curr \in Packets, Len(prev) = Len(curr)
  PROVE  Apply(prev, MaskDiff(prev, curr)) = curr
<1> DEFINE n == Len(prev)
           len(d) == IF n <= Bits THEN 1 ELSE d[1]
           marked(d) == {i \in 1..n : i \in d[From(n) + ((i - 1) \div Bits) + 1]}
<1>1. PICK d : d = MaskDiff(prev, curr)
  OBVIOUS
<1>2. PICK ps : ps = Changed(prev, curr)
  OBVIOUS
<1>3. n \in Nat \ {0} /\ Bits \in Nat \ {0} /\ DOMAIN curr = 1..n
  BY PacketShape, ChangeTrackerAssumption DEF ChangeTrackerAssumption
<1>4. /\ n > Bits => d[1] = MaskLen(n)
      /\ \A b \in 1..MaskLen(n) : d[From(n) + b] = {i \in ps : (i - 1) \div Bits = b - 1}
      /\ \A i \in ps : d[From(n) + MaskLen(n) + Rank(i, ps)] = curr[i]
  BY <1>1, <1>2, DiffLayout
<1>5. len(d) = MaskLen(n)
  BY <1>3, <1>4, MaskHolds
<1>6. ps \subseteq 1..n /\ (\A i \in 1..n : i \notin ps => prev[i] = curr[i])
  BY <1>2, <1>3 DEF Changed
<1>7. ASSUME NEW i \in 1..n PROVE i \in d[From(n) + ((i - 1) \div Bits) + 1] <=> i \in ps
  <2>1. PICK b : b = ((i - 1) \div Bits) + 1
    OBVIOUS
  <2>2. b \in 1..MaskLen(n) /\ From(n) \in Nat
    BY <2>1, <1>3, MaskHolds DEF From
  <2>3. (i - 1) \div Bits = b - 1
    BY <2>1, <1>3
  <2>4. From(n) + ((i - 1) \div Bits) + 1 = From(n) + b
    BY <2>2, <2>3, <1>3
  <2> QED BY <1>4, <2>2, <2>3, <2>4
<1>8. marked(d) = ps
  BY <1>6, <1>7
<1>9. Apply(prev, d) = [i \in 1..n |-> IF i \in marked(d) THEN d[From(n) + len(d) + Rank(i, marked(d))] ELSE prev[i]]
  BY DEF Apply, From
<1> HIDE DEF marked, len
<1>10. Apply(prev, d) = [i \in 1..n |-> curr[i]]
  BY <1>4, <1>5, <1>6, <1>8, <1>9
<1>11. curr = [i \in 1..n |-> curr[i]]
  <2>1. curr \in Seq(Bytes)
    BY PacketShape
  <2> QED BY <2>1, <1>3
<1> QED BY <1>1, <1>10, <1>11

\* A diff is long enough for the replayer that has the packet it was taken from.
LEMMA DiffFits ==
  ASSUME state \in Packets, NEW y \in Packets, Len(state) = Len(y)
  PROVE  Fits(MaskDiff(state, y))
<1>1. PICK n : n = Len(y)
  OBVIOUS
<1>2. PICK d : d = MaskDiff(state, y)
  OBVIOUS
<1>3. PICK ps : ps = Changed(state, y)
  OBVIOUS
<1>4. n \in Nat \ {0} /\ Bits \in Nat \ {0}
  BY <1>1, PacketShape, ChangeTrackerAssumption DEF ChangeTrackerAssumption
<1>5. Len(d) >= From(n) + MaskLen(n)
  BY <1>1, <1>2, <1>3, DiffLayout
<1>6. Len(d) >= (IF n <= Bits THEN 1 ELSE 1 + MaskLen(n))
  BY <1>4, <1>5, MaskHolds DEF From
<1> QED BY <1>1, <1>2, <1>6 DEF Fits
-----------------------------------------------------------------------------
(* Change tracker: the replayer follows *)

\* The event e leads a replayer from the packet x to the packet y.
Leads(x, e, y) ==
  \/ e.type = "snapshot" /\ e.data = y /\ y \in Packets
  \/ e.type = "delta" /\ x \in Packets /\ y \in Packets /\ Len(x) = Len(y) /\ e.data = MaskDiff(x, y)
  \/ e.type = "idle" /\ y = x

\* What a replayer can hold.
Known == Packets \union {NoPacket}

\* w is what the replayer will hold, from now until it has heard every event.
Course(w, s, q, p) ==
  /\ w \in Seq(Known) /\ Len(w) = Len(q) + 1 /\ w[1] = s
  /\ \A i \in 1..Len(q) : Leads(w[i], q[i], w[i + 1])
  /\ p # NoPair => w[Len(w)] = p.data

\* What the tracker emits.
ChangeEvents == [type : {"snapshot", "delta", "idle"},
                 data : Known \union {MaskDiff(x, y) : x, y \in Packets}]

\* The baseline is a packet of which the last one is no significant change.
Settled(p, l) ==
  p # NoPair =>
    /\ p \in [data : Packets, idle : BOOLEAN] /\ l \in Packets /\ Len(l) = Len(p.data)
    /\ ~Significant(p.data, l)

\* Inductive: the replayer is on a course that ends at the tracker's baseline.
ChangesInv ==
  /\ ~broken
  /\ Settled(pair, last)
  /\ events \in Seq(ChangeEvents)
  /\ \E w : Course(w, state, events, pair)

\* One more event leads one packet further.
LEMMA CourseGoesOn ==
  ASSUME NEW w, NEW s, NEW q \in Seq(ChangeEvents), NEW p, Course(w, s, q, p),
         NEW e \in ChangeEvents, NEW y \in Known, NEW p2,
         Leads(w[Len(w)], e, y), p2 # NoPair => y = p2.data
  PROVE  Course(Append(w, y), s, Append(q, e), p2)
<1> DEFINE v == Append(w, y)
           r == Append(q, e)
<1>1. w \in Seq(Known) /\ Len(w) = Len(q) + 1 /\ Len(q) \in Nat /\ w[1] = s
  BY DEF Course
<1>2. /\ v \in Seq(Known) /\ Len(v) = Len(w) + 1 /\ v[Len(w) + 1] = y
      /\ \A i \in 1..Len(w) : v[i] = w[i]
  BY <1>1
<1>3. Len(r) = Len(q) + 1 /\ r[Len(q) + 1] = e /\ (\A i \in 1..Len(q) : r[i] = q[i])
  OBVIOUS
<1> HIDE DEF v, r
<1>4. ASSUME NEW i \in 1..Len(r) PROVE Leads(v[i], r[i], v[i + 1])
  <2>1. CASE i \in 1..Len(q)
    <3>1. i \in 1..Len(w) /\ i + 1 \in 1..Len(w)
      BY <2>1, <1>1
    <3>2. Leads(w[i], q[i], w[i + 1])
      BY <2>1 DEF Course
    <3> QED BY <2>1, <3>1, <3>2, <1>2, <1>3
  <2>2. CASE i = Len(q) + 1
    <3>1. i = Len(w) /\ i \in 1..Len(w)
      BY <2>2, <1>1
    <3>2. v[i] = w[Len(w)] /\ v[i + 1] = y /\ r[i] = e
      BY <2>2, <3>1, <1>2, <1>3
    <3> QED BY <3>2
  <2>3. i \in 1..Len(q) \/ i = Len(q) + 1
    BY <1>1, <1>3
  <2> QED BY <2>1, <2>2, <2>3
<1>5. v[1] = s
  <2>1. 1 \in 1..Len(w)
    BY <1>1
  <2> QED BY <2>1, <1>1, <1>2
<1>6. v[Len(v)] = y /\ Len(v) = Len(r) + 1
  BY <1>1, <1>2, <1>3
<1> QED BY <1>2, <1>4, <1>5, <1>6 DEF Course, v, r

\* Hearing an event leaves the rest of the course.
LEMMA CourseIsHeard ==
  ASSUME NEW w, NEW s, NEW q \in Seq(ChangeEvents), NEW p, Course(w, s, q, p), q # <<>>
  PROVE  Leads(s, Head(q), w[2]) /\ Course(Tail(w), w[2], Tail(q), p)
<1> DEFINE v == Tail(w)
           r == Tail(q)
<1>1. w \in Seq(Known) /\ Len(w) = Len(q) + 1 /\ Len(q) \in Nat \ {0} /\ w[1] = s
  BY DEF Course
<1>2. /\ v \in Seq(Known) /\ Len(v) = Len(w) - 1
      /\ \A i \in 1..(Len(w) - 1) : v[i] = w[i + 1]
  BY <1>1
<1>3. Len(r) = Len(q) - 1 /\ (\A i \in 1..(Len(q) - 1) : r[i] = q[i + 1]) /\ Head(q) = q[1]
  BY <1>1
<1>4. Leads(s, Head(q), w[2])
  <2>1. 1 \in 1..Len(q)
    BY <1>1
  <2>2. Leads(w[1], q[1], w[1 + 1])
    BY <2>1 DEF Course
  <2> QED BY <2>2, <1>1, <1>3
<1> HIDE DEF v, r
<1>5. ASSUME NEW i \in 1..Len(r) PROVE Leads(v[i], r[i], v[i + 1])
  <2>1. i + 1 \in 1..Len(q) /\ i \in 1..(Len(w) - 1) /\ i + 1 \in 1..(Len(w) - 1) /\ i \in 1..(Len(q) - 1)
    BY <1>1, <1>3
  <2>2. Leads(w[i + 1], q[i + 1], w[i + 1 + 1])
    BY <2>1 DEF Course
  <2> QED BY <2>1, <2>2, <1>2, <1>3
<1>6. v[1] = w[2] /\ v[Len(v)] = w[Len(w)] /\ Len(v) = Len(r) + 1
  BY <1>1, <1>2, <1>3
<1>7. p # NoPair => v[Len(v)] = p.data
  BY <1>6 DEF Course
<1> QED BY <1>2, <1>4, <1>5, <1>6, <1>7 DEF Course, v, r

\* A packet is no change of itself.
LEMMA NoChangeOfItself ==
  ASSUME NEW p \in Packets
  PROVE  ~Significant(p, p)
BY DEF Significant, Changed

\* Process keeps the invariant: a snapshot or a delta leads to the new baseline, and
\* without an event the baseline stays.
LEMMA ProcessKeepsCourse ==
  ASSUME ChangesInv, NEW p \in Packets, ProcessFrame(p)
  PROVE  ChangesInv'
<1>1. PICK w : Course(w, state, events, pair)
  BY DEF ChangesInv
<1>2. events \in Seq(ChangeEvents) /\ p \in Known
  BY DEF ChangesInv, Known
<1>3. state' = state /\ broken' = broken /\ method' = method /\ last' = p /\ ~broken
  BY DEF ProcessFrame, ChangesInv
<1>4. pair' = [data |-> IF Snapshot(p) THEN p ELSE Baseline(p), idle |-> FALSE]
  BY DEF ProcessFrame
<1>5. CASE Snapshot(p)
  <2>1. pair'.data = p /\ pair' \in [data : Packets, idle : BOOLEAN]
    BY <1>4, <1>5
  <2>2. PICK e : e = Event("snapshot", p)
    OBVIOUS
  <2>3. e.type = "snapshot" /\ e.data = p /\ e \in ChangeEvents
    BY <2>2, <1>2 DEF Event, ChangeEvents
  <2>4. events' = Append(events, e)
    BY <1>5, <2>2 DEF ProcessFrame
  <2>5. Leads(w[Len(w)], e, p)
    BY <2>3 DEF Leads
  <2>6. Course(Append(w, p), state, Append(events, e), pair')
    BY <1>1, <1>2, <2>1, <2>3, <2>5, CourseGoesOn
  <2>7. Settled(pair, last)'
    <3>1. ~Significant(p, p)'
      BY <1>3, NoChangeOfItself DEF Significant
    <3> QED BY <1>3, <2>1, <3>1 DEF Settled
  <2>8. events' \in Seq(ChangeEvents)
    BY <1>2, <2>3, <2>4
  <2> QED BY <1>3, <2>4, <2>6, <2>7, <2>8 DEF ChangesInv
<1>6. CASE ~Snapshot(p)
  <2>1. pair # NoPair /\ Len(pair.data) = Len(p) /\ pair.data \in Packets
    BY <1>6 DEF Snapshot, ChangesInv, Settled
  <2>2. CASE Significant(pair.data, p)
    <3>1. pair'.data = p /\ pair' \in [data : Packets, idle : BOOLEAN]
      BY <1>4, <1>6, <2>2 DEF Baseline
    <3>2. PICK e : e = Event("delta", MaskDiff(pair.data, p))
      OBVIOUS
    <3>3. e.type = "delta" /\ e.data = MaskDiff(pair.data, p) /\ e \in ChangeEvents
      BY <3>2, <2>1 DEF Event, ChangeEvents
    <3>4. events' = Append(events, e)
      BY <1>6, <2>2, <3>2 DEF ProcessFrame
    <3>5. Leads(w[Len(w)], e, p)
      BY <1>1, <2>1, <3>3 DEF Leads, Course
    <3>6. Course(Append(w, p), state, Append(events, e), pair')
      BY <1>1, <1>2, <3>1, <3>3, <3>5, CourseGoesOn
    <3>7. Settled(pair, last)'
      <4>1. ~Significant(p, p)'
        BY <1>3, NoChangeOfItself DEF Significant
      <4> QED BY <1>3, <3>1, <4>1 DEF Settled
    <3>8. events' \in Seq(ChangeEvents)
      BY <1>2, <3>3, <3>4
    <3> QED BY <1>3, <3>4, <3>6, <3>7, <3>8 DEF ChangesInv
  <2>3. CASE ~Significant(pair.data, p)
    <3>1. pair'.data = pair.data /\ pair' \in [data : Packets, idle : BOOLEAN]
      BY <1>4, <1>6, <2>1, <2>3 DEF Baseline
    <3>2. events' = events
      BY <1>6, <2>3 DEF ProcessFrame
    <3>3. Course(w, state, events, pair')
      BY <1>1, <2>1, <3>1 DEF Course
    <3>4. Settled(pair, last)'
      <4>1. ~Significant(pair.data, p)'
        BY <1>3, <2>3, <3>1 DEF Significant
      <4> QED BY <1>3, <2>1, <3>1, <4>1 DEF Settled
    <3> QED BY <1>2, <1>3, <3>2, <3>3, <3>4 DEF ChangesInv
  <2> QED BY <2>2, <2>3
<1> QED BY <1>5, <1>6

\* Tick keeps the invariant: an idle event leads from the baseline to the baseline.
LEMMA IdleTickKeepsCourse ==
  ASSUME ChangesInv, IdleTick
  PROVE  ChangesInv'
<1>1. PICK w : Course(w, state, events, pair)
  BY DEF ChangesInv
<1>2. /\ state' = state /\ broken' = broken /\ method' = method /\ last' = last /\ ~broken
      /\ pair # NoPair /\ events \in Seq(ChangeEvents) /\ Settled(pair, last)
  BY DEF IdleTick, ChangesInv
<1>3. pair'.data = pair.data /\ pair' \in [data : Packets, idle : BOOLEAN]
  <2>1. pair' = pair \/ pair' = [pair EXCEPT !.idle = TRUE]
    BY DEF IdleTick
  <2>2. pair \in [data : Packets, idle : BOOLEAN]
    BY <1>2 DEF Settled
  <2> QED BY <2>1, <2>2
<1>4. Settled(pair, last)'
  <2>1. Significant(pair.data, last)' <=> Significant(pair.data, last)
    BY <1>2, <1>3 DEF Significant
  <2> QED BY <1>2, <1>3, <2>1 DEF Settled
<1>5. CASE events' = events
  <2>1. Course(w, state, events, pair')
    BY <1>1, <1>2, <1>3 DEF Course
  <2> QED BY <1>2, <1>4, <1>5, <2>1 DEF ChangesInv
<1>6. CASE events' = Append(events, Event("idle", NoPacket))
  <2>1. PICK e : e = Event("idle", NoPacket)
    OBVIOUS
  <2>2. e.type = "idle" /\ e \in ChangeEvents
    BY <2>1 DEF Event, ChangeEvents, Known
  <2>3. PICK y : y = w[Len(w)]
    OBVIOUS
  <2>4. y \in Known /\ y = pair'.data
    <3>1. w \in Seq(Known) /\ Len(w) \in 1..Len(w)
      BY <1>1, <1>2 DEF Course
    <3> QED BY <1>1, <1>2, <1>3, <2>3, <3>1 DEF Course
  <2>5. Leads(w[Len(w)], e, y)
    BY <2>2, <2>3 DEF Leads
  <2>6. Course(Append(w, y), state, Append(events, e), pair')
    BY <1>1, <1>2, <2>2, <2>4, <2>5, CourseGoesOn
  <2>7. Append(events, e) \in Seq(ChangeEvents)
    BY <1>2, <2>2
  <2> QED BY <1>2, <1>4, <1>6, <2>1, <2>6, <2>7 DEF ChangesInv
<1> QED BY <1>5, <1>6 DEF IdleTick

\* Remove: nothing is tracked, and what is on its way still arrives.
LEMMA RemoveKeepsCourse ==
  ASSUME ChangesInv, RemovePair
  PROVE  ChangesInv'
<1>1. PICK w : Course(w, state, events, pair)
  BY DEF ChangesInv
<1>2. /\ state' = state /\ broken' = broken /\ events' = events /\ pair' = NoPair
      /\ ~broken /\ events \in Seq(ChangeEvents)
  BY DEF RemovePair, ChangesInv
<1>3. Course(w, state, events, pair')
  BY <1>1, <1>2 DEF Course
<1>4. Settled(pair, last)'
  BY <1>2 DEF Settled
<1> QED BY <1>2, <1>3, <1>4 DEF ChangesInv

\* The replayer goes along the course: a delta finds the packet it was taken from.
LEMMA ReplayKeepsCourse ==
  ASSUME ChangesInv, ReplayerApply
  PROVE  ChangesInv'
<1>1. PICK w : Course(w, state, events, pair)
  BY DEF ChangesInv
<1>2. /\ pair' = pair /\ last' = last /\ method' = method /\ events' = Tail(events) /\ events # <<>>
      /\ ~broken /\ events \in Seq(ChangeEvents) /\ Settled(pair, last)
  BY DEF ReplayerApply, ChangesInv
<1>3. PICK e : e = Head(events)
  OBVIOUS
<1>4. Leads(state, e, w[2]) /\ Course(Tail(w), w[2], Tail(events), pair)
  BY <1>1, <1>2, <1>3, CourseIsHeard
<1>5. state' = w[2] /\ broken' = broken
  <2>1. CASE e.type = "snapshot"
    BY <1>3, <1>4, <2>1 DEF Leads, ReplayerApply
  <2>2. CASE e.type = "idle"
    BY <1>3, <1>4, <2>2 DEF Leads, ReplayerApply
  <2>3. CASE e.type = "delta"
    <3>1. state \in Packets /\ w[2] \in Packets /\ Len(state) = Len(w[2]) /\ e.data = MaskDiff(state, w[2])
      BY <1>4, <2>3 DEF Leads
    <3>2. state # NoPacket /\ Apply(state, e.data) = w[2]
      BY <3>1, PacketShape, ApplyRestores
    <3>3. Fits(e.data)
      BY <3>1, DiffFits
    <3> QED BY <1>3, <2>3, <3>2, <3>3 DEF ReplayerApply
  <2> QED BY <1>4, <2>1, <2>2, <2>3 DEF Leads
<1>6. Tail(events) \in Seq(ChangeEvents)
  BY <1>2
<1>7. Settled(pair, last)'
  BY <1>2 DEF Settled, Significant
<1> QED BY <1>2, <1>4, <1>5, <1>6, <1>7 DEF ChangesInv

\* Packets can be put together from the events, for any bytes, lengths and mask
\* width: the replayer that has heard every event of the tracker has its baseline,
\* and the last packet is no significant change of it (Process, Tick, Remove,
\* ChangeReplayer.Apply).
THEOREM ReplayerFollows == CSpec => []ReplayFollows
<1>1. CInit => ChangesInv
  <2> SUFFICES ASSUME CInit PROVE ChangesInv
    OBVIOUS
  <2>1. ~broken /\ pair = NoPair /\ events = <<>> /\ state = NoPacket
    BY DEF CInit
  <2>2. PICK w : w = <<NoPacket>>
    OBVIOUS
  <2>3. w \in Seq(Known) /\ Len(w) = 1 /\ w[1] = NoPacket
    BY <2>2 DEF Known
  <2>4. Course(w, state, events, pair)
    BY <2>1, <2>3 DEF Course
  <2>5. events \in Seq(ChangeEvents)
    BY <2>1
  <2> QED BY <2>1, <2>4, <2>5 DEF ChangesInv, Settled
<1>2. ChangesInv /\ [CNext]_cvars => ChangesInv'
  <2> SUFFICES ASSUME ChangesInv, [CNext]_cvars PROVE ChangesInv'
    OBVIOUS
  <2>1. ASSUME NEW p \in Packets, ProcessFrame(p) PROVE ChangesInv'
    BY <2>1, ProcessKeepsCourse
  <2>2. CASE IdleTick
    BY <2>2, IdleTickKeepsCourse
  <2>3. CASE RemovePair
    BY <2>3, RemoveKeepsCourse
  <2>4. CASE ReplayerApply
    BY <2>4, ReplayKeepsCourse
  <2>5. CASE UNCHANGED cvars
    BY <2>5 DEF cvars, ChangesInv, Settled, Significant
  <2> QED BY <2>1, <2>2, <2>3, <2>4, <2>5 DEF CNext
<1>3. ChangesInv => ReplayFollows
  <2> SUFFICES ASSUME ChangesInv, events = <<>>, pair # NoPair
               PROVE  state = pair.data /\ Len(last) = Len(state) /\ ~Significant(state, last)
    BY DEF ChangesInv, ReplayFollows
  <2>1. PICK w : Course(w, state, events, pair)
    BY DEF ChangesInv
  <2>2. w[1] = state /\ w[1] = pair.data
    BY <2>1 DEF Course
  <2> QED BY <2>2 DEF ChangesInv, Settled
<1> QED BY <1>1, <1>2, <1>3, PTL DEF CSpec
=============================================================================
