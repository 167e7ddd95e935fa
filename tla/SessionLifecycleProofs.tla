----------------------- MODULE SessionLifecycleProofs -----------------------
(***************************************************************************)
(* A Connection is freed only when the matching thread has nothing of it,  *)
(* for any number of sessions, any capacity of the queues and any traffic. *)
(*                                                                         *)
(* The argument follows the tombstone.  CancelAll is the last command of a *)
(* session, so that once it has been applied nothing of the session is in  *)
(* inbound or in the maps; Retired, which it makes, is the last event, so  *)
(* that the network thread, which frees the Connection only after popping  *)
(* it, leaves nothing behind.                                              *)
(***************************************************************************)
EXTENDS SessionLifecycle, TLAPS

CancelAll(s) == [type |-> "CancelAll", s |-> s]
Retired(s) == [type |-> "Retired", s |-> s]
Opened(s) == [type |-> "SessionOpened", s |-> s]

(* Nothing of the session of x comes after x. *)
IsLast(q, x) == \A i, j \in 1 .. Len(q) : i < j /\ q[i] = x => q[j].s # x.s

(* The network thread has seen the tombstone. *)
Buried(s) ==
  conn[s].state = "retired" \/ (conn[s].state = "freed" /\ "cancel refused" \notin conn[s].past)

(* The tombstone has been made. *)
Over(s) == Has(thread.pending, Retired(s)) \/ Has(egress[s], Retired(s)) \/ Buried(s)

Leaving(s) == conn[s].state \notin {"none", "open"}

(* The matching thread has heard, or will hear, of a session it has not been
   told to retire. *)
Announced(s) ==
  conn[s].state \in {"open", "retiring"} /\ "never registered" \notin conn[s].past =>
    \/ s \in thread.registered \/ Has(inbound, Opened(s))
    \/ conn[s].state = "retiring" /\ (Over(s) \/ s \in thread.lost)

Mail(s) == {e \in Notice : e.s = s}

SessionInv(s) ==
  /\ egress[s] \in Seq(Mail(s))
  /\ IsLast(inbound, CancelAll(s)) /\ IsLast(thread.pending, Retired(s))
  /\ Has(inbound, CancelAll(s)) => Leaving(s)
  /\ Over(s) => /\ Leaving(s) /\ s \notin thread.registered
                /\ NothingOf(inbound, s) /\ \A o \in thread.live : o.s # s
  /\ Has(egress[s], Retired(s)) \/ Buried(s) => NothingOf(thread.pending, s)
  /\ net = s => conn[s].state # "none"

IInv == TypeOK /\ \A s \in Session : SessionInv(s)
TInv == IInv /\ TombstoneArrives /\ \A s \in Session : Announced(s)
-----------------------------------------------------------------------------
(* Sequences: what pushing and popping does to Has, NothingOf and IsLast. *)

(* The first element and the rest. *)
LEMMA HeadTail ==
  ASSUME NEW S, NEW q \in Seq(S), q # <<>>
  PROVE  /\ Head(q) \in S /\ Head(q) = q[1] /\ Tail(q) \in Seq(S)
         /\ Len(q) \in Nat /\ Len(q) > 0 /\ Len(Tail(q)) = Len(q) - 1
         /\ \A k \in 1 .. Len(Tail(q)) : Tail(q)[k] = q[k + 1]
  OBVIOUS

(* One more element at the end. *)
LEMMA Appended ==
  ASSUME NEW S, NEW q \in Seq(S), NEW x \in S
  PROVE  /\ Append(q, x) \in Seq(S) /\ Len(q) \in Nat
         /\ Len(Append(q, x)) = Len(q) + 1
         /\ Append(q, x)[Len(q) + 1] = x
         /\ \A k \in 1 .. Len(q) : Append(q, x)[k] = q[k]
  OBVIOUS

(* A push adds its element and nothing else, and keeps y last unless it comes
   behind it and is of the same session. *)
LEMMA PushFacts ==
  ASSUME NEW S, NEW q \in Seq(S), NEW x \in S
  PROVE  /\ Append(q, x) \in Seq(S) /\ Has(Append(q, x), x)
         /\ \A y : Has(Append(q, x), y) <=> Has(q, y) \/ y = x
         /\ \A s : NothingOf(Append(q, x), s) <=> NothingOf(q, s) /\ x.s # s
         /\ \A y : IsLast(q, y) /\ (Has(q, y) => x.s # y.s) => IsLast(Append(q, x), y)
<1> DEFINE r == Append(q, x)
<1>1. /\ r \in Seq(S) /\ Len(q) \in Nat /\ Len(r) = Len(q) + 1 /\ r[Len(q) + 1] = x
      /\ \A k \in 1 .. Len(q) : r[k] = q[k]
  BY Appended
<1> HIDE DEF r
<1>2. \A k \in 1 .. Len(r) : k \in 1 .. Len(q) \/ k = Len(q) + 1
  BY <1>1
<1>3. Has(r, x)
  BY <1>1 DEF Has
<1>4. \A y : Has(r, y) <=> Has(q, y) \/ y = x
  BY <1>1, <1>2 DEF Has
<1>5. \A s : NothingOf(r, s) <=> NothingOf(q, s) /\ x.s # s
  BY <1>1, <1>2 DEF NothingOf
<1>6. ASSUME NEW y, IsLast(q, y), Has(q, y) => x.s # y.s,
             NEW i \in 1 .. Len(r), NEW j \in 1 .. Len(r),
             i < j, r[i] = y
      PROVE  r[j].s # y.s
  <2>1. i \in 1 .. Len(q) /\ q[i] = y
    BY <1>1, <1>6
  <2>2. x.s # y.s
    BY <2>1, <1>6 DEF Has
  <2>3. QED
    BY <2>1, <2>2, <1>1, <1>2, <1>6 DEF IsLast
<1>7. QED
  BY <1>1, <1>3, <1>4, <1>5, <1>6 DEF r, IsLast

(* A pop removes the first element. *)
LEMMA PopFacts ==
  ASSUME NEW S, NEW q \in Seq(S), q # <<>>
  PROVE  /\ Head(q) \in S /\ Tail(q) \in Seq(S) /\ Has(q, Head(q))
         /\ \A y : Has(q, y) <=> Has(Tail(q), y) \/ y = Head(q)
         /\ \A s : NothingOf(q, s) <=> NothingOf(Tail(q), s) /\ Head(q).s # s
         /\ \A y : IsLast(q, y) => IsLast(Tail(q), y)
         /\ IsLast(q, Head(q)) => NothingOf(Tail(q), Head(q).s)
<1> DEFINE r == Tail(q)
           x == Head(q)
<1>1. /\ x \in S /\ x = q[1] /\ r \in Seq(S) /\ Len(q) \in Nat /\ Len(q) > 0
      /\ Len(r) = Len(q) - 1 /\ \A k \in 1 .. Len(r) : r[k] = q[k + 1]
  BY HeadTail
<1> HIDE DEF r, x
<1>2. \A k \in 1 .. Len(q) : k = 1 \/ (k - 1 \in 1 .. Len(r) /\ r[k - 1] = q[k])
  BY <1>1
<1>3. \A k \in 1 .. Len(r) : k + 1 \in 1 .. Len(q) /\ 1 < k + 1
  BY <1>1
<1>4. Has(q, x)
  BY <1>1 DEF Has
<1>5. ASSUME NEW y PROVE Has(q, y) <=> Has(r, y) \/ y = x
  <2>1. ASSUME NEW k \in 1 .. Len(q), q[k] = y PROVE Has(r, y) \/ y = x
    BY <1>1, <1>2, <2>1 DEF Has
  <2>2. ASSUME NEW k \in 1 .. Len(r), r[k] = y PROVE Has(q, y)
    BY <1>1, <1>3, <2>2 DEF Has
  <2>3. QED
    BY <1>4, <2>1, <2>2 DEF Has
<1>6. \A s : NothingOf(q, s) <=> NothingOf(r, s) /\ x.s # s
  BY <1>1, <1>2, <1>3 DEF NothingOf
<1>7. ASSUME NEW y, IsLast(q, y), NEW i \in 1 .. Len(r), NEW j \in 1 .. Len(r), i < j, r[i] = y
      PROVE  r[j].s # y.s
  <2>1. i + 1 \in 1 .. Len(q) /\ j + 1 \in 1 .. Len(q) /\ i + 1 < j + 1
    BY <1>1, <1>7
  <2>2. QED
    BY <1>1, <1>7, <2>1 DEF IsLast
<1>8. ASSUME IsLast(q, x) PROVE NothingOf(r, x.s)
  <2>1. ASSUME NEW k \in 1 .. Len(r) PROVE r[k].s # x.s
    <3>1. 1 \in 1 .. Len(q) /\ k + 1 \in 1 .. Len(q) /\ 1 < k + 1
      BY <1>1, <1>3
    <3>2. QED
      BY <1>1, <1>8, <3>1, Zenon DEF IsLast
  <2>2. QED
    BY <2>1 DEF NothingOf
<1>9. QED
  BY <1>1, <1>4, <1>5, <1>6, <1>7, <1>8 DEF r, x, IsLast
-----------------------------------------------------------------------------
(* The network thread.  What a visit to the Connection of s may do, from m to n:
   the commands of other sessions are left alone, nothing is sent but from an
   open Connection, and what leaves "open" leaves a CancelAll behind or notes
   that it could not. *)
Visit == [c : Connection, q : Seq(Command)]

Grows(q, r, s) ==
  /\ \A x : Has(q, x) => Has(r, x)
  /\ \A t \in Session \ {s} :
       /\ IsLast(q, CancelAll(t)) => IsLast(r, CancelAll(t))
       /\ Has(r, CancelAll(t)) => Has(q, CancelAll(t))
       /\ NothingOf(q, t) => NothingOf(r, t)

LastWord(n, s) ==
  IsLast(n.q, CancelAll(s)) /\ (Has(n.q, CancelAll(s)) => n.c.state \notin {"none", "open"})

NetStep(m, n, s) ==
  /\ n \in Visit /\ Grows(m.q, n.q, s)
  /\ LastWord(m, s) => LastWord(n, s)
  /\ m.c.state # "open" =>
       /\ n.q = m.q /\ n.c.past = m.c.past
       /\ n.c.state = m.c.state \/ (n.c.state = "freed" /\ m.c.state # "retiring")
  /\ m.c.state = "open" =>
       /\ \/ n.c.state \in {"open", "retiring"}
          \/ n.c.state = "freed" /\ "cancel refused" \in n.c.past
       /\ n.c.state = "retiring" => Has(n.q, CancelAll(s))
  /\ "never registered" \in n.c.past <=> "never registered" \in m.c.past

(* A visit is made of such steps. *)
LEMMA NetTrans ==
  ASSUME NEW l, NEW m, NEW n, NEW s, NetStep(l, m, s), NetStep(m, n, s)
  PROVE  NetStep(l, n, s)
<1>1. Grows(l.q, n.q, s)
  BY Zenon DEF NetStep, Grows
<1>2. l.c.state # "open" =>
        /\ n.q = l.q /\ n.c.past = l.c.past
        /\ n.c.state = l.c.state \/ (n.c.state = "freed" /\ l.c.state # "retiring")
  BY Zenon DEF NetStep
<1>3. l.c.state = "open" =>
        /\ \/ n.c.state \in {"open", "retiring"}
           \/ n.c.state = "freed" /\ "cancel refused" \in n.c.past
        /\ n.c.state = "retiring" => Has(n.q, CancelAll(s))
  BY Zenon DEF NetStep, Grows
<1>4. QED
  BY <1>1, <1>2, <1>3, Zenon DEF NetStep

(* One that only touches what the tombstone protocol does not look at. *)
LEMMA QuietStep ==
  ASSUME NEW m \in Visit, NEW n \in Visit, NEW s,
         n.q = m.q, n.c.state = m.c.state,
         n.c.past = m.c.past \/ (m.c.state = "open" /\ n.c.past = m.c.past \cup {"pipelined"})
  PROVE  NetStep(m, n, s)
<1>1. Grows(m.q, n.q, s) /\ (LastWord(m, s) => LastWord(n, s))
  BY DEF Grows, LastWord
<1>2. QED
  BY <1>1, Zenon DEF NetStep

(* A command of s in a queue says nothing of other sessions. *)
LEMMA PushGrows ==
  ASSUME NEW q \in Seq(Command), NEW s \in Session, NEW cmd \in Command, cmd.s = s
  PROVE  Append(q, cmd) \in Seq(Command) /\ Grows(q, Append(q, cmd), s)
<1>1. /\ Append(q, cmd) \in Seq(Command)
      /\ \A y : Has(Append(q, cmd), y) <=> Has(q, y) \/ y = cmd
      /\ \A t : NothingOf(Append(q, cmd), t) <=> NothingOf(q, t) /\ cmd.s # t
      /\ \A y : IsLast(q, y) /\ (Has(q, y) => cmd.s # y.s) => IsLast(Append(q, cmd), y)
  BY PushFacts
<1>2. \A t \in Session \ {s} : CancelAll(t).s = t /\ cmd # CancelAll(t)
  BY DEF CancelAll
<1>3. QED
  BY <1>1, <1>2 DEF Grows

(* Pushed changes the queue and nothing else. *)
LEMMA PushedFacts ==
  ASSUME NEW m \in Visit, NEW x
  PROVE  Pushed(m, x) = [c |-> m.c, q |-> Append(m.q, x)]
  BY SMTT(20) DEF Pushed, Visit

(* An open Connection sends an ordinary command. *)
LEMMA SendStep ==
  ASSUME NEW m \in Visit, NEW s \in Session, NEW cmd \in Command, cmd.s = s, cmd.type # "CancelAll",
         m.c.state = "open"
  PROVE  NetStep(m, Pushed(m, cmd), s)
<1> DEFINE r == Append(m.q, cmd)
<1>1. r \in Seq(Command) /\ Grows(m.q, r, s)
  BY PushGrows DEF Visit
<1>2. /\ \A y : Has(r, y) <=> Has(m.q, y) \/ y = cmd
      /\ \A y : IsLast(m.q, y) /\ (Has(m.q, y) => cmd.s # y.s) => IsLast(r, y)
  BY PushFacts DEF Visit
<1> HIDE DEF r
<1>3. cmd # CancelAll(s)
  BY DEF CancelAll
<1>4. Pushed(m, cmd) = [c |-> m.c, q |-> r]
  BY DEF Pushed, Visit, r
<1>5. LastWord(m, s) => LastWord(Pushed(m, cmd), s)
  BY <1>2, <1>3, <1>4 DEF LastWord
<1>6. Pushed(m, cmd) \in Visit /\ Pushed(m, cmd).c = m.c /\ Pushed(m, cmd).q = r
  BY <1>1, <1>4 DEF Visit
<1>7. QED
  BY <1>1, <1>5, <1>6, Zenon DEF NetStep

(* close_connection: see the comment on NetStep. *)
LEMMA CloseStep ==
  ASSUME NEW m \in Visit, NEW s \in Session
  PROVE  NetStep(m, close_connection(m, s), s)
<1> DEFINE n == close_connection(m, s)
           r == Append(m.q, CancelAll(s))
           d(st, past) == [m.c EXCEPT !.state = st, !.close = FALSE, !.past = past]
<1>0. m.c \in Connection /\ m.q \in Seq(Command) /\ m = [c |-> m.c, q |-> m.q]
  BY DEF Visit
<1>a. ASSUME NEW st \in {"retiring", "freed"},
             NEW past \in SUBSET {"never registered", "cancel refused", "pipelined"}
      PROVE  d(st, past) \in Connection /\ d(st, past).state = st /\ d(st, past).past = past
  BY <1>0, Zenon DEF Connection
<1>b. /\ m.c.past \in SUBSET {"never registered", "cancel refused", "pipelined"}
      /\ m.c.past \cup {"cancel refused"} \in
           SUBSET {"never registered", "cancel refused", "pipelined"}
  BY <1>0, Zenon DEF Connection
<1>1. CASE m.c.state = "open" /\ HasRoom(m)
  <2>1. CancelAll(s) \in Command /\ CancelAll(s).s = s
    BY DEF CancelAll, Command
  <2>2. r \in Seq(Command) /\ Grows(m.q, r, s)
    BY <2>1, <1>0, PushGrows
  <2>3. /\ Has(r, CancelAll(s))
        /\ IsLast(m.q, CancelAll(s)) /\ (Has(m.q, CancelAll(s)) => FALSE) => IsLast(r, CancelAll(s))
    BY <2>1, <1>0, PushFacts
  <2> HIDE DEF r
  <2>4. n = [c |-> d("retiring", m.c.past), q |-> r]
    BY <1>0, <1>1, Zenon DEF close_connection, Pushed, CancelAll, r, Connection
  <2> HIDE DEF d, n
  <2>5. n.q = r /\ n.c.state = "retiring" /\ n.c.past = m.c.past /\ n \in Visit
    BY <2>2, <2>4, <1>a, <1>b, Zenon DEF Visit
  <2>6. LastWord(m, s) => LastWord(n, s)
    BY <2>3, <2>5, <1>1 DEF LastWord
  <2>7. NetStep(m, n, s)
    BY <2>2, <2>3, <2>5, <2>6, <1>1 DEF NetStep
  <2>8. QED
    BY <2>7 DEF n
<1>2. CASE m.c.state = "open" /\ ~HasRoom(m)
  <2>1. n = [c |-> d("freed", m.c.past \cup {"cancel refused"}), q |-> m.q]
    BY <1>0, <1>2, Zenon DEF close_connection, Noted, Connection
  <2> HIDE DEF d, n
  <2>2. /\ n.q = m.q /\ n.c.state = "freed" /\ n.c.past = m.c.past \cup {"cancel refused"}
        /\ n \in Visit
    BY <2>1, <1>0, <1>a, <1>b, Zenon DEF Visit
  <2>3. Grows(m.q, n.q, s) /\ (LastWord(m, s) => LastWord(n, s))
    BY <2>2, Zenon DEF Grows, LastWord
  <2>4. NetStep(m, n, s)
    BY <2>2, <2>3, <1>2, Zenon DEF NetStep
  <2>5. QED
    BY <2>4 DEF n
<1>3. CASE m.c.state = "retiring"
  <2>1. n = [c |-> d("retiring", m.c.past), q |-> m.q]
    BY <1>0, <1>3, Zenon DEF close_connection, Connection
  <2> HIDE DEF d, n
  <2>2. n.q = m.q /\ n.c.state = m.c.state /\ n.c.past = m.c.past /\ n \in Visit
    BY <2>1, <1>0, <1>3, <1>a, <1>b, Zenon DEF Visit
  <2>3. NetStep(m, n, s)
    BY <2>2, QuietStep
  <2>4. QED
    BY <2>3 DEF n
<1>4. CASE m.c.state \notin {"open", "retiring"}
  <2>1. n = [c |-> d("freed", m.c.past), q |-> m.q]
    BY <1>0, <1>4, Zenon DEF close_connection, Connection
  <2> HIDE DEF d, n
  <2>2. n.q = m.q /\ n.c.state = "freed" /\ n.c.past = m.c.past /\ n \in Visit
    BY <2>1, <1>0, <1>a, <1>b, Zenon DEF Visit
  <2>3. Grows(m.q, n.q, s) /\ (LastWord(m, s) => LastWord(n, s))
    BY <2>2 DEF Grows, LastWord
  <2>4. NetStep(m, n, s)
    BY <2>2, <2>3, <1>4, Zenon DEF NetStep
  <2>5. QED
    BY <2>4 DEF n
<1>5. QED
  BY <1>1, <1>2, <1>3, <1>4

(* The end of a visit. *)
LEMMA SettleStep ==
  ASSUME NEW m \in Visit, NEW s \in Session
  PROVE  NetStep(m, Settle(m, s), s)
  BY CloseStep, QuietStep DEF Settle

(* A reply, whether or not the peer's buffer takes it. *)
LEMMA AnswerFacts ==
  ASSUME NEW m \in Visit, NEW fits \in BOOLEAN
  PROVE  /\ queue(m, fits) \in Visit /\ queue(m, fits).q = m.q
         /\ queue(m, fits).c.owed = m.c.owed /\ queue(m, fits).c.known = m.c.known
         /\ queue(m, fits).c.past = m.c.past /\ queue(m, fits).c.state = m.c.state
         /\ Answer(m, fits) \in Visit /\ Answer(m, fits).q = m.q
         /\ Answer(m, fits).c.owed = m.c.owed - 1 /\ Answer(m, fits).c.known = m.c.known
         /\ Answer(m, fits).c.past = m.c.past /\ Answer(m, fits).c.state = m.c.state
<1> DEFINE k == m.c.owed - 1
           a == [m EXCEPT !.c.owed = k]
<1>1. ASSUME NEW n \in Visit
      PROVE  /\ queue(n, fits) \in Visit /\ queue(n, fits).q = n.q
             /\ queue(n, fits).c.owed = n.c.owed /\ queue(n, fits).c.known = n.c.known
             /\ queue(n, fits).c.past = n.c.past /\ queue(n, fits).c.state = n.c.state
  BY Zenon DEF queue, Visit, Connection
<1>2. k \in Int
  <2>1. m.c.owed \in Int
    BY Zenon DEF Visit, Connection
  <2>2. QED
    BY <2>1
<1>3. Answer(m, fits) = queue(a, fits)
  BY DEF Answer
<1> HIDE DEF k
<1>4. /\ a \in Visit /\ a.q = m.q /\ a.c.owed = k /\ a.c.known = m.c.known /\ a.c.past = m.c.past
      /\ a.c.state = m.c.state
  BY <1>2, Zenon DEF Visit, Connection
<1> HIDE DEF a
<1>5. QED
  BY <1>1, <1>3, <1>4, ZenonT(30) DEF k

(* Queueing an answer, which may close an output buffer that is full. *)
LEMMA ReplyStep ==
  ASSUME NEW m \in Visit, NEW s \in Session, NEW fits \in BOOLEAN
  PROVE  NetStep(m, queue(m, fits), s) /\ NetStep(m, Answer(m, fits), s)
  BY AnswerFacts, QuietStep

(* An id is noted or forgotten in live_orders_. *)
LEMMA KnownStep ==
  ASSUME NEW m \in Visit, NEW s \in Session, NEW K \in SUBSET ClientId
  PROVE  NetStep(m, [m EXCEPT !.c.known = K], s)
<1> DEFINE n == [m EXCEPT !.c.known = K]
<1>1. n \in Visit /\ n.q = m.q /\ n.c.state = m.c.state /\ n.c.past = m.c.past
  BY Zenon DEF Visit, Connection
<1> HIDE DEF n
<1>2. NetStep(m, n, s)
  BY <1>1, QuietStep
<1>3. QED
  BY <1>2 DEF n
-----------------------------------------------------------------------------
(* Whatever a visit to s does is safe for every session, if it neither takes a
   tombstone from a queue nor puts one there. *)
LEMMA NetPreserves ==
  ASSUME TInv, NEW s \in Session, NEW n, NetStep(Here(s), n, s), Becomes(s, n),
         conn[s].state # "none", thread' = thread, egress' \in [Session -> Seq(Notice)],
         \A t \in Session : egress'[t] \in Seq(Mail(t)),
         \A t \in Session : Has(egress'[t], Retired(t)) <=> Has(egress[t], Retired(t)),
         overflowed' = overflowed, net' \in {net, s, Polling}, sent' \in Nat
  PROVE  TInv'
<1>0. TypeOK /\ (\A t \in Session : SessionInv(t)) /\ TombstoneArrives
      /\ \A t \in Session : Announced(t)
  BY DEF TInv, IInv
<1>1. n \in Visit /\ inbound' = n.q /\ n.q \in Seq(Command) /\ n.c \in Connection
  BY Zenon DEF NetStep, Becomes, Visit
<1>2. conn' = [conn EXCEPT ![s] = n.c] /\ conn'[s] = n.c
      /\ \A t \in Session \ {s} : conn'[t] = conn[t]
  BY <1>0 DEF Becomes, TypeOK
<1>3. TypeOK'
  BY <1>0, <1>1, <1>2 DEF TypeOK
<1>4. Here(s).c = conn[s] /\ Here(s).q = inbound
  BY DEF Here
<1>5. /\ Grows(inbound, inbound', s)
      /\ conn[s].state # "open" =>
           /\ inbound' = inbound /\ conn'[s].past = conn[s].past
           /\ \/ conn'[s].state = conn[s].state
              \/ conn'[s].state = "freed" /\ conn[s].state # "retiring"
      /\ conn[s].state = "open" =>
           /\ \/ conn'[s].state \in {"open", "retiring"}
              \/ conn'[s].state = "freed" /\ "cancel refused" \in conn'[s].past
           /\ conn'[s].state = "retiring" => Has(inbound', CancelAll(s))
      /\ "never registered" \in conn'[s].past <=> "never registered" \in conn[s].past
  BY <1>1, <1>2, <1>4, Zenon DEF NetStep
<1>6. IsLast(inbound', CancelAll(s)) /\ (Has(inbound', CancelAll(s)) => Leaving(s)')
  <2>1. LastWord(Here(s), s)
    BY <1>0, <1>4 DEF LastWord, SessionInv, Leaving
  <2>2. LastWord(n, s)
    BY <2>1, Zenon DEF NetStep
  <2>3. QED
    BY <2>2, <1>1, <1>2 DEF LastWord, Leaving
<1>7. conn[s].state \in {"open", "retiring", "retired", "freed"}
  BY <1>0, Zenon DEF TypeOK, Connection
<1>8. Buried(s)' => Buried(s)
  BY <1>5, <1>7, Zenon DEF Buried
<1>9. \A t \in Session : (Over(t)' => Over(t)) /\ (Buried(t)' => Buried(t))
  BY <1>2, <1>8, Zenon DEF Over, Buried
<1>10. ASSUME NEW t \in Session PROVE SessionInv(t)'
  <2>1. SessionInv(t)
    BY <1>0
  <2>2. CASE t = s
    <3>1. Over(s) => conn[s].state # "open" /\ Leaving(s)'
      BY <2>1, <2>2, <1>5, Zenon DEF SessionInv, Leaving
    <3>2. conn'[s].state # "none"
      BY <1>5, Zenon
    <3>3. QED
      BY <2>1, <2>2, <1>5, <1>6, <1>9, <3>1, <3>2, Zenon DEF SessionInv
  <2>3. CASE t # s
    <3>1. conn'[t] = conn[t] /\ (Leaving(t)' <=> Leaving(t))
      BY <1>2, <2>3 DEF Leaving
    <3>2. /\ IsLast(inbound, CancelAll(t)) => IsLast(inbound', CancelAll(t))
          /\ Has(inbound', CancelAll(t)) => Has(inbound, CancelAll(t))
          /\ NothingOf(inbound, t) => NothingOf(inbound', t)
      BY <1>5, <2>3, Zenon DEF Grows
    <3>3. net' = t => net = t
      BY <2>3, SessionAssumption DEF Polling
    <3>4. QED
      BY <2>1, <1>9, <3>1, <3>2, <3>3 DEF SessionInv
  <2>4. QED
    BY <2>2, <2>3
<1>11. \A x : Has(inbound, x) => Has(inbound', x)
  BY <1>5, Zenon DEF Grows
<1>12. TombstoneArrives'
  <2>1. ASSUME NEW t \in Session, conn'[t].state = "retiring",
               "never registered" \notin conn'[t].past, t \notin thread.lost
        PROVE  \/ Has(inbound', CancelAll(t)) \/ Has(thread.pending, Retired(t))
               \/ Has(egress'[t], Retired(t))
    <3>1. \/ t = s /\ conn[s].state = "open"
          \/ conn[t].state = "retiring" /\ "never registered" \notin conn[t].past
      BY <2>1, <1>2, <1>5, Zenon
    <3>2. QED
      BY <2>1, <3>1, <1>0, <1>5, <1>11, Zenon DEF TombstoneArrives, CancelAll, Retired
  <2>2. QED
    BY <2>1, Zenon DEF TombstoneArrives, CancelAll, Retired
<1>13. ASSUME NEW t \in Session PROVE Announced(t)'
  <2>1. Announced(t) /\ SessionInv(t)
    BY <1>0
  <2>2. conn'[t].state \in {"open", "retiring"} /\ "never registered" \notin conn'[t].past =>
          /\ conn[t].state = "open" \/ conn[t].state = conn'[t].state
          /\ "never registered" \notin conn[t].past
    BY <1>2, <1>5, <1>7, Zenon
  <2>3. conn'[t].state = "retiring" /\ Over(t) => Over(t)'
    BY <2>1, <1>2, <1>5, Zenon DEF Over, Buried, SessionInv, Leaving
  <2>4. QED
    BY <2>1, <2>2, <2>3, <1>11, Zenon DEF Announced
<1>14. QED
  BY <1>3, <1>10, <1>12, <1>13 DEF TInv, IInv

(* A visit starts from the state as it is. *)
LEMMA VisitStarts ==
  ASSUME TypeOK, NEW s \in Session
  PROVE  Here(s) \in Visit /\ Here(s).c = conn[s] /\ Here(s).q = inbound
  BY DEF TypeOK, Here, Visit

(* A message is counted and, if it came before the last one was answered, noted. *)
LEMMA ReceivedFacts ==
  ASSUME TypeOK, NEW s \in Session
  PROVE  /\ Received(s) \in Visit /\ Received(s).q = inbound /\ Received(s).c.state = conn[s].state
         /\ Received(s).c.owed = conn[s].owed + 1 /\ Received(s).c.known = conn[s].known
         /\ Received(s).c.past =
              IF conn[s].owed > 0 THEN conn[s].past \cup {"pipelined"} ELSE conn[s].past
<1> DEFINE k == conn[s].owed + 1
           d == [conn[s] EXCEPT !.owed = k]
           n == [c |-> d, q |-> inbound]
           p == [c |-> [d EXCEPT !.past = @ \cup {"pipelined"}], q |-> inbound]
<1>1. conn[s] \in Connection /\ inbound \in Seq(Command) /\ conn[s].owed \in Int
  BY Zenon DEF TypeOK, Connection
<1>2. k \in Int
  BY <1>1
<1>a. [Here(s) EXCEPT !.c.owed = @ + 1] = n
  BY DEF Here
<1> HIDE DEF k
<1>4. /\ d \in Connection /\ d.state = conn[s].state /\ d.owed = k
      /\ d.known = conn[s].known /\ d.past = conn[s].past
  BY <1>1, <1>2, Zenon DEF Connection
<1> HIDE DEF d
<1>b. Noted(n, "pipelined") = p
  BY DEF Noted
<1>3. Received(s) = IF conn[s].owed > 0 THEN p ELSE n
  BY <1>a, <1>b DEF Received
<1>5. /\ p.c \in Connection /\ p.c.state = conn[s].state /\ p.c.owed = k
      /\ p.c.known = conn[s].known
      /\ p.c.past = conn[s].past \cup {"pipelined"}
  BY <1>4, Zenon DEF Connection
<1>6. n \in Visit /\ p \in Visit /\ n.q = inbound /\ p.q = inbound /\ n.c = d
  BY <1>1, <1>4, <1>5, Zenon DEF Visit
<1> HIDE DEF n, p
<1>7. QED
  BY <1>3, <1>4, <1>5, <1>6, Zenon DEF k

(* A message comes in: only owed and the mark of a pipelining client change. *)
LEMMA ReceivedStep ==
  ASSUME TypeOK, NEW s \in Session, conn[s].state = "open"
  PROVE  Received(s) \in Visit /\ NetStep(Here(s), Received(s), s) /\ Received(s).c.state = "open"
<1> DEFINE n == Received(s)
<1>1. /\ n \in Visit /\ n.q = inbound /\ n.c.state = conn[s].state
      /\ n.c.past = IF conn[s].owed > 0 THEN conn[s].past \cup {"pipelined"} ELSE conn[s].past
  BY ReceivedFacts
<1> HIDE DEF n
<1>2. NetStep(Here(s), n, s)
  BY <1>1, VisitStarts, QuietStep
<1>3. QED
  BY <1>1, <1>2 DEF n

(* A NewOrder or a Cancel is refused, or noted and sent; then the visit ends. *)
LEMMA DispatchPreserves ==
  ASSUME TInv, NEW s \in Session, NEW coid \in ClientId, NEW fits \in BOOLEAN,
         DispatchNewOrder(s, coid, fits) \/ DispatchCancel(s, coid, fits)
  PROVE  TInv'
<1> DEFINE n == Received(s)
           noted == [n EXCEPT !.c.known = n.c.known \cup {coid}]
           new == [type |-> "New", s |-> s, coid |-> coid]
           cancel == [type |-> "Cancel", s |-> s, coid |-> coid]
<1>1. TypeOK /\ conn[s].state = "open" /\ sent' \in Nat
  BY DEF TInv, IInv, DispatchNewOrder, DispatchCancel, Receives, TypeOK
<1>2. n \in Visit /\ NetStep(Here(s), n, s) /\ n.c.state = "open"
  BY <1>1, ReceivedStep
<1>3. PICK x \in {Answer(n, fits), Pushed(noted, new), Pushed(n, cancel)} :
        Becomes(s, Settle(x, s)) /\ UNCHANGED <<egress, overflowed, net, thread>>
  BY DEF DispatchNewOrder, DispatchCancel
<1> HIDE DEF n
<1>4. new \in Command /\ cancel \in Command
  BY DEF Command
<1>5. new.s = s /\ new.type # "CancelAll" /\ cancel.s = s /\ cancel.type # "CancelAll"
  OBVIOUS
<1> HIDE DEF new, cancel
<1>6. noted \in Visit /\ noted.c.state = "open"
  BY <1>2, Zenon DEF Visit, Connection
<1>7. NetStep(n, noted, s)
  <2>1. n.c.known \cup {coid} \in SUBSET ClientId
    BY <1>2, Zenon DEF Visit, Connection
  <2>2. QED
    BY <1>2, <2>1, KnownStep
<1> HIDE DEF noted
<1>8. NetStep(n, x, s)
  <2>1. NetStep(n, Answer(n, fits), s)
    BY <1>2, ReplyStep
  <2>2. NetStep(noted, Pushed(noted, new), s) /\ NetStep(n, Pushed(n, cancel), s)
    BY <1>2, <1>4, <1>5, <1>6, SendStep
  <2>3. NetStep(n, Pushed(noted, new), s)
    BY <1>7, <2>2, NetTrans
  <2>4. QED
    BY <2>1, <2>2, <2>3, <1>3
<1>9. x \in Visit
  BY <1>8, Zenon DEF NetStep
<1>10. NetStep(Here(s), Settle(x, s), s)
  BY <1>2, <1>8, <1>9, SettleStep, NetTrans, Zenon
<1>11. /\ egress' \in [Session -> Seq(Notice)] /\ egress' = egress /\ net' = net
       /\ thread' = thread /\ overflowed' = overflowed
       /\ \A t \in Session : egress'[t] \in Seq(Mail(t))
  BY <1>1, <1>3 DEF TypeOK, TInv, IInv, SessionInv
<1>12. QED
  BY <1>1, <1>3, <1>10, <1>11, NetPreserves

(* The ways a Connection is closed, and the ends of a drain that pops nothing. *)
LEMMA ClosePreserves ==
  ASSUME TInv, NEW s \in Session, TimedOut(s) \/ Close(s) \/ Drain(s) \/ DrainEnd(s)
  PROVE  TInv'
<1>1. TypeOK /\ Here(s) \in Visit /\ Here(s).c = conn[s] /\ Here(s).q = inbound
  BY VisitStarts DEF TInv, IInv
<1>2. conn[s].state # "none"
  BY DEF TInv, IInv, SessionInv, TimedOut, Close, Drain, DrainOverflowed, DrainBegin, DrainEnd,
         HasEgress
<1>3. /\ egress' = egress /\ egress' \in [Session -> Seq(Notice)] /\ overflowed' = overflowed
      /\ thread' = thread /\ sent' \in Nat /\ net' \in {net, s, Polling}
      /\ \A t \in Session : egress'[t] \in Seq(Mail(t))
  BY <1>1 DEF TypeOK, TInv, IInv, SessionInv, TimedOut, Close, Drain, DrainOverflowed, DrainBegin,
              DrainEnd
<1>4. CASE TimedOut(s)
  <2> DEFINE n == [c |-> [conn[s] EXCEPT !.close = TRUE], q |-> inbound]
  <2>1. n \in Visit /\ n.q = inbound /\ n.c.state = conn[s].state /\ n.c.past = conn[s].past
    BY <1>1, Zenon DEF TypeOK, Visit, Connection
  <2>2. Becomes(s, n)
    BY <1>1, <1>4 DEF TimedOut, Becomes, TypeOK
  <2> HIDE DEF n
  <2>3. NetStep(Here(s), n, s)
    BY <1>1, <2>1, QuietStep
  <2>4. QED
    BY <1>2, <1>3, <2>2, <2>3, NetPreserves
<1>5. CASE Close(s) \/ DrainOverflowed(s)
  <2>1. Becomes(s, close_connection(Here(s), s))
    BY <1>5 DEF Close, DrainOverflowed
  <2>2. NetStep(Here(s), close_connection(Here(s), s), s)
    BY <1>1, CloseStep
  <2>3. QED
    BY <1>2, <1>3, <2>1, <2>2, NetPreserves
<1>6. CASE DrainBegin(s)
  <2>1. Becomes(s, Here(s))
    BY <1>1, <1>6 DEF DrainBegin, Becomes, TypeOK
  <2>2. NetStep(Here(s), Here(s), s)
    BY <1>1, QuietStep
  <2>3. QED
    BY <1>2, <1>3, <2>1, <2>2, NetPreserves
<1>7. CASE DrainEnd(s)
  <2>1. Becomes(s, Settle(Here(s), s))
    BY <1>7 DEF DrainEnd
  <2>2. NetStep(Here(s), Settle(Here(s), s), s)
    BY <1>1, SettleStep
  <2>3. QED
    BY <1>2, <1>3, <2>1, <2>2, NetPreserves
<1>8. QED
  BY <1>4, <1>5, <1>6, <1>7 DEF Drain

(* An event other than the tombstone is delivered. *)
LEMMA DeliverStep ==
  ASSUME NEW m \in Visit, NEW s \in Session, NEW e \in Notice, e.type # "Retired",
         NEW fits \in BOOLEAN
  PROVE  NetStep(m, deliver(m, e, fits), s)
<1> DEFINE forgot == [m EXCEPT !.c.known = @ \ {e.coid}]
<1>1. m.c.known \ {e.coid} \in SUBSET ClientId
  BY Zenon DEF Visit, Connection
<1>2. NetStep(m, forgot, s)
  BY <1>1, KnownStep
<1>3. e.type \in {"Fill", "Ack", "Reject"}
  BY DEF Notice
<1>4. deliver(m, e, fits) \in {queue(forgot, fits), Answer(forgot, fits), Answer(m, fits)}
  BY <1>3 DEF deliver
<1> HIDE DEF forgot
<1>5. forgot \in Visit
  BY <1>2, Zenon DEF NetStep
<1>6. NetStep(forgot, queue(forgot, fits), s) /\ NetStep(forgot, Answer(forgot, fits), s)
  BY <1>5, ReplyStep
<1>7. /\ NetStep(m, queue(forgot, fits), s) /\ NetStep(m, Answer(forgot, fits), s)
      /\ NetStep(m, Answer(m, fits), s)
  BY <1>2, <1>6, NetTrans, ReplyStep
<1>8. QED
  BY <1>4, <1>7

(* One event is popped and delivered. *)
LEMMA PopPreserves ==
  ASSUME TInv, NEW s \in Session, NEW fits \in BOOLEAN, DrainPop(s, fits)
  PROVE  TInv'
<1> DEFINE e == Head(egress[s])
           n == deliver(Here(s), e, fits)
<1>0. TypeOK /\ (\A t \in Session : SessionInv(t)) /\ TombstoneArrives
      /\ \A t \in Session : Announced(t)
  BY DEF TInv, IInv
<1>1. Here(s) \in Visit /\ Here(s).c = conn[s] /\ Here(s).q = inbound
  BY <1>0, VisitStarts, Zenon
<1>2. /\ e \in Mail(s) /\ Tail(egress[s]) \in Seq(Mail(s))
      /\ \A y : Has(egress[s], y) <=> Has(Tail(egress[s]), y) \/ y = e
  BY <1>0, PopFacts DEF DrainPop, SessionInv
<1>3. Tail(egress[s]) \in Seq(Notice)
  BY <1>0, PopFacts DEF DrainPop, TypeOK
<1>4. /\ egress' = [egress EXCEPT ![s] = Tail(egress[s])] /\ egress' \in [Session -> Seq(Notice)]
      /\ egress'[s] = Tail(egress[s]) /\ \A t \in Session \ {s} : egress'[t] = egress[t]
  BY <1>0, <1>3 DEF DrainPop, TypeOK
<1>5. \A t \in Session : egress'[t] \in Seq(Mail(t))
  BY <1>0, <1>2, <1>4, Zenon DEF SessionInv
<1>6. conn[s].state # "none" /\ net = s
  BY <1>0 DEF DrainPop, SessionInv
<1>7. overflowed' = overflowed /\ thread' = thread /\ sent' = sent /\ sent' \in Nat
  BY <1>0, Zenon DEF DrainPop, TypeOK
<1>8. CASE e.type # "Retired"
  <2>1. NetStep(Here(s), n, s)
    BY <1>1, <1>2, <1>8, DeliverStep DEF Mail
  <2>2. \A t \in Session : Has(egress'[t], Retired(t)) <=> Has(egress[t], Retired(t))
    <3>1. e # Retired(s)
      BY <1>8 DEF Retired
    <3>2. QED
      BY <3>1, <1>2, <1>4
  <2>3. PICK x \in {n, close_connection(n, s)} : Becomes(s, x) /\ net' \in {s, Polling}
    BY DEF DrainPop
  <2> HIDE DEF n
  <2>4. NetStep(Here(s), x, s)
    <3>1. n \in Visit
      BY <2>1, Zenon DEF NetStep
    <3>2. NetStep(Here(s), close_connection(n, s), s)
      BY <2>1, <3>1, CloseStep, NetTrans
    <3>3. QED
      BY <2>1, <3>2
  <2>5. QED
    BY <2>2, <2>3, <2>4, <1>4, <1>5, <1>6, <1>7, NetPreserves, Zenon
<1>9. CASE e.type = "Retired"
  <2>1. e = Retired(s) /\ Has(egress[s], Retired(s)) /\ Over(s)
    <3>1. e = Retired(s)
      BY <1>2, <1>9 DEF Mail, Notice, Retired
    <3>2. QED
      BY <3>1, <1>2 DEF Over
  <2> DEFINE d == [conn[s] EXCEPT !.state = "retired", !.close = TRUE]
  <2>2. n = [c |-> d, q |-> inbound]
    BY <1>9, Zenon DEF deliver, Here
  <2>3. Becomes(s, n) /\ net' = s
    BY <1>9 DEF DrainPop
  <2> HIDE DEF n
  <2>a. conn' = [conn EXCEPT ![s] = d] /\ inbound' = inbound
    BY <2>2, <2>3 DEF Becomes
  <2>4. d \in Connection /\ d.state = "retired" /\ inbound' = inbound
    BY <1>0, <2>a, ZenonT(60) DEF TypeOK, Connection
  <2> HIDE DEF d
  <2>5. /\ conn'[s].state = "retired" /\ \A t \in Session \ {s} : conn'[t] = conn[t]
        /\ TypeOK'
    BY <1>0, <1>4, <1>7, <2>a, <2>3, <2>4 DEF TypeOK
  <2>6. \A t \in Session : (Over(t)' => Over(t)) /\ (Leaving(t) => Leaving(t)')
    BY <1>4, <1>7, <2>1, <2>5, Zenon DEF Over, Buried, Leaving
  <2>7. \A t \in Session : Has(egress'[t], Retired(t)) \/ Buried(t)' =>
                             Has(egress[t], Retired(t)) \/ Buried(t)
    BY <1>4, <2>1, <2>5, Zenon DEF Buried
  <2>8. ASSUME NEW t \in Session PROVE SessionInv(t)'
    <3>1. net' = t => conn'[t].state # "none"
      BY <2>3, <2>5
    <3>2. SessionInv(t)
      BY <1>0
    <3>3. QED
      BY <3>1, <3>2, <1>5, <1>7, <2>4, <2>6, <2>7 DEF SessionInv
  <2>9. TombstoneArrives'
    <3>1. \A t \in Session : conn'[t].state = "retiring" => t # s /\ conn'[t] = conn[t]
      BY <2>5
    <3>2. QED
      BY <3>1, <1>0, <1>4, <1>7, <2>4, Zenon DEF TombstoneArrives
  <2>10. ASSUME NEW t \in Session PROVE Announced(t)'
    <3>1. CASE t = s
      BY <3>1, <2>5, Zenon DEF Announced
    <3>2. CASE t # s
      BY <3>2, <1>0, <1>4, <1>7, <2>4, <2>5, Zenon DEF Announced, Over, Buried
    <3>3. QED
      BY <3>1, <3>2
  <2>11. QED
    BY <2>5, <2>8, <2>9, <2>10 DEF TInv, IInv
<1>10. QED
  BY <1>8, <1>9

(* A Connection is accepted: nothing is known of its session so far. *)
LEMMA AcceptPreserves ==
  ASSUME TInv, NEW s \in Session, accept_new(s)
  PROVE  TInv'
<1> DEFINE d == [conn[s] EXCEPT !.state = "open"]
           r == Append(inbound, Opened(s))
           P == conn[s].past \cup {"never registered"}
           d2 == [d EXCEPT !.past = @ \cup {"never registered"}]
           n == [Here(s) EXCEPT !.c.state = "open"]
<1>0. TypeOK /\ (\A t \in Session : SessionInv(t)) /\ TombstoneArrives
      /\ \A t \in Session : Announced(t)
  BY DEF TInv, IInv
<1>1. /\ conn[s].state = "none" /\ egress' = egress /\ overflowed' = overflowed /\ net' = net
      /\ thread' = thread /\ sent' = sent
  BY Zenon DEF accept_new
<1>2. conn[s] \in Connection /\ inbound \in Seq(Command) /\ Opened(s) \in Command
  BY <1>0 DEF TypeOK, Opened, Command
<1>3. /\ d \in Connection /\ d.state = "open" /\ d.past = conn[s].past
  BY <1>2, Zenon DEF Connection
<1>4. n = [c |-> d, q |-> inbound]
  BY DEF Here
<1>a. Becomes(s, Pushed(n, Opened(s))) \/ Becomes(s, Noted(n, "never registered"))
  BY Zenon DEF accept_new, Opened
<1> HIDE DEF d, n
<1>5. Pushed([c |-> d, q |-> inbound], Opened(s)) = [c |-> d, q |-> r]
  BY DEF Pushed
<1>b. Noted([c |-> d, q |-> inbound], "never registered") = [c |-> d2, q |-> inbound]
  <2> DEFINE m == [c |-> d, q |-> inbound]
             W == m.c.past \cup {"never registered"}
  <2>1. W = d.past \cup {"never registered"}
    OBVIOUS
  <2> HIDE DEF W
  <2>2. [m EXCEPT !.c.past = W] = [c |-> [d EXCEPT !.past = W], q |-> inbound]
    OBVIOUS
  <2>3. QED
    BY <2>1, <2>2, Zenon DEF Noted, W
<1>6. d2 \in Connection /\ d2.state = "open" /\ d2.past = P
  BY <1>3, Zenon DEF Connection
<1> HIDE DEF d2
<1>7. \/ conn' = [conn EXCEPT ![s] = d] /\ inbound' = r
      \/ conn' = [conn EXCEPT ![s] = d2] /\ inbound' = inbound
  <2>1. Becomes(s, [c |-> d, q |-> r]) \/ Becomes(s, [c |-> d2, q |-> inbound])
    BY <1>a, <1>b, <1>4, <1>5, Zenon
  <2>2. QED
    BY <2>1 DEF Becomes
<1>8. r \in Seq(Command) /\ Grows(inbound, r, s) /\ Has(r, Opened(s))
  BY <1>2, PushGrows, PushFacts DEF Opened
<1>9. Grows(inbound, inbound, s)
  BY DEF Grows
<1>10. /\ \A y : Has(r, y) <=> Has(inbound, y) \/ y = Opened(s)
       /\ \A y : IsLast(inbound, y) /\ (Has(inbound, y) => Opened(s).s # y.s) => IsLast(r, y)
  BY <1>2, PushFacts
<1> HIDE DEF r
<1>11. /\ conn'[s].state = "open" /\ (\A t \in Session \ {s} : conn'[t] = conn[t]) /\ TypeOK'
       /\ Grows(inbound, inbound', s)
       /\ "never registered" \in conn'[s].past \/ Has(inbound', Opened(s))
  BY <1>0, <1>1, <1>3, <1>6, <1>7, <1>8, <1>9, Zenon DEF TypeOK
<1>12. ~Over(s) /\ ~Has(inbound, CancelAll(s)) /\ IsLast(inbound, CancelAll(s))
  BY <1>0, <1>1 DEF SessionInv, Leaving
<1>13. ~Has(inbound', CancelAll(s)) /\ IsLast(inbound', CancelAll(s))
  <2>1. Opened(s) # CancelAll(s)
    BY DEF Opened, CancelAll
  <2>2. QED
    BY <2>1, <1>7, <1>10, <1>12
<1>14. ~Over(s)'
  BY <1>1, <1>11, <1>12, Zenon DEF Over, Buried
<1>15. ASSUME NEW t \in Session PROVE SessionInv(t)'
  <2>1. SessionInv(t)
    BY <1>0
  <2>2. CASE t = s
    BY <2>1, <2>2, <1>1, <1>11, <1>13, <1>14, Zenon DEF SessionInv, Over
  <2>3. CASE t # s
    <3>1. /\ IsLast(inbound, CancelAll(t)) => IsLast(inbound', CancelAll(t))
          /\ Has(inbound', CancelAll(t)) => Has(inbound, CancelAll(t))
          /\ NothingOf(inbound, t) => NothingOf(inbound', t)
      BY <1>11, <2>3, Zenon DEF Grows
    <3>2. (Over(t)' <=> Over(t)) /\ (Buried(t)' <=> Buried(t)) /\ (Leaving(t)' <=> Leaving(t))
      BY <1>1, <1>11, <2>3, Zenon DEF Over, Buried, Leaving
    <3>3. QED
      BY <2>1, <2>3, <3>1, <3>2, <1>1, <1>11, Zenon DEF SessionInv
  <2>4. QED
    BY <2>2, <2>3
<1>16. \A x : Has(inbound, x) => Has(inbound', x)
  BY <1>11, Zenon DEF Grows
<1>17. TombstoneArrives'
  <2>1. \A t \in Session : conn'[t].state = "retiring" => conn'[t] = conn[t]
    BY <1>11, Zenon
  <2>2. QED
    BY <2>1, <1>0, <1>1, <1>16, Zenon DEF TombstoneArrives
<1>18. ASSUME NEW t \in Session PROVE Announced(t)'
  <2>1. CASE t = s
    BY <2>1, <1>11, Zenon DEF Announced
  <2>2. CASE t # s
    BY <2>2, <1>0, <1>1, <1>11, <1>16, Zenon DEF Announced, Over, Buried
  <2>3. QED
    BY <2>1, <2>2
<1>19. QED
  BY <1>11, <1>15, <1>17, <1>18, Zenon DEF TInv, IInv
-----------------------------------------------------------------------------
(* The matching thread pushes its next event, or loses it. *)
LEMMA EmitPreserves ==
  ASSUME TInv, emit
  PROVE  TInv'
<1> DEFINE e == Head(thread.pending)
           full == Len(egress[e.s]) >= EgressCap
           rest == Tail(thread.pending)
           lost == IF full /\ e.type = "Retired" THEN thread.lost \cup {e.s} ELSE thread.lost
<1>0. TypeOK /\ (\A t \in Session : SessionInv(t)) /\ TombstoneArrives
      /\ \A t \in Session : Announced(t)
  BY DEF TInv, IInv
<1>1. thread \in MatchingThread /\ thread.pending \in Seq(Notice) /\ thread.pending # <<>>
  BY <1>0 DEF TypeOK, MatchingThread, emit
<1>2. /\ e \in Notice /\ rest \in Seq(Notice) /\ Has(thread.pending, e)
      /\ \A y : Has(thread.pending, y) <=> Has(rest, y) \/ y = e
      /\ \A t : NothingOf(thread.pending, t) <=> NothingOf(rest, t) /\ e.s # t
      /\ \A y : IsLast(thread.pending, y) => IsLast(rest, y)
      /\ IsLast(thread.pending, e) => NothingOf(rest, e.s)
  BY <1>1, PopFacts
<1>3. /\ conn' = conn /\ inbound' = inbound /\ net' = net /\ sent' = sent
      /\ egress' = [egress EXCEPT ![e.s] = IF full THEN egress[e.s] ELSE Append(egress[e.s], e)]
      /\ overflowed' = [overflowed EXCEPT ![e.s] = overflowed[e.s] \/ (full /\ e.type # "Retired")]
      /\ thread' = [thread EXCEPT !.pending = rest, !.lost = lost]
  BY DEF emit
<1>4. e.s \in Session /\ e \in Mail(e.s)
  BY <1>2 DEF Notice, Mail
<1>5. /\ thread' \in MatchingThread /\ thread'.pending = rest /\ thread'.lost = lost
      /\ thread'.registered = thread.registered /\ thread'.live = thread.live
  BY <1>1, <1>2, <1>3, <1>4, Zenon DEF MatchingThread
<1>a. thread.lost \subseteq thread'.lost /\ (full /\ e.type = "Retired" => e.s \in thread'.lost)
  BY <1>5, SMTT(30)
<1> HIDE DEF e, full, rest, lost
<1>6. /\ Append(egress[e.s], e) \in Seq(Mail(e.s)) /\ Append(egress[e.s], e) \in Seq(Notice)
      /\ Has(Append(egress[e.s], e), e)
      /\ \A y : Has(Append(egress[e.s], e), y) <=> Has(egress[e.s], y) \/ y = e
  BY <1>0, <1>2, <1>4, PushFacts DEF SessionInv, TypeOK
<1>7. TypeOK'
  BY <1>0, <1>3, <1>4, <1>5, <1>6 DEF TypeOK
<1>8. /\ \A t \in Session \ {e.s} : egress'[t] = egress[t]
      /\ egress'[e.s] = egress[e.s] \/ egress'[e.s] = Append(egress[e.s], e)
      /\ ~full => egress'[e.s] = Append(egress[e.s], e)
  BY <1>0, <1>3, <1>4 DEF TypeOK
<1>9. \A t \in Session : egress'[t] \in Seq(Mail(t))
  BY <1>0, <1>6, <1>8, Zenon DEF SessionInv
<1>10. ASSUME NEW t \in Session
       PROVE  /\ Has(egress[t], Retired(t)) => Has(egress'[t], Retired(t))
              /\ Has(egress'[t], Retired(t)) => Has(egress[t], Retired(t)) \/ e = Retired(t)
              /\ e = Retired(t) => Has(egress'[t], Retired(t)) \/ t \in thread'.lost
  <2>1. e = Retired(t) => e.s = t /\ e.type = "Retired"
    BY DEF Retired
  <2>2. QED
    BY <2>1, <1>6, <1>8, <1>a, Zenon
<1>11. \A t \in Session : /\ Over(t)' => Over(t)
                          /\ Over(t) => Over(t)' \/ t \in thread'.lost
                          /\ Buried(t)' <=> Buried(t)
                          /\ Leaving(t)' <=> Leaving(t)
  BY <1>2, <1>3, <1>5, <1>10, Zenon DEF Over, Buried, Leaving
<1>12. ASSUME NEW t \in Session PROVE SessionInv(t)'
  <2>1. SessionInv(t)
    BY <1>0
  <2>2. Has(egress'[t], Retired(t)) \/ Buried(t) => NothingOf(rest, t)
    <3>1. CASE e = Retired(t)
      <4>1. e.s = t
        BY <3>1, SMTT(30) DEF Retired
      <4>2. QED
        BY <4>1, <3>1, <2>1, <1>2 DEF SessionInv
    <3>2. CASE e # Retired(t)
      BY <3>2, <2>1, <1>2, <1>10, SMTT(30) DEF SessionInv
    <3>3. QED
      BY <3>1, <3>2
  <2>3. IsLast(rest, Retired(t))
    BY <2>1, <1>2 DEF SessionInv
  <2>4. QED
    BY <2>1, <2>2, <2>3, <1>3, <1>5, <1>9, <1>11 DEF SessionInv
<1>13. TombstoneArrives'
  <2>1. ASSUME NEW t \in Session, conn[t].state = "retiring",
               "never registered" \notin conn[t].past, t \notin thread'.lost
        PROVE  Has(inbound, CancelAll(t)) \/ Has(rest, Retired(t)) \/ Has(egress'[t], Retired(t))
    <3>1. \/ Has(inbound, CancelAll(t)) \/ Has(thread.pending, Retired(t))
          \/ Has(egress[t], Retired(t))
      BY <2>1, <1>0, <1>a, Zenon DEF TombstoneArrives, CancelAll, Retired
    <3>2. QED
      BY <2>1, <3>1, <1>2, <1>10, Zenon
  <2>2. QED
    BY <2>1, <1>3, <1>5, Zenon DEF TombstoneArrives, CancelAll, Retired
<1>14. ASSUME NEW t \in Session PROVE Announced(t)'
  <2>1. Announced(t)
    BY <1>0
  <2>2. QED
    BY <2>1, <1>3, <1>5, <1>11, <1>a, Zenon DEF Announced
<1>15. QED
  BY <1>7, <1>12, <1>13, <1>14 DEF TInv, IInv

(* An event is put down for a session that is registered, and for no other. *)
LEMMA EventFacts ==
  ASSUME NEW t \in MatchingThread, NEW e \in Notice
  PROVE  /\ Event(t, e) \in MatchingThread
         /\ Event(t, e).registered = t.registered /\ Event(t, e).lost = t.lost
         /\ Event(t, e).live = t.live /\ Event(t, e).by_client = t.by_client
         /\ Event(t, e).pending = IF e.s \in t.registered THEN Append(t.pending, e) ELSE t.pending
<1>1. t.pending \in Seq(Notice) /\ Append(t.pending, e) \in Seq(Notice)
  BY PushFacts DEF MatchingThread
<1>2. QED
  BY <1>1, Zenon DEF Event, MatchingThread

(* What a New or a Cancel of s may do, from t to u: it makes no tombstone and no
   event for a session that is not registered, and adds no order but of s. *)
Works(t, u, s) ==
  /\ u \in MatchingThread /\ u.registered = t.registered /\ u.lost = t.lost
  /\ \A o \in u.live : o \in t.live \/ o.s = s
  /\ \A x : ~Has(t.pending, Retired(x)) => ~Has(u.pending, Retired(x))
  /\ \A x : x \notin t.registered /\ NothingOf(t.pending, x) => NothingOf(u.pending, x)

(* It is made of such steps. *)
LEMMA WorksTrans ==
  ASSUME NEW t, NEW u, NEW v, NEW s, Works(t, u, s), Works(u, v, s)
  PROVE  Works(t, v, s)
  BY DEF Works

(* Every event but the tombstone is one. *)
LEMMA EventWorks ==
  ASSUME NEW t \in MatchingThread, NEW e \in Notice, e.type # "Retired", NEW s
  PROVE  Works(t, Event(t, e), s)
<1> DEFINE u == Event(t, e)
<1>1. /\ u \in MatchingThread /\ u.registered = t.registered /\ u.lost = t.lost /\ u.live = t.live
      /\ u.pending = IF e.s \in t.registered THEN Append(t.pending, e) ELSE t.pending
  BY EventFacts
<1>2. t.pending \in Seq(Notice)
  BY DEF MatchingThread
<1>3. /\ \A y : Has(Append(t.pending, e), y) <=> Has(t.pending, y) \/ y = e
      /\ \A x : NothingOf(Append(t.pending, e), x) <=> NothingOf(t.pending, x) /\ e.s # x
  BY <1>2, PushFacts
<1>4. \A x : e # Retired(x)
  BY DEF Retired
<1> HIDE DEF u
<1>5. \A x : ~Has(t.pending, Retired(x)) => ~Has(u.pending, Retired(x))
  BY <1>1, <1>3, <1>4
<1>6. \A x : x \notin t.registered /\ NothingOf(t.pending, x) => NothingOf(u.pending, x)
  BY <1>1, <1>3
<1>7. Works(t, u, s)
  BY <1>1, <1>5, <1>6 DEF Works
<1>8. QED
  BY <1>7 DEF u

(* An order is forgotten. *)
LEMMA ForgetFacts ==
  ASSUME NEW t \in MatchingThread, NEW o
  PROVE  /\ forget_order(t, o) \in MatchingThread
         /\ forget_order(t, o).registered = t.registered /\ forget_order(t, o).pending = t.pending
         /\ forget_order(t, o).lost = t.lost
         /\ forget_order(t, o).live = t.live \ {o}
         /\ forget_order(t, o).by_client = {b \in t.by_client : <<b.s, b.coid>> # <<o.s, o.coid>>}
  BY Zenon DEF forget_order, MatchingThread

(* It is a step of that kind. *)
LEMMA ForgetWorks ==
  ASSUME NEW t \in MatchingThread, NEW o, NEW s
  PROVE  Works(t, forget_order(t, o), s)
  BY ForgetFacts, ZenonT(40) DEF Works

(* An order is filled. *)
LEMMA FillWorks ==
  ASSUME NEW t \in MatchingThread, NEW o \in Order, NEW s
  PROVE  Works(t, route_fill(t, o), s)
<1> DEFINE u == forget_order(t, o)
           e == [type |-> "Fill", s |-> o.s, coid |-> o.coid]
<1>1. Works(t, u, s)
  BY ForgetWorks
<1>2. e \in Notice /\ e.type # "Retired"
  BY DEF Notice, Order
<1>3. route_fill(t, o) = Event(u, e)
  BY DEF route_fill
<1> HIDE DEF u, e
<1>4. u \in MatchingThread
  BY <1>1 DEF Works
<1>5. Works(u, Event(u, e), s)
  BY <1>2, <1>4, EventWorks
<1>6. QED
  BY <1>1, <1>3, <1>5, WorksTrans

(* A new order rests, is acknowledged and may be filled. *)
LEMMA NewWorks ==
  ASSUME NEW t \in MatchingThread, NEW c \in Command, c.type = "New", NEW fills \in Trades(t, c)
  PROVE  Works(t, ApplyNew(t, c, fills), c.s)
<1> DEFINE o == NewOrderOf(t, c)
           B == {b \in t.by_client : <<b.s, b.coid>> # <<c.s, c.coid>>} \cup {o}
           u == [t EXCEPT !.next_id = @ + 1, !.live = @ \cup {o}, !.by_client = B]
           e == [type |-> "Ack", s |-> c.s, coid |-> c.coid, closes |-> FALSE]
           v == Event(u, e)
<1>1. c.s \in Session /\ c.coid \in ClientId
  BY DEF Command
<1>2. o \in Order /\ o.s = c.s
  BY <1>1 DEF NewOrderOf, Order, MatchingThread
<1>3. B \in SUBSET Order /\ t.live \cup {o} \in SUBSET Order /\ t.next_id + 1 \in Nat
  BY <1>2 DEF MatchingThread
<1>4. ApplyNew(t, c, fills) =
        IF fills = <<>> THEN v ELSE route_fill(route_fill(v, fills[1]), fills[2])
  BY DEF ApplyNew
<1>5. e \in Notice /\ e.type # "Retired"
  BY <1>1 DEF Notice
<1>6. fills # <<>> => fills[1] \in Order /\ fills[2] \in Order
  BY <1>2 DEF Trades, MatchingThread
<1> HIDE DEF B, o, e
<1>7. /\ u \in MatchingThread /\ u.registered = t.registered /\ u.lost = t.lost
      /\ u.live = t.live \cup {o} /\ u.pending = t.pending
  BY <1>3, Zenon DEF MatchingThread
<1> HIDE DEF u
<1>8. Works(t, u, c.s)
  BY <1>2, <1>7 DEF Works
<1>9. Works(u, v, c.s)
  BY <1>5, <1>7, EventWorks
<1> HIDE DEF v
<1>10. Works(t, v, c.s) /\ v \in MatchingThread
  BY <1>8, <1>9, WorksTrans, Zenon DEF Works
<1>11. ASSUME fills # <<>>
       PROVE  Works(t, route_fill(route_fill(v, fills[1]), fills[2]), c.s)
  <2>1. Works(v, route_fill(v, fills[1]), c.s)
    BY <1>6, <1>10, <1>11, FillWorks, Zenon
  <2>2. route_fill(v, fills[1]) \in MatchingThread
    BY <2>1 DEF Works
  <2>3. Works(route_fill(v, fills[1]), route_fill(route_fill(v, fills[1]), fills[2]), c.s)
    BY <1>6, <1>11, <2>2, FillWorks
  <2>4. QED
    BY <1>10, <2>1, <2>3, WorksTrans
<1>12. QED
  BY <1>4, <1>10, <1>11

(* An order is cancelled, or the Cancel is rejected. *)
LEMMA CancelWorks ==
  ASSUME NEW t \in MatchingThread, NEW c \in Command, c.type = "Cancel"
  PROVE  Works(t, ApplyCancel(t, c), c.s)
<1> DEFINE found == {b \in t.by_client : <<b.s, b.coid>> = <<c.s, c.coid>>}
           u == forget_order(t, CHOOSE b \in found : TRUE)
           ack == [type |-> "Ack", s |-> c.s, coid |-> c.coid, closes |-> TRUE]
           no == [type |-> "Reject", s |-> c.s, coid |-> c.coid]
<1>1. ack \in Notice /\ ack.type # "Retired" /\ no \in Notice /\ no.type # "Retired"
  BY DEF Notice, Command
<1>2. ApplyCancel(t, c) \in {Event(t, no), Event(u, ack)}
  BY DEF ApplyCancel
<1>3. Works(t, u, c.s)
  BY ForgetWorks, SMTT(30)
<1> HIDE DEF u, ack, no
<1>4. Works(u, Event(u, ack), c.s)
  BY <1>1, <1>3, EventWorks DEF Works
<1>5. Works(t, Event(t, no), c.s) /\ Works(t, Event(u, ack), c.s)
  BY <1>1, <1>3, <1>4, EventWorks, WorksTrans
<1>6. QED
  BY <1>2, <1>5

(* The matching thread applies the next command. *)
LEMMA ApplyPreserves ==
  ASSUME TInv, apply
  PROVE  TInv'
<1> DEFINE rest == Tail(inbound)
<1>0. TypeOK /\ (\A x \in Session : SessionInv(x)) /\ TombstoneArrives
      /\ \A x \in Session : Announced(x)
  BY DEF TInv, IInv
<1>1. /\ inbound' = rest /\ conn' = conn /\ egress' = egress /\ overflowed' = overflowed
      /\ net' = net /\ sent' = sent /\ thread.pending = <<>> /\ inbound # <<>>
  BY Zenon DEF apply
<1>a. PICK c \in Command : c = Head(inbound)
  BY <1>0, <1>1, PopFacts DEF TypeOK
<1>b. PICK s \in Session : s = c.s
  BY SMTT(30) DEF Command
<1>2. /\ c \in Command /\ rest \in Seq(Command) /\ Has(inbound, c)
      /\ \A y : Has(inbound, y) <=> Has(rest, y) \/ y = c
      /\ \A x : NothingOf(inbound, x) <=> NothingOf(rest, x) /\ s # x
      /\ \A y : IsLast(inbound, y) => IsLast(rest, y)
      /\ IsLast(inbound, c) => NothingOf(rest, s)
  BY <1>0, <1>1, <1>a, <1>b, PopFacts DEF TypeOK
<1>3. s \in Session /\ thread \in MatchingThread
  BY <1>0, Zenon DEF TypeOK
<1>4. \A x : ~Has(thread.pending, Retired(x)) /\ NothingOf(thread.pending, x)
  BY <1>1 DEF Has, NothingOf
<1>5. \A q, y : ~Has(q, y) => IsLast(q, y)
  BY DEF Has, IsLast
<1>6. \A x \in Session : (Buried(x)' <=> Buried(x)) /\ (Leaving(x)' <=> Leaving(x))
  BY <1>1, Zenon DEF Buried, Leaving
<1>7. \A x \in Session : Over(x) => s # x
  BY <1>0, <1>2 DEF SessionInv
<1>8. CASE c.type # "CancelAll"
  <2>1. /\ thread' \in MatchingThread /\ thread'.lost = thread.lost
        /\ \A x : x \in thread'.registered <=>
                    x \in thread.registered \/ (c.type = "SessionOpened" /\ x = s)
        /\ \A o \in thread'.live : o \in thread.live \/ o.s = s
        /\ \A x : ~Has(thread'.pending, Retired(x))
        /\ \A x : x \notin thread.registered => NothingOf(thread'.pending, x)
    <3>1. CASE c.type = "SessionOpened"
      <4>1. thread' = [thread EXCEPT !.registered = @ \cup {s}]
        BY <3>1, <1>a, <1>b DEF apply
      <4>2. QED
        BY <4>1, <3>1, <1>3, <1>4 DEF MatchingThread
    <3>2. CASE c.type # "SessionOpened"
      <4>1. Works(thread, thread', s)
        <5>1. CASE c.type = "New"
          <6>1. PICK fills \in Trades(thread, c) : thread' = ApplyNew(thread, c, fills)
            BY <5>1, <1>a DEF apply
          <6>2. QED
            BY <6>1, <5>1, <1>b, <1>3, NewWorks
        <5>2. CASE c.type = "Cancel"
          <6>1. thread' = ApplyCancel(thread, c)
            BY <5>2, <1>a, SMTT(30) DEF apply
          <6>2. QED
            BY <6>1, <5>2, <1>b, <1>3, CancelWorks
        <5>3. QED
          BY <5>1, <5>2, <3>2, <1>8, <1>2 DEF Command
      <4>2. QED
        BY <4>1, <3>2, <1>4 DEF Works
    <3>3. QED
      BY <3>1, <3>2
  <2> HIDE DEF rest
  <2>2. TypeOK'
    BY <1>0, <1>1, <1>2, <2>1 DEF TypeOK
  <2>3. \A x \in Session : Over(x)' <=> Over(x)
    BY <1>1, <1>4, <1>6, <2>1, ZenonT(60) DEF Over
  <2>4. ASSUME NEW x \in Session PROVE SessionInv(x)'
    <3>1. SessionInv(x)
      BY <1>0, SMTT(30)
    <3>2. IsLast(rest, CancelAll(x)) /\ (Has(rest, CancelAll(x)) => Leaving(x))
      BY <3>1, <1>2 DEF SessionInv
    <3>3. IsLast(thread'.pending, Retired(x))
      BY <1>5, <2>1, Zenon
    <3>4. Over(x) => /\ Leaving(x) /\ x \notin thread'.registered
                     /\ NothingOf(rest, x) /\ \A o \in thread'.live : o.s # x
      BY <3>1, <1>2, <1>7, <2>1, SMTT(30) DEF SessionInv
    <3>5. Has(egress[x], Retired(x)) \/ Buried(x) => NothingOf(thread'.pending, x)
      BY <3>1, <2>1, Zenon DEF SessionInv, Over
    <3>6. egress'[x] \in Seq(Mail(x)) /\ (net' = x => conn'[x].state # "none")
      BY <3>1, <1>1 DEF SessionInv
    <3>7. QED
      BY <3>2, <3>3, <3>4, <3>5, <3>6, <1>1, <1>6, <2>3 DEF SessionInv
  <2>5. \A x : Has(inbound, CancelAll(x)) => Has(rest, CancelAll(x))
    BY <1>2, <1>8 DEF CancelAll
  <2>6. TombstoneArrives'
    BY <1>0, <1>1, <1>4, <2>1, <2>5, Zenon DEF TombstoneArrives, CancelAll, Retired
  <2>7. ASSUME NEW x \in Session PROVE Announced(x)'
    <3>1. Has(inbound, Opened(x)) => Has(rest, Opened(x)) \/ x \in thread'.registered
      <4>1. c = Opened(x) => c.type = "SessionOpened" /\ s = x
        BY <1>b DEF Opened
      <4>2. QED
        BY <4>1, <1>2, <2>1
    <3>2. QED
      BY <3>1, <1>0, <1>1, <2>1, <2>3, Zenon DEF Announced
  <2>8. QED
    BY <2>2, <2>4, <2>6, <2>7 DEF TInv, IInv
<1>9. CASE c.type = "CancelAll"
  <2> DEFINE gone == [thread EXCEPT !.live = {o \in @ : o.s # s}, !.by_client = {b \in @ : b.s # s}]
             u == Event(gone, Retired(s))
  <2>1. thread' = [u EXCEPT !.registered = @ \ {s}]
    BY <1>9, <1>a, <1>b, Zenon DEF apply, ApplyCancelAll, Retired
  <2>2. /\ gone \in MatchingThread /\ gone.live = {o \in thread.live : o.s # s}
        /\ gone.registered = thread.registered /\ gone.lost = thread.lost /\ gone.pending = <<>>
    BY <1>1, <1>3, Zenon DEF MatchingThread
  <2> HIDE DEF gone
  <2>3. Retired(s) \in Notice /\ Retired(s).s = s
    BY <1>3 DEF Retired, Notice
  <2>4. /\ u \in MatchingThread /\ u.registered = thread.registered /\ u.lost = thread.lost
        /\ u.live = {o \in thread.live : o.s # s}
        /\ u.pending = IF s \in thread.registered THEN Append(<<>>, Retired(s)) ELSE <<>>
    BY <2>2, <2>3, EventFacts, ZenonT(30)
  <2> HIDE DEF u
  <2>5. /\ thread' \in MatchingThread /\ thread'.registered = thread.registered \ {s}
        /\ thread'.lost = thread.lost /\ thread'.live = {o \in thread.live : o.s # s}
        /\ thread'.pending = u.pending
    BY <2>1, <2>4 DEF MatchingThread
  <2>6. /\ \A x : Has(thread'.pending, Retired(x)) <=> x = s /\ s \in thread.registered
        /\ \A x : x # s => NothingOf(thread'.pending, x)
        /\ \A x : IsLast(thread'.pending, Retired(x))
    <3>1. \A x : ~Has(<<>>, Retired(x)) /\ NothingOf(<<>>, x) /\ IsLast(<<>>, Retired(x))
      BY DEF Has, NothingOf, IsLast
    <3>2. <<>> \in Seq(Notice)
      OBVIOUS
    <3>3. /\ \A y : Has(Append(<<>>, Retired(s)), y) <=> Has(<<>>, y) \/ y = Retired(s)
          /\ \A x : NothingOf(Append(<<>>, Retired(s)), x) <=>
                      NothingOf(<<>>, x) /\ Retired(s).s # x
          /\ \A y : IsLast(<<>>, y) /\ (Has(<<>>, y) => Retired(s).s # y.s) =>
                      IsLast(Append(<<>>, Retired(s)), y)
      BY <2>3, <3>2, PushFacts, Zenon
    <3>4. \A x : Retired(x) = Retired(s) <=> x = s
      BY DEF Retired
    <3>5. QED
      BY <3>1, <3>3, <3>4, <2>3, <2>4, <2>5
  <2>7. c = CancelAll(s)
    BY <1>b, <1>9 DEF Command, CancelAll
  <2> HIDE DEF rest
  <2>8. Leaving(s) /\ ~Over(s) /\ NothingOf(rest, s)
    BY <2>7, <1>0, <1>2, <1>3, <1>7, ZenonT(60) DEF SessionInv
  <2>9. TypeOK'
    BY <1>0, <1>1, <1>2, <2>5 DEF TypeOK
  <2>10. ASSUME NEW x \in Session PROVE SessionInv(x)'
    <3>1. SessionInv(x)
      BY <1>0, SMTT(30)
    <3>2. IsLast(rest, CancelAll(x)) /\ (Has(rest, CancelAll(x)) => Leaving(x))
      BY <3>1, <1>2 DEF SessionInv
    <3>3. Over(x)' => x = s \/ Over(x)
      BY <1>1, <1>6, <2>6, ZenonT(60) DEF Over
    <3>4. Over(x)' => /\ Leaving(x) /\ x \notin thread'.registered
                      /\ NothingOf(rest, x) /\ \A o \in thread'.live : o.s # x
      BY <3>1, <3>3, <1>2, <2>5, <2>8 DEF SessionInv
    <3>5. Has(egress[x], Retired(x)) \/ Buried(x) => NothingOf(thread'.pending, x)
      BY <2>6, <2>8 DEF Over
    <3>6. egress'[x] \in Seq(Mail(x)) /\ (net' = x => conn'[x].state # "none")
      BY <3>1, <1>1 DEF SessionInv
    <3>7. QED
      BY <3>2, <3>4, <3>5, <3>6, <1>1, <1>6, <2>6, Zenon DEF SessionInv
  <2>11. conn[s].state = "retiring" /\ "never registered" \notin conn[s].past
         /\ s \notin thread.lost =>
           s \in thread.registered
    <3>1. ~Has(inbound, Opened(s))
      <4>1. \A k \in 1 .. Len(rest) : rest[k] # Opened(s)
        BY <2>8 DEF NothingOf, Opened
      <4>2. c # Opened(s)
        BY <1>9 DEF Opened
      <4>3. QED
        BY <4>1, <4>2, <1>2, Zenon DEF Has
    <3>2. QED
      BY <3>1, <2>8, <1>0, <1>3, Zenon DEF Announced
  <2>12. \A x \in Session \ {s} : /\ Has(inbound, CancelAll(x)) => Has(rest, CancelAll(x))
                                  /\ Has(inbound, Opened(x)) => Has(rest, Opened(x))
    <3>1. \A x \in Session \ {s} : c # CancelAll(x) /\ c # Opened(x)
      BY <2>7 DEF CancelAll, Opened
    <3>2. QED
      BY <3>1, <1>2, Zenon
  <2>13. TombstoneArrives'
    <3>1. ASSUME NEW x \in Session, conn[x].state = "retiring",
                 "never registered" \notin conn[x].past, x \notin thread.lost
          PROVE  \/ Has(rest, CancelAll(x))
                 \/ Has(thread'.pending, Retired(x)) \/ Has(egress[x], Retired(x))
      <4>1. \/ Has(inbound, CancelAll(x)) \/ Has(thread.pending, Retired(x))
            \/ Has(egress[x], Retired(x))
        BY <3>1, <1>0, Zenon DEF TombstoneArrives, CancelAll, Retired
      <4>2. CASE x = s
        BY <4>2, <3>1, <2>6, <2>11, Zenon
      <4>3. CASE x # s
        BY <4>1, <4>3, <1>4, <2>12
      <4>4. QED
        BY <4>2, <4>3
    <3>2. QED
      BY <3>1, <1>1, <2>5, Zenon DEF TombstoneArrives, CancelAll, Retired
  <2>14. ASSUME NEW x \in Session PROVE Announced(x)'
    <3>1. CASE x = s
      <4>1. s \in thread.registered => Over(s)'
        BY <2>6 DEF Over
      <4>2. QED
        BY <3>1, <4>1, <1>1, <2>5, <2>8, <2>11, Zenon DEF Announced, Leaving
    <3>2. CASE x # s
      <4>1. Over(x) => Over(x)'
        BY <1>1, <1>4, <1>6 DEF Over
      <4>2. QED
        BY <3>2, <4>1, <1>0, <1>1, <2>5, <2>12, Zenon DEF Announced
    <3>3. QED
      BY <3>1, <3>2
  <2>15. QED
    BY <2>9, <2>10, <2>13, <2>14 DEF TInv, IInv
<1>10. QED
  BY <1>8, <1>9

(* A command that is dropped: a CancelAll is remembered as lost. *)
LEMMA DropPreserves ==
  ASSUME TInv, append_fails
  PROVE  TInv'
<1> DEFINE rest == Tail(inbound)
<1>0. TypeOK /\ (\A x \in Session : SessionInv(x)) /\ TombstoneArrives
      /\ \A x \in Session : Announced(x)
  BY DEF TInv, IInv
<1>1. /\ inbound' = rest /\ conn' = conn /\ egress' = egress /\ overflowed' = overflowed
      /\ net' = net /\ sent' = sent /\ inbound # <<>>
  BY Zenon DEF append_fails
<1>a. PICK c \in Command : c = Head(inbound)
  BY <1>0, <1>1, PopFacts DEF TypeOK
<1>b. PICK s \in Session : s = c.s
  BY SMTT(30) DEF Command
<1>2. /\ rest \in Seq(Command)
      /\ \A y : Has(inbound, y) <=> Has(rest, y) \/ y = c
      /\ \A x : NothingOf(inbound, x) => NothingOf(rest, x)
      /\ \A y : IsLast(inbound, y) => IsLast(rest, y)
  BY <1>0, <1>1, <1>a, <1>b, PopFacts DEF TypeOK
<1>3. thread \in MatchingThread
  BY <1>0, Zenon DEF TypeOK
<1>4. c.type # "SessionOpened"
  BY <1>a, Zenon DEF append_fails
<1>5. /\ thread' \in MatchingThread /\ thread'.registered = thread.registered
      /\ thread'.live = thread.live /\ thread'.pending = thread.pending
      /\ thread.lost \subseteq thread'.lost
      /\ c.type = "CancelAll" => s \in thread'.lost
  <2>1. CASE c.type = "CancelAll"
    <3>1. thread' = [thread EXCEPT !.lost = @ \cup {s}]
      BY <2>1, <1>a, <1>b, Zenon DEF append_fails
    <3>2. QED
      BY <3>1, <1>3 DEF MatchingThread
  <2>2. CASE c.type # "CancelAll"
    <3>1. thread' = [thread EXCEPT !.unlogged = @ \cup {s}]
      BY <2>2, <1>a, <1>b, Zenon DEF append_fails
    <3>2. QED
      BY <3>1, <2>2, <1>3 DEF MatchingThread
  <2>3. QED
    BY <2>1, <2>2, Zenon
<1> HIDE DEF rest
<1>6. TypeOK'
  BY <1>0, <1>1, <1>2, <1>5 DEF TypeOK
<1>7. \A x \in Session : /\ Buried(x)' <=> Buried(x)
                         /\ Leaving(x)' <=> Leaving(x)
                         /\ Over(x)' <=> Over(x)
  BY <1>1, <1>5, Zenon DEF Buried, Leaving, Over
<1>8. ASSUME NEW x \in Session PROVE SessionInv(x)'
  <2>1. SessionInv(x)
    BY <1>0, Zenon
  <2>2. IsLast(rest, CancelAll(x)) /\ (Has(rest, CancelAll(x)) => Leaving(x))
    BY <2>1, <1>2, Zenon DEF SessionInv
  <2>3. Over(x) => NothingOf(rest, x)
    BY <2>1, <1>2, Zenon DEF SessionInv
  <2>4. QED
    BY <2>1, <2>2, <2>3, <1>1, <1>5, <1>7, Zenon DEF SessionInv
<1>9. TombstoneArrives'
  <2>1. ASSUME NEW x \in Session PROVE c = CancelAll(x) => x \in thread'.lost
    BY <1>b, <1>5 DEF CancelAll
  <2>2. \A x \in Session : Has(inbound, CancelAll(x)) => Has(rest, CancelAll(x)) \/ x \in thread'.lost
    BY <2>1, <1>2, Zenon
  <2>3. QED
    BY <2>2, <1>0, <1>1, <1>5, Zenon DEF TombstoneArrives, CancelAll
<1>10. ASSUME NEW x \in Session PROVE Announced(x)'
  <2>1. c # Opened(x)
    BY <1>4 DEF Opened
  <2>2. Has(inbound, Opened(x)) => Has(rest, Opened(x))
    BY <2>1, <1>2, Zenon
  <2>3. QED
    BY <2>2, <1>0, <1>1, <1>5, <1>7, Zenon DEF Announced
<1>11. QED
  BY <1>6, <1>8, <1>9, <1>10, Zenon DEF TInv, IInv
-----------------------------------------------------------------------------
(* At the start there are no sessions. *)
LEMMA InitTInv == Init => TInv
<1> SUFFICES ASSUME Init PROVE TInv
  OBVIOUS
<1>1. TypeOK
  <2>1. NoConnection \in Connection
    BY SMTT(30) DEF NoConnection, Connection
  <2>2. thread \in MatchingThread
    BY DEF Init, MatchingThread
  <2>3. QED
    BY <2>1, <2>2 DEF Init, TypeOK
<1>2. \A x : ~Has(<<>>, x) /\ IsLast(<<>>, x) /\ NothingOf(<<>>, x)
  BY DEF Has, IsLast, NothingOf
<1>3. \A s \in Session : /\ conn[s].state = "none" /\ egress[s] = <<>> /\ inbound = <<>>
                         /\ thread.pending = <<>> /\ net # s
  BY SessionAssumption, Zenon DEF Init, NoConnection, Polling
<1>4. ASSUME NEW s \in Session PROVE SessionInv(s) /\ Announced(s)
  <2>1. <<>> \in Seq(Mail(s))
    OBVIOUS
  <2>2. QED
    BY <2>1, <1>2, <1>3, Zenon DEF SessionInv, Announced, Over, Buried
<1>5. TombstoneArrives
  BY <1>3, Zenon DEF TombstoneArrives
<1>6. QED
  BY <1>1, <1>4, <1>5 DEF TInv, IInv

(* Every step of either thread keeps the invariant. *)
LEMMA NextTInv == TInv /\ [Next]_vars => TInv'
<1> SUFFICES ASSUME TInv, [Next]_vars PROVE TInv'
  OBVIOUS
<1>1. ASSUME NEW s \in Session, accept_new(s) PROVE TInv'
  BY <1>1, AcceptPreserves
<1>2. ASSUME NEW s \in Session, TimedOut(s) \/ Close(s) \/ Drain(s) \/ DrainEnd(s) PROVE TInv'
  BY <1>2, ClosePreserves
<1>3. ASSUME NEW s \in Session, NEW coid \in ClientId, NEW fits \in BOOLEAN,
             DispatchNewOrder(s, coid, fits) \/ DispatchCancel(s, coid, fits)
      PROVE  TInv'
  BY <1>3, DispatchPreserves
<1>4. ASSUME NEW s \in Session, NEW fits \in BOOLEAN, DrainPop(s, fits) PROVE TInv'
  BY <1>4, PopPreserves
<1>5. CASE apply
  BY <1>5, ApplyPreserves
<1>6. CASE emit
  BY <1>6, EmitPreserves
<1>a. CASE append_fails
  BY <1>a, DropPreserves
<1>7. CASE UNCHANGED vars
  BY <1>7, Zenon DEF vars, TInv, IInv, TypeOK, SessionInv, TombstoneArrives, Announced, Over,
     Buried,
                     Leaving
<1>8. QED
  BY <1>1, <1>2, <1>3, <1>4, <1>5, <1>6, <1>7, <1>a DEF Next, Popping

(* The invariant of the tombstone protocol. *)
THEOREM LifecycleInvariant == Spec => []TInv
  BY InitTInv, NextTInv, PTL DEF Spec

(* A Connection is freed only when the matching thread has no order, no
   command, no queue and no event of it, unless the disconnect found inbound
   full: TcpServer::close_connection may delete the EgressQueue. *)
THEOREM FreedForgotten == Spec => []FreedIsForgotten
<1>1. TInv => FreedIsForgotten
  BY Zenon DEF TInv, IInv, SessionInv, FreedIsForgotten, Over, Buried
<1>2. QED
  BY <1>1, LifecycleInvariant, PTL

(* A Connection that waits has its tombstone on the way, in inbound as a
   CancelAll or as SessionRetired in the events, unless a full queue lost it, the
   append of the CancelAll to the log failed or SessionOpened was refused. *)
THEOREM TombstoneOnTheWay == Spec => []TombstoneArrives
<1>1. TInv => TombstoneArrives
  BY DEF TInv
<1>2. QED
  BY <1>1, LifecycleInvariant, PTL
=============================================================================
