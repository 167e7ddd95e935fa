--------------------------- MODULE ClientIdProofs ---------------------------
(***************************************************************************)
(* A client order id is unique among the live orders of a session whose    *)
(* client waits for its answers, for any number of sessions, ids and any   *)
(* capacity of the queues.                                                 *)
(*                                                                         *)
(* The network thread keeps the ids in use in live_orders_, the matching   *)
(* thread the orders themselves, and neither sees the other's: what binds  *)
(* them is in flight.  The invariant is a ledger of each session: an id    *)
(* has one holder, which is the order, the command on its way to place it, *)
(* or the event on its way that gives it back; live_orders_ has every id   *)
(* that is held; and a client that waits is owed one answer at most, so    *)
(* that the Reject that frees an id comes behind the end of its order.     *)
(***************************************************************************)
EXTENDS SessionLifecycleProofs

(* Counting what is under way: no more than one element of q is in P, and what
   a queue has in A is never followed by anything in B. *)
Any(q, P) == \E k \in 1 .. Len(q) : q[k] \in P
AtMostOne(q, P) == \A i, j \in 1 .. Len(q) : q[i] \in P /\ q[j] \in P => i = j
Behind(q, A, B) == \A i, j \in 1 .. Len(q) : i < j /\ q[i] \in A => q[j] \notin B

(* At most one of all that is in A in inbound q, or in B among the events still
   to be pushed p and those in the session's queue e. *)
Single(q, p, e, A, B) ==
  /\ AtMostOne(q, A) /\ AtMostOne(p, B) /\ AtMostOne(e, B)
  /\ Any(q, A) => ~Any(p, B) /\ ~Any(e, B)
  /\ Any(p, B) => ~Any(e, B)

(* A message that is to be answered, and its answer. *)
Asks(s) == {x \in Command : x.s = s /\ x.type \in {"New", "Cancel"}}
Answers(s) == {x \in Notice : x.s = s /\ x.type \in {"Ack", "Reject"}}
Busy(s, q, p, e) == Any(q, Asks(s)) \/ Any(p, Answers(s)) \/ Any(e, Answers(s))

(* What holds the id c, besides an order: the order on its way to the book, or
   the event that will give the id back. *)
Placing(s, c) == {x \in Command : x.s = s /\ x.type = "New" /\ x.coid = c}
Closing(s, c) ==
  {x \in Notice : /\ x.s = s /\ x.coid = c
                  /\ x.type = "Fill" \/ (x.type = "Ack" /\ x.closes)}
Refusing(s, c) == {x \in Notice : x.s = s /\ x.type = "Reject" /\ x.coid = c}
Held(s, c, q, p, e) == Any(q, Placing(s, c)) \/ Any(p, Closing(s, c)) \/ Any(e, Closing(s, c))
Placed(s, c, L) == {o \in L : o.s = s /\ o.coid = c}

(* The id c has one holder, and what refuses a cancel of it comes after what
   closed its order. *)
Claims(s, c, q, p, e, L, B) ==
  /\ Single(q, p, e, Placing(s, c), Closing(s, c))
  /\ (\A o, x \in Placed(s, c, L) : o = x) /\ Placed(s, c, L) \subseteq B
  /\ Placed(s, c, L) # {} => ~Held(s, c, q, p, e)
  /\ Any(p, Refusing(s, c)) \/ Any(e, Refusing(s, c)) =>
       Placed(s, c, L) = {} /\ ~Any(q, Placing(s, c))
  /\ Behind(p, Refusing(s, c), Closing(s, c)) /\ Behind(e, Refusing(s, c), Closing(s, c))
  /\ Any(e, Refusing(s, c)) => ~Any(p, Closing(s, c))

(* A client that waits for its answers is owed one at most, and live_orders_
   has every id that is held. *)
Ledger(s, d, q, p, e, L, B) ==
  "pipelined" \notin d.past =>
    /\ d.owed \in {0, 1} /\ (Busy(s, q, p, e) => d.owed = 1)
    /\ Single(q, p, e, Asks(s), Answers(s))
    /\ \A c \in ClientId :
         /\ Claims(s, c, q, p, e, L, B)
         /\ Held(s, c, q, p, e) \/ Placed(s, c, L) # {} => c \in d.known

Books(t) == t.by_client \subseteq t.live
Ledgers(q, t) ==
  \A s \in Session : Ledger(s, conn[s], q, t.pending, egress[s], t.live, t.by_client)
UInv == TInv /\ Books(thread) /\ Ledgers(inbound, thread)
-----------------------------------------------------------------------------
(* Pushing and popping, in these terms. *)
LEMMA PushCounts ==
  ASSUME NEW S, NEW q \in Seq(S), NEW x \in S
  PROVE  /\ \A P : Any(Append(q, x), P) <=> Any(q, P) \/ x \in P
         /\ \A P : AtMostOne(q, P) /\ (x \in P => ~Any(q, P)) => AtMostOne(Append(q, x), P)
         /\ \A A, B : Behind(q, A, B) /\ (x \in B => ~Any(q, A)) => Behind(Append(q, x), A, B)
<1> DEFINE r == Append(q, x)
<1>1. /\ Len(q) \in Nat /\ Len(r) = Len(q) + 1 /\ r[Len(q) + 1] = x
      /\ \A k \in 1 .. Len(q) : r[k] = q[k]
  BY Appended
<1> HIDE DEF r
<1>2. \A k \in 1 .. Len(r) : k \in 1 .. Len(q) \/ k = Len(q) + 1
  BY <1>1
<1>3. /\ \A k \in 1 .. Len(q) : k \in 1 .. Len(r) /\ k < Len(q) + 1
      /\ Len(q) + 1 \in 1 .. Len(r)
  BY <1>1
<1>4. ASSUME NEW P PROVE Any(r, P) <=> Any(q, P) \/ x \in P
  BY <1>1, <1>2, <1>3 DEF Any
<1>5. ASSUME NEW P, AtMostOne(q, P), x \in P => ~Any(q, P) PROVE AtMostOne(r, P)
  BY <1>1, <1>2, <1>5 DEF Any, AtMostOne
<1>6. ASSUME NEW A, NEW B, Behind(q, A, B), x \in B => ~Any(q, A),
             NEW i \in 1 .. Len(r), NEW j \in 1 .. Len(r), i < j, r[i] \in A
      PROVE  r[j] \notin B
  <2>1. i \in 1 .. Len(q)
    BY <1>1, <1>6
  <2>2. Any(q, A)
    BY <2>1, <1>1, <1>6 DEF Any
  <2>3. QED
    BY <2>1, <2>2, <1>1, <1>2, <1>6 DEF Behind
<1>7. QED
  BY <1>4, <1>5, <1>6, Zenon DEF r, Behind

(* Popping takes the first element out of every count. *)
LEMMA PopCounts ==
  ASSUME NEW S, NEW q \in Seq(S), q # <<>>
  PROVE  /\ \A P : Any(q, P) <=> Any(Tail(q), P) \/ Head(q) \in P
         /\ \A P : AtMostOne(q, P) =>
                     AtMostOne(Tail(q), P) /\ (Head(q) \in P => ~Any(Tail(q), P))
         /\ \A A, B : Behind(q, A, B) =>
                        Behind(Tail(q), A, B) /\ (Head(q) \in A => ~Any(Tail(q), B))
<1> DEFINE r == Tail(q)
           x == Head(q)
<1>1. /\ x = q[1] /\ Len(q) \in Nat /\ Len(q) > 0
      /\ Len(r) = Len(q) - 1 /\ \A k \in 1 .. Len(r) : r[k] = q[k + 1]
  BY HeadTail
<1> HIDE DEF r, x
<1>2. \A k \in 1 .. Len(q) : k = 1 \/ (k - 1 \in 1 .. Len(r) /\ r[k - 1] = q[k])
  BY <1>1
<1>3. /\ 1 \in 1 .. Len(q)
      /\ \A k \in 1 .. Len(r) : k + 1 \in 1 .. Len(q) /\ 1 < k + 1 /\ r[k] = q[k + 1]
  BY <1>1
<1>4. ASSUME NEW P PROVE Any(q, P) <=> Any(r, P) \/ x \in P
  <2>1. ASSUME Any(q, P) PROVE Any(r, P) \/ x \in P
    BY <2>1, <1>1, <1>2 DEF Any
  <2>2. ASSUME Any(r, P) \/ x \in P PROVE Any(q, P)
    BY <2>2, <1>1, <1>3 DEF Any
  <2>3. QED
    BY <2>1, <2>2
<1>5. ASSUME NEW P, AtMostOne(q, P) PROVE AtMostOne(r, P) /\ (x \in P => ~Any(r, P))
  <2>1. ASSUME NEW i \in 1 .. Len(r), NEW j \in 1 .. Len(r), r[i] \in P, r[j] \in P PROVE i = j
    <3>1. i + 1 = j + 1
      BY <1>3, <1>5, <2>1 DEF AtMostOne
    <3>2. QED
      BY <3>1
  <2>2. ASSUME x \in P, NEW k \in 1 .. Len(r), r[k] \in P PROVE FALSE
    <3>1. 1 = k + 1
      BY <1>1, <1>3, <1>5, <2>2, Zenon DEF AtMostOne
    <3>2. QED
      BY <3>1
  <2>3. QED
    BY <2>1, <2>2 DEF Any, AtMostOne
<1>6. ASSUME NEW A, NEW B, Behind(q, A, B)
      PROVE  Behind(r, A, B) /\ (x \in A => ~Any(r, B))
  <2>1. ASSUME NEW i \in 1 .. Len(r), NEW j \in 1 .. Len(r), i < j, r[i] \in A PROVE r[j] \notin B
    <3>1. i + 1 < j + 1
      BY <2>1
    <3>2. QED
      BY <3>1, <1>3, <1>6, <2>1 DEF Behind
  <2>2. ASSUME x \in A, NEW k \in 1 .. Len(r) PROVE r[k] \notin B
    BY <1>1, <1>3, <1>6, <2>2 DEF Behind
  <2>3. QED
    BY <2>1, <2>2 DEF Any, Behind
<1>7. QED
  BY <1>4, <1>5, <1>6, Zenon DEF r, x

(* Nothing is in an empty queue. *)
LEMMA EmptyCounts ==
  /\ \A P : ~Any(<<>>, P) /\ AtMostOne(<<>>, P)
  /\ \A A, B : Behind(<<>>, A, B)
  BY DEF Any, AtMostOne, Behind
-----------------------------------------------------------------------------
(* What a session's ledger does not look at: the commands that ask nothing of
   it, the events of others and the tombstone. *)
News(s) == {x \in Notice : x.s = s /\ x.type # "Retired"}

(* How the kinds of messages include one another. *)
LEMMA Kinds ==
  ASSUME NEW s
  PROVE  /\ Answers(s) \subseteq News(s)
         /\ \A c : Placing(s, c) \subseteq Asks(s)
         /\ \A c : Closing(s, c) \subseteq News(s)
         /\ \A c : Refusing(s, c) \subseteq Answers(s)
         /\ \A c : \A x \in Closing(s, c) : x \notin Refusing(s, c)
  BY DEF Answers, News, Placing, Asks, Closing, Refusing

(* A command that asks nothing of s. *)
LEMMA LedgerPush ==
  ASSUME NEW q \in Seq(Command), NEW x \in Command, NEW s, x \notin Asks(s),
         NEW d, NEW p, NEW e, NEW L, NEW B, Ledger(s, d, q, p, e, L, B)
  PROVE  Ledger(s, d, Append(q, x), p, e, L, B)
<1> DEFINE r == Append(q, x)
<1>1. /\ Any(r, Asks(s)) <=> Any(q, Asks(s))
      /\ AtMostOne(q, Asks(s)) => AtMostOne(r, Asks(s))
  BY PushCounts
<1>2. ASSUME NEW c
      PROVE  /\ Any(r, Placing(s, c)) <=> Any(q, Placing(s, c))
             /\ AtMostOne(q, Placing(s, c)) => AtMostOne(r, Placing(s, c))
  <2>1. x \notin Placing(s, c)
    BY Kinds, Zenon
  <2>2. QED
    BY <2>1, PushCounts
<1> HIDE DEF r
<1>3. Ledger(s, d, r, p, e, L, B)
  BY <1>1, <1>2, Zenon DEF Ledger, Busy, Single, Claims, Held
<1>4. QED
  BY <1>3 DEF r

(* A command is taken from inbound. *)
LEMMA LedgerTake ==
  ASSUME NEW q \in Seq(Command), q # <<>>, NEW s,
         NEW d, NEW p, NEW e, NEW L, NEW B, Ledger(s, d, q, p, e, L, B)
  PROVE  Ledger(s, d, Tail(q), p, e, L, B)
<1> DEFINE r == Tail(q)
<1>1. \A P : (Any(r, P) => Any(q, P)) /\ (AtMostOne(q, P) => AtMostOne(r, P))
  BY PopCounts
<1> HIDE DEF r
<1>2. Ledger(s, d, r, p, e, L, B)
  BY <1>1, Zenon DEF Ledger, Busy, Single, Claims, Held
<1>3. QED
  BY <1>2 DEF r

(* An event that is not for s, or its tombstone, is made. *)
LEMMA LedgerNews ==
  ASSUME NEW p \in Seq(Notice), NEW x \in Notice, NEW s, x \notin News(s),
         NEW d, NEW q, NEW e, NEW L, NEW B, Ledger(s, d, q, p, e, L, B)
  PROVE  Ledger(s, d, q, Append(p, x), e, L, B)
<1> DEFINE r == Append(p, x)
<1>1. ASSUME NEW P, P \subseteq News(s)
      PROVE  (Any(r, P) <=> Any(p, P)) /\ (AtMostOne(p, P) => AtMostOne(r, P))
  <2>1. x \notin P
    BY <1>1
  <2>2. QED
    BY <2>1, PushCounts
<1>2. ASSUME NEW A, NEW P, P \subseteq News(s), Behind(p, A, P)
      PROVE  Behind(r, A, P)
  <2>1. x \notin P
    BY <1>2
  <2>2. QED
    BY <2>1, <1>2, PushCounts
<1> HIDE DEF r
<1>3. /\ Answers(s) \subseteq News(s)
      /\ \A c : Closing(s, c) \subseteq News(s) /\ Refusing(s, c) \subseteq News(s)
  BY Kinds, Zenon
<1>4. Ledger(s, d, q, r, e, L, B)
  BY <1>1, <1>2, <1>3, Zenon DEF Ledger, Busy, Single, Claims, Held
<1>5. QED
  BY <1>4 DEF r

(* An event is taken from those to be pushed, and dropped or for another. *)
LEMMA LedgerDrop ==
  ASSUME NEW p \in Seq(Notice), p # <<>>, NEW s,
         NEW d, NEW q, NEW e, NEW L, NEW B, Ledger(s, d, q, p, e, L, B)
  PROVE  Ledger(s, d, q, Tail(p), e, L, B)
<1> DEFINE r == Tail(p)
<1>1. \A P : (Any(r, P) => Any(p, P)) /\ (AtMostOne(p, P) => AtMostOne(r, P))
  BY PopCounts
<1>2. \A P, Q : Behind(p, P, Q) => Behind(r, P, Q)
  BY PopCounts
<1> HIDE DEF r
<1>3. Ledger(s, d, q, r, e, L, B)
  BY <1>1, <1>2, Zenon DEF Ledger, Busy, Single, Claims, Held
<1>4. QED
  BY <1>3 DEF r

(* An event moves from those to be pushed to the session's queue. *)
LEMMA LedgerMove ==
  ASSUME NEW p \in Seq(Notice), p # <<>>, NEW e \in Seq(Notice), NEW s,
         NEW d, NEW q, NEW L, NEW B, Ledger(s, d, q, p, e, L, B)
  PROVE  Ledger(s, d, q, Tail(p), Append(e, Head(p)), L, B)
<1> DEFINE r == Tail(p)
           x == Head(p)
           f == Append(e, x)
<1>0. x \in Notice
  BY HeadTail
<1>1. /\ \A P : Any(p, P) <=> Any(r, P) \/ x \in P
      /\ \A P : AtMostOne(p, P) => AtMostOne(r, P) /\ (x \in P => ~Any(r, P))
      /\ \A P, Q : Behind(p, P, Q) => Behind(r, P, Q) /\ (x \in P => ~Any(r, Q))
  BY PopCounts
<1>2. /\ \A P : Any(f, P) <=> Any(e, P) \/ x \in P
      /\ \A P : AtMostOne(e, P) /\ (x \in P => ~Any(e, P)) => AtMostOne(f, P)
      /\ \A P, Q : Behind(e, P, Q) /\ (x \in Q => ~Any(e, P)) => Behind(f, P, Q)
  BY <1>0, PushCounts
<1> HIDE DEF r, x, f
<1>3. ASSUME NEW A, NEW P, Single(q, p, e, A, P) PROVE Single(q, r, f, A, P)
  BY <1>1, <1>2, <1>3, Zenon DEF Single
<1>4. ASSUME NEW c, Claims(s, c, q, p, e, L, B) PROVE Claims(s, c, q, r, f, L, B)
  BY <1>1, <1>2, <1>3, <1>4, Zenon DEF Claims, Held
<1>5. Ledger(s, d, q, r, f, L, B)
  BY <1>1, <1>2, <1>3, <1>4, Zenon DEF Ledger, Busy, Held
<1>6. QED
  BY <1>5 DEF r, x, f

(* The Connection changes in what the ledger does not look at. *)
LEMMA LedgerSame ==
  ASSUME NEW d, NEW f, f.owed = d.owed, f.known = d.known,
         "pipelined" \in d.past => "pipelined" \in f.past,
         NEW s, NEW q, NEW p, NEW e, NEW L, NEW B, Ledger(s, d, q, p, e, L, B)
  PROVE  Ledger(s, f, q, p, e, L, B)
  BY Zenon DEF Ledger

(* A message is passed on to the matching thread: nobody else waits for an
   answer, and the id of a new order has no holder. *)
LEMMA LedgerAsk ==
  ASSUME NEW q \in Seq(Command), NEW s, NEW x \in Asks(s),
         NEW d, NEW f, d.owed = 0, f.owed = 1, f.past = d.past, d.known \subseteq f.known,
         x.type = "New" => x.coid \notin d.known /\ x.coid \in f.known,
         NEW p, NEW e, NEW L, NEW B, Ledger(s, d, q, p, e, L, B)
  PROVE  Ledger(s, f, Append(q, x), p, e, L, B)
<1> DEFINE r == Append(q, x)
<1>0. x \in Command
  BY DEF Asks
<1>1. /\ \A P : Any(r, P) <=> Any(q, P) \/ x \in P
      /\ \A P : AtMostOne(q, P) /\ (x \in P => ~Any(q, P)) => AtMostOne(r, P)
  BY <1>0, PushCounts
<1> HIDE DEF r
<1> SUFFICES ASSUME "pipelined" \notin d.past
             PROVE  Ledger(s, f, r, p, e, L, B)
  BY DEF Ledger, r
<1>2. ~Busy(s, q, p, e) /\ Single(q, p, e, Asks(s), Answers(s))
  BY DEF Ledger
<1>3. Single(r, p, e, Asks(s), Answers(s))
  BY <1>1, <1>2, Zenon DEF Single, Busy
<1>4. ASSUME NEW c \in ClientId
      PROVE  /\ Claims(s, c, r, p, e, L, B)
             /\ Held(s, c, r, p, e) \/ Placed(s, c, L) # {} => c \in f.known
  <2>1. /\ Claims(s, c, q, p, e, L, B)
        /\ Held(s, c, q, p, e) \/ Placed(s, c, L) # {} => c \in d.known
    BY DEF Ledger
  <2>2. CASE x \in Placing(s, c)
    <3>1. ~Held(s, c, q, p, e) /\ Placed(s, c, L) = {} /\ c \in f.known
      BY <2>1, <2>2 DEF Placing
    <3>2. ~Any(p, Refusing(s, c)) /\ ~Any(e, Refusing(s, c))
      BY <1>2, Kinds DEF Busy, Any
    <3>3. Single(r, p, e, Placing(s, c), Closing(s, c))
      BY <2>1, <3>1, <1>1, Zenon DEF Claims, Single, Held
    <3>4. QED
      BY <2>1, <3>1, <3>2, <3>3, Zenon DEF Claims
  <2>3. CASE x \notin Placing(s, c)
    <3>1. Single(r, p, e, Placing(s, c), Closing(s, c))
          /\ (Any(r, Placing(s, c)) <=> Any(q, Placing(s, c)))
      BY <2>1, <2>3, <1>1, Zenon DEF Claims, Single
    <3>2. QED
      BY <2>1, <3>1, Zenon DEF Claims, Held
  <2>4. QED
    BY <2>2, <2>3
<1>5. QED
  BY <1>3, <1>4, Zenon DEF Ledger

(* An event is delivered: it was the only answer, or the only one to close its
   order, or what refuses a cancel and has nothing of that id behind it. *)
LEMMA LedgerDeliver ==
  ASSUME NEW e \in Seq(Notice), e # <<>>, NEW s, NEW d, NEW f,
         d.owed \in Int, f.owed = IF Head(e) \in Answers(s) THEN d.owed - 1 ELSE d.owed,
         f.past = d.past,
         \A c \in d.known : \/ c \in f.known
                            \/ Head(e) \in Closing(s, c) \/ Head(e) \in Refusing(s, c),
         NEW q, NEW p, NEW L, NEW B, Ledger(s, d, q, p, e, L, B)
  PROVE  Ledger(s, f, q, p, Tail(e), L, B)
<1> DEFINE r == Tail(e)
           x == Head(e)
<1>1. /\ \A P : Any(e, P) <=> Any(r, P) \/ x \in P
      /\ \A P : AtMostOne(e, P) => AtMostOne(r, P) /\ (x \in P => ~Any(r, P))
      /\ \A P, Q : Behind(e, P, Q) => Behind(r, P, Q) /\ (x \in P => ~Any(r, Q))
  BY PopCounts, Zenon
<1> HIDE DEF r, x
<1> SUFFICES ASSUME "pipelined" \notin d.past
             PROVE  Ledger(s, f, q, p, r, L, B)
  BY DEF Ledger, r
<1>2. /\ d.owed \in {0, 1} /\ (Busy(s, q, p, e) => d.owed = 1)
      /\ Single(q, p, e, Asks(s), Answers(s))
  BY Zenon DEF Ledger
<1>3. /\ Single(q, p, r, Asks(s), Answers(s))
      /\ Busy(s, q, p, r) => Busy(s, q, p, e)
      /\ x \in Answers(s) => ~Busy(s, q, p, r) /\ Busy(s, q, p, e)
  BY <1>1, <1>2, Zenon DEF Single, Busy
<1>4. f.owed \in {0, 1} /\ (Busy(s, q, p, r) => f.owed = 1)
  BY <1>2, <1>3 DEF x
<1>5. ASSUME NEW c \in ClientId
      PROVE  /\ Claims(s, c, q, p, r, L, B)
             /\ Held(s, c, q, p, r) \/ Placed(s, c, L) # {} => c \in f.known
  <2>1. /\ Claims(s, c, q, p, e, L, B)
        /\ Held(s, c, q, p, e) \/ Placed(s, c, L) # {} => c \in d.known
    BY DEF Ledger
  <2>2. Single(q, p, r, Placing(s, c), Closing(s, c))
        /\ (Held(s, c, q, p, r) => Held(s, c, q, p, e))
    BY <2>1, <1>1, Zenon DEF Claims, Single, Held
  <2>3. Claims(s, c, q, p, r, L, B)
    BY <2>1, <2>2, <1>1, Zenon DEF Claims
  <2>4. x \in Closing(s, c) => ~Held(s, c, q, p, r) /\ Placed(s, c, L) = {}
    BY <2>1, <1>1, Zenon DEF Claims, Single, Held
  <2>5. x \in Refusing(s, c) => ~Held(s, c, q, p, r) /\ Placed(s, c, L) = {}
    BY <2>1, <1>1, Zenon DEF Claims, Held
  <2>6. QED
    BY <2>1, <2>2, <2>3, <2>4, <2>5, Zenon DEF x
<1>6. QED
  BY <1>3, <1>4, <1>5, Zenon DEF Ledger

(* A message has been taken up and not yet answered; the id c has no holder, and
   nothing under way speaks of it. *)
Answering(s, d, q, p, e) == "pipelined" \notin d.past => d.owed = 1 /\ ~Busy(s, q, p, e)
Vacant(s, c, d, q, p, e, L) ==
  "pipelined" \notin d.past =>
    /\ ~Held(s, c, q, p, e) /\ ~Any(p, Refusing(s, c)) /\ ~Any(e, Refusing(s, c))
    /\ Placed(s, c, L) = {} /\ c \in d.known

(* Taking a message up leaves nothing else under way, and the id of a new order
   to that order. *)
LEMMA LedgerTaken ==
  ASSUME NEW q \in Seq(Command), q # <<>>, NEW s, Head(q) \in Asks(s),
         NEW d, NEW p, NEW e, NEW L, NEW B, Ledger(s, d, q, p, e, L, B)
  PROVE  /\ Answering(s, d, Tail(q), p, e)
         /\ \A c \in ClientId : Head(q) \in Placing(s, c) => Vacant(s, c, d, Tail(q), p, e, L)
<1> DEFINE r == Tail(q)
           x == Head(q)
<1>1. /\ \A P : Any(q, P) <=> Any(r, P) \/ x \in P
      /\ \A P : AtMostOne(q, P) => AtMostOne(r, P) /\ (x \in P => ~Any(r, P))
  BY PopCounts
<1>2. x \in Asks(s)
  OBVIOUS
<1> HIDE DEF r, x
<1>3. Answering(s, d, r, p, e)
  BY <1>1, <1>2, Zenon DEF Answering, Ledger, Busy, Single
<1>4. ASSUME NEW c \in ClientId, x \in Placing(s, c) PROVE Vacant(s, c, d, r, p, e, L)
  <2>1. (Any(q, Placing(s, c)) /\ ~Any(r, Placing(s, c))) \/ "pipelined" \in d.past
    BY <1>1, <1>4, Zenon DEF Ledger, Claims, Single
  <2>2. QED
    BY <2>1, Zenon DEF Vacant, Ledger, Claims, Held, Single
<1>5. QED
  BY <1>3, <1>4 DEF r, x

(* The order that is put under (s, c) is its only holder. *)
LEMMA LedgerPlace ==
  ASSUME NEW s, NEW c \in ClientId, NEW o, o.s = s, o.coid = c,
         NEW d, NEW q, NEW p, NEW e, NEW L, NEW B, Ledger(s, d, q, p, e, L, B),
         Answering(s, d, q, p, e), Vacant(s, c, d, q, p, e, L),
         NEW M, M = L \cup {o}, NEW C, o \in C, \A y \in B : y \in C \/ (y.s = s /\ y.coid = c)
  PROVE  Ledger(s, d, q, p, e, M, C)
<1> SUFFICES ASSUME "pipelined" \notin d.past PROVE Ledger(s, d, q, p, e, M, C)
  BY Zenon DEF Ledger
<1>1. /\ ~Busy(s, q, p, e) /\ ~Held(s, c, q, p, e) /\ Placed(s, c, L) = {} /\ c \in d.known
  BY Zenon DEF Answering, Vacant
<1>2. Placed(s, c, M) = {o} /\ o \in C
  BY <1>1 DEF Placed
<1>3. ASSUME NEW k \in ClientId, k # c
      PROVE  Placed(s, k, M) = Placed(s, k, L)
             /\ (Placed(s, k, L) \subseteq B => Placed(s, k, L) \subseteq C)
  BY <1>3 DEF Placed
<1>4. ~Any(p, Refusing(s, c)) /\ ~Any(e, Refusing(s, c))
  BY <1>1, Kinds, Zenon DEF Busy, Any
<1>5. ASSUME NEW k \in ClientId
      PROVE  /\ Claims(s, k, q, p, e, M, C)
             /\ Held(s, k, q, p, e) \/ Placed(s, k, M) # {} => k \in d.known
  <2>1. /\ Claims(s, k, q, p, e, L, B)
        /\ Held(s, k, q, p, e) \/ Placed(s, k, L) # {} => k \in d.known
    BY Zenon DEF Ledger
  <2>2. CASE k = c
    BY <2>1, <2>2, <1>1, <1>2, <1>4 DEF Claims
  <2>3. CASE k # c
    BY <2>1, <2>3, <1>3, Zenon DEF Claims
  <2>4. QED
    BY <2>2, <2>3, Zenon
<1>6. QED
  BY <1>5, Zenon DEF Ledger

(* Orders of others come and go. *)
LEMMA LedgerOthers ==
  ASSUME NEW s, NEW d, NEW q, NEW p, NEW e, NEW L, NEW B, Ledger(s, d, q, p, e, L, B), NEW M, NEW C,
         \A o : o.s = s => (o \in M <=> o \in L) /\ (o \in C <=> o \in B)
  PROVE  Ledger(s, d, q, p, e, M, C)
<1>1. ASSUME NEW c
      PROVE  /\ Placed(s, c, M) = Placed(s, c, L)
             /\ Placed(s, c, L) \subseteq B => Placed(s, c, L) \subseteq C
  BY DEF Placed
<1>2. ASSUME NEW c, Claims(s, c, q, p, e, L, B) PROVE Claims(s, c, q, p, e, M, C)
  BY <1>1, <1>2, Zenon DEF Claims
<1>3. QED
  BY <1>1, <1>2, Zenon DEF Ledger

(* The orders of s are all taken away. *)
LEMMA LedgerCleared ==
  ASSUME NEW s, NEW d, NEW q, NEW p, NEW e, NEW L, NEW B, Ledger(s, d, q, p, e, L, B),
         NEW M, NEW C, \A o \in M : o.s # s
  PROVE  Ledger(s, d, q, p, e, M, C)
<1>1. \A c : Placed(s, c, M) = {}
  BY DEF Placed
<1>2. ASSUME NEW c, Claims(s, c, q, p, e, L, B) PROVE Claims(s, c, q, p, e, M, C)
  BY <1>1, <1>2, Zenon DEF Claims
<1>3. QED
  BY <1>1, <1>2, Zenon DEF Ledger

(* The order o of s is forgotten: its id has no holder. *)
LEMMA ForgetVacates ==
  ASSUME NEW s, NEW c \in ClientId,
         NEW d, NEW q, NEW p, NEW e, NEW L, NEW B, Ledger(s, d, q, p, e, L, B),
         NEW o, o.s = s, o.coid = c, "pipelined" \notin d.past => o \in L,
         NEW M, M = L \ {o}
  PROVE  Vacant(s, c, d, q, p, e, M)
<1> SUFFICES ASSUME "pipelined" \notin d.past PROVE Vacant(s, c, d, q, p, e, M)
  BY DEF Vacant
<1>1. /\ Claims(s, c, q, p, e, L, B)
      /\ Held(s, c, q, p, e) \/ Placed(s, c, L) # {} => c \in d.known
  BY DEF Ledger
<1>2. o \in Placed(s, c, L)
  BY DEF Placed
<1>3. Placed(s, c, M) = {}
  BY <1>1, <1>2 DEF Claims, Placed
<1>4. ~Held(s, c, q, p, e) /\ c \in d.known /\ ~Any(p, Refusing(s, c)) /\ ~Any(e, Refusing(s, c))
  BY <1>1, <1>2, Zenon DEF Claims
<1>5. QED
  BY <1>3, <1>4 DEF Vacant

(* forget_order takes an order and its id out of the maps: no ledger suffers. *)
LEMMA LedgerForget ==
  ASSUME NEW s, NEW c \in ClientId,
         NEW d, NEW q, NEW p, NEW e, NEW L, NEW B, Ledger(s, d, q, p, e, L, B),
         NEW o, o.s = s, o.coid = c, "pipelined" \notin d.past => o \in L,
         NEW M, M = L \ {o}, NEW C, \A y \in B : y \in C \/ (y.s = s /\ y.coid = c)
  PROVE  Ledger(s, d, q, p, e, M, C)
<1> SUFFICES ASSUME "pipelined" \notin d.past PROVE Ledger(s, d, q, p, e, M, C)
  BY Zenon DEF Ledger
<1>1. Placed(s, c, M) = {}
  BY ForgetVacates DEF Vacant
<1>2. ASSUME NEW k \in ClientId, k # c
      PROVE  /\ Placed(s, k, M) = Placed(s, k, L)
             /\ Placed(s, k, L) \subseteq B => Placed(s, k, L) \subseteq C
  BY <1>2 DEF Placed
<1>3. ASSUME NEW k \in ClientId
      PROVE  /\ Claims(s, k, q, p, e, M, C)
             /\ Held(s, k, q, p, e) \/ Placed(s, k, M) # {} => k \in d.known
  <2>1. /\ Claims(s, k, q, p, e, L, B)
        /\ Held(s, k, q, p, e) \/ Placed(s, k, L) # {} => k \in d.known
    BY DEF Ledger
  <2>2. CASE k = c
    BY <2>1, <2>2, <1>1, Zenon DEF Claims
  <2>3. CASE k # c
    BY <2>1, <2>3, <1>2, Zenon DEF Claims
  <2>4. QED
    BY <2>2, <2>3, Zenon
<1>4. QED
  BY <1>3, Zenon DEF Ledger

(* The answer to the message that was taken up. *)
LEMMA LedgerAnswer ==
  ASSUME NEW p \in Seq(Notice), NEW s, NEW x \in Answers(s),
         NEW d, NEW q, NEW e, NEW L, NEW B, Ledger(s, d, q, p, e, L, B), Answering(s, d, q, p, e),
         "pipelined" \notin d.past =>
           \A c \in ClientId :
             /\ x \in Refusing(s, c) => Placed(s, c, L) = {}
             /\ x \in Closing(s, c) => Vacant(s, c, d, q, p, e, L)
  PROVE  Ledger(s, d, q, Append(p, x), e, L, B)
<1> DEFINE r == Append(p, x)
<1>0. x \in Notice
  BY DEF Answers
<1>1. /\ \A P : Any(r, P) <=> Any(p, P) \/ x \in P
      /\ \A P : AtMostOne(p, P) /\ (x \in P => ~Any(p, P)) => AtMostOne(r, P)
      /\ \A P, Q : Behind(p, P, Q) /\ (x \in Q => ~Any(p, P)) => Behind(r, P, Q)
  BY <1>0, PushCounts, Zenon
<1> HIDE DEF r
<1> SUFFICES ASSUME "pipelined" \notin d.past PROVE Ledger(s, d, q, r, e, L, B)
  BY DEF Ledger, r
<1>2. d.owed = 1 /\ ~Busy(s, q, p, e) /\ Single(q, p, e, Asks(s), Answers(s))
  BY Zenon DEF Answering, Ledger
<1>3. Single(q, r, e, Asks(s), Answers(s))
  BY <1>1, <1>2, Zenon DEF Single, Busy
<1>4. \A c : ~Any(p, Refusing(s, c)) /\ ~Any(e, Refusing(s, c)) /\ ~Any(q, Placing(s, c))
  BY <1>2, Kinds DEF Busy, Any
<1>5. ASSUME NEW c \in ClientId
      PROVE  /\ Claims(s, c, q, r, e, L, B)
             /\ Held(s, c, q, r, e) \/ Placed(s, c, L) # {} => c \in d.known
  <2>1. /\ Claims(s, c, q, p, e, L, B)
        /\ Held(s, c, q, p, e) \/ Placed(s, c, L) # {} => c \in d.known
    BY DEF Ledger
  <2>2. /\ x \in Refusing(s, c) => Placed(s, c, L) = {}
        /\ x \in Closing(s, c) =>
             ~Held(s, c, q, p, e) /\ Placed(s, c, L) = {} /\ c \in d.known
    BY Zenon DEF Vacant
  <2>3. Single(q, r, e, Placing(s, c), Closing(s, c))
    BY <2>1, <2>2, <1>1, Zenon DEF Claims, Single, Held
  <2>4. Held(s, c, q, r, e) => Held(s, c, q, p, e) \/ x \in Closing(s, c)
    BY <1>1, Zenon DEF Held
  <2>5. QED
    BY <2>1, <2>2, <2>3, <2>4, <1>1, <1>4, Zenon DEF Claims
<1>6. QED
  BY <1>2, <1>3, <1>5, Zenon DEF Ledger

(* The fill of an order that was forgotten. *)
LEMMA LedgerFill ==
  ASSUME NEW p \in Seq(Notice), NEW s, NEW c \in ClientId, NEW x \in Closing(s, c), x.type = "Fill",
         NEW d, NEW q, NEW e, NEW L, NEW B, Ledger(s, d, q, p, e, L, B), Vacant(s, c, d, q, p, e, L)
  PROVE  Ledger(s, d, q, Append(p, x), e, L, B)
<1> DEFINE r == Append(p, x)
<1>0. x \in Notice /\ x \notin Answers(s)
  BY DEF Closing, Answers
<1>1. /\ \A P : Any(r, P) <=> Any(p, P) \/ x \in P
      /\ \A P : AtMostOne(p, P) /\ (x \in P => ~Any(p, P)) => AtMostOne(r, P)
      /\ \A P, Q : Behind(p, P, Q) /\ (x \in Q => ~Any(p, P)) => Behind(r, P, Q)
  BY <1>0, PushCounts, Zenon
<1> HIDE DEF r
<1> SUFFICES ASSUME "pipelined" \notin d.past PROVE Ledger(s, d, q, r, e, L, B)
  BY DEF Ledger, r
<1>2. /\ d.owed \in {0, 1} /\ (Busy(s, q, r, e) => d.owed = 1)
      /\ Single(q, r, e, Asks(s), Answers(s))
  BY <1>0, <1>1, Zenon DEF Ledger, Single, Busy
<1>3. ASSUME NEW k PROVE x \notin Refusing(s, k) /\ (x \in Closing(s, k) => k = c)
  BY DEF Refusing, Closing
<1>4. ASSUME NEW k \in ClientId
      PROVE  /\ Claims(s, k, q, r, e, L, B)
             /\ Held(s, k, q, r, e) \/ Placed(s, k, L) # {} => k \in d.known
  <2>1. /\ Claims(s, k, q, p, e, L, B)
        /\ Held(s, k, q, p, e) \/ Placed(s, k, L) # {} => k \in d.known
    BY DEF Ledger
  <2>2. x \in Closing(s, k) =>
          /\ ~Held(s, k, q, p, e) /\ Placed(s, k, L) = {} /\ k \in d.known
          /\ ~Any(p, Refusing(s, k)) /\ ~Any(e, Refusing(s, k))
    BY <1>3, Zenon DEF Vacant
  <2>3. Single(q, r, e, Placing(s, k), Closing(s, k))
    BY <2>1, <2>2, <1>1, Zenon DEF Claims, Single, Held
  <2>4. Held(s, k, q, r, e) => Held(s, k, q, p, e) \/ x \in Closing(s, k)
    BY <1>1, Zenon DEF Held
  <2>5. QED
    BY <2>1, <2>2, <2>3, <2>4, <1>1, <1>3, Zenon DEF Claims
<1>5. QED
  BY <1>2, <1>4, Zenon DEF Ledger
-----------------------------------------------------------------------------
(* The matching thread. *)

(* An order is forgotten and its owner told, by a fill or by the answer to its
   cancel. *)
LEMMA CloseLedgers ==
  ASSUME TypeOK, NEW t \in MatchingThread, Books(t), NEW q, Ledgers(q, t), NEW o \in Order,
         "pipelined" \notin conn[o.s].past => o \in t.live,
         NEW x \in Closing(o.s, o.coid),
         \/ x.type = "Fill"
         \/ x \in Answers(o.s) /\ Answering(o.s, conn[o.s], q, t.pending, egress[o.s])
  PROVE  Books(Event(forget_order(t, o), x)) /\ Ledgers(q, Event(forget_order(t, o), x))
<1> DEFINE u == forget_order(t, o)
           v == Event(u, x)
<1>1. o.s \in Session /\ o.coid \in ClientId
  BY DEF Order
<1>2. x \in Notice /\ x.s = o.s
  BY DEF Closing
<1>3. /\ u \in MatchingThread /\ u.registered = t.registered /\ u.pending = t.pending
      /\ u.live = t.live \ {o}
      /\ u.by_client = {b \in t.by_client : <<b.s, b.coid>> # <<o.s, o.coid>>}
  BY ForgetFacts, Zenon
<1> HIDE DEF u
<1>4. /\ v.live = u.live /\ v.by_client = u.by_client
      /\ v.pending = IF x.s \in u.registered THEN Append(u.pending, x) ELSE u.pending
  BY <1>2, <1>3, EventFacts, Zenon
<1>5. t.pending \in Seq(Notice)
  BY Zenon DEF MatchingThread
<1> HIDE DEF v
<1>6. Books(v)
  BY <1>3, <1>4, Zenon DEF Books
<1>7. ASSUME NEW s \in Session
      PROVE  Ledger(s, conn[s], q, v.pending, egress[s], v.live, v.by_client)
  <2>1. Ledger(s, conn[s], q, t.pending, egress[s], t.live, t.by_client)
    BY Zenon DEF Ledgers
  <2>2. CASE s = o.s
    <3>1. /\ v.live = t.live \ {o}
          /\ \A y \in t.by_client : y \in v.by_client \/ (y.s = s /\ y.coid = o.coid)
      BY <2>2, <1>3, <1>4
    <3>a. Ledger(s, conn[s], q, t.pending, egress[s], v.live, v.by_client)
      BY <3>1, <2>1, <2>2, <1>1, LedgerForget, ZenonT(40)
    <3>b. Vacant(s, o.coid, conn[s], q, t.pending, egress[s], v.live)
      BY <3>1, <2>1, <2>2, <1>1, ForgetVacates, ZenonT(40)
    <3>2. ASSUME x.type = "Fill"
          PROVE  Ledger(s, conn[s], q, Append(t.pending, x), egress[s], v.live, v.by_client)
      BY <3>a, <3>b, <3>2, <2>2, <1>1, <1>5, LedgerFill
    <3>3. ASSUME x \in Answers(s), Answering(s, conn[s], q, t.pending, egress[s])
          PROVE  Ledger(s, conn[s], q, Append(t.pending, x), egress[s], v.live, v.by_client)
      <4>1. \A c \in ClientId : x \notin Refusing(s, c) /\ (x \in Closing(s, c) => c = o.coid)
        BY Zenon DEF Refusing, Closing
      <4>2. QED
        BY <4>1, <3>a, <3>b, <3>3, <1>5, LedgerAnswer
    <3>4. QED
      BY <3>a, <3>2, <3>3, <2>2, <1>3, <1>4, Zenon
  <2>3. CASE s # o.s
    <3>1. \A y : y.s = s => /\ y \in v.live <=> y \in t.live
                            /\ (y \in v.by_client <=> y \in t.by_client)
      BY <2>3, <1>3, <1>4, Zenon
    <3>2. Ledger(s, conn[s], q, t.pending, egress[s], v.live, v.by_client)
      BY <2>1, <3>1, LedgerOthers
    <3>3. x \notin News(s)
      BY <2>3, <1>2, Zenon DEF News
    <3>4. Ledger(s, conn[s], q, Append(t.pending, x), egress[s], v.live, v.by_client)
      BY <3>2, <3>3, <1>2, <1>5, LedgerNews, Zenon
    <3>5. QED
      BY <3>2, <3>4, <1>3, <1>4, Zenon
  <2>4. QED
    BY <2>2, <2>3
<1>8. QED
  BY <1>6, <1>7, Zenon DEF Ledgers, u, v

(* A fill that ends an order: forget_order and the event that gives the id back. *)
LEMMA FillLedgers ==
  ASSUME TypeOK, NEW t \in MatchingThread, Books(t), NEW q, Ledgers(q, t), NEW o \in Order,
         "pipelined" \notin conn[o.s].past => o \in t.live
  PROVE  Books(route_fill(t, o)) /\ Ledgers(q, route_fill(t, o))
<1> DEFINE x == [type |-> "Fill", s |-> o.s, coid |-> o.coid]
<1>1. x \in Closing(o.s, o.coid) /\ x.type = "Fill"
  BY Zenon DEF Closing, Notice, Order
<1>2. route_fill(t, o) = Event(forget_order(t, o), x)
  BY DEF route_fill
<1> HIDE DEF x
<1>3. QED
  BY <1>1, <1>2, CloseLedgers, Zenon

(* An answer that closes nothing. *)
LEMMA AnswerLedgers ==
  ASSUME TypeOK, NEW t \in MatchingThread, Books(t), NEW q, Ledgers(q, t), NEW s \in Session,
         NEW x \in Answers(s), Answering(s, conn[s], q, t.pending, egress[s]),
         \A c \in ClientId : x \notin Closing(s, c),
         "pipelined" \notin conn[s].past =>
           \A c \in ClientId : x \in Refusing(s, c) => Placed(s, c, t.live) = {}
  PROVE  Books(Event(t, x)) /\ Ledgers(q, Event(t, x))
<1> DEFINE v == Event(t, x)
<1>1. x \in Notice /\ x.s = s
  BY Zenon DEF Answers
<1>2. /\ v.live = t.live /\ v.by_client = t.by_client
      /\ v.pending = IF x.s \in t.registered THEN Append(t.pending, x) ELSE t.pending
  BY <1>1, EventFacts, Zenon
<1>3. t.pending \in Seq(Notice)
  BY Zenon DEF MatchingThread
<1> HIDE DEF v
<1>4. ASSUME NEW y \in Session
      PROVE  Ledger(y, conn[y], q, v.pending, egress[y], v.live, v.by_client)
  <2>1. Ledger(y, conn[y], q, t.pending, egress[y], t.live, t.by_client)
    BY Zenon DEF Ledgers
  <2>2. CASE y = s
    <3>1. Ledger(s, conn[s], q, Append(t.pending, x), egress[s], t.live, t.by_client)
      BY <2>1, <2>2, <1>3, LedgerAnswer, Zenon
    <3>2. QED
      BY <2>1, <2>2, <3>1, <1>2, Zenon
  <2>3. CASE y # s
    <3>1. x \notin News(y)
      BY <2>3, <1>1, Zenon DEF News
    <3>2. Ledger(y, conn[y], q, Append(t.pending, x), egress[y], t.live, t.by_client)
      BY <2>1, <3>1, <1>1, <1>3, LedgerNews, Zenon
    <3>3. QED
      BY <2>1, <3>2, <1>2, Zenon
  <2>4. QED
    BY <2>2, <2>3, Zenon
<1>5. Books(v)
  BY <1>2, Zenon DEF Books
<1>6. QED
  BY <1>4, <1>5, Zenon DEF Ledgers, v

(* A new order. *)
LEMMA NewLedgers ==
  ASSUME TypeOK, NEW t \in MatchingThread, Books(t), NEW q, Ledgers(q, t),
         NEW c \in Command, c.type = "New", NEW fills \in Trades(t, c),
         Answering(c.s, conn[c.s], q, t.pending, egress[c.s]),
         Vacant(c.s, c.coid, conn[c.s], q, t.pending, egress[c.s], t.live)
  PROVE  Books(ApplyNew(t, c, fills)) /\ Ledgers(q, ApplyNew(t, c, fills))
<1> DEFINE o == NewOrderOf(t, c)
           B == {b \in t.by_client : <<b.s, b.coid>> # <<c.s, c.coid>>} \cup {o}
           u == [t EXCEPT !.next_id = @ + 1, !.live = @ \cup {o}, !.by_client = B]
           x == [type |-> "Ack", s |-> c.s, coid |-> c.coid, closes |-> FALSE]
           v == Event(u, x)
<1>1. c.s \in Session /\ c.coid \in ClientId
  BY Zenon DEF Command
<1>2. o \in Order /\ o.s = c.s /\ o.coid = c.coid
  BY <1>1 DEF NewOrderOf, Order, MatchingThread
<1>3. B \in SUBSET Order /\ t.live \cup {o} \in SUBSET Order /\ t.next_id + 1 \in Nat
  BY <1>2 DEF MatchingThread
<1>4. ApplyNew(t, c, fills) =
        IF fills = <<>> THEN v ELSE route_fill(route_fill(v, fills[1]), fills[2])
  BY Zenon DEF ApplyNew
<1>5. /\ x \in Notice /\ x \in Answers(c.s)
      /\ \A k \in ClientId : x \notin Closing(c.s, k) /\ x \notin Refusing(c.s, k)
  BY <1>1, Zenon DEF Notice, Answers, Closing, Refusing
<1>6. fills # <<>> => \E y \in t.live : fills = <<o, y>> \/ fills = <<y, o>>
  BY Zenon DEF Trades
<1>a. /\ o \in B /\ B \subseteq t.by_client \cup {o}
      /\ \A y \in t.by_client : y \in B \/ (y.s = c.s /\ y.coid = c.coid)
  OBVIOUS
<1> HIDE DEF B, o, x
<1>7. /\ u \in MatchingThread /\ u.registered = t.registered /\ u.by_client = B
      /\ u.live = t.live \cup {o} /\ u.pending = t.pending
  BY <1>3, Zenon DEF MatchingThread
<1> HIDE DEF u
<1>8. Books(u)
  BY <1>a, <1>7, Zenon DEF Books
<1>9. ASSUME NEW s \in Session
      PROVE  Ledger(s, conn[s], q, u.pending, egress[s], u.live, u.by_client)
  <2>1. Ledger(s, conn[s], q, t.pending, egress[s], t.live, t.by_client)
    BY Zenon DEF Ledgers
  <2>2. CASE s = c.s
    BY <2>1, <2>2, <1>1, <1>2, <1>7, <1>a, LedgerPlace
  <2>3. CASE s # c.s
    <3>1. \A y : y.s = s => /\ y \in u.live <=> y \in t.live
                            /\ (y \in u.by_client <=> y \in t.by_client)
      BY <2>3, <1>2, <1>7, <1>a
    <3>2. QED
      BY <2>1, <3>1, <1>7, LedgerOthers, Zenon
  <2>4. QED
    BY <2>2, <2>3
<1>10. Ledgers(q, u) /\ Answering(c.s, conn[c.s], q, u.pending, egress[c.s])
  BY <1>7, <1>9, Zenon DEF Ledgers
<1>11. Books(v) /\ Ledgers(q, v)
  BY <1>1, <1>5, <1>7, <1>8, <1>10, AnswerLedgers, Zenon
<1>12. v \in MatchingThread /\ v.live = t.live \cup {o}
  BY <1>5, <1>7, EventFacts, Zenon
<1> HIDE DEF v
<1>13. ASSUME NEW y \in t.live, NEW a, NEW b, {a, b} = {o, y}, a = o \/ a = y
       PROVE  Books(route_fill(route_fill(v, a), b)) /\ Ledgers(q, route_fill(route_fill(v, a), b))
  <2> DEFINE w == route_fill(v, a)
             f == [type |-> "Fill", s |-> a.s, coid |-> a.coid]
  <2>1. a \in Order /\ b \in Order /\ y \in Order /\ a \in v.live /\ b \in v.live
    BY <1>2, <1>12, <1>13, Zenon DEF MatchingThread
  <2>2. Books(w) /\ Ledgers(q, w)
    BY <2>1, <1>11, <1>12, FillLedgers, Zenon
  <2>3. w \in MatchingThread /\ w.live = v.live \ {a}
    <3>1. f \in Notice
      BY <2>1 DEF Notice, Order
    <3>2. w = Event(forget_order(v, a), f)
      BY Zenon DEF route_fill
    <3> HIDE DEF w, f
    <3>3. QED
      <4> DEFINE g == forget_order(v, a)
      <4>1. g \in MatchingThread /\ g.live = v.live \ {a}
        BY <1>12, ForgetFacts, Zenon
      <4> HIDE DEF g
      <4>2. Event(g, f) \in MatchingThread /\ Event(g, f).live = g.live
        BY <3>1, <4>1, EventFacts, Zenon
      <4>3. QED
        BY <3>2, <4>1, <4>2 DEF g
  <2> HIDE DEF w
  <2>4. "pipelined" \notin conn[b.s].past => b \in w.live
    <3>1. CASE a # b
      BY <3>1, <2>1, <2>3, Zenon
    <3>2. CASE a = b
      <4>1. o = y /\ b = o
        BY <3>2, <1>13, Zenon
      <4>2. o \in Placed(c.s, c.coid, t.live)
        BY <4>1, <1>2 DEF Placed
      <4>3. "pipelined" \in conn[c.s].past
        BY <4>2, Zenon DEF Vacant
      <4>4. QED
        BY <4>1, <4>3, <1>2, Zenon
    <3>3. QED
      BY <3>1, <3>2
  <2>5. Books(route_fill(w, b)) /\ Ledgers(q, route_fill(w, b))
    BY <2>1, <2>2, <2>3, <2>4, FillLedgers, Zenon
  <2>6. QED
    BY <2>5 DEF w
<1>14. CASE fills = <<>>
  BY <1>4, <1>11, <1>14
<1>15. CASE fills # <<>>
  <2>1. PICK y \in t.live : fills = <<o, y>> \/ fills = <<y, o>>
    BY <1>6, <1>15, Zenon
  <2>2. {fills[1], fills[2]} = {o, y} /\ (fills[1] = o \/ fills[1] = y)
    BY <2>1
  <2>3. QED
    BY <2>2, <1>4, <1>13, <1>15, Zenon
<1>16. QED
  BY <1>14, <1>15, Zenon

(* A cancel. *)
LEMMA CancelLedgers ==
  ASSUME TypeOK, NEW t \in MatchingThread, Books(t), NEW q, Ledgers(q, t),
         NEW c \in Command, c.type = "Cancel",
         Answering(c.s, conn[c.s], q, t.pending, egress[c.s])
  PROVE  Books(ApplyCancel(t, c)) /\ Ledgers(q, ApplyCancel(t, c))
<1> DEFINE found == {b \in t.by_client : <<b.s, b.coid>> = <<c.s, c.coid>>}
           ack == [type |-> "Ack", s |-> c.s, coid |-> c.coid, closes |-> TRUE]
           no == [type |-> "Reject", s |-> c.s, coid |-> c.coid]
<1>1. c.s \in Session /\ c.coid \in ClientId
  BY Zenon DEF Command
<1>2. ack \in Answers(c.s) /\ ack \in Closing(c.s, c.coid)
  BY <1>1 DEF Notice, Answers, Closing
<1>3. /\ no \in Answers(c.s)
      /\ \A k \in ClientId : no \notin Closing(c.s, k) /\ (no \in Refusing(c.s, k) => k = c.coid)
  BY <1>1, Zenon DEF Notice, Answers, Closing, Refusing
<1> HIDE DEF ack, no
<1>4. CASE found = {}
  <2>1. ApplyCancel(t, c) = Event(t, no)
    BY <1>4 DEF ApplyCancel, no
  <2>2. Ledger(c.s, conn[c.s], q, t.pending, egress[c.s], t.live, t.by_client)
    BY <1>1 DEF Ledgers
  <2>3. "pipelined" \notin conn[c.s].past => Placed(c.s, c.coid, t.live) \subseteq t.by_client
    BY <2>2, <1>1, Zenon DEF Ledger, Claims
  <2>4. "pipelined" \notin conn[c.s].past => Placed(c.s, c.coid, t.live) = {}
    BY <2>3, <1>4, Zenon DEF Placed
  <2>5. QED
    BY <2>1, <2>4, <1>1, <1>3, AnswerLedgers, Zenon
<1>5. CASE found # {}
  <2>1. PICK o : o = CHOOSE b \in found : TRUE
    OBVIOUS
  <2>2. o \in found
    BY <2>1, <1>5
  <2>3. o \in t.by_client /\ o.s = c.s /\ o.coid = c.coid
    BY <2>2
  <2>4. o \in Order /\ o \in t.live
    BY <2>3, Zenon DEF Books, MatchingThread
  <2>5. ApplyCancel(t, c) = Event(forget_order(t, o), ack)
    BY <1>5, <2>1 DEF ApplyCancel, ack
  <2> HIDE DEF found
  <2>6. QED
    BY <2>3, <2>4, <2>5, <1>2, CloseLedgers, Zenon
<1>6. QED
  BY <1>4, <1>5

(* A disconnect. *)
LEMMA CancelAllLedgers ==
  ASSUME TypeOK, NEW t \in MatchingThread, Books(t), NEW q, Ledgers(q, t), NEW c \in Command,
         c.type = "CancelAll"
  PROVE  Books(ApplyCancelAll(t, c)) /\ Ledgers(q, ApplyCancelAll(t, c))
<1> DEFINE L == {o \in t.live : o.s # c.s}
           B == {b \in t.by_client : b.s # c.s}
           u == [t EXCEPT !.live = L, !.by_client = B]
           x == [type |-> "Retired", s |-> c.s]
           v == Event(u, x)
           w == ApplyCancelAll(t, c)
<1>1. c.s \in Session /\ x \in Notice
  BY DEF Command, Notice
<1>2. L \in SUBSET Order /\ B \in SUBSET Order
  BY DEF MatchingThread
<1>3. \A s : x \notin News(s)
  BY DEF News
<1>4. /\ \A o \in L : o.s # c.s
      /\ \A s : s # c.s => \A y : y.s = s => /\ y \in L <=> y \in t.live
                                             /\ (y \in B <=> y \in t.by_client)
      /\ B \subseteq L
  BY DEF Books
<1>5. w = [v EXCEPT !.registered = @ \ {c.s}]
  BY DEF ApplyCancelAll
<1> HIDE DEF L, B, x
<1>6. u \in MatchingThread /\ u.live = L /\ u.by_client = B /\ u.pending = t.pending
  BY <1>2, Zenon DEF MatchingThread
<1> HIDE DEF u
<1>7. /\ v \in MatchingThread /\ v.live = L /\ v.by_client = B
      /\ v.pending = IF x.s \in u.registered THEN Append(t.pending, x) ELSE t.pending
  BY <1>1, <1>6, EventFacts
<1> HIDE DEF v
<1>8. w.live = L /\ w.by_client = B /\ w.pending = v.pending
  BY <1>5, <1>7, Zenon DEF MatchingThread
<1> HIDE DEF w
<1>9. t.pending \in Seq(Notice)
  BY DEF MatchingThread
<1>10. ASSUME NEW s \in Session
       PROVE  Ledger(s, conn[s], q, w.pending, egress[s], w.live, w.by_client)
  <2>1. Ledger(s, conn[s], q, t.pending, egress[s], t.live, t.by_client)
    BY DEF Ledgers
  <2>2. Ledger(s, conn[s], q, t.pending, egress[s], L, B)
    <3>1. CASE s = c.s
      BY <2>1, <3>1, <1>4, LedgerCleared, Zenon
    <3>2. CASE s # c.s
      BY <2>1, <3>2, <1>4, LedgerOthers
    <3>3. QED
      BY <3>1, <3>2, Zenon
  <2>3. Ledger(s, conn[s], q, Append(t.pending, x), egress[s], L, B)
    BY <2>2, <1>1, <1>3, <1>9, LedgerNews, Zenon
  <2>4. QED
    BY <2>2, <2>3, <1>7, <1>8
<1>11. QED
  BY <1>4, <1>8, <1>10, Zenon DEF Books, Ledgers, w

(* The next command. *)
LEMMA ApplyLedgers ==
  ASSUME UInv, apply
  PROVE  Books(thread)' /\ Ledgers(inbound, thread)'
<1> DEFINE rest == Tail(inbound)
<1>1. /\ TypeOK /\ thread \in MatchingThread /\ inbound \in Seq(Command)
      /\ Books(thread) /\ Ledgers(inbound, thread)
  BY DEF UInv, TInv, IInv, TypeOK
<1>2. /\ inbound' = rest /\ conn' = conn /\ egress' = egress /\ inbound # <<>>
  BY DEF apply
<1>a. PICK c \in Command : c = Head(inbound)
  BY <1>1, <1>2, HeadTail, Zenon
<1>3. Ledgers(rest, thread)
  BY <1>1, <1>2, LedgerTake DEF Ledgers
<1>4. c.s \in Session
  BY SMTT(30) DEF Command
<1>5. ASSUME c \in Asks(c.s)
      PROVE  /\ Answering(c.s, conn[c.s], rest, thread.pending, egress[c.s])
             /\ \A k \in ClientId : c \in Placing(c.s, k) =>
                  Vacant(c.s, k, conn[c.s], rest, thread.pending, egress[c.s], thread.live)
  <2>1. Ledger(c.s, conn[c.s], inbound, thread.pending, egress[c.s], thread.live, thread.by_client)
    BY <1>1, <1>4 DEF Ledgers
  <2>2. QED
    BY <2>1, <1>1, <1>2, <1>5, <1>a, LedgerTaken, Zenon
<1> HIDE DEF rest
<1>6. Books(thread') /\ Ledgers(rest, thread')
  <2>1. CASE c.type = "SessionOpened"
    <3>1. thread' = [thread EXCEPT !.registered = @ \cup {c.s}]
      BY <2>1, <1>a DEF apply
    <3>2. /\ thread'.live = thread.live /\ thread'.by_client = thread.by_client
          /\ thread'.pending = thread.pending
      BY <3>1, <1>1, Zenon DEF MatchingThread
    <3>3. QED
      BY <3>2, <1>1, <1>3 DEF Books, Ledgers
  <2>2. CASE c.type = "New"
    <3>1. PICK fills \in Trades(thread, c) : thread' = ApplyNew(thread, c, fills)
      BY <2>2, <1>a DEF apply
    <3>2. c.coid \in ClientId /\ c \in Asks(c.s) /\ c \in Placing(c.s, c.coid)
      BY <2>2, Zenon DEF Command, Asks, Placing
    <3>3. QED
      BY <3>1, <3>2, <2>2, <1>1, <1>3, <1>5, NewLedgers
  <2>3. CASE c.type = "Cancel"
    <3>1. thread' = ApplyCancel(thread, c)
      BY <2>3, <1>a, SMTT(30) DEF apply
    <3>2. c \in Asks(c.s)
      BY <2>3 DEF Asks
    <3>3. QED
      BY <3>1, <3>2, <2>3, <1>1, <1>3, <1>5, CancelLedgers
  <2>4. CASE c.type = "CancelAll"
    <3>1. thread' = ApplyCancelAll(thread, c)
      BY <2>4, <1>a, SMTT(30) DEF apply
    <3>2. QED
      BY <3>1, <2>4, <1>1, <1>3, CancelAllLedgers
  <2>5. QED
    BY <2>1, <2>2, <2>3, <2>4, Zenon DEF Command
<1>7. QED
  BY <1>2, <1>6 DEF Books, Ledgers

(* A command that is dropped leaves its id in live_orders_ and its answer owed. *)
LEMMA DropLedgers ==
  ASSUME UInv, append_fails
  PROVE  Books(thread)' /\ Ledgers(inbound, thread)'
<1>1. /\ thread \in MatchingThread /\ inbound \in Seq(Command)
      /\ Books(thread) /\ Ledgers(inbound, thread)
  BY DEF UInv, TInv, IInv, TypeOK
<1>2. inbound' = Tail(inbound) /\ conn' = conn /\ egress' = egress /\ inbound # <<>>
  BY DEF append_fails
<1>3. /\ thread'.live = thread.live /\ thread'.by_client = thread.by_client
      /\ thread'.pending = thread.pending
  BY <1>1, Zenon DEF append_fails, MatchingThread
<1>4. ASSUME NEW s \in Session
      PROVE  Ledger(s, conn[s], Tail(inbound), thread.pending, egress[s], thread.live,
                    thread.by_client)
  <2>1. Ledger(s, conn[s], inbound, thread.pending, egress[s], thread.live, thread.by_client)
    BY <1>1, Zenon DEF Ledgers
  <2>2. QED
    BY <2>1, <1>1, <1>2, LedgerTake, Zenon
<1>5. QED
  BY <1>1, <1>2, <1>3, <1>4, Zenon DEF Books, Ledgers

(* An event is pushed, or dropped because the queue is full. *)
LEMMA EmitLedgers ==
  ASSUME UInv, emit
  PROVE  Books(thread)' /\ Ledgers(inbound, thread)'
<1> DEFINE x == Head(thread.pending)
           rest == Tail(thread.pending)
<1>1. /\ TypeOK /\ thread \in MatchingThread /\ thread.pending \in Seq(Notice)
      /\ egress \in [Session -> Seq(Notice)] /\ Books(thread) /\ Ledgers(inbound, thread)
  BY Zenon DEF UInv, TInv, IInv, TypeOK, MatchingThread
<1>2. /\ thread.pending # <<>> /\ conn' = conn /\ inbound' = inbound
      /\ egress' \in {egress, [egress EXCEPT ![x.s] = Append(@, x)]}
      /\ thread' = [thread EXCEPT !.pending = rest, !.lost = thread'.lost]
  <2>1. /\ thread.pending # <<>> /\ conn' = conn /\ inbound' = inbound
    BY DEF emit
  <2>2. thread' = [thread EXCEPT !.pending = rest, !.lost = thread'.lost]
    BY <1>1 DEF emit, MatchingThread
  <2>3. egress' \in {egress, [egress EXCEPT ![x.s] = Append(@, x)]}
    BY <1>1, Zenon DEF emit
  <2>4. QED
    BY <2>1, <2>2, <2>3, Zenon
<1>3. x \in Notice
  BY <1>1, <1>2, HeadTail
<1>4. x.s \in Session
  BY <1>3, SMTT(30) DEF Notice
<1>5. thread'.pending = rest /\ thread'.live = thread.live /\ thread'.by_client = thread.by_client
  BY <1>1, <1>2, Zenon DEF MatchingThread
<1>6. ASSUME NEW s \in Session
      PROVE  Ledger(s, conn[s], inbound, rest, egress'[s], thread.live, thread.by_client)
  <2>1. Ledger(s, conn[s], inbound, thread.pending, egress[s], thread.live, thread.by_client)
    BY <1>1, Zenon DEF Ledgers
  <2>2. Ledger(s, conn[s], inbound, rest, egress[s], thread.live, thread.by_client)
    BY <2>1, <1>1, <1>2, LedgerDrop, Zenon
  <2>3. Ledger(s, conn[s], inbound, rest, Append(egress[s], x), thread.live, thread.by_client)
    BY <2>1, <1>1, <1>2, LedgerMove, Zenon
  <2>4. egress'[s] \in {egress[s], Append(egress[s], x)}
    BY <1>1, <1>2
  <2>5. QED
    BY <2>2, <2>3, <2>4, Zenon
<1>7. QED
  BY <1>1, <1>2, <1>5, <1>6 DEF Books, Ledgers
-----------------------------------------------------------------------------
(* The network thread.  A visit to s leaves the ledgers of others alone. *)
Adds(q, r, s) ==
  \A t \in Session \ {s} : \A d, p, e, L, B :
    Ledger(t, d, q, p, e, L, B) => Ledger(t, d, r, p, e, L, B)

(* One that leaves that of s alone, too. *)
Keeps(m, n, s) ==
  /\ n \in Visit /\ Adds(m.q, n.q, s)
  /\ \A p, e, L, B : Ledger(s, m.c, m.q, p, e, L, B) => Ledger(s, n.c, n.q, p, e, L, B)

(* A command of s is nothing to the others' ledgers. *)
LEMMA PushAdds ==
  ASSUME NEW q \in Seq(Command), NEW s \in Session, NEW x \in Command, x.s = s
  PROVE  Adds(q, Append(q, x), s)
<1>1. \A t \in Session \ {s} : x \notin Asks(t)
  BY DEF Asks
<1>2. QED
  BY <1>1, LedgerPush DEF Adds

(* The Connection is closed, or only marked. *)
LEMMA CloseKeeps ==
  ASSUME NEW m \in Visit, NEW s \in Session
  PROVE  Keeps(m, close_connection(m, s), s) /\ Keeps(m, Settle(m, s), s)
<1> DEFINE n == close_connection(m, s)
           r == Append(m.q, CancelAll(s))
<1>1. m.c \in Connection /\ m.q \in Seq(Command)
  BY DEF Visit
<1>2. n \in Visit
  BY CloseStep, Zenon DEF NetStep
<1>3. /\ n.c.owed = m.c.owed /\ n.c.known = m.c.known
      /\ n.c.past = m.c.past \/ n.c.past = m.c.past \cup {"cancel refused"}
  BY <1>1, Zenon DEF close_connection, Visit, Connection, Pushed, Noted
<1>4. n.q = m.q \/ n.q = r
  BY <1>1, Zenon DEF close_connection, Visit, Pushed, Noted, CancelAll
<1>5. CancelAll(s) \in Command /\ CancelAll(s).s = s /\ CancelAll(s) \notin Asks(s)
  BY DEF CancelAll, Command, Asks
<1>6. Adds(m.q, r, s) /\ Adds(m.q, m.q, s)
  BY <1>1, <1>5, PushAdds DEF Adds
<1> HIDE DEF n
<1>7. ASSUME NEW p, NEW e, NEW L, NEW B, Ledger(s, m.c, m.q, p, e, L, B)
      PROVE  Ledger(s, n.c, n.q, p, e, L, B)
  <2>1. Ledger(s, m.c, r, p, e, L, B)
    BY <1>1, <1>5, <1>7, LedgerPush, Zenon
  <2> HIDE DEF r
  <2>2. Ledger(s, m.c, n.q, p, e, L, B)
    BY <2>1, <1>4, <1>7
  <2>3. "pipelined" \in m.c.past => "pipelined" \in n.c.past
    BY <1>3, Zenon
  <2>4. QED
    BY <2>2, <2>3, <1>3, LedgerSame, Zenon
<1> HIDE DEF r
<1>8. Keeps(m, n, s)
  BY <1>2, <1>4, <1>6, <1>7 DEF Keeps
<1>9. Keeps(m, m, s)
  BY <1>6, Zenon DEF Keeps
<1>10. QED
  BY <1>8, <1>9 DEF n, Settle

(* What a visit to s may do to a state whose ledgers are right. *)
LEMMA VisitLedgers ==
  ASSUME UInv, NEW s \in Session, NEW n, Becomes(s, n), Adds(inbound, n.q, s), thread' = thread,
         Ledger(s, n.c, n.q, thread.pending, egress'[s], thread.live, thread.by_client),
         \A t \in Session \ {s} : egress'[t] = egress[t]
  PROVE  Books(thread)' /\ Ledgers(inbound, thread)'
<1>1. /\ conn \in [Session -> Connection] /\ Books(thread) /\ Ledgers(inbound, thread)
  BY Zenon DEF UInv, TInv, IInv, TypeOK
<1>2. inbound' = n.q /\ conn'[s] = n.c /\ \A t \in Session \ {s} : conn'[t] = conn[t]
  BY <1>1 DEF Becomes
<1>3. ASSUME NEW t \in Session
      PROVE  Ledger(t, conn'[t], inbound', thread'.pending, egress'[t], thread'.live,
             thread'.by_client)
  <2>1. CASE t = s
    BY <2>1, <1>2, Zenon
  <2>2. CASE t # s
    <3>1. Ledger(t, conn[t], inbound, thread.pending, egress[t], thread.live, thread.by_client)
      BY <1>1 DEF Ledgers
    <3>2. Ledger(t, conn[t], n.q, thread.pending, egress[t], thread.live, thread.by_client)
      BY <3>1, <2>2 DEF Adds
    <3>3. QED
      BY <3>2, <2>2, <1>2, Zenon
  <2>3. QED
    BY <2>1, <2>2, Zenon
<1>4. QED
  BY <1>1, <1>3 DEF Books, Ledgers

(* Connections come and go. *)
LEMMA ClosingLedgers ==
  ASSUME UInv, NEW s \in Session,
         accept_new(s) \/ TimedOut(s) \/ Close(s) \/ Drain(s) \/ DrainEnd(s)
  PROVE  Books(thread)' /\ Ledgers(inbound, thread)'
<1>1. /\ TypeOK /\ conn \in [Session -> Connection] /\ inbound \in Seq(Command)
      /\ Ledger(s, conn[s], inbound, thread.pending, egress[s], thread.live, thread.by_client)
  BY DEF UInv, TInv, IInv, TypeOK, Ledgers
<1>2. Here(s) \in Visit /\ Here(s).c = conn[s] /\ Here(s).q = inbound
  BY <1>1, VisitStarts
<1>3. thread' = thread /\ egress' = egress
  BY Zenon DEF accept_new, TimedOut, Close, Drain, DrainOverflowed, DrainBegin, DrainEnd
<1>4. ASSUME NEW n, Becomes(s, n), Keeps(Here(s), n, s)
      PROVE  Books(thread)' /\ Ledgers(inbound, thread)'
  <2>1. /\ Adds(inbound, n.q, s)
        /\ Ledger(s, n.c, n.q, thread.pending, egress[s], thread.live, thread.by_client)
    BY <1>1, <1>2, <1>4 DEF Keeps
  <2>2. QED
    BY <2>1, <1>3, <1>4, VisitLedgers, ZenonT(30)
<1>5. CASE accept_new(s)
  <2> DEFINE d == [conn[s] EXCEPT !.state = "open"]
             r == Append(inbound, Opened(s))
             n == [c |-> d, q |-> r]
             k == [c |-> [d EXCEPT !.past = @ \cup {"never registered"}], q |-> inbound]
  <2>1. Opened(s) \in Command /\ Opened(s).s = s /\ Opened(s) \notin Asks(s)
    BY DEF Opened, Command, Asks
  <2>2. Adds(inbound, r, s) /\ Adds(inbound, inbound, s)
    BY <2>1, <1>1, PushAdds, ZenonT(30) DEF Adds
  <2>3. Ledger(s, conn[s], r, thread.pending, egress[s], thread.live, thread.by_client)
    BY <2>1, <1>1, LedgerPush
  <2>4. /\ d.owed = conn[s].owed /\ d.known = conn[s].known /\ d.past = conn[s].past
        /\ k.c.owed = conn[s].owed /\ k.c.known = conn[s].known
        /\ k.c.past = conn[s].past \cup {"never registered"}
    BY <1>1, Zenon DEF Connection
  <2>5. Becomes(s, n) \/ Becomes(s, k)
    BY <1>2, <1>5, Zenon DEF accept_new, Pushed, Noted, Opened, Here
  <2> HIDE DEF d, r
  <2>6. Ledger(s, n.c, n.q, thread.pending, egress[s], thread.live, thread.by_client)
    BY <2>3, <2>4, LedgerSame, Zenon
  <2>7. Ledger(s, k.c, k.q, thread.pending, egress[s], thread.live, thread.by_client)
    BY <2>4, <1>1, LedgerSame, ZenonT(30)
  <2>8. n.q = r /\ k.q = inbound
    OBVIOUS
  <2> HIDE DEF n, k
  <2>9. QED
    BY <2>2, <2>5, <2>6, <2>7, <2>8, <1>3, VisitLedgers, Zenon
<1>6. CASE TimedOut(s)
  <2> DEFINE d == [conn[s] EXCEPT !.close = TRUE]
             n == [c |-> d, q |-> inbound]
  <2>1. d.owed = conn[s].owed /\ d.known = conn[s].known /\ d.past = conn[s].past
    BY <1>1, Zenon DEF Connection
  <2>2. Becomes(s, n) /\ n.c = d /\ n.q = inbound
    BY <1>6, Zenon DEF TimedOut, Becomes
  <2> HIDE DEF n, d
  <2>3. Ledger(s, n.c, n.q, thread.pending, egress[s], thread.live, thread.by_client)
    BY <2>1, <2>2, <1>1, LedgerSame
  <2>4. Adds(inbound, n.q, s)
    BY <2>2, Zenon DEF Adds
  <2>5. QED
    BY <2>2, <2>3, <2>4, <1>3, VisitLedgers
<1>7. CASE Close(s) \/ DrainOverflowed(s)
  BY <1>2, <1>4, <1>7, CloseKeeps, Zenon DEF Close, DrainOverflowed
<1>8. CASE DrainBegin(s)
  <2>1. conn' = conn /\ inbound' = inbound
    BY <1>8, Zenon DEF DrainBegin
  <2>2. QED
    BY <2>1, <1>3, Zenon DEF UInv, Books, Ledgers
<1>9. CASE DrainEnd(s)
  BY <1>2, <1>4, <1>9, CloseKeeps DEF DrainEnd
<1>10. QED
  BY <1>5, <1>6, <1>7, <1>8, <1>9 DEF Drain

(* A client's message: it is answered at once, or passed on with its id noted. *)
LEMMA DispatchLedgers ==
  ASSUME UInv, NEW s \in Session, NEW coid \in ClientId, NEW fits \in BOOLEAN,
         DispatchNewOrder(s, coid, fits) \/ DispatchCancel(s, coid, fits)
  PROVE  Books(thread)' /\ Ledgers(inbound, thread)'
<1> DEFINE n == Received(s)
           K == n.c.known \cup {coid}
           noted == [n EXCEPT !.c.known = K]
           new == [type |-> "New", s |-> s, coid |-> coid]
           cancel == [type |-> "Cancel", s |-> s, coid |-> coid]
           Fine(m) == /\ m \in Visit /\ Adds(inbound, m.q, s)
                      /\ Ledger(s, m.c, m.q, thread.pending, egress[s], thread.live,
                         thread.by_client)
<1>1. /\ TypeOK /\ conn[s] \in Connection /\ inbound \in Seq(Command)
      /\ Ledger(s, conn[s], inbound, thread.pending, egress[s], thread.live, thread.by_client)
  BY DEF UInv, TInv, IInv, TypeOK, Ledgers
<1>2. /\ n \in Visit /\ n.q = inbound /\ n.c.owed = conn[s].owed + 1 /\ n.c.known = conn[s].known
      /\ n.c.past = IF conn[s].owed > 0 THEN conn[s].past \cup {"pipelined"} ELSE conn[s].past
  BY <1>1, ReceivedFacts, Zenon
<1>3. conn[s].owed \in Int
  BY <1>1, Zenon DEF Connection
<1>4. /\ thread' = thread /\ egress' = egress
      /\ \/ Becomes(s, Settle(Answer(n, fits), s))
         \/ coid \notin n.c.known /\ Becomes(s, Settle(Pushed(noted, new), s))
         \/ Becomes(s, Settle(Pushed(n, cancel), s))
  BY DEF DispatchNewOrder, DispatchCancel
<1> HIDE DEF n
<1>5. Adds(inbound, inbound, s)
  BY Zenon DEF Adds
<1>6. Fine(Answer(n, fits))
  <2> DEFINE a == Answer(n, fits)
  <2>1. /\ a \in Visit /\ a.q = n.q /\ a.c.owed = n.c.owed - 1 /\ a.c.known = n.c.known
        /\ a.c.past = n.c.past
    BY <1>2, AnswerFacts, Zenon
  <2> HIDE DEF a
  <2>2. a.c.owed = conn[s].owed /\ a.c.known = conn[s].known
    BY <2>1, <1>2, <1>3
  <2>3. "pipelined" \in conn[s].past => "pipelined" \in a.c.past
    BY <2>1, <1>2, Zenon
  <2>4. Ledger(s, a.c, inbound, thread.pending, egress[s], thread.live, thread.by_client)
    BY <2>2, <2>3, <1>1, LedgerSame, Zenon
  <2>5. QED
    BY <2>1, <2>4, <1>2, <1>5, Zenon DEF a
<1>7. new \in Command /\ cancel \in Command /\ new \in Asks(s) /\ cancel \in Asks(s)
  BY DEF Command, Asks
<1>a. /\ new.s = s /\ new.type = "New" /\ new.coid = coid
      /\ cancel.s = s /\ cancel.type = "Cancel"
  BY Zenon
<1> HIDE DEF new, cancel
<1>8. ASSUME NEW f, f \in Connection, f.owed = n.c.owed, f.past = n.c.past,
             n.c.known \subseteq f.known,
             NEW x \in Asks(s), x \in Command, x.s = s,
             x.type = "New" => x.coid \notin conn[s].known /\ x.coid \in f.known
      PROVE  Fine([c |-> f, q |-> Append(inbound, x)])
  <2> DEFINE r == Append(inbound, x)
  <2>1. r \in Seq(Command) /\ Adds(inbound, r, s)
    BY <1>1, <1>8, PushAdds, Appended, Zenon
  <2>2. Ledger(s, f, r, thread.pending, egress[s], thread.live, thread.by_client)
    <3>1. CASE "pipelined" \in f.past
      BY <3>1, ZenonT(30) DEF Ledger
    <3>2. CASE "pipelined" \notin f.past
      <4>1. ~(conn[s].owed > 0) /\ f.past = conn[s].past
        BY <3>2, <1>2, <1>8
      <4>2. conn[s].owed \in {0, 1}
        BY <4>1, <3>2, <1>1, Zenon DEF Ledger
      <4>3. conn[s].owed = 0 /\ f.owed = 1
        BY <4>1, <4>2, <1>2, <1>8
      <4>4. QED
        BY <4>1, <4>3, <1>1, <1>2, <1>8, LedgerAsk, Zenon
    <3>3. QED
      BY <3>1, <3>2, Zenon
  <2> HIDE DEF r
  <2>3. [c |-> f, q |-> r] \in Visit
    BY <2>1, <1>8 DEF Visit
  <2>4. QED
    BY <2>1, <2>2, <2>3, Zenon DEF r
<1>9. coid \notin n.c.known => Fine(Pushed(noted, new))
  <2>1. K \in SUBSET ClientId /\ n.c.known \subseteq K /\ coid \in K
    BY <1>2, Zenon DEF Visit, Connection
  <2> HIDE DEF K
  <2>2. /\ noted.c \in Connection /\ noted.c.owed = n.c.owed /\ noted.c.past = n.c.past
        /\ noted.c.known = K /\ noted.q = n.q /\ noted \in Visit
    BY <2>1, <1>2, Zenon DEF Visit, Connection
  <2> HIDE DEF noted
  <2>3. Pushed(noted, new) = [c |-> noted.c, q |-> Append(inbound, new)]
    BY <2>2, <1>2, PushedFacts, Zenon
  <2> HIDE DEF Fine
  <2>4. QED
    BY <2>1, <2>2, <2>3, <1>2, <1>7, <1>8, <1>a, Zenon
<1>10. Fine(Pushed(n, cancel))
  <2>1. Pushed(n, cancel) = [c |-> n.c, q |-> Append(inbound, cancel)] /\ n.c \in Connection
    BY <1>2, PushedFacts DEF Visit
  <2> HIDE DEF Fine
  <2>2. QED
    BY <2>1, <1>7, <1>8, <1>a, Zenon
<1>11. ASSUME NEW m, Fine(m), Becomes(s, Settle(m, s))
       PROVE  Books(thread)' /\ Ledgers(inbound, thread)'
  <2> DEFINE w == Settle(m, s)
  <2>1. Keeps(m, w, s)
    BY <1>11, CloseKeeps, ZenonT(30)
  <2> HIDE DEF w
  <2>2. /\ Adds(inbound, w.q, s)
        /\ Ledger(s, w.c, w.q, thread.pending, egress[s], thread.live, thread.by_client)
    BY <2>1, <1>11 DEF Keeps, Adds
  <2>3. Becomes(s, w)
    BY <1>11 DEF w
  <2>4. QED
    BY <2>2, <2>3, <1>4, VisitLedgers
<1> HIDE DEF Fine
<1>12. QED
  BY <1>4, <1>6, <1>9, <1>10, <1>11, Zenon

(* An event is delivered. *)
LEMMA PopLedgers ==
  ASSUME UInv, NEW s \in Session, NEW fits \in BOOLEAN, DrainPop(s, fits)
  PROVE  Books(thread)' /\ Ledgers(inbound, thread)'
<1> DEFINE x == Head(egress[s])
           n == deliver(Here(s), x, fits)
           leave == n.c.close /\ x.type # "Retired"
           w == IF leave THEN close_connection(n, s) ELSE n
<1>1. /\ TypeOK /\ conn[s] \in Connection /\ inbound \in Seq(Command)
      /\ egress \in [Session -> Seq(Notice)] /\ egress[s] \in Seq(Mail(s))
      /\ Ledger(s, conn[s], inbound, thread.pending, egress[s], thread.live, thread.by_client)
  BY Zenon DEF UInv, TInv, IInv, TypeOK, SessionInv, Ledgers
<1>2. /\ Becomes(s, w) /\ egress[s] # <<>> /\ egress' = [egress EXCEPT ![s] = Tail(@)]
      /\ thread' = thread
  BY Zenon DEF DrainPop
<1>3. x \in Notice /\ x.s = s
  BY <1>1, <1>2, HeadTail DEF Mail
<1>4. /\ egress'[s] = Tail(egress[s]) /\ \A t \in Session \ {s} : egress'[t] = egress[t]
  BY <1>1, <1>2
<1>5. Here(s) \in Visit /\ Here(s).c = conn[s] /\ Here(s).q = inbound
  BY <1>1, VisitStarts
<1>6. conn[s].owed \in Int /\ conn[s].known \in SUBSET ClientId
  BY <1>1, Zenon DEF Connection
<1>7. ASSUME NEW m \in Visit, m.q = inbound, m.c.past = conn[s].past,
             m.c.owed = IF x \in Answers(s) THEN conn[s].owed - 1 ELSE conn[s].owed,
             \A c \in conn[s].known : c \in m.c.known \/ x \in Closing(s, c) \/ x \in Refusing(s, c)
      PROVE  Ledger(s, m.c, m.q, thread.pending, Tail(egress[s]), thread.live, thread.by_client)
  BY <1>1, <1>2, <1>6, <1>7, LedgerDeliver, Zenon
<1> DEFINE forgot == [Here(s) EXCEPT !.c.known = @ \ {x.coid}]
<1>8. /\ forgot \in Visit /\ forgot.q = inbound /\ forgot.c.past = conn[s].past
      /\ forgot.c.owed = conn[s].owed /\ forgot.c.known = conn[s].known \ {x.coid}
  <2> DEFINE K == conn[s].known \ {x.coid}
  <2>1. K \in SUBSET ClientId
    BY <1>6, Zenon
  <2>2. forgot = [Here(s) EXCEPT !.c.known = K]
    BY <1>5
  <2> HIDE DEF K, forgot
  <2>3. /\ forgot \in Visit /\ forgot.q = Here(s).q /\ forgot.c.past = Here(s).c.past
        /\ forgot.c.owed = Here(s).c.owed /\ forgot.c.known = K
    BY <2>1, <2>2, <1>5, Zenon DEF Visit, Connection
  <2>4. QED
    BY <2>3, <1>5 DEF K
<1>9. /\ n \in Visit /\ n.q = inbound
      /\ Ledger(s, n.c, n.q, thread.pending, Tail(egress[s]), thread.live, thread.by_client)
  <2>1. CASE x.type = "Retired"
    <3>1. n = [Here(s) EXCEPT !.c.state = "retired", !.c.close = TRUE]
      BY <2>1 DEF deliver
    <3> HIDE DEF n
    <3>2. /\ n \in Visit /\ n.q = Here(s).q /\ n.c.past = Here(s).c.past
          /\ n.c.owed = Here(s).c.owed /\ n.c.known = Here(s).c.known
      BY <3>1, <1>5, Zenon DEF Visit, Connection
    <3>3. x \notin Answers(s)
      BY <2>1, Zenon DEF Answers
    <3>4. QED
      BY <3>2, <3>3, <1>5, <1>7, Zenon
  <2>2. CASE x.type = "Fill"
    <3>1. n = queue(forgot, fits)
      BY <2>2 DEF deliver
    <3>2. x \notin Answers(s) /\ x \in Closing(s, x.coid)
      BY <2>2, <1>3, Zenon DEF Answers, Closing
    <3> HIDE DEF n, forgot
    <3>3. /\ n \in Visit /\ n.q = inbound /\ n.c.past = conn[s].past
          /\ n.c.owed = conn[s].owed /\ n.c.known = conn[s].known \ {x.coid}
      BY <3>1, <1>8, AnswerFacts, Zenon
    <3>4. QED
      BY <3>2, <3>3, <1>7, Zenon
  <2>3. CASE x.type = "Ack"
    <3> DEFINE m == IF x.closes THEN forgot ELSE Here(s)
    <3>1. n = Answer(m, fits)
      BY <2>3 DEF deliver
    <3>2. x \in Answers(s) /\ (x.closes => x \in Closing(s, x.coid))
      BY <2>3, <1>3, Zenon DEF Answers, Closing
    <3> HIDE DEF n, forgot
    <3>3. /\ m \in Visit /\ m.q = inbound /\ m.c.past = conn[s].past /\ m.c.owed = conn[s].owed
          /\ m.c.known = IF x.closes THEN conn[s].known \ {x.coid} ELSE conn[s].known
      BY <1>5, <1>8, Zenon
    <3> HIDE DEF m
    <3>4. /\ n \in Visit /\ n.q = inbound /\ n.c.past = conn[s].past
          /\ n.c.owed = conn[s].owed - 1 /\ n.c.known = m.c.known
      <4>1. /\ n \in Visit /\ n.q = m.q /\ n.c.past = m.c.past
            /\ n.c.owed = m.c.owed - 1 /\ n.c.known = m.c.known
        BY <3>1, <3>3, AnswerFacts, Zenon
      <4>2. QED
        BY <3>3, <4>1, Zenon
    <3>5. QED
      BY <3>2, <3>3, <3>4, <1>7, Zenon
  <2>4. CASE x.type = "Reject"
    <3>1. n = Answer(forgot, fits)
      BY <2>4 DEF deliver
    <3>2. x \in Answers(s) /\ x \in Refusing(s, x.coid)
      BY <2>4, <1>3, Zenon DEF Answers, Refusing
    <3> HIDE DEF n, forgot
    <3>3. /\ n \in Visit /\ n.q = inbound /\ n.c.past = conn[s].past
          /\ n.c.owed = conn[s].owed - 1 /\ n.c.known = conn[s].known \ {x.coid}
      <4>1. /\ n \in Visit /\ n.q = forgot.q /\ n.c.past = forgot.c.past
            /\ n.c.owed = forgot.c.owed - 1 /\ n.c.known = forgot.c.known
        BY <3>1, <1>8, AnswerFacts, Zenon
      <4>2. QED
        BY <1>8, <4>1, Zenon
    <3>4. QED
      BY <3>2, <3>3, <1>7, Zenon
  <2>5. QED
    BY <2>1, <2>2, <2>3, <2>4, <1>3, Zenon DEF Notice
<1> HIDE DEF n, forgot
<1>10. /\ Adds(inbound, w.q, s)
       /\ Ledger(s, w.c, w.q, thread.pending, Tail(egress[s]), thread.live, thread.by_client)
  <2>1. CASE leave
    BY <2>1, <1>9, CloseKeeps, Zenon DEF Keeps
  <2>2. CASE ~leave
    BY <2>2, <1>9, Zenon DEF Adds
  <2>3. QED
    BY <2>1, <2>2
<1> HIDE DEF w
<1>11. QED
  BY <1>2, <1>4, <1>10, VisitLedgers, Zenon
-----------------------------------------------------------------------------
(* At the start nothing is under way. *)
LEMMA InitUInv == Init => UInv
<1> SUFFICES ASSUME Init PROVE UInv
  OBVIOUS
<1>1. TInv
  BY InitTInv
<1>2. Books(thread)
  BY Zenon DEF Init, Books
<1>3. ASSUME NEW s \in Session
      PROVE  Ledger(s, conn[s], inbound, thread.pending, egress[s], thread.live, thread.by_client)
  <2>1. conn[s].owed = 0 /\ inbound = <<>> /\ thread.pending = <<>> /\ egress[s] = <<>>
    BY DEF Init, NoConnection
  <2>2. thread.live = {}
    BY DEF Init
  <2>3. \A c : Placed(s, c, thread.live) = {}
    BY <2>2 DEF Placed
  <2>4. QED
    BY <2>1, <2>3, EmptyCounts, Zenon DEF Ledger, Busy, Single, Claims, Held
<1>4. QED
  BY <1>1, <1>2, <1>3 DEF UInv, Ledgers

(* Every step keeps every session's ledger. *)
LEMMA NextUInv == UInv /\ [Next]_vars => UInv'
<1> SUFFICES ASSUME UInv, [Next]_vars PROVE Books(thread)' /\ Ledgers(inbound, thread)'
  BY NextTInv DEF UInv
<1>1. ASSUME NEW s \in Session, accept_new(s) \/ TimedOut(s) \/ Close(s) \/ Drain(s) \/ DrainEnd(s)
      PROVE  Books(thread)' /\ Ledgers(inbound, thread)'
  BY <1>1, ClosingLedgers
<1>2. ASSUME NEW s \in Session, NEW coid \in ClientId, NEW fits \in BOOLEAN,
             DispatchNewOrder(s, coid, fits) \/ DispatchCancel(s, coid, fits)
      PROVE  Books(thread)' /\ Ledgers(inbound, thread)'
  BY <1>2, DispatchLedgers
<1>3. ASSUME NEW s \in Session, NEW fits \in BOOLEAN, DrainPop(s, fits)
      PROVE  Books(thread)' /\ Ledgers(inbound, thread)'
  BY <1>3, PopLedgers
<1>4. CASE apply
  BY <1>4, ApplyLedgers
<1>5. CASE emit
  BY <1>5, EmitLedgers, Zenon
<1>a. CASE append_fails
  BY <1>a, DropLedgers
<1>6. CASE UNCHANGED vars
  <2>1. conn' = conn /\ inbound' = inbound /\ egress' = egress /\ thread' = thread
    BY <1>6 DEF vars
  <2>2. QED
    BY <2>1 DEF UInv, Books, Ledgers
<1>7. QED
  BY <1>1, <1>2, <1>3, <1>4, <1>5, <1>6, <1>a, Zenon DEF Next, Popping

(* No client that waits for its answers has two live orders under one id, for
   any number of sessions and ids, any capacity of the queues and whatever is
   dropped or refused: Session::register_order and the events that free an id
   keep "client_order_id is unique among LIVE orders" (session.hpp:102). *)
THEOREM LiveOrdersUnique == Spec => []UniqueLive
<1>1. UInv => UniqueLive
  <2> SUFFICES ASSUME UInv, NEW o \in thread.live, NEW p \in thread.live, o.s = p.s,
                      o.coid = p.coid,
                      "pipelined" \notin conn[o.s].past
               PROVE  o = p
    BY Zenon DEF UniqueLive
  <2>1. o.s \in Session /\ o.coid \in ClientId
    BY Zenon DEF UInv, TInv, IInv, TypeOK, MatchingThread, Order
  <2>2. Ledger(o.s, conn[o.s], inbound, thread.pending, egress[o.s], thread.live, thread.by_client)
    BY <2>1 DEF UInv, Ledgers
  <2>3. \A a, b \in Placed(o.s, o.coid, thread.live) : a = b
    BY <2>1, <2>2, Zenon DEF Ledger, Claims
  <2>4. QED
    BY <2>3 DEF Placed
<1>2. Spec => []UInv
  BY InitUInv, NextUInv, PTL DEF Spec
<1>3. QED
  BY <1>1, <1>2, PTL
=============================================================================
