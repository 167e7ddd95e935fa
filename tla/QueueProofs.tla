---------------------------- MODULE QueueProofs ----------------------------
(***************************************************************************)
(* Proofs about what the two threads share: SpscQueue, for every capacity  *)
(* N and every element type; MarketData, whose snapshots go through such a *)
(* queue, for every capacity of it and any number of moves of the book;    *)
(* Notifier, which announces what the queues hold, for every number of     *)
(* events in them; and Waiter, on which the matching thread sleeps, for    *)
(* every capacity of queue and pipe.                                       *)
(*                                                                         *)
(* The inductive invariant of the ring orders its four indices:            *)
(*                                                                         *)
(*     tailView  <=  tail  <=  headView  <=  head  <  tailView + kSlots    *)
(*                                                                         *)
(* where each side knows only its own index and its view of the other's.   *)
(*                                                                         *)
(* Of the market data, what the client sees never goes backwards, and a    *)
(* drained subscriber is stale only if the very last publication was       *)
(* refused: the snapshots in the queue are in order and newer than what    *)
(* left it.                                                                *)
(*                                                                         *)
(* Of the notifier, the channel never dies on either build, and no event   *)
(* is slept on where the clearing store is not delayed: a raised pending   *)
(* has exactly one reason (TokenInv).                                      *)
(*                                                                         *)
(* Of the waiter, which build needs the poll() timeout, and why shutdown   *)
(* strands nothing on either (ParkInv, StopInv).                           *)
(***************************************************************************)
EXTENDS SpscQueue, MarketData, Notifier, Waiter, TLAPS

(* Going round the ring, i is met no later than j on the way from start. *)
InOrder(start, i, j) == Distance(start, i) <= Distance(start, j)

(* What makes the lock-free hand-off safe; see the module comment. *)
RingInv ==
  /\ InOrder(tailView, tail, head)
  /\ InOrder(tail, headView, head)
  /\ ppc # "outside" => Succ(head) # tailView
  /\ ppc = "publish" => buffer[head] = pushing
  /\ cpc # "outside" => tail # headView
  /\ cpc = "publish" => out = buffer[tail]

IInv == TypeOK /\ RingInv

(* The modulus of push and pop wraps the last slot round to the first. *)
LEMMA SuccWraps == ASSUME NEW i \in Slot
                   PROVE  /\ Succ(i) = IF i = N THEN 0 ELSE i + 1
                          /\ Succ(i) \in Slot
  BY NAssumption DEF Succ, kSlots, Slot

(* The slots i, j and k are met in that order on the way round the ring from
   start, and what follows when one of them advances. *)
LEMMA RingOrder ==
  ASSUME NEW i \in Slot, NEW j \in Slot, NEW k \in Slot, InOrder(i, j, k)
  PROVE  /\ i # j => i # k /\ InOrder(Succ(i), j, k)
         /\ j # k => InOrder(i, Succ(j), k)
         /\ Succ(k) # i => Succ(k) # j /\ InOrder(i, j, Succ(k))
<1> USE NAssumption DEF Distance, InOrder, Slot, kSlots
<1>1. Succ(i) = IF i = N THEN 0 ELSE i + 1
  BY SuccWraps
<1>2. Succ(j) = IF j = N THEN 0 ELSE j + 1
  BY SuccWraps
<1>3. Succ(k) = IF k = N THEN 0 ELSE k + 1
  BY SuccWraps
<1>4. QED
  BY <1>1, <1>2, <1>3

(* Moving a view forward, but not past the index it views, keeps the order. *)
LEMMA ViewOrder ==
  ASSUME NEW i \in Slot, NEW j \in Slot, NEW k \in Slot, NEW x \in Slot, InOrder(i, j, k)
  PROVE  /\ InOrder(i, x, j) => InOrder(x, j, k)
         /\ InOrder(j, x, k) => InOrder(i, x, k)
  BY NAssumption DEF Distance, InOrder, Slot, kSlots

(* The indices start out equal and outside both operations. *)
LEMMA InitIInv == Init => IInv
<1>1. Init => TypeOK
  BY NAssumption DEF Init, TypeOK, Slot
<1>2. Init => RingInv
  BY NAssumption DEF Init, RingInv, InOrder, Distance, Slot, kSlots
<1> QED
  BY <1>1, <1>2, Zenon DEF IInv

(* Every step of either side keeps the indices in ring order. *)
LEMMA NextIInv == IInv /\ [Next]_vars => IInv'
<1> SUFFICES ASSUME IInv, [Next]_vars PROVE IInv'
  OBVIOUS
<1> USE DEF IInv, TypeOK, RingInv
<1>1. ASSUME NEW v \in Value, PushLoad(v) PROVE IInv'
  <2>1. PICK t \in Slot : tailView' = t /\ InOrder(tailView, t, tail)
    BY <1>1 DEF PushLoad, Loadable, InOrder
  <2>2. InOrder(t, tail, head)
    BY <2>1, ViewOrder
  <2>3. QED
    BY <1>1, <2>1, <2>2 DEF PushLoad, InOrder
<1>2. CASE PushWrite
  <2>1. cpc # "outside" => head # tail
    BY RingOrder
  <2>2. QED
    BY <1>2, <2>1 DEF PushWrite, InOrder
<1>3. CASE PushPublish
  <2>1. Succ(head) \in Slot /\ Succ(head) # tailView
    BY <1>3, SuccWraps DEF PushPublish
  <2>2. InOrder(tailView, tail, Succ(head)) /\ Succ(head) # tail
    BY <2>1, RingOrder
  <2>3. InOrder(tail, headView, Succ(head))
    BY <2>2, RingOrder
  <2>4. QED
    BY <1>3, <2>1, <2>2, <2>3 DEF PushPublish, InOrder
<1>4. CASE PopLoad \/ Empty
  <2>1. headView' \in Slot /\ InOrder(headView, headView', head)
    BY <1>4 DEF PopLoad, Empty, Loadable, InOrder
  <2>2. InOrder(tail, headView', head)
    BY <2>1, ViewOrder
  <2>3. QED
    BY <1>4, <2>1, <2>2 DEF PopLoad, Empty, InOrder
<1>5. CASE PopRead
  BY <1>5 DEF PopRead, InOrder
<1>6. CASE PopPublish
  <2>1. Succ(tail) \in Slot /\ tail # headView
    BY <1>6, SuccWraps DEF PopPublish
  <2>2. tail # head /\ InOrder(Succ(tail), headView, head)
    BY <2>1, RingOrder
  <2>3. InOrder(tailView, Succ(tail), head)
    BY <2>2, RingOrder
  <2>4. QED
    BY <1>6, <2>1, <2>2, <2>3 DEF PopPublish, InOrder
<1>7. CASE UNCHANGED vars
  BY <1>7 DEF vars, InOrder
<1>8. QED
  BY <1>1, <1>2, <1>3, <1>4, <1>5, <1>6, <1>7, Zenon DEF Next, Producer, Consumer

(* TypeOK, for every N. *)
THEOREM TypeCorrect == Spec => []TypeOK
<1>1. IInv => TypeOK
  BY DEF IInv
<1>2. QED
  BY InitIInv, NextIInv, <1>1, PTL DEF Spec

(* The producer and the consumer never touch the same cell, for every N. *)
THEOREM RaceFree == Spec => []NoSlotRace
<1>1. IInv => NoSlotRace
  BY NAssumption DEF IInv, TypeOK, RingInv, NoSlotRace, InOrder, Distance, Slot, kSlots
<1>2. QED
  BY InitIInv, NextIInv, <1>1, PTL DEF Spec
-----------------------------------------------------------------------------
(* Where After lands. *)
LEMMA AfterWraps == ASSUME NEW i \in Slot, NEW k \in Slot
                    PROVE  /\ After(i, k) = IF i + k > N THEN (i + k) - kSlots ELSE i + k
                           /\ After(i, k) \in Slot
  BY NAssumption DEF After, kSlots, Slot

(* The elements of a ring that runs from i up to j. *)
LEMMA Span ==
  ASSUME NEW i \in Slot, NEW j \in Slot
  PROVE  /\ Distance(i, j) \in Slot
         /\ After(i, Distance(i, j)) = j
         /\ After(i, 0) = i
         /\ Succ(j) # i => /\ Distance(i, j) < N
                           /\ Distance(i, Succ(j)) = Distance(i, j) + 1
         /\ i # j => /\ Distance(i, j) > 0
                     /\ Distance(Succ(i), j) = Distance(i, j) - 1
<1> DEFINE d == Distance(i, j)
<1>1. d \in Slot /\ 0 \in Slot
  BY NAssumption DEF Distance, Slot, kSlots
<1>2. /\ After(i, d) = IF i + d > N THEN (i + d) - kSlots ELSE i + d
      /\ After(i, 0) = IF i + 0 > N THEN (i + 0) - kSlots ELSE i + 0
  BY <1>1, AfterWraps
<1>3. Succ(i) = IF i = N THEN 0 ELSE i + 1
  BY SuccWraps
<1>4. Succ(j) = IF j = N THEN 0 ELSE j + 1
  BY SuccWraps
<1>5. QED
  BY <1>1, <1>2, <1>3, <1>4, NAssumption DEF Distance, Slot, kSlots

(* The slots before j on the way from i are not j, and counting from the next
   slot shifts them by one. *)
LEMMA SpanSlots ==
  ASSUME NEW i \in Slot, NEW j \in Slot, NEW k \in Slot
  PROVE  /\ k < Distance(i, j) => After(i, k) # j
         /\ k < N => After(Succ(i), k) = After(i, k + 1)
<1>0. k < N => k + 1 \in Slot
  BY NAssumption DEF Slot
<1>1. After(i, k) = IF i + k > N THEN (i + k) - kSlots ELSE i + k
  BY AfterWraps
<1>2. k < N => After(i, k + 1) = IF i + (k + 1) > N THEN (i + (k + 1)) - kSlots ELSE i + (k + 1)
  BY <1>0, AfterWraps
<1>3. Succ(i) \in Slot /\ Succ(i) = IF i = N THEN 0 ELSE i + 1
  BY SuccWraps
<1>4. After(Succ(i), k) = IF Succ(i) + k > N THEN (Succ(i) + k) - kSlots ELSE Succ(i) + k
  BY <1>3, AfterWraps
<1>5. QED
  BY <1>1, <1>2, <1>3, <1>4, NAssumption DEF Distance, Slot, kSlots

(* The contents are a sequence of elements, one for each slot in use. *)
LEMMA ContentsType ==
  ASSUME IInv
  PROVE  /\ Contents \in Seq(Value \cup {NoValue})
         /\ Len(Contents) = Distance(tail, head)
<1>0. Distance(tail, head) \in Slot
  BY Span DEF IInv, TypeOK
<1>1. Distance(tail, head) \in Nat
  BY <1>0, NAssumption DEF Slot
<1>2. \A i \in 1 .. Distance(tail, head) : buffer[After(tail, i - 1)] \in Value \cup {NoValue}
  <2> TAKE i \in 1 .. Distance(tail, head)
  <2>1. i - 1 \in Slot
    BY <1>0, NAssumption DEF Slot
  <2>2. QED
    BY <2>1, AfterWraps DEF IInv, TypeOK
<1>3. QED
  BY <1>1, <1>2 DEF Contents

(* Publishing a slot appends its element to the queue's contents. *)
LEMMA PublishAppends ==
  ASSUME IInv, PushPublish
  PROVE  /\ Len(Contents) < N
         /\ Contents' = Append(Contents, pushing)
         /\ pushing \in Value
<1> DEFINE d == Distance(tail, head)
<1>1. Succ(head) # tail
  BY RingOrder DEF PushPublish, IInv, TypeOK, RingInv
<1>2. d \in Nat /\ d < N /\ Distance(tail', head') = d + 1 /\ After(tail, d) = head
  BY <1>1, Span, NAssumption DEF IInv, TypeOK, PushPublish, Slot
<1>3. Contents' = [i \in 1 .. (d + 1) |-> buffer[After(tail, i - 1)]]
  BY <1>2 DEF Contents, PushPublish
<1>4. buffer[After(tail, d)] = pushing /\ pushing \in Value
  BY <1>2 DEF IInv, TypeOK, RingInv, PushPublish
<1>5. (d + 1) - 1 = d
  BY <1>2
<1>6. QED
  BY <1>2, <1>3, <1>4, <1>5, ContentsType DEF Contents

(* A sequence is a function on its positions. *)
LEMMA SeqFunction == ASSUME NEW S, NEW s \in Seq(S) PROVE s \in [1 .. Len(s) -> S]
  OBVIOUS

(* What Tail leaves of a sequence that is not empty. *)
LEMMA TailOK ==
  ASSUME NEW S, NEW s \in Seq(S), s # << >>
  PROVE  /\ Tail(s) \in Seq(S) /\ Len(Tail(s)) = Len(s) - 1
         /\ \A i \in 1 .. Len(s) - 1 : Tail(s)[i] = s[i + 1]
  OBVIOUS

(* Releasing a slot removes the oldest element, which is what pop returns. *)
LEMMA ReleaseRemoves ==
  ASSUME IInv, PopPublish
  PROVE  /\ Contents # << >>
         /\ popped' = Head(Contents)
         /\ Contents' = Tail(Contents)
<1> DEFINE d == Distance(tail, head)
<1>1. tail # head
  BY RingOrder DEF PopPublish, IInv, TypeOK, RingInv
<1>2. d \in Nat /\ d > 0 /\ d <= N /\ Distance(tail', head') = d - 1 /\ After(tail, 0) = tail
  <2>1. d \in Slot /\ d > 0 /\ Distance(tail', head') = d - 1 /\ After(tail, 0) = tail
    BY <1>1, Span DEF IInv, TypeOK, PopPublish
  <2>2. QED
    BY <2>1, NAssumption DEF Slot
<1>3. \A i \in 1 .. (d - 1) : After(tail', i - 1) = After(tail, i)
  <2> TAKE i \in 1 .. (d - 1)
  <2>1. i - 1 \in Slot /\ i - 1 < N /\ (i - 1) + 1 = i
    BY <1>2, NAssumption DEF Slot
  <2>2. QED
    BY <2>1, SpanSlots DEF PopPublish, IInv, TypeOK
<1>4. Contents' = [i \in 1 .. (d - 1) |-> buffer[After(tail, i)]]
  BY <1>2, <1>3 DEF Contents, PopPublish
<1>5. Tail(Contents) = [i \in 1 .. (d - 1) |-> buffer[After(tail, i)]]
  <2>1. /\ Contents \in Seq(Value \cup {NoValue}) /\ Len(Contents) = d
        /\ Contents # << >>
    BY <1>2, ContentsType
  <2>2. /\ Tail(Contents) \in Seq(Value \cup {NoValue})
        /\ Len(Tail(Contents)) = d - 1
        /\ \A i \in 1 .. (d - 1) : Tail(Contents)[i] = Contents[i + 1]
    BY <2>1, TailOK, Zenon
  <2>3. Tail(Contents) \in [1 .. (d - 1) -> Value \cup {NoValue}]
    BY <2>2, SeqFunction, Zenon
  <2>4. \A i \in 1 .. (d - 1) : Contents[i + 1] = buffer[After(tail, i)]
    BY <1>2 DEF Contents
  <2>5. QED
    BY <2>2, <2>3, <2>4, Zenon
<1>6. Contents # << >> /\ Head(Contents) = buffer[tail]
  <2>1. Contents[1] = buffer[tail]
    BY <1>2 DEF Contents
  <2>2. QED
    BY <1>2, <2>1, ContentsType
<1>7. QED
  BY <1>4, <1>5, <1>6 DEF PopPublish, IInv, RingInv

(* A step that moves neither index and writes no buffered slot leaves the
   contents alone. *)
LEMMA ContentsKept ==
  ASSUME IInv, UNCHANGED <<head, tail>>,
         UNCHANGED buffer \/ PushWrite
  PROVE  Contents' = Contents
<1>1. CASE UNCHANGED buffer
  BY <1>1 DEF Contents
<1>2. CASE PushWrite
  <2>1. \A i \in 1 .. Distance(tail, head) :
          buffer'[After(tail, i - 1)] = buffer[After(tail, i - 1)]
    <3> TAKE i \in 1 .. Distance(tail, head)
    <3>0. Distance(tail, head) \in Slot
      BY Span DEF IInv, TypeOK
    <3>1. i - 1 \in Slot /\ i - 1 < Distance(tail, head)
      BY <3>0, NAssumption DEF Slot
    <3>2. After(tail, i - 1) # head /\ After(tail, i - 1) \in Slot
      BY <3>1, SpanSlots, AfterWraps DEF IInv, TypeOK
    <3>3. QED
      BY <1>2, <3>2 DEF PushWrite, IInv, TypeOK
  <2>2. QED
    BY <2>1 DEF Contents
<1>3. QED
  BY <1>1, <1>2

(* The ring refines the bounded FIFO, for every N: push takes effect at the
   store of head_, pop at the store of tail_. *)
THEOREM Refinement == Spec => ImplementsFifo
<1>1. Init => Fifo!FifoInit
  BY NAssumption DEF Init, Fifo!FifoInit, Contents, Distance
<1>2. IInv /\ [Next]_vars => [Fifo!FifoNext]_(Fifo!fifoVars)
  <2> SUFFICES ASSUME IInv, [Next]_vars PROVE [Fifo!FifoNext]_(Fifo!fifoVars)
    OBVIOUS
  <2>1. CASE PushPublish
    BY <2>1, PublishAppends DEF Fifo!FifoNext, Fifo!Put, PushPublish
  <2>2. CASE PopPublish
    BY <2>2, ReleaseRemoves DEF Fifo!FifoNext, Fifo!Get
  <2>3. CASE PushWrite
    BY <2>3, ContentsKept DEF PushWrite, Fifo!fifoVars
  <2>4. CASE \/ \E v \in Value : PushLoad(v)
             \/ PopLoad \/ PopRead \/ Empty \/ UNCHANGED vars
    <3>1. UNCHANGED <<buffer, head, tail, popped>>
      BY <2>4 DEF PushLoad, PopLoad, PopRead, Empty, vars
    <3>2. QED
      BY <3>1, ContentsKept DEF Fifo!fifoVars
  <2>5. QED
    BY <2>1, <2>2, <2>3, <2>4 DEF Next, Producer, Consumer
<1>3. QED
  BY InitIInv, NextIInv, <1>1, <1>2, PTL DEF Spec, ImplementsFifo, Fifo!FifoSpec
-----------------------------------------------------------------------------
(* Market data. *)

(* s comes before t: a later publication of a book that is no older. *)
Before(s, t) == s.seq < t.seq /\ s.book <= t.book

(* Newer than the snapshot f: everything in the queue, which is in order. *)
Follows(f) == \A i \in 1 .. Len(md) : Before(f, md[i])
Ascending == \A i, j \in 1 .. Len(md) : i < j => Before(md[i], md[j])

(* Not newer than the last publication. *)
Published(s) == s.seq <= book_seq /\ s.book <= book

(* The newest snapshot that has left the matching thread. *)
Newest == IF md # <<>> THEN md[Len(md)] ELSE IF draining THEN latest ELSE client

(* From the client through the drain to the end of the queue, snapshots are in
   order of publication, and the newest is current unless one was refused. *)
MarketInv ==
  /\ MarketTypeOK
  /\ Ascending /\ Follows(client) /\ \A i \in 1 .. Len(md) : Published(md[i])
  /\ Published(client) /\ Published(latest)
  /\ latest # NoSnapshot => draining /\ Before(client, latest) /\ Follows(latest)
  /\ draining => md # <<>> \/ latest # NoSnapshot
  /\ ~registered => md = <<>> /\ ~draining
  /\ registered /\ ~dropped => Newest.book = book - unpublished

(* Nothing taken off. *)
LEMMA MinusZero == ASSUME NEW n \in Nat PROVE n = n - 0
OBVIOUS

(* The fields of a snapshot, or of none, are numbers. *)
LEMMA SnapshotFields ==
  ASSUME NEW s \in Snapshot \cup {NoSnapshot}
  PROVE  s.seq \in Int /\ s.book \in Int
<1>1. CASE s \in Snapshot
  BY <1>1 DEF Snapshot
<1>2. CASE s = NoSnapshot
  BY <1>2 DEF NoSnapshot
<1> QED BY <1>1, <1>2

(* The invariant holds before the first publication. *)
LEMMA InitMarketInv == ASSUME MarketInit PROVE MarketInv
<1>1. /\ book = 0 /\ book_seq = 0 /\ md = <<>> /\ latest = NoSnapshot /\ client = NoSnapshot
      /\ NoSnapshot.seq = 0 /\ NoSnapshot.book = -1
  BY DEF MarketInit, NoSnapshot
<1>2. /\ registered = FALSE /\ dropped = FALSE /\ subscribed = FALSE /\ draining = FALSE
      /\ unpublished \in Nat
  BY DEF MarketInit
<1>3. Len(md) = 0 /\ md \in Seq(Snapshot) /\ book \in Nat /\ book_seq \in Nat /\ Len(md) <= Capacity
  BY <1>1, CapacityAssumption
<1>4. MarketTypeOK
  BY <1>1, <1>2, <1>3, Zenon DEF MarketTypeOK
<1>5. Ascending /\ Follows(client) /\ (\A i \in 1 .. Len(md) : Published(md[i]))
  BY <1>3 DEF Ascending, Follows
<1>6. Published(client) /\ Published(latest)
  BY <1>1 DEF Published
<1> QED BY <1>1, <1>2, <1>4, <1>5, <1>6, Zenon DEF MarketInv

(* publish_book puts a snapshot of the new book behind all others, or says that
   it was refused. *)
LEMMA PublishOK ==
  ASSUME MarketInv, publish_book, book' \in {book, book + 1},
         UNCHANGED <<latest, draining, client>>
  PROVE  /\ md' \in Seq(Snapshot) /\ Len(md') <= Capacity /\ book_seq' \in Nat
         /\ dropped' \in BOOLEAN /\ unpublished' \in Nat
         /\ Ascending' /\ Follows(client)' /\ \A i \in 1 .. Len(md') : Published(md[i])'
         /\ Published(client)' /\ Published(latest)'
         /\ latest # NoSnapshot => Follows(latest)'
         /\ md # <<>> => md' # <<>>
         /\ ~dropped' => Newest'.book = book' - unpublished'
<1> DEFINE snap == [seq |-> book_seq + 1, book |-> book']
<1>1. /\ md \in Seq(Snapshot) /\ Len(md) \in Nat /\ Len(md) <= Capacity /\ Capacity \in Nat
      /\ book \in Nat /\ book' \in Nat /\ book_seq \in Nat /\ book_seq' = book_seq + 1
      /\ snap \in Snapshot /\ book <= book' /\ unpublished' = 0
      /\ client \in Snapshot \cup {NoSnapshot} /\ latest \in Snapshot \cup {NoSnapshot}
  BY CapacityAssumption DEF MarketInv, MarketTypeOK, publish_book, Snapshot
<1>2. /\ client.seq \in Int /\ client.book \in Int /\ latest.seq \in Int /\ latest.book \in Int
      /\ \A i \in 1 .. Len(md) : md[i] \in Snapshot /\ md[i].seq \in Int /\ md[i].book \in Int
  <2>1. \A i \in 1 .. Len(md) : md[i] \in Snapshot
    BY <1>1
  <2> QED BY <1>1, <2>1, SnapshotFields
<1>3. /\ client.seq < snap.seq /\ client.book <= snap.book
      /\ latest.seq < snap.seq /\ latest.book <= snap.book
      /\ \A i \in 1 .. Len(md) : Before(md[i], snap)
  <2> HIDE DEF snap
  <2>1. snap.seq = book_seq + 1 /\ snap.book = book'
    BY DEF snap
  <2>2. /\ client.seq <= book_seq /\ client.book <= book
        /\ latest.seq <= book_seq /\ latest.book <= book
        /\ \A i \in 1 .. Len(md) : md[i].seq <= book_seq /\ md[i].book <= book
    BY Zenon DEF MarketInv, Published
  <2>3. /\ client.seq < snap.seq /\ client.book <= snap.book
        /\ latest.seq < snap.seq /\ latest.book <= snap.book
    BY <1>1, <1>2, <2>1, <2>2
  <2>4. ASSUME NEW i \in 1 .. Len(md) PROVE Before(md[i], snap)
    <3>1. md[i].seq < snap.seq /\ md[i].book <= snap.book
      BY <1>1, <1>2, <2>1, <2>2
    <3> QED BY <3>1 DEF Before
  <2> QED BY <2>3, <2>4
<1>4. CASE Len(md) < Capacity
  <2>1. md' = Append(md, snap) /\ dropped' = FALSE
    BY <1>4, Zenon DEF publish_book
  <2>2. /\ md' \in Seq(Snapshot) /\ Len(md') = Len(md) + 1 /\ md' # <<>>
        /\ \A i \in 1 .. Len(md) : md'[i] = md[i]
        /\ md'[Len(md')] = snap
    BY <1>1, <2>1
  <2>3. \A i \in 1 .. Len(md') : i \in 1 .. Len(md) \/ md'[i] = snap
    BY <1>1, <2>2
  <2>4. Ascending'
    <3>1. SUFFICES ASSUME NEW i \in 1 .. Len(md'), NEW j \in 1 .. Len(md'), i < j
                   PROVE  Before(md'[i], md'[j])
      BY DEF Ascending
    <3>2. i \in 1 .. Len(md) /\ md'[i] = md[i]
      BY <1>1, <2>2, <3>1
    <3>3. CASE j \in 1 .. Len(md)
      BY <2>2, <3>1, <3>2, <3>3 DEF MarketInv, Ascending
    <3>4. CASE md'[j] = snap
      BY <1>3, <3>2, <3>4
    <3> QED BY <2>3, <3>3, <3>4
  <2>5. Follows(client)' /\ (latest # NoSnapshot => Follows(latest)')
    <3>1. Before(client, snap) /\ Before(latest, snap)
      BY <1>3, Zenon DEF Before
    <3> QED BY <1>1, <2>2, <2>3, <3>1, Zenon DEF Follows, MarketInv, Before
  <2>6. \A i \in 1 .. Len(md') : Published(md[i])'
    <3>1. ASSUME NEW i \in 1 .. Len(md') PROVE Published(md[i])'
      <4>1. CASE i \in 1 .. Len(md)
        <5>1. md'[i] = md[i] /\ md[i].seq <= book_seq /\ md[i].book <= book
          BY <2>2, <4>1, Zenon DEF MarketInv, Published
        <5>2. md[i].seq <= book_seq' /\ md[i].book <= book'
          BY <1>1, <1>2, <4>1, <5>1
        <5> QED BY <5>1, <5>2, Zenon DEF Published
      <4>2. CASE md'[i] = snap
        BY <1>1, <4>2 DEF Published
      <4> QED BY <2>3, <4>1, <4>2
    <3> QED BY <3>1
  <2>7. Published(client)' /\ Published(latest)'
    BY <1>1, <1>2, <1>3 DEF Published
  <2>8. Newest'.book = book' - unpublished'
    <3>1. Newest'.book = book'
      BY <2>2 DEF Newest
    <3>2. book' \in Nat /\ unpublished' = 0
      BY <1>1
    <3>3. book' = book' - unpublished'
      BY <3>2, MinusZero, Zenon
    <3> QED BY <3>1, <3>3, Zenon
  <2>9. Len(md') <= Capacity /\ book_seq' \in Nat
    BY <1>1, <1>4, <2>2
  <2>10. unpublished' \in Nat
    BY <1>1
  <2> QED BY <2>1, <2>2, <2>4, <2>5, <2>6, <2>7, <2>8, <2>9, <2>10, Zenon
<1>5. CASE ~(Len(md) < Capacity)
  <2>1. md' = md /\ dropped' = TRUE
    BY <1>5, Zenon DEF publish_book
  <2>2. Ascending' /\ Follows(client)' /\ (latest # NoSnapshot => Follows(latest)')
    BY <2>1 DEF Ascending, Follows, MarketInv
  <2>3. \A i \in 1 .. Len(md') : Published(md[i])'
    BY <1>1, <1>2, <2>1 DEF Published, MarketInv
  <2>4. Published(client)' /\ Published(latest)'
    BY <1>1, <1>2, <1>3 DEF Published
  <2> QED BY <1>1, <2>1, <2>2, <2>3, <2>4
<1> QED BY <1>4, <1>5

(* A publication joins the queue or is refused by it. *)
LEMMA MoveMarketInv == ASSUME MarketInv, Move \/ SubscribeAgain PROVE MarketInv'
<1>1. CASE registered
  <2>1. /\ publish_book /\ book' \in {book, book + 1} /\ UNCHANGED <<latest, draining, client>>
        /\ UNCHANGED <<registered, subscribed>>
    BY <1>1, Zenon DEF Move, SubscribeAgain
  <2>2. /\ md' \in Seq(Snapshot) /\ Len(md') <= Capacity /\ book_seq' \in Nat
        /\ dropped' \in BOOLEAN /\ unpublished' \in Nat
        /\ Ascending' /\ Follows(client)' /\ \A i \in 1 .. Len(md') : Published(md[i])'
        /\ Published(client)' /\ Published(latest)'
        /\ latest # NoSnapshot => Follows(latest)'
        /\ md # <<>> => md' # <<>>
        /\ ~dropped' => Newest'.book = book' - unpublished'
    BY <2>1, PublishOK
  <2>3. MarketTypeOK'
    BY <2>1, <2>2 DEF MarketInv, MarketTypeOK
  <2>4. latest' = latest /\ draining' = draining /\ client' = client /\ registered' = registered
    BY <2>1
  <2>5. latest' # NoSnapshot => draining'
    BY <2>4, Zenon DEF MarketInv
  <2>6. latest' # NoSnapshot => Before(client, latest)'
    BY <2>4 DEF MarketInv, Before
  <2>7. latest' # NoSnapshot => Follows(latest)'
    BY <2>2, <2>4
  <2>8. draining' => md' # <<>> \/ latest' # NoSnapshot
    BY <2>2, <2>4, Zenon DEF MarketInv
  <2>9. registered'
    BY <1>1, <2>4, Zenon
  <2> QED BY <2>2, <2>3, <2>5, <2>6, <2>7, <2>8, <2>9 DEF MarketInv
<1>2. CASE ~registered
  <2>1. /\ UNCHANGED <<md, dropped, unpublished, registered, subscribed, latest, draining, client>>
        /\ book' \in {book, book + 1} /\ book_seq' \in {book_seq, book_seq + 1}
        /\ book \in Nat /\ book_seq \in Nat /\ md = <<>> /\ ~draining
    BY <1>2 DEF Move, SubscribeAgain, MarketInv, MarketTypeOK
  <2>2. /\ client.book \in Int /\ latest.book \in Int /\ client.seq \in Int /\ latest.seq \in Int
    BY SnapshotFields DEF MarketInv, MarketTypeOK
  <2>3. MarketTypeOK'
    BY <2>1 DEF MarketInv, MarketTypeOK
  <2>4. Published(client)' /\ Published(latest)'
    BY <2>1, <2>2 DEF MarketInv, Published
  <2> QED BY <1>2, <2>1, <2>3, <2>4 DEF MarketInv, Ascending, Follows
<1> QED BY <1>1, <1>2

(* A refused Modify leaves the newest snapshot one move further behind. *)
LEMMA ModifyRefusedMarketInv == ASSUME MarketInv, ModifyRefused PROVE MarketInv'
<1>1. /\ UNCHANGED <<registered, book_seq, md, dropped, subscribed, latest, draining, client>>
      /\ book' = book + 1 /\ unpublished' = unpublished + 1
      /\ book \in Nat /\ book_seq \in Nat /\ unpublished \in Nat
  BY DEF ModifyRefused, MarketInv, MarketTypeOK
<1>2. MarketTypeOK'
  BY <1>1 DEF MarketInv, MarketTypeOK
<1>3. /\ client.book \in Int /\ latest.book \in Int
      /\ \A i \in 1 .. Len(md) : md[i].book \in Int
  <2>1. \A i \in 1 .. Len(md) : md[i] \in Snapshot
    BY DEF MarketInv, MarketTypeOK
  <2> QED BY <2>1, SnapshotFields DEF MarketInv, MarketTypeOK
<1>4. Published(client)' /\ Published(latest)' /\ \A i \in 1 .. Len(md') : Published(md[i])'
  BY <1>1, <1>3 DEF MarketInv, Published
<1>5. registered' /\ ~dropped' => Newest'.book = book' - unpublished'
  <2>1. Newest' = Newest
    BY <1>1, Zenon DEF Newest
  <2> QED BY <1>1, <2>1 DEF MarketInv
<1>6. Ascending' /\ Follows(client)' /\ (latest # NoSnapshot => Follows(latest)')
  BY <1>1 DEF MarketInv, Ascending, Follows
<1> QED BY <1>1, <1>2, <1>4, <1>5, <1>6 DEF MarketInv, Before

(* The answer to the first Subscribe. *)
LEMMA ApplySubscribeMarketInv == ASSUME MarketInv, ApplySubscribe PROVE MarketInv'
<1>1. /\ publish_book /\ book' = book /\ UNCHANGED <<latest, draining, client>>
      /\ registered' = TRUE /\ UNCHANGED subscribed
  BY DEF ApplySubscribe
<1>2. /\ md' \in Seq(Snapshot) /\ Len(md') <= Capacity /\ book_seq' \in Nat /\ dropped' \in BOOLEAN
      /\ unpublished' \in Nat
      /\ Ascending' /\ Follows(client)' /\ \A i \in 1 .. Len(md') : Published(md[i])'
      /\ Published(client)' /\ Published(latest)'
      /\ latest # NoSnapshot => Follows(latest)'
      /\ md # <<>> => md' # <<>>
      /\ ~dropped' => Newest'.book = book' - unpublished'
  BY <1>1, PublishOK
<1>3. MarketTypeOK'
  BY <1>1, <1>2 DEF MarketInv, MarketTypeOK
<1> QED BY <1>1, <1>2, <1>3 DEF MarketInv, Before

(* drain_market_data takes the next snapshot and forgets the one before. *)
LEMMA DrainPopMarketInv == ASSUME MarketInv, DrainPop PROVE MarketInv'
<1>1. /\ draining /\ md # <<>> /\ latest' = Head(md) /\ md' = Tail(md)
      /\ UNCHANGED <<book, registered, book_seq, dropped, unpublished, subscribed, draining,
                     client>>
      /\ registered
  BY DEF DrainPop, MarketInv
<1>2. /\ md \in Seq(Snapshot) /\ Len(md) \in Nat \ {0} /\ Len(md) <= Capacity
      /\ md' \in Seq(Snapshot) /\ Len(md') = Len(md) - 1
      /\ \A i \in 1 .. Len(md) - 1 : md'[i] = md[i + 1]
      /\ latest' = md[1] /\ latest' \in Snapshot
  BY <1>1 DEF MarketInv, MarketTypeOK
<1>3. MarketTypeOK'
  BY <1>1, <1>2, CapacityAssumption DEF MarketInv, MarketTypeOK
<1>4. Ascending'
  BY <1>2 DEF MarketInv, Ascending
<1>5. Follows(client)' /\ (\A i \in 1 .. Len(md') : Published(md[i])')
  BY <1>1, <1>2 DEF MarketInv, Follows, Published
<1>6. Before(client, latest)' /\ Follows(latest)' /\ Published(latest)' /\ Published(client)'
  BY <1>1, <1>2 DEF MarketInv, Ascending, Follows, Before, Published
<1>7. latest' # NoSnapshot
  BY <1>2 DEF Snapshot, NoSnapshot
<1>8. registered' /\ ~dropped' => Newest'.book = book' - unpublished'
  <2>1. CASE Len(md) = 1
    BY <1>1, <1>2, <2>1 DEF MarketInv, Newest
  <2>2. CASE Len(md) # 1
    <3>1. md' # <<>> /\ md'[Len(md')] = md[Len(md)]
      BY <1>2, <2>2
    <3> QED BY <1>1, <3>1 DEF MarketInv, Newest
  <2> QED BY <2>1, <2>2
<1> QED BY <1>1, <1>3, <1>4, <1>5, <1>6, <1>7, <1>8 DEF MarketInv

(* The newest snapshot drained goes to the client. *)
LEMMA DrainEndMarketInv == ASSUME MarketInv, DrainEnd PROVE MarketInv'
<1>1. /\ draining /\ md = <<>> /\ client' = latest /\ latest' = NoSnapshot /\ draining' = FALSE
      /\ UNCHANGED <<book, registered, book_seq, md, dropped, unpublished, subscribed>>
      /\ latest # NoSnapshot /\ registered
  BY DEF DrainEnd, MarketInv
<1>2. MarketTypeOK'
  BY <1>1, Zenon DEF MarketInv, MarketTypeOK
<1>3. Ascending' /\ Follows(client)' /\ (\A i \in 1 .. Len(md') : Published(md[i])')
  BY <1>1 DEF Ascending, Follows
<1>4. Published(client)' /\ Published(latest)'
  BY <1>1 DEF MarketInv, MarketTypeOK, Published, NoSnapshot
<1>5. registered' /\ ~dropped' => Newest'.book = book' - unpublished'
  BY <1>1 DEF MarketInv, Newest
<1> QED BY <1>1, <1>2, <1>3, <1>4, <1>5 DEF MarketInv

(* Every step keeps the invariant. *)
LEMMA NextMarketInv == ASSUME MarketInv, [MarketNext]_market PROVE MarketInv'
<1>1. CASE DispatchSubscribe \/ DrainBegin
  <2>1. /\ UNCHANGED <<book, registered, book_seq, md, dropped, unpublished, latest, client>>
        /\ draining' = draining \/ (draining' = TRUE /\ ~draining /\ md # <<>>)
        /\ subscribed' \in BOOLEAN
    BY <1>1, Zenon DEF DispatchSubscribe, DrainBegin, MarketInv, MarketTypeOK
  <2>2. MarketTypeOK'
    BY <2>1, Zenon DEF MarketInv, MarketTypeOK
  <2> QED BY <2>1, <2>2 DEF MarketInv, Ascending, Follows, Published, Newest
<1>2. CASE UNCHANGED market
  BY <1>2 DEF market, MarketInv, MarketTypeOK, Ascending, Follows, Published, Newest
<1> QED BY <1>1, <1>2, MoveMarketInv, ModifyRefusedMarketInv, ApplySubscribeMarketInv,
    DrainPopMarketInv, DrainEndMarketInv DEF MarketNext

(* The invariant holds throughout. *)
LEMMA AlwaysMarketInv == MarketSpec => []MarketInv
BY InitMarketInv, NextMarketInv, PTL DEF MarketSpec

(* A drained subscriber has the current book, but for the moves of refused
   Modifies since the last publication of publish_book, unless the queue refused
   that publication, whatever the capacity of the queue. *)
THEOREM StaleOnlyByTheLastDrop == MarketSpec => []StaleOnlyAfterDrop
<1>1. MarketInv => StaleOnlyAfterDrop
  BY DEF MarketInv, StaleOnlyAfterDrop, Drained, Newest
<1> QED BY <1>1, AlwaysMarketInv, PTL

(* What drain_market_data sends has an ever larger seq and never an older book. *)
THEOREM ClientNeverBackwards == MarketSpec => NeverBackwards
<1>1. ASSUME MarketInv, [MarketNext]_market
      PROVE  [client' # client => client'.seq > client.seq /\ client'.book >= client.book]_client
  <2>1. SUFFICES ASSUME client' # client
                 PROVE  client'.seq > client.seq /\ client'.book >= client.book
    OBVIOUS
  <2>2. DrainEnd
    BY <1>1, <2>1 DEF MarketNext, market, Move, ModifyRefused, SubscribeAgain, DispatchSubscribe,
       ApplySubscribe, DrainBegin, DrainPop
  <2>3. /\ Before(client, latest) /\ client' = latest
        /\ client.seq \in Int /\ client.book \in Int /\ latest.seq \in Int /\ latest.book \in Int
    BY <1>1, <2>2 DEF MarketInv, MarketTypeOK, DrainEnd, Snapshot, NoSnapshot
  <2> QED BY <2>3 DEF Before
<1> QED BY <1>1, AlwaysMarketInv, PTL DEF MarketSpec, NeverBackwards
-----------------------------------------------------------------------------
(* A raised pending_ has exactly one reason: the byte it stands for is about
   to be written, is in the pipe, has been read by a drain() that has not
   ended, or the store that lowers it is in the store buffer. *)
TokenInv ==
  /\ pipe \in {0, 1}
  /\ pending <=> \/ pipe = 1 \/ mpc = "write" \/ clearing
                 \/ npc \in {"drain", "clear"}
  /\ pipe = 1 => mpc # "write" /\ ~clearing /\ npc # "clear"
  /\ mpc = "write" => ~clearing /\ npc \notin {"drain", "clear"}
  /\ clearing => store_buffer /\ npc \notin {"drain", "clear"}

(* While the network thread blocks, what is in the queues was put there after
   its check, and is yet to be notified or has left pending_ raised. *)
BlockedInv ==
  ~store_buffer /\ npc = "blocked" /\ egress > 0 => batch \/ pending

ChannelInv == NotifierTypeOK /\ TokenInv

-----------------------------------------------------------------------------
(* The channel starts with pending_ down and the pipe empty. *)
LEMMA InitTokenInv == NotifierInit => ChannelInv
<1>1. NotifierInit => egress \in 0 .. EgressCapacity
  BY EgressAssumption DEF NotifierInit
<1>2. NotifierInit => TokenInv
  BY DEF NotifierInit, TokenInv
<1>3. NotifierInit => /\ store_buffer \in BOOLEAN
              /\ batch \in BOOLEAN /\ pending \in BOOLEAN /\ clearing \in BOOLEAN
              /\ mpc \in {"apply", "notify", "write"}
              /\ pipe \in {0, 1}
              /\ npc \in {"check", "poll", "blocked", "drain", "clear", "serve"}
  BY Zenon DEF NotifierInit
<1> QED
  BY <1>1, <1>2, <1>3 DEF ChannelInv, NotifierTypeOK

(* Every step of notify(), of drain() and of the loops around them keeps the
   one reason for a raised pending_. *)
LEMMA NextTokenInv == ChannelInv /\ [NotifierNext]_channel => ChannelInv'
<1> SUFFICES ASSUME ChannelInv, [NotifierNext]_channel PROVE ChannelInv'
  OBVIOUS
<1> USE EgressAssumption DEF ChannelInv, NotifierTypeOK, TokenInv
<1>1. CASE Emit
  <2>1. egress' \in 0 .. EgressCapacity
    BY <1>1 DEF Emit
  <2>2. batch' \in BOOLEAN
    BY <1>1, Zenon DEF Emit
  <2> QED
    BY <1>1, <2>1, <2>2 DEF Emit
<1>2. CASE Notify
  BY <1>2, Zenon DEF Notify
<1>3. CASE NotifyWrite
  BY <1>3 DEF NotifyWrite
<1>4. CASE EndBatch \/ Check \/ Serve \/ Served
  BY <1>4 DEF EndBatch, Check, Serve, Served
<1>5. CASE PollNow \/ Wake \/ Timeout
  BY <1>5 DEF PollNow, Wake, Timeout, Return
<1>6. CASE Read
  BY <1>6 DEF Read
<1>7. CASE Clear
  BY <1>7, Zenon DEF Clear, StoreClear
<1>8. CASE FlushClear
  BY <1>8, Zenon DEF FlushClear
<1>9. CASE UNCHANGED channel
  BY <1>9 DEF channel
<1> QED
  BY <1>1, <1>2, <1>3, <1>4, <1>5, <1>6, <1>7, <1>8, <1>9, Zenon
     DEF NotifierNext, Matching, Network

-----------------------------------------------------------------------------
(* Every state of Notifier is well typed; in particular a burst of batches
   leaves at most one byte in the pipe. *)
THEOREM NotifierTypeCorrect == NotifierSpec => []NotifierTypeOK
<1>1. ChannelInv => NotifierTypeOK
  BY DEF ChannelInv
<1> QED
  BY InitTokenInv, NextTokenInv, <1>1, PTL DEF NotifierSpec

(* Whatever the interleaving of notify() and drain(), and on both builds, the
   notification channel does not die (notifier.hpp:76-83). *)
THEOREM NeverDead == NotifierSpec => []ChannelAlive
<1>1. ChannelInv => ChannelAlive
  BY DEF ChannelInv, TokenInv, ChannelAlive
<1> QED
  BY InitTokenInv, NextTokenInv, <1>1, PTL DEF NotifierSpec

(* Where the store that ends drain() is not delayed, the network thread never
   blocks on an event nobody will announce (tcp_server.cpp:150-154). *)
THEOREM NothingSleptOn == NotifierSpec => []NoStall
<1>1. NotifierInit => BlockedInv
  BY DEF NotifierInit, BlockedInv
<1>2. ChannelInv /\ BlockedInv /\ [NotifierNext]_channel => BlockedInv'
  <2> SUFFICES ASSUME ChannelInv, BlockedInv, [NotifierNext]_channel PROVE BlockedInv'
    OBVIOUS
  <2> USE EgressAssumption DEF ChannelInv, NotifierTypeOK, TokenInv, BlockedInv
  <2>1. CASE Emit \/ EndBatch \/ Notify \/ NotifyWrite
    BY <2>1 DEF Emit, EndBatch, Notify, NotifyWrite
  <2>2. CASE Check \/ Read \/ Serve \/ Served
    BY <2>2 DEF Check, Read, Serve, Served
  <2>3. CASE PollNow \/ Wake \/ Timeout
    BY <2>3 DEF PollNow, Wake, Timeout, Return
  <2>4. CASE Clear \/ FlushClear
    BY <2>4 DEF Clear, FlushClear, StoreClear
  <2>5. CASE UNCHANGED channel
    BY <2>5 DEF channel
  <2> QED
    BY <2>1, <2>2, <2>3, <2>4, <2>5 DEF NotifierNext, Matching, Network
<1>3. ChannelInv /\ BlockedInv => NoStall
  BY DEF ChannelInv, NotifierTypeOK, TokenInv, BlockedInv, NoStall
<1> QED
  BY InitTokenInv, NextTokenInv, <1>1, <1>2, <1>3, PTL DEF NotifierSpec
-----------------------------------------------------------------------------
(* stop()'s store is behind every push, and the consumer leaves its loop only
   on seeing it. *)
StopInv ==
  /\ heldStop \/ ~running => stopping
  /\ ~running => held = 0
  /\ wpc \in {"sweep", "done"} => ~running
  /\ wpc = "done" => inbound = 0

(* WaiterTypeOK, in the two parts the provers handle separately. *)
Counts == /\ inbound \in Nat /\ held \in Nat /\ inbound + held <= InboundCapacity
          /\ self_pipe \in 0 .. PipeCapacity

Flags ==
  /\ tso \in BOOLEAN
  /\ running \in BOOLEAN /\ parked \in BOOLEAN
  /\ stopping \in BOOLEAN /\ heldStop \in BOOLEAN
  /\ sig \in {"outside", "load", "write"}
  /\ wpc \in {"spin", "recheck", "recheck2", "blocked", "woken", "read",
             "drain", "loop", "sweep", "done"}

(* Without a store buffer parked_ is up from Park to Unpark, and a command that
   arrives after the check that it precedes is announced. *)
ParkInv ==
  ~tso =>
    /\ held = 0
    /\ parked <=> wpc \in {"recheck", "recheck2", "blocked", "woken"}
    /\ wpc \in {"recheck2", "blocked"} /\ inbound > 0 => self_pipe > 0 \/ sig # "outside"

-----------------------------------------------------------------------------
(* Every state of Waiter is well typed, and at most InboundCapacity commands
   are in the queue or on their way to it: submit()'s test of the queue bounds both. *)
THEOREM WaiterTypeCorrect == WaiterSpec => []WaiterTypeOK
<1>1. WaiterInit => WaiterTypeOK
  <2>1. WaiterInit => Counts
    BY SizeAssumption DEF WaiterInit, Counts
  <2>2. WaiterInit => Flags
    BY Zenon DEF WaiterInit, Flags
  <2> QED
    BY <2>1, <2>2 DEF WaiterTypeOK, Counts, Flags
<1>2. WaiterTypeOK /\ [WaiterNext]_waiter => WaiterTypeOK'
  <2> SUFFICES ASSUME Counts, Flags, [WaiterNext]_waiter PROVE Counts' /\ Flags'
    BY Zenon DEF WaiterTypeOK, Counts, Flags
  <2> USE DEF ProducerStep, ConsumerStep, memory
  <2>1. CASE Submit
    BY <2>1, SizeAssumption DEF Submit, StorePush, Counts, Flags
  <2>2. CASE Stop
    BY <2>2, Zenon DEF Stop, StoreStop, Counts, Flags
  <2>3. CASE SignalLoad
    BY <2>3, Zenon DEF SignalLoad, Counts, Flags
  <2>4. CASE SignalWrite
    BY <2>4, SizeAssumption DEF SignalWrite, Lesser, Counts, Flags
  <2>5. CASE Flush
    <3>1. Counts'
      BY <2>5 DEF Flush, Counts
    <3>2. Flags'
      BY <2>5, Zenon DEF Flush, Flags
    <3> QED
      BY <3>1, <3>2, Zenon
  <2>6. CASE ReadPipe
    BY <2>6, SizeAssumption DEF ReadPipe, Lesser, Counts, Flags
  <2>7. CASE Pop
    <3>1. Counts'
      BY <2>7, SizeAssumption DEF Pop, Counts
    <3>2. Flags'
      BY <2>7 DEF Pop, Flags
    <3> QED
      BY <3>1, <3>2
  <2>8. CASE SpinFinds \/ Park \/ Recheck \/ RecheckRunning \/ WakesUp \/ TimesOut
    BY <2>8, Zenon DEF SpinFinds, Park, Recheck, RecheckRunning, WakesUp, TimesOut, Counts, Flags
  <2>9. CASE Unpark \/ QueueEmpty \/ Loop \/ Swept
    BY <2>9, Zenon DEF Unpark, QueueEmpty, Loop, Swept, Counts, Flags
  <2>10. CASE UNCHANGED waiter
    BY <2>10 DEF waiter, Counts, Flags
  <2> QED
    BY <2>1, <2>2, <2>3, <2>4, <2>5, <2>6, <2>7, <2>8, <2>9, <2>10, Zenon DEF WaiterNext
<1> QED
  BY <1>1, <1>2, PTL DEF WaiterSpec

(* On both builds, every command submitted before stop() has been applied by
   the time the matching thread ends (matching_thread.hpp:219). *)
THEOREM SweepComplete == WaiterSpec => []NothingStranded
<1>1. WaiterInit => StopInv
  BY Zenon DEF WaiterInit, StopInv
<1>2. WaiterTypeOK /\ StopInv /\ [WaiterNext]_waiter => StopInv'
  <2> SUFFICES ASSUME WaiterTypeOK, StopInv, [WaiterNext]_waiter PROVE StopInv'
    BY Zenon
  <2> USE DEF WaiterTypeOK, StopInv, memory
  <2>1. CASE Submit
    BY <2>1, Zenon DEF Submit, StorePush
  <2>2. CASE Stop
    BY <2>2, Zenon DEF Stop, StoreStop
  <2>3. CASE SignalLoad \/ SignalWrite
    BY <2>3 DEF SignalLoad, SignalWrite
  <2>4. CASE Flush
    BY <2>4 DEF Flush
  <2>5. CASE SpinFinds \/ Park \/ Recheck \/ RecheckRunning \/ WakesUp \/ TimesOut
    BY <2>5 DEF SpinFinds, Park, Recheck, RecheckRunning, WakesUp, TimesOut
  <2>6. CASE Unpark \/ ReadPipe \/ Pop \/ QueueEmpty \/ Loop \/ Swept
    BY <2>6 DEF Unpark, ReadPipe, Pop, QueueEmpty, Loop, Swept
  <2>7. CASE UNCHANGED waiter
    BY <2>7 DEF waiter
  <2> QED
    BY <2>1, <2>2, <2>3, <2>4, <2>5, <2>6, <2>7, Zenon DEF WaiterNext, ProducerStep, ConsumerStep
<1>3. StopInv => NothingStranded
  BY DEF StopInv, NothingStranded
<1> QED
  BY WaiterTypeCorrect, <1>1, <1>2, <1>3, PTL DEF WaiterSpec

(* On a build that does not delay the push past the load of parked_, the
   matching thread never blocks on a command nobody will announce
   (waiter.hpp:19-50): for commands the timeout in poll() is only a backstop. *)
THEOREM WakeupNotMissed == WaiterSpec => []NoMissedWakeup
<1>1. WaiterInit => ParkInv
  BY Zenon DEF WaiterInit, ParkInv
<1>2. WaiterTypeOK /\ ParkInv /\ [WaiterNext]_waiter => ParkInv'
  <2> SUFFICES ASSUME WaiterTypeOK, ParkInv, [WaiterNext]_waiter PROVE ParkInv'
    OBVIOUS
  <2> USE SizeAssumption DEF WaiterTypeOK, ParkInv, memory
  <2>1. CASE Submit
    BY <2>1, Zenon DEF Submit, StorePush
  <2>2. CASE Stop
    BY <2>2, Zenon DEF Stop, StoreStop
  <2>3. CASE SignalLoad
    BY <2>3, Zenon DEF SignalLoad
  <2>4. CASE SignalWrite
    BY <2>4 DEF SignalWrite, Lesser
  <2>5. CASE Flush
    BY <2>5 DEF Flush
  <2>6. CASE SpinFinds \/ Park \/ WakesUp \/ TimesOut \/ Unpark \/ ReadPipe
    BY <2>6, Zenon DEF SpinFinds, Park, WakesUp, TimesOut, Unpark, ReadPipe
  <2>7. CASE Recheck \/ RecheckRunning
    BY <2>7, Zenon DEF Recheck, RecheckRunning
  <2>8. CASE Pop \/ QueueEmpty \/ Loop \/ Swept
    BY <2>8, Zenon DEF Pop, QueueEmpty, Loop, Swept
  <2>9. CASE UNCHANGED waiter
    BY <2>9 DEF waiter
  <2> QED
    BY <2>1, <2>2, <2>3, <2>4, <2>5, <2>6, <2>7, <2>8, <2>9, Zenon
       DEF WaiterNext, ProducerStep, ConsumerStep
<1>3. ParkInv => NoMissedWakeup
  BY DEF ParkInv, NoMissedWakeup
<1> QED
  BY WaiterTypeCorrect, <1>1, <1>2, <1>3, PTL DEF WaiterSpec
=============================================================================
