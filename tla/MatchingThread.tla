--------------------------- MODULE MatchingThread ---------------------------
(***************************************************************************)
(* MatchingThread::apply (include/ome/matching_thread.hpp) and everything  *)
(* it calls: the risk gate, the engine, the ownership maps, the events it  *)
(* emits and the snapshots it publishes.  A command is applied in one      *)
(* step, since only this thread touches the state.                         *)
(*                                                                         *)
(* st is that state.  owner_of_, client_id_of_, remaining_of_ and side_of_ *)
(* share their keys at every assignment and are one map, live.  st.out and *)
(* st.md are what the last command put on the egress and the market data   *)
(* queues.                                                                 *)
(*                                                                         *)
(* Two orders may come to share their key in by_client_id_.  key_of packs  *)
(* 96 bits into 64, so that an id of one session may have the key of       *)
(* another id of another session: colliding says whether the ids of this   *)
(* behaviour do.  And a NewOrder may come with the id of a live order:     *)
(* Session::live_orders_ frees an id on every Reject, that of an earlier   *)
(* Cancel among them, which may be delivered after the id was taken.       *)
(* clashed says that a command has met the order of another one.           *)
(***************************************************************************)
EXTENDS ProcessOrder, FiniteSetsExt, TLC

CONSTANTS Session, ClientId, Price, Quantity, OrderType,
          MaxOrderQty, TickSize, BandBp,  \* RiskConfig
          MaxBookDepth,                   \* protocol::kMaxBookDepth
          MaxOrders, MaxSubscribers       \* bounds; each subscriber costs one order

(* What key_of is exact for: see there. *)
ASSUME TwoByTwo == Cardinality(Session) <= 2 /\ Cardinality(ClientId) <= 2

VARIABLES st, cmd, retired, colliding, clashed

vars == <<st, cmd, retired, colliding, clashed>>

Fresh == [book |-> EmptyBook, last_trade |-> 0, next_id |-> 1,
          live |-> <<>>, orders |-> [s \in Session |-> {}], by_client |-> <<>>,
          egress |-> {}, subscribers |-> {}, book_seq |-> 0, out |-> <<>>, md |-> <<>>]

Init == /\ st = Fresh /\ cmd = [type |-> "None"] /\ retired = {}
        /\ colliding \in BOOLEAN /\ clashed = FALSE
-----------------------------------------------------------------------------
(* A key, as the set of the pairs that are packed into it.  The factor is odd,
   so that the ids of a session have different keys, and so has one id in two
   sessions (below 2^24).  If the keys of <<s, c>> and <<t, d>> are equal, so are
   those of <<s, d>> and <<t, c>>: they are sums without carry. *)
key_of(session, coid) ==
  {<<session, coid>>} \cup
    (IF colliding THEN (Session \ {session}) \X (ClientId \ {coid}) ELSE {})

KeyOf(o) == key_of(o.session, o.coid)

(* A session without a queue gets nothing. *)
emit(s, e) == IF e.session \in s.egress THEN [s EXCEPT !.out = Append(@, e)] ELSE s

(* An Ack that leaves its order open. *)
AckNeverCloses(c, id, closes) == [type |-> "Ack", session |-> c.session, coid |-> c.coid,
                                  id |-> id, closes |-> FALSE]

Ack(c, id, closes) == [type |-> "Ack", session |-> c.session, coid |-> c.coid,
                       id |-> id, closes |-> closes]
Reject(c, reason) == [type |-> "Reject", session |-> c.session, coid |-> c.coid,
                      reason |-> reason, closes |-> TRUE]

Fill(o, id, t, left) == [type |-> "Fill", session |-> o.session, coid |-> o.coid, id |-> id,
                         price |-> t.price, qty |-> t.qty, left |-> left, closes |-> left = 0]

(* A forget that leaves the session's set alone. *)
ForgetPartly(s, id) ==
  IF id \notin DOMAIN s.live THEN s
  ELSE [s EXCEPT !.by_client = Erase(@, KeyOf(s.live[id])),
                 !.live = Erase(@, id)]

forget_order(s, id) ==
  IF id \notin DOMAIN s.live THEN s
  ELSE LET o == s.live[id]
       IN  [s EXCEPT !.by_client = Erase(@, KeyOf(o)),
                     !.orders[o.session] = @ \ {id},
                     !.live = Erase(@, id)]

(* 0 when there is no such order. *)
find_order(s, c) ==
  IF KeyOf(c) \in DOMAIN s.by_client THEN s.by_client[KeyOf(c)] ELSE 0

(* The levels a BookUpdate carries. *)
TopOfBook(book) == <<levels_ticks(book.bids, MaxBookDepth), levels_ticks(book.asks, MaxBookDepth)>>

publish_book(s) ==
  IF s.subscribers = {} THEN s
  ELSE [s EXCEPT !.book_seq = @ + 1,
                 !.md = Append(@, [seq |-> s.book_seq + 1, book |-> TopOfBook(s.book)])]

(* An order that its first fill makes forgotten. *)
RouteFillForgets(s, id, t) ==
  IF id \notin DOMAIN s.live THEN s
  ELSE LET left == IF s.live[id].remaining > t.qty THEN s.live[id].remaining - t.qty ELSE 0
       IN  forget_order(emit(s, Fill(s.live[id], id, t, left)), id)

route_fill(s, id, t) ==
  IF id \notin DOMAIN s.live THEN s
  ELSE LET left == IF s.live[id].remaining > t.qty THEN s.live[id].remaining - t.qty ELSE 0
           told == emit([s EXCEPT !.live[id].remaining = left], Fill(s.live[id], id, t, left))
       IN  IF left = 0 THEN forget_order(told, id) ELSE told

RECURSIVE publish_trades(_, _)
publish_trades(s, trades) ==
  IF trades = <<>> THEN s
  ELSE LET t == Head(trades)
           bought == route_fill([s EXCEPT !.last_trade = t.price], t.buyer, t)
       IN  publish_trades(route_fill(bought, t.seller, t), Tail(trades))
-----------------------------------------------------------------------------
(* The last trade, else the middle of a two-sided book, else none (0). *)
reference_price(s) ==
  IF s.last_trade > 0 THEN s.last_trade
  ELSE IF s.book.bids = <<>> \/ s.book.asks = <<>> THEN 0
  ELSE (Head(s.book.bids).price + Head(s.book.asks).price) \div 2

InBand(price, reference) ==
  LET distance == IF price > reference THEN price - reference ELSE reference - price
  IN  reference = 0 \/ distance * 10000 <= reference * BandBp

check_risk(s, c) ==
  IF c.qty = 0 THEN "INVALID_QTY"
  ELSE IF c.qty > MaxOrderQty THEN "RISK_MAX_ORDER_SIZE"
  ELSE IF c.otype = "MARKET" THEN "NONE"
  ELSE IF c.price <= 0 \/ (TickSize > 1 /\ c.price % TickSize # 0) THEN "INVALID_PRICE"
  ELSE IF BandBp > 0 /\ ~InBand(c.price, reference_price(s)) THEN "RISK_PRICE_BAND"
  ELSE "NONE"

(* The owner is recorded before the engine runs, the order may fill at once. *)
Record(s, c, id) ==
  [s EXCEPT !.next_id = @ + 1,
            !.live = Put(@, id, [session |-> c.session, coid |-> c.coid,
                                 remaining |-> c.qty, side |-> c.side]),
            !.orders[c.session] = @ \cup {id},
            !.by_client = Put(@, KeyOf(c), id)]

(* Fills that go out before the Ack. *)
ApplyNewFillsFirst(s, c) ==
  IF check_risk(s, c) # "NONE"
    THEN emit(s, Reject(c, check_risk(s, c)))
    ELSE LET o == [id |-> s.next_id, type |-> c.otype, side |-> c.side,
                   price |-> c.price, qty |-> c.qty]
             e == processOrder(s.book, o)
             filled == publish_trades([Record(s, c, o.id) EXCEPT !.book = e.book], e.trades)
             done == publish_book(emit(filled, Ack(c, o.id, FALSE)))
         IN  IF o.type = "MARKET" THEN forget_order(done, o.id) ELSE done

(* The engine accepts every limit and market order, so that the branch for a
   refusal is not taken. *)
apply_new_order(s, c) ==
  IF check_risk(s, c) # "NONE"
    THEN emit(s, Reject(c, check_risk(s, c)))
    ELSE LET o == [id |-> s.next_id, type |-> c.otype, side |-> c.side,
                   price |-> c.price, qty |-> c.qty]
             e == processOrder(s.book, o)
             acked == emit([Record(s, c, o.id) EXCEPT !.book = e.book], Ack(c, o.id, FALSE))
             done == publish_book(publish_trades(acked, e.trades))
         IN  IF o.type = "MARKET" THEN forget_order(done, o.id) ELSE done

(* A cancel that tells no subscriber. *)
ApplyCancelQuietly(s, c) ==
  LET id == find_order(s, c)
  IN  IF id = 0 \/ ~IsResting(s.book, id)
        THEN emit(s, Reject(c, "UNKNOWN_ORDER"))
        ELSE emit(forget_order([s EXCEPT !.book = cancelOrder(@, id)], id), Ack(c, id, TRUE))

apply_cancel(s, c) ==
  LET id == find_order(s, c)
  IN  IF id = 0 \/ ~IsResting(s.book, id)
        THEN emit(s, Reject(c, "UNKNOWN_ORDER"))
        ELSE publish_book(emit(forget_order([s EXCEPT !.book = cancelOrder(@, id)], id),
                               Ack(c, id, TRUE)))

(* Cancel and new order as a unit; the side is that of the old order. *)
apply_modify(s, c) ==
  LET id == find_order(s, c)
  IN  IF id = 0 \/ ~IsResting(s.book, id)
        THEN emit(s, Reject(c, "UNKNOWN_ORDER"))
        ELSE apply_new_order(forget_order([s EXCEPT !.book = cancelOrder(@, id)], id),
                             [type |-> "NewOrder", session |-> c.session, coid |-> c.coid,
                              price |-> c.price, qty |-> c.qty,
                              side |-> s.live[id].side, otype |-> "LIMIT"])

(* The session goes, after its tombstone. *)
Retire(s, session) ==
  [emit(s, [type |-> "SessionRetired", session |-> session, closes |-> FALSE])
     EXCEPT !.orders[session] = {}, !.egress = @ \ {session}, !.subscribers = @ \ {session}]

(* Cancel and forget each of the orders. *)
RECURSIVE CancelEach(_, _)
CancelEach(s, ids) ==
  IF ids = {} THEN s
  ELSE LET id == Min(ids)
       IN  CancelEach(forget_order([s EXCEPT !.book = cancelOrder(@, id)], id), ids \ {id})

apply_cancel_all(s, c) ==
  publish_book(Retire(CancelEach(s, s.orders[c.session]), c.session))

apply_subscribe(s, c) ==
  publish_book(emit([s EXCEPT !.subscribers = @ \cup {c.session}], Ack(c, 0, FALSE)))

apply(s, c) ==
  CASE c.type = "SessionOpened" -> [s EXCEPT !.egress = @ \cup {c.session}]
    [] c.type = "Subscribe" -> apply_subscribe(s, c)
    [] c.type = "NewOrder" -> apply_new_order(s, c)
    [] c.type = "Cancel" -> apply_cancel(s, c)
    [] c.type = "Modify" -> apply_modify(s, c)
    [] c.type = "CancelAllForSession" -> apply_cancel_all(s, c)
-----------------------------------------------------------------------------
(* What a snapshot holds of the state, and the state of a thread that starts
   from one. *)
export_snapshot(s) ==
  [last_trade |-> s.last_trade, next_id |-> s.next_id,
   orders |-> [k \in 1 .. Len(all_orders(s.book)) |->
                 LET o == all_orders(s.book)[k]
                 IN  [id |-> o.id, side |-> o.side, price |-> o.price, qty |-> o.qty,
                      session |-> s.live[o.id].session, coid |-> s.live[o.id].coid]]]

(* ... and one that lacks the index cancels look in. *)
RestoreUnindexed(s, so) ==
  [s EXCEPT !.book = addOrder(@, [id |-> so.id, type |-> "LIMIT", side |-> so.side,
                                  price |-> so.price, qty |-> so.qty]),
            !.live = Put(@, so.id, [session |-> so.session, coid |-> so.coid,
                                    remaining |-> so.qty, side |-> so.side]),
            !.orders[so.session] = @ \cup {so.id}]

RestoreOrder(s, so) ==
  [s EXCEPT !.book = addOrder(@, [id |-> so.id, type |-> "LIMIT", side |-> so.side,
                                  price |-> so.price, qty |-> so.qty]),
            !.live = Put(@, so.id, [session |-> so.session, coid |-> so.coid,
                                    remaining |-> so.qty, side |-> so.side]),
            !.orders[so.session] = @ \cup {so.id},
            !.by_client = Put(@, KeyOf(so), so.id)]

RECURSIVE RestoreAll(_, _)
RestoreAll(s, orders) ==
  IF orders = <<>> THEN s ELSE RestoreAll(RestoreOrder(s, Head(orders)), Tail(orders))

restore(d) ==
  RestoreAll([Fresh EXCEPT !.last_trade = d.last_trade, !.next_id = d.next_id], d.orders)

(* A log without the cancels of a lost session. *)
LoggableClientOnly(type) == type \in {"NewOrder", "Cancel", "Modify"}

is_loggable(type) == type \in {"NewOrder", "Cancel", "Modify", "CancelAllForSession"}
-----------------------------------------------------------------------------
(* The command has the key of a live order that is not the one it is about: a
   new order is about none, the others about one of their session. *)
Clashes(s, c) ==
  /\ c.type \in {"NewOrder", "Cancel", "Modify"} /\ find_order(s, c) # 0
  /\ c.type = "NewOrder" \/ s.live[find_order(s, c)].session # c.session

Apply(c) ==
  /\ cmd' = c
  /\ st' = apply([st EXCEPT !.out = <<>>, !.md = <<>>], c)
  /\ clashed' = (clashed \/ Clashes(st, c))
  /\ UNCHANGED colliding

(* Another order is within the bounds. *)
MoreOrders == st.next_id <= MaxOrders - Cardinality(st.subscribers)

SessionOpened(s) == /\ s \notin st.egress \cup retired
                    /\ Apply([type |-> "SessionOpened", session |-> s])
                    /\ UNCHANGED retired

Subscribe(s) == /\ s \in st.egress
                /\ s \in st.subscribers \/ (MoreOrders /\ Cardinality(st.subscribers) < MaxSubscribers)
                /\ Apply([type |-> "Subscribe", session |-> s, coid |-> 0])
                /\ UNCHANGED retired

(* One price is enough where the price is not looked at: for a market order and
   for an order that is too large. *)
PriceMatters(qty, otype) == otype = "LIMIT" /\ qty <= MaxOrderQty

NewOrder(s, coid, price, qty, side, otype) ==
  /\ s \in st.egress /\ qty > 0 /\ MoreOrders
  /\ PriceMatters(qty, otype) \/ price = Min(Price)
  /\ Apply([type |-> "NewOrder", session |-> s, coid |-> coid, price |-> price,
            qty |-> qty, side |-> side, otype |-> otype])
  /\ UNCHANGED retired

Cancel(s, coid) == /\ s \in st.egress
                   /\ Apply([type |-> "Cancel", session |-> s, coid |-> coid])
                   /\ UNCHANGED retired

Modify(s, coid, price, qty) ==
  /\ s \in st.egress /\ MoreOrders
  /\ PriceMatters(qty, "LIMIT") \/ price = Min(Price)
  /\ Apply([type |-> "Modify", session |-> s, coid |-> coid, price |-> price, qty |-> qty])
  /\ UNCHANGED retired

CancelAllForSession(s) == /\ s \in st.egress
                          /\ Apply([type |-> "CancelAllForSession", session |-> s])
                          /\ retired' = retired \cup {s}

Next == \E s \in Session :
          \/ SessionOpened(s) \/ Subscribe(s) \/ CancelAllForSession(s)
          \/ \E coid \in ClientId :
               \/ Cancel(s, coid)
               \/ \E price \in Price, qty \in Quantity :
                    \/ Modify(s, coid, price, qty)
                    \/ \E side \in Side, otype \in OrderType :
                         NewOrder(s, coid, price, qty, side, otype)

Spec == Init /\ [][Next]_vars

Symmetry == Permutations(Session) \cup Permutations(ClientId)

(* What the next command depends on: the last one, what it sent and how many
   snapshots there have been do not matter to it. *)
View == <<[st EXCEPT !.out = <<>>, !.md = <<>>, !.book_seq = 0], retired, colliding, clashed>>
-----------------------------------------------------------------------------
(* The state has its types. *)
TypeOK ==
  /\ st.last_trade \in Nat /\ st.next_id \in 1 .. MaxOrders + 1 /\ st.book_seq \in Nat
  /\ st.egress \subseteq Session /\ st.subscribers \subseteq st.egress
  /\ st.live \in [DOMAIN st.live -> [session : Session, coid : ClientId,
                                    remaining : Nat \ {0}, side : Side]]
  /\ st.orders \in [Session -> SUBSET (1 .. MaxOrders)]
  /\ st.by_client \in [DOMAIN st.by_client -> 1 .. MaxOrders]
  /\ retired \subseteq Session /\ colliding \in BOOLEAN /\ clashed \in BOOLEAN

(* The six maps of the thread and the book agree after every command: exactly
   the resting orders have an owner, with the book's quantity and side, and the
   sets of the sessions hold exactly these.  No order outlives its session: one
   that is gone owns nothing, so that no fill is routed to it.  A key leads to a
   live order with that key, and as long as no command has clashed with an order
   every live order is found by its key. *)
OwnershipExact ==
  /\ TypeOK
  /\ DOMAIN st.live = DOMAIN st.book.loc
  /\ \A o \in Range(all_orders(st.book)) :
       st.live[o.id].remaining = o.qty /\ st.live[o.id].side = o.side
  /\ \A s \in Session : st.orders[s] = {id \in DOMAIN st.live : st.live[id].session = s}
  /\ \A key \in DOMAIN st.by_client : /\ st.by_client[key] \in DOMAIN st.live
                                      /\ KeyOf(st.live[st.by_client[key]]) = key
  /\ ~clashed => \A id \in DOMAIN st.live : find_order(st, st.live[id]) = id
  /\ \A id \in DOMAIN st.live : st.live[id].session \in st.egress
  /\ \A s \in Session \ st.egress : st.orders[s] = {} /\ s \notin st.subscribers

(* "Ack precedes Fill, always" (PROTOCOL.md:180): an order that trades in the
   command that places it is acknowledged first.  Every trade is told to both
   parties: fills come in twos, of different orders, with one price and one
   quantity. *)
EventsInOrder ==
  [][/\ \A k \in 1 .. Len(st'.out) :
          st'.out[k].type = "Fill" /\ st'.out[k].id = st.next_id
            => \E j \in 1 .. k - 1 : st'.out[j].type = "Ack" /\ st'.out[j].id = st.next_id
     /\ LET fills == SelectSeq(st'.out, LAMBDA e : e.type = "Fill")
        IN  /\ Len(fills) % 2 = 0
            /\ \A k \in 1 .. Len(fills) \div 2 :
                 LET buy == fills[2 * k - 1]
                     sell == fills[2 * k]
                 IN  buy.id # sell.id /\ buy.price = sell.price /\ buy.qty = sell.qty]_vars

(* What of the state a restart brings back. *)
Durable(s) == [s EXCEPT !.egress = {}, !.subscribers = {}, !.book_seq = 0, !.out = <<>>, !.md = <<>>]

(* A thread that starts from a snapshot has the state the snapshot was taken of;
   of two live orders with one key it may index another one. *)
SnapshotRoundTrip ==
  LET back == Durable(restore(export_snapshot(st)))
  IN  /\ [back EXCEPT !.by_client = <<>>] = [Durable(st) EXCEPT !.by_client = <<>>]
      /\ ~clashed => back.by_client = st.by_client

(* What an event says of an order is what happened to it in the book: an order
   that was live has lost the quantity of its fills, and one that is gone was
   filled to the end, or cancelled with its session or by a command with its
   key: its owner's, unless keys collide. *)
FillsAccount ==
  [][\A id \in DOMAIN st.live :
       LET fills == SelectSeq(st'.out, LAMBDA e : e.type = "Fill" /\ e.id = id)
           told == Total(fills)
           o == st.live[id]
       IN  IF id \in DOMAIN st'.live
             THEN st'.live[id].remaining = o.remaining - told
             ELSE \/ told = o.remaining
                  \/ cmd'.type = "CancelAllForSession" /\ cmd'.session = o.session
                  \/ cmd'.type \in {"Cancel", "Modify"} /\ KeyOf(cmd') = KeyOf(o)]_vars

(* Replay does what the command did: the commands that are not logged change
   nothing that a restart must bring back, and the others change it in the same
   way in a thread that knows no session and no subscriber. *)
ReplayFollows ==
  [][Durable(st') = IF is_loggable(cmd'.type)
                      THEN Durable(apply([st EXCEPT !.egress = {}, !.subscribers = {}], cmd'))
                      ELSE Durable(st)]_vars

(* "Called after any command that could have moved the book"
   (matching_thread.hpp:517): when the levels a subscriber sees have changed,
   the command published them.  The one exception is a Modify whose replacement
   the risk gate refuses: the old order is gone and nothing is published. *)
BookMovesArePublished ==
  [][/\ st'.subscribers # {} /\ TopOfBook(st'.book) # TopOfBook(st.book)
     /\ ~(cmd'.type = "Modify" /\ st'.out[Len(st'.out)].type = "Reject")
     => st'.md # <<>> /\ st'.md[Len(st'.md)].book = TopOfBook(st'.book)]_vars

HasLive(s, session, coid) ==
  \E id \in DOMAIN s.live : s.live[id].session = session /\ s.live[id].coid = coid

(* The events tell the session layer which ids are free, which hears of it in no
   other way: as long as no command has clashed with an order, an event that
   closes an order tells the truth, and every id whose last order a command takes
   away, or that it uses for an order that is gone at once, is closed by an event
   of that command ("a long-lived session would otherwise accumulate ids forever",
   session.hpp:99).  The one exception is a market order, whose unfilled rest is
   dropped without an event.  What a full queue or a failed append does to the
   events is in SessionLifecycle. *)
IdsFollowOrders ==
  [][~clashed' =>
     /\ \A e \in Range(st'.out) : e.closes => ~HasLive(st', e.session, e.coid)
     /\ \A s \in st'.egress, coid \in ClientId :
          LET mine == cmd'.session = s /\ cmd'.type \in {"NewOrder", "Modify"} /\ cmd'.coid = coid
          IN  \/ HasLive(st, s, coid)
              \/ mine /\ st'.next_id # st.next_id
              => \/ HasLive(st', s, coid)
                 \/ \E e \in Range(st'.out) : e.closes /\ e.session = s /\ e.coid = coid
                 \/ mine /\ cmd'.type = "NewOrder" /\ cmd'.otype = "MARKET"]_vars
=============================================================================
