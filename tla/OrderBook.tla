----------------------------- MODULE OrderBook -----------------------------
(***************************************************************************)
(* The operations of order_book::OrderBook (src/order_book.cpp) as         *)
(* operators on a book                                                     *)
(*                                                                         *)
(*   [bids, asks |-> sequences of price levels, best first,                *)
(*    loc        |-> order_loc_: the side and price of each resting order] *)
(*                                                                         *)
(* A level is [price, total_qty, orders] with its orders in time priority, *)
(* an order [id, type, side, price, qty].  Prices are integer ticks.       *)
(* Timestamps are left out: the book carries them and compares none.       *)
(***************************************************************************)
EXTENDS Integers, Sequences, Functions

Side == {"BID", "ASK"}

Order == [id : Nat, type : {"LIMIT", "MARKET"}, side : Side,
          price : Int, qty : Nat \ {0}]
Level == [price : Int, total_qty : Int, orders : Seq(Order)]
Trade == [buyer : Nat, seller : Nat, price : Int, qty : Nat \ {0}]

EmptyBook == [bids |-> <<>>, asks |-> <<>>, loc |-> <<>>]

Opposite(side) == IF side = "BID" THEN "ASK" ELSE "BID"

Levels(book, side) == IF side = "BID" THEN book.bids ELSE book.asks

(* The book after a change to one side. *)
BookWith(book, side, levels, loc) ==
  [bids |-> IF side = "BID" THEN levels ELSE book.bids,
   asks |-> IF side = "ASK" THEN levels ELSE book.asks,
   loc |-> loc]

(* The comparator of lower_bound: is a level at p ahead of price q? *)
Ahead(side, p, q) == IF side = "BID" THEN p > q ELSE p < q

(* Strictly in price order: the front is the best price. *)
Sorted(side, levels) ==
  \A i, j \in 1 .. Len(levels) :
    i < j => Ahead(side, levels[i].price, levels[j].price)

(* std::lower_bound: the first level that is not ahead of the price.  Like
   the original it is meant for levels in order. *)
LowerBound(side, levels, price) ==
  CHOOSE i \in 1 .. Len(levels) + 1 :
    \A j \in 1 .. Len(levels) : j < i <=> Ahead(side, levels[j].price, price)

(* The level at the price exists, and lower_bound points at it. *)
HasLevel(levels, i, price) == i <= Len(levels) /\ levels[i].price = price

(* unordered_map::operator[] = and erase. *)
Put(f, x, v) == [y \in DOMAIN f \cup {x} |-> IF y = x THEN v ELSE f[y]]
Erase(f, x) == [y \in DOMAIN f \ {x} |-> f[y]]

(* vector::insert before the i-th element, and erase of it. *)
InsertBefore(s, i, e) == SubSeq(s, 1, i - 1) \o <<e>> \o SubSeq(s, i, Len(s))
EraseAt(s, i) == SubSeq(s, 1, i - 1) \o SubSeq(s, i + 1, Len(s))

Lesser(m, n) == IF m <= n THEN m ELSE n
-----------------------------------------------------------------------------
NewLevel(o) == [price |-> o.price, total_qty |-> o.qty, orders |-> <<o>>]

(* A push_front: the newcomer overtakes the orders that wait. *)
JoinAtFront(level, o) ==
  [level EXCEPT !.total_qty = @ + o.qty, !.orders = <<o>> \o @]

JoinLevel(level, o) ==
  [level EXCEPT !.total_qty = @ + o.qty, !.orders = Append(@, o)]

(* lower_bound, then join the level found or insert a new one there. *)
AddToSide(side, levels, o) ==
  LET i == LowerBound(side, levels, o.price)
  IN  IF HasLevel(levels, i, o.price)
        THEN [levels EXCEPT ![i] = JoinLevel(@, o)]
        ELSE InsertBefore(levels, i, NewLevel(o))

addOrder(book, o) ==
  IF o.type # "LIMIT"
    THEN book
    ELSE BookWith(book, o.side, AddToSide(o.side, Levels(book, o.side), o),
                  Put(book.loc, o.id, [side |-> o.side, price |-> o.price]))
-----------------------------------------------------------------------------
(* Where in a level an order waits; 0 if it does not. *)
IndexOf(orders, id) ==
  LET found == {k \in 1 .. Len(orders) : orders[k].id = id}
  IN  IF found = {} THEN 0 ELSE CHOOSE k \in found : \A j \in found : k <= j

(* The level order_loc_ says the order is in. *)
LevelOf(book, id) ==
  LowerBound(book.loc[id].side, Levels(book, book.loc[id].side), book.loc[id].price)

(* What cancelOrder returns. *)
IsResting(book, id) ==
  /\ id \in DOMAIN book.loc
  /\ LET levels == Levels(book, book.loc[id].side)
         i == LevelOf(book, id)
     IN  /\ HasLevel(levels, i, book.loc[id].price)
         /\ IndexOf(levels[i].orders, id) # 0

(* The level without the order; the caller drops it if that leaves it empty. *)
LeaveLevel(level, k) ==
  [level EXCEPT !.total_qty = @ - level.orders[k].qty,
                !.orders = EraseAt(@, k)]

RemoveFromSide(levels, i, id) ==
  LET level == LeaveLevel(levels[i], IndexOf(levels[i].orders, id))
  IN  IF level.orders = <<>> THEN EraseAt(levels, i)
                             ELSE [levels EXCEPT ![i] = level]

cancelOrder(book, id) ==
  IF ~IsResting(book, id)
    THEN book
    ELSE LET side == book.loc[id].side
         IN  BookWith(book, side,
                      RemoveFromSide(Levels(book, side), LevelOf(book, id), id),
                      Erase(book.loc, id))
-----------------------------------------------------------------------------
(* The order next to trade on a side. *)
FrontOrder(levels) == Head(Head(levels).orders)

FillOrder(o, qty) == [o EXCEPT !.qty = @ - qty]
FillLevel(level, orders, qty) ==
  [level EXCEPT !.total_qty = @ - qty, !.orders = orders]

(* A fill that leaves a finished order at the front of its level. *)
TakeFrontKeep(levels, qty) ==
  [levels EXCEPT ![1].total_qty = @ - qty, ![1].orders[1].qty = @ - qty]

(* Take qty from the front order of a side: a finished order leaves its
   level, and a level without orders leaves the book. *)
TakeFront(levels, qty) ==
  LET front == FrontOrder(levels)
      orders == Head(levels).orders
      left == IF front.qty = qty THEN Tail(orders)
                                 ELSE [orders EXCEPT ![1] = FillOrder(@, qty)]
  IN  IF left = <<>>
        THEN Tail(levels)
        ELSE [levels EXCEPT ![1] = FillLevel(@, left, qty)]

(* A fill that leaves order_loc_ alone. *)
LocKept(loc, front, qty) == loc

(* order_loc_ after that. *)
LocAfterTake(loc, front, qty) == IF front.qty = qty THEN Erase(loc, front.id) ELSE loc

is_crossed(book) ==
  /\ book.bids # <<>> /\ book.asks # <<>>
  /\ Head(book.bids).price >= Head(book.asks).price

(* The trade execute_top_cross reports for a crossed book. *)
CrossTrade(book) ==
  LET bid == FrontOrder(book.bids)
      ask == FrontOrder(book.asks)
  IN  [buyer |-> bid.id, seller |-> ask.id, price |-> ask.price,
       qty |-> Lesser(bid.qty, ask.qty)]

(* ... and the book it leaves. *)
execute_top_cross(book) ==
  LET qty == CrossTrade(book).qty
      bid == FrontOrder(book.bids)
      ask == FrontOrder(book.asks)
  IN  [bids |-> TakeFront(book.bids, qty),
       asks |-> TakeFront(book.asks, qty),
       loc |-> LocAfterTake(LocAfterTake(book.loc, bid, qty), ask, qty)]

(* One turn of match_market's loop: the trade and the book it leaves. *)
MarketTrade(book, id, side, remaining) ==
  LET front == FrontOrder(Levels(book, Opposite(side)))
  IN  [buyer  |-> IF side = "BID" THEN id ELSE front.id,
       seller |-> IF side = "BID" THEN front.id ELSE id,
       price  |-> front.price,
       qty    |-> Lesser(remaining, front.qty)]

MarketTake(book, side, qty) ==
  LET levels == Levels(book, Opposite(side))
  IN  BookWith(book, Opposite(side), TakeFront(levels, qty),
               LocAfterTake(book.loc, FrontOrder(levels), qty))
-----------------------------------------------------------------------------
Total(orders) ==
  LET upTo[k \in 0 .. Len(orders)] == IF k = 0 THEN 0 ELSE upTo[k - 1] + orders[k].qty
  IN  upTo[Len(orders)]

(* A total that is left alone. *)
ResizeOnly(level, k, qty) == [level EXCEPT !.orders[k].qty = qty]

ResizeInLevel(level, k, qty) ==
  [level EXCEPT !.total_qty = @ - level.orders[k].qty + qty, !.orders[k].qty = qty]

(* An absolute set; 0 removes the order. *)
replace_remaining_quantity(book, id, new_remaining) ==
  IF new_remaining = 0 THEN cancelOrder(book, id)
  ELSE IF ~IsResting(book, id) THEN book
  ELSE LET side == book.loc[id].side
           i == LevelOf(book, id)
           levels == Levels(book, side)
       IN  BookWith(book, side,
                    [levels EXCEPT ![i] = ResizeInLevel(@, IndexOf(@.orders, id), new_remaining)],
                    book.loc)

(* The orders that the first traded lots of a level reach into. *)
Reached(orders, traded) ==
  CHOOSE k \in 1 .. Len(orders) : /\ Total(SubSeq(orders, 1, k)) >= traded
                                  /\ Total(SubSeq(orders, 1, k - 1)) < traded

(* There is a level at the price and it holds at least that much. *)
CanReduce(book, side, price, traded) ==
  LET i == LowerBound(side, Levels(book, side), price)
  IN  HasLevel(Levels(book, side), i, price) /\ Total(Levels(book, side)[i].orders) >= traded

(* FIFO within the level, which is dropped when nothing is left; no change if
   there is no such level or it has less. *)
reduce_level_after_lobster_execution(book, side, price, traded) ==
  IF traded = 0 \/ ~CanReduce(book, side, price, traded) THEN book
  ELSE LET levels == Levels(book, side)
           i == LowerBound(side, levels, price)
           orders == levels[i].orders
           k == Reached(orders, traded)
           over == Total(SubSeq(orders, 1, k)) - traded
           left == IF over = 0 THEN SubSeq(orders, k + 1, Len(orders))
                               ELSE [SubSeq(orders, k, Len(orders)) EXCEPT ![1].qty = over]
           gone == {orders[j].id : j \in 1 .. (IF over = 0 THEN k ELSE k - 1)}
       IN  BookWith(book, side,
                    IF left = <<>> THEN EraseAt(levels, i)
                                   ELSE [levels EXCEPT ![i] = FillLevel(@, left, traded)],
                    [id \in DOMAIN book.loc \ gone |-> book.loc[id]])
-----------------------------------------------------------------------------
(* Every resting order, best level first and in time priority within one. *)
OrdersOf(levels) ==
  LET upTo[i \in 0 .. Len(levels)] == IF i = 0 THEN <<>> ELSE upTo[i - 1] \o levels[i].orders
  IN  upTo[Len(levels)]

all_orders(book) == OrdersOf(book.bids) \o OrdersOf(book.asks)

(* The orders that rest on a side. *)
RestingOn(levels) == UNION {Range(levels[i].orders) : i \in 1 .. Len(levels)}

(* levels_consistent(), the invariant order_book.hpp:33 names. *)
levels_consistent(book) ==
  \A side \in Side : \A i \in 1 .. Len(Levels(book, side)) :
    LET level == Levels(book, side)[i]
    IN  level.orders # <<>> /\ Total(level.orders) = level.total_qty

(* What the book keeps besides the orders agrees with them: the running sums,
   with no empty level left, and order_loc_, which names exactly the resting
   orders with their side and price. *)
BookConsistent(book) ==
  /\ levels_consistent(book)
  /\ \A side \in Side : Sorted(side, Levels(book, side))
  /\ DOMAIN book.loc = {o.id : o \in RestingOn(book.bids) \cup RestingOn(book.asks)}
  /\ \A side \in Side : \A o \in RestingOn(Levels(book, side)) :
       /\ book.loc[o.id] = [side |-> side, price |-> o.price]
       /\ IsResting(book, o.id)

(* bid_levels_ticks and ask_levels_ticks. *)
levels_ticks(levels, max_levels) ==
  [i \in 1 .. Lesser(max_levels, Len(levels)) |-> <<levels[i].price, levels[i].total_qty>>]

(* What digest() hashes. *)
LevelDigest(level) == <<level.price, level.total_qty, Len(level.orders)>>
digest(book) == <<[i \in 1 .. Len(book.bids) |-> LevelDigest(book.bids[i])],
                  [i \in 1 .. Len(book.asks) |-> LevelDigest(book.asks[i])]>>
=============================================================================
