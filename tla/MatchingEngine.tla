--------------------------- MODULE MatchingEngine ---------------------------
(***************************************************************************)
(* MatchingEngine::processOrder (src/matching_engine.cpp) on the book of   *)
(* OrderBook, one step per turn of its loops.  A limit order rests first   *)
(* and is then crossed; a market order takes from the other side and is    *)
(* never left in the book.                                                 *)
(*                                                                         *)
(* placed and filled are history variables: what was ordered under each id *)
(* and how much of it has traded.  Ids count up, as the matching thread    *)
(* assigns them.                                                           *)
(***************************************************************************)
EXTENDS OrderBook

CONSTANTS Price,     \* the prices orders are sent at: positive ticks
          Quantity,  \* the quantities; the risk check refuses 0
          MaxOrders  \* bound on the orders placed

ASSUME PriceAssumption == Price \subseteq Int
ASSUME QuantityAssumption == Quantity \subseteq Nat \ {0}

VARIABLES
  book,       \* book_
  trade_log,  \* trade_log_
  phase,      \* between orders, or in one of the two loops
  incoming,   \* processOrder's argument
  remaining,  \* its local of the same name
  placed,     \* the orders so far; an order's id is its place here
  filled      \* the quantity traded under each id

vars == <<book, trade_log, phase, incoming, remaining, placed, filled>>

NoOrder == [id |-> 0, type |-> "CANCEL", side |-> "BID", price |-> 0, qty |-> 0]

Init == /\ book = EmptyBook /\ trade_log = <<>>
        /\ phase = "idle" /\ incoming = NoOrder /\ remaining = 0
        /\ placed = <<>> /\ filled = <<>>

(* An order arrives under a fresh id. *)
Arrive(type, side, price, qty) ==
  LET o == [id |-> Len(placed) + 1, type |-> type, side |-> side,
            price |-> price, qty |-> qty]
  IN  /\ phase = "idle" /\ Len(placed) < MaxOrders
      /\ incoming' = o /\ remaining' = qty
      /\ placed' = Append(placed, o) /\ filled' = Append(filled, 0)

(* Log a trade and note what it fills. *)
Report(t) ==
  /\ trade_log' = Append(trade_log, t)
  /\ filled' = [filled EXCEPT ![t.buyer] = @ + t.qty, ![t.seller] = @ + t.qty]
-----------------------------------------------------------------------------
Limit(side, price, qty) ==
  /\ Arrive("LIMIT", side, price, qty)
  /\ book' = addOrder(book, incoming')
  /\ phase' = "cross"
  /\ UNCHANGED trade_log

(* A loop that goes on only while the incoming order is the buyer. *)
CrossBuyerOnly ==
  /\ phase = "cross" /\ remaining > 0 /\ is_crossed(book)
  /\ LET t == CrossTrade(book)
     IN  /\ Report(t)
         /\ remaining' = IF t.buyer = incoming.id THEN remaining - t.qty ELSE 0
  /\ book' = execute_top_cross(book)
  /\ UNCHANGED <<phase, incoming, placed>>

(* One turn of the cross loop. *)
Cross ==
  /\ phase = "cross" /\ remaining > 0 /\ is_crossed(book)
  /\ LET t == CrossTrade(book)
     IN  /\ Report(t)
         /\ remaining' = IF incoming.id \in {t.buyer, t.seller}
                           THEN remaining - t.qty ELSE remaining
  /\ book' = execute_top_cross(book)
  /\ UNCHANGED <<phase, incoming, placed>>

CrossDone ==
  /\ phase = "cross" /\ ~(remaining > 0 /\ is_crossed(book))
  /\ phase' = "idle"
  /\ UNCHANGED <<book, trade_log, incoming, remaining, placed, filled>>

Market(side, qty) ==
  /\ Arrive("MARKET", side, 0, qty)
  /\ phase' = "market"
  /\ UNCHANGED <<book, trade_log>>

(* One turn of match_market's loop. *)
Take ==
  /\ phase = "market" /\ remaining > 0
  /\ Levels(book, Opposite(incoming.side)) # <<>>
  /\ LET t == MarketTrade(book, incoming.id, incoming.side, remaining)
     IN  /\ Report(t)
         /\ remaining' = remaining - t.qty
         /\ book' = MarketTake(book, incoming.side, t.qty)
  /\ UNCHANGED <<phase, incoming, placed>>

(* A loop that turns on an empty book until the order is filled. *)
MarketDoneFilled ==
  /\ phase = "market"
  /\ remaining = 0 \/ Levels(book, Opposite(incoming.side)) = <<>>
  /\ phase' = IF remaining = 0 THEN "idle" ELSE "market"
  /\ UNCHANGED <<book, trade_log, incoming, remaining, placed, filled>>

(* The remainder is dropped. *)
MarketDone ==
  /\ phase = "market"
  /\ remaining = 0 \/ Levels(book, Opposite(incoming.side)) = <<>>
  /\ phase' = "idle"
  /\ UNCHANGED <<book, trade_log, incoming, remaining, placed, filled>>

Cancel(id) ==
  /\ phase = "idle"
  /\ book' = cancelOrder(book, id)
  /\ UNCHANGED <<trade_log, phase, incoming, remaining, placed, filled>>

Next == \/ \E side \in Side, qty \in Quantity :
             \/ \E price \in Price : Limit(side, price, qty)
             \/ Market(side, qty)
        \/ Cross \/ CrossDone \/ Take \/ MarketDone
        \/ \E id \in 1 .. MaxOrders : Cancel(id)

Spec == Init /\ [][Next]_vars
-----------------------------------------------------------------------------
(* Every resting order, and every trade, has a quantity. *)
TypeOK ==
  /\ book.bids \in Seq(Level) /\ book.asks \in Seq(Level)
  /\ book.loc \in [DOMAIN book.loc -> [side : Side, price : Int]]
  /\ trade_log \in Seq(Trade)
  /\ phase \in {"idle", "cross", "market"}
  /\ incoming \in Order \cup {NoOrder} /\ remaining \in Nat
  /\ placed \in Seq(Order)

(* The orders resting on one side. *)
Resting(side) == RestingOn(Levels(book, side))

(* order_book.hpp:112: each side is strictly in price order, so that the front
   is the best price and no price has two levels. *)
BookSorted == Sorted("BID", book.bids) /\ Sorted("ASK", book.asks)

(* Whenever the engine has returned the book is not crossed, although the
   loop also ends when the incoming order is used up. *)
UncrossedWhenIdle == phase = "idle" => ~is_crossed(book)

(* What the book keeps besides the orders agrees with them in every turn of the
   loops: the running sums (order_book.hpp:33), the price order and order_loc_,
   so that every resting order, and nothing else, can be cancelled. *)
IndexesExact == BookConsistent(book)

(* Nothing is created or lost in trading: a resting order is what was placed
   less what was filled, and no order is filled beyond its size.  While a limit
   order is worked on, remaining, from which ApplyResult is computed, is what is
   left of it in the book. *)
Conserved ==
  /\ \A o \in Resting("BID") \cup Resting("ASK") :
       o.qty > 0 /\ o.qty + filled[o.id] = placed[o.id].qty
  /\ \A id \in 1 .. Len(placed) : filled[id] <= placed[id].qty
  /\ phase = "cross" => /\ remaining + filled[incoming.id] = incoming.qty
                        /\ remaining = 0 <=> incoming.id \notin DOMAIN book.loc

(* A trade is inside the limits of both parties. *)
WithinLimits(t) ==
  /\ placed[t.buyer].type = "LIMIT" => t.price <= placed[t.buyer].price
  /\ placed[t.seller].type = "LIMIT" => t.price >= placed[t.seller].price

(* a comes before b in price-time priority. *)
Before(side, a, b) == Ahead(side, a.price, b.price) \/ (a.price = b.price /\ a.id < b.id)

(* The parties of a trade that rest are the first of their sides. *)
InPriority(t) ==
  \A side \in Side : \A o, other \in Resting(side) :
    o.id \in {t.buyer, t.seller} => other = o \/ Before(side, o, other)

(* Every resting order that trades is the first of its side, with the best
   price and among those the earliest, and no trade is outside a limit. *)
PriceTimePriority ==
  [][trade_log' # trade_log =>
       LET t == trade_log'[Len(trade_log')] IN WithinLimits(t) /\ InPriority(t)]_vars

(* The thread runs processOrder to its end. *)
FairSpec == Spec /\ WF_vars(Cross \/ CrossDone \/ Take \/ MarketDone)

(* Every order is done with some time: neither loop runs for ever, and each of
   them has an exit when the book runs dry. *)
EveryOrderEnds == (phase # "idle") ~> (phase = "idle")
=============================================================================
