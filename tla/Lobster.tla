------------------------------- MODULE Lobster -------------------------------
(***************************************************************************)
(* The LOBSTER replay (lobster_parser.cpp, lobster_orderbook_converter.cpp,*)
(* lobster_validator.cpp, lobster_replay.cpp): the messages of an exchange *)
(* are replayed through the engine and the book is compared with the       *)
(* exchange's own orderbook file.                                          *)
(*                                                                         *)
(* The exchange is external: a queue of orders, and one message and one    *)
(* orderbook row for everything that happens, as the sample files have     *)
(* them.  The replay follows row by row: book is the engine's book after   *)
(* the messages so far.  validate() is run on the files as they are, with  *)
(* --events the number of rows and the default --orderbook-line.           *)
(***************************************************************************)
EXTENDS ProcessOrder, FiniteSetsExt

CONSTANTS Price, Quantity,
          Depth,            \* the levels of a row and of a snapshot
          MaxSize, MaxId,   \* the widest uint32_t and uint64_t
          MaxOld, MaxLive, MaxRows   \* bounds: orders from before the file, at a time, rows

VARIABLES orders,   \* the exchange: its orders, oldest first
          rows,     \* how many messages and orderbook rows there are
          parsed,   \* how many of the messages the parser has kept
          seeded,   \* --seed-orderbook-zero
          failed,   \* the seed was refused
          book,
          blind     \* something has happened that the replay cannot see

vars == <<orders, rows, parsed, seeded, failed, book, blind>>
-----------------------------------------------------------------------------
(* The parser and the converter. *)
parse_row_message(m) ==
  /\ m.type \in 1 .. 5 \cup {7}
  /\ m.type = 7 \/ /\ m.order_id # 0 \/ m.type \in {4, 5}
                   /\ m.size <= MaxSize /\ m.price >= 0 /\ m.direction \in {1, -1}

(* One line of the snapshot: a position that is not occupied becomes 0,0. *)
Line(column) == IF column.price <= 0 \/ column.size = 0 THEN [price |-> 0, size |-> 0] ELSE column

(* A row has the ask before the bid, a snapshot the bids before the asks. *)
write_validator_snapshot(row) ==
  [k \in 1 .. 2 * Depth |-> IF k <= Depth THEN Line(row[k].bid) ELSE Line(row[k - Depth].ask)]

load_snapshot(lines) == [bids |-> SubSeq(lines, 1, Depth), asks |-> SubSeq(lines, Depth + 1, 2 * Depth)]
-----------------------------------------------------------------------------
(* The validator *)
SideOf(m) == IF m.direction = 1 THEN "BID" ELSE "ASK"

(* A deletion that does nothing for an order from before the file. *)
ApplyMessageKnown(b, m) ==
  LET reduced == reduce_level_after_lobster_execution(b, SideOf(m), m.price, m.size)
  IN  CASE m.type = 1 -> processOrder(b, [id |-> m.order_id, type |-> "LIMIT", side |-> SideOf(m),
                                          price |-> m.price, qty |-> m.size]).book
        [] m.type = 2 -> replace_remaining_quantity(b, m.order_id, m.size)
        [] m.type = 3 -> cancelOrder(b, m.order_id)
        [] m.type \in {4, 5} -> reduced
        [] m.type = 7 -> b

(* The size of a partial cancel is taken for what is left of the order.  A
   deletion of an order from before the file takes its size off the level. *)
apply_message(b, m) ==
  LET reduced == reduce_level_after_lobster_execution(b, SideOf(m), m.price, m.size)
  IN  CASE m.type = 1 -> processOrder(b, [id |-> m.order_id, type |-> "LIMIT", side |-> SideOf(m),
                                          price |-> m.price, qty |-> m.size]).book
        [] m.type = 2 -> replace_remaining_quantity(b, m.order_id, m.size)
        [] m.type = 3 -> IF IsResting(b, m.order_id) THEN cancelOrder(b, m.order_id) ELSE reduced
        [] m.type \in {4, 5} -> reduced
        [] m.type = 7 -> b

(* Each level becomes one order, with ids from the top of their range. *)
RECURSIVE SeedSide(_, _, _, _)
SeedSide(b, side, levels, synth) ==
  IF levels = <<>> THEN [book |-> b, synth |-> synth]
  ELSE LET level == Head(levels)
           o == [id |-> synth, type |-> "LIMIT", side |-> side, price |-> level.price,
                 qty |-> level.size]
       IN  IF level.size = 0 \/ level.price <= 0 THEN SeedSide(b, side, Tail(levels), synth)
           ELSE SeedSide(addOrder(b, o), side, Tail(levels), synth - 1)

seed_book_from_snapshot(snap) ==
  LET bids == SeedSide(EmptyBook, "BID", snap.bids, MaxId)
  IN  SeedSide(bids.book, "ASK", snap.asks, bids.synth).book

(* A size that an Order cannot hold. *)
SeedOverflows(snap) == \E level \in Range(snap.bids) \cup Range(snap.asks) : level.size > MaxSize

level_equal(rank, exp, our_levels) ==
  IF exp.size = 0 THEN rank > Len(our_levels)
  ELSE rank <= Len(our_levels) /\ our_levels[rank] = <<exp.price, exp.size>>

(* The level indexes that do not match, bids before asks. *)
Mismatches(b, snap) ==
  {k \in 1 .. 2 * Depth :
     IF k <= Depth THEN ~level_equal(k, snap.bids[k], levels_ticks(b.bids, Depth))
     ELSE ~level_equal(k - Depth, snap.asks[k - Depth], levels_ticks(b.asks, Depth))}

(* What lobster_replay exits with, and the accuracy it prints. *)
Exit(b, snap) == IF ~failed /\ Mismatches(b, snap) # {} THEN 1 ELSE 0
accuracy_percent(b, snap) ==
  IF failed THEN 0 ELSE ((2 * Depth - Cardinality(Mismatches(b, snap))) * 100) \div (2 * Depth)
-----------------------------------------------------------------------------
(* The exchange: its visible levels, by definition. *)
Prices(os, side) == {o.price : o \in {p \in Range(os) : p.side = side}}
BestOf(os, side) == IF side = "BID" THEN Max(Prices(os, side)) ELSE Min(Prices(os, side))
Visible(os, side) ==
  LET prices == Prices(os, side)
      Ranked(k) == CHOOSE p \in prices : Cardinality({q \in prices : Ahead(side, q, p)}) = k - 1
      Size(p) == Total(SelectSeq(os, LAMBDA o : o.side = side /\ o.price = p))
  IN  [k \in 1 .. Cardinality(prices) |-> <<Ranked(k), Size(Ranked(k))>>]

(* Unoccupied positions have a dummy price and no volume. *)
Column(levels, k, dummy) ==
  IF k <= Len(levels) THEN [price |-> levels[k][1], size |-> levels[k][2]]
                      ELSE [price |-> dummy, size |-> 0]
OrderbookRow(os) ==
  [k \in 1 .. Depth |-> [ask |-> Column(Visible(os, "ASK"), k, Max(Price) + 1),
                         bid |-> Column(Visible(os, "BID"), k, -1)]]

Uncrossed(os) == \A o, p \in Range(os) : o.side = "BID" /\ p.side = "ASK" => o.price < p.price

Message(type, o, size) == [type |-> type, order_id |-> o.id, size |-> size, price |-> o.price,
                           direction |-> IF o.side = "BID" THEN 1 ELSE -1]

Old == {[id |-> 1, side |-> side, price |-> price, qty |-> qty] :
          side \in Side, price \in Price, qty \in Quantity}
Init ==
  /\ orders \in {[k \in DOMAIN os |-> [os[k] EXCEPT !.id = k]] :
                   os \in UNION {[1 .. n -> Old] : n \in 0 .. MaxOld}}
  /\ Uncrossed(orders)
  /\ rows = 0 /\ parsed = 0 /\ seeded \in BOOLEAN /\ failed = FALSE /\ book = EmptyBook
  /\ blind = FALSE

(* What no message tells, or what the replay does with one that tells of
   something else: liquidity that was neither seeded nor submitted, a partial
   cancel of an order it has no id for or of another number of shares than it
   leaves, and a hidden order that seems to be the visible one at its price.  The
   message that is left out for the seed is the first that was parsed, and that
   may not be the first row. *)
Unseen(m, after) ==
  \/ rows = 0 /\ IF seeded THEN \E side \in Side : Len(Visible(after, side)) > Depth
                              ELSE orders # <<>>
  \/ rows > 0 /\ seeded /\ parsed = 0 /\ parse_row_message(m)
  \/ m.type = 2 /\ ~(IsResting(book, m.order_id)
                      /\ \E o \in Range(after) : o.id = m.order_id /\ o.qty = m.size)
  \/ m.type = 5 /\ CanReduce(book, SideOf(m), m.price, m.size)

(* A message and the row that follows it. *)
Write(m, after) ==
  /\ rows < MaxRows /\ ~failed
  /\ orders' = after /\ rows' = rows + 1
  /\ parsed' = IF parse_row_message(m) THEN parsed + 1 ELSE parsed
  /\ IF seeded /\ rows = 0
       THEN LET snap == load_snapshot(write_validator_snapshot(OrderbookRow(after)))
            IN  /\ failed' = SeedOverflows(snap)
                /\ book' = IF failed' THEN book ELSE seed_book_from_snapshot(snap)
       ELSE /\ book' = IF failed \/ ~parse_row_message(m) \/ (seeded /\ parsed = 0) THEN book
                       ELSE apply_message(book, m)
            /\ UNCHANGED failed
  /\ blind' = (blind \/ Unseen(m, after))
  /\ UNCHANGED seeded

Submit(side, price, qty) ==
  LET o == [id |-> MaxOld + rows + 1, side |-> side, price |-> price, qty |-> qty]
  IN  /\ Len(orders) < MaxLive /\ Uncrossed(Append(orders, o))
      /\ Write(Message(1, o, qty), Append(orders, o))

(* The message has the shares that are taken off the order, as the ReadMe of the
   sample files says: "Partial deletion of a limit order", "Number of shares". *)
Cancel(k, size) == /\ size < orders[k].qty
                   /\ Write(Message(2, orders[k], size), [orders EXCEPT ![k].qty = @ - size])

Delete(k) == Write(Message(3, orders[k], orders[k].qty), EraseAt(orders, k))

(* The oldest order at the best price trades. *)
Execute(k, qty) ==
  LET o == orders[k]
  IN  /\ o.price = BestOf(orders, o.side) /\ qty <= o.qty
      /\ \A j \in 1 .. k - 1 : orders[j].side # o.side \/ orders[j].price # o.price
      /\ Write(Message(4, o, qty), IF qty = o.qty THEN EraseAt(orders, k)
                                                  ELSE [orders EXCEPT ![k].qty = @ - qty])

(* A hidden order trades, at the best price or inside the spread. *)
ExecuteHidden(side, price, qty) ==
  LET o == [id |-> 0, side |-> side, price |-> price, qty |-> qty]
  IN  /\ Uncrossed(Append(orders, o))
      /\ \A p \in Prices(orders, side) : ~Ahead(side, p, price)
      /\ Write(Message(5, o, qty), orders)

(* A halt, or a type of row that the parser does not take. *)
Other(type) == Write([type |-> type, order_id |-> 0, size |-> 0, price |-> -1, direction |-> -1], orders)

Next ==
  \/ \E side \in Side, price \in Price, qty \in Quantity :
       Submit(side, price, qty) \/ ExecuteHidden(side, price, qty)
  \/ \E k \in DOMAIN orders :
       \/ Delete(k)
       \/ \E qty \in Quantity : Cancel(k, qty) \/ Execute(k, qty)
  \/ \E type \in {6, 7} : Other(type)

Spec == Init /\ [][Next]_vars
-----------------------------------------------------------------------------
(* The running sums and order_loc_ agree with the orders after every message,
   those that only LOBSTER replay sends included: set to a quantity, and taken
   off a level from the front, over several orders or a part of one. *)
ReplayIndexes == BookConsistent(book)

(* What lobster_replay says is so: it exits with 0, "all 20 levels match"
   (data/lobster/README.md:28), exactly if the top of the replayed book is that
   of the exchange, and unless something happened that it cannot see, the
   replayed book is the exchange's at every depth.  A seed that is refused is
   the exception: nothing is compared, and it exits with 0. *)
ReplayMatches ==
  LET snap == load_snapshot(write_validator_snapshot(OrderbookRow(orders)))
      Top(levels) == SubSeq(levels, 1, Lesser(Depth, Len(levels)))
      same(side) == levels_ticks(Levels(book, side), Depth) = Top(Visible(orders, side))
  IN  rows > 0 /\ ~failed =>
        /\ Exit(book, snap) = 0 <=> \A side \in Side : same(side)
        /\ Exit(book, snap) = 0 <=> accuracy_percent(book, snap) = 100
        /\ ~blind => \A side \in Side :
                       levels_ticks(Levels(book, side), Len(Levels(book, side))) = Visible(orders, side)
=============================================================================
