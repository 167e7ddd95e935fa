---------------------------- MODULE ProcessOrder ----------------------------
(***************************************************************************)
(* MatchingEngine::processOrder (src/matching_engine.cpp) as one step, for *)
(* its callers.  MatchingEngine takes the same turns one by one.           *)
(***************************************************************************)
EXTENDS OrderBook

(* The two loops of MatchingEngine::processOrder: cross while the book is
   crossed, or take while the other side has orders. *)
More(e, o) ==
  /\ e.remaining > 0
  /\ IF o.type = "LIMIT" THEN is_crossed(e.book) ELSE Levels(e.book, Opposite(o.side)) # <<>>

Turn(e, o) ==
  LET trade == IF o.type = "LIMIT" THEN CrossTrade(e.book)
                                   ELSE MarketTrade(e.book, o.id, o.side, e.remaining)
  IN  [book |-> IF o.type = "LIMIT" THEN execute_top_cross(e.book)
                                    ELSE MarketTake(e.book, o.side, trade.qty),
       remaining |-> IF o.id \in {trade.buyer, trade.seller}
                       THEN e.remaining - trade.qty ELSE e.remaining,
       trades |-> Append(e.trades, trade)]

RECURSIVE Match(_, _)
Match(e, o) == IF More(e, o) THEN Match(Turn(e, o), o) ELSE e

processOrder(book, o) ==
  Match([book |-> addOrder(book, o), remaining |-> o.qty, trades |-> <<>>], o)
=============================================================================
