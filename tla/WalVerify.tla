----------------------------- MODULE WalVerify -----------------------------
(***************************************************************************)
(* tools/wal_verify.cpp, the second implementation of matching that        *)
(* recovery is checked against, beside the matching thread: vf is the      *)
(* SimpleBook after the commands that have been logged so far.             *)
(*                                                                         *)
(* A side is a map from prices to queues of orders, as std::map has it.    *)
(* loc also has what owners_ and client_ids_ say: these are never erased,  *)
(* but they are looked at only for orders that loc_ has.  What is read     *)
(* from the log is in Recovery.                                            *)
(***************************************************************************)
EXTENDS MatchingThread

VARIABLES vf,
          misled   \* a lookup has returned an order that is not in the book, or another one

verifyVars == <<vars, vf, misled>>

EmptySimpleBook == [bids |-> <<>>, asks |-> <<>>, loc |-> <<>>,
                    last_trade |-> 0, next_id |-> 1]

SideOf(b, side) == IF side = "BID" THEN b.bids ELSE b.asks
WithSide(b, side, m) == IF side = "BID" THEN [b EXCEPT !.bids = m] ELSE [b EXCEPT !.asks = m]

(* begin(): the maps iterate from the best price. *)
Best(m, side) == IF side = "BID" THEN Max(DOMAIN m) ELSE Min(DOMAIN m)

add(b, price, side, o) ==
  LET m == SideOf(b, side)
      waiting == IF price \in DOMAIN m THEN m[price] ELSE <<>>
  IN  [WithSide(b, side, Put(m, price, Append(waiting, o)))
         EXCEPT !.loc = Put(@, o.id, [price |-> price, side |-> side,
                                      session |-> o.session, coid |-> o.coid])]

(* A level without orders is erased. *)
SetLevel(m, price, orders) == IF orders = <<>> THEN Erase(m, price) ELSE Put(m, price, orders)

(* The order is where loc_ says. *)
Rests(b, id) ==
  /\ id \in DOMAIN b.loc
  /\ b.loc[id].price \in DOMAIN SideOf(b, b.loc[id].side)
  /\ IndexOf(SideOf(b, b.loc[id].side)[b.loc[id].price], id) # 0

(* loc_ forgets the order only if it was there to be removed. *)
cancel(b, id) ==
  IF ~Rests(b, id) THEN b
  ELSE LET at == b.loc[id]
           m == SideOf(b, at.side)
       IN  [WithSide(b, at.side,
                     SetLevel(m, at.price, EraseAt(m[at.price], IndexOf(m[at.price], id))))
              EXCEPT !.loc = Erase(@, id)]

(* Take qty from the order at the front of a level. *)
TakeAt(m, price, qty) ==
  SetLevel(m, price, IF Head(m[price]).qty = qty THEN Tail(m[price])
                                                 ELSE [m[price] EXCEPT ![1].qty = @ - qty])

Crossed(b) == /\ b.bids # <<>> /\ b.asks # <<>>
              /\ Best(b.bids, "BID") >= Best(b.asks, "ASK")

(* A trade at the price of the buyer. *)
CrossTurnAtBid(b) ==
  LET bid == Best(b.bids, "BID")
      ask == Best(b.asks, "ASK")
      buyer == Head(b.bids[bid])
      seller == Head(b.asks[ask])
      qty == Lesser(buyer.qty, seller.qty)
      filled == {o.id : o \in {p \in {buyer, seller} : p.qty = qty}}
  IN  [b EXCEPT !.bids = TakeAt(@, bid, qty), !.asks = TakeAt(@, ask, qty),
                !.loc = [id \in DOMAIN @ \ filled |-> @[id]], !.last_trade = bid]

(* One turn of cross()'s loop. *)
CrossTurn(b) ==
  LET bid == Best(b.bids, "BID")
      ask == Best(b.asks, "ASK")
      buyer == Head(b.bids[bid])
      seller == Head(b.asks[ask])
      qty == Lesser(buyer.qty, seller.qty)
      filled == {o.id : o \in {p \in {buyer, seller} : p.qty = qty}}
  IN  [b EXCEPT !.bids = TakeAt(@, bid, qty), !.asks = TakeAt(@, ask, qty),
                !.loc = [id \in DOMAIN @ \ filled |-> @[id]], !.last_trade = ask]

RECURSIVE cross(_)
cross(b) == IF Crossed(b) THEN cross(CrossTurn(b)) ELSE b

(* The loop of a market order.  A finished order is popped and then cancelled:
   it is not there any more, so that loc_ keeps it. *)
MarketTurn(b, side, remaining) ==
  LET m == SideOf(b, Opposite(side))
      price == Best(m, Opposite(side))
      front == Head(m[price])
      take == Lesser(remaining, front.qty)
      taken == [WithSide(b, Opposite(side), TakeAt(m, price, take)) EXCEPT !.last_trade = price]
  IN  [remaining |-> remaining - take,
       book |-> IF front.qty = take THEN cancel(taken, front.id) ELSE taken]

RECURSIVE Sweep(_, _, _)
Sweep(b, side, remaining) ==
  IF remaining = 0 \/ SideOf(b, Opposite(side)) = <<>> THEN b
  ELSE LET e == MarketTurn(b, side, remaining) IN Sweep(e.book, side, e.remaining)

(* The oldest of the orders with that owner and id that loc_ has; 0 if none. *)
find_by_client(b, c) ==
  LET ids == {id \in DOMAIN b.loc : b.loc[id].session = c.session /\ b.loc[id].coid = c.coid}
  IN  IF ids = {} THEN 0 ELSE Min(ids)
-----------------------------------------------------------------------------
(* passes_risk and apply, with a prefix since they mirror the thread's. *)
vReference(b) ==
  IF b.last_trade > 0 THEN b.last_trade
  ELSE IF b.bids = <<>> \/ b.asks = <<>> THEN 0
  ELSE (Best(b.bids, "BID") + Best(b.asks, "ASK")) \div 2

passes_risk(b, c) ==
  /\ c.qty # 0 /\ c.qty <= MaxOrderQty
  /\ \/ c.otype = "MARKET"
     \/ /\ c.price > 0 /\ (TickSize > 1 => c.price % TickSize = 0)
        /\ BandBp > 0 => InBand(c.price, vReference(b))

vNewOrder(b, c) ==
  LET id == b.next_id
      numbered == [b EXCEPT !.next_id = @ + 1]
  IN  IF ~passes_risk(b, c) THEN b
      ELSE IF c.otype = "MARKET" THEN Sweep(numbered, c.side, c.qty)
      ELSE cross(add(numbered, c.price, c.side,
                     [id |-> id, session |-> c.session, coid |-> c.coid, qty |-> c.qty]))

vModify(b, c) ==
  LET id == find_by_client(b, c)
  IN  IF id = 0 THEN b
      ELSE vNewOrder(cancel(b, id), [session |-> c.session, coid |-> c.coid, price |-> c.price,
                                     qty |-> c.qty, side |-> b.loc[id].side, otype |-> "LIMIT"])

OrdersIn(m) == UNION {Range(m[price]) : price \in DOMAIN m}

RECURSIVE CancelIds(_, _)
CancelIds(b, ids) == IF ids = {} THEN b ELSE CancelIds(cancel(b, Min(ids)), ids \ {Min(ids)})

vCancelAll(b, c) ==
  CancelIds(b, {o.id : o \in {p \in OrdersIn(b.bids) \cup OrdersIn(b.asks) :
                                 p.session = c.session}})

vApply(b, c) ==
  CASE c.type = "NewOrder" -> vNewOrder(b, c)
    [] c.type = "Cancel" -> cancel(b, find_by_client(b, c))
    [] c.type = "Modify" -> vModify(b, c)
    [] c.type = "CancelAllForSession" -> vCancelAll(b, c)
    [] OTHER -> b

(* main() with --snapshot: the book it starts from. *)
RECURSIVE AddAll(_, _)
AddAll(b, orders) ==
  IF orders = <<>> THEN b
  ELSE LET so == Head(orders)
       IN  AddAll(add(b, so.price, so.side, [id |-> so.id, session |-> so.session,
                                             coid |-> so.coid, qty |-> so.qty]), Tail(orders))

vRestore(d) ==
  AddAll([EmptySimpleBook EXCEPT !.last_trade = d.last_trade, !.next_id = d.next_id], d.orders)

(* digest(): the levels of a side from the best, with their totals. *)
RECURSIVE SideDigest(_, _)
SideDigest(m, side) ==
  IF m = <<>> THEN <<>>
  ELSE LET price == Best(m, side)
       IN  <<<<price, Total(m[price]), Len(m[price])>>>> \o SideDigest(Erase(m, price), side)
vDigest(b) == <<SideDigest(b.bids, "BID"), SideDigest(b.asks, "ASK")>>

(* The checks of main() before it prints the digest. *)
Sane(b) ==
  /\ b.bids # <<>> /\ b.asks # <<>> => Best(b.bids, "BID") < Best(b.asks, "ASK")
  /\ \A side \in Side : /\ \A p \in DOMAIN SideOf(b, side) : SideOf(b, side)[p] # <<>>
                        /\ \A o \in OrdersIn(SideOf(b, side)) : o.qty > 0
-----------------------------------------------------------------------------
VerifyInit == Init /\ vf = EmptySimpleBook /\ misled = FALSE

(* A verifier that has been misled is not followed any further, nor is one whose
   engine has found another order than the command is about: find_by_client
   compares session and id, not keys. *)
Verify(c) ==
  LET id == find_by_client(vf, c)
  IN  /\ vf' = IF misled \/ ~is_loggable(c.type) THEN vf ELSE vApply(vf, c)
      /\ misled' = \/ misled
                   \/ clashed'
                   \/ c.type \in {"Cancel", "Modify"} /\ id # 0 /\ ~Rests(vf, id)

VerifyNext == Next /\ Verify(cmd')

VerifySpec == VerifyInit /\ [][VerifyNext]_verifyVars

VerifyView == <<View, IF misled THEN EmptySimpleBook ELSE vf, misled>>
-----------------------------------------------------------------------------
(* The verifier's book is the engine's, and so are the two numbers that decide
   what the next command does. *)
Agree ==
  vDigest(vf) = digest(st.book) /\ vf.last_trade = st.last_trade /\ vf.next_id = st.next_id

(* "Two independent implementations agreeing on the digest is real evidence"
   (wal_verify.cpp:19): they agree after every command, and the verifier's own
   checks pass, as long as no command has clashed with an order and no lookup has
   been answered with an order that a market order has filled.  A verifier that
   starts from the engine's snapshot agrees whatever has happened before. *)
VerifierFollows ==
  /\ ~misled => Agree /\ Sane(vf)
  /\ LET b == vRestore(export_snapshot(st))
     IN  vDigest(b) = digest(st.book) /\ Sane(b)

(* "The digest MUST match OrderBook::digest() exactly" (wal_verify.cpp:26),
   whatever the command: the verifier's loc_ keeps the orders that a market
   order fills, their owner may use the id again, and the lookup for the new
   order then finds the old one.  Commands that clash with an order are left
   aside. *)
DigestsMatch == [][~misled /\ ~clashed' => Agree']_verifyVars
=============================================================================
