------------------------ MODULE MatchingEngineProofs ------------------------
(***************************************************************************)
(* What processOrder keeps, for every set of prices and quantities and any *)
(* number of orders.                                                       *)
(*                                                                         *)
(* IInv (BookProofs) is about what can trade. Account is about what the    *)
(* book and the trades say of each order: the indexes of the book agree    *)
(* with its orders (BookExact), every resting order is what was placed     *)
(* under its id less what was filled, and the local remaining is what is   *)
(* left of the incoming order. That the trade of a cross is always one of  *)
(* the incoming order, so that remaining and the book move together, comes *)
(* from IInv.                                                              *)
(***************************************************************************)
EXTENDS BookProofs

(* order_loc_ names exactly the orders that rest, with their side and price. *)
LocExact(b) ==
  /\ \A side \in Side : \A o \in RestingOn(Levels(b, side)) :
       o.id \in DOMAIN b.loc /\ b.loc[o.id] = [side |-> side, price |-> o.price]
  /\ \A id \in DOMAIN b.loc : \E side \in Side : \E o \in RestingOn(Levels(b, side)) : o.id = id

(* A book whose indexes agree with its orders. *)
BookExact(b) ==
  BookOK(b) /\ (\A side \in Side : SideExact(Levels(b, side))) /\ LocExact(b)

(* What rests is an order with an entry in order_loc_. *)
LEMMA RestingIsTyped ==
  ASSUME NEW b, BookExact(b), NEW side \in Side, NEW o \in RestingOn(Levels(b, side))
  PROVE  o \in Order /\ o.id \in DOMAIN b.loc
<1>1. SideOK(side, Levels(b, side)) /\ o.id \in DOMAIN b.loc
  BY Zenon DEF BookExact, BookOK, LocExact
<1>2. PICK i \in 1 .. Len(Levels(b, side)) : o \in Range(Levels(b, side)[i].orders)
  BY RestingSomewhere, Zenon
<1> QED BY <1>1, <1>2, SplitSide

(* No two resting orders have the same id. *)
LEMMA UniqueIds ==
  ASSUME NEW b, BookExact(b), NEW s \in Side, NEW t \in Side,
         NEW o \in RestingOn(Levels(b, s)), NEW p \in RestingOn(Levels(b, t)), o.id = p.id
  PROVE  o = p /\ s = t
<1>1. b.loc[o.id] = [side |-> s, price |-> o.price] /\ b.loc[p.id] = [side |-> t, price |-> p.price]
  BY DEF BookExact, LocExact
<1>2. s = t /\ o.price = p.price
  BY <1>1
<1> DEFINE levels == Levels(b, s)
<1>3. SideOK(s, levels) /\ SideExact(levels) /\ p \in RestingOn(levels)
  BY <1>2 DEF BookExact, BookOK
<1> HIDE DEF levels
<1>4. PICK i \in 1 .. Len(levels) : o \in Range(levels[i].orders)
  BY RestingSomewhere, Zenon DEF levels
<1>5. p \in Range(levels[i].orders)
  <2>1. /\ RestingOn(levels) = Range(levels[i].orders) \cup Elsewhere(levels, i)
        /\ o.price = levels[i].price
        /\ \A x \in Elsewhere(levels, i) : x.price # levels[i].price
    BY <1>3, <1>4, SplitSide
  <2> QED BY <1>2, <1>3, <2>1, Zenon
<1>6. levels[i].orders \in Seq(Order) /\ InTimeOrder(levels[i].orders)
  <2>1. LevelOK(levels[i])
    BY <1>3, SideOKLevels
  <2> QED BY <1>3, <2>1 DEF LevelOK, Level, SideExact, LevelExact
<1>7. PICK j \in 1 .. Len(levels[i].orders) : o = levels[i].orders[j]
  BY <1>4, <1>6, ElementsOf
<1>8. PICK k \in 1 .. Len(levels[i].orders) : p = levels[i].orders[k]
  BY <1>5, <1>6, ElementsOf
<1>9. o \in Order /\ p \in Order
  BY <1>6, <1>7, <1>8, SeqElement
<1>10. o.id \in Nat
  BY <1>9 DEF Order
<1>11. Len(levels[i].orders) \in Nat
  BY <1>6, SeqLen
<1>12. j = k
  BY <1>6, <1>7, <1>8, <1>10, <1>11 DEF InTimeOrder
<1> QED BY <1>2, <1>7, <1>8, <1>12

(* An order that rests can be found, and so cancelled. *)
LEMMA RestingIsFound ==
  ASSUME WellOrdered, NEW b, BookExact(b), NEW side \in Side, NEW o \in RestingOn(Levels(b, side))
  PROVE  IsResting(b, o.id)
<1> DEFINE levels == Levels(b, side)
           i == LevelOf(b, o.id)
<1>1. o.id \in DOMAIN b.loc /\ b.loc[o.id] = [side |-> side, price |-> o.price]
  BY DEF BookExact, LocExact
<1>2. SideOK(side, levels)
  BY DEF BookExact, BookOK
<1>3. PICK j \in 1 .. Len(levels) : o \in Range(levels[j].orders)
  BY RestingSomewhere, Zenon
<1>4. o.price = levels[j].price /\ o \in Order
  BY <1>2, <1>3, SplitSide
<1>5. i = LowerBound(side, levels, o.price)
  BY <1>1 DEF LevelOf
<1>6. /\ i \in 1 .. Len(levels) + 1
      /\ \A k \in 1 .. Len(levels) : k < i <=> Ahead(side, levels[k].price, o.price)
  <2>1. o.price \in Int
    BY <1>4 DEF Order
  <2> QED BY <1>2, <1>5, <2>1, LowerBoundExists, Zenon
<1>7. /\ \A k \in 1 .. Len(levels) : levels[k].price \in Int
      /\ Len(levels) \in Nat /\ Sorted(side, levels)
  BY <1>2, LevelPrices, SideOKLevels
<1> HIDE DEF i, levels
<1>8. i = j
  <2>1. ~(j < i)
    BY <1>4, <1>6, <1>7, AheadOrder
  <2>2. ~(i < j)
    <3> SUFFICES ASSUME i < j PROVE FALSE
      OBVIOUS
    <3>1. i \in 1 .. Len(levels) /\ Ahead(side, levels[i].price, levels[j].price)
      BY <1>6, <1>7 DEF Sorted
    <3> QED BY <1>4, <1>6, <3>1
  <2> QED BY <1>6, <1>7, <2>1, <2>2
<1>9. IndexOf(levels[i].orders, o.id) # 0
  <2>1. levels[i].orders \in Seq(Order)
    BY <1>2, <1>8, SideOKLevels DEF LevelOK, Level
  <2>2. PICK k \in 1 .. Len(levels[i].orders) : o = levels[i].orders[k]
    BY <1>3, <1>8, <2>1, ElementsOf
  <2>3. Len(levels[i].orders) \in Nat
    BY <2>1, SeqLen
  <2> QED BY <2>2, <2>3, IndexOfOK
<1>10. HasLevel(levels, i, o.price)
  BY <1>4, <1>7, <1>8 DEF HasLevel
<1>11. b.loc[o.id].side = side /\ b.loc[o.id].price = o.price
  BY <1>1
<1> QED BY <1>1, <1>9, <1>10, <1>11 DEF IsResting, levels, i

(* An exact book is consistent in the sense of the tests. *)
LEMMA ExactIsConsistent ==
  ASSUME WellOrdered, NEW b, BookExact(b)
  PROVE  BookConsistent(b)
<1>1. levels_consistent(b)
  <2> SUFFICES ASSUME NEW side \in Side, NEW i \in 1 .. Len(Levels(b, side))
               PROVE  /\ Levels(b, side)[i].orders # <<>>
                      /\ Total(Levels(b, side)[i].orders) = Levels(b, side)[i].total_qty
    BY Zenon DEF levels_consistent
  <2>1. SideOK(side, Levels(b, side)) /\ SideExact(Levels(b, side))
    BY DEF BookExact, BookOK
  <2> QED BY <2>1 DEF SideOK, SideExact, LevelExact
<1>2. \A side \in Side : Sorted(side, Levels(b, side))
  BY DEF BookExact, BookOK, SideOK
<1>3. DOMAIN b.loc = {o.id : o \in RestingOn(b.bids) \cup RestingOn(b.asks)}
  <2>1. /\ \A side \in Side : \A o \in RestingOn(Levels(b, side)) : o.id \in DOMAIN b.loc
        /\ \A id \in DOMAIN b.loc : \E side \in Side :
             \E o \in RestingOn(Levels(b, side)) : o.id = id
    BY Zenon DEF BookExact, LocExact
  <2>2. Levels(b, "BID") = b.bids /\ Levels(b, "ASK") = b.asks /\ Side = {"BID", "ASK"}
    BY BothSides DEF Side
  <2>3. \A o \in RestingOn(b.bids) \cup RestingOn(b.asks) : o.id \in DOMAIN b.loc
    BY <2>1, <2>2
  <2>4. \A id \in DOMAIN b.loc : \E o \in RestingOn(b.bids) \cup RestingOn(b.asks) : o.id = id
    BY <2>1, <2>2
  <2> QED BY <2>3, <2>4
<1>4. \A side \in Side : \A o \in RestingOn(Levels(b, side)) :
        b.loc[o.id] = [side |-> side, price |-> o.price] /\ IsResting(b, o.id)
  BY RestingIsFound, Zenon DEF BookExact, LocExact
<1> QED BY <1>1, <1>2, <1>3, <1>4, Zenon DEF BookConsistent

(* A fill of the front order of a side, as execute_top_cross does it twice and
   match_market once, *)
Taken(b, side, qty) ==
  BookWith(b, side, TakeFront(Levels(b, side), qty),
           LocAfterTake(b.loc, FrontOrder(Levels(b, side)), qty))

(* and what it leaves. *)
TakenFrom(b, side, qty, new) ==
  /\ BookExact(new)
  /\ Levels(new, side) = TakeFront(Levels(b, side), qty)
  /\ Levels(new, Opposite(side)) = Levels(b, Opposite(side))
  /\ RestingOn(Levels(new, side)) =
       Left(RestingOn(Levels(b, side)), FrontOrder(Levels(b, side)), qty)

(* Taking from the front keeps the indexes of the book exact. *)
LEMMA TakeExact ==
  ASSUME WellOrdered, NEW b, BookExact(b), NEW side \in Side, Levels(b, side) # <<>>,
         NEW qty \in Nat \ {0}, qty <= FrontOrder(Levels(b, side)).qty
  PROVE  TakenFrom(b, side, qty, Taken(b, side, qty))
<1> DEFINE levels == Levels(b, side)
           front == FrontOrder(levels)
           taken == TakeFront(levels, qty)
           loc == LocAfterTake(b.loc, front, qty)
           new == BookWith(b, side, taken, loc)
           rest == FillOrder(front, qty)
<1>1. SideOK(side, levels) /\ SideExact(levels) /\ LocOK(b.loc)
  BY Zenon DEF BookExact, BookOK
<1>2. /\ SideOK(side, taken) /\ SideExact(taken)
      /\ RestingOn(taken) = (RestingOn(levels) \ {front})
           \cup (IF front.qty = qty THEN {} ELSE {rest})
  BY <1>1, TakeFrontOK, TakeFrontExact DEF Left
<1>3. front \in RestingOn(levels) /\ front \in Order
  BY <1>1, FrontIsFirst, FrontOrderOK
<1>4. LocOK(loc)
  BY <1>1, LocAfterTakeOK
<1>5. /\ \A t \in Side : Levels(new, t) = IF t = side THEN taken ELSE Levels(b, t)
      /\ new.loc = loc
  BY BothSides
<1>6. rest.id = front.id /\ rest.price = front.price
  BY <1>3 DEF FillOrder, Order
<1>7. Opposite(side) \in Side /\ Opposite(side) # side
  BY DEF Opposite, Side
<1>8. /\ front.qty = qty => DOMAIN loc = DOMAIN b.loc \ {front.id}
           /\ \A id \in DOMAIN loc : loc[id] = b.loc[id]
      /\ front.qty # qty => loc = b.loc
  BY DEF LocAfterTake, Erase
<1>9. \A t \in Side : \A o \in RestingOn(Levels(b, t)) : o.id = front.id => o = front /\ t = side
  BY <1>3, UniqueIds
<1> HIDE DEF new, taken, loc, rest, front
<1>10. ASSUME NEW t \in Side, NEW o \in RestingOn(Levels(new, t))
       PROVE  o.id \in DOMAIN loc /\ loc[o.id] = [side |-> t, price |-> o.price]
  <2>1. CASE o \in RestingOn(Levels(b, t)) /\ (t = side => o # front)
    <3>1. o.id \in DOMAIN b.loc /\ b.loc[o.id] = [side |-> t, price |-> o.price]
      BY <2>1 DEF BookExact, LocExact
    <3>2. o.id # front.id
      BY <1>9, <2>1
    <3> QED BY <1>8, <3>1, <3>2, Zenon
  <2>2. CASE t = side /\ o = rest /\ front.qty # qty
    <3>1. front.id \in DOMAIN b.loc /\ b.loc[front.id] = [side |-> side, price |-> front.price]
      BY <1>3 DEF BookExact, LocExact
    <3> QED BY <1>6, <1>8, <2>2, <3>1, Zenon
  <2> QED BY <1>2, <1>5, <2>1, <2>2, Zenon
<1>11. ASSUME NEW id \in DOMAIN loc
       PROVE  \E t \in Side : \E o \in RestingOn(Levels(new, t)) : o.id = id
  <2>1. id \in DOMAIN b.loc
    BY <1>8
  <2>2. PICK t \in Side : \E o \in RestingOn(Levels(b, t)) : o.id = id
    BY <2>1 DEF BookExact, LocExact
  <2>3. PICK o \in RestingOn(Levels(b, t)) : o.id = id
    BY <2>2
  <2>4. CASE o = front
    <3>1. front.qty # qty /\ t = side
      BY <1>8, <1>9, <2>3, <2>4, Zenon
    <3>2. rest \in RestingOn(Levels(new, side)) /\ rest.id = id
      BY <1>2, <1>5, <1>6, <2>3, <2>4, <3>1, Zenon
    <3> QED BY <3>2
  <2>5. CASE o # front
    <3>1. o \in RestingOn(Levels(new, t))
      BY <1>2, <1>5, <2>5
    <3> QED BY <2>3, <3>1
  <2> QED BY <2>4, <2>5
<1>12. LocExact(new)
  BY <1>5, <1>10, <1>11 DEF LocExact
<1>13. BookOK(new) /\ \A t \in Side : SideExact(Levels(new, t))
  BY <1>2, <1>4, <1>5 DEF BookOK, BookExact
<1>14. BookExact(new)
  BY <1>12, <1>13 DEF BookExact
<1>15. Levels(new, side) = taken /\ Levels(new, Opposite(side)) = Levels(b, Opposite(side))
  BY <1>5, <1>7
<1>16. RestingOn(Levels(new, side)) = Left(RestingOn(levels), front, qty)
  BY <1>2, <1>15 DEF Left, rest
<1> QED BY <1>14, <1>15, <1>16, Zenon DEF TakenFrom, Taken, new, taken, loc, front

(* What addOrder does to a book without an order of that id or later. *)
LEMMA AddExact ==
  ASSUME WellOrdered, NEW b, BookExact(b), NEW o \in Order, o.type = "LIMIT",
         \A side \in Side : Latest(RestingOn(Levels(b, side)), o)
  PROVE  LET new == addOrder(b, o)
         IN  /\ BookExact(new)
             /\ new = BookWith(b, o.side, AddToSide(o.side, Levels(b, o.side), o),
                               Put(b.loc, o.id, [side |-> o.side, price |-> o.price]))
             /\ \A side \in Side : RestingOn(Levels(new, side)) =
                  IF side = o.side THEN RestingOn(Levels(b, side)) \cup {o}
                                   ELSE RestingOn(Levels(b, side))
<1> DEFINE side == o.side
           levels == Levels(b, side)
           added == AddToSide(side, levels, o)
           loc == Put(b.loc, o.id, [side |-> side, price |-> o.price])
           new == BookWith(b, side, added, loc)
<1>1. side \in Side /\ o.price \in Int /\ o.id \in Nat
  BY DEF Order
<1>2. SideOK(side, levels) /\ SideExact(levels) /\ LocOK(b.loc)
  BY <1>1 DEF BookExact, BookOK
<1>3. SideOK(side, added) /\ SideExact(added) /\ RestingOn(added) = RestingOn(levels) \cup {o}
  <2>1. Latest(RestingOn(levels), o)
    BY <1>1, Zenon
  <2>2. SideOK(side, added)
    BY <1>1, <1>2, AddToSideOK, Zenon
  <2> HIDE DEF added, levels
  <2>3. SideExact(AddToSide(side, levels, o))
        /\ RestingOn(AddToSide(side, levels, o)) = RestingOn(levels) \cup {o}
    BY <1>1, <1>2, <2>1, AddToSideExact, Zenon
  <2> QED BY <2>2, <2>3, Zenon DEF added
<1>4. LocOK(loc)
  BY <1>1, <1>2, PutOK
<1>5. addOrder(b, o) = new
  BY Zenon DEF addOrder
<1>6. /\ \A t \in Side : Levels(new, t) = IF t = side THEN added ELSE Levels(b, t)
      /\ new.loc = loc
  BY <1>1, BothSides
<1>7. /\ DOMAIN loc = DOMAIN b.loc \cup {o.id} /\ loc[o.id] = [side |-> side, price |-> o.price]
      /\ \A id \in DOMAIN b.loc : id # o.id => loc[id] = b.loc[id]
  BY DEF Put
<1>8. \A t \in Side : \A p \in RestingOn(Levels(b, t)) : p.id # o.id
  <2> SUFFICES ASSUME NEW t \in Side, NEW p \in RestingOn(Levels(b, t)) PROVE p.id # o.id
    OBVIOUS
  <2>1. p.id < o.id
    BY Zenon DEF Latest
  <2> QED BY <1>1, <2>1
<1> HIDE DEF new, added, loc, side
<1>9. ASSUME NEW t \in Side, NEW p \in RestingOn(Levels(new, t))
      PROVE  p.id \in DOMAIN loc /\ loc[p.id] = [side |-> t, price |-> p.price]
  <2>1. CASE p \in RestingOn(Levels(b, t))
    <3>1. p.id \in DOMAIN b.loc /\ b.loc[p.id] = [side |-> t, price |-> p.price]
      BY <2>1 DEF BookExact, LocExact
    <3> QED BY <1>7, <1>8, <2>1, <3>1, Zenon
  <2>2. CASE p = o /\ t = side
    BY <1>7, <2>2, Zenon
  <2> QED BY <1>3, <1>6, <2>1, <2>2, Zenon
<1>10. ASSUME NEW id \in DOMAIN loc
       PROVE  \E t \in Side : \E p \in RestingOn(Levels(new, t)) : p.id = id
  <2>1. CASE id = o.id
    <3>1. o \in RestingOn(Levels(new, side))
      BY <1>1, <1>3, <1>6
    <3> QED BY <1>1, <2>1, <3>1
  <2>2. CASE id \in DOMAIN b.loc
    <3>1. PICK t \in Side : \E p \in RestingOn(Levels(b, t)) : p.id = id
      BY <2>2 DEF BookExact, LocExact
    <3>2. PICK p \in RestingOn(Levels(b, t)) : p.id = id
      BY <3>1
    <3>3. p \in RestingOn(Levels(new, t))
      BY <1>3, <1>6
    <3> QED BY <3>2, <3>3
  <2> QED BY <1>7, <2>1, <2>2
<1>11. LocExact(new)
  BY <1>6, <1>9, <1>10 DEF LocExact
<1>12. BookOK(new) /\ \A t \in Side : SideExact(Levels(new, t))
  BY <1>3, <1>4, <1>6 DEF BookOK, BookExact
<1>13. BookExact(new)
  BY <1>11, <1>12 DEF BookExact
<1>14. \A t \in Side : RestingOn(Levels(new, t)) =
         IF t = side THEN RestingOn(Levels(b, t)) \cup {o} ELSE RestingOn(Levels(b, t))
  BY <1>3, <1>6, Zenon
<1> QED BY <1>5, <1>13, <1>14 DEF new, added, loc, side

(* What cancelOrder does: at most the order of that id goes, and it is no longer
   in order_loc_. *)
LEMMA CancelExact ==
  ASSUME WellOrdered, NEW b, BookExact(b), NEW id
  PROVE  LET new == cancelOrder(b, id)
         IN  /\ BookExact(new)
             /\ \A side \in Side : RestingOn(Levels(new, side)) =
                  {o \in RestingOn(Levels(b, side)) : o.id # id}
             /\ DOMAIN new.loc = DOMAIN b.loc \ {id}
<1> DEFINE Kept(t) == {o \in RestingOn(Levels(b, t)) : o.id # id}
<1>1. CASE ~IsResting(b, id)
  <2>1. cancelOrder(b, id) = b
    BY <1>1, Zenon DEF cancelOrder
  <2>2. \A t \in Side : \A o \in RestingOn(Levels(b, t)) : o.id # id
    BY <1>1, RestingIsFound, Zenon
  <2>3. id \notin DOMAIN b.loc
    BY <2>2, Zenon DEF BookExact, LocExact
  <2> QED BY <2>1, <2>2, <2>3
<1>2. CASE IsResting(b, id)
  <2> DEFINE side == b.loc[id].side
             levels == Levels(b, side)
             i == LevelOf(b, id)
             left == RemoveFromSide(levels, i, id)
             loc == Erase(b.loc, id)
             new == BookWith(b, side, left, loc)
  <2>1. side \in Side /\ b.loc[id].price \in Int /\ id \in DOMAIN b.loc
    BY <1>2, Zenon DEF IsResting, BookExact, BookOK, LocOK
  <2>2. SideOK(side, levels) /\ SideExact(levels) /\ LocOK(b.loc)
    BY <2>1 DEF BookExact, BookOK
  <2>3. i \in 1 .. Len(levels) + 1
    BY <2>1, <2>2, LowerBoundExists, Zenon DEF LevelOf
  <2>4. i <= Len(levels) /\ IndexOf(levels[i].orders, id) # 0
    BY <1>2, Zenon DEF IsResting, HasLevel
  <2>5. i \in 1 .. Len(levels)
    BY <2>2, <2>3, <2>4, LevelPrices
  <2>6. SideOK(side, left) /\ SideExact(left)
    BY <2>1, <2>2, <2>4, <2>5, RemoveFromSideOK, RemoveFromSideExact, Zenon
  <2>7. \E o \in RestingOn(levels) : o.id = id /\ RestingOn(left) = RestingOn(levels) \ {o}
    BY <2>1, <2>2, <2>4, <2>5, RemoveFromSideExact, Zenon
  <2>8. LocOK(loc) /\ DOMAIN loc = DOMAIN b.loc \ {id} /\ \A x \in DOMAIN loc : loc[x] = b.loc[x]
    BY <2>2, EraseOK DEF Erase
  <2>9. cancelOrder(b, id) = new
    BY <1>2, Zenon DEF cancelOrder
  <2>10. /\ \A t \in Side : Levels(new, t) = IF t = side THEN left ELSE Levels(b, t)
         /\ new.loc = loc
    BY <2>1, BothSides
  <2> HIDE DEF new, left, loc, i, side
  <2>11. \A t \in Side : RestingOn(Levels(new, t)) = Kept(t)
    <3> SUFFICES ASSUME NEW t \in Side PROVE RestingOn(Levels(new, t)) = Kept(t)
      OBVIOUS
    <3>1. PICK o \in RestingOn(levels) : o.id = id /\ RestingOn(left) = RestingOn(levels) \ {o}
      BY <2>7
    <3>2. \A p \in RestingOn(Levels(b, t)) : p.id = id => p = o /\ t = side
      BY <2>1, <3>1, UniqueIds, Zenon
    <3>3. CASE t = side
      BY <2>10, <3>1, <3>2, <3>3, Zenon
    <3>4. CASE t # side
      BY <2>10, <3>2, <3>4, Zenon
    <3> QED BY <3>3, <3>4
  <2>12. LocExact(new)
    <3>1. ASSUME NEW t \in Side, NEW o \in RestingOn(Levels(new, t))
          PROVE  o.id \in DOMAIN loc /\ loc[o.id] = [side |-> t, price |-> o.price]
      <4>1. o \in RestingOn(Levels(b, t)) /\ o.id # id
        BY <2>11, Zenon
      <4>2. o.id \in DOMAIN b.loc /\ b.loc[o.id] = [side |-> t, price |-> o.price]
        BY <4>1 DEF BookExact, LocExact
      <4> QED BY <2>8, <4>1, <4>2, Zenon
    <3>2. ASSUME NEW x \in DOMAIN loc
          PROVE  \E t \in Side : \E o \in RestingOn(Levels(new, t)) : o.id = x
      <4>1. x \in DOMAIN b.loc /\ x # id
        BY <2>8, Zenon
      <4>2. PICK t \in Side : \E o \in RestingOn(Levels(b, t)) : o.id = x
        BY <4>1 DEF BookExact, LocExact
      <4> QED BY <2>11, <4>1, <4>2, Zenon
    <3> QED BY <2>10, <3>1, <3>2, Zenon DEF LocExact
  <2>13. BookOK(new) /\ \A t \in Side : SideExact(Levels(new, t))
    BY <2>6, <2>8, <2>10 DEF BookOK, BookExact
  <2> QED BY <2>8, <2>9, <2>10, <2>11, <2>12, <2>13, Zenon DEF BookExact
<1> QED BY <1>1, <1>2

(* The empty book has nothing to index. *)
LEMMA EmptyExact == BookExact(EmptyBook)
<1>1. \A side \in Side : Levels(EmptyBook, side) = <<>>
  BY DEF Levels, EmptyBook
<1>2. <<>> \in Seq(Level) /\ Len(<<>>) = 0 /\ 1 .. 0 = {}
  BY SeqEmpty
<1>3. RestingOn(<<>>) = {}
  BY <1>2 DEF RestingOn
<1>4. LocOK(EmptyBook.loc) /\ DOMAIN EmptyBook.loc = {}
  BY DEF LocOK, EmptyBook
<1>5. \A side \in Side : SideOK(side, <<>>) /\ SideExact(<<>>)
  BY <1>2 DEF SideOK, SideExact, Sorted
<1>6. LocExact(EmptyBook)
  BY <1>1, <1>3, <1>4 DEF LocExact
<1> QED BY <1>1, <1>4, <1>5, <1>6, Zenon DEF BookExact, BookOK

(* execute_top_cross: a fill of the front order of each side. *)
LEMMA CrossExact ==
  ASSUME WellOrdered, NEW b, BookExact(b), b.bids # <<>>, b.asks # <<>>
  PROVE  LET new == execute_top_cross(b)
             qty == CrossTrade(b).qty
         IN  /\ BookExact(new)
             /\ RestingOn(new.bids) = Left(RestingOn(b.bids), FrontOrder(b.bids), qty)
             /\ RestingOn(new.asks) = Left(RestingOn(b.asks), FrontOrder(b.asks), qty)
<1> DEFINE qty == CrossTrade(b).qty
           mid == Taken(b, "BID", qty)
           new == Taken(mid, "ASK", qty)
<1>1. "BID" \in Side /\ "ASK" \in Side /\ Opposite("BID") = "ASK" /\ Opposite("ASK") = "BID"
  BY DEF Side, Opposite
<1>2. \A x : Levels(x, "BID") = x.bids /\ Levels(x, "ASK") = x.asks
  BY DEF Levels
<1>3. SideOK("BID", b.bids) /\ SideOK("ASK", b.asks)
  BY <1>1, <1>2 DEF BookExact, BookOK
<1>4. FrontOrder(b.bids).qty \in Nat \ {0} /\ FrontOrder(b.asks).qty \in Nat \ {0}
  <2>1. FrontOrder(b.bids) \in Order /\ FrontOrder(b.asks) \in Order
    BY <1>3, FrontOrderOK
  <2> QED BY <2>1 DEF Order
<1>5. qty = Lesser(FrontOrder(b.bids).qty, FrontOrder(b.asks).qty)
  BY DEF CrossTrade
<1>6. qty \in Nat \ {0} /\ qty <= FrontOrder(b.bids).qty /\ qty <= FrontOrder(b.asks).qty
  BY <1>4, <1>5, LesserOK, Zenon
<1>7. new = execute_top_cross(b)
  <2>1. /\ mid.bids = TakeFront(b.bids, qty) /\ mid.asks = b.asks
        /\ mid.loc = LocAfterTake(b.loc, FrontOrder(b.bids), qty)
    BY <1>2, Zenon DEF Taken, BookWith
  <2> HIDE DEF mid
  <2> QED BY <1>2, <2>1, Zenon DEF Taken, BookWith, execute_top_cross
<1> HIDE DEF qty, new
<1>8. TakenFrom(b, "BID", qty, mid)
  BY <1>1, <1>2, <1>6, TakeExact
<1> HIDE DEF mid
<1>9. BookExact(mid) /\ mid.asks = b.asks
      /\ RestingOn(mid.bids) = Left(RestingOn(b.bids), FrontOrder(b.bids), qty)
  BY <1>1, <1>2, <1>8, Zenon DEF TakenFrom
<1>10. TakenFrom(mid, "ASK", qty, new)
  BY <1>1, <1>2, <1>6, <1>9, TakeExact, Zenon DEF new
<1>11. /\ BookExact(new) /\ new.bids = mid.bids
       /\ RestingOn(new.asks) = Left(RestingOn(b.asks), FrontOrder(b.asks), qty)
  BY <1>1, <1>2, <1>9, <1>10, Zenon DEF TakenFrom
<1> QED BY <1>7, <1>9, <1>11, Zenon DEF qty
-----------------------------------------------------------------------------
(* A resting order is what was placed under its id, less what was filled. *)
Accounted(side, o) ==
  /\ o.id \in 1 .. Len(placed)
  /\ placed[o.id].type = "LIMIT" /\ placed[o.id].side = side /\ placed[o.id].price = o.price
  /\ o.qty + filled[o.id] = placed[o.id].qty

(* The books balance: the inductive invariant of IndexesExact and Conserved. *)
Account ==
  /\ BookExact(book)
  /\ filled \in Seq(Nat) /\ Len(filled) = Len(placed)
  /\ \A i \in 1 .. Len(placed) : placed[i].id = i /\ filled[i] <= placed[i].qty
  /\ \A side \in Side : \A o \in Resting(side) : Accounted(side, o)
  /\ phase # "idle" =>
       /\ incoming.id \in 1 .. Len(placed) /\ placed[incoming.id] = incoming
       /\ remaining + filled[incoming.id] = incoming.qty
       /\ incoming.type = IF phase = "cross" THEN "LIMIT" ELSE "MARKET"
  /\ phase = "cross" => (remaining = 0 <=> incoming.id \notin DOMAIN book.loc)

(* The account of an engine that has seen nothing. *)
LEMMA InitAccount == Init => Account
<1> SUFFICES ASSUME Init PROVE Account
  OBVIOUS
<1>1. book = EmptyBook /\ placed = <<>> /\ filled = <<>> /\ phase = "idle"
  BY DEF Init
<1>2. <<>> \in Seq(Nat) /\ Len(<<>>) = 0 /\ 1 .. 0 = {}
  BY SeqEmpty
<1>3. \A side \in Side : Resting(side) = {}
  <2>1. \A side \in Side : Levels(EmptyBook, side) = <<>>
    BY DEF Levels, EmptyBook
  <2> QED BY <1>1, <1>2, <2>1, Zenon DEF Resting, RestingOn
<1> QED BY <1>1, <1>2, <1>3, EmptyExact DEF Account

(* An order arrives: the accounts of the others stay as they are. *)
LEMMA ArriveAccount ==
  ASSUME IInv, Account, NEW type \in {"LIMIT", "MARKET"}, NEW side \in Side,
         NEW price \in Int, NEW qty \in Quantity, Arrive(type, side, price, qty)
  PROVE  LET n == Len(placed) + 1
             o == [id |-> n, type |-> type, side |-> side, price |-> price, qty |-> qty]
         IN  /\ incoming' = o /\ o \in Order /\ remaining' = qty /\ qty \in Nat \ {0}
             /\ n \in Nat /\ n \in 1 .. n /\ placed'[n] = o /\ filled'[n] = 0
             /\ filled' \in Seq(Nat) /\ Len(placed') = n /\ Len(filled') = n
             /\ \A i \in 1 .. n : placed'[i].id = i /\ filled'[i] <= placed'[i].qty
             /\ \A s \in Side : \A p \in Resting(s) : p.id < n /\ Accounted(s, p)'
<1> DEFINE n == Len(placed) + 1
           o == [id |-> n, type |-> type, side |-> side, price |-> price, qty |-> qty]
<1>1. placed \in Seq(Order) /\ filled \in Seq(Nat) /\ Len(filled) = Len(placed)
      /\ Len(placed) \in Nat
  BY SeqLen, Zenon DEF IInv, TypeOK, Account
<1>2. o \in Order /\ qty \in Nat \ {0} /\ n \in Nat /\ n \in 1 .. n
  BY <1>1, QuantityAssumption DEF Order
<1>3. incoming' = o /\ remaining' = qty /\ placed' = Append(placed, o)
      /\ filled' = Append(filled, 0)
  BY DEF Arrive
<1>4. o.id = n /\ o.qty = qty
  OBVIOUS
<1> HIDE DEF o
<1>5. /\ Len(placed') = n /\ placed'[n] = o /\ \A i \in 1 .. Len(placed) : placed'[i] = placed[i]
      /\ filled' \in Seq(Nat) /\ Len(filled') = n /\ filled'[n] = 0
      /\ \A i \in 1 .. Len(placed) : filled'[i] = filled[i]
  BY <1>1, <1>2, <1>3, SeqAppend
<1>6. \A i \in 1 .. n : i = n \/ i \in 1 .. Len(placed)
  BY <1>1
<1>7. \A i \in 1 .. n : placed'[i].id = i /\ filled'[i] <= placed'[i].qty
  <2> SUFFICES ASSUME NEW i \in 1 .. n PROVE placed'[i].id = i /\ filled'[i] <= placed'[i].qty
    OBVIOUS
  <2>1. CASE i = n
    BY <1>2, <1>4, <1>5, <2>1
  <2>2. CASE i \in 1 .. Len(placed)
    BY <1>5, <2>2, Zenon DEF Account
  <2> QED BY <1>6, <2>1, <2>2
<1>8. \A s \in Side : \A p \in Resting(s) : p.id < n /\ Accounted(s, p)'
  <2> SUFFICES ASSUME NEW s \in Side, NEW p \in Resting(s) PROVE p.id < n /\ Accounted(s, p)'
    BY Zenon
  <2>1. Accounted(s, p)
    BY DEF Account
  <2>2. p.id \in 1 .. Len(placed) /\ p.id \in 1 .. n
    BY <1>1, <2>1 DEF Accounted
  <2>3. placed'[p.id] = placed[p.id] /\ filled'[p.id] = filled[p.id] /\ p.id \in 1 .. Len(placed')
    BY <1>5, <2>2, Zenon
  <2>4. Accounted(s, p)'
    BY <2>1, <2>3, Zenon DEF Accounted
  <2> QED BY <1>1, <2>2, <2>4
<1> QED BY <1>2, <1>3, <1>5, <1>7, <1>8, Zenon DEF o

(* A limit order enters the account. *)
LEMMA LimitAccount ==
  ASSUME WellOrdered, IInv, Account, NEW side \in Side, NEW price \in Price, NEW qty \in Quantity,
         Limit(side, price, qty)
  PROVE  Account'
<1> PICK n : n = Len(placed) + 1
  BY Zenon
<1> PICK o : o = [id |-> n, type |-> "LIMIT", side |-> side, price |-> price, qty |-> qty]
  BY Zenon
<1>1. Arrive("LIMIT", side, price, qty) /\ price \in Int /\ phase' = "cross"
      /\ book' = addOrder(book, incoming')
  BY PriceAssumption, Zenon DEF Limit
<1>2. /\ incoming' = o /\ o \in Order /\ remaining' = qty /\ qty \in Nat \ {0}
      /\ n \in Nat /\ n \in 1 .. n /\ placed'[n] = o /\ filled'[n] = 0
      /\ filled' \in Seq(Nat) /\ Len(placed') = n /\ Len(filled') = n
      /\ \A i \in 1 .. n : placed'[i].id = i /\ filled'[i] <= placed'[i].qty
      /\ \A s \in Side : \A p \in Resting(s) : p.id < n /\ Accounted(s, p)'
  BY <1>1, ArriveAccount
<1>3. o.id = n /\ o.type = "LIMIT" /\ o.side = side /\ o.price = price /\ o.qty = qty
  BY Zenon
<1>4. BookExact(book) /\ book' = addOrder(book, o)
  BY <1>1, <1>2 DEF Account
<1>5. \A s \in Side : Latest(RestingOn(Levels(book, s)), o)
  BY <1>2, <1>3, Zenon DEF Resting, Latest
<1>6. /\ BookExact(book')
      /\ \A s \in Side : RestingOn(Levels(book', s)) =
           IF s = side THEN RestingOn(Levels(book, s)) \cup {o} ELSE RestingOn(Levels(book, s))
  <2>1. /\ BookExact(addOrder(book, o))
        /\ \A s \in Side : RestingOn(Levels(addOrder(book, o), s)) =
             IF s = o.side THEN RestingOn(Levels(book, s)) \cup {o} ELSE RestingOn(Levels(book, s))
    BY <1>2, <1>3, <1>4, <1>5, AddExact, Zenon
  <2> QED BY <1>3, <1>4, <2>1, Zenon
<1>7. Accounted(side, o)'
  BY <1>2, <1>3 DEF Accounted
<1>8. \A s \in Side : \A p \in Resting(s)' : Accounted(s, p)'
  <2> SUFFICES ASSUME NEW s \in Side, NEW p \in Resting(s)' PROVE Accounted(s, p)'
    BY Zenon
  <2>1. p \in Resting(s) \/ (s = side /\ p = o)
    BY <1>6, Zenon DEF Resting
  <2> QED BY <1>2, <1>7, <2>1, Zenon
<1>9. n \in DOMAIN book'.loc
  <2>1. o \in RestingOn(Levels(book', side))
    BY <1>6
  <2>2. o.id \in DOMAIN book'.loc
    BY <1>6, <2>1, RestingIsTyped, Zenon
  <2> QED BY <1>3, <2>2, Zenon
<1>10. remaining' # 0 /\ remaining' + filled'[n] = qty
  BY <1>2
<1> QED BY <1>1, <1>2, <1>3, <1>6, <1>8, <1>9, <1>10, Zenon DEF Account

(* A market order enters the account. *)
LEMMA MarketAccount ==
  ASSUME IInv, Account, NEW side \in Side, NEW qty \in Quantity, Market(side, qty)
  PROVE  Account'
<1> DEFINE n == Len(placed) + 1
           o == [id |-> n, type |-> "MARKET", side |-> side, price |-> 0, qty |-> qty]
<1>1. Arrive("MARKET", side, 0, qty) /\ phase' = "market" /\ book' = book
  BY Zenon DEF Market
<1>2. /\ incoming' = o /\ o \in Order /\ remaining' = qty /\ qty \in Nat \ {0}
      /\ n \in Nat /\ n \in 1 .. n /\ placed'[n] = o /\ filled'[n] = 0
      /\ filled' \in Seq(Nat) /\ Len(placed') = n /\ Len(filled') = n
      /\ \A i \in 1 .. n : placed'[i].id = i /\ filled'[i] <= placed'[i].qty
      /\ \A s \in Side : \A p \in Resting(s) : p.id < n /\ Accounted(s, p)'
  BY <1>1, ArriveAccount
<1>3. o.id = n /\ o.type = "MARKET" /\ o.qty = qty
  BY Zenon
<1> HIDE DEF o, n
<1>4. \A s \in Side : \A p \in Resting(s)' : Accounted(s, p)'
  BY <1>1, <1>2, Zenon DEF Resting
<1>5. remaining' + filled'[n] = qty
  BY <1>2
<1>6. BookExact(book')
  BY <1>1, Zenon DEF Account
<1> QED BY <1>1, <1>2, <1>3, <1>4, <1>5, <1>6, Zenon DEF Account

(* What a cancel takes out of the book is booked as gone. *)
LEMMA CancelAccount ==
  ASSUME WellOrdered, IInv, Account, NEW id, Cancel(id)
  PROVE  Account'
<1>1. /\ phase = "idle" /\ book' = cancelOrder(book, id)
      /\ UNCHANGED <<phase, incoming, remaining, placed, filled>>
  BY Zenon DEF Cancel
<1>2. /\ BookExact(book')
      /\ \A s \in Side : RestingOn(Levels(book', s)) =
           {o \in RestingOn(Levels(book, s)) : o.id # id}
  BY <1>1, CancelExact DEF Account
<1>3. \A s \in Side : \A p \in Resting(s)' : Accounted(s, p)'
  BY <1>1, <1>2 DEF Account, Resting, Accounted
<1> QED BY <1>1, <1>2, <1>3, Zenon DEF Account

(* The account of the fills: qty is noted under these ids, nothing else changes. *)
Noted(ids, qty) ==
  /\ filled' \in Seq(Nat) /\ Len(filled') = Len(filled)
  /\ \A i \in 1 .. Len(placed) :
       /\ filled[i] \in Nat
       /\ filled'[i] = IF i \in ids THEN filled[i] + qty ELSE filled[i]

(* Qty is taken from what rests under these ids. *)
Reduced(ids, qty) ==
  \A s \in Side : \A p \in Resting(s) :
    /\ p.id \notin ids => Accounted(s, p)'
    /\ p.id \in ids => Accounted(s, FillOrder(p, qty))'

(* A trade between two orders is noted under both. *)
LEMMA ReportOK ==
  ASSUME Account, NEW t, t.qty \in Nat, t.buyer \in 1 .. Len(placed),
         t.seller \in 1 .. Len(placed), t.buyer # t.seller, Report(t)
  PROVE  Noted({t.buyer, t.seller}, t.qty)
<1>1. filled \in Seq(Nat) /\ Len(filled) = Len(placed) /\ DOMAIN filled = 1 .. Len(placed)
  BY SeqLen DEF Account
<1>2. \A i \in 1 .. Len(placed) : filled[i] \in Nat
  BY <1>1, SeqElement, Zenon
<1>3. filled' = [filled EXCEPT ![t.buyer] = @ + t.qty, ![t.seller] = @ + t.qty]
  BY DEF Report
<1>4. /\ DOMAIN filled' = 1 .. Len(placed)
      /\ \A i \in 1 .. Len(placed) :
              filled'[i] = IF i \in {t.buyer, t.seller} THEN filled[i] + t.qty ELSE filled[i]
  BY <1>1, <1>3, Zenon
<1>5. PICK x : x = filled[t.buyer] + t.qty /\ x \in Nat
  BY <1>2
<1>6. PICK y : y = filled[t.seller] + t.qty /\ y \in Nat
  BY <1>2
<1>7. PICK mid : mid = [filled EXCEPT ![t.buyer] = x]
  BY Zenon
<1>8. mid \in Seq(Nat) /\ Len(mid) = Len(placed)
  BY <1>1, <1>5, <1>7, SeqExcept
<1>9. filled' = [mid EXCEPT ![t.seller] = y]
  BY <1>1, <1>3, <1>5, <1>6, <1>7, Zenon
<1>10. filled' \in Seq(Nat) /\ Len(filled') = Len(filled)
  BY <1>1, <1>6, <1>8, <1>9, SeqExcept
<1> QED BY <1>2, <1>4, <1>10, Zenon DEF Noted

(* ... so the accounts of both, and of all others, still add up. *)
LEMMA TradeAccount ==
  ASSUME IInv, Account, NEW t, t.qty \in Nat, t.buyer \in 1 .. Len(placed),
         t.seller \in 1 .. Len(placed), t.buyer # t.seller, Report(t), placed' = placed
  PROVE  Reduced({t.buyer, t.seller}, t.qty)
<1> SUFFICES ASSUME NEW s \in Side, NEW p \in Resting(s)
             PROVE  /\ p.id \notin {t.buyer, t.seller} => Accounted(s, p)'
                    /\ p.id \in {t.buyer, t.seller} => Accounted(s, FillOrder(p, t.qty))'
  BY Zenon DEF Reduced
<1>1. Accounted(s, p) /\ p.id \in 1 .. Len(placed)
  BY DEF Account, Accounted
<1>2. /\ filled[p.id] \in Nat
      /\ filled'[p.id] = IF p.id \in {t.buyer, t.seller} THEN filled[p.id] + t.qty ELSE filled[p.id]
  <2>1. Noted({t.buyer, t.seller}, t.qty)
    BY ReportOK, Zenon
  <2> QED BY <1>1, <2>1, Zenon DEF Noted
<1>3. p \in Order
  BY RestingIsTyped DEF Account, Resting
<1>4. p.qty \in Nat
  BY <1>3 DEF Order
<1>5. PICK rest : rest = FillOrder(p, t.qty)
  BY Zenon
<1>6. rest.id = p.id /\ rest.price = p.price /\ rest.qty = p.qty - t.qty
  BY <1>3, <1>5, Zenon DEF FillOrder, Order
<1>7. p.id \notin {t.buyer, t.seller} => Accounted(s, p)'
  BY <1>1, <1>2, Zenon DEF Accounted
<1>8. p.id \in {t.buyer, t.seller} => Accounted(s, rest)'
  BY <1>1, <1>2, <1>4, <1>6 DEF Accounted
<1> QED BY <1>5, <1>7, <1>8

(* A market order's fill takes as much from the maker as from the taker. *)
LEMMA TakeAccount ==
  ASSUME WellOrdered, IInv, Account, Take
  PROVE  Account'
<1> PICK me : me = incoming
  BY Zenon
<1> PICK side : side = Opposite(me.side)
  BY Zenon
<1> PICK front : front = FrontOrder(Levels(book, side))
  BY Zenon
<1> PICK t : t = MarketTrade(book, me.id, me.side, remaining)
  BY Zenon
<1>1. /\ phase = "market" /\ remaining \in Nat \ {0} /\ me \in Order
      /\ me.id \in 1 .. Len(placed) /\ placed[me.id] = me /\ me.type = "MARKET"
      /\ remaining + filled[me.id] = me.qty
  <2>1. phase = "market" /\ remaining > 0
    BY Zenon DEF Take
  <2>2. remaining \in Nat /\ me \in Order
    BY <2>1, Zenon DEF IInv, TypeOK
  <2> QED BY <2>1, <2>2 DEF Account
<1>2. /\ Levels(book, side) # <<>> /\ Report(t) /\ remaining' = remaining - t.qty
      /\ book' = MarketTake(book, me.side, t.qty)
      /\ phase' = "market" /\ incoming' = me /\ placed' = placed
  BY <1>1 DEF Take
<1>3. side \in Side /\ me.side \in Side
  BY <1>1, Zenon DEF Order, Side, Opposite
<1>4. BookExact(book) /\ SideOK(side, Levels(book, side)) /\ SideExact(Levels(book, side))
  BY <1>3, Zenon DEF Account, BookExact, BookOK
<1>5. front \in Resting(side) /\ front \in Order
  BY <1>2, <1>3, <1>4, FrontIsFirst, FrontOrderOK, Zenon DEF Resting
<1>6. Accounted(side, front) /\ front.id \in 1 .. Len(placed) /\ front.id # me.id
  <2>1. Accounted(side, front)
    BY <1>3, <1>5, Zenon DEF Account
  <2>2. front.id \in 1 .. Len(placed) /\ placed[front.id].type = "LIMIT"
    BY <2>1, Zenon DEF Accounted
  <2> QED BY <1>1, <2>1, <2>2
<1>7. front.qty \in Nat \ {0}
  BY <1>5, Zenon DEF Order
<1>8. t.qty = Lesser(remaining, front.qty) /\ {t.buyer, t.seller} = {me.id, front.id}
      /\ t.buyer # t.seller
  <2>1. /\ t.qty = Lesser(remaining, front.qty)
        /\ t.buyer = IF me.side = "BID" THEN me.id ELSE front.id
        /\ t.seller = IF me.side = "BID" THEN front.id ELSE me.id
    BY Zenon DEF MarketTrade
  <2>2. CASE me.side = "BID"
    BY <1>6, <2>1, <2>2, Zenon
  <2>3. CASE me.side # "BID"
    <3>1. t.buyer = front.id /\ t.seller = me.id
      BY <2>1, <2>3, Zenon
    <3> QED BY <1>6, <2>1, <3>1
  <2> QED BY <2>2, <2>3
<1>9. t.qty \in Nat \ {0} /\ t.qty <= remaining /\ t.qty <= front.qty
  <2>1. t.qty = Lesser(remaining, front.qty) /\ remaining \in Nat \ {0}
    BY <1>1, <1>8, Zenon
  <2> QED BY <1>7, <2>1, LesserOK
<1>10. t.qty \in Nat /\ t.buyer \in 1 .. Len(placed) /\ t.seller \in 1 .. Len(placed)
  <2>1. t.buyer \in {me.id, front.id} /\ t.seller \in {me.id, front.id}
    BY <1>8
  <2> QED BY <1>1, <1>6, <1>9, <2>1, Zenon
<1>11. /\ filled' \in Seq(Nat) /\ Len(filled') = Len(filled)
       /\ \A i \in 1 .. Len(placed) :
              /\ filled[i] \in Nat
              /\ filled'[i] = IF i \in {me.id, front.id} THEN filled[i] + t.qty ELSE filled[i]
  <2>1. Noted({t.buyer, t.seller}, t.qty)
    BY <1>2, <1>8, <1>10, ReportOK, Zenon
  <2> QED BY <1>8, <2>1, Zenon DEF Noted
<1>12. \A s \in Side : \A p \in Resting(s) :
           /\ p.id \notin {me.id, front.id} => Accounted(s, p)'
           /\ p.id \in {me.id, front.id} => Accounted(s, FillOrder(p, t.qty))'
  <2>1. Reduced({t.buyer, t.seller}, t.qty)
    BY <1>2, <1>8, <1>10, TradeAccount, Zenon
  <2> QED BY <1>8, <2>1, Zenon DEF Reduced
<1>13. /\ BookExact(book')
       /\ Levels(book', Opposite(side)) = Levels(book, Opposite(side))
       /\ RestingOn(Levels(book', side)) = Left(RestingOn(Levels(book, side)), front, t.qty)
  <2>1. book' = Taken(book, side, t.qty)
    BY <1>2, Zenon DEF MarketTake, Taken
  <2>2. TakenFrom(book, side, t.qty, book')
    BY <1>2, <1>3, <1>4, <1>9, <2>1, TakeExact, Zenon
  <2> QED BY <2>2, Zenon DEF TakenFrom
<1>14. \A s \in Side : \A p \in Resting(s)' : Accounted(s, p)'
  <2> SUFFICES ASSUME NEW s \in Side, NEW p \in Resting(s)' PROVE Accounted(s, p)'
    OBVIOUS
  <2>1. s = side \/ s = Opposite(side)
    BY <1>3, Zenon DEF Side, Opposite
  <2>2. \/ p \in Resting(s) /\ (s = side => p # front)
        \/ s = side /\ p = FillOrder(front, t.qty)
    BY <1>13, <2>1, Zenon DEF Resting, Left
  <2>3. CASE p \in Resting(s) /\ (s = side => p # front)
    <3>1. p.id # front.id
      BY <1>3, <1>4, <1>5, <2>3, UniqueIds DEF Resting
    <3>2. p.id # me.id
      BY <1>1, <2>3 DEF Account, Accounted
    <3> QED BY <1>12, <2>3, <3>1, <3>2, Zenon
  <2>4. CASE s = side /\ p = FillOrder(front, t.qty)
    BY <1>5, <1>12, <2>4, Zenon
  <2> QED BY <2>2, <2>3, <2>4, Zenon
<1>15. \A i \in 1 .. Len(placed) : filled'[i] <= placed[i].qty
  <2> SUFFICES ASSUME NEW i \in 1 .. Len(placed) PROVE filled'[i] <= placed[i].qty
    BY Zenon
  <2>1. CASE i = me.id
    <3>1. /\ filled'[i] = filled[i] + t.qty /\ filled[i] \in Nat
          /\ remaining + filled[i] = placed[i].qty /\ remaining \in Nat
      BY <1>1, <1>11, <2>1, Zenon
    <3> QED BY <1>9, <3>1
  <2>2. CASE i = front.id
    <3>1. front.qty + filled[i] = placed[i].qty
      BY <1>6, <2>2, Zenon DEF Accounted
    <3>2. filled'[i] = filled[i] + t.qty /\ filled[i] \in Nat
      BY <1>11, <2>2, Zenon
    <3> QED BY <1>7, <1>9, <3>1, <3>2
  <2>3. CASE i \notin {me.id, front.id}
    BY <1>11, <2>3, Zenon DEF Account
  <2> QED BY <2>1, <2>2, <2>3, Zenon
<1>16. remaining' + filled'[me.id] = me.qty
  <2>1. filled'[me.id] = filled[me.id] + t.qty /\ filled[me.id] \in Nat
    BY <1>1, <1>11, Zenon
  <2>2. remaining + filled[me.id] = me.qty /\ remaining \in Nat /\ remaining' = remaining - t.qty
    BY <1>1, <1>2, Zenon
  <2> QED BY <1>9, <2>1, <2>2
<1> QED BY <1>1, <1>2, <1>11, <1>13, <1>14, <1>15, <1>16, Zenon DEF Account

(* What a turn of the cross loop finds: the incoming order at the front. *)
LEMMA CrossFront ==
  ASSUME IInv, Cross
  PROVE  LET own == Levels(book, incoming.side)
         IN  /\ incoming \in Order /\ incoming.side \in Side /\ remaining \in Nat \ {0}
             /\ book.bids # <<>> /\ book.asks # <<>> /\ own # <<>>
             /\ FrontOrder(own).id = incoming.id /\ FrontOrder(own).qty = remaining
<1> DEFINE side == incoming.side
           own == Levels(book, side)
           other == Levels(book, Opposite(side))
<1>1. /\ phase = "cross" /\ is_crossed(book) /\ BookOK(book)
      /\ incoming \in Order /\ remaining \in Nat \ {0} /\ side \in Side
  <2>1. phase = "cross" /\ remaining > 0 /\ is_crossed(book)
    BY Zenon DEF Cross
  <2>2. incoming \in Order /\ remaining \in Nat
    BY <2>1, Zenon DEF IInv, TypeOK
  <2> QED BY <2>1, <2>2, IInvBook DEF Order
<1>2. OnlyOneCrosses(side, own, other, incoming.id, remaining)
  <2>1. ~Apart(side, own, other, 0)
    BY <1>1, ApartFromEither, CrossedOrApart, Zenon
  <2> QED BY <1>1, <2>1, Zenon DEF IInv
<1>3. SideOK(side, own)
  BY <1>1, Zenon DEF BookOK
<1>4. own # <<>> /\ FrontOrder(own).id = incoming.id /\ FrontOrder(own).qty = remaining
  BY <1>2, <1>3, FrontOrderOK DEF OnlyOneCrosses
<1> QED BY <1>1, <1>4, Zenon DEF is_crossed

(* A trade between the two fronts takes as much from the one as from the other. *)
LEMMA CrossAccount ==
  ASSUME WellOrdered, IInv, Account, Cross
  PROVE  Account'
<1> PICK me : me = incoming
  BY Zenon
<1> PICK side : side = me.side
  BY Zenon
<1> PICK t : t = CrossTrade(book)
  BY Zenon
<1> PICK front : front = [s \in Side |-> FrontOrder(Levels(book, s))]
  BY Zenon
<1>1. /\ me \in Order /\ side \in Side /\ remaining \in Nat \ {0} /\ Levels(book, side) # <<>>
      /\ front[side].id = me.id /\ front[side].qty = remaining
      /\ book.bids # <<>> /\ book.asks # <<>>
  BY CrossFront, Zenon
<1>2. "BID" \in Side /\ "ASK" \in Side /\ \A s \in Side : s = "BID" \/ s = "ASK"
  BY Zenon DEF Side
<1>3. /\ BookExact(book) /\ Levels(book, "BID") = book.bids /\ Levels(book, "ASK") = book.asks
      /\ front["BID"] = FrontOrder(book.bids) /\ front["ASK"] = FrontOrder(book.asks)
  BY <1>2, Zenon DEF Account, Levels
<1>4. \A s \in Side : front[s] \in Resting(s) /\ front[s] \in Order
  <2> SUFFICES ASSUME NEW s \in Side PROVE front[s] \in Resting(s) /\ front[s] \in Order
    BY Zenon
  <2>1. SideOK(s, Levels(book, s)) /\ SideExact(Levels(book, s)) /\ Levels(book, s) # <<>>
    BY <1>1, <1>2, <1>3, Zenon DEF BookExact, BookOK
  <2> QED BY <2>1, FrontIsFirst, FrontOrderOK, Zenon DEF Resting
<1>5. \A s \in Side : /\ front[s].qty \in Nat \ {0} /\ front[s].id \in 1 .. Len(placed)
                      /\ front[s].qty + filled[front[s].id] = placed[front[s].id].qty
  <2> SUFFICES ASSUME NEW s \in Side
               PROVE  /\ front[s].qty \in Nat \ {0} /\ front[s].id \in 1 .. Len(placed)
                      /\ front[s].qty + filled[front[s].id] = placed[front[s].id].qty
    OBVIOUS
  <2>1. front[s].qty \in Nat \ {0}
    BY <1>4, Zenon DEF Order
  <2>2. Accounted(s, front[s])
    BY <1>4, Zenon DEF Account
  <2> QED BY <2>1, <2>2, Zenon DEF Accounted
<1>6. \A s, r \in Side : \A p \in Resting(s) : p.id = front[r].id => p = front[r] /\ s = r
  BY <1>3, <1>4, UniqueIds DEF Resting
<1>7. /\ t.buyer = front["BID"].id /\ t.seller = front["ASK"].id
      /\ t.qty = Lesser(front["BID"].qty, front["ASK"].qty)
  BY <1>3, Zenon DEF CrossTrade
<1>8. t.qty \in Nat \ {0} /\ \A s \in Side : t.qty <= front[s].qty
  <2>1. front["BID"].qty \in Nat \ {0} /\ front["ASK"].qty \in Nat \ {0}
    BY <1>2, <1>5, Zenon
  <2>2. t.qty \in Nat \ {0} /\ t.qty <= front["BID"].qty /\ t.qty <= front["ASK"].qty
    BY <1>7, <2>1, LesserOK
  <2> QED BY <1>2, <2>2, Zenon
<1>9. t.buyer # t.seller /\ t.buyer \in 1 .. Len(placed) /\ t.seller \in 1 .. Len(placed)
  <2>1. front["BID"].id # front["ASK"].id
    BY <1>2, <1>4, <1>6
  <2> QED BY <1>2, <1>5, <1>7, <2>1, Zenon
<1>10. /\ phase = "cross" /\ Report(t) /\ book' = execute_top_cross(book)
       /\ remaining' = IF me.id \in {t.buyer, t.seller} THEN remaining - t.qty ELSE remaining
       /\ phase' = "cross" /\ incoming' = me /\ placed' = placed
  BY Zenon DEF Cross
<1>11. me.id \in {t.buyer, t.seller} /\ remaining' = remaining - t.qty
  BY <1>1, <1>2, <1>7, <1>10
<1>12. /\ filled' \in Seq(Nat) /\ Len(filled') = Len(filled)
       /\ \A i \in 1 .. Len(placed) :
              /\ filled[i] \in Nat
              /\ filled'[i] = IF i \in {t.buyer, t.seller} THEN filled[i] + t.qty ELSE filled[i]
  BY <1>8, <1>9, <1>10, ReportOK, Zenon DEF Noted
<1>13. \A s \in Side : \A p \in Resting(s) :
           /\ p.id \notin {t.buyer, t.seller} => Accounted(s, p)'
           /\ p.id \in {t.buyer, t.seller} => Accounted(s, FillOrder(p, t.qty))'
  BY <1>8, <1>9, <1>10, TradeAccount, Zenon DEF Reduced
<1>14. /\ BookExact(book')
       /\ \A s \in Side : Resting(s)' = Left(Resting(s), front[s], t.qty)
  <2>1. /\ BookExact(book')
        /\ RestingOn(book'.bids) = Left(RestingOn(book.bids), FrontOrder(book.bids), t.qty)
        /\ RestingOn(book'.asks) = Left(RestingOn(book.asks), FrontOrder(book.asks), t.qty)
    BY <1>1, <1>3, <1>10, CrossExact, Zenon
  <2>2. Levels(book', "BID") = book'.bids /\ Levels(book', "ASK") = book'.asks
    BY Zenon DEF Levels
  <2>3. Resting("BID")' = Left(Resting("BID"), front["BID"], t.qty)
    BY <1>3, <2>1, <2>2, Zenon DEF Resting
  <2>4. Resting("ASK")' = Left(Resting("ASK"), front["ASK"], t.qty)
    BY <1>3, <2>1, <2>2, Zenon DEF Resting
  <2> QED BY <1>2, <2>1, <2>3, <2>4, Zenon
<1>15. ASSUME NEW s \in Side, NEW p \in Resting(s)'
       PROVE  \/ p \in Resting(s) /\ p.id \notin {t.buyer, t.seller}
              \/ /\ p = FillOrder(front[s], t.qty) /\ p.id = front[s].id
                 /\ front[s].qty # t.qty
  <2>1. \/ p \in Resting(s) /\ p # front[s]
        \/ p = FillOrder(front[s], t.qty) /\ front[s].qty # t.qty
    BY <1>14 DEF Left
  <2>2. CASE p \in Resting(s) /\ p # front[s]
    BY <1>2, <1>6, <1>7, <2>2
  <2>3. CASE p = FillOrder(front[s], t.qty) /\ front[s].qty # t.qty
    BY <1>4, <2>3 DEF FillOrder, Order
  <2> QED BY <2>1, <2>2, <2>3, Zenon
<1>16. \A s \in Side : \A p \in Resting(s)' : Accounted(s, p)'
  <2> SUFFICES ASSUME NEW s \in Side, NEW p \in Resting(s)' PROVE Accounted(s, p)'
    BY Zenon
  <2>1. CASE p \in Resting(s) /\ p.id \notin {t.buyer, t.seller}
    BY <1>13, <2>1, Zenon
  <2>2. CASE p = FillOrder(front[s], t.qty)
    <3>1. front[s] \in Resting(s) /\ front[s].id \in {t.buyer, t.seller}
      BY <1>2, <1>4, <1>7, Zenon
    <3> QED BY <1>13, <2>2, <3>1, Zenon
  <2> QED BY <1>15, <2>1, <2>2, Zenon
<1>17. \A i \in 1 .. Len(placed) : filled'[i] <= placed[i].qty
  <2> SUFFICES ASSUME NEW i \in 1 .. Len(placed) PROVE filled'[i] <= placed[i].qty
    BY Zenon
  <2>1. ASSUME NEW s \in Side, i = front[s].id
        PROVE  filled'[i] <= placed[i].qty
    <3>1. i \in {t.buyer, t.seller}
      BY <1>2, <1>7, <2>1, Zenon
    <3>2. filled'[i] = filled[i] + t.qty /\ filled[i] \in Nat
      BY <1>12, <3>1, Zenon
    <3>3. front[s].qty + filled[i] = placed[i].qty /\ front[s].qty \in Nat
      BY <1>5, <2>1, Zenon
    <3> QED BY <1>8, <3>2, <3>3
  <2>2. CASE i \notin {t.buyer, t.seller}
    BY <1>12, <2>2, Zenon DEF Account
  <2> QED BY <1>2, <1>7, <2>1, <2>2, Zenon
<1>18. me.id \in 1 .. Len(placed) /\ placed[me.id] = me /\ remaining + filled[me.id] = me.qty
       /\ me.type = "LIMIT"
  BY <1>10, Zenon DEF Account
<1>19. remaining' + filled'[me.id] = me.qty
  <2>1. filled'[me.id] = filled[me.id] + t.qty /\ filled[me.id] \in Nat
    BY <1>11, <1>12, <1>18, Zenon
  <2> QED BY <1>1, <1>8, <1>11, <1>18, <2>1
<1>20. remaining' = 0 <=> front[side].qty = t.qty
  BY <1>1, <1>8, <1>11
<1>21. front[side].qty = t.qty => me.id \notin DOMAIN book'.loc
  <2> SUFFICES ASSUME front[side].qty = t.qty, me.id \in DOMAIN book'.loc PROVE FALSE
    BY Zenon
  <2>1. PICK s \in Side : \E p \in Resting(s)' : p.id = me.id
    BY <1>14, Zenon DEF BookExact, LocExact, Resting
  <2>2. PICK p \in Resting(s)' : p.id = me.id
    BY <2>1, Zenon
  <2>3. p.id = front[s].id /\ front[s].qty # t.qty
    BY <1>11, <1>15, <2>2, Zenon
  <2>4. s = side
    BY <1>1, <1>4, <1>6, <2>2, <2>3
  <2> QED BY <2>3, <2>4, Zenon
<1>22. front[side].qty # t.qty => me.id \in DOMAIN book'.loc
  <2> SUFFICES ASSUME front[side].qty # t.qty PROVE me.id \in DOMAIN book'.loc
    OBVIOUS
  <2>1. PICK p : p = FillOrder(front[side], t.qty)
    BY Zenon
  <2>2. p \in Resting(side)'
    BY <1>1, <1>14, <2>1, Zenon DEF Left
  <2>3. p.id = me.id
    <3>1. front[side] \in Order /\ front[side].id = me.id
      BY <1>1, <1>4, Zenon
    <3> QED BY <2>1, <3>1 DEF FillOrder, Order
  <2>4. p \in RestingOn(Levels(book', side))
    BY <2>2, Zenon DEF Resting
  <2>5. p.id \in DOMAIN book'.loc
    BY <1>1, <1>14, <2>4, RestingIsTyped, Zenon
  <2> QED BY <2>3, <2>5, Zenon
<1> QED BY <1>10, <1>12, <1>14, <1>16, <1>17, <1>18, <1>19, <1>20, <1>21, <1>22, Zenon DEF Account

(* Every step keeps the account. *)
LEMMA NextAccount ==
  ASSUME WellOrdered
  PROVE  IInv /\ Account /\ [Next]_vars => Account'
<1> SUFFICES ASSUME IInv, Account, [Next]_vars PROVE Account'
  OBVIOUS
<1>1. ASSUME NEW side \in Side, NEW qty \in Quantity, NEW price \in Price,
             Limit(side, price, qty)
      PROVE  Account'
  BY <1>1, LimitAccount
<1>2. ASSUME NEW side \in Side, NEW qty \in Quantity, Market(side, qty)
      PROVE  Account'
  BY <1>2, MarketAccount
<1>3. CASE Cross
  BY <1>3, CrossAccount, Zenon
<1>4. CASE CrossDone \/ MarketDone
  <2>1. phase' = "idle" /\ UNCHANGED <<book, placed, filled>>
    BY <1>4 DEF CrossDone, MarketDone
  <2> QED BY <2>1 DEF Account, Resting, Accounted
<1>5. CASE Take
  BY <1>5, TakeAccount
<1>6. ASSUME NEW id \in 1 .. MaxOrders, Cancel(id)
      PROVE  Account'
  BY <1>6, CancelAccount, Zenon
<1>7. CASE UNCHANGED vars
  BY <1>7 DEF vars, Account, Resting, Accounted
<1> QED BY <1>1, <1>2, <1>3, <1>4, <1>5, <1>6, <1>7, Zenon DEF Next

(* A side's front order is the first of its side, and no other rests under its
   id. *)
LEMMA FrontInPriority ==
  ASSUME Account, NEW side \in Side, Levels(book, side) # <<>>
  PROVE  LET front == FrontOrder(Levels(book, side))
         IN  /\ front \in Order /\ front.price = Levels(book, side)[1].price
             /\ placed[front.id].type = "LIMIT" /\ placed[front.id].price = front.price
             /\ \A s \in Side : \A o, other \in Resting(s) :
                  o.id = front.id => other = o \/ Before(s, o, other)
<1> PICK front : front = FrontOrder(Levels(book, side))
  BY Zenon
<1>1. BookExact(book) /\ SideOK(side, Levels(book, side)) /\ SideExact(Levels(book, side))
  BY Zenon DEF Account, BookExact, BookOK
<1>2. /\ front \in Resting(side) /\ front \in Order /\ front.price = Levels(book, side)[1].price
      /\ \A o \in Resting(side) :
           \/ o = front \/ Ahead(side, front.price, o.price)
           \/ o.price = front.price /\ front.id < o.id
  BY <1>1, FrontIsFirst, FrontOrderOK, Zenon DEF Resting
<1>3. placed[front.id].type = "LIMIT" /\ placed[front.id].price = front.price
  BY <1>2, Zenon DEF Account, Accounted
<1>4. ASSUME NEW s \in Side, NEW o \in Resting(s), NEW other \in Resting(s), o.id = front.id
      PROVE  other = o \/ Before(s, o, other)
  <2>1. o = front /\ s = side
    BY <1>1, <1>2, <1>4, UniqueIds DEF Resting
  <2> QED BY <1>2, <2>1, Zenon DEF Before
<1> QED BY <1>2, <1>3, <1>4

(* The two sides trade front against front, at a price within both limits. *)
LEMMA CrossInPriority ==
  ASSUME IInv, Account, Cross
  PROVE  WithinLimits(CrossTrade(book)) /\ InPriority(CrossTrade(book))
<1> PICK t : t = CrossTrade(book)
  BY Zenon
<1> PICK bid : bid = FrontOrder(book.bids)
  BY Zenon
<1> PICK ask : ask = FrontOrder(book.asks)
  BY Zenon
<1>1. t.buyer = bid.id /\ t.seller = ask.id /\ t.price = ask.price
  BY Zenon DEF CrossTrade
<1>2. book.bids # <<>> /\ book.asks # <<>> /\ is_crossed(book)
  BY DEF Cross, is_crossed
<1>3. "BID" \in Side /\ "ASK" \in Side /\ Levels(book, "BID") = book.bids
      /\ Levels(book, "ASK") = book.asks
  BY Zenon DEF Side, Levels
<1>4. /\ bid \in Order /\ bid.price = book.bids[1].price /\ placed[bid.id].price = bid.price
      /\ \A s \in Side : \A o, other \in Resting(s) :
           o.id = bid.id => other = o \/ Before(s, o, other)
  BY <1>2, <1>3, FrontInPriority, Zenon
<1>5. /\ ask \in Order /\ ask.price = book.asks[1].price /\ placed[ask.id].price = ask.price
      /\ \A s \in Side : \A o, other \in Resting(s) :
           o.id = ask.id => other = o \/ Before(s, o, other)
  BY <1>2, <1>3, FrontInPriority, Zenon
<1>6. bid.price >= ask.price
  <2>1. book.bids \in Seq(Level) /\ book.asks \in Seq(Level)
    BY Zenon DEF IInv, TypeOK
  <2>2. Head(book.bids) = book.bids[1] /\ Head(book.asks) = book.asks[1]
    BY <1>2, <2>1
  <2> QED BY <1>2, <1>4, <1>5, <2>2, Zenon DEF is_crossed
<1>7. ask.price \in Int
  BY <1>5, Zenon DEF Order
<1>8. WithinLimits(t)
  BY <1>1, <1>4, <1>5, <1>6, <1>7 DEF WithinLimits
<1>9. InPriority(t)
  BY <1>1, <1>4, <1>5, Zenon DEF InPriority
<1> QED BY <1>8, <1>9

(* A market order trades with the order first in the queue of the best price. *)
LEMMA TakeInPriority ==
  ASSUME IInv, Account, Take
  PROVE  LET t == MarketTrade(book, incoming.id, incoming.side, remaining)
         IN  WithinLimits(t) /\ InPriority(t)
<1> PICK t : t = MarketTrade(book, incoming.id, incoming.side, remaining)
  BY Zenon
<1> PICK side : side = Opposite(incoming.side)
  BY Zenon
<1> PICK front : front = FrontOrder(Levels(book, side))
  BY Zenon
<1>1. phase = "market" /\ Levels(book, side) # <<>> /\ side \in Side
  BY Zenon DEF Take, Side, Opposite
<1>2. placed[incoming.id].type = "MARKET"
  BY <1>1, Zenon DEF Account
<1>3. {t.buyer, t.seller} = {incoming.id, front.id} /\ t.price = front.price
  BY Zenon DEF MarketTrade
<1>4. /\ front \in Order /\ placed[front.id].price = front.price
      /\ \A s \in Side : \A o, other \in Resting(s) :
           o.id = front.id => other = o \/ Before(s, o, other)
  BY <1>1, FrontInPriority, Zenon
<1>5. \A s \in Side : \A o \in Resting(s) : o.id # incoming.id
  <2> SUFFICES ASSUME NEW s \in Side, NEW o \in Resting(s), o.id = incoming.id PROVE FALSE
    BY Zenon
  <2>1. Accounted(s, o)
    BY Zenon DEF Account
  <2> QED BY <1>2, <2>1 DEF Accounted
<1>6. front.price \in Int
  BY <1>4, Zenon DEF Order
<1>7. \/ t.buyer = incoming.id /\ t.seller = front.id
      \/ t.buyer = front.id /\ t.seller = incoming.id
  BY Zenon DEF MarketTrade
<1>8. WithinLimits(t)
  <2>1. front.price <= front.price /\ front.price >= front.price /\ "MARKET" # "LIMIT"
    BY <1>6
  <2>2. t.price = front.price /\ placed[front.id].price = front.price
    BY <1>3, <1>4, Zenon
  <2> QED BY <1>2, <1>7, <2>1, <2>2, Zenon DEF WithinLimits
<1>9. InPriority(t)
  BY <1>3, <1>4, <1>5 DEF InPriority
<1> QED BY <1>8, <1>9

-----------------------------------------------------------------------------
(* The theorems.  What was assumed above of the numbers is in the library. *)
INSTANCE WellFoundedInduction

(* Every set of numbers has a least one. *)
LEMMA NatWellOrdered == WellOrdered
<1> SUFFICES ASSUME NEW T \in SUBSET Nat, T # {} PROVE \E i \in T : \A j \in T : i <= j
  BY DEF WellOrdered
<1> DEFINE Less == {ss \in Nat \X Nat : ss[1] < ss[2]}
<1>1. IsWellFoundedOn(Less, Nat)
  BY NatLessThanWellFounded, Zenon DEF OpToRel
<1> HIDE DEF Less
<1>2. \E i \in T : \A j \in T : ~(<<j, i>> \in Less)
  BY <1>1, WFMin, Zenon
<1>3. \A i, j \in Nat : ~(<<j, i>> \in Less) => i <= j
  BY DEF Less
<1> QED BY <1>2, <1>3, Zenon

(* The invariant holds throughout. *)
LEMMA AlwaysIInv == Spec => []IInv
<1>1. IInv /\ [Next]_vars => IInv'
  BY NextIInv, NatWellOrdered
<1> QED BY <1>1, InitIInv, PTL DEF Spec

(* The book and the locals of processOrder keep their types: no order rests
   and no trade is reported with quantity 0, and remaining, an unsigned
   number, is never decremented below 0. *)
THEOREM TypeCorrect == Spec => []TypeOK
<1>1. IInv => TypeOK
  BY Zenon DEF IInv
<1> QED BY <1>1, AlwaysIInv, PTL

(* Both sides of the book are strictly in price order after every step of
   addOrder, cancelOrder, execute_top_cross and match_market. *)
THEOREM AlwaysSorted == Spec => []BookSorted
<1>1. IInv => BookSorted
  <2> SUFFICES ASSUME IInv PROVE BookSorted
    BY Zenon
  <2>1. SideOK("BID", book.bids) /\ SideOK("ASK", book.asks)
    BY BothSides, Zenon DEF IInv, Side
  <2> QED BY <2>1 DEF BookSorted, SideOK
<1> QED BY <1>1, AlwaysIInv, PTL

(* processOrder always leaves an uncrossed book, although its loop also stops
   when the incoming order is used up. *)
THEOREM NeverLeftCrossed == Spec => []UncrossedWhenIdle
<1>1. IInv => UncrossedWhenIdle
  BY IInvBook, CrossedOrApart, Zenon DEF IInv, UncrossedWhenIdle
<1> QED BY <1>1, AlwaysIInv, PTL

(* The account is exact throughout. *)
LEMMA AlwaysAccount == Spec => [](IInv /\ Account)
<1>1. Init => IInv /\ Account
  BY InitIInv, InitAccount, Zenon
<1>2. IInv /\ Account /\ [Next]_vars => (IInv /\ Account)'
  BY NextIInv, NextAccount, NatWellOrdered, Zenon
<1> QED BY <1>1, <1>2, PTL DEF Spec

(* The running totals, the price order and order_loc_ agree with the orders in
   every turn of the loops: every resting order, and nothing else, can be found
   by cancelOrder. *)
THEOREM IndexesStayExact == Spec => []IndexesExact
<1>1. IInv /\ Account => IndexesExact
  BY ExactIsConsistent, NatWellOrdered, Zenon DEF Account, IndexesExact
<1> QED BY <1>1, AlwaysAccount, PTL

(* What rests is what was placed less what was filled, no order is filled beyond
   its size, and remaining is what the book holds of the incoming limit order. *)
THEOREM NothingCreatedOrLost == Spec => []Conserved
<1>1. IInv /\ Account => Conserved
  <2> SUFFICES ASSUME IInv, Account PROVE Conserved
    BY Zenon
  <2>1. ASSUME NEW side \in Side, NEW o \in Resting(side)
        PROVE  o.qty > 0 /\ o.qty + filled[o.id] = placed[o.id].qty
    <3>1. o \in Order
      BY RestingIsTyped, Zenon DEF Account, Resting
    <3>2. o.qty \in Nat \ {0}
      BY <3>1, Zenon DEF Order
    <3> QED BY <3>2 DEF Account, Accounted
  <2>2. \A o \in Resting("BID") \cup Resting("ASK") :
          o.qty > 0 /\ o.qty + filled[o.id] = placed[o.id].qty
    BY <2>1 DEF Side
  <2> QED BY <2>2, Zenon DEF Account, Conserved
<1> QED BY <1>1, AlwaysAccount, PTL

(* Every order that execute_top_cross or match_market takes from the book is the
   first of its side in price and then in time, and no trade is outside the
   limit of either party. *)
THEOREM PriorityKept == Spec => PriceTimePriority
<1>1. IInv /\ Account /\ [Next]_vars =>
        [trade_log' # trade_log =>
           LET t == trade_log'[Len(trade_log')] IN WithinLimits(t) /\ InPriority(t)]_vars
  <2> SUFFICES ASSUME IInv, Account, Next, trade_log' # trade_log
               PROVE  LET t == trade_log'[Len(trade_log')] IN WithinLimits(t) /\ InPriority(t)
    BY DEF vars
  <2>1. ASSUME NEW t, trade_log' = Append(trade_log, t)
        PROVE  trade_log'[Len(trade_log')] = t
    <3>1. trade_log \in Seq(Trade)
      BY DEF IInv, TypeOK
    <3> QED BY <2>1, <3>1
  <2>2. CASE Cross
    <3> PICK t : t = CrossTrade(book)
      BY Zenon
    <3>1. trade_log' = Append(trade_log, t)
      BY <2>2, Zenon DEF Cross, Report
    <3> QED BY <2>1, <2>2, <3>1, CrossInPriority, Zenon
  <2>3. CASE Take
    <3> PICK t : t = MarketTrade(book, incoming.id, incoming.side, remaining)
      BY Zenon
    <3>1. trade_log' = Append(trade_log, t)
      BY <2>3, Zenon DEF Take, Report
    <3> QED BY <2>1, <2>3, <3>1, TakeInPriority, Zenon
  <2>4. Cross \/ Take
    BY DEF Next, Limit, Market, CrossDone, MarketDone, Cancel
  <2> QED BY <2>2, <2>3, <2>4, Zenon
<1> QED BY <1>1, AlwaysAccount, PTL DEF Spec, PriceTimePriority
=============================================================================
