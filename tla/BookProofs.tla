----------------------------- MODULE BookProofs -----------------------------
(***************************************************************************)
(* Lemmas on the sides of a book, for every set of prices and quantities   *)
(* and any number of orders.  First what the operations of OrderBook do to *)
(* the price order of a side (SideOK) and to the two fronts (Apart), and   *)
(* from this the first invariant of processOrder, IInv: what can trade.    *)
(* Then what they do to the totals and the time order of the levels        *)
(* (SideExact) and to the set of orders that rest on a side.               *)
(*                                                                         *)
(* That the book is uncrossed whenever the engine is idle is not inductive *)
(* by itself: in the cross loop the book may be crossed.  What the loop    *)
(* keeps is that only the incoming order can cross, and that it is alone   *)
(* in the front level of its side (OnlyOneCrosses); so when it is used up  *)
(* the book is uncrossed.                                                  *)
(***************************************************************************)
EXTENDS MatchingEngine, TLAPS

(* Every set of numbers has a least one.  The lemmas that look for the first of
   something, or go through a sequence step by step, assume it by name: the
   library's theorems on well-founded orders, from which it follows, are only
   brought in where the theorems are (MatchingEngineProofs). *)
WellOrdered == \A T \in SUBSET Nat : T # {} => \E i \in T : \A j \in T : i <= j

(* Sequences: what is used of them below.  (The library's theorems on sequences
   say more, and every obligation would carry all of it.) *)
LEMMA SeqLen ==
  ASSUME NEW S, NEW s \in Seq(S)
  PROVE  Len(s) \in Nat /\ DOMAIN s = 1 .. Len(s)
OBVIOUS

(* Sequences: the empty one. *)
LEMMA SeqEmpty ==
  ASSUME NEW S
  PROVE  <<>> \in Seq(S) /\ Len(<<>>) = 0 /\ \A s \in Seq(S) : s # <<>> => Len(s) \in Nat \ {0}
OBVIOUS

(* An element is of the sequence's type. *)
LEMMA SeqElement ==
  ASSUME NEW S, NEW s \in Seq(S), NEW i \in 1 .. Len(s)
  PROVE  s[i] \in S
OBVIOUS

(* One element is replaced. *)
LEMMA SeqExcept ==
  ASSUME NEW S, NEW s \in Seq(S), NEW k \in 1 .. Len(s), NEW x \in S
  PROVE  LET new == [s EXCEPT ![k] = x]
         IN  /\ new \in Seq(S) /\ Len(new) = Len(s)
             /\ \A i \in 1 .. Len(s) : new[i] = IF i = k THEN x ELSE s[i]
OBVIOUS

(* One more element at the end. *)
LEMMA SeqAppend ==
  ASSUME NEW S, NEW s \in Seq(S), NEW x \in S
  PROVE  LET new == Append(s, x)
         IN  /\ new \in Seq(S) /\ Len(new) = Len(s) + 1
             /\ \A i \in 1 .. Len(s) : new[i] = s[i]
             /\ new[Len(s) + 1] = x
OBVIOUS

(* Two sequences end to end. *)
LEMMA SeqConcat ==
  ASSUME NEW S, NEW s \in Seq(S), NEW t \in Seq(S)
  PROVE  /\ s \o t \in Seq(S) /\ Len(s \o t) = Len(s) + Len(t)
         /\ \A i \in 1 .. Len(s) + Len(t) :
              (s \o t)[i] = IF i <= Len(s) THEN s[i] ELSE t[i - Len(s)]
OBVIOUS

(* A section of a sequence. *)
LEMMA SeqSub ==
  ASSUME NEW S, NEW s \in Seq(S), NEW m \in 1 .. Len(s) + 1, NEW n \in m - 1 .. Len(s)
  PROVE  LET sub == SubSeq(s, m, n)
         IN  /\ sub \in Seq(S) /\ Len(sub) = n - m + 1
             /\ \A i \in 1 .. n - m + 1 : sub[i] = s[m + i - 1]
OBVIOUS

(* new is s with its i-th element gone, or with e put before it. *)
Erased(new, s, i) ==
  /\ Len(new) = Len(s) - 1
  /\ \A k \in 1 .. Len(s) - 1 : new[k] = IF k < i THEN s[k] ELSE s[k + 1]
Inserted(new, s, i, e) ==
  /\ Len(new) = Len(s) + 1
  /\ \A k \in 1 .. Len(s) + 1 :
       new[k] = IF k < i THEN s[k] ELSE IF k = i THEN e ELSE s[k - 1]

(* All but the first element. *)
LEMMA SeqTail ==
  ASSUME NEW S, NEW s \in Seq(S), s # <<>>
  PROVE  Tail(s) \in Seq(S) /\ Erased(Tail(s), s, 1)
<1>1. /\ Tail(s) \in Seq(S) /\ Len(Tail(s)) = Len(s) - 1
      /\ \A i \in 1 .. Len(s) - 1 : Tail(s)[i] = s[i + 1]
  OBVIOUS
<1>2. \A k \in 1 .. Len(s) - 1 : ~(k < 1)
  BY SeqLen
<1> QED BY <1>1, <1>2, Zenon DEF Erased
-----------------------------------------------------------------------------

(* A side of the book: typed levels, none empty, in price order. *)
SideOK(side, levels) ==
  /\ levels \in Seq(Level)
  /\ \A i \in 1 .. Len(levels) : levels[i].orders # <<>>
  /\ \A i \in 1 .. Len(levels) : \A k \in 1 .. Len(levels[i].orders) :
       levels[i].orders[k].price = levels[i].price
  /\ Sorted(side, levels)

(* A level of one side at p and one of the other at q can trade. *)
Meets(side, p, q) == IF side = "BID" THEN p >= q ELSE p <= q

(* The front of a side, without its first n levels, does not meet the front
   of the other side. *)
Apart(side, own, other, n) ==
  Len(own) > n /\ other # <<>> => ~Meets(side, own[n + 1].price, other[1].price)

(* The order id, of which qty is left, is the only one that can cross: it is
   alone in the front level of its side. *)
OnlyOneCrosses(side, own, other, id, qty) ==
  /\ own # <<>> /\ Len(own[1].orders) = 1
  /\ own[1].orders[1].id = id /\ own[1].orders[1].qty = qty
  /\ Apart(side, own, other, 1)
-----------------------------------------------------------------------------
(* Being ahead is a strict order on prices. *)
LEMMA AheadOrder ==
  ASSUME NEW side \in Side, NEW p \in Int, NEW q \in Int, NEW r \in Int
  PROVE  /\ Ahead(side, p, q) /\ Ahead(side, q, r) => Ahead(side, p, r)
         /\ ~Ahead(side, p, p)
         /\ ~Ahead(side, p, q) => p = q \/ Ahead(side, q, p)
BY SMT DEF Ahead, Side

(* A price behind one that is not met is not met either. *)
LEMMA MeetsOrder ==
  ASSUME NEW side \in Side, NEW p \in Int, NEW q \in Int, NEW p2 \in Int, NEW q2 \in Int,
         ~Meets(side, p, q),
         p = p2 \/ Ahead(side, p, p2),
         q = q2 \/ Ahead(Opposite(side), q, q2)
  PROVE  ~Meets(side, p2, q2)
BY SMT DEF Meets, Ahead, Opposite, Side

(* The levels of a side have prices. *)
LEMMA LevelPrices ==
  ASSUME NEW side, NEW levels, SideOK(side, levels)
  PROVE  /\ levels \in Seq(Level) /\ Len(levels) \in Nat
         /\ \A i \in 1 .. Len(levels) : levels[i] \in Level /\ levels[i].price \in Int
         /\ levels # <<>> <=> Len(levels) > 0
<1>1. levels \in Seq(Level)
  BY DEF SideOK
<1>2. Len(levels) \in Nat /\ levels # <<>> <=> Len(levels) > 0
  BY <1>1, SeqLen, SeqEmpty
<1>3. \A i \in 1 .. Len(levels) : levels[i] \in Level
  BY <1>1, SeqElement
<1>4. \A l \in Level : l.price \in Int
  BY DEF Level
<1> QED BY <1>1, <1>2, <1>3, <1>4

(* Apart for the two sides is the same fact. *)
LEMMA ApartSymmetric ==
  ASSUME NEW bids, NEW asks, SideOK("BID", bids), SideOK("ASK", asks)
  PROVE  Apart("BID", bids, asks, 0) <=> Apart("ASK", asks, bids, 0)
<1>2. bids # <<>> => bids[1].price \in Int /\ Len(bids) > 0
  BY LevelPrices
<1>3. asks # <<>> => asks[1].price \in Int /\ Len(asks) > 0
  BY LevelPrices
<1>4. (Len(bids) > 0 => bids # <<>>) /\ (Len(asks) > 0 => asks # <<>>)
  BY LevelPrices
<1>5. CASE bids # <<>> /\ asks # <<>>
  <2>1. Meets("BID", bids[1].price, asks[1].price) <=> Meets("ASK", asks[1].price, bids[1].price)
    BY <1>2, <1>3, <1>5, SMT DEF Meets
  <2> QED BY <1>2, <1>3, <1>5, <2>1 DEF Apart
<1> QED BY <1>4, <1>5 DEF Apart

(* The same, for a set that is known to be one of numbers. *)
LEMMA LeastExists ==
  ASSUME WellOrdered, NEW T, T \subseteq Nat, T # {}
  PROVE  \E i \in T : \A j \in T : i <= j
  BY DEF WellOrdered

(* The order of the levels decides where lower_bound points. *)
LEMMA LowerBoundExists ==
  ASSUME WellOrdered, NEW side \in Side, NEW levels, SideOK(side, levels), NEW price \in Int
  PROVE  LET i == LowerBound(side, levels, price)
         IN  /\ i \in 1 .. Len(levels) + 1
             /\ \A j \in 1 .. Len(levels) : j < i <=> Ahead(side, levels[j].price, price)
<1> DEFINE Behind == {i \in Nat : i = Len(levels) + 1
                        \/ (i \in 1 .. Len(levels) /\ ~Ahead(side, levels[i].price, price))}
<1>1. levels \in Seq(Level) /\ Len(levels) \in Nat
  BY LevelPrices
<1>2. \A j \in 1 .. Len(levels) : levels[j].price \in Int
  BY LevelPrices
<1>3. Len(levels) + 1 \in Behind
  BY <1>1
<1>4. PICK i \in Behind : \A j \in Behind : i <= j
  <2>1. Behind \subseteq Nat /\ Behind # {}
    BY <1>3
  <2> HIDE DEF Behind
  <2> QED BY <2>1, LeastExists, Zenon
<1>5. i \in 1 .. Len(levels) + 1
  BY <1>1
<1>6. ASSUME NEW j \in 1 .. Len(levels)
      PROVE  j < i <=> Ahead(side, levels[j].price, price)
  <2>1. j < i => Ahead(side, levels[j].price, price)
    BY <1>1, <1>4
  <2>2. ASSUME j >= i PROVE ~Ahead(side, levels[j].price, price)
    <3>1. i \in 1 .. Len(levels) /\ ~Ahead(side, levels[i].price, price)
      BY <1>1, <1>5, <2>2
    <3>2. i = j \/ Ahead(side, levels[i].price, levels[j].price)
      BY <1>1, <2>2, <3>1 DEF SideOK, Sorted
    <3> QED BY <1>2, <3>1, <3>2, AheadOrder
  <2> QED BY <1>5, <2>1, <2>2
<1> QED BY <1>5, <1>6, Zenon DEF LowerBound
-----------------------------------------------------------------------------
(* What vector::insert does. *)
LEMMA InsertBeforeProperties ==
  ASSUME NEW S, NEW s \in Seq(S), NEW i \in 1 .. Len(s) + 1, NEW e \in S
  PROVE  InsertBefore(s, i, e) \in Seq(S) /\ Inserted(InsertBefore(s, i, e), s, i, e)
<1> DEFINE left == SubSeq(s, 1, i - 1)
           right == SubSeq(s, i, Len(s))
<1>1. Len(s) \in Nat /\ (\A k \in 1 .. Len(s) : s[k] \in S)
  BY SeqLen, SeqElement
<1>2. /\ left \in Seq(S) /\ Len(left) = i - 1
      /\ \A k \in 1 .. i - 1 : left[k] = s[k]
  <2>1. \A k \in 1 .. i - 1 : s[k] \in S
    BY <1>1
  <2> QED BY <1>1, <2>1, SeqSub
<1>3. /\ right \in Seq(S) /\ Len(right) = Len(s) - i + 1
      /\ \A k \in 1 .. Len(s) - i + 1 : right[k] = s[k + i - 1]
  <2>1. \A k \in i .. Len(s) : s[k] \in S
    BY <1>1
  <2> QED BY <1>1, <2>1, SeqSub
<1> DEFINE mid == <<e>>
           front == left \o mid
           all == front \o right
<1>4. mid \in Seq(S) /\ Len(mid) = 1 /\ mid[1] = e
  OBVIOUS
<1> HIDE DEF left, right, mid
<1> HIDE DEF front, all
<1>5. /\ front \in Seq(S) /\ Len(front) = i
      /\ \A k \in 1 .. i : front[k] = IF k <= i - 1 THEN left[k] ELSE mid[k - (i - 1)]
  <2>1. left \in Seq(S) /\ mid \in Seq(S)
    BY <1>2, <1>4
  <2>2. /\ front \in Seq(S) /\ Len(front) = Len(left) + Len(mid)
        /\ \A k \in 1 .. Len(left) + Len(mid) :
             front[k] = IF k <= Len(left) THEN left[k] ELSE mid[k - Len(left)]
    BY <2>1, SeqConcat, Zenon DEF front
  <2>3. Len(left) = i - 1 /\ Len(left) + Len(mid) = i
    BY <1>1, <1>2, <1>4
  <2> QED BY <2>2, <2>3, Zenon
<1>6. /\ all \in Seq(S) /\ Len(all) = Len(s) + 1
      /\ \A k \in 1 .. Len(s) + 1 : all[k] = IF k <= i THEN front[k] ELSE right[k - i]
  <2>1. front \in Seq(S) /\ right \in Seq(S)
    BY <1>3, <1>5
  <2>2. /\ all \in Seq(S) /\ Len(all) = Len(front) + Len(right)
        /\ \A k \in 1 .. Len(front) + Len(right) :
             all[k] = IF k <= Len(front) THEN front[k] ELSE right[k - Len(front)]
    BY <2>1, SeqConcat, Zenon DEF all
  <2>3. Len(front) = i /\ Len(front) + Len(right) = Len(s) + 1
    BY <1>1, <1>3, <1>5
  <2> QED BY <2>2, <2>3, Zenon
<1>8. ASSUME NEW k \in 1 .. Len(s) + 1
      PROVE  all[k] = IF k < i THEN s[k] ELSE IF k = i THEN e ELSE s[k - 1]
  <2>1. CASE k < i
    BY <1>1, <1>2, <1>5, <1>6, <2>1
  <2>2. CASE k = i
    <3>1. all[k] = front[k] /\ front[k] = mid[k - (i - 1)] /\ k - (i - 1) = 1
      BY <1>1, <1>5, <1>6, <2>2
    <3> QED BY <1>1, <1>4, <2>2, <3>1
  <2>3. CASE k > i
    <3>1. all[k] = right[k - i] /\ right[k - i] = s[(k - i) + i - 1]
      BY <1>1, <1>3, <1>6, <2>3
    <3> QED BY <1>1, <2>3, <3>1
  <2> QED BY <1>1, <2>1, <2>2, <2>3
<1>9. InsertBefore(s, i, e) = all
  BY Zenon DEF InsertBefore, left, right, mid, front, all
<1> QED BY <1>6, <1>8, <1>9, Zenon DEF Inserted

(* What vector::erase and deque::erase do. *)
LEMMA EraseAtProperties ==
  ASSUME NEW S, NEW s \in Seq(S), NEW i \in 1 .. Len(s)
  PROVE  EraseAt(s, i) \in Seq(S) /\ Erased(EraseAt(s, i), s, i)
<1> DEFINE left == SubSeq(s, 1, i - 1)
           right == SubSeq(s, i + 1, Len(s))
<1>1. Len(s) \in Nat /\ (\A k \in 1 .. Len(s) : s[k] \in S)
  BY SeqLen, SeqElement
<1>2. /\ left \in Seq(S) /\ Len(left) = i - 1
      /\ \A k \in 1 .. i - 1 : left[k] = s[k]
  <2>1. \A k \in 1 .. i - 1 : s[k] \in S
    BY <1>1
  <2> QED BY <1>1, <2>1, SeqSub
<1>3. /\ right \in Seq(S) /\ Len(right) = Len(s) - i
      /\ \A k \in 1 .. Len(s) - i : right[k] = s[k + i]
  <2>1. \A k \in i + 1 .. Len(s) : s[k] \in S
    BY <1>1
  <2> QED BY <1>1, <2>1, SeqSub
<1> HIDE DEF left, right
<1> DEFINE all == left \o right
<1> HIDE DEF all
<1>4. /\ all \in Seq(S) /\ Len(all) = Len(s) - 1
      /\ \A k \in 1 .. Len(s) - 1 : all[k] = IF k <= i - 1 THEN left[k] ELSE right[k - (i - 1)]
  <2>1. left \in Seq(S) /\ right \in Seq(S)
    BY <1>2, <1>3
  <2>2. /\ all \in Seq(S) /\ Len(all) = Len(left) + Len(right)
        /\ \A k \in 1 .. Len(left) + Len(right) :
             all[k] = IF k <= Len(left) THEN left[k] ELSE right[k - Len(left)]
    BY <2>1, SeqConcat, Zenon DEF all
  <2>3. Len(left) = i - 1 /\ Len(left) + Len(right) = Len(s) - 1
    BY <1>1, <1>2, <1>3
  <2> QED BY <2>2, <2>3, Zenon
<1>6. ASSUME NEW k \in 1 .. Len(s) - 1
      PROVE  all[k] = IF k < i THEN s[k] ELSE s[k + 1]
  <2>1. CASE k < i
    BY <1>1, <1>2, <1>4, <2>1
  <2>2. CASE k >= i
    <3>0. ~(k <= i - 1) /\ k - (i - 1) \in 1 .. Len(s) - i
      BY <1>1, <2>2
    <3>1. all[k] = right[k - (i - 1)]
      BY <1>4, <3>0
    <3>2. right[k - (i - 1)] = s[(k - (i - 1)) + i]
      BY <1>3, <3>0, Zenon
    <3>3. (k - (i - 1)) + i = k + 1
      BY <1>1
    <3> QED BY <1>1, <2>2, <3>1, <3>2, <3>3
  <2> QED BY <1>1, <2>1, <2>2
<1>7. EraseAt(s, i) = all
  BY Zenon DEF EraseAt, left, right, all
<1> QED BY <1>4, <1>6, <1>7, Zenon DEF Erased
-----------------------------------------------------------------------------
(* A level that can stand in a side. *)
LevelOK(level) ==
  /\ level \in Level /\ level.orders # <<>>
  /\ \A k \in 1 .. Len(level.orders) : level.orders[k].price = level.price

(* A side is a sequence of such levels in price order. *)
LEMMA SideOKLevels ==
  ASSUME NEW side, NEW levels
  PROVE  SideOK(side, levels) <=>
           /\ levels \in Seq(Level)
           /\ \A i \in 1 .. Len(levels) : LevelOK(levels[i])
           /\ Sorted(side, levels)
<1>1. levels \in Seq(Level) => \A i \in 1 .. Len(levels) : levels[i] \in Level
  BY SeqElement
<1> QED BY <1>1, Zenon DEF SideOK, LevelOK

(* Changing a level in place, at the same price. *)
LEMMA ReplaceLevel ==
  ASSUME NEW side \in Side, NEW levels, SideOK(side, levels),
         NEW i \in 1 .. Len(levels), NEW level, LevelOK(level), level.price = levels[i].price
  PROVE  LET new == [levels EXCEPT ![i] = level]
         IN  /\ SideOK(side, new) /\ Len(new) = Len(levels)
             /\ \A k \in 1 .. Len(levels) : new[k] = IF k = i THEN level ELSE levels[k]
             /\ new[1].price = levels[1].price
<1> DEFINE new == [levels EXCEPT ![i] = level]
<1>1. levels \in Seq(Level) /\ (\A k \in 1 .. Len(levels) : LevelOK(levels[k]))
      /\ Sorted(side, levels)
  BY SideOKLevels
<1>2. level \in Level
  BY DEF LevelOK
<1>3. new \in Seq(Level) /\ Len(new) = Len(levels)
      /\ \A k \in 1 .. Len(levels) : new[k] = IF k = i THEN level ELSE levels[k]
  BY <1>1, <1>2, SeqExcept, SeqLen
<1> HIDE DEF new
<1>4. \A k \in 1 .. Len(levels) : new[k].price = levels[k].price
  BY <1>3
<1>5. \A k \in 1 .. Len(new) : LevelOK(new[k])
  BY <1>1, <1>3
<1>6. Sorted(side, new)
  BY <1>1, <1>3, <1>4 DEF Sorted
<1>7. Len(levels) \in Nat
  BY <1>1, SeqLen
<1>8. new[1].price = levels[1].price
  BY <1>4, <1>7
<1>9. SideOK(side, new)
  BY <1>3, <1>5, <1>6, SideOKLevels
<1> QED BY <1>3, <1>8, <1>9 DEF new

(* Taking a level out: the front stays, or one behind it becomes the front. *)
LEMMA DropLevel ==
  ASSUME NEW side \in Side, NEW levels, SideOK(side, levels),
         NEW i \in 1 .. Len(levels), NEW new \in Seq(Level), Erased(new, levels, i)
  PROVE  /\ SideOK(side, new)
         /\ new # <<>> => \/ new[1].price = levels[1].price
                          \/ Ahead(side, levels[1].price, new[1].price)
<1>1. levels \in Seq(Level) /\ Len(levels) \in Nat
      /\ (\A k \in 1 .. Len(levels) : LevelOK(levels[k])) /\ Sorted(side, levels)
  BY SideOKLevels, SeqLen
<1>6. /\ Len(new) = Len(levels) - 1
      /\ \A k \in 1 .. Len(new) : new[k] = IF k < i THEN levels[k] ELSE levels[k + 1]
  BY DEF Erased
<1>2. \A k \in 1 .. Len(new) : LevelOK(new[k])
  BY <1>1, <1>6
<1>3. Sorted(side, new)
  <2> SUFFICES ASSUME NEW a \in 1 .. Len(new), NEW b \in 1 .. Len(new), a < b
               PROVE  Ahead(side, new[a].price, new[b].price)
    BY DEF Sorted
  <2>1. PICK c \in 1 .. Len(levels) : new[a] = levels[c] /\ c = IF a < i THEN a ELSE a + 1
    BY <1>1, <1>6
  <2>2. PICK d \in 1 .. Len(levels) : new[b] = levels[d] /\ d = IF b < i THEN b ELSE b + 1
    BY <1>1, <1>6
  <2>3. c < d
    BY <1>1, <2>1, <2>2
  <2> QED BY <1>1, <2>1, <2>2, <2>3, Zenon DEF Sorted
<1>4. SideOK(side, new)
  BY <1>2, <1>3, SideOKLevels
<1>5. ASSUME new # <<>>
      PROVE  new[1].price = levels[1].price \/ Ahead(side, levels[1].price, new[1].price)
  <2>1. Len(new) > 0 /\ Len(new) \in Nat
    BY <1>5, SeqEmpty
  <2>2. CASE i > 1
    BY <1>1, <1>6, <2>1, <2>2
  <2>3. CASE i = 1
    <3>1. new[1] = levels[2] /\ 2 \in 1 .. Len(levels) /\ 1 \in 1 .. Len(levels)
      BY <1>1, <1>6, <2>1, <2>3
    <3> QED BY <1>1, <3>1 DEF Sorted
  <2> QED BY <1>1, <2>2, <2>3
<1> QED BY <1>4, <1>5
-----------------------------------------------------------------------------
(* A level of one order, and a level with one more. *)
LEMMA NewLevelOK ==
  ASSUME NEW o \in Order
  PROVE  LevelOK(NewLevel(o)) /\ NewLevel(o).price = o.price
BY DEF LevelOK, NewLevel, Level, Order

(* An order joins the level of its price. *)
LEMMA JoinLevelOK ==
  ASSUME NEW level, LevelOK(level), NEW o \in Order, o.price = level.price
  PROVE  LevelOK(JoinLevel(level, o)) /\ JoinLevel(level, o).price = level.price
<1> DEFINE orders == Append(level.orders, o)
<1>1. level \in Level /\ level.orders \in Seq(Order) /\ level.total_qty \in Int
      /\ level.price \in Int
  BY DEF LevelOK, Level
<1>2. /\ orders \in Seq(Order) /\ orders # <<>> /\ Len(orders) = Len(level.orders) + 1
      /\ Len(level.orders) \in Nat
      /\ \A k \in 1 .. Len(level.orders) : orders[k] = level.orders[k]
      /\ orders[Len(level.orders) + 1] = o
  BY <1>1, SeqAppend, SeqLen, SeqEmpty
<1> HIDE DEF orders
<1>3. o.qty \in Int
  BY DEF Order
<1>4. JoinLevel(level, o) = [level EXCEPT !.total_qty = @ + o.qty, !.orders = orders]
  BY DEF JoinLevel, orders
<1>5. /\ JoinLevel(level, o) \in Level /\ JoinLevel(level, o).price = level.price
      /\ JoinLevel(level, o).orders = orders
  <2>1. orders \in Seq(Order) /\ level.total_qty + o.qty \in Int
    BY <1>1, <1>2, <1>3
  <2> QED BY <1>1, <1>4, <2>1, Zenon DEF Level
<1>6. ASSUME NEW k \in 1 .. Len(orders) PROVE orders[k].price = level.price
  <2>1. k \in 1 .. Len(level.orders) \/ k = Len(level.orders) + 1
    BY <1>2
  <2> QED BY <1>2, <2>1 DEF LevelOK
<1> QED BY <1>2, <1>5, <1>6 DEF LevelOK

(* Adding an order to a side keeps the front price, or the order becomes the
   only one of a new front level. *)
LEMMA AddToSideOK ==
  ASSUME WellOrdered, NEW side \in Side, NEW levels, SideOK(side, levels), NEW o \in Order
  PROVE  LET new == AddToSide(side, levels, o)
         IN  /\ SideOK(side, new) /\ new # <<>>
             /\ \/ levels # <<>> /\ new[1].price = levels[1].price
                \/ /\ Len(new) = Len(levels) + 1 /\ new[1] = NewLevel(o)
                   /\ \A k \in 1 .. Len(levels) : new[k + 1] = levels[k]
<1> DEFINE new == AddToSide(side, levels, o)
           i == LowerBound(side, levels, o.price)
<1>1. o.price \in Int
  BY DEF Order
<1>2. /\ i \in 1 .. Len(levels) + 1
      /\ \A j \in 1 .. Len(levels) : j < i <=> Ahead(side, levels[j].price, o.price)
  BY <1>1, LowerBoundExists, Zenon
<1>3. /\ levels \in Seq(Level) /\ Len(levels) \in Nat /\ Sorted(side, levels)
      /\ \A k \in 1 .. Len(levels) : LevelOK(levels[k]) /\ levels[k].price \in Int
  BY SideOKLevels, LevelPrices
<1>4. CASE HasLevel(levels, i, o.price)
  <2>1. i \in 1 .. Len(levels) /\ levels[i].price = o.price
    BY <1>2, <1>3, <1>4 DEF HasLevel
  <2>2. new = [levels EXCEPT ![i] = JoinLevel(levels[i], o)]
    BY <1>3, <1>4, <2>1 DEF AddToSide
  <2>3. LevelOK(JoinLevel(levels[i], o)) /\ JoinLevel(levels[i], o).price = levels[i].price
    BY <1>3, <2>1, JoinLevelOK
  <2> HIDE DEF new, i
  <2>4. SideOK(side, new) /\ Len(new) = Len(levels) /\ new[1].price = levels[1].price
    <3>1. LET r == [levels EXCEPT ![i] = JoinLevel(levels[i], o)]
          IN  SideOK(side, r) /\ Len(r) = Len(levels) /\ r[1].price = levels[1].price
      BY <2>1, <2>3, ReplaceLevel
    <3> QED BY <2>2, <3>1
  <2>5. new # <<>> /\ levels # <<>>
    BY <1>3, <2>1, <2>4, LevelPrices
  <2> QED BY <2>4, <2>5 DEF new
<1>5. CASE ~HasLevel(levels, i, o.price)
  <2>1. new = InsertBefore(levels, i, NewLevel(o))
    BY <1>5, Zenon DEF AddToSide
  <2>2. NewLevel(o) \in Level /\ LevelOK(NewLevel(o)) /\ NewLevel(o).price = o.price
    BY NewLevelOK DEF LevelOK
  <2>3. \A j \in 1 .. Len(levels) : j >= i => Ahead(side, o.price, levels[j].price)
    <3> SUFFICES ASSUME NEW j \in 1 .. Len(levels), j >= i
                 PROVE  Ahead(side, o.price, levels[j].price)
      OBVIOUS
    <3>1. i \in 1 .. Len(levels) /\ levels[i].price # o.price
      BY <1>2, <1>3, <1>5 DEF HasLevel
    <3>2. ~Ahead(side, levels[i].price, o.price)
      BY <1>2, <3>1
    <3>3. Ahead(side, o.price, levels[i].price)
      BY <1>1, <1>3, <3>1, <3>2, AheadOrder
    <3>4. i = j \/ Ahead(side, levels[i].price, levels[j].price)
      BY <1>3, <3>1 DEF Sorted
    <3> QED BY <1>1, <1>3, <3>1, <3>3, <3>4, AheadOrder
  <2>4. \A j \in 1 .. Len(levels) : j < i => Ahead(side, levels[j].price, o.price)
    BY <1>2
  <2> HIDE DEF new, i
  <2>5. /\ new \in Seq(Level) /\ Len(new) = Len(levels) + 1
        /\ \A k \in 1 .. Len(levels) + 1 :
             new[k] = IF k < i THEN levels[k] ELSE IF k = i THEN NewLevel(o) ELSE levels[k - 1]
    <3>1. new \in Seq(Level) /\ Inserted(new, levels, i, NewLevel(o))
      BY <1>2, <1>3, <2>1, <2>2, InsertBeforeProperties, Zenon
    <3> QED BY <3>1, Zenon DEF Inserted
  <2>6. \A k \in 1 .. Len(new) : LevelOK(new[k])
    <3> SUFFICES ASSUME NEW k \in 1 .. Len(new) PROVE LevelOK(new[k])
      OBVIOUS
    <3>1. CASE k < i
      <4>1. k \in 1 .. Len(levels) /\ new[k] = levels[k]
        BY <1>2, <1>3, <2>5, <3>1
      <4> QED BY <1>3, <4>1
    <3>2. CASE k = i
      BY <2>2, <2>5, <3>2
    <3>3. CASE k > i
      <4>1. k - 1 \in 1 .. Len(levels) /\ new[k] = levels[k - 1]
        BY <1>2, <1>3, <2>5, <3>3
      <4> QED BY <1>3, <4>1
    <3> QED BY <1>2, <1>3, <2>5, <3>1, <3>2, <3>3
  <2>7. Sorted(side, new)
    <3> SUFFICES ASSUME NEW a \in 1 .. Len(new), NEW b \in 1 .. Len(new), a < b
                 PROVE  Ahead(side, new[a].price, new[b].price)
      BY DEF Sorted
    <3>1. CASE b < i
      <4>1. a \in 1 .. Len(levels) /\ b \in 1 .. Len(levels) /\ new[a] = levels[a]
            /\ new[b] = levels[b]
        BY <1>2, <1>3, <2>5, <3>1
      <4> QED BY <1>3, <4>1 DEF Sorted
    <3>2. CASE b = i
      <4>1. a \in 1 .. Len(levels) /\ a < i /\ new[a] = levels[a] /\ new[b] = NewLevel(o)
        BY <1>2, <1>3, <2>5, <3>2
      <4> QED BY <2>2, <2>4, <4>1
    <3>3. CASE b > i /\ a < i
      <4>1. /\ a \in 1 .. Len(levels) /\ b - 1 \in 1 .. Len(levels) /\ a < b - 1
            /\ new[a] = levels[a] /\ new[b] = levels[b - 1]
        BY <1>2, <1>3, <2>5, <3>3
      <4> QED BY <1>3, <4>1 DEF Sorted
    <3>4. CASE b > i /\ a = i
      <4>1. b - 1 \in 1 .. Len(levels) /\ b - 1 >= i /\ new[a] = NewLevel(o)
            /\ new[b] = levels[b - 1]
        BY <1>2, <1>3, <2>5, <3>4
      <4> QED BY <2>2, <2>3, <4>1
    <3>5. CASE b > i /\ a > i
      <4>1. /\ a - 1 \in 1 .. Len(levels) /\ b - 1 \in 1 .. Len(levels) /\ a - 1 < b - 1
            /\ new[a] = levels[a - 1] /\ new[b] = levels[b - 1]
        BY <1>2, <1>3, <2>5, <3>5
      <4> QED BY <1>3, <4>1, Zenon DEF Sorted
    <3> QED BY <1>2, <1>3, <2>5, <3>1, <3>2, <3>3, <3>4, <3>5
  <2>8. SideOK(side, new) /\ new # <<>>
    <3>1. SideOK(side, new)
      BY <2>5, <2>6, <2>7, SideOKLevels
    <3> QED BY <1>3, <2>5, <3>1, LevelPrices
  <2>9. CASE i = 1
    <3>1. new[1] = NewLevel(o) /\ \A k \in 1 .. Len(levels) : new[k + 1] = levels[k]
      BY <1>3, <2>5, <2>9
    <3> QED BY <2>5, <2>8, <3>1 DEF new
  <2>10. CASE i > 1
    <3>1. new[1] = levels[1] /\ Len(levels) > 0
      BY <1>2, <1>3, <2>5, <2>10
    <3> QED BY <2>8, <3>1, LevelPrices DEF new
  <2> QED BY <1>2, <2>9, <2>10
<1> QED BY <1>4, <1>5
-----------------------------------------------------------------------------
(* The order at the front of a side. *)
LEMMA FrontOrderOK ==
  ASSUME NEW side, NEW levels, SideOK(side, levels), levels # <<>>
  PROVE  /\ FrontOrder(levels) = levels[1].orders[1] /\ FrontOrder(levels) \in Order
         /\ FrontOrder(levels).price = levels[1].price
         /\ LevelOK(levels[1]) /\ 1 \in 1 .. Len(levels)
<1>1. levels \in Seq(Level) /\ Len(levels) \in Nat \ {0} /\ LevelOK(levels[1])
      /\ Head(levels) = levels[1]
  BY SideOKLevels, SeqEmpty
<1>2. levels[1].orders \in Seq(Order) /\ levels[1].orders # <<>>
  BY <1>1 DEF LevelOK, Level
<1>3. /\ Head(levels[1].orders) = levels[1].orders[1] /\ levels[1].orders[1] \in Order
      /\ 1 \in 1 .. Len(levels[1].orders)
  <2>1. Len(levels[1].orders) \in Nat \ {0}
    BY <1>2, SeqEmpty
  <2> QED BY <1>2, <2>1, SeqElement
<1>4. levels[1].orders[1].price = levels[1].price
  BY <1>1, <1>3, Zenon DEF LevelOK
<1> QED BY <1>1, <1>3, <1>4 DEF FrontOrder

(* A fill: the side stays in order, its front stays or one behind it becomes
   the front, and a front level of one order is gone or holds the rest of it. *)
LEMMA TakeFrontOK ==
  ASSUME NEW side \in Side, NEW levels, SideOK(side, levels), levels # <<>>,
         NEW qty \in Nat \ {0}, qty <= FrontOrder(levels).qty
  PROVE  LET new == TakeFront(levels, qty)
         IN  /\ SideOK(side, new)
             /\ new # <<>> => \/ new[1].price = levels[1].price
                              \/ Ahead(side, levels[1].price, new[1].price)
             /\ Len(levels[1].orders) = 1 =>
                  IF FrontOrder(levels).qty = qty
                    THEN /\ Len(new) = Len(levels) - 1
                         /\ \A k \in 1 .. Len(levels) - 1 : new[k] = levels[k + 1]
                    ELSE /\ Len(new) = Len(levels) /\ new # <<>>
                         /\ Len(new[1].orders) = 1
                         /\ new[1].orders[1].id = FrontOrder(levels).id
                         /\ new[1].orders[1].qty = FrontOrder(levels).qty - qty
                         /\ \A k \in 2 .. Len(levels) : new[k] = levels[k]
<1> DEFINE new == TakeFront(levels, qty)
           front == FrontOrder(levels)
           orders == Head(levels).orders
           rest == FillOrder(orders[1], qty)
           left == IF front.qty = qty THEN Tail(orders) ELSE [orders EXCEPT ![1] = rest]
           level == FillLevel(levels[1], left, qty)
<1>2. levels \in Seq(Level) /\ Len(levels) \in Nat \ {0} /\ Head(levels) = levels[1]
  BY SideOKLevels, SeqEmpty
<1>1. /\ front = orders[1] /\ front \in Order /\ front.price = levels[1].price
      /\ LevelOK(levels[1]) /\ 1 \in 1 .. Len(levels) /\ orders = levels[1].orders
  BY <1>2, FrontOrderOK
<1>3. /\ levels[1] \in Level /\ orders \in Seq(Order) /\ orders # <<>>
           /\ levels[1].total_qty \in Int
      /\ Len(orders) \in Nat \ {0} /\ front.qty \in Nat
      /\ \A k \in 1 .. Len(orders) : orders[k].price = levels[1].price
  <2>1. levels[1] \in Level /\ orders \in Seq(Order) /\ orders # <<>> /\ levels[1].total_qty \in Int
    BY <1>1 DEF LevelOK, Level
  <2>2. Len(orders) \in Nat \ {0}
    BY <2>1, SeqEmpty
  <2>3. front.qty \in Nat
    BY <1>1 DEF Order
  <2> QED BY <1>1, <2>1, <2>2, <2>3 DEF LevelOK
<1>4. /\ left \in Seq(Order)
      /\ \A k \in 1 .. Len(left) : left[k].price = levels[1].price
      /\ front.qty # qty => /\ Len(left) = Len(orders) /\ left # <<>>
                            /\ left[1].id = front.id /\ left[1].qty = front.qty - qty
      /\ front.qty = qty => Len(left) = Len(orders) - 1
  <2>1. CASE front.qty = qty
    <3>1. /\ Tail(orders) \in Seq(Order) /\ Len(Tail(orders)) = Len(orders) - 1
          /\ \A k \in 1 .. Len(orders) - 1 : Tail(orders)[k] = orders[k + 1]
      BY <1>3, SeqTail DEF Erased
    <3>2. \A k \in 1 .. Len(Tail(orders)) : Tail(orders)[k].price = levels[1].price
      BY <1>3, <3>1
    <3> QED BY <2>1, <3>1, <3>2
  <2>2. CASE front.qty # qty
    <3>1. front.qty - qty \in Nat \ {0}
      BY <1>3, <2>2
    <3>2. rest \in Order /\ rest.id = front.id /\ rest.qty = front.qty - qty
          /\ rest.price = front.price
      BY <1>1, <3>1, Zenon DEF Order, FillOrder
    <3> HIDE DEF rest, front, orders
    <3>3. LET l == [orders EXCEPT ![1] = rest]
          IN  /\ l \in Seq(Order) /\ Len(l) = Len(orders)
              /\ \A k \in 1 .. Len(orders) : l[k] = IF k = 1 THEN rest ELSE orders[k]
      BY <1>3, <3>2, SeqExcept, SeqLen
    <3>4. left = [orders EXCEPT ![1] = rest]
      BY <2>2
    <3> HIDE DEF left
    <3>5. /\ left \in Seq(Order) /\ Len(left) = Len(orders)
          /\ \A k \in 1 .. Len(orders) : left[k] = IF k = 1 THEN rest ELSE orders[k]
      BY <3>3, <3>4
    <3>6. left[1] = rest /\ left # <<>>
      BY <1>3, <3>5, SeqEmpty
    <3>7. \A k \in 1 .. Len(left) : left[k].price = levels[1].price
      BY <1>1, <1>3, <3>2, <3>5
    <3> QED BY <2>2, <3>2, <3>5, <3>6, <3>7
  <2> QED BY <2>1, <2>2, Zenon
<1>5. new = IF left = <<>> THEN Tail(levels) ELSE [levels EXCEPT ![1] = level]
  BY Zenon DEF TakeFront
<1> HIDE DEF new, left, front, orders, rest
<1>6. level \in Level /\ level.orders = left /\ level.price = levels[1].price
  <2>1. levels[1].total_qty - qty \in Int
    BY <1>3
  <2> QED BY <1>3, <1>4, <2>1, Zenon DEF Level, FillLevel
<1> HIDE DEF level
<1>7. CASE left = <<>>
  <2>1. new = Tail(levels)
    BY <1>5, <1>7
  <2>3. new \in Seq(Level) /\ Erased(new, levels, 1)
    BY <1>2, <2>1, SeqTail, Zenon
  <2>2. Len(new) = Len(levels) - 1 /\ \A k \in 1 .. Len(levels) - 1 : new[k] = levels[k + 1]
    BY <1>2, <2>3 DEF Erased
  <2>4. /\ SideOK(side, new)
        /\ new # <<>> => \/ new[1].price = levels[1].price
                         \/ Ahead(side, levels[1].price, new[1].price)
    BY <1>1, <2>3, DropLevel, Zenon
  <2>5. front.qty = qty
    BY <1>4, <1>7, Zenon
  <2> QED BY <2>2, <2>4, <2>5 DEF new, front
<1>8. CASE left # <<>>
  <2>1. new = [levels EXCEPT ![1] = level]
    BY <1>5, <1>8
  <2>2. LevelOK(level)
    BY <1>4, <1>6, <1>8 DEF LevelOK
  <2>3. /\ SideOK(side, new) /\ Len(new) = Len(levels)
        /\ \A k \in 1 .. Len(levels) : new[k] = IF k = 1 THEN level ELSE levels[k]
        /\ new[1].price = levels[1].price
    <3>1. LET r == [levels EXCEPT ![1] = level]
          IN  /\ SideOK(side, r) /\ Len(r) = Len(levels)
              /\ \A k \in 1 .. Len(levels) : r[k] = IF k = 1 THEN level ELSE levels[k]
              /\ r[1].price = levels[1].price
      BY <1>1, <1>6, <2>2, ReplaceLevel
    <3> QED BY <2>1, <3>1
  <2>4. ASSUME Len(orders) = 1
        PROVE  /\ front.qty # qty /\ new # <<>> /\ Len(new[1].orders) = 1
               /\ new[1].orders[1].id = front.id /\ new[1].orders[1].qty = front.qty - qty
               /\ \A k \in 2 .. Len(levels) : new[k] = levels[k]
    <3>1. front.qty # qty
      <4>1. Len(left) > 0
        BY <1>4, <1>8, SeqEmpty
      <4> QED BY <1>4, <2>4, <4>1
    <3>2. new[1] = level /\ (\A k \in 2 .. Len(levels) : new[k] = levels[k])
      BY <1>2, <2>3
    <3>3. new # <<>>
      BY <1>2, <2>3, LevelPrices
    <3> QED BY <1>4, <1>6, <2>4, <3>1, <3>2, <3>3
  <2> QED BY <1>1, <2>3, <2>4 DEF new, front
<1> QED BY <1>7, <1>8
-----------------------------------------------------------------------------
(* The search finds an order exactly when there is one, and then one with the
   id asked for. *)
LEMMA IndexOfOK ==
  ASSUME WellOrdered, NEW orders, NEW id, Len(orders) \in Nat
  PROVE  /\ IndexOf(orders, id) # 0 => /\ IndexOf(orders, id) \in 1 .. Len(orders)
                                      /\ orders[IndexOf(orders, id)].id = id
         /\ \A k \in 1 .. Len(orders) : orders[k].id = id => IndexOf(orders, id) # 0
<1> DEFINE I == {i \in 1 .. Len(orders) : orders[i].id = id}
           least == CHOOSE k \in I : \A j \in I : k <= j
<1>1. IndexOf(orders, id) = IF I = {} THEN 0 ELSE least
  BY Zenon DEF IndexOf
<1>2. I \subseteq Nat
  OBVIOUS
<1>3. \A i \in I : i \in 1 .. Len(orders) /\ i # 0 /\ orders[i].id = id
  OBVIOUS
<1>4. \A k \in 1 .. Len(orders) : orders[k].id = id => I # {}
  OBVIOUS
<1> HIDE DEF I
<1>5. I # {} => least \in I
  <2>1. I # {} => \E i \in I : \A j \in I : i <= j
    BY <1>2, LeastExists, Zenon
  <2> QED BY <2>1
<1> QED BY <1>1, <1>3, <1>4, <1>5, Zenon

(* Removing an order keeps a side in order, and the front stays or one behind
   it becomes the front. *)
LEMMA RemoveFromSideOK ==
  ASSUME WellOrdered, NEW side \in Side, NEW levels, SideOK(side, levels),
         NEW i \in 1 .. Len(levels), NEW id, IndexOf(levels[i].orders, id) # 0
  PROVE  LET new == RemoveFromSide(levels, i, id)
         IN  /\ SideOK(side, new)
             /\ new # <<>> => \/ new[1].price = levels[1].price
                              \/ Ahead(side, levels[1].price, new[1].price)
<1> DEFINE new == RemoveFromSide(levels, i, id)
           orders == levels[i].orders
           k == IndexOf(orders, id)
           level == LeaveLevel(levels[i], k)
<1>1. levels \in Seq(Level) /\ LevelOK(levels[i])
  BY SideOKLevels
<1>2. levels[i] \in Level /\ orders \in Seq(Order) /\ Len(orders) \in Nat
      /\ levels[i].total_qty \in Int
  BY <1>1, SeqLen, Zenon DEF LevelOK, Level
<1>3. k \in 1 .. Len(orders)
  BY <1>2, IndexOfOK, Zenon
<1>4. orders[k].qty \in Int
  <2>1. orders[k] \in Order
    BY <1>2, <1>3, SeqElement
  <2> QED BY <2>1 DEF Order
<1> HIDE DEF k
<1>5. EraseAt(orders, k) \in Seq(Order) /\ Erased(EraseAt(orders, k), orders, k)
  BY <1>2, <1>3, EraseAtProperties, Zenon
<1>6. /\ level \in Level /\ level.price = levels[i].price
      /\ level.orders = EraseAt(orders, k)
  <2>1. level = [levels[i] EXCEPT !.total_qty = @ - orders[k].qty, !.orders = EraseAt(orders, k)]
    BY Zenon DEF LeaveLevel
  <2>2. levels[i].total_qty - orders[k].qty \in Int /\ EraseAt(orders, k) \in Seq(Order)
    BY <1>2, <1>4, <1>5
  <2> QED BY <1>2, <2>1, <2>2, Zenon DEF Level
<1>7. \A n \in 1 .. Len(level.orders) : level.orders[n].price = level.price
  <2> SUFFICES ASSUME NEW n \in 1 .. Len(level.orders)
               PROVE  level.orders[n].price = level.price
    OBVIOUS
  <2>1. \E m \in 1 .. Len(orders) : level.orders[n] = orders[m]
    <3>1. n \in 1 .. Len(orders) - 1
      BY <1>5, <1>6 DEF Erased
    <3>2. level.orders[n] = IF n < k THEN orders[n] ELSE orders[n + 1]
      BY <1>5, <1>6, <3>1, Zenon DEF Erased
    <3>3. n \in 1 .. Len(orders) /\ n + 1 \in 1 .. Len(orders)
      BY <1>2, <3>1
    <3> QED BY <3>2, <3>3
  <2> QED BY <1>1, <1>6, <2>1 DEF LevelOK
<1>8. new = IF level.orders = <<>> THEN EraseAt(levels, i) ELSE [levels EXCEPT ![i] = level]
  BY Zenon DEF RemoveFromSide, k
<1> HIDE DEF new, level
<1>9. CASE level.orders = <<>>
  <2>1. new \in Seq(Level) /\ Erased(new, levels, i)
    BY <1>1, <1>8, <1>9, EraseAtProperties, Zenon
  <2> QED BY <2>1, DropLevel, Zenon DEF new
<1>10. CASE level.orders # <<>>
  <2>1. LevelOK(level)
    BY <1>6, <1>7, <1>10 DEF LevelOK
  <2>2. LET r == [levels EXCEPT ![i] = level]
        IN  SideOK(side, r) /\ r[1].price = levels[1].price
    BY <1>6, <2>1, ReplaceLevel
  <2> QED BY <1>8, <1>10, <2>2 DEF new
<1> QED BY <1>9, <1>10
-----------------------------------------------------------------------------
(* The front of a side after a fill or a cancel. *)
NotBetter(side, old, new) ==
  new # <<>> => /\ old # <<>>
                /\ new[1].price = old[1].price \/ Ahead(side, old[1].price, new[1].price)

(* Two sides that are apart stay so when neither front gets better. *)
LEMMA StayApart ==
  ASSUME NEW side \in Side, NEW own, NEW other, NEW own2, NEW other2,
         SideOK(side, own), SideOK(Opposite(side), other),
         SideOK(side, own2), SideOK(Opposite(side), other2),
         NotBetter(side, own, own2), NotBetter(Opposite(side), other, other2),
         Apart(side, own, other, 0)
  PROVE  Apart(side, own2, other2, 0)
<1> SUFFICES ASSUME Len(own2) > 0, other2 # <<>>
             PROVE  ~Meets(side, own2[1].price, other2[1].price)
  BY DEF Apart
<1>1. own2 # <<>> /\ own # <<>> /\ other # <<>> /\ Len(own) > 0
  BY LevelPrices DEF NotBetter
<1>2. /\ own[1].price \in Int /\ own2[1].price \in Int
      /\ other[1].price \in Int /\ other2[1].price \in Int
  BY <1>1, LevelPrices
<1>3. ~Meets(side, own[1].price, other[1].price)
  BY <1>1 DEF Apart
<1> QED BY <1>1, <1>2, <1>3, MeetsOrder DEF NotBetter

(* A limit order that rests is the only one that can cross. *)
LEMMA RestingCrosses ==
  ASSUME WellOrdered, NEW side \in Side, NEW own, NEW other, NEW o \in Order,
         SideOK(side, own), SideOK(Opposite(side), other), Apart(side, own, other, 0)
  PROVE  LET new == AddToSide(side, own, o)
         IN  \/ Apart(side, new, other, 0)
             \/ /\ new # <<>> /\ new[1].orders = <<o>>
                /\ Apart(side, new, other, 1)
<1> DEFINE new == AddToSide(side, own, o)
<1>1. /\ SideOK(side, new) /\ new # <<>>
      /\ \/ own # <<>> /\ new[1].price = own[1].price
         \/ /\ Len(new) = Len(own) + 1 /\ new[1] = NewLevel(o)
            /\ \A k \in 1 .. Len(own) : new[k + 1] = own[k]
  BY AddToSideOK
<1>2. Len(own) \in Nat /\ (own # <<>> <=> Len(own) > 0)
  BY LevelPrices
<1> HIDE DEF new
<1>3. CASE own # <<>> /\ new[1].price = own[1].price
  <2>1. Apart(side, new, other, 0)
    BY <1>2, <1>3 DEF Apart
  <2> QED BY <2>1 DEF new
<1>4. CASE /\ Len(new) = Len(own) + 1 /\ new[1] = NewLevel(o)
           /\ \A k \in 1 .. Len(own) : new[k + 1] = own[k]
  <2>1. Len(new) > 1 => Len(own) > 0 /\ new[2] = own[1]
    BY <1>2, <1>4
  <2>2. Apart(side, new, other, 1)
    BY <2>1 DEF Apart
  <2>3. new[1].orders = <<o>>
    BY <1>4 DEF NewLevel
  <2> QED BY <1>1, <2>2, <2>3 DEF new
<1> QED BY <1>1, <1>3, <1>4

(* One turn of the cross loop on the side of the incoming order and the other
   one: the order is used up and the sides are apart, or what is left of it is
   still the only one that can cross. *)
LEMMA TradeCrosses ==
  ASSUME NEW side \in Side, NEW own, NEW other,
         SideOK(side, own), SideOK(Opposite(side), other), own # <<>>, other # <<>>,
         Len(own[1].orders) = 1, Apart(side, own, other, 1), NEW qty \in Nat \ {0},
         qty <= FrontOrder(own).qty, qty <= FrontOrder(other).qty
  PROVE  LET own2 == TakeFront(own, qty)
             other2 == TakeFront(other, qty)
         IN  IF FrontOrder(own).qty = qty
               THEN Apart(side, own2, other2, 0)
               ELSE /\ own2 # <<>> /\ Len(own2[1].orders) = 1
                    /\ own2[1].orders[1].id = FrontOrder(own).id
                    /\ own2[1].orders[1].qty = FrontOrder(own).qty - qty
                    /\ Apart(side, own2, other2, 1)
<1> DEFINE own2 == TakeFront(own, qty)
           other2 == TakeFront(other, qty)
<1>1. Opposite(side) \in Side
  BY DEF Opposite, Side
<1>2. SideOK(side, own2) /\ SideOK(Opposite(side), other2)
  BY <1>1, TakeFrontOK, Zenon
<1>3. other2 # <<>> => \/ other2[1].price = other[1].price
                      \/ Ahead(Opposite(side), other[1].price, other2[1].price)
  BY <1>1, TakeFrontOK, Zenon
<1>4. IF FrontOrder(own).qty = qty
        THEN /\ Len(own2) = Len(own) - 1
             /\ \A k \in 1 .. Len(own) - 1 : own2[k] = own[k + 1]
        ELSE /\ Len(own2) = Len(own) /\ own2 # <<>>
             /\ Len(own2[1].orders) = 1
             /\ own2[1].orders[1].id = FrontOrder(own).id
             /\ own2[1].orders[1].qty = FrontOrder(own).qty - qty
             /\ \A k \in 2 .. Len(own) : own2[k] = own[k]
  BY TakeFrontOK
<1>5. /\ Len(own) \in Nat \ {0} /\ (\A k \in 1 .. Len(own) : own[k].price \in Int)
      /\ other[1].price \in Int /\ (other2 # <<>> => other2[1].price \in Int)
  <2> HIDE DEF own2, other2
  <2>1. Len(own) \in Nat \ {0} /\ (\A k \in 1 .. Len(own) : own[k].price \in Int)
    BY LevelPrices
  <2>2. other[1].price \in Int
    <3>1. Len(other) \in Nat \ {0} /\ (\A k \in 1 .. Len(other) : other[k].price \in Int)
      BY <1>1, LevelPrices
    <3> QED BY <3>1
  <2>3. ASSUME other2 # <<>> PROVE other2[1].price \in Int
    <3>1. Len(other2) \in Nat \ {0} /\ (\A k \in 1 .. Len(other2) : other2[k].price \in Int)
      BY <1>2, <2>3, LevelPrices
    <3> QED BY <3>1
  <2> QED BY <2>1, <2>2, <2>3
<1> HIDE DEF own2, other2
<1>6. ASSUME Len(own) > 1, other2 # <<>>
      PROVE  ~Meets(side, own[2].price, other2[1].price)
  <2>1. ~Meets(side, own[2].price, other[1].price)
    BY <1>5, <1>6 DEF Apart
  <2>2. own[2].price \in Int
    BY <1>5, <1>6
  <2> QED BY <1>3, <1>5, <1>6, <2>1, <2>2, MeetsOrder
<1>7. CASE FrontOrder(own).qty = qty
  <2>1. Len(own2) > 0 => Len(own) > 1 /\ own2[1] = own[2]
    BY <1>4, <1>5, <1>7
  <2>2. Apart(side, own2, other2, 0)
    BY <1>6, <2>1 DEF Apart
  <2> QED BY <1>7, <2>2 DEF own2, other2
<1>8. CASE FrontOrder(own).qty # qty
  <2>1. Len(own2) > 1 => Len(own) > 1 /\ own2[2] = own[2]
    BY <1>4, <1>5, <1>8
  <2>2. Apart(side, own2, other2, 1)
    BY <1>6, <2>1 DEF Apart
  <2> QED BY <1>4, <1>8, <2>2 DEF own2, other2
<1> QED BY <1>7, <1>8
-----------------------------------------------------------------------------
LocOK(loc) == loc \in [DOMAIN loc -> [side : Side, price : Int]]

(* order_loc_ keeps its type. *)
LEMMA PutOK ==
  ASSUME NEW loc, LocOK(loc), NEW id, NEW side \in Side, NEW price \in Int
  PROVE  LocOK(Put(loc, id, [side |-> side, price |-> price]))
BY DEF LocOK, Put

(* An id leaves the index. *)
LEMMA EraseOK ==
  ASSUME NEW loc, LocOK(loc), NEW id
  PROVE  LocOK(Erase(loc, id))
BY DEF LocOK, Erase

(* What the index says after a fill. *)
LEMMA LocAfterTakeOK ==
  ASSUME NEW loc, LocOK(loc), NEW front, NEW qty
  PROVE  LocOK(LocAfterTake(loc, front, qty))
BY EraseOK DEF LocAfterTake

(* The two sides of a book, and of one with a side replaced. *)
LEMMA BothSides ==
  ASSUME NEW b
  PROVE  /\ \A side \in Side : Opposite(side) \in Side /\ Opposite(Opposite(side)) = side
         /\ Levels(b, "BID") = b.bids /\ Levels(b, "ASK") = b.asks
         /\ \A levels, loc : \A side, t \in Side :
              Levels(BookWith(b, side, levels, loc), t) = IF t = side THEN levels ELSE Levels(b, t)
         /\ \A levels, loc, side : BookWith(b, side, levels, loc).loc = loc
BY DEF Side, Opposite, Levels, BookWith

(* The sides of a sound book. *)
BookOK(b) == /\ \A side \in Side : SideOK(side, Levels(b, side))
             /\ LocOK(b.loc)

(* The book is apart seen from either side. *)
LEMMA ApartFromEither ==
  ASSUME NEW b, BookOK(b), NEW side \in Side
  PROVE  Apart(side, Levels(b, side), Levels(b, Opposite(side)), 0)
           <=> Apart("BID", b.bids, b.asks, 0)
<1>1. SideOK("BID", b.bids) /\ SideOK("ASK", b.asks)
  BY BothSides DEF BookOK, Side
<1>2. CASE side = "BID"
  BY <1>2, BothSides DEF Opposite, Levels
<1>3. CASE side = "ASK"
  BY <1>1, <1>3, ApartSymmetric DEF Opposite, Levels
<1> QED BY <1>2, <1>3 DEF Side

(* is_crossed is the opposite of apart. *)
LEMMA CrossedOrApart ==
  ASSUME NEW b, BookOK(b)
  PROVE  is_crossed(b) <=> ~Apart("BID", b.bids, b.asks, 0)
<1>1. SideOK("BID", b.bids) /\ SideOK("ASK", b.asks)
  BY BothSides DEF BookOK, Side
<1>2. /\ b.bids \in Seq(Level) /\ b.asks \in Seq(Level)
      /\ (b.bids # <<>> <=> Len(b.bids) > 0) /\ (b.asks # <<>> <=> Len(b.asks) > 0)
  BY <1>1, LevelPrices
<1>3. /\ b.bids # <<>> => Head(b.bids) = b.bids[1]
      /\ b.asks # <<>> => Head(b.asks) = b.asks[1]
  BY <1>2
<1> QED BY <1>2, <1>3, SMT DEF is_crossed, Apart, Meets

(* What TypeOK says of the book follows from BookOK. *)
LEMMA BookType ==
  ASSUME NEW b, BookOK(b)
  PROVE  /\ b.bids \in Seq(Level) /\ b.asks \in Seq(Level)
         /\ b.loc \in [DOMAIN b.loc -> [side : Side, price : Int]]
<1>1. SideOK("BID", b.bids) /\ SideOK("ASK", b.asks)
  BY BothSides DEF BookOK, Side
<1> QED BY <1>1, LevelPrices DEF BookOK, LocOK

(* The quantity of a trade. *)
LEMMA LesserOK ==
  ASSUME NEW m \in Nat \ {0}, NEW n \in Nat \ {0}
  PROVE  Lesser(m, n) \in Nat \ {0} /\ Lesser(m, n) <= m /\ Lesser(m, n) <= n
BY DEF Lesser
-----------------------------------------------------------------------------
(* The first invariant of processOrder. *)
IInv ==
  /\ TypeOK
  /\ \A side \in Side : SideOK(side, Levels(book, side))
  /\ phase # "cross" => Apart("BID", book.bids, book.asks, 0)
  /\ phase # "idle" => incoming \in Order
  /\ phase = "cross" =>
       LET side == incoming.side
           own == Levels(book, side)
           other == Levels(book, Opposite(side))
       IN  Apart(side, own, other, 0) \/ OnlyOneCrosses(side, own, other, incoming.id, remaining)
-----------------------------------------------------------------------------
(* Both sides of the book satisfy the invariant of OrderBook. *)
LEMMA IInvBook ==
  ASSUME IInv
  PROVE  BookOK(book)
BY DEF IInv, TypeOK, BookOK, LocOK

(* The empty book. *)
LEMMA InitIInv == Init => IInv
<1> SUFFICES ASSUME Init PROVE IInv
  OBVIOUS
<1>1. book.bids = <<>> /\ book.asks = <<>> /\ book.loc = <<>>
  BY DEF Init, EmptyBook
<1>2. <<>> \in Seq(Level) /\ <<>> \in Seq(Trade) /\ <<>> \in Seq(Order) /\ Len(<<>>) = 0
  BY SeqEmpty
<1>3. <<>> \in [DOMAIN <<>> -> [side : Side, price : Int]]
  OBVIOUS
<1>4. TypeOK
  BY <1>1, <1>2, <1>3 DEF Init, TypeOK
<1>5. \A side \in Side : SideOK(side, Levels(book, side))
  BY <1>1, <1>2 DEF Levels, SideOK, Sorted
<1>6. Apart("BID", book.bids, book.asks, 0)
  BY <1>1, <1>2 DEF Apart
<1>7. phase = "idle"
  BY DEF Init
<1> QED BY <1>4, <1>5, <1>6, <1>7 DEF IInv

(* A step of one side leaves the other as it was. *)
LEMMA ReplaceSide ==
  ASSUME NEW b, BookOK(b), NEW side \in Side, NEW levels, SideOK(side, levels),
         NEW loc, LocOK(loc)
  PROVE  LET new == BookWith(b, side, levels, loc)
         IN  /\ BookOK(new) /\ Levels(new, side) = levels
             /\ Levels(new, Opposite(side)) = Levels(b, Opposite(side))
<1>1. Opposite(side) \in Side /\ Opposite(side) # side
  BY DEF Opposite, Side
<1> DEFINE new == BookWith(b, side, levels, loc)
<1>2. /\ \A t \in Side : Levels(new, t) = IF t = side THEN levels ELSE Levels(b, t)
      /\ new.loc = loc
  BY BothSides
<1> HIDE DEF new
<1>3. Levels(new, side) = levels /\ Levels(new, Opposite(side)) = Levels(b, Opposite(side))
  BY <1>1, <1>2
<1>4. BookOK(new)
  BY <1>2, Zenon DEF BookOK
<1> QED BY <1>3, <1>4 DEF new

(* A limit order starts crossing, or rests at once. *)
LEMMA LimitIInv ==
  ASSUME WellOrdered, IInv, NEW side \in Side, NEW price \in Price, NEW qty \in Quantity,
         Limit(side, price, qty)
  PROVE  IInv'
<1> DEFINE o == [id |-> Len(placed) + 1, type |-> "LIMIT", side |-> side,
                 price |-> price, qty |-> qty]
           own == Levels(book, side)
           other == Levels(book, Opposite(side))
           new == AddToSide(side, own, o)
<1>1. BookOK(book) /\ phase = "idle" /\ placed \in Seq(Order) /\ trade_log \in Seq(Trade)
  BY IInvBook DEF IInv, TypeOK, Limit, Arrive
<1>2. o \in Order
  BY <1>1, PriceAssumption, QuantityAssumption, SeqLen DEF Order
<1>3. /\ incoming' = o /\ remaining' = qty /\ placed' = Append(placed, o)
      /\ phase' = "cross" /\ trade_log' = trade_log
      /\ book' = addOrder(book, o)
  BY DEF Limit, Arrive
<1>4. /\ o.id = Len(placed) + 1 /\ o.type = "LIMIT" /\ o.side = side
      /\ o.price \in Int /\ o.qty = qty /\ qty \in Nat
  BY PriceAssumption, QuantityAssumption
<1> HIDE DEF o
<1>5. book' = BookWith(book, side, new, Put(book.loc, o.id, [side |-> side, price |-> o.price]))
  BY <1>3, <1>4, Zenon DEF addOrder
<1>6. SideOK(side, own) /\ SideOK(Opposite(side), other) /\ LocOK(book.loc)
  BY <1>1, BothSides DEF BookOK
<1>7. SideOK(side, new)
  BY <1>2, <1>6, AddToSideOK, Zenon
<1>8. LocOK(Put(book.loc, o.id, [side |-> side, price |-> o.price]))
  BY <1>4, <1>6, PutOK
<1> HIDE DEF new, own, other
<1>9. /\ BookOK(book') /\ Levels(book', side) = new
      /\ Levels(book', Opposite(side)) = other
  BY <1>1, <1>5, <1>7, <1>8, ReplaceSide DEF other
<1>10. TypeOK'
  <2>1. placed' \in Seq(Order)
    BY <1>1, <1>2, <1>3, SeqAppend, Zenon
  <2>2. /\ book'.bids \in Seq(Level) /\ book'.asks \in Seq(Level)
        /\ book'.loc \in [DOMAIN book'.loc -> [side : Side, price : Int]]
    BY <1>9, BookType, Zenon
  <2> QED BY <1>1, <1>2, <1>3, <1>4, <2>1, <2>2 DEF TypeOK
<1>11. Apart(side, own, other, 0)
  BY <1>1, ApartFromEither, Zenon DEF IInv, own, other
<1>12. \/ Apart(side, new, other, 0)
       \/ new # <<>> /\ new[1].orders = <<o>> /\ Apart(side, new, other, 1)
  BY <1>2, <1>6, <1>11, RestingCrosses DEF new
<1>13. Apart(side, new, other, 0) \/ OnlyOneCrosses(side, new, other, o.id, qty)
  <2>1. Len(<<o>>) = 1 /\ <<o>>[1] = o
    OBVIOUS
  <2> QED BY <1>4, <1>12, <2>1, Zenon DEF OnlyOneCrosses
<1>14. LET s == incoming'.side
           a == Levels(book', s)
           b == Levels(book', Opposite(s))
       IN  Apart(s, a, b, 0) \/ OnlyOneCrosses(s, a, b, incoming'.id, remaining')
  BY <1>3, <1>4, <1>9, <1>13, Zenon
<1> QED BY <1>2, <1>3, <1>9, <1>10, <1>14, Zenon DEF IInv, BookOK

(* A market order starts crossing. *)
LEMMA MarketIInv ==
  ASSUME IInv, NEW side \in Side, NEW qty \in Quantity, Market(side, qty)
  PROVE  IInv'
<1> DEFINE o == [id |-> Len(placed) + 1, type |-> "MARKET", side |-> side,
                 price |-> 0, qty |-> qty]
<1>1. placed \in Seq(Order) /\ TypeOK
  BY DEF IInv, TypeOK
<1>2. o \in Order /\ qty \in Nat
  BY <1>1, QuantityAssumption, SeqLen DEF Order
<1>3. /\ incoming' = o /\ remaining' = qty /\ placed' = Append(placed, o)
      /\ phase = "idle" /\ phase' = "market" /\ UNCHANGED <<book, trade_log>>
  BY DEF Market, Arrive
<1> HIDE DEF o
<1>4. placed' \in Seq(Order)
  BY <1>1, <1>2, <1>3, SeqAppend, Zenon
<1>5. TypeOK'
  BY <1>1, <1>2, <1>3, <1>4 DEF TypeOK
<1> QED BY <1>2, <1>3, <1>5, Zenon DEF IInv

(* A cancel takes its order out of the book. *)
LEMMA CancelIInv ==
  ASSUME WellOrdered, IInv, NEW id, Cancel(id)
  PROVE  IInv'
<1>1. BookOK(book) /\ phase = "idle" /\ Apart("BID", book.bids, book.asks, 0) /\ TypeOK
  BY IInvBook DEF IInv, Cancel
<1>2. book' = cancelOrder(book, id) /\ UNCHANGED <<trade_log, phase, incoming, remaining, placed>>
  BY DEF Cancel
<1>3. CASE ~IsResting(book, id)
  <2>1. book' = book
    BY <1>2, <1>3, Zenon DEF cancelOrder
  <2> QED BY <1>1, <1>2, <2>1, Zenon DEF IInv, TypeOK
<1>4. CASE IsResting(book, id)
  <2> DEFINE side == book.loc[id].side
             own == Levels(book, side)
             other == Levels(book, Opposite(side))
             i == LevelOf(book, id)
             new == RemoveFromSide(own, i, id)
             loc == Erase(book.loc, id)
  <2>1. side \in Side /\ book.loc[id].price \in Int
    BY <1>1, <1>4, Zenon DEF IsResting, BookOK, LocOK
  <2>2. SideOK(side, own) /\ SideOK(Opposite(side), other) /\ Opposite(side) \in Side
    BY <1>1, <2>1, BothSides DEF BookOK
  <2>3. i \in 1 .. Len(own) + 1
    BY <2>1, <2>2, LowerBoundExists, Zenon DEF LevelOf
  <2>4. i <= Len(own) /\ IndexOf(own[i].orders, id) # 0
    BY <1>4, Zenon DEF IsResting, HasLevel
  <2>5. i \in 1 .. Len(own)
    BY <2>2, <2>3, <2>4, LevelPrices
  <2>6. /\ SideOK(side, new)
        /\ new # <<>> => \/ new[1].price = own[1].price
                         \/ Ahead(side, own[1].price, new[1].price)
    BY <2>1, <2>2, <2>4, <2>5, RemoveFromSideOK, Zenon
  <2>7. own # <<>>
    BY <2>2, <2>5, LevelPrices
  <2>8. LocOK(loc)
    BY <1>1, EraseOK DEF BookOK
  <2>9. book' = BookWith(book, side, new, loc)
    BY <1>2, <1>4, Zenon DEF cancelOrder
  <2> HIDE DEF side, new, loc, i
  <2>10. /\ BookOK(book') /\ Levels(book', side) = new
         /\ Levels(book', Opposite(side)) = other
    BY <1>1, <2>1, <2>6, <2>8, <2>9, ReplaceSide
  <2>11. Apart(side, own, other, 0)
    BY <1>1, <2>1, ApartFromEither, Zenon
  <2> HIDE DEF own, other
  <2>12. Apart(side, new, other, 0)
    BY <2>1, <2>2, <2>6, <2>7, <2>11, StayApart, Zenon DEF NotBetter
  <2>13. Apart("BID", book'.bids, book'.asks, 0)
    BY <2>1, <2>10, <2>12, ApartFromEither, Zenon
  <2>14. TypeOK'
    BY <1>1, <1>2, <2>10, BookType, Zenon DEF TypeOK
  <2> QED BY <1>1, <1>2, <2>10, <2>13, <2>14, Zenon DEF IInv, BookOK
<1> QED BY <1>3, <1>4, Zenon

(* A market order takes from the front of the best level. *)
LEMMA TakeIInv ==
  ASSUME IInv, Take
  PROVE  IInv'
<1> DEFINE side == Opposite(incoming.side)
           own == Levels(book, side)
           other == Levels(book, Opposite(side))
           front == FrontOrder(own)
           t == MarketTrade(book, incoming.id, incoming.side, remaining)
           new == TakeFront(own, t.qty)
           loc == LocAfterTake(book.loc, front, t.qty)
<1>1. BookOK(book) /\ phase = "market" /\ Apart("BID", book.bids, book.asks, 0) /\ TypeOK
      /\ incoming \in Order /\ remaining \in Nat \ {0} /\ trade_log \in Seq(Trade)
  <2>1. phase = "market" /\ remaining > 0
    BY Zenon DEF Take
  <2>2. TypeOK /\ incoming \in Order /\ Apart("BID", book.bids, book.asks, 0)
    BY <2>1 DEF IInv
  <2>3. remaining \in Nat /\ trade_log \in Seq(Trade)
    BY <2>2 DEF TypeOK
  <2> QED BY <2>1, <2>2, <2>3, IInvBook
<1>2. side \in Side /\ incoming.side \in Side /\ Opposite(side) \in Side
  BY <1>1, Zenon DEF Order, Side, Opposite
<1>3. /\ own # <<>> /\ trade_log' = Append(trade_log, t) /\ remaining' = remaining - t.qty
      /\ book' = MarketTake(book, incoming.side, t.qty) /\ UNCHANGED <<phase, incoming, placed>>
  BY DEF Take, Report
<1>4. SideOK(side, own) /\ SideOK(Opposite(side), other) /\ LocOK(book.loc)
  BY <1>1, <1>2, Zenon DEF BookOK
<1>5. front \in Order
  BY <1>3, <1>4, FrontOrderOK
<1>6. front.qty \in Nat \ {0} /\ front.id \in Nat /\ front.price \in Int /\ incoming.id \in Nat
  BY <1>1, <1>5, Zenon DEF Order
<1>7. t.qty = Lesser(remaining, front.qty)
  BY Zenon DEF MarketTrade
<1>8. t.qty \in Nat \ {0} /\ t.qty <= remaining /\ t.qty <= front.qty
  BY <1>1, <1>6, <1>7, LesserOK, Zenon
<1>9. t \in Trade
  <2>1. Lesser(remaining, front.qty) \in Nat \ {0}
    BY <1>7, <1>8
  <2> QED BY <1>6, <2>1, Zenon DEF MarketTrade, Trade
<1>10. book' = BookWith(book, side, new, loc)
  BY <1>3, Zenon DEF MarketTake
<1> HIDE DEF t
<1>11. /\ SideOK(side, new)
       /\ new # <<>> => \/ new[1].price = own[1].price
                        \/ Ahead(side, own[1].price, new[1].price)
  BY <1>2, <1>3, <1>4, <1>8, TakeFrontOK, Zenon
<1>12. LocOK(loc)
  BY <1>4, LocAfterTakeOK, Zenon
<1> HIDE DEF side, new, loc, front
<1>13. /\ BookOK(book') /\ Levels(book', side) = new
       /\ Levels(book', Opposite(side)) = other
  BY <1>1, <1>2, <1>10, <1>11, <1>12, ReplaceSide
<1>14. Apart(side, own, other, 0)
  BY <1>1, <1>2, ApartFromEither, Zenon
<1> HIDE DEF own, other
<1>15. Apart(side, new, other, 0)
  BY <1>2, <1>3, <1>4, <1>11, <1>14, StayApart, Zenon DEF NotBetter
<1>16. Apart("BID", book'.bids, book'.asks, 0)
  BY <1>2, <1>13, <1>15, ApartFromEither, Zenon
<1>17. TypeOK'
  <2>1. trade_log' \in Seq(Trade)
    BY <1>1, <1>3, <1>9, SeqAppend
  <2>2. remaining' \in Nat
    BY <1>1, <1>3, <1>8
  <2> QED BY <1>1, <1>3, <1>13, <2>1, <2>2, BookType, Zenon DEF TypeOK
<1> QED BY <1>1, <1>3, <1>13, <1>16, <1>17 DEF IInv, BookOK

(* One turn of the loop that crosses the two sides, and its end. *)
LEMMA CrossIInv ==
  ASSUME IInv, Cross
  PROVE  IInv'
<1> DEFINE side == incoming.side
           own == Levels(book, side)
           other == Levels(book, Opposite(side))
           t == CrossTrade(book)
           own2 == TakeFront(own, t.qty)
           other2 == TakeFront(other, t.qty)
<1>1. BookOK(book) /\ phase = "cross" /\ TypeOK /\ incoming \in Order
      /\ remaining \in Nat \ {0} /\ trade_log \in Seq(Trade) /\ is_crossed(book)
  <2>1. phase = "cross" /\ remaining > 0 /\ is_crossed(book)
    BY Zenon DEF Cross
  <2>2. TypeOK /\ incoming \in Order
    BY <2>1 DEF IInv
  <2>3. remaining \in Nat /\ trade_log \in Seq(Trade)
    BY <2>2 DEF TypeOK
  <2> QED BY <2>1, <2>2, <2>3, IInvBook
<1>2. side \in Side /\ Opposite(side) \in Side
  BY <1>1 DEF Order, Side, Opposite
<1>3. SideOK(side, own) /\ SideOK(Opposite(side), other) /\ LocOK(book.loc)
  BY <1>1, <1>2, Zenon DEF BookOK
<1>4. OnlyOneCrosses(side, own, other, incoming.id, remaining)
  <2>1. ~Apart(side, own, other, 0)
    BY <1>1, <1>2, ApartFromEither, CrossedOrApart, Zenon
  <2> QED BY <1>1, <2>1, Zenon DEF IInv
<1>5. SideOK("BID", book.bids) /\ SideOK("ASK", book.asks) /\ book.bids # <<>> /\ book.asks # <<>>
  BY <1>1, BothSides DEF BookOK, Side, is_crossed
<1>6. FrontOrder(book.bids) \in Order /\ FrontOrder(book.asks) \in Order
  BY <1>5, FrontOrderOK
<1>7. /\ FrontOrder(book.bids).qty \in Nat \ {0} /\ FrontOrder(book.asks).qty \in Nat \ {0}
      /\ FrontOrder(book.bids).id \in Nat /\ FrontOrder(book.asks).id \in Nat
      /\ FrontOrder(book.asks).price \in Int
  BY <1>6, Zenon DEF Order
<1>8. /\ t.qty = Lesser(FrontOrder(book.bids).qty, FrontOrder(book.asks).qty)
      /\ t.buyer = FrontOrder(book.bids).id /\ t.seller = FrontOrder(book.asks).id
  BY Zenon DEF CrossTrade
<1>9. /\ t.qty \in Nat \ {0} /\ t.qty <= FrontOrder(book.bids).qty
      /\ t.qty <= FrontOrder(book.asks).qty
  BY <1>7, <1>8, LesserOK, Zenon
<1>10. t \in Trade
  <2>1. Lesser(FrontOrder(book.bids).qty, FrontOrder(book.asks).qty) \in Nat \ {0}
    BY <1>8, <1>9
  <2> QED BY <1>7, <2>1 DEF CrossTrade, Trade
<1>11. /\ (side = "BID" /\ own = book.bids /\ other = book.asks)
          \/ (side = "ASK" /\ own = book.asks /\ other = book.bids)
  BY <1>2, Zenon DEF Side, Levels, Opposite
<1>12. /\ own # <<>> /\ other # <<>> /\ t.qty <= FrontOrder(own).qty
       /\ t.qty <= FrontOrder(other).qty
  BY <1>5, <1>9, <1>11
<1>13. /\ trade_log' = Append(trade_log, t) /\ book' = execute_top_cross(book)
       /\ remaining' = IF incoming.id \in {t.buyer, t.seller} THEN remaining - t.qty ELSE remaining
       /\ UNCHANGED <<phase, incoming, placed>>
  BY Zenon DEF Cross, Report
<1>14. /\ book'.bids = TakeFront(book.bids, t.qty) /\ book'.asks = TakeFront(book.asks, t.qty)
       /\ LocOK(book'.loc)
  BY <1>3, <1>13, LocAfterTakeOK, Zenon DEF execute_top_cross
<1>15. Levels(book', side) = own2 /\ Levels(book', Opposite(side)) = other2
  BY <1>11, <1>14 DEF Levels, Opposite
<1> HIDE DEF t
<1>16. SideOK(side, own2) /\ SideOK(Opposite(side), other2)
  BY <1>2, <1>3, <1>9, <1>12, TakeFrontOK, Zenon
<1>17. \A s \in Side : s = side \/ s = Opposite(side)
  BY <1>2 DEF Side, Opposite
<1>18. BookOK(book')
  BY <1>14, <1>15, <1>16, <1>17, Zenon DEF BookOK
<1>19. /\ FrontOrder(own) = own[1].orders[1] /\ FrontOrder(own).id = incoming.id
       /\ FrontOrder(own).qty = remaining
       /\ Len(own[1].orders) = 1 /\ Apart(side, own, other, 1)
  BY <1>3, <1>4, <1>12, FrontOrderOK DEF OnlyOneCrosses
<1>20. incoming.id \in {t.buyer, t.seller} /\ remaining' = remaining - t.qty
  BY <1>8, <1>11, <1>13, <1>19
<1> HIDE DEF side, own, other
<1>21. IF FrontOrder(own).qty = t.qty
         THEN Apart(side, own2, other2, 0)
         ELSE /\ own2 # <<>> /\ Len(own2[1].orders) = 1
              /\ own2[1].orders[1].id = FrontOrder(own).id
              /\ own2[1].orders[1].qty = FrontOrder(own).qty - t.qty
              /\ Apart(side, own2, other2, 1)
  BY <1>2, <1>3, <1>9, <1>12, <1>19, TradeCrosses, Zenon
<1> HIDE DEF own2, other2
<1>22. Apart(side, own2, other2, 0) \/ OnlyOneCrosses(side, own2, other2, incoming.id, remaining')
  BY <1>19, <1>20, <1>21, Zenon DEF OnlyOneCrosses
<1>23. LET s == incoming'.side
           a == Levels(book', s)
           b == Levels(book', Opposite(s))
       IN  Apart(s, a, b, 0) \/ OnlyOneCrosses(s, a, b, incoming'.id, remaining')
  BY <1>13, <1>15, <1>22, Zenon DEF side
<1>24. TypeOK'
  <2>1. trade_log' \in Seq(Trade)
    BY <1>1, <1>10, <1>13, SeqAppend, Zenon
  <2>2. remaining' \in Nat
    BY <1>1, <1>9, <1>12, <1>19, <1>20
  <2> QED BY <1>1, <1>13, <1>18, <2>1, <2>2, BookType, Zenon DEF TypeOK
<1> QED BY <1>1, <1>13, <1>18, <1>23, <1>24 DEF IInv, BookOK

(* The loop ends with an uncrossed book: what remains of the incoming order is
   in the book, and if nothing remains it is not there. *)
LEMMA CrossDoneIInv ==
  ASSUME IInv, CrossDone
  PROVE  IInv'
<1> DEFINE side == incoming.side
           own == Levels(book, side)
           other == Levels(book, Opposite(side))
<1>1. BookOK(book) /\ phase = "cross" /\ TypeOK /\ incoming \in Order /\ remaining \in Nat
  <2>1. phase = "cross" /\ TypeOK /\ incoming \in Order
    BY DEF IInv, CrossDone
  <2>2. remaining \in Nat
    BY <2>1 DEF TypeOK
  <2> QED BY <2>1, <2>2, IInvBook, Zenon
<1>2. side \in Side
  BY <1>1 DEF Order
<1>3. SideOK(side, own)
  BY <1>1, <1>2 DEF BookOK
<1>4. Apart("BID", book.bids, book.asks, 0)
  <2>1. CASE ~is_crossed(book)
    BY <1>1, <2>1, CrossedOrApart, Zenon
  <2>2. CASE remaining = 0
    <3>1. ~OnlyOneCrosses(side, own, other, incoming.id, remaining)
      <4>1. own # <<>> => FrontOrder(own) \in Order /\ FrontOrder(own) = own[1].orders[1]
        BY <1>3, FrontOrderOK, Zenon
      <4>2. own # <<>> => own[1].orders[1].qty # 0
        BY <4>1, Zenon DEF Order
      <4> QED BY <2>2, <4>2, Zenon DEF OnlyOneCrosses
    <3>2. Apart(side, own, other, 0)
      BY <1>1, <3>1 DEF IInv
    <3> QED BY <1>1, <1>2, <3>2, ApartFromEither, Zenon
  <2> QED BY <1>1, <2>1, <2>2 DEF CrossDone
<1>5. phase' = "idle" /\ UNCHANGED <<book, trade_log, incoming, remaining, placed>>
  BY Zenon DEF CrossDone
<1>6. TypeOK'
  BY <1>1, <1>5 DEF TypeOK
<1> QED BY <1>1, <1>4, <1>5, <1>6 DEF IInv, BookOK

(* Every step keeps the invariant. *)
LEMMA NextIInv ==
  ASSUME WellOrdered
  PROVE  IInv /\ [Next]_vars => IInv'
<1> SUFFICES ASSUME IInv, [Next]_vars PROVE IInv'
  OBVIOUS
<1>1. ASSUME NEW side \in Side, NEW qty \in Quantity, NEW price \in Price,
             Limit(side, price, qty)
      PROVE  IInv'
  BY <1>1, LimitIInv, Zenon
<1>2. ASSUME NEW side \in Side, NEW qty \in Quantity, Market(side, qty)
      PROVE  IInv'
  BY <1>2, MarketIInv, Zenon
<1>3. CASE Cross
  BY <1>3, CrossIInv, Zenon
<1>4. CASE CrossDone
  BY <1>4, CrossDoneIInv, Zenon
<1>5. CASE Take
  BY <1>5, TakeIInv, Zenon
<1>6. CASE MarketDone
  BY <1>6 DEF MarketDone, IInv, TypeOK
<1>7. ASSUME NEW id \in 1 .. MaxOrders, Cancel(id)
      PROVE  IInv'
  BY <1>7, CancelIInv, Zenon
<1>8. CASE UNCHANGED vars
  BY <1>8 DEF vars, IInv, TypeOK
<1> QED BY <1>1, <1>2, <1>3, <1>4, <1>5, <1>6, <1>7, <1>8 DEF Next
-----------------------------------------------------------------------------
(* Induction on an index, for a set instead of a predicate. *)
LEMMA UpTo ==
  ASSUME WellOrdered, NEW n \in Nat, NEW T, 0 \in T, \A k \in 1 .. n : k - 1 \in T => k \in T
  PROVE  \A k \in 0 .. n : k \in T
<1> DEFINE Bad == {k \in 0 .. n : k \notin T}
<1> SUFFICES ASSUME Bad # {} PROVE FALSE
  OBVIOUS
<1>1. Bad \subseteq Nat
  OBVIOUS
<1>2. PICK k \in Bad : \A j \in Bad : k <= j
  <2> HIDE DEF Bad
  <2> QED BY <1>1, LeastExists, Zenon
<1>3. k \in 1 .. n /\ k - 1 \in 0 .. n /\ k - 1 \notin Bad
  BY <1>2
<1> QED BY <1>3

(* g[k] is what the first k orders amount to. *)
Sums(orders, g, n) ==
  /\ g \in [0 .. n -> Int] /\ g[0] = 0
  /\ \A k \in 1 .. n : g[k] = g[k - 1] + orders[k].qty

(* The loop of levels_consistent. *)
LEMMA TotalIs ==
  ASSUME WellOrdered, NEW orders \in Seq(Order), NEW g, Sums(orders, g, Len(orders))
  PROVE  Total(orders) = g[Len(orders)]
<1> DEFINE n == Len(orders)
           Is(f) == f = [k \in 0 .. n |-> IF k = 0 THEN 0 ELSE f[k - 1] + orders[k].qty]
           upTo == CHOOSE f : Is(f)
<1>1. n \in Nat
  BY SeqLen
<1>2. Is(g)
  BY <1>1 DEF Sums
<1>3. Is(upTo)
  <2> HIDE DEF Is
  <2> QED BY <1>2, Zenon
<1>4. Total(orders) = upTo[n]
  BY Zenon DEF Total
<1> HIDE DEF upTo
<1>5. upTo[0] = 0 /\ \A k \in 1 .. n : upTo[k] = upTo[k - 1] + orders[k].qty
  BY <1>1, <1>3
<1> DEFINE T == {k \in 0 .. n : upTo[k] = g[k]}
<1>6. 0 \in T
  BY <1>1, <1>5 DEF Sums
<1>7. \A k \in 1 .. n : k - 1 \in T => k \in T
  BY <1>1, <1>5 DEF Sums
<1>8. \A k \in 0 .. n : k \in T
  <2> HIDE DEF T, n
  <2> QED BY <1>1, <1>6, <1>7, UpTo, Zenon
<1> QED BY <1>1, <1>4, <1>8

(* The quantities of a level are numbers. *)
LEMMA Quantities ==
  ASSUME NEW orders \in Seq(Order)
  PROVE  Len(orders) \in Nat /\ \A k \in 1 .. Len(orders) : orders[k].qty \in Int
<1>1. \A k \in 1 .. Len(orders) : orders[k] \in Order
  BY SeqElement
<1> QED BY <1>1, SeqLen DEF Order

(* Total is the sum the recursion promises. *)
LEMMA TotalExists ==
  ASSUME WellOrdered, NEW orders \in Seq(Order)
  PROVE  \E g : Sums(orders, g, Len(orders))
<1> DEFINE T == {n \in 0 .. Len(orders) : \E g : Sums(orders, g, n)}
<1>1. Len(orders) \in Nat /\ \A k \in 1 .. Len(orders) : orders[k].qty \in Int
  BY Quantities
<1>2. 0 \in T
  <2>1. Sums(orders, [k \in 0 .. 0 |-> 0], 0)
    BY DEF Sums
  <2> QED BY <1>1, <2>1
<1>3. ASSUME NEW n \in 1 .. Len(orders), n - 1 \in T PROVE n \in T
  <2>1. PICK g : Sums(orders, g, n - 1)
    BY <1>3
  <2> DEFINE h == [k \in 0 .. n |-> IF k = n THEN g[n - 1] + orders[n].qty ELSE g[k]]
  <2>2. Sums(orders, h, n)
    <3>1. g \in [0 .. n - 1 -> Int] /\ g[0] = 0
      BY <2>1 DEF Sums
    <3>2. \A k \in 1 .. n - 1 : g[k] = g[k - 1] + orders[k].qty
      BY <2>1 DEF Sums
    <3>3. h \in [0 .. n -> Int] /\ h[0] = 0
      BY <1>1, <3>1
    <3>4. \A k \in 1 .. n : h[k] = h[k - 1] + orders[k].qty
      BY <1>1, <3>1, <3>2
    <3> QED BY <3>3, <3>4, Zenon DEF Sums
  <2> QED BY <1>1, <2>2
<1>4. Len(orders) \in T
  <2>1. \A n \in 1 .. Len(orders) : n - 1 \in T => n \in T
    BY <1>3
  <2> HIDE DEF T
  <2>2. \A k \in 0 .. Len(orders) : k \in T
    BY <1>1, <1>2, <2>1, UpTo, Zenon
  <2> QED BY <1>1, <2>2
<1> QED BY <1>4

(* The total after an order joins. *)
LEMMA TotalAppend ==
  ASSUME WellOrdered, NEW orders \in Seq(Order), NEW o \in Order
  PROVE  Total(Append(orders, o)) = Total(orders) + o.qty
<1> DEFINE n == Len(orders)
           new == Append(orders, o)
<1>1. PICK g : Sums(orders, g, n)
  BY TotalExists
<1> DEFINE h == [k \in 0 .. n + 1 |-> IF k = n + 1 THEN g[n] + o.qty ELSE g[k]]
<1>2. /\ n \in Nat /\ new \in Seq(Order) /\ Len(new) = n + 1 /\ new[n + 1] = o
      /\ \A k \in 1 .. n : new[k] = orders[k]
  BY SeqLen, SeqAppend
<1>3. o.qty \in Int
  BY DEF Order
<1> HIDE DEF n, new
<1>4. Sums(new, h, n + 1)
  <2>1. g \in [0 .. n -> Int] /\ g[0] = 0
    BY <1>1 DEF Sums
  <2>2. \A k \in 1 .. n : g[k] = g[k - 1] + orders[k].qty
    BY <1>1 DEF Sums
  <2>3. h \in [0 .. n + 1 -> Int] /\ h[0] = 0
    BY <1>2, <1>3, <2>1
  <2>4. ASSUME NEW k \in 1 .. n + 1 PROVE h[k] = h[k - 1] + new[k].qty
    <3>1. CASE k = n + 1
      <4>1. n + 1 \in 0 .. n + 1 /\ n \in 0 .. n + 1 /\ n # n + 1 /\ (n + 1) - 1 = n
        BY <1>2
      <4>2. h[n + 1] = g[n] + o.qty /\ h[n] = g[n]
        BY <4>1, Zenon
      <4> QED BY <1>2, <3>1, <4>1, <4>2, Zenon
    <3>2. CASE k \in 1 .. n
      <4>1. k \in 0 .. n + 1 /\ k - 1 \in 0 .. n + 1 /\ k # n + 1 /\ k - 1 # n + 1
        BY <1>2, <3>2
      <4>2. h[k] = g[k] /\ h[k - 1] = g[k - 1]
        BY <4>1, Zenon
      <4> QED BY <1>2, <2>2, <3>2, <4>2, Zenon
    <3> QED BY <1>2, <3>1, <3>2
  <2> QED BY <2>3, <2>4, Zenon DEF Sums
<1>5. Total(orders) = g[n]
  BY <1>1, TotalIs DEF n
<1>6. h[n + 1] = g[n] + o.qty
  BY <1>2
<1> HIDE DEF h
<1>7. Total(new) = h[n + 1]
  BY <1>2, <1>4, TotalIs
<1> QED BY <1>5, <1>6, <1>7 DEF new

(* The total after an order leaves. *)
LEMMA TotalErase ==
  ASSUME WellOrdered, NEW orders \in Seq(Order), NEW i \in 1 .. Len(orders),
         NEW new \in Seq(Order), Erased(new, orders, i)
  PROVE  Total(new) = Total(orders) - orders[i].qty
<1> DEFINE n == Len(orders)
<1>1. PICK g : Sums(orders, g, n)
  BY TotalExists
<1> DEFINE h == [k \in 0 .. n - 1 |-> IF k < i THEN g[k] ELSE g[k + 1] - orders[i].qty]
<1>2. n \in Nat /\ n > 0 /\ i \in 1 .. n
  BY SeqLen
<1>3. \A k \in 1 .. n : orders[k].qty \in Int
  BY Quantities
<1>4. Total(orders) = g[n]
  BY <1>1, TotalIs, Zenon
<1> HIDE DEF n
<1>5. Sums(new, h, n - 1)
  <2>1. g \in [0 .. n -> Int] /\ g[0] = 0
    BY <1>1 DEF Sums
  <2>2. \A k \in 1 .. n : g[k] = g[k - 1] + orders[k].qty
    BY <1>1 DEF Sums
  <2>3. h \in [0 .. n - 1 -> Int]
    BY <1>2, <1>3, <2>1
  <2>5. h[0] = 0
    BY <1>2, <2>1
  <2>6. \A k \in 0 .. n - 1 : h[k] = IF k < i THEN g[k] ELSE g[k + 1] - orders[i].qty
    OBVIOUS
  <2> HIDE DEF h
  <2>7. \A k \in 0 .. n : g[k] \in Int
    BY <2>1, Zenon
  <2>4. ASSUME NEW k \in 1 .. n - 1 PROVE h[k] = h[k - 1] + new[k].qty
    <3>1. new[k] = IF k < i THEN orders[k] ELSE orders[k + 1]
      BY Zenon DEF n, Erased
    <3>5. /\ h[k] = IF k < i THEN g[k] ELSE g[k + 1] - orders[i].qty
          /\ h[k - 1] = IF k - 1 < i THEN g[k - 1] ELSE g[k] - orders[i].qty
      BY <1>2, <2>6
    <3>8. /\ k - 1 \in 0 .. n /\ k \in 0 .. n /\ k + 1 \in 0 .. n /\ k \in 1 .. n
               /\ k + 1 \in 1 .. n
          /\ (k + 1) - 1 = k
      BY <1>2
    <3>6. g[k] = g[k - 1] + orders[k].qty /\ g[k + 1] = g[k] + orders[k + 1].qty
      <4>1. g[k + 1] = g[(k + 1) - 1] + orders[k + 1].qty
        BY <2>2, <3>8, Zenon
      <4> QED BY <2>2, <3>8, <4>1, Zenon
    <3>7. g[k - 1] \in Int /\ g[k] \in Int /\ g[k + 1] \in Int
          /\ orders[k].qty \in Int /\ orders[k + 1].qty \in Int /\ orders[i].qty \in Int
      BY <1>2, <1>3, <2>7, <3>8, Zenon
    <3>2. CASE k < i
      BY <3>1, <3>2, <3>5, <3>6
    <3>3. CASE k = i
      <4>1. ~(k < i) /\ k - 1 < i
        BY <1>2, <3>3
      <4>2. new[k] = orders[k + 1] /\ h[k] = g[k + 1] - orders[k].qty /\ h[k - 1] = g[k - 1]
        BY <3>1, <3>3, <3>5, <4>1, Zenon
      <4>4. PICK a \in Int, q \in Int, r \in Int :
              a = g[k - 1] /\ q = orders[k].qty /\ r = orders[k + 1].qty
        BY <3>7, Zenon
      <4>3. ((a + q) + r) - q = a + r
        OBVIOUS
      <4> QED BY <3>6, <4>2, <4>3, <4>4, Zenon
    <3>4. CASE k > i
      <4>1. ~(k < i) /\ ~(k - 1 < i)
        BY <1>2, <3>4
      <4>2. /\ new[k] = orders[k + 1] /\ h[k] = g[k + 1] - orders[i].qty
            /\ h[k - 1] = g[k] - orders[i].qty
        BY <3>1, <3>5, <4>1, Zenon
      <4>4. PICK a \in Int, q \in Int, r \in Int :
              a = g[k] /\ q = orders[i].qty /\ r = orders[k + 1].qty
        BY <3>7, Zenon
      <4>3. (a + r) - q = (a - q) + r
        OBVIOUS
      <4> QED BY <3>6, <4>2, <4>3, <4>4, Zenon
    <3> QED BY <1>2, <3>2, <3>3, <3>4
  <2> QED BY <2>3, <2>4, <2>5, Zenon DEF Sums
<1>6. h[n - 1] = g[n] - orders[i].qty
  <2>1. n - 1 \in 0 .. n - 1 /\ (n - 1) + 1 = n /\ (n - 1 < i => i = n)
    BY <1>2
  <2>2. h[n - 1] = IF n - 1 < i THEN g[n - 1] ELSE g[(n - 1) + 1] - orders[i].qty
    BY <2>1, Zenon
  <2> HIDE DEF h
  <2>3. g[n - 1] \in Int /\ g[n] = g[n - 1] + orders[n].qty /\ orders[n].qty \in Int
    BY <1>1, <1>2, <1>3 DEF Sums
  <2> QED BY <2>1, <2>2, <2>3
<1> HIDE DEF h
<1>7. Len(new) = n - 1
  BY DEF n, Erased
<1>8. Total(new) = h[n - 1]
  BY <1>5, <1>7, TotalIs, Zenon
<1> QED BY <1>4, <1>6, <1>8

(* The total after an order is filled in part. *)
LEMMA TotalReplace ==
  ASSUME WellOrdered, NEW orders \in Seq(Order), NEW i \in 1 .. Len(orders), NEW o \in Order
  PROVE  Total([orders EXCEPT ![i] = o]) = Total(orders) - orders[i].qty + o.qty
<1> DEFINE n == Len(orders)
           new == [orders EXCEPT ![i] = o]
<1>1. PICK g : Sums(orders, g, n)
  BY TotalExists
<1> DEFINE h == [k \in 0 .. n |-> IF k < i THEN g[k] ELSE g[k] - orders[i].qty + o.qty]
<1>2. n \in Nat /\ n > 0 /\ i \in 1 .. n /\ o.qty \in Int
  BY SeqLen DEF Order
<1>3. \A k \in 1 .. n : orders[k].qty \in Int
  BY Quantities
<1>4. Total(orders) = g[n]
  BY <1>1, TotalIs
<1>5. new \in Seq(Order) /\ Len(new) = n
      /\ \A k \in 1 .. n : new[k] = IF k = i THEN o ELSE orders[k]
  BY SeqExcept
<1> HIDE DEF n, new
<1>6. Sums(new, h, n)
  <2>1. g \in [0 .. n -> Int] /\ g[0] = 0
    BY <1>1 DEF Sums
  <2>2. \A k \in 1 .. n : g[k] = g[k - 1] + orders[k].qty
    BY <1>1 DEF Sums
  <2>3. h \in [0 .. n -> Int] /\ h[0] = 0
    <3>1. 0 \in 0 .. n /\ 0 < i /\ orders[i].qty \in Int
      BY <1>2, <1>3
    <3>2. ASSUME NEW k \in 0 .. n PROVE h[k] \in Int
      BY <1>2, <2>1, <3>1
    <3> QED BY <2>1, <3>1, <3>2, Zenon
  <2>4. ASSUME NEW k \in 1 .. n PROVE h[k] = h[k - 1] + new[k].qty
    <3>1. /\ h[k] = IF k < i THEN g[k] ELSE g[k] - orders[i].qty + o.qty
          /\ h[k - 1] = IF k - 1 < i THEN g[k - 1] ELSE g[k - 1] - orders[i].qty + o.qty
      BY <1>2
    <3>2. g[k] = g[k - 1] + orders[k].qty /\ new[k] = IF k = i THEN o ELSE orders[k]
      BY <1>5, <2>2
    <3>3. g[k - 1] \in Int /\ g[k] \in Int /\ orders[k].qty \in Int /\ orders[i].qty \in Int
      BY <1>2, <1>3, <2>1
    <3> HIDE DEF h
    <3>4. CASE k < i
      BY <3>1, <3>2, <3>4
    <3>5. CASE k = i
      BY <1>2, <3>1, <3>2, <3>3, <3>5
    <3>6. CASE k > i
      <4>1. ~(k < i) /\ ~(k - 1 < i) /\ k # i
        BY <1>2, <3>6
      <4>2. /\ h[k] = (g[k - 1] + orders[k].qty) - orders[i].qty + o.qty /\ new[k] = orders[k]
            /\ h[k - 1] = g[k - 1] - orders[i].qty + o.qty
        BY <3>1, <3>2, <4>1, Zenon
      <4>3. PICK a \in Int, q \in Int, r \in Int, x \in Int :
              a = g[k - 1] /\ q = orders[i].qty /\ r = orders[k].qty /\ x = o.qty
        BY <1>2, <3>3, Zenon
      <4>4. (a + r) - q + x = (a - q + x) + r
        OBVIOUS
      <4> QED BY <4>2, <4>3, <4>4, Zenon
    <3> QED BY <1>2, <3>4, <3>5, <3>6
  <2> QED BY <2>3, <2>4, Zenon DEF Sums
<1>7. h[n] = g[n] - orders[i].qty + o.qty
  BY <1>2
<1> HIDE DEF h
<1>8. Total(new) = h[n]
  BY <1>5, <1>6, TotalIs
<1> QED BY <1>4, <1>7, <1>8 DEF new
-----------------------------------------------------------------------------
(* In a level the orders wait in the order of their ids. *)
InTimeOrder(orders) == \A j, k \in 1 .. Len(orders) : j < k => orders[j].id < orders[k].id

(* What a level keeps besides its orders agrees with them. *)
LevelExact(level) == level.total_qty = Total(level.orders) /\ InTimeOrder(level.orders)
SideExact(levels) == \A i \in 1 .. Len(levels) : LevelExact(levels[i])

(* The orders of a side that are not in its i-th level. *)
Elsewhere(levels, i) == UNION {Range(levels[j].orders) : j \in (1 .. Len(levels)) \ {i}}

(* An order that rests is at some place of some level. *)
LEMMA RestingSomewhere ==
  ASSUME NEW levels, NEW i
  PROVE  /\ \A o : o \in RestingOn(levels) <=> \E j \in 1 .. Len(levels)
              : o \in Range(levels[j].orders)
         /\ \A o : o \in Elsewhere(levels, i) <=>
              \E j \in 1 .. Len(levels) : j # i /\ o \in Range(levels[j].orders)
BY Zenon DEF RestingOn, Elsewhere

(* The elements of a sequence. *)
LEMMA ElementsOf ==
  ASSUME NEW S, NEW s \in Seq(S)
  PROVE  \A o : o \in Range(s) <=> \E k \in 1 .. Len(s) : o = s[k]
<1>1. DOMAIN s = 1 .. Len(s)
  BY SeqLen, Zenon
<1> QED BY <1>1, Zenon DEF Range

(* Every price has one level. *)
LEMMA SplitSide ==
  ASSUME NEW side \in Side, NEW levels, SideOK(side, levels), NEW i \in 1 .. Len(levels)
  PROVE  /\ RestingOn(levels) = Range(levels[i].orders) \cup Elsewhere(levels, i)
         /\ \A o \in Range(levels[i].orders) : o \in Order /\ o.price = levels[i].price
         /\ \A o \in Elsewhere(levels, i) : o \in Order /\ o.price # levels[i].price
<1>1. /\ \A j \in 1 .. Len(levels) : LevelOK(levels[j]) /\ levels[j].price \in Int
      /\ Sorted(side, levels) /\ Len(levels) \in Nat
  BY SideOKLevels, LevelPrices, Zenon
<1>2. ASSUME NEW j \in 1 .. Len(levels), NEW o \in Range(levels[j].orders)
      PROVE  o \in Order /\ o.price = levels[j].price
  <2>1. levels[j].orders \in Seq(Order)
    BY <1>1 DEF LevelOK, Level
  <2>2. PICK k \in 1 .. Len(levels[j].orders) : o = levels[j].orders[k]
    BY <2>1, ElementsOf
  <2>3. o \in Order
    BY <2>1, <2>2, SeqElement, Zenon
  <2> QED BY <1>1, <2>2, <2>3, Zenon DEF LevelOK
<1>3. \A j \in 1 .. Len(levels) : j # i => levels[j].price # levels[i].price
  <2> SUFFICES ASSUME NEW j \in 1 .. Len(levels), j # i PROVE levels[j].price # levels[i].price
    BY Zenon
  <2>1. \/ Ahead(side, levels[i].price, levels[j].price)
        \/ Ahead(side, levels[j].price, levels[i].price)
    BY <1>1 DEF Sorted
  <2> QED BY <1>1, <2>1, AheadOrder, Zenon
<1>4. /\ \A o : o \in RestingOn(levels) <=>
           \E j \in 1 .. Len(levels) : o \in Range(levels[j].orders)
      /\ \A o : o \in Elsewhere(levels, i) <=>
           \E j \in 1 .. Len(levels) : j # i /\ o \in Range(levels[j].orders)
  BY RestingSomewhere
<1>5. \A o : o \in RestingOn(levels) <=> o \in Range(levels[i].orders) \/ o \in Elsewhere(levels, i)
  BY <1>4, Zenon
<1>6. \A o \in Elsewhere(levels, i) : o \in Order /\ o.price # levels[i].price
  BY <1>2, <1>3, <1>4
<1> QED BY <1>2, <1>5, <1>6, Zenon

(* new is s with e in the place of its i-th element. *)
Replaced(new, s, i, e) ==
  Len(new) = Len(s) /\ \A k \in 1 .. Len(s) : new[k] = IF k = i THEN e ELSE s[k]

(* What rests after one level is replaced. *)
LEMMA ReplaceResting ==
  ASSUME NEW levels, Len(levels) \in Nat, NEW i \in 1 .. Len(levels), NEW new, NEW level,
         Replaced(new, levels, i, level)
  PROVE  /\ RestingOn(new) = Range(level.orders) \cup Elsewhere(levels, i)
         /\ SideExact(levels) /\ LevelExact(level) => SideExact(new)
<1>1. /\ Len(new) = Len(levels) /\ new[i] = level
      /\ \A k \in 1 .. Len(levels) : k # i => new[k] = levels[k]
  BY Zenon DEF Replaced
<1>2. RestingOn(new) = Range(level.orders) \cup Elsewhere(levels, i)
  <2>1. \A o : o \in RestingOn(new) <=> \E j \in 1 .. Len(levels) : o \in Range(new[j].orders)
    BY <1>1, RestingSomewhere, Zenon
  <2>2. \A o : o \in Elsewhere(levels, i) <=>
               \E j \in 1 .. Len(levels) : j # i /\ o \in Range(levels[j].orders)
    BY RestingSomewhere, Zenon
  <2>3. \A o : o \in RestingOn(new) <=> o \in Range(level.orders) \/ o \in Elsewhere(levels, i)
    BY <1>1, <2>1, <2>2
  <2> QED BY <2>3
<1>3. SideExact(levels) /\ LevelExact(level) => SideExact(new)
  BY <1>1, Zenon DEF SideExact
<1> QED BY <1>2, <1>3

(* What rests after one level is dropped. *)
LEMMA DropResting ==
  ASSUME NEW levels, Len(levels) \in Nat, NEW i \in 1 .. Len(levels), NEW new,
         Erased(new, levels, i)
  PROVE  RestingOn(new) = Elsewhere(levels, i) /\ (SideExact(levels) => SideExact(new))
<1>0. Len(new) = Len(levels) - 1
  BY DEF Erased
<1>1. \A k \in 1 .. Len(new) : \E j \in 1 .. Len(levels) : j # i /\ new[k] = levels[j]
  <2> SUFFICES ASSUME NEW k \in 1 .. Len(new)
               PROVE  \E j \in 1 .. Len(levels) : j # i /\ new[k] = levels[j]
    OBVIOUS
  <2>1. CASE k < i
    BY <1>0, <2>1 DEF Erased
  <2>2. CASE k >= i
    <3>1. k + 1 \in 1 .. Len(levels) /\ k + 1 # i /\ new[k] = levels[k + 1]
      BY <1>0, <2>2 DEF Erased
    <3> QED BY <3>1
  <2> QED BY <1>0, <2>1, <2>2
<1>2. \A j \in 1 .. Len(levels) : j # i => \E k \in 1 .. Len(new) : new[k] = levels[j]
  <2> SUFFICES ASSUME NEW j \in 1 .. Len(levels), j # i
               PROVE  \E k \in 1 .. Len(new) : new[k] = levels[j]
    OBVIOUS
  <2>1. CASE j < i
    BY <1>0, <2>1 DEF Erased
  <2>2. CASE j > i
    <3>1. j - 1 \in 1 .. Len(new) /\ new[j - 1] = levels[j]
      BY <1>0, <2>2 DEF Erased
    <3> QED BY <3>1
  <2> QED BY <1>0, <2>1, <2>2
<1>3. \A o : o \in RestingOn(new) <=> o \in Elsewhere(levels, i)
  <2>1. \A o : o \in RestingOn(new) <=> \E k \in 1 .. Len(new) : o \in Range(new[k].orders)
    BY RestingSomewhere, Zenon
  <2>2. \A o : o \in Elsewhere(levels, i) <=>
               \E j \in 1 .. Len(levels) : j # i /\ o \in Range(levels[j].orders)
    BY RestingSomewhere
  <2>3. \A o : o \in RestingOn(new) => o \in Elsewhere(levels, i)
    BY <1>1, <2>1, <2>2, Zenon
  <2>4. \A o : o \in Elsewhere(levels, i) => o \in RestingOn(new)
    BY <1>2, <2>1, <2>2
  <2> QED BY <2>3, <2>4
<1>4. SideExact(levels) => SideExact(new)
  BY <1>1, Zenon DEF SideExact
<1> QED BY <1>3, <1>4, Zenon

(* What rests after a new level is put in. *)
LEMMA InsertResting ==
  ASSUME NEW levels, Len(levels) \in Nat, NEW i \in 1 .. Len(levels) + 1, NEW new, NEW level,
         Inserted(new, levels, i, level)
  PROVE  /\ RestingOn(new) = RestingOn(levels) \cup Range(level.orders)
         /\ SideExact(levels) /\ LevelExact(level) => SideExact(new)
<1>0. Len(new) = Len(levels) + 1
  BY Zenon DEF Inserted
<1>1. \A k \in 1 .. Len(new) : new[k] = level \/ \E j \in 1 .. Len(levels) : new[k] = levels[j]
  <2> SUFFICES ASSUME NEW k \in 1 .. Len(new)
               PROVE  new[k] = level \/ \E j \in 1 .. Len(levels) : new[k] = levels[j]
    OBVIOUS
  <2>1. CASE k < i
    BY <1>0, <2>1 DEF Inserted
  <2>2. CASE k = i
    BY <1>0, <2>2 DEF Inserted
  <2>3. CASE k > i
    <3>1. k - 1 \in 1 .. Len(levels) /\ new[k] = levels[k - 1]
      BY <1>0, <2>3 DEF Inserted
    <3> QED BY <3>1
  <2> QED BY <1>0, <2>1, <2>2, <2>3
<1>2. \A j \in 1 .. Len(levels) : \E k \in 1 .. Len(new) : new[k] = levels[j]
  <2> SUFFICES ASSUME NEW j \in 1 .. Len(levels)
               PROVE  \E k \in 1 .. Len(new) : new[k] = levels[j]
    OBVIOUS
  <2>1. CASE j < i
    BY <1>0, <2>1 DEF Inserted
  <2>2. CASE j >= i
    <3>1. j + 1 \in 1 .. Len(new) /\ new[j + 1] = levels[j]
      BY <1>0, <2>2 DEF Inserted
    <3> QED BY <3>1
  <2> QED BY <1>0, <2>1, <2>2
<1>3. i \in 1 .. Len(new) /\ new[i] = level
  BY <1>0 DEF Inserted
<1>4. RestingOn(new) = RestingOn(levels) \cup Range(level.orders)
  <2>1. \A o : o \in RestingOn(new) <=> \E k \in 1 .. Len(new) : o \in Range(new[k].orders)
    BY RestingSomewhere, Zenon
  <2>2. \A o : o \in RestingOn(levels) <=> \E j \in 1 .. Len(levels) : o \in Range(levels[j].orders)
    BY RestingSomewhere, Zenon
  <2>3. \A o : o \in RestingOn(new) => o \in RestingOn(levels) \/ o \in Range(level.orders)
    BY <1>1, <2>1, <2>2, Zenon
  <2>4. \A o : o \in RestingOn(levels) \/ o \in Range(level.orders) => o \in RestingOn(new)
    BY <1>2, <1>3, <2>1, <2>2, Zenon
  <2> QED BY <2>3, <2>4
<1>5. SideExact(levels) /\ LevelExact(level) => SideExact(new)
  BY <1>1, Zenon DEF SideExact
<1> QED BY <1>4, <1>5
-----------------------------------------------------------------------------
(* Taking an order out of the queue of a level. *)
LEMMA EraseInOrder ==
  ASSUME NEW orders \in Seq(Order), InTimeOrder(orders), NEW i \in 1 .. Len(orders),
         NEW new \in Seq(Order), Erased(new, orders, i)
  PROVE  InTimeOrder(new) /\ Range(new) = Range(orders) \ {orders[i]}
<1>1. Len(orders) \in Nat /\ \A k \in 1 .. Len(orders) : orders[k] \in Order /\ orders[k].id \in Nat
  <2>1. \A k \in 1 .. Len(orders) : orders[k] \in Order
    BY SeqElement, Zenon
  <2> QED BY <2>1, SeqLen, Zenon DEF Order
<1>0. Len(new) = Len(orders) - 1
  BY Zenon DEF Erased
<1>2. InTimeOrder(new)
  <2> SUFFICES ASSUME NEW j \in 1 .. Len(new), NEW k \in 1 .. Len(new), j < k
               PROVE  new[j].id < new[k].id
    BY DEF InTimeOrder
  <2>1. CASE k < i
    <3>1. new[j] = orders[j] /\ new[k] = orders[k] /\ k \in 1 .. Len(orders)
          /\ j \in 1 .. Len(orders)
      BY <1>0, <1>1, <2>1 DEF Erased
    <3> QED BY <3>1 DEF InTimeOrder
  <2>2. CASE j < i /\ k >= i
    <3>1. new[j] = orders[j] /\ new[k] = orders[k + 1]
      BY <1>0, <1>1, <2>2 DEF Erased
    <3>2. j \in 1 .. Len(orders) /\ k + 1 \in 1 .. Len(orders) /\ j < k + 1
      BY <1>0, <1>1, <2>2
    <3> QED BY <3>1, <3>2, Zenon DEF InTimeOrder
  <2>3. CASE j >= i
    <3>1. new[j] = orders[j + 1] /\ new[k] = orders[k + 1]
      BY <1>0, <1>1, <2>3 DEF Erased
    <3>2. j + 1 \in 1 .. Len(orders) /\ k + 1 \in 1 .. Len(orders) /\ j + 1 < k + 1
      BY <1>0, <1>1, <2>3
    <3> QED BY <3>1, <3>2, Zenon DEF InTimeOrder
  <2> QED BY <2>1, <2>2, <2>3
<1>3. /\ \A o : o \in Range(new) <=> \E k \in 1 .. Len(new) : o = new[k]
      /\ \A o : o \in Range(orders) <=> \E k \in 1 .. Len(orders) : o = orders[k]
  BY ElementsOf
<1>4. \A k \in 1 .. Len(orders) : k # i => orders[k] # orders[i]
  <2> SUFFICES ASSUME NEW k \in 1 .. Len(orders), k # i PROVE orders[k].id # orders[i].id
    OBVIOUS
  <2>1. CASE k < i
    BY <1>1, <2>1 DEF InTimeOrder
  <2>2. CASE i < k
    BY <1>1, <2>2 DEF InTimeOrder
  <2> QED BY <2>1, <2>2
<1>5. ASSUME NEW k \in 1 .. Len(new) PROVE new[k] \in Range(orders) /\ new[k] # orders[i]
  <2>1. CASE k < i
    <3>1. k \in 1 .. Len(orders) /\ k # i /\ new[k] = orders[k]
      BY <1>0, <1>1, <2>1 DEF Erased
    <3> QED BY <1>3, <1>4, <3>1, Zenon
  <2>2. CASE k >= i
    <3>1. k + 1 \in 1 .. Len(orders) /\ k + 1 # i /\ new[k] = orders[k + 1]
      BY <1>0, <1>1, <2>2 DEF Erased
    <3> QED BY <1>3, <1>4, <3>1, Zenon
  <2> QED BY <2>1, <2>2
<1>6. ASSUME NEW k \in 1 .. Len(orders), k # i PROVE orders[k] \in Range(new)
  <2>1. CASE k < i
    <3>1. k \in 1 .. Len(new) /\ new[k] = orders[k]
      BY <1>0, <1>1, <2>1 DEF Erased
    <3> QED BY <1>3, <3>1, Zenon
  <2>2. CASE k > i
    <3>1. k - 1 \in 1 .. Len(new) /\ new[k - 1] = orders[k]
      BY <1>0, <1>1, <2>2 DEF Erased
    <3> QED BY <1>3, <3>1, Zenon
  <2> QED BY <1>6, <2>1, <2>2
<1>7. Range(new) = Range(orders) \ {orders[i]}
  <2>1. \A o \in Range(new) : o \in Range(orders) /\ o # orders[i]
    BY <1>3, <1>5
  <2>2. \A o \in Range(orders) : o # orders[i] => o \in Range(new)
    BY <1>3, <1>6
  <2> QED BY <2>1, <2>2
<1> QED BY <1>2, <1>7

(* A smaller remainder of the same order in its place. *)
LEMMA ReplaceInOrder ==
  ASSUME NEW orders \in Seq(Order), InTimeOrder(orders), NEW i \in 1 .. Len(orders),
         NEW o \in Order, o.id = orders[i].id, NEW new \in Seq(Order),
         Replaced(new, orders, i, o)
  PROVE  InTimeOrder(new) /\ Range(new) = (Range(orders) \ {orders[i]}) \cup {o}
<1>1. Len(orders) \in Nat /\ \A k \in 1 .. Len(orders) : orders[k] \in Order /\ orders[k].id \in Nat
  <2>1. \A k \in 1 .. Len(orders) : orders[k] \in Order
    BY SeqElement
  <2> QED BY <2>1, SeqLen, Zenon DEF Order
<1>2. /\ new \in Seq(Order) /\ Len(new) = Len(orders)
      /\ \A k \in 1 .. Len(orders) : new[k] = IF k = i THEN o ELSE orders[k]
  BY Zenon DEF Replaced
<1>3. \A k \in 1 .. Len(orders) : new[k].id = orders[k].id
  BY <1>2, Zenon
<1>4. InTimeOrder(new)
  BY <1>2, <1>3 DEF InTimeOrder
<1>5. /\ \A p : p \in Range(new) <=> \E k \in 1 .. Len(orders) : p = new[k]
      /\ \A p : p \in Range(orders) <=> \E k \in 1 .. Len(orders) : p = orders[k]
  BY <1>2, ElementsOf
<1>6. \A k \in 1 .. Len(orders) : k # i => orders[k] # orders[i]
  <2> SUFFICES ASSUME NEW k \in 1 .. Len(orders), k # i PROVE orders[k].id # orders[i].id
    OBVIOUS
  <2>1. CASE k < i
    BY <1>1, <2>1 DEF InTimeOrder
  <2>2. CASE i < k
    BY <1>1, <2>2 DEF InTimeOrder
  <2> QED BY <2>1, <2>2
<1>7. \A p \in Range(new) : p = o \/ (p \in Range(orders) /\ p # orders[i])
  BY <1>2, <1>5, <1>6
<1>8. \A p : p = o \/ (p \in Range(orders) /\ p # orders[i]) => p \in Range(new)
  BY <1>2, <1>5
<1> QED BY <1>4, <1>7, <1>8, Zenon

(* An empty level holds nothing. *)
LEMMA TotalEmpty ==
  ASSUME WellOrdered
  PROVE  Total(<<>>) = 0
<1>1. <<>> \in Seq(Order) /\ Len(<<>>) = 0
  BY SeqEmpty
<1> DEFINE g == [k \in 0 .. 0 |-> 0]
<1>2. Sums(<<>>, g, Len(<<>>)) /\ g[0] = 0
  BY <1>1 DEF Sums
<1> HIDE DEF g
<1> QED BY <1>1, <1>2, TotalIs, Zenon

(* o came after all of these orders. *)
Latest(orders, o) == \A p \in orders : p.id < o.id

(* A new level holds its order. *)
LEMMA NewLevelExact ==
  ASSUME WellOrdered, NEW o \in Order
  PROVE  LevelExact(NewLevel(o)) /\ Range(NewLevel(o).orders) = {o}
<1> DEFINE none == <<>>
           one == <<o>>
<1>1. /\ none \in Seq(Order) /\ Append(none, o) = one /\ Total(none) = 0 /\ o.qty \in Int
      /\ one \in Seq(Order) /\ Len(one) = 1 /\ one[1] = o
  BY SeqEmpty, TotalEmpty DEF Order
<1>2. NewLevel(o).orders = one /\ NewLevel(o).total_qty = o.qty
  BY DEF NewLevel
<1> HIDE DEF none, one
<1>3. Total(one) = o.qty
  <2>1. Total(Append(none, o)) = Total(none) + o.qty
    BY <1>1, TotalAppend, Zenon
  <2> QED BY <1>1, <2>1
<1>4. InTimeOrder(one)
  BY <1>1 DEF InTimeOrder
<1>5. Range(one) = {o}
  <2>1. \A p : p \in Range(one) <=> \E k \in 1 .. Len(one) : p = one[k]
    BY <1>1, ElementsOf
  <2> QED BY <1>1, <2>1
<1> QED BY <1>2, <1>3, <1>4, <1>5 DEF LevelExact

(* An order joins the level of its price, exactly. *)
LEMMA JoinLevelExact ==
  ASSUME WellOrdered, NEW level, LevelOK(level), LevelExact(level), NEW o \in Order,
         Latest(Range(level.orders), o)
  PROVE  /\ LevelExact(JoinLevel(level, o))
         /\ Range(JoinLevel(level, o).orders) = Range(level.orders) \cup {o}
<1> DEFINE orders == level.orders
           new == Append(orders, o)
<1>1. level \in Level /\ orders \in Seq(Order) /\ level.total_qty \in Int
  BY Zenon DEF LevelOK, Level
<1>2. /\ new \in Seq(Order) /\ Len(new) = Len(orders) + 1 /\ Len(orders) \in Nat
      /\ \A k \in 1 .. Len(orders) : new[k] = orders[k]
      /\ new[Len(orders) + 1] = o
  BY <1>1, SeqAppend, SeqLen
<1>3. Total(new) = Total(orders) + o.qty
  BY <1>1, TotalAppend
<1>4. JoinLevel(level, o).orders = new /\ JoinLevel(level, o).total_qty = level.total_qty + o.qty
  BY <1>1 DEF JoinLevel, Level
<1> HIDE DEF new
<1>5. /\ \A p : p \in Range(new) <=> \E k \in 1 .. Len(orders) + 1 : p = new[k]
      /\ \A p : p \in Range(orders) <=> \E k \in 1 .. Len(orders) : p = orders[k]
  <2>1. \A p : p \in Range(new) <=> \E k \in 1 .. Len(new) : p = new[k]
    BY <1>2, ElementsOf, Zenon
  <2> QED BY <1>1, <1>2, <2>1, ElementsOf, Zenon
<1>6. InTimeOrder(new)
  <2> SUFFICES ASSUME NEW j \in 1 .. Len(new), NEW k \in 1 .. Len(new), j < k
               PROVE  new[j].id < new[k].id
    BY DEF InTimeOrder
  <2>1. CASE k = Len(orders) + 1
    <3>1. j \in 1 .. Len(orders) /\ new[j] = orders[j] /\ new[k] = o
      BY <1>2, <2>1
    <3>2. orders[j] \in Range(orders)
      BY <1>5, <3>1, Zenon
    <3> QED BY <3>1, <3>2, Zenon DEF Latest
  <2>2. CASE k \in 1 .. Len(orders)
    <3>1. j \in 1 .. Len(orders) /\ new[j] = orders[j] /\ new[k] = orders[k]
      BY <1>2, <2>2
    <3> QED BY <2>2, <3>1, Zenon DEF LevelExact, InTimeOrder
  <2> QED BY <1>2, <2>1, <2>2
<1>7. \A p : p \in Range(new) <=> p \in Range(orders) \/ p = o
  <2>1. \A p : p \in Range(new) => p \in Range(orders) \/ p = o
    BY <1>2, <1>5
  <2>2. \A p : p \in Range(orders) \/ p = o => p \in Range(new)
    BY <1>2, <1>5
  <2> QED BY <2>1, <2>2, Zenon
<1> QED BY <1>3, <1>4, <1>6, <1>7, Zenon DEF LevelExact

(* An order is added to a side: it rests there with the others. *)
LEMMA AddToSideExact ==
  ASSUME WellOrdered, NEW side \in Side, NEW levels, SideOK(side, levels), SideExact(levels),
         NEW o \in Order, Latest(RestingOn(levels), o)
  PROVE  LET new == AddToSide(side, levels, o)
         IN  SideExact(new) /\ RestingOn(new) = RestingOn(levels) \cup {o}
<1> DEFINE new == AddToSide(side, levels, o)
           i == LowerBound(side, levels, o.price)
<1>1. o.price \in Int
  BY DEF Order
<1>2. i \in 1 .. Len(levels) + 1
  BY <1>1, LowerBoundExists, Zenon
<1>3. /\ levels \in Seq(Level) /\ Len(levels) \in Nat
      /\ \A k \in 1 .. Len(levels) : LevelOK(levels[k])
  BY SideOKLevels, LevelPrices, Zenon
<1>4. CASE HasLevel(levels, i, o.price)
  <2>1. i \in 1 .. Len(levels)
    BY <1>2, <1>3, <1>4 DEF HasLevel
  <2> DEFINE level == JoinLevel(levels[i], o)
  <2>2. new = [levels EXCEPT ![i] = level]
    BY <1>3, <1>4, <2>1, Zenon DEF AddToSide
  <2> HIDE DEF i
  <2>3. RestingOn(levels) = Range(levels[i].orders) \cup Elsewhere(levels, i)
    BY <2>1, SplitSide, Zenon
  <2>4. LevelExact(level) /\ Range(level.orders) = Range(levels[i].orders) \cup {o}
    <3>1. Latest(Range(levels[i].orders), o)
      BY <2>3, Zenon DEF Latest
    <3>2. LevelOK(levels[i]) /\ LevelExact(levels[i])
      BY <1>3, <2>1, Zenon DEF SideExact
    <3> QED BY <3>1, <3>2, JoinLevelExact
  <2>5. level \in Level
    <3>1. o.price = levels[i].price
      BY <1>4 DEF HasLevel, i
    <3> QED BY <1>3, <2>1, <3>1, JoinLevelOK, Zenon DEF LevelOK
  <2> HIDE DEF level, new
  <2>6. Replaced(new, levels, i, level)
    BY <1>3, <2>1, <2>2, <2>5, SeqExcept DEF Replaced
  <2>7. RestingOn(new) = Range(level.orders) \cup Elsewhere(levels, i) /\ SideExact(new)
    BY <1>3, <2>1, <2>4, <2>6, ReplaceResting, Zenon
  <2>8. RestingOn(new) = RestingOn(levels) \cup {o}
    BY <2>3, <2>4, <2>7
  <2> QED BY <2>7, <2>8, Zenon DEF new
<1>5. CASE ~HasLevel(levels, i, o.price)
  <2> DEFINE level == NewLevel(o)
  <2>1. new = InsertBefore(levels, i, level)
    BY <1>5, Zenon DEF AddToSide
  <2>2. level \in Level
    BY NewLevelOK DEF LevelOK
  <2>3. LevelExact(level) /\ Range(level.orders) = {o}
    BY NewLevelExact
  <2> HIDE DEF level, new, i
  <2>4. Inserted(new, levels, i, level)
    BY <1>2, <1>3, <2>1, <2>2, InsertBeforeProperties, Zenon
  <2>5. /\ RestingOn(new) = RestingOn(levels) \cup Range(level.orders)
        /\ SideExact(levels) /\ LevelExact(level) => SideExact(new)
    BY <1>2, <1>3, <2>4, InsertResting, Zenon
  <2> QED BY <2>3, <2>5, Zenon DEF new
<1> QED BY <1>4, <1>5

(* A level whose queue is empty leaves the side, another one is changed in
   place. *)
LEMMA ChangeResting ==
  ASSUME NEW side \in Side, NEW levels, SideOK(side, levels), SideExact(levels),
         NEW i \in 1 .. Len(levels), NEW level, level \in Level, LevelExact(level), NEW new,
         level.orders = <<>> => Erased(new, levels, i),
         level.orders # <<>> => new = [levels EXCEPT ![i] = level]
  PROVE  SideExact(new) /\ RestingOn(new) = Range(level.orders) \cup Elsewhere(levels, i)
<1>1. levels \in Seq(Level) /\ Len(levels) \in Nat
  BY SideOKLevels, LevelPrices, Zenon
<1>2. CASE level.orders = <<>>
  <2>1. RestingOn(new) = Elsewhere(levels, i) /\ SideExact(new)
    BY <1>1, <1>2, DropResting, Zenon
  <2>2. Range(level.orders) = {}
    <3>1. level.orders \in Seq(Order) /\ Len(level.orders) = 0
      BY <1>2, SeqEmpty, Zenon
    <3>2. \A o : o \in Range(level.orders) <=> \E k \in 1 .. Len(level.orders) : o = level.orders[k]
      BY <3>1, ElementsOf
    <3> QED BY <3>1, <3>2
  <2> QED BY <2>1, <2>2
<1>3. CASE level.orders # <<>>
  <2>1. Replaced(new, levels, i, level)
    BY <1>1, <1>3, SeqExcept DEF Replaced
  <2> QED BY <1>1, <2>1, ReplaceResting, Zenon
<1> QED BY <1>2, <1>3, Zenon

(* A cancelled order, and no other, no longer rests. *)
LEMMA RemoveFromSideExact ==
  ASSUME WellOrdered, NEW side \in Side, NEW levels, SideOK(side, levels), SideExact(levels),
         NEW i \in 1 .. Len(levels), NEW id, IndexOf(levels[i].orders, id) # 0
  PROVE  LET new == RemoveFromSide(levels, i, id)
         IN  /\ SideExact(new)
             /\ \E o \in RestingOn(levels) : o.id = id /\ RestingOn(new) = RestingOn(levels) \ {o}
<1> DEFINE new == RemoveFromSide(levels, i, id)
           orders == levels[i].orders
           k == IndexOf(orders, id)
           left == EraseAt(orders, k)
           level == LeaveLevel(levels[i], k)
<1>1. levels \in Seq(Level) /\ LevelOK(levels[i]) /\ LevelExact(levels[i])
  BY SideOKLevels, Zenon DEF SideExact
<1>2. levels[i] \in Level /\ orders \in Seq(Order) /\ Len(orders) \in Nat
      /\ levels[i].total_qty \in Int
  BY <1>1, SeqLen, Zenon DEF LevelOK, Level
<1>3. k \in 1 .. Len(orders) /\ orders[k].id = id
  BY <1>2, IndexOfOK, Zenon
<1>4. orders[k] \in Order /\ orders[k].qty \in Int
  <2>1. orders[k] \in Order
    BY <1>2, <1>3, SeqElement
  <2> QED BY <2>1 DEF Order
<1>5. level = [levels[i] EXCEPT !.total_qty = @ - orders[k].qty, !.orders = left]
  BY Zenon DEF LeaveLevel
<1>6. new = IF level.orders = <<>> THEN EraseAt(levels, i) ELSE [levels EXCEPT ![i] = level]
  BY Zenon DEF RemoveFromSide
<1> HIDE DEF k, new
<1>7. left \in Seq(Order) /\ Erased(left, orders, k)
  BY <1>2, <1>3, EraseAtProperties, Zenon
<1> HIDE DEF left, orders, level
<1>8. level \in Level /\ level.orders = left
      /\ level.total_qty = levels[i].total_qty - orders[k].qty
  <2>1. levels[i].total_qty - orders[k].qty \in Int
    BY <1>2, <1>4
  <2> QED BY <1>2, <1>5, <1>7, <2>1, Zenon DEF Level
<1>9. InTimeOrder(orders) /\ levels[i].total_qty = Total(orders)
  BY <1>1 DEF LevelExact, orders
<1>10. InTimeOrder(left) /\ Range(left) = Range(orders) \ {orders[k]}
       /\ Total(left) = Total(orders) - orders[k].qty
  BY <1>2, <1>3, <1>7, <1>9, EraseInOrder, TotalErase, Zenon
<1>11. LevelExact(level)
  BY <1>8, <1>9, <1>10 DEF LevelExact
<1>12. SideExact(new) /\ RestingOn(new) = Range(left) \cup Elsewhere(levels, i)
  <2>1. Erased(EraseAt(levels, i), levels, i)
    BY <1>1, EraseAtProperties, Zenon
  <2>2. /\ level.orders = <<>> => Erased(new, levels, i)
        /\ level.orders # <<>> => new = [levels EXCEPT ![i] = level]
    BY <1>6, <2>1, Zenon
  <2>3. SideExact(new) /\ RestingOn(new) = Range(level.orders) \cup Elsewhere(levels, i)
    BY <1>8, <1>11, <2>2, ChangeResting, Zenon
  <2> QED BY <1>8, <2>3, Zenon
<1>13. RestingOn(levels) = Range(orders) \cup Elsewhere(levels, i)
       /\ (\A o \in Range(orders) : o.price = levels[i].price)
       /\ (\A o \in Elsewhere(levels, i) : o.price # levels[i].price)
  BY SplitSide DEF orders
<1>14. orders[k] \in Range(orders)
  BY <1>2, <1>3, ElementsOf, Zenon
<1>15. orders[k] \in RestingOn(levels) /\ RestingOn(new) = RestingOn(levels) \ {orders[k]}
  BY <1>10, <1>12, <1>13, <1>14, Zenon
<1> QED BY <1>3, <1>12, <1>15, Zenon DEF new

(* What is left of a side when qty is taken from its front order. *)
Left(resting, front, qty) ==
  (resting \ {front}) \cup (IF front.qty = qty THEN {} ELSE {FillOrder(front, qty)})

(* A fill changes nothing but the front order of a side, which is the first of
   the side in price-time priority. *)
LEMMA TakeFrontExact ==
  ASSUME WellOrdered, NEW side \in Side, NEW levels, SideOK(side, levels), SideExact(levels),
         levels # <<>>,
         NEW qty \in Nat \ {0}, qty <= FrontOrder(levels).qty
  PROVE  LET new == TakeFront(levels, qty)
             front == FrontOrder(levels)
         IN  SideExact(new) /\ RestingOn(new) = Left(RestingOn(levels), front, qty)
<1> DEFINE new == TakeFront(levels, qty)
           front == FrontOrder(levels)
           orders == Head(levels).orders
           rest == FillOrder(orders[1], qty)
           left == IF front.qty = qty THEN Tail(orders) ELSE [orders EXCEPT ![1] = rest]
           level == FillLevel(levels[1], left, qty)
<1>1. levels \in Seq(Level) /\ Len(levels) \in Nat \ {0} /\ Head(levels) = levels[1]
  BY SideOKLevels, SeqEmpty
<1>2. /\ front = orders[1] /\ front \in Order /\ LevelOK(levels[1]) /\ 1 \in 1 .. Len(levels)
      /\ orders = levels[1].orders
  BY <1>1, FrontOrderOK, Zenon
<1>3. /\ levels[1] \in Level /\ orders \in Seq(Order) /\ orders # <<>>
           /\ levels[1].total_qty \in Int
      /\ Len(orders) \in Nat \ {0} /\ 1 \in 1 .. Len(orders)
      /\ front.qty \in Nat /\ qty <= front.qty
  <2>1. levels[1] \in Level /\ orders \in Seq(Order) /\ orders # <<>> /\ levels[1].total_qty \in Int
    BY <1>2, Zenon DEF LevelOK, Level
  <2>2. Len(orders) \in Nat \ {0}
    BY <2>1, SeqEmpty, Zenon
  <2> QED BY <1>2, <2>1, <2>2 DEF Order
<1>4. InTimeOrder(orders) /\ levels[1].total_qty = Total(orders)
  BY <1>2 DEF SideExact, LevelExact
<1>5. new = IF left = <<>> THEN Tail(levels) ELSE [levels EXCEPT ![1] = level]
  BY Zenon DEF TakeFront
<1> HIDE DEF new, front, orders
<1>6. /\ left \in Seq(Order) /\ InTimeOrder(left) /\ Total(left) = Total(orders) - qty
      /\ Range(left) = Left(Range(orders), front, qty)
  <2>1. CASE front.qty = qty
    <3> DEFINE tail == Tail(orders)
    <3>1. tail \in Seq(Order) /\ Erased(tail, orders, 1)
      BY <1>3, SeqTail, Zenon
    <3> HIDE DEF tail
    <3>3. /\ InTimeOrder(tail) /\ Range(tail) = Range(orders) \ {orders[1]}
          /\ Total(tail) = Total(orders) - orders[1].qty
      BY <1>3, <1>4, <3>1, EraseInOrder, TotalErase, Zenon
    <3> QED BY <1>2, <2>1, <3>1, <3>3 DEF tail, Left
  <2>2. CASE front.qty # qty
    <3>1. front.qty - qty \in Nat \ {0}
      BY <1>3, <2>2
    <3>2. rest \in Order /\ rest.id = front.id /\ rest.qty = front.qty - qty
          /\ rest = FillOrder(front, qty)
      BY <1>2, <3>1, Zenon DEF Order, FillOrder
    <3> HIDE DEF rest
    <3> DEFINE put == [orders EXCEPT ![1] = rest]
    <3>3. put \in Seq(Order)
      BY <1>3, <3>2, SeqExcept, Zenon
    <3>4. InTimeOrder(put) /\ Range(put) = (Range(orders) \ {orders[1]}) \cup {rest}
      <4>1. /\ orders \in Seq(Order) /\ InTimeOrder(orders) /\ 1 \in 1 .. Len(orders)
            /\ rest \in Order /\ rest.id = orders[1].id
        BY <1>2, <1>3, <1>4, <3>2, Zenon
      <4>2. Replaced(put, orders, 1, rest)
        BY <4>1, SeqExcept DEF Replaced
      <4> HIDE DEF put
      <4> QED BY <3>3, <4>1, <4>2, ReplaceInOrder
    <3>5. Total(put) = Total(orders) - orders[1].qty + rest.qty
      BY <1>3, <3>2, TotalReplace, Zenon
    <3> HIDE DEF put
    <3>6. Total(orders) \in Int
      BY <1>3, <1>4, Zenon
    <3>7. Total(put) = Total(orders) - qty
      BY <1>2, <1>3, <3>2, <3>5, <3>6
    <3> QED BY <1>2, <2>2, <3>2, <3>3, <3>4, <3>7, Zenon DEF put, Left
  <2> QED BY <2>1, <2>2, Zenon
<1> HIDE DEF left, rest
<1>7. level \in Level /\ level.orders = left /\ level.total_qty = levels[1].total_qty - qty
  <2>1. levels[1].total_qty - qty \in Int
    BY <1>3
  <2> QED BY <1>3, <1>6, <2>1, Zenon DEF Level, FillLevel
<1> HIDE DEF level
<1>8. LevelExact(level)
  BY <1>4, <1>6, <1>7 DEF LevelExact
<1>9. SideExact(new) /\ RestingOn(new) = Range(left) \cup Elsewhere(levels, 1)
  <2>1. Erased(Tail(levels), levels, 1)
    BY <1>1, SeqTail, Zenon
  <2>2. /\ level.orders = <<>> => Erased(new, levels, 1)
        /\ level.orders # <<>> => new = [levels EXCEPT ![1] = level]
    BY <1>5, <1>7, <2>1, Zenon
  <2>3. SideExact(new) /\ RestingOn(new) = Range(level.orders) \cup Elsewhere(levels, 1)
    BY <1>2, <1>7, <1>8, <2>2, ChangeResting, Zenon
  <2> QED BY <1>7, <2>3, Zenon
<1>10. RestingOn(levels) = Range(orders) \cup Elsewhere(levels, 1)
       /\ (\A o \in Range(orders) : o.price = levels[1].price)
       /\ (\A o \in Elsewhere(levels, 1) : o.price # levels[1].price)
  BY <1>2, SplitSide
<1>11. front \in Range(orders)
  BY <1>2, <1>3, ElementsOf, Zenon
<1>12. RestingOn(new) = Left(RestingOn(levels), front, qty)
  <2>1. front \notin Elsewhere(levels, 1)
    BY <1>10, <1>11, Zenon
  <2> QED BY <1>6, <1>9, <1>10, <2>1 DEF Left
<1> QED BY <1>9, <1>12 DEF new, front

(* The front of the best level comes before all that rests. *)
LEMMA FrontIsFirst ==
  ASSUME NEW side \in Side, NEW levels, SideOK(side, levels), SideExact(levels), levels # <<>>
  PROVE  LET front == FrontOrder(levels)
         IN  /\ front \in RestingOn(levels)
             /\ \A o \in RestingOn(levels) :
                  \/ o = front \/ Ahead(side, front.price, o.price)
                  \/ o.price = front.price /\ front.id < o.id
<1> DEFINE front == FrontOrder(levels)
<1>1. /\ front = levels[1].orders[1] /\ front.price = levels[1].price
      /\ LevelOK(levels[1]) /\ 1 \in 1 .. Len(levels) /\ Len(levels) \in Nat
  BY FrontOrderOK, LevelPrices, Zenon
<1>2. levels[1].orders \in Seq(Order) /\ 1 \in 1 .. Len(levels[1].orders)
  <2>1. levels[1].orders \in Seq(Order) /\ levels[1].orders # <<>>
    BY <1>1, Zenon DEF LevelOK, Level
  <2>2. Len(levels[1].orders) \in Nat \ {0}
    BY <2>1, SeqEmpty
  <2> QED BY <2>1, <2>2
<1> HIDE DEF front
<1>3. front \in RestingOn(levels)
  BY <1>1, <1>2, ElementsOf, RestingSomewhere, Zenon
<1>4. ASSUME NEW o \in RestingOn(levels)
      PROVE  \/ o = front \/ Ahead(side, front.price, o.price)
             \/ o.price = front.price /\ front.id < o.id
  <2>1. PICK j \in 1 .. Len(levels) : o \in Range(levels[j].orders)
    BY RestingSomewhere, Zenon
  <2>2. o.price = levels[j].price
    BY <2>1, SplitSide
  <2>3. CASE j = 1
    <3>1. PICK k \in 1 .. Len(levels[1].orders) : o = levels[1].orders[k]
      BY <1>2, <2>1, <2>3, ElementsOf, Zenon
    <3>2. k = 1 \/ levels[1].orders[1].id < levels[1].orders[k].id
      BY <1>1, <1>2 DEF SideExact, LevelExact, InTimeOrder
    <3> QED BY <1>1, <2>2, <2>3, <3>1, <3>2, Zenon
  <2>4. CASE j # 1
    BY <1>1, <2>2, <2>4 DEF SideOK, Sorted
  <2> QED BY <2>3, <2>4
<1> QED BY <1>3, <1>4, Zenon DEF front
=============================================================================
