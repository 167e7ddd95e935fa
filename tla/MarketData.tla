----------------------------- MODULE MarketData -----------------------------
(***************************************************************************)
(* The market data of one subscriber: publish_book on the matching thread, *)
(* the bounded queue between the threads, and the conflating drain of the  *)
(* network thread (book_snapshot.hpp).                                     *)
(*                                                                         *)
(* The book is the number of times it has moved.  A snapshot carries that  *)
(* number and the sequence number of its publication.                      *)
(***************************************************************************)
EXTENDS Integers, Sequences

CONSTANTS Capacity,   \* what the queue holds (kMarketDataCapacity)
          MaxMoves,   \* bound on the moves of the book
          MaxSeq      \* bound on book_seq where another Subscribe publishes

ASSUME CapacityAssumption == Capacity \in Nat \ {0}

VARIABLES book,        \* the book, as the number of its moves
          registered,  \* is the session in subscribers_?
          book_seq,
          md,          \* the MarketDataQueue
          dropped,     \* did the queue refuse the last publication?
          unpublished, \* the moves since that no publication followed
          subscribed,  \* Connection::subscribed
          latest,      \* the snapshot the drain holds, NoSnapshot if none
          draining,
          client       \* the last BookUpdate queued for the client

market == <<book, registered, book_seq, md, dropped, unpublished, subscribed, latest, draining,
            client>>

NoSnapshot == [seq |-> 0, book |-> -1]

MarketInit ==
  /\ book = 0 /\ registered = FALSE /\ book_seq = 0
  /\ md = <<>> /\ dropped = FALSE /\ unpublished = 0
  /\ subscribed = FALSE /\ latest = NoSnapshot /\ draining = FALSE /\ client = NoSnapshot
-----------------------------------------------------------------------------
(* A publication that does not count. *)
PublishUncounted ==
  LET fits == Len(md) < Capacity
      snap == [seq |-> book_seq + 1, book |-> book']
  IN  /\ book_seq' = book_seq
      /\ md' = IF fits THEN Append(md, snap) ELSE md
      /\ dropped' = ~fits /\ unpublished' = 0

(* publish_book with this one subscriber: a snapshot the queue has no room for
   is dropped. *)
publish_book ==
  LET fits == Len(md) < Capacity
      snap == [seq |-> book_seq + 1, book |-> book']
  IN  /\ book_seq' = book_seq + 1
      /\ md' = IF fits THEN Append(md, snap) ELSE md
      /\ dropped' = ~fits /\ unpublished' = 0

(* A command that moves the book and publishes it.  Publications for other
   subscribers count. *)
Move ==
  /\ book < MaxMoves
  /\ book' = book + 1
  /\ \/ registered /\ publish_book
     \/ /\ ~registered /\ book_seq' \in {book_seq, book_seq + 1}
        /\ UNCHANGED <<md, dropped, unpublished>>
  /\ UNCHANGED <<registered, subscribed, latest, draining, client>>

(* A Modify whose replacement the risk gate refuses: the old order is gone, and
   apply_new_order returns before publish_book. *)
ModifyRefused ==
  /\ book < MaxMoves
  /\ book' = book + 1 /\ unpublished' = unpublished + 1
  /\ UNCHANGED <<registered, book_seq, md, dropped, subscribed, latest, draining, client>>

(* Subscribe of another session, or this one's again: the book that has not
   moved goes to every subscriber. *)
SubscribeAgain ==
  /\ book_seq < MaxSeq
  /\ UNCHANGED book
  /\ \/ registered /\ publish_book
     \/ ~registered /\ book_seq' = book_seq + 1 /\ UNCHANGED <<md, dropped, unpublished>>
  /\ UNCHANGED <<registered, subscribed, latest, draining, client>>

(* The network thread submits Subscribe, and will drain from now on. *)
DispatchSubscribe ==
  /\ ~subscribed /\ ~draining
  /\ subscribed' = TRUE
  /\ UNCHANGED <<book, registered, book_seq, md, dropped, unpublished, latest, draining, client>>

(* The matching thread applies it: "a fresh subscriber gets current state". *)
ApplySubscribe ==
  /\ subscribed /\ ~registered
  /\ registered' = TRUE /\ UNCHANGED book /\ publish_book
  /\ UNCHANGED <<subscribed, latest, draining, client>>

(* A drain that waits for a full queue. *)
DrainBeginFull ==
  /\ subscribed /\ ~draining /\ Len(md) = Capacity
  /\ draining' = TRUE
  /\ UNCHANGED <<book, registered, book_seq, md, dropped, unpublished, subscribed, latest, client>>

DrainBegin ==
  /\ subscribed /\ ~draining /\ md # <<>>
  /\ draining' = TRUE
  /\ UNCHANGED <<book, registered, book_seq, md, dropped, unpublished, subscribed, latest, client>>

(* A drain that sends the first snapshot it found. *)
DrainPopFirst ==
  /\ draining /\ md # <<>>
  /\ latest' = IF latest = NoSnapshot THEN Head(md) ELSE latest
  /\ md' = Tail(md)
  /\ UNCHANGED <<book, registered, book_seq, dropped, unpublished, subscribed, draining, client>>

DrainPop ==
  /\ draining /\ md # <<>>
  /\ latest' = Head(md) /\ md' = Tail(md)
  /\ UNCHANGED <<book, registered, book_seq, dropped, unpublished, subscribed, draining, client>>

(* The queue is empty: only the last snapshot goes out. *)
DrainEnd ==
  /\ draining /\ md = <<>>
  /\ client' = latest /\ latest' = NoSnapshot /\ draining' = FALSE
  /\ UNCHANGED <<book, registered, book_seq, md, dropped, unpublished, subscribed>>

MarketNext ==
  \/ Move \/ ModifyRefused \/ SubscribeAgain \/ DispatchSubscribe \/ ApplySubscribe
  \/ DrainBegin \/ DrainPop \/ DrainEnd

MarketSpec == MarketInit /\ [][MarketNext]_market

(* The network loop never waits while md holds something, and the matching
   thread is woken for a command. *)
FairSpec == MarketSpec /\ WF_market(ApplySubscribe) /\ WF_market(DrainBegin \/ DrainPop \/ DrainEnd)
-----------------------------------------------------------------------------
Snapshot == [seq : Nat, book : Nat]

(* The queue keeps to its capacity, and what it holds are snapshots. *)
MarketTypeOK ==
  /\ book \in Nat /\ book_seq \in Nat /\ unpublished \in Nat
  /\ md \in Seq(Snapshot) /\ Len(md) <= Capacity
  /\ latest \in Snapshot \cup {NoSnapshot} /\ client \in Snapshot \cup {NoSnapshot}
  /\ registered \in BOOLEAN /\ dropped \in BOOLEAN
  /\ subscribed \in BOOLEAN /\ draining \in BOOLEAN

(* "seq is strictly increasing" (PROTOCOL.md:118), and a later BookUpdate never
   shows an earlier book. *)
NeverBackwards ==
  [][client' # client => client'.seq > client.seq /\ client'.book >= client.book]_client

Drained == registered /\ ~draining /\ md = <<>>

(* A subscriber whose queue has been drained has the current book, but for the
   moves of refused Modifies since the last publication, or the queue refused
   that very publication: the next one makes up for every loss. *)
StaleOnlyAfterDrop == Drained /\ ~dropped => client.book = book - unpublished

(* When the book has come to rest the subscriber has it for good, unless the
   last publication was refused; refused Modifies behind it are never shown. *)
CatchesUp == <>[](subscribed => dropped \/ client.book = book - unpublished)
=============================================================================
