-------------------------- MODULE SessionLifecycle --------------------------
(***************************************************************************)
(* The life of a connection between the network thread (TcpServer) and the *)
(* matching thread: registration, order commands, the events that come     *)
(* back, and the tombstone protocol of egress.hpp that decides when a      *)
(* Connection and the queues it owns may be freed.                         *)
(*                                                                         *)
(* The two threads meet only in inbound and egress[s], bounded FIFO queues *)
(* (BoundedFifo), and in the overflow latch.  The network thread takes one *)
(* step per frame, per popped event and per close; the matching thread one *)
(* per command and one per pushed event.  The book is reduced to the set   *)
(* of live orders, each of one lot: which orders a new one meets is left   *)
(* open.                                                                   *)
(* Orders are looked up by session and client id: that key_of may give one *)
(* key to ids of two sessions is MatchingThread's subject.                 *)
(***************************************************************************)
EXTENDS Integers, Sequences

CONSTANTS Session,                 \* session ids, in the order they are given out
          ClientId,
          InboundCap, EgressCap,   \* what the queues hold
          MaxSent                  \* bound on the messages of all clients

(* next_session_id_ starts at 1. *)
ASSUME SessionAssumption == Session \subseteq Nat \ {0}

VARIABLES conn,      \* conns_ and the state of each Connection
          inbound,   \* InboundQueue
          egress,    \* each session's EgressQueue ...
          overflowed,\* ... and its latch
          net,       \* the session whose egress is being drained, or Polling
          thread,    \* the state of MatchingThread that concerns sessions
          sent       \* the messages received so far

(* No session: the network thread is not draining. *)
Polling == 0

vars == <<conn, inbound, egress, overflowed, net, thread, sent>>

(* close: close_mode is Immediate, AfterFlush is never asked for.  known:
   Session::live_orders_.  owed: messages that no answer has been queued for.
   past: what has happened to the session that the properties below except. *)
NoConnection == [state |-> "none", close |-> FALSE, known |-> {}, owed |-> 0,
                 past |-> {}]

(* registered: the keys of egress_.  pending: the events the current command
   has yet to push.  lost: the sessions whose tombstone found a full queue, or
   whose CancelAll could not be logged.  unlogged: those of which another
   command could not. *)
Init ==
  /\ conn = [s \in Session |-> NoConnection]
  /\ inbound = <<>> /\ net = Polling /\ sent = 0
  /\ egress = [s \in Session |-> <<>>] /\ overflowed = [s \in Session |-> FALSE]
  /\ thread = [registered |-> {}, live |-> {}, by_client |-> {}, next_id |-> 1, pending |-> <<>>,
               lost |-> {}, unlogged |-> {}]
-----------------------------------------------------------------------------
(* The network thread.  A step works on n == [c, q]: the Connection and the
   inbound queue; fits says whether the peer's write buffer takes the reply. *)
queue(n, fits) == IF fits THEN n ELSE [n EXCEPT !.c.close = TRUE]

Answer(n, fits) == queue([n EXCEPT !.c.owed = @ - 1], fits)

HasRoom(n) == Len(n.q) < InboundCap
Pushed(n, cmd) == [n EXCEPT !.q = Append(@, cmd)]
Noted(n, what) == [n EXCEPT !.c.past = @ \cup {what}]

(* A kill that frees the connection without waiting for the tombstone. *)
CloseAtOnce(n, s) ==
  [c |-> [n.c EXCEPT !.state = "freed", !.close = FALSE],
   q |-> IF HasRoom(n) THEN Append(n.q, [type |-> "CancelAll", s |-> s]) ELSE n.q]

(* kill_session happens once, on the way out of "open"; it waits for the
   tombstone only if the command was accepted. *)
close_connection(n, s) ==
  IF n.c.state = "open"
    THEN IF HasRoom(n)
           THEN Pushed([n EXCEPT !.c.state = "retiring", !.c.close = FALSE],
                       [type |-> "CancelAll", s |-> s])
           ELSE Noted([n EXCEPT !.c.state = "freed", !.c.close = FALSE], "cancel refused")
    ELSE IF n.c.state = "retiring"
           THEN [n EXCEPT !.c.close = FALSE]
           ELSE [n EXCEPT !.c.state = "freed", !.c.close = FALSE]

(* The end of every visit to a connection. *)
Settle(n, s) == IF n.c.close THEN close_connection(n, s) ELSE n

Becomes(s, n) == conn' = [conn EXCEPT ![s] = n.c] /\ inbound' = n.q
Here(s) == [c |-> conn[s], q |-> inbound]

(* What is marked is closed in the same turn of the loop, before anything is
   drained or accepted. *)
Settled == net = Polling /\ \A s \in Session : ~conn[s].close

(* The result of submit is not looked at; a refusal still queues a Reject. *)
accept_new(s) ==
  /\ Settled /\ conn[s].state = "none" /\ \A t \in Session : t < s => conn[t].state # "none"
  /\ LET n == [Here(s) EXCEPT !.c.state = "open"]
     IN  Becomes(s, IF HasRoom(n) THEN Pushed(n, [type |-> "SessionOpened", s |-> s])
                                 ELSE Noted(n, "never registered"))
  /\ UNCHANGED <<egress, overflowed, net, thread, sent>>

(* A client message arrives at a connection that is still open. *)
Receives(s) ==
  /\ net = Polling /\ conn[s].state = "open" /\ sent < MaxSent
  /\ sent' = sent + 1

(* A client may send before it has been answered. *)
Received(s) ==
  LET n == [Here(s) EXCEPT !.c.owed = @ + 1]
  IN  IF conn[s].owed > 0 THEN Noted(n, "pipelined") ELSE n

(* A NewOrder whose id nobody looks at. *)
DispatchAnyId(s, coid, fits) ==
  /\ Receives(s)
  /\ LET n == Received(s)
         cmd == [type |-> "New", s |-> s, coid |-> coid]
     IN  Becomes(s, Settle(IF ~HasRoom(n)
                             THEN Answer(n, fits)
                             ELSE Pushed([n EXCEPT !.c.known = @ \cup {coid}], cmd), s))
  /\ UNCHANGED <<egress, overflowed, net, thread>>

(* register_order, submit, and forget the id again if the queue is full. *)
DispatchNewOrder(s, coid, fits) ==
  /\ Receives(s)
  /\ LET n == Received(s)
         cmd == [type |-> "New", s |-> s, coid |-> coid]
     IN  Becomes(s, Settle(IF coid \in n.c.known \/ ~HasRoom(n)
                             THEN Answer(n, fits)
                             ELSE Pushed([n EXCEPT !.c.known = @ \cup {coid}], cmd), s))
  /\ UNCHANGED <<egress, overflowed, net, thread>>

DispatchCancel(s, coid, fits) ==
  /\ Receives(s)
  /\ LET n == Received(s)
     IN  Becomes(s, Settle(IF HasRoom(n) THEN Pushed(n, [type |-> "Cancel", s |-> s, coid |-> coid])
                                         ELSE Answer(n, fits), s))
  /\ UNCHANGED <<egress, overflowed, net, thread>>

(* service_timers marks a silent session; a frame of it may still be read. *)
TimedOut(s) ==
  /\ net = Polling /\ conn[s].state = "open" /\ ~conn[s].close
  /\ conn' = [conn EXCEPT ![s].close = TRUE]
  /\ UNCHANGED <<inbound, egress, overflowed, net, thread, sent>>

(* The peer hung up, the socket failed, or its time was up. *)
Close(s) ==
  /\ net = Polling /\ conn[s].state = "open"
  /\ Becomes(s, close_connection(Here(s), s))
  /\ UNCHANGED <<egress, overflowed, net, thread, sent>>
-----------------------------------------------------------------------------
(* drain_egress: the latch is looked at once, before the loop. *)
HasEgress(s) == conn[s].state \in {"open", "retiring"}

DrainOverflowed(s) ==
  /\ Settled /\ HasEgress(s) /\ overflowed[s]
  /\ Becomes(s, close_connection(Here(s), s))
  /\ UNCHANGED <<egress, overflowed, net, thread, sent>>

DrainBegin(s) ==
  /\ Settled /\ HasEgress(s) /\ ~overflowed[s] /\ egress[s] # <<>>
  /\ net' = s
  /\ UNCHANGED <<conn, inbound, egress, overflowed, thread, sent>>

(* deliver: the tombstone lets the connection go. *)
deliver(n, e, fits) ==
  CASE e.type = "Retired" -> [n EXCEPT !.c.state = "retired", !.c.close = TRUE]
    [] e.type = "Fill" -> queue([n EXCEPT !.c.known = @ \ {e.coid}], fits)
    [] e.type = "Ack" -> Answer(IF e.closes THEN [n EXCEPT !.c.known = @ \ {e.coid}] ELSE n, fits)
    [] e.type = "Reject" -> Answer([n EXCEPT !.c.known = @ \ {e.coid}], fits)

DrainPop(s, fits) ==
  /\ net = s /\ egress[s] # <<>>
  /\ LET e == Head(egress[s])
         n == deliver(Here(s), e, fits)
         leave == n.c.close /\ e.type # "Retired"
     IN  /\ Becomes(s, IF leave THEN close_connection(n, s) ELSE n)
         /\ net' = IF leave THEN Polling ELSE s
  /\ egress' = [egress EXCEPT ![s] = Tail(@)]
  /\ UNCHANGED <<overflowed, thread, sent>>

DrainEnd(s) ==
  /\ net = s /\ egress[s] = <<>>
  /\ net' = Polling
  /\ Becomes(s, Settle(Here(s), s))
  /\ UNCHANGED <<egress, overflowed, thread, sent>>
-----------------------------------------------------------------------------
(* The matching thread: the state after a command and the events it makes. *)
Event(t, e) == IF e.s \in t.registered THEN [t EXCEPT !.pending = Append(@, e)] ELSE t

forget_order(t, o) ==
  [t EXCEPT !.live = @ \ {o},
            !.by_client = {b \in @ : <<b.s, b.coid>> # <<o.s, o.coid>>}]

(* An order of one lot is done with when it is filled. *)
route_fill(t, o) == Event(forget_order(t, o), [type |-> "Fill", s |-> o.s, coid |-> o.coid])

NewOrderOf(t, c) == [s |-> c.s, coid |-> c.coid, id |-> t.next_id]

(* It rests, is acknowledged, and then the orders of its trade, itself among
   them, are filled in turn. *)
ApplyNew(t, c, fills) ==
  LET o == NewOrderOf(t, c)
      rests == Event([t EXCEPT !.next_id = @ + 1, !.live = @ \cup {o},
                               !.by_client = {b \in @ : <<b.s, b.coid>> # <<c.s, c.coid>>} \cup {o}],
                     [type |-> "Ack", s |-> c.s, coid |-> c.coid, closes |-> FALSE])
  IN  IF fills = <<>> THEN rests ELSE route_fill(route_fill(rests, fills[1]), fills[2])

(* A cancel that finds nothing is dropped. *)
CancelOrIgnore(t, c) ==
  LET found == {b \in t.by_client : <<b.s, b.coid>> = <<c.s, c.coid>>}
  IN  IF found = {} THEN t
        ELSE Event(forget_order(t, CHOOSE b \in found : TRUE),
                   [type |-> "Ack", s |-> c.s, coid |-> c.coid, closes |-> TRUE])

ApplyCancel(t, c) ==
  LET found == {b \in t.by_client : <<b.s, b.coid>> = <<c.s, c.coid>>}
  IN  IF found = {}
        THEN Event(t, [type |-> "Reject", s |-> c.s, coid |-> c.coid])
        ELSE Event(forget_order(t, CHOOSE b \in found : TRUE),
                   [type |-> "Ack", s |-> c.s, coid |-> c.coid, closes |-> TRUE])

(* Cancels without a tombstone. *)
CancelAllSilently(t, c) ==
  [t EXCEPT !.live = {o \in @ : o.s # c.s}, !.by_client = {b \in @ : b.s # c.s},
            !.registered = @ \ {c.s}]

ApplyCancelAll(t, c) ==
  LET gone == [t EXCEPT !.live = {o \in @ : o.s # c.s}, !.by_client = {b \in @ : b.s # c.s}]
  IN  [Event(gone, [type |-> "Retired", s |-> c.s]) EXCEPT !.registered = @ \ {c.s}]

(* A new order meets no resting order or one, as the buyer or as the seller. *)
Trades(t, c) ==
  {<<>>} \cup UNION {{<<NewOrderOf(t, c), o>>, <<o, NewOrderOf(t, c)>>} : o \in t.live}

apply ==
  /\ thread.pending = <<>> /\ inbound # <<>>
  /\ inbound' = Tail(inbound)
  /\ LET c == Head(inbound)
     IN  \/ /\ c.type = "SessionOpened"
            /\ thread' = [thread EXCEPT !.registered = @ \cup {c.s}]
         \/ /\ c.type = "New"
            /\ \E fills \in Trades(thread, c) : thread' = ApplyNew(thread, c, fills)
         \/ /\ c.type = "Cancel" /\ thread' = ApplyCancel(thread, c)
         \/ /\ c.type = "CancelAll" /\ thread' = ApplyCancelAll(thread, c)
  /\ UNCHANGED <<conn, egress, overflowed, net, sent>>

(* Every command but SessionOpened is written to the log first.  One that cannot
   be written, or finds the log closed, is dropped without any answer. *)
append_fails ==
  /\ thread.pending = <<>> /\ inbound # <<>> /\ Head(inbound).type # "SessionOpened"
  /\ inbound' = Tail(inbound)
  /\ LET c == Head(inbound)
     IN  thread' = IF c.type = "CancelAll" THEN [thread EXCEPT !.lost = @ \cup {c.s}]
                                          ELSE [thread EXCEPT !.unlogged = @ \cup {c.s}]
  /\ UNCHANGED <<conn, egress, overflowed, net, sent>>

(* A full queue: the event is dropped and all but the tombstone latch it. *)
emit ==
  /\ thread.pending # <<>>
  /\ LET e == Head(thread.pending)
         full == Len(egress[e.s]) >= EgressCap
     IN  /\ egress' = [egress EXCEPT ![e.s] = IF full THEN @ ELSE Append(@, e)]
         /\ overflowed' = [overflowed EXCEPT ![e.s] = @ \/ (full /\ e.type # "Retired")]
         /\ thread' = [thread EXCEPT !.pending = Tail(@),
                                    !.lost = IF full /\ e.type = "Retired" THEN @ \cup {e.s} ELSE @]
  /\ UNCHANGED <<conn, inbound, net, sent>>
-----------------------------------------------------------------------------
Drain(s) == DrainOverflowed(s) \/ DrainBegin(s)
Popping == \E s \in Session : DrainEnd(s) \/ \E fits \in BOOLEAN : DrainPop(s, fits)

Next ==
  \/ \E s \in Session : accept_new(s) \/ TimedOut(s) \/ Close(s) \/ Drain(s)
  \/ \E s \in Session, coid \in ClientId, fits \in BOOLEAN :
       DispatchNewOrder(s, coid, fits) \/ DispatchCancel(s, coid, fits)
  \/ Popping \/ apply \/ append_fails \/ emit

Spec == Init /\ [][Next]_vars

(* The work that waits for each thread: a queue that is not empty wakes it, and
   what is marked is closed before the next poll.  What clients do is not fair. *)
MatchingWork == apply \/ append_fails \/ emit
NetworkWork == Popping \/ \E s \in Session : Drain(s) \/ (conn[s].close /\ Close(s))

FairSpec == Spec /\ WF_vars(MatchingWork) /\ WF_vars(NetworkWork)
-----------------------------------------------------------------------------
Order == [s : Session, coid : ClientId, id : Nat]
Command == [type : {"SessionOpened", "CancelAll"}, s : Session]
           \cup [type : {"New", "Cancel"}, s : Session, coid : ClientId]
Notice == [type : {"Retired"}, s : Session]
          \cup [type : {"Fill", "Reject"}, s : Session, coid : ClientId]
          \cup [type : {"Ack"}, s : Session, coid : ClientId, closes : BOOLEAN]

Connection == [state : {"none", "open", "retiring", "retired", "freed"}, close : BOOLEAN,
               known : SUBSET ClientId, owed : Int,
               past : SUBSET {"never registered", "cancel refused", "pipelined"}]
MatchingThread == [registered : SUBSET Session, live : SUBSET Order, by_client : SUBSET Order,
                   next_id : Nat, pending : Seq(Notice), lost : SUBSET Session,
                   unlogged : SUBSET Session]

(* The state has its types. *)
TypeOK ==
  /\ conn \in [Session -> Connection]
  /\ inbound \in Seq(Command) /\ egress \in [Session -> Seq(Notice)]
  /\ overflowed \in [Session -> BOOLEAN] /\ net \in Session \cup {Polling} /\ sent \in Nat
  /\ thread \in MatchingThread

(* What a queue holds. *)
Has(q, x) == \E k \in 1 .. Len(q) : q[k] = x
NothingOf(q, s) == \A k \in 1 .. Len(q) : q[k].s # s

(* When a Connection is freed the matching thread holds nothing of it: no
   order, no queued command, no pointer to its queue and no event to push
   there.  "observing that event is proof that no further push can occur"
   (egress.hpp:29), and "cancel-on-disconnect cannot be missed"
   (tcp_server.cpp:680).  The one exception is a disconnect that finds the
   inbound queue full. *)
FreedIsForgotten ==
  \A s \in Session : conn[s].state = "freed" /\ "cancel refused" \notin conn[s].past =>
    /\ s \notin thread.registered /\ \A o \in thread.live : o.s # s
    /\ NothingOf(inbound, s) /\ NothingOf(thread.pending, s)

(* "pushes SessionRetired as the last event it will ever put on that queue"
   (egress.hpp:24): while a Connection waits, its tombstone is on the way,
   unless the queue was full when it was pushed, the CancelAll that makes it
   could not be logged, or the matching thread never heard of the session. *)
TombstoneArrives ==
  \A s \in Session :
    conn[s].state = "retiring" /\ "never registered" \notin conn[s].past /\ s \notin thread.lost =>
      \/ Has(inbound, [type |-> "CancelAll", s |-> s])
      \/ Has(thread.pending, [type |-> "Retired", s |-> s])
      \/ Has(egress[s], [type |-> "Retired", s |-> s])

(* "client_order_id is unique among LIVE orders" (session.hpp:102), for a
   client that waits for its answers: the Reject of a pipelined Cancel can free
   the id of the order sent behind it. *)
UniqueLive ==
  \A o, p \in thread.live :
    o.s = p.s /\ o.coid = p.coid /\ "pipelined" \notin conn[o.s].past => o = p

(* A Connection that waits for its tombstone is freed, unless the tombstone was
   lost to a full queue or to a CancelAll that could not be logged, nobody was
   there to send it, or the overflow latch, which is never reset, keeps its queue
   from being drained (tcp_server.cpp:471). *)
RetiringEnds ==
  \A s \in Session :
    conn[s].state = "retiring" ~> \/ conn[s].state = "freed"
                                 \/ "never registered" \in conn[s].past
                                 \/ s \in thread.lost \/ overflowed[s]

(* "No silent drops" (PROTOCOL.md:32): every message is answered, unless its
   connection goes, the matching thread never heard of the session, or it could
   not log one of its commands (matching_thread.hpp:313). *)
Answered ==
  \A s \in Session :
    conn[s].owed > 0 ~> \/ conn[s].owed = 0 \/ conn[s].state # "open"
                       \/ "never registered" \in conn[s].past
                       \/ s \in thread.unlogged
=============================================================================
