------------------------------ MODULE Notifier ------------------------------
(***************************************************************************)
(* How the network thread learns that there are events to send:            *)
(* include/ome/notifier.hpp with its two callers, MatchingThread::drain    *)
(* (which notifies once per batch) and the poll loop of TcpServer::run     *)
(* (which looks at the egress queues before it blocks).  All egress queues *)
(* together are the number of events in them.                              *)
(*                                                                         *)
(* drain() ends with a release store to pending_, after which the loop     *)
(* loads the queues.  On x86-64 the store may linger in the core's store   *)
(* buffer meanwhile (store_buffer); notify()'s exchange is a locked        *)
(* instruction and orders everything the matching thread did before it.    *)
(***************************************************************************)
EXTENDS Naturals

CONSTANT
  EgressCapacity      \* bound on the events in the egress queues

ASSUME EgressAssumption == EgressCapacity \in Nat \ {0}

VARIABLES
  store_buffer, \* the build: TRUE on x86-64, FALSE on AArch64
  egress,   \* events in the egress queues
  batch,    \* the matching thread has emitted events it has not notified
  mpc,      \* the matching thread: in a batch, or inside notify()
  pending,  \* pending_
  clearing, \* drain()'s store to pending_ is still in the store buffer
  pipe,     \* unread bytes in the pipe
  npc       \* the network thread: where it is in run() or drain()

channel == <<store_buffer, egress, batch, mpc, pending, clearing, pipe, npc>>

NotifierInit == /\ store_buffer \in BOOLEAN
        /\ egress = 0 /\ batch = FALSE /\ mpc = "apply"
        /\ pending = FALSE /\ clearing = FALSE /\ pipe = 0 /\ npc = "check"
-----------------------------------------------------------------------------
(* apply() emits an event; on a full queue emit() pushes nothing. *)
Emit ==
  /\ mpc = "apply" /\ egress < EgressCapacity
  /\ egress' = egress + 1 /\ batch' = TRUE
  /\ UNCHANGED <<store_buffer, mpc, pending, clearing, pipe, npc>>

(* The inbound queue is empty and the batch was not. *)
EndBatch ==
  /\ mpc = "apply"
  /\ mpc' = "notify"
  /\ UNCHANGED <<store_buffer, egress, batch, pending, clearing, pipe, npc>>

(* notify(): exchange, and stop there if a wake-up is outstanding. *)
Notify ==
  /\ mpc = "notify"
  /\ batch' = FALSE
  /\ pending' = TRUE
  /\ mpc' = IF pending THEN "apply" ELSE "write"
  /\ UNCHANGED <<store_buffer, egress, clearing, pipe, npc>>

NotifyWrite ==
  /\ mpc = "write"
  /\ pipe' = pipe + 1
  /\ mpc' = "apply"
  /\ UNCHANGED <<store_buffer, egress, batch, pending, clearing, npc>>

Matching == Emit \/ EndBatch \/ Notify \/ NotifyWrite
-----------------------------------------------------------------------------
(* A loop that trusts the wake-up channel. *)
CheckNever ==
  /\ npc = "check"
  /\ npc' = "blocked"
  /\ UNCHANGED <<store_buffer, egress, batch, mpc, pending, clearing, pipe>>

(* work_pending: poll() is given a zero timeout if an event is waiting. *)
Check ==
  /\ npc = "check"
  /\ npc' = IF egress > 0 THEN "poll" ELSE "blocked"
  /\ UNCHANGED <<store_buffer, egress, batch, mpc, pending, clearing, pipe>>

(* After poll() returns, whatever made it return: drain() is called if the
   pipe is among the readable descriptors. *)
Return == npc' = IF pipe > 0 THEN "drain" ELSE "serve"

PollNow ==
  /\ npc = "poll" /\ Return
  /\ UNCHANGED <<store_buffer, egress, batch, mpc, pending, clearing, pipe>>

Wake ==
  /\ npc = "blocked" /\ pipe > 0 /\ Return
  /\ UNCHANGED <<store_buffer, egress, batch, mpc, pending, clearing, pipe>>

(* A poll() with no timeout and nobody else talking. *)
NoTimeout == FALSE /\ UNCHANGED channel

(* poll_timeout_ms pass, or a socket is ready. *)
Timeout ==
  /\ npc = "blocked" /\ Return
  /\ UNCHANGED <<store_buffer, egress, batch, mpc, pending, clearing, pipe>>

(* The store that ends drain(). *)
StoreClear ==
  IF store_buffer
    THEN clearing' = TRUE /\ UNCHANGED pending
    ELSE pending' = FALSE /\ UNCHANGED clearing

(* One read() of drain()'s loop: it takes all there is, or finds nothing. *)
Read ==
  /\ npc = "drain"
  /\ pipe' = 0
  /\ npc' = IF pipe > 0 THEN "drain" ELSE "clear"
  /\ UNCHANGED <<store_buffer, egress, batch, mpc, pending, clearing>>

(* A drain() that empties the pipe and leaves the flag up. *)
ClearForgotten ==
  /\ npc = "clear"
  /\ npc' = "serve"
  /\ UNCHANGED <<store_buffer, egress, batch, mpc, pending, clearing, pipe>>

Clear ==
  /\ npc = "clear"
  /\ StoreClear
  /\ npc' = "serve"
  /\ UNCHANGED <<store_buffer, egress, batch, mpc, pipe>>

FlushClear ==
  /\ clearing
  /\ pending' = FALSE /\ clearing' = FALSE
  /\ UNCHANGED <<store_buffer, egress, batch, mpc, pipe, npc>>

(* drain_egress: pop and deliver one event, ... *)
Serve ==
  /\ npc = "serve" /\ egress > 0
  /\ egress' = egress - 1
  /\ UNCHANGED <<store_buffer, batch, mpc, pending, clearing, pipe, npc>>

(* ... or find the last connection's queue empty and go round the loop;
   queues visited before it may hold events again. *)
Served ==
  /\ npc = "serve"
  /\ npc' = "check"
  /\ UNCHANGED <<store_buffer, egress, batch, mpc, pending, clearing, pipe>>

Network == Check \/ PollNow \/ Wake \/ Read \/ Clear \/ Serve \/ Served

NotifierNext == Matching \/ Network \/ FlushClear \/ Timeout

NotifierSpec == NotifierInit /\ [][NotifierNext]_channel

(* The matching thread finishes a batch it has begun, the network thread runs,
   and stores reach memory; only where the clearing store can linger is poll()
   relied on to time out. *)
NotifierFairSpec ==
  /\ NotifierSpec
  /\ WF_channel(mpc # "apply" /\ Matching)
  /\ WF_channel(batch /\ EndBatch)
  /\ WF_channel(Network)
  /\ WF_channel(FlushClear)
  /\ WF_channel(store_buffer /\ Timeout)
-----------------------------------------------------------------------------
(* The type invariant.  Coalescing keeps the pipe from filling: however many
   batches end, at most one byte is unread (notifier.hpp:61-64). *)
NotifierTypeOK ==
  /\ store_buffer \in BOOLEAN
  /\ egress \in 0 .. EgressCapacity
  /\ batch \in BOOLEAN /\ pending \in BOOLEAN /\ clearing \in BOOLEAN
  /\ mpc \in {"apply", "notify", "write"}
  /\ pipe \in {0, 1}
  /\ npc \in {"check", "poll", "blocked", "drain", "clear", "serve"}

(* The channel is never dead (notifier.hpp:76-83, and the regression test at
   test_notifier.cpp:57-62): while pending_ keeps notify() from writing,
   there is a byte to wake the network thread, or one about to be written,
   or the flag is about to be cleared. *)
ChannelAlive ==
  pending => \/ pipe > 0
             \/ mpc = "write"
             \/ npc \in {"drain", "clear"}
             \/ clearing

(* Unless the clearing store can linger, the network thread never blocks in
   poll() on an event that nobody will announce (tcp_server.cpp:150-154),
   although drain() may swallow a notification. *)
NoStall ==
  ~store_buffer /\ npc = "blocked" /\ egress > 0 => pipe > 0 \/ batch \/ mpc = "write"

(* An emitted event is reached by drain_egress. *)
EventuallySent == egress > 0 ~> npc = "serve"
=============================================================================
