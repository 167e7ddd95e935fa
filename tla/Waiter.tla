------------------------------- MODULE Waiter -------------------------------
(***************************************************************************)
(* How the matching thread sleeps and is woken: include/ome/waiter.hpp     *)
(* with its two callers, MatchingThread::run (the consumer) and            *)
(* TcpServer::submit followed by MatchingThread::stop (the producer, the   *)
(* network thread).  The inbound queue is its length: what the ring does   *)
(* is SpscQueue's subject.                                                 *)
(*                                                                         *)
(* The producer publishes a command with a release store and then loads    *)
(* parked_ with a seq_cst load.  On AArch64 the pair is stlr/ldar, which   *)
(* is not reordered; on x86-64 both are plain moves, and the store may     *)
(* still be in the core's store buffer when the load executes.             *)
(* tso (total store order) says which of the two builds is running.        *)
(* The store of stop() to running_ is relaxed: on either build it may be   *)
(* seen only after the load of parked_ that follows it, but not before the *)
(* pushes, which that load (or the buffer) keeps in front of it.           *)
(***************************************************************************)
EXTENDS Naturals

CONSTANTS
  InboundCapacity, \* commands the inbound queue holds (8192)
  PipeCapacity,    \* bytes the self-pipe holds before write() says EAGAIN
  ReadSize         \* sizeof(buf) in drain(): 256

ASSUME SizeAssumption == /\ InboundCapacity \in Nat \ {0}
                         /\ PipeCapacity \in Nat \ {0}
                         /\ ReadSize \in Nat \ {0}

VARIABLES
  tso,      \* the build: TRUE on x86-64, FALSE on AArch64
  inbound,  \* commands in the inbound queue, as other cores see it
  running,  \* MatchingThread::running_, as other cores see it
  held,     \* pushes still in the producer's store buffer
  heldStop, \* the store to running_, behind them, is not seen yet
  parked,   \* parked_
  self_pipe, \* unread bytes in the self-pipe
  sig,      \* the producer: outside, or inside signal()
  stopping, \* the producer has entered stop()
  wpc       \* the consumer: where it is in run(), wait() or drain()

memory == <<tso, inbound, running, held, heldStop>>

waiter == <<tso, inbound, running, held, heldStop, parked, self_pipe, sig,
          stopping, wpc>>

WaiterInit ==
  /\ tso \in BOOLEAN
  /\ inbound = 0 /\ running = TRUE
  /\ held = 0 /\ heldStop = FALSE
  /\ parked = FALSE /\ self_pipe = 0
  /\ sig = "outside" /\ stopping = FALSE /\ wpc = "spin"

Lesser(m, n) == IF m <= n THEN m ELSE n
-----------------------------------------------------------------------------
(* The release store to head_ that ends a push. *)
StorePush ==
  /\ IF tso
       THEN held' = held + 1 /\ UNCHANGED inbound
       ELSE inbound' = inbound + 1 /\ UNCHANGED held
  /\ UNCHANGED <<tso, running, heldStop>>

(* running_.store(false, relaxed). *)
StoreStop == heldStop' = TRUE /\ UNCHANGED <<tso, inbound, running, held>>

(* The oldest store that others do not see yet becomes visible. *)
Flush ==
  /\ \/ /\ held > 0
        /\ held' = held - 1 /\ inbound' = inbound + 1
        /\ UNCHANGED <<running, heldStop>>
     \/ /\ held = 0 /\ heldStop
        /\ heldStop' = FALSE /\ running' = FALSE
        /\ UNCHANGED <<inbound, held>>
  /\ UNCHANGED <<tso, parked, self_pipe, sig, stopping, wpc>>

(* TcpServer::submit: a push that finds room; one that does not changes
   nothing here. *)
Submit ==
  /\ sig = "outside" /\ ~stopping
  /\ inbound + held < InboundCapacity
  /\ StorePush
  /\ sig' = "load"
  /\ UNCHANGED <<parked, self_pipe, stopping, wpc>>

(* MatchingThread::stop, called once the network loop has returned. *)
Stop ==
  /\ sig = "outside" /\ ~stopping
  /\ StoreStop
  /\ stopping' = TRUE
  /\ sig' = "load"
  /\ UNCHANGED <<parked, self_pipe, wpc>>

(* signal(): is the consumer parked? *)
SignalLoad ==
  /\ sig = "load"
  /\ sig' = IF parked THEN "write" ELSE "outside"
  /\ UNCHANGED <<memory, parked, self_pipe, stopping, wpc>>

(* signal(): write one byte; EAGAIN on a full pipe is ignored. *)
SignalWrite ==
  /\ sig = "write"
  /\ self_pipe' = Lesser(self_pipe + 1, PipeCapacity)
  /\ sig' = "outside"
  /\ UNCHANGED <<memory, parked, stopping, wpc>>

ProducerStep == Submit \/ Stop \/ SignalLoad \/ SignalWrite
-----------------------------------------------------------------------------
(* The predicate run() hands to wait(). *)
HasWork == inbound > 0 \/ ~running

SpinFinds ==
  /\ wpc = "spin" /\ HasWork
  /\ wpc' = "drain"
  /\ UNCHANGED <<memory, parked, self_pipe, sig, stopping>>

(* The spin expires.  Work may have arrived since its last look. *)
Park ==
  /\ wpc = "spin"
  /\ parked' = TRUE
  /\ wpc' = "recheck"
  /\ UNCHANGED <<memory, self_pipe, sig, stopping>>

(* wait() without the check between publishing parked_ and blocking. *)
BlockUnchecked ==
  /\ wpc = "recheck"
  /\ wpc' = "blocked"
  /\ UNCHANGED <<memory, parked, self_pipe, sig, stopping>>

(* The predicate after parking: first the queue, ... *)
Recheck ==
  /\ wpc = "recheck"
  /\ IF inbound > 0
       THEN parked' = FALSE /\ wpc' = "drain"
       ELSE UNCHANGED parked /\ wpc' = "recheck2"
  /\ UNCHANGED <<memory, self_pipe, sig, stopping>>

(* ... then running_. *)
RecheckRunning ==
  /\ wpc = "recheck2"
  /\ IF running
       THEN UNCHANGED parked /\ wpc' = "blocked"
       ELSE parked' = FALSE /\ wpc' = "drain"
  /\ UNCHANGED <<memory, self_pipe, sig, stopping>>

(* block(): poll() finds the pipe readable. *)
WakesUp ==
  /\ wpc = "blocked" /\ self_pipe > 0
  /\ wpc' = "woken"
  /\ UNCHANGED <<memory, parked, self_pipe, sig, stopping>>

(* A poll() with no timeout. *)
NeverTimesOut == FALSE /\ UNCHANGED waiter

(* block(): timeout_ms pass, or a signal interrupts poll(). *)
TimesOut ==
  /\ wpc = "blocked"
  /\ wpc' = "woken"
  /\ UNCHANGED <<memory, parked, self_pipe, sig, stopping>>

Unpark ==
  /\ wpc = "woken"
  /\ parked' = FALSE
  /\ wpc' = "read"
  /\ UNCHANGED <<memory, self_pipe, sig, stopping>>

(* One read() of drain(); a short read ends it. *)
ReadPipe ==
  /\ wpc = "read"
  /\ LET n == Lesser(self_pipe, ReadSize)
     IN  /\ self_pipe' = self_pipe - n
         /\ wpc' = IF n < ReadSize THEN "drain" ELSE "read"
  /\ UNCHANGED <<memory, parked, sig, stopping>>

(* MatchingThread::drain, from run()'s loop or after it: one pop. *)
Pop ==
  /\ wpc \in {"drain", "sweep"} /\ inbound > 0
  /\ inbound' = inbound - 1
  /\ UNCHANGED <<tso, running, held, heldStop, parked, self_pipe, sig, stopping, wpc>>

(* drain() finds the queue empty. *)
QueueEmpty ==
  /\ wpc = "drain" /\ inbound = 0
  /\ wpc' = "loop"
  /\ UNCHANGED <<memory, parked, self_pipe, sig, stopping>>

(* A run() that returns from its loop without the sweep. *)
LoopNoSweep ==
  /\ wpc = "loop"
  /\ wpc' = IF running THEN "spin" ELSE "done"
  /\ UNCHANGED <<memory, parked, self_pipe, sig, stopping>>

(* run() tests running_. *)
Loop ==
  /\ wpc = "loop"
  /\ wpc' = IF running THEN "spin" ELSE "sweep"
  /\ UNCHANGED <<memory, parked, self_pipe, sig, stopping>>

(* The final sweep is over and the thread returns. *)
Swept ==
  /\ wpc = "sweep" /\ inbound = 0
  /\ wpc' = "done"
  /\ UNCHANGED <<memory, parked, self_pipe, sig, stopping>>

ConsumerStep == \/ SpinFinds \/ Park \/ Recheck \/ RecheckRunning \/ WakesUp
                \/ Unpark \/ ReadPipe \/ Pop \/ QueueEmpty \/ Loop \/ Swept

WaiterNext == ProducerStep \/ Flush \/ ConsumerStep \/ TimesOut

WaiterSpec == WaiterInit /\ [][WaiterNext]_waiter

(* Both threads are scheduled, stores reach memory, and poll() has a timeout. *)
WaiterFairSpec ==
  /\ WaiterSpec
  /\ WF_waiter(SignalLoad \/ SignalWrite)
  /\ WF_waiter(Flush)
  /\ WF_waiter(ConsumerStep)
  /\ WF_waiter(TimesOut)
-----------------------------------------------------------------------------
(* The type invariant. *)
WaiterTypeOK ==
  /\ tso \in BOOLEAN
  /\ inbound \in Nat
  /\ running \in BOOLEAN /\ parked \in BOOLEAN /\ stopping \in BOOLEAN
  /\ held \in Nat /\ inbound + held <= InboundCapacity /\ heldStop \in BOOLEAN
  /\ self_pipe \in 0 .. PipeCapacity
  /\ sig \in {"outside", "load", "write"}
  /\ wpc \in {"spin", "recheck", "recheck2", "blocked", "woken", "read",
             "drain", "loop", "sweep", "done"}

(* The race waiter.hpp:19-50 is about: unless the push can linger in a store
   buffer, the matching thread never sits in poll() with a command there for it
   to see unless the wake-up is in the pipe or the producer is still inside
   signal().  The stop flag is left out: its store is relaxed, and a stop() whose
   signal() overtakes it is noticed when poll() times out, on either build. *)
NoMissedWakeup ==
  ~tso /\ wpc = "blocked" /\ inbound > 0 => self_pipe > 0 \/ sig # "outside"

(* matching_thread.hpp:219, "so shutdown does not strand queued commands":
   whatever was submitted before stop() has been applied when the thread
   has ended. *)
NothingStranded == wpc = "done" => inbound = 0 /\ held = 0

(* However the spin, the park and the signal interleave, a published command is
   reached by the matching thread, and stop() makes that thread end, so that
   its join returns.  A push in the store buffer, and on either build the stop
   flag, may miss its wake-up: the timeout of poll() is what repairs that. *)
EventuallyServed ==
  /\ inbound > 0 ~> wpc \in {"drain", "sweep"}
  /\ stopping ~> wpc = "done"
=============================================================================
