----------------------------- MODULE SpscQueue -----------------------------
(***************************************************************************)
(* The lock-free single-producer single-consumer ring of                   *)
(* include/spsc_queue.h.  Every queue of the gateway is one of these: the  *)
(* inbound command queue, and each session's egress and market-data queue. *)
(*                                                                         *)
(* Each load and store of a shared location is a step of its own.  The     *)
(* indices are read with acquire loads, which need not return the newest   *)
(* value: each side has a VIEW of the other side's index that may lag      *)
(* behind it and only moves forward (coherence).  The release stores and   *)
(* the acquire loads order the slot accesses, so a slot is read from and   *)
(* written to memory directly.                                             *)
(***************************************************************************)
EXTENDS Naturals, Sequences

CONSTANTS N,       \* the template parameter: elements the queue can hold
          Value,   \* the element type T
          NoValue  \* a default-constructed T (buffer_{} value-initialises)

ASSUME NAssumption == N \in Nat \ {0}
ASSUME NoValueAssumption == NoValue \notin Value

VARIABLES
  buffer,   \* buffer_
  head,     \* head_, stored by the producer only
  tail,     \* tail_, stored by the consumer only
  tailView, \* the value of tail_ the producer last loaded
  headView, \* the value of head_ the consumer last loaded
  ppc,      \* where the producer is: outside push, before buffer_[h] = o,
            \* before head_.store
  pushing,  \* push's argument
  cpc,      \* where the consumer is: outside pop, before reading buffer_[t],
            \* before tail_.store
  out,      \* pop's local of the same name
  popped    \* what the last successful pop returned

vars == <<buffer, head, tail, tailView, headView, ppc, pushing, cpc, out, popped>>

kSlots == N + 1
Slot == 0 .. N

Succ(i) == (i + 1) % kSlots

(* Slots from i forward to j, going round the ring. *)
Distance(i, j) == IF j >= i THEN j - i ELSE (j + kSlots) - i

(* An acquire load of an index last seen at view and now at current returns
   any value stored since. *)
Loadable(view, current) == {i \in Slot : Distance(view, i) <= Distance(view, current)}

Init == /\ buffer = [i \in Slot |-> NoValue]
        /\ head = 0 /\ tail = 0
        /\ tailView = 0 /\ headView = 0
        /\ ppc = "outside" /\ pushing = NoValue
        /\ cpc = "outside" /\ out = NoValue /\ popped = NoValue

(* A push that does not look for room. *)
PushLoadUnchecked(v) ==
  /\ ppc = "outside"
  /\ tailView' \in Loadable(tailView, tail)
  /\ ppc' = "write" /\ pushing' = v
  /\ UNCHANGED <<buffer, head, tail, headView, cpc, out, popped>>

(* push, lines 54-59: load both indices, give up if the ring looks full. *)
PushLoad(v) ==
  /\ ppc = "outside"
  /\ \E t \in Loadable(tailView, tail) :
       /\ tailView' = t
       /\ IF Succ(head) = t
            THEN UNCHANGED <<ppc, pushing>>
            ELSE ppc' = "write" /\ pushing' = v
  /\ UNCHANGED <<buffer, head, tail, headView, cpc, out, popped>>

(* push, line 60. *)
PushWrite ==
  /\ ppc = "write"
  /\ buffer' = [buffer EXCEPT ![head] = pushing]
  /\ ppc' = "publish"
  /\ UNCHANGED <<head, tail, tailView, headView, pushing, cpc, out, popped>>

(* push, lines 62-63. *)
PushPublish ==
  /\ ppc = "publish"
  /\ head' = Succ(head)
  /\ ppc' = "outside"
  /\ UNCHANGED <<buffer, tail, tailView, headView, pushing, cpc, out, popped>>

(* A pop that hands out a slot before comparing the indices. *)
PopLoadUnchecked ==
  /\ cpc = "outside"
  /\ headView' \in Loadable(headView, head)
  /\ cpc' = "read"
  /\ UNCHANGED <<buffer, head, tail, tailView, ppc, pushing, out, popped>>

(* pop, lines 77-82: load both indices, give up if the ring looks empty. *)
PopLoad ==
  /\ cpc = "outside"
  /\ \E h \in Loadable(headView, head) :
       /\ headView' = h
       /\ cpc' = IF tail = h THEN "outside" ELSE "read"
  /\ UNCHANGED <<buffer, head, tail, tailView, ppc, pushing, out, popped>>

(* pop, line 83.  The element type is trivially copyable wherever the ring is
   used, so the move leaves the slot as it was. *)
PopRead ==
  /\ cpc = "read"
  /\ out' = buffer[tail]
  /\ cpc' = "publish"
  /\ UNCHANGED <<buffer, head, tail, tailView, headView, ppc, pushing, popped>>

(* pop, lines 85-86. *)
PopPublish ==
  /\ cpc = "publish"
  /\ tail' = Succ(tail)
  /\ popped' = out
  /\ cpc' = "outside"
  /\ UNCHANGED <<buffer, head, tailView, headView, ppc, pushing, out>>

(* empty(): the consumer's other load of head_; the answer is tail = headView'. *)
Empty ==
  /\ cpc = "outside"
  /\ headView' \in Loadable(headView, head)
  /\ UNCHANGED <<buffer, head, tail, tailView, ppc, pushing, cpc, out, popped>>

Producer == PushWrite \/ PushPublish \/ \E v \in Value : PushLoad(v)
Consumer == PopLoad \/ PopRead \/ PopPublish \/ Empty

Next == Producer \/ Consumer

Spec == Init /\ [][Next]_vars
-----------------------------------------------------------------------------
(* The type invariant. *)
TypeOK ==
  /\ buffer \in [Slot -> Value \cup {NoValue}]
  /\ head \in Slot /\ tail \in Slot
  /\ tailView \in Slot /\ headView \in Slot
  /\ ppc \in {"outside", "write", "publish"}
  /\ pushing \in Value \cup {NoValue}
  /\ ppc # "outside" => pushing \in Value
  /\ cpc \in {"outside", "read", "publish"}
  /\ out \in Value \cup {NoValue}
  /\ popped \in Value \cup {NoValue}

(* The comment at spsc_queue.h:9-13: the producer never writes a cell the
   consumer may be moving out of, although neither side holds a lock and
   each decides from a possibly stale index. *)
NoSlotRace == ~(ppc = "write" /\ cpc = "read" /\ head = tail)

(* The slot k places after slot i. *)
After(i, k) == (i + k) % kSlots

(* The elements between tail_ and head_, oldest first. *)
Contents == [i \in 1 .. Distance(tail, head) |-> buffer[After(tail, i - 1)]]

Fifo == INSTANCE BoundedFifo WITH Capacity <- N, contents <- Contents

(* The ring implements a FIFO of N elements: nothing is lost, duplicated or
   reordered, and pop returns the oldest element (test_spsc.cpp:49-50). *)
ImplementsFifo == Fifo!FifoSpec
=============================================================================
