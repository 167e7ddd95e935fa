---------------------------- MODULE BoundedFifo ----------------------------
(***************************************************************************)
(* What the single-producer single-consumer queue promises its two users:  *)
(* a FIFO of at most Capacity elements.  Put either appends or reports     *)
(* "full"; Get either removes and returns the oldest element or reports    *)
(* "empty".  Reporting full or empty leaves the contents alone, so it is a *)
(* stuttering step here.                                                   *)
(***************************************************************************)
EXTENDS Naturals, Sequences

CONSTANTS Capacity, Value, NoValue

VARIABLES contents, \* the elements buffered, oldest first
          popped    \* the element the last successful pop returned

fifoVars == <<contents, popped>>

FifoInit == contents = << >> /\ popped = NoValue

Put(v) == /\ Len(contents) < Capacity
          /\ contents' = Append(contents, v)
          /\ UNCHANGED popped

Get == /\ contents # << >>
       /\ popped' = Head(contents)
       /\ contents' = Tail(contents)

FifoNext == Get \/ \E v \in Value : Put(v)

FifoSpec == FifoInit /\ [][FifoNext]_fifoVars
=============================================================================
