---------------------------- MODULE BoundedFifo ----------------------------
(***************************************************************************)
(* What LifecycleEventQueue promises the threads that use it: a first-in   *)
(* first-out buffer of at most Capacity elements that, once closed, takes  *)
(* no more but can still be emptied.                                       *)
(***************************************************************************)
EXTENDS Integers, Sequences

CONSTANTS Elements, Capacity, NoElement

VARIABLES fifo, closed,
          result          \* what the last call returned

fifoVars == <<fifo, closed, result>>

FifoInit == fifo = <<>> /\ closed = FALSE /\ result = NoElement

Push(e) ==
    /\ UNCHANGED closed
    /\ \/ closed /\ result' = "Closed" /\ UNCHANGED fifo
       \/ ~closed /\ Len(fifo) = Capacity /\ result' = "Full" /\ UNCHANGED fifo
       \/ /\ ~closed /\ Len(fifo) < Capacity
          /\ result' = "Enqueued" /\ fifo' = Append(fifo, e)

Pop ==
    /\ UNCHANGED closed
    /\ \/ fifo = <<>> /\ result' = NoElement /\ UNCHANGED fifo
       \/ fifo # <<>> /\ result' = Head(fifo) /\ fifo' = Tail(fifo)

Shut == closed' = TRUE /\ UNCHANGED <<fifo, result>>

FifoNext == (\E e \in Elements : Push(e)) \/ Pop \/ Shut

FifoSpec == FifoInit /\ [][FifoNext]_fifoVars
=============================================================================
