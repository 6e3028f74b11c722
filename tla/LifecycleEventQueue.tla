------------------------ MODULE LifecycleEventQueue ------------------------
(***************************************************************************)
(* The boundary between the threads of native callbacks and the engine     *)
(* thread: LifecycleEventQueue                                             *)
(* (engine/platform/src/lifecycle_event_queue.cpp), a ring of fixed        *)
(* capacity under one mutex.  Every operation holds the mutex from its     *)
(* first read to its last write, so it is one step, whichever of the       *)
(* threads takes it; the model need not name the threads.                  *)
(***************************************************************************)
EXTENDS Integers, Sequences

CONSTANTS States,         \* the LifecycleState values that are queued
          FirstState,     \* the value-initialised element
          Capacity,       \* LifecycleEventQueue::capacity
          NoState         \* std::nullopt

ASSUME QueueAssumption ==
    /\ Capacity \in Nat \ {0} /\ FirstState \in States
    /\ NoState \notin States \cup {"Enqueued", "Full", "Closed"}

VARIABLES events, head, size, closed,
          result          \* what the last call returned

queueVars == <<events, head, size, closed, result>>

Indices == 0..(Capacity - 1)

QueueInit ==
    /\ events = [i \in Indices |-> FirstState] /\ head = 0 /\ size = 0
    /\ closed = FALSE /\ result = NoState

\* Seeded faults: the tail ignores the head; a closed queue still takes.
BrokenTryPushTail(state) ==
    /\ ~closed /\ size # Capacity
    /\ result' = "Enqueued"
    /\ events' = [events EXCEPT ![size] = state] /\ size' = size + 1
    /\ UNCHANGED <<head, closed>>

BrokenTryPushClosed(state) ==
    /\ size # Capacity
    /\ result' = "Enqueued"
    /\ events' = [events EXCEPT ![(head + size) % Capacity] = state] /\ size' = size + 1
    /\ UNCHANGED <<head, closed>>

TryPush(state) ==
    /\ UNCHANGED <<head, closed>>
    /\ \/ closed /\ result' = "Closed" /\ UNCHANGED <<events, size>>
       \/ ~closed /\ size = Capacity /\ result' = "Full" /\ UNCHANGED <<events, size>>
       \/ /\ ~closed /\ size # Capacity
          /\ result' = "Enqueued"
          /\ events' = [events EXCEPT ![(head + size) % Capacity] = state]
          /\ size' = size + 1

TryPop ==
    /\ UNCHANGED <<events, closed>>
    /\ \/ size = 0 /\ result' = NoState /\ UNCHANGED <<head, size>>
       \/ /\ size # 0
          /\ result' = events[head]
          /\ head' = (head + 1) % Capacity
          /\ size' = size - 1

Close == closed' = TRUE /\ UNCHANGED <<events, head, size, result>>

QueueNext == (\E state \in States : TryPush(state)) \/ TryPop \/ Close

\* The engine thread polls the queue again and again.
QueueSpec == QueueInit /\ [][QueueNext]_queueVars /\ WF_queueVars(TryPop)
-----------------------------------------------------------------------------
\* The ring stays inside its array.
QueueTypeOK ==
    /\ events \in [Indices -> States] /\ head \in Indices /\ size \in 0..Capacity
    /\ closed \in BOOLEAN
    /\ result \in States \cup {NoState, "Enqueued", "Full", "Closed"}

\* The elements in the order they came.
Contents == [i \in 1..size |-> events[(head + i - 1) % Capacity]]

Fifo == INSTANCE BoundedFifo WITH Elements <- States, NoElement <- NoState, fifo <- Contents

\* The ring behaves as a bounded first-in first-out buffer, wherever its
\* head is and however often it wrapped: events reach the engine thread in
\* the order they were pushed, none lost and none twice, and a push is
\* refused only by a full or a closed queue (try_push, try_pop, close).
IsBoundedFifo == Fifo!FifoSpec

\* Closing loses nothing and ends: once the queue is closed the engine
\* thread comes to see it empty (close, try_pop).
ClosedQueueDrains == closed ~> size = 0
=============================================================================
