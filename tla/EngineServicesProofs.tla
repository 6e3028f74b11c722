------------------------ MODULE EngineServicesProofs ------------------------
(***************************************************************************)
(* The engine around the game, for every value of the constants: the ring  *)
(* of lifecycle events, the memory budget, the event dispatcher and the    *)
(* driver of the frames.  They know nothing of each other.                 *)
(***************************************************************************)
EXTENDS LifecycleEventQueue, MemoryBudget, EventDispatcher, FrameDriver,
        HostPartsProofs, CommonLemmas, FiniteSetTheorems, FunctionTheorems
-----------------------------------------------------------------------------
(* The ring, for every capacity and every set of states, behaves as the    *)
(* bounded first-in first-out buffer: the initial state maps to the        *)
(* buffer's and every step to one of its steps or to none.  That a closed  *)
(* queue drains is left to TLC.                                            *)
(*                                                                         *)
(* The type invariant is inductive as it stands.  The mapping reads the    *)
(* ring from `head' on; two places of the ring below Capacity apart are    *)
(* different slots, so a push disturbs none of the elements already there, *)
(* and a pop only shifts the reading by one.                               *)

\* Remainders, as far as the ring needs them.
LEMMA RemainderInRange ==
    ASSUME NEW c \in Nat \ {0}, NEW a \in Nat
    PROVE  a % c \in 0..(c - 1)
  OBVIOUS

\* Below twice the capacity a remainder is the number or the number less
\* the capacity.
LEMMA RemainderUnwraps ==
    ASSUME NEW c \in Nat \ {0}, NEW a \in 0..(2 * c - 1)
    PROVE  a % c = IF a < c THEN a ELSE a - c
<1>1. CASE a < c
  BY <1>1
<1>2. CASE a >= c
  <2>1. a = 1 * c + (a - c) /\ a - c \in 0..(c - 1)
    BY <1>2
  <2> QED
    BY <2>1, <1>2
<1> QED
  BY <1>1, <1>2

\* The ring stays inside its array.
LEMMA QueueTypeInit == QueueInit => QueueTypeOK
<1> SUFFICES ASSUME QueueInit PROVE QueueTypeOK
  OBVIOUS
<1>1. 0 \in Indices /\ 0 \in 0..Capacity
  BY QueueAssumption DEF Indices
<1>2. events \in [Indices -> States]
  BY QueueAssumption DEF QueueInit
<1>3. closed \in BOOLEAN /\ result \in States \cup {NoState, "Enqueued", "Full", "Closed"}
  BY DEF QueueInit
<1> QED
  BY <1>1, <1>2, <1>3 DEF QueueInit, QueueTypeOK

\* No operation leaves the array.
LEMMA QueueTypeNext == QueueTypeOK /\ [QueueNext]_queueVars => QueueTypeOK'
<1> SUFFICES ASSUME QueueTypeOK, [QueueNext]_queueVars PROVE QueueTypeOK'
  OBVIOUS
<1> USE QueueAssumption DEF QueueTypeOK, Indices
<1>1. ASSUME NEW state \in States, TryPush(state) PROVE QueueTypeOK'
  BY <1>1 DEF TryPush
<1>2. ASSUME TryPop PROVE QueueTypeOK'
  <2>1. (head + 1) % Capacity \in 0..(Capacity - 1)
    BY RemainderInRange
  <2> QED
    BY <1>2, <2>1 DEF TryPop
<1>3. ASSUME Close PROVE QueueTypeOK'
  BY <1>3 DEF Close
<1>4. CASE UNCHANGED queueVars
  BY <1>4 DEF queueVars
<1> QED
  BY <1>1, <1>2, <1>3, <1>4 DEF QueueNext

\* For any capacity the ring stays inside its array.
THEOREM QueueTypeCorrect == QueueSpec => []QueueTypeOK
  BY QueueTypeInit, QueueTypeNext, PTL DEF QueueSpec
-----------------------------------------------------------------------------
\* Contents is a sequence of states, as long as size says.
LEMMA ContentsAreStates ==
    ASSUME QueueTypeOK
    PROVE  Contents \in Seq(States) /\ Len(Contents) = size /\ DOMAIN Contents = 1..size
<1> USE QueueAssumption DEF QueueTypeOK, Indices
<1>1. \A i \in 1..size : (head + i - 1) % Capacity \in 0..(Capacity - 1)
  BY RemainderInRange
<1> QED
  BY <1>1 DEF Contents

\* Two places of the ring less than Capacity apart are different slots.
LEMMA SlotsDiffer ==
    ASSUME NEW c \in Nat \ {0}, NEW h \in 0..(c - 1), NEW n \in 0..(c - 1), NEW i \in 1..n
    PROVE  (h + i - 1) % c # (h + n) % c
<1>1. h + i - 1 \in 0..(2 * c - 1) /\ h + n \in 0..(2 * c - 1)
  OBVIOUS
<1> DEFINE a == h + i - 1
           b == h + n
<1>2. a % c = IF a < c THEN a ELSE a - c
  BY <1>1, RemainderUnwraps
<1>3. b % c = IF b < c THEN b ELSE b - c
  BY <1>1, RemainderUnwraps
<1>4. a \in Int /\ b \in Int /\ a < b /\ b - a < c
  OBVIOUS
<1>5. a % c # b % c
  <2> HIDE DEF a, b
  <2> QED
    BY <1>2, <1>3, <1>4
<1> QED
  BY <1>5

\* Moving on by one and then by k is moving on by k + 1.
LEMMA SlotsShift ==
    ASSUME NEW c \in Nat \ {0}, NEW h \in 0..(c - 1), NEW k \in 0..(c - 1)
    PROVE  (((h + 1) % c) + k) % c = (h + 1 + k) % c
<1>1. CASE h + 1 < c
  <2>1. (h + 1) % c = h + 1
    <3>1. h + 1 \in 0..(2 * c - 1)
      BY <1>1
    <3> QED
      BY <1>1, <3>1, RemainderUnwraps
  <2> QED
    BY <2>1
<1>2. CASE h + 1 = c
  <2>1. c % c = 0
    <3>1. c \in 0..(2 * c - 1)
      OBVIOUS
    <3> QED
      BY <3>1, RemainderUnwraps
  <2>2. k % c = k
    <3>1. k \in 0..(2 * c - 1)
      OBVIOUS
    <3> QED
      BY <3>1, RemainderUnwraps
  <2>3. (c + k) % c = k
    <3>1. c + k \in 0..(2 * c - 1)
      OBVIOUS
    <3> DEFINE a == c + k
    <3>2. a % c = IF a < c THEN a ELSE a - c
      BY <3>1, RemainderUnwraps
    <3>3. ~(a < c) /\ a - c = k
      OBVIOUS
    <3> QED
      BY <3>2, <3>3
  <2>4. 0 + k = k
    OBVIOUS
  <2> QED
    BY <1>2, <2>1, <2>2, <2>3, <2>4
<1> QED
  BY <1>1, <1>2

\* A push that is taken appends its state.
LEMMA PushAppends ==
    ASSUME QueueTypeOK, NEW state \in States, TryPush(state), ~closed, size # Capacity
    PROVE  Contents' = Append(Contents, state)
<1>1. /\ size' = size + 1 /\ head' = head
      /\ events' = [events EXCEPT ![(head + size) % Capacity] = state]
  BY DEF TryPush
<1>2. /\ Capacity \in Nat \ {0} /\ head \in 0..(Capacity - 1) /\ size \in 0..(Capacity - 1)
      /\ events \in [0..(Capacity - 1) -> States]
  BY QueueAssumption DEF QueueTypeOK, Indices
<1> DEFINE slot(i) == (head + i - 1) % Capacity
           next    == (head + size) % Capacity
<1>3. next \in 0..(Capacity - 1)
  BY <1>2, RemainderInRange
<1>4. \A i \in 1..size : slot(i) # next /\ slot(i) \in 0..(Capacity - 1)
  <2> SUFFICES ASSUME NEW i \in 1..size
               PROVE  slot(i) # next /\ slot(i) \in 0..(Capacity - 1)
    OBVIOUS
  <2>1. slot(i) # next
    BY <1>2, SlotsDiffer
  <2>2. head + i - 1 \in Nat
    BY <1>2
  <2> QED
    BY <1>2, <2>1, <2>2, RemainderInRange
<1>5. slot(size + 1) = next
  <2>1. head + (size + 1) - 1 = head + size
    BY <1>2
  <2> QED
    BY <2>1
<1>6. Contents' = [i \in 1..(size + 1) |-> events'[slot(i)]]
  BY <1>1 DEF Contents
<1>7. Contents = [i \in 1..size |-> events[slot(i)]]
  BY DEF Contents
<1> HIDE DEF slot, next
<1>8. \A i \in 1..size : events'[slot(i)] = events[slot(i)]
  BY <1>1, <1>2, <1>3, <1>4 DEF next
<1>9. events'[slot(size + 1)] = state
  BY <1>1, <1>2, <1>3, <1>5 DEF next
<1>10. Contents \in Seq(States) /\ Len(Contents) = size
  BY ContentsAreStates
<1>11. Append(Contents, state)
          = [i \in 1..(size + 1) |-> IF i = size + 1 THEN state ELSE Contents[i]]
  BY <1>2, <1>10, AppendAsFunction
<1>12. \A i \in 1..(size + 1) :
          events'[slot(i)] = IF i = size + 1 THEN state ELSE Contents[i]
  BY <1>2, <1>7, <1>8, <1>9
<1> QED
  BY <1>6, <1>11, <1>12

\* A pop of a queue that is not empty takes the first element.
LEMMA PopTakesFirst ==
    ASSUME QueueTypeOK, TryPop, size # 0
    PROVE  Contents # <<>> /\ result' = Head(Contents) /\ Contents' = Tail(Contents)
<1>1. /\ size' = size - 1 /\ head' = (head + 1) % Capacity /\ events' = events
      /\ result' = events[head]
  BY DEF TryPop
<1>2. /\ Capacity \in Nat \ {0} /\ head \in 0..(Capacity - 1) /\ size \in 1..Capacity
  BY QueueAssumption DEF QueueTypeOK, Indices
<1> DEFINE slot(i) == (head + i - 1) % Capacity
           slotAfter(i) == (((head + 1) % Capacity) + i - 1) % Capacity
<1>3. slot(1) = head
  <2>1. head + 1 - 1 = head /\ head \in 0..(2 * Capacity - 1)
    BY <1>2
  <2>2. head % Capacity = head
    BY <1>2, <2>1, RemainderUnwraps
  <2> QED
    BY <2>1, <2>2
<1>4. ASSUME NEW i \in 1..(size - 1) PROVE slotAfter(i) = slot(i + 1)
  <2>1. i - 1 \in 0..(Capacity - 1)
    BY <1>2
  <2>2. (((head + 1) % Capacity) + (i - 1)) % Capacity = (head + 1 + (i - 1)) % Capacity
    BY <1>2, <2>1, SlotsShift
  <2>3. (head + 1) % Capacity \in Int
    BY <1>2
  <2>4. ((head + 1) % Capacity) + (i - 1) = ((head + 1) % Capacity) + i - 1
    BY <2>3
  <2>5. head + 1 + (i - 1) = head + (i + 1) - 1
    BY <1>2
  <2> QED
    BY <2>2, <2>4, <2>5
<1>5. Contents' = [i \in 1..(size - 1) |-> events[slotAfter(i)]]
  BY <1>1 DEF Contents
<1>6. Contents = [i \in 1..size |-> events[slot(i)]]
  BY DEF Contents
<1> HIDE DEF slot, slotAfter
<1>7. Contents \in Seq(States) /\ Len(Contents) = size
  BY ContentsAreStates
<1>8. Contents # <<>> /\ Head(Contents) = Contents[1]
  BY <1>2, <1>7
<1>9. Contents[1] = events[head]
  BY <1>2, <1>3, <1>6
<1>10. Tail(Contents) = [i \in 1..(size - 1) |-> Contents[i + 1]]
  BY <1>7, <1>8, TailAsFunction
<1>11. \A i \in 1..(size - 1) : events[slotAfter(i)] = Contents[i + 1]
  BY <1>2, <1>4, <1>6
<1>12. Contents' = Tail(Contents)
  BY <1>5, <1>10, <1>11
<1> QED
  BY <1>1, <1>8, <1>9, <1>12

\* The initial state of the ring is the empty buffer.
LEMMA InitMaps == QueueInit => Fifo!FifoInit
  BY DEF QueueInit, Fifo!FifoInit, Contents

\* Every step of the ring is a step of the buffer or changes nothing of it.
LEMMA StepMaps ==
    QueueTypeOK /\ [QueueNext]_queueVars => [Fifo!FifoNext]_(Fifo!fifoVars)
<1> SUFFICES ASSUME QueueTypeOK, [QueueNext]_queueVars
             PROVE  [Fifo!FifoNext]_(Fifo!fifoVars)
  OBVIOUS
<1>1. Len(Contents) = size /\ size \in 0..Capacity
  BY ContentsAreStates DEF QueueTypeOK
<1>2. Contents = <<>> <=> size = 0
  <2>1. Contents \in Seq(States) /\ Len(Contents) = size
    BY ContentsAreStates
  <2> QED
    BY <2>1
<1>3. ASSUME NEW state \in States, TryPush(state) PROVE Fifo!Push(state)
  <2>1. CASE closed \/ size = Capacity
    <3>1. UNCHANGED <<events, head, size>>
      BY <1>3, <2>1 DEF TryPush
    <3>2. Contents' = Contents
      BY <3>1 DEF Contents
    <3> QED
      BY <1>3, <1>1, <2>1, <3>2 DEF TryPush, Fifo!Push
  <2>2. CASE ~closed /\ size # Capacity
    <3>1. Contents' = Append(Contents, state)
      BY <1>3, <2>2, PushAppends
    <3>2. Len(Contents) < Capacity
      BY <1>1, <2>2, QueueAssumption
    <3>3. UNCHANGED closed /\ result' = "Enqueued"
      BY <1>3, <2>2 DEF TryPush
    <3> QED
      BY <2>2, <3>1, <3>2, <3>3 DEF Fifo!Push
  <2> QED
    BY <2>1, <2>2
<1>4. ASSUME TryPop PROVE Fifo!Pop
  <2>1. CASE size = 0
    <3>1. UNCHANGED <<events, head, size>> /\ result' = NoState /\ UNCHANGED closed
      BY <1>4, <2>1 DEF TryPop
    <3>2. Contents' = Contents
      BY <3>1 DEF Contents
    <3> QED
      BY <1>2, <2>1, <3>1, <3>2 DEF Fifo!Pop
  <2>2. CASE size # 0
    <3>1. Contents # <<>> /\ result' = Head(Contents) /\ Contents' = Tail(Contents)
      BY <1>4, <2>2, PopTakesFirst
    <3> QED
      BY <1>4, <3>1 DEF TryPop, Fifo!Pop
  <2> QED
    BY <2>1, <2>2
<1>5. ASSUME Close PROVE Fifo!Shut
  BY <1>5 DEF Close, Fifo!Shut, Contents
<1>6. CASE UNCHANGED queueVars
  BY <1>6 DEF queueVars, Fifo!fifoVars, Contents
<1> QED
  BY <1>3, <1>4, <1>5, <1>6 DEF QueueNext, Fifo!FifoNext

\* The ring implements the bounded first-in first-out buffer, whatever its
\* capacity (try_push, try_pop, close).
THEOREM QueueIsFifo == QueueSpec => IsBoundedFifo
  BY InitMaps, StepMaps, QueueTypeCorrect, PTL DEF QueueSpec, IsBoundedFifo, Fifo!FifoSpec
-----------------------------------------------------------------------------
(* The budget, for any set of threads, capacity and sizes.                 *)
(*                                                                         *)
(* The account is inductive with the types and with the fact that a        *)
(* reservation under way asks for no more than the capacity, which is what *)
(* keeps CapacityBytes - n from going below zero.  A refusal is deserved   *)
(* because the value a loop holds was once the counter's: the strengthened *)
(* invariant says that a held value that forbids the call was observed to  *)
(* forbid it.                                                              *)

InRange == \A t \in Threads : call[t] = "reserve" => bytes[t] <= CapacityBytes

HeldWasSeen ==
    \A t \in Threads :
        call[t] # "none" =>
            /\ Forbids(call[t], bytes[t], current[t]) => refusable[t]
            /\ Forbids(call[t], bytes[t], reserved) => refusable[t]

BudgetInv == BudgetTypeOK /\ BudgetBalances /\ InRange /\ HeldWasSeen

\* What a loop tests is a truth value.
LEMMA ForbidsBoolean == \A kind, n, value : Forbids(kind, n, value) \in BOOLEAN
<1> TAKE kind, n, value
<1>1. (value > CapacityBytes - n) \in BOOLEAN /\ (value < n) \in BOOLEAN
  BY SMT
<1>2. Forbids(kind, n, value) = (value > CapacityBytes - n) \/ Forbids(kind, n, value) = (value < n)
  BY Zenon DEF Forbids
<1> QED
  BY <1>1, <1>2

\* The invariant holds at the start.
LEMMA BudgetInvInit == BudgetInit => BudgetInv
  BY BudgetAssumption
  DEF BudgetInit, BudgetInv, BudgetTypeOK, BudgetBalances, InRange, HeldWasSeen

\* Every step of every thread keeps it.
LEMMA BudgetInvNext == BudgetInv /\ [BudgetNext]_budgetVars => BudgetInv'
<1> SUFFICES ASSUME BudgetInv, [BudgetNext]_budgetVars PROVE BudgetInv'
  OBVIOUS
<1> USE BudgetAssumption DEF BudgetInv, BudgetTypeOK, BudgetBalances
<1>1. ASSUME NEW t \in Threads, NEW kind \in {"reserve", "release"}, NEW n \in Sizes,
             Load(t, kind, n)
      PROVE  BudgetInv'
  <2>1. n \in Nat
    OBVIOUS
  <2>2. Forbids(kind, n, reserved) \in BOOLEAN
    BY ForbidsBoolean
  <2>3. BudgetTypeOK' /\ BudgetBalances'
    BY <1>1, <2>1, <2>2 DEF Load
  <2>4. InRange'
    BY <1>1, <2>1 DEF Load, InRange
  <2>5. ASSUME NEW u \in Threads, call'[u] # "none"
        PROVE  /\ Forbids(call[u], bytes[u], current[u])' => refusable'[u]
               /\ Forbids(call[u], bytes[u], reserved)' => refusable'[u]
    <3>1. CASE u = t
      <4>1. /\ call'[u] = kind /\ bytes'[u] = n /\ current'[u] = reserved
            /\ refusable'[u] = Forbids(kind, n, reserved) /\ reserved' = reserved
        BY <1>1, <3>1 DEF Load
      <4> QED
        BY <4>1 DEF Forbids
    <3>2. CASE u # t
      <4>1. /\ call'[u] = call[u] /\ bytes'[u] = bytes[u] /\ current'[u] = current[u]
            /\ refusable'[u] = refusable[u] /\ reserved' = reserved
        BY <1>1, <3>2 DEF Load
      <4> QED
        BY <4>1, <2>5 DEF Forbids, HeldWasSeen
    <3> QED
      BY <3>1, <3>2
  <2> QED
    BY <2>3, <2>4, <2>5 DEF HeldWasSeen
<1>2. ASSUME NEW t \in Threads, Refuse(t) PROVE BudgetInv'
  <2>1. BudgetTypeOK' /\ BudgetBalances' /\ InRange'
    BY <1>2 DEF Refuse, Return, InRange
  <2>2. HeldWasSeen'
    BY <1>2 DEF Refuse, Return, HeldWasSeen, Forbids
  <2> QED
    BY <2>1, <2>2
<1>3. ASSUME NEW t \in Threads, Exchange(t) PROVE BudgetInv'
  <2> DEFINE change == IF call[t] = "reserve" THEN bytes[t] ELSE -bytes[t]
  <2>1. call[t] \in {"reserve", "release"} /\ bytes[t] \in Nat /\ current[t] \in Nat
    BY <1>3 DEF Exchange
  <2>2. reserved' = reserved + change /\ granted' = granted + change
    BY <1>3 DEF Exchange
  <2>3. reserved + change \in 0..CapacityBytes
    BY <1>3, <2>1 DEF Exchange, Forbids, InRange
  <2>4. reserved' \in 0..CapacityBytes /\ granted' \in Int /\ BudgetBalances'
    BY <2>2, <2>3
  <2>5. \A u \in Threads : Forbids(call[u], bytes[u], reserved') \in BOOLEAN
    BY ForbidsBoolean
  <2>6. BudgetTypeOK'
    BY <1>3, <2>4, <2>5 DEF Exchange, Return
  <2>7. InRange'
    BY <1>3 DEF Exchange, Return, InRange
  <2>8. HeldWasSeen'
    <3> SUFFICES ASSUME NEW u \in Threads, call'[u] # "none"
                 PROVE  /\ Forbids(call[u], bytes[u], current[u])' => refusable'[u]
                        /\ Forbids(call[u], bytes[u], reserved)' => refusable'[u]
      BY DEF HeldWasSeen
    <3>1. u # t /\ call'[u] = call[u] /\ bytes'[u] = bytes[u] /\ current'[u] = current[u]
      BY <1>3 DEF Exchange, Return
    <3>2. refusable'[u] = (refusable[u] \/ (call[u] # "none" /\ Forbids(call[u], bytes[u], reserved')))
      BY <1>3 DEF Exchange
    <3> QED
      BY <3>1, <3>2 DEF HeldWasSeen, Forbids
  <2> QED
    BY <2>4, <2>6, <2>7, <2>8
<1>4. ASSUME NEW t \in Threads, ExchangeFails(t) PROVE BudgetInv'
  <2>1. BudgetTypeOK' /\ BudgetBalances' /\ InRange'
    BY <1>4 DEF ExchangeFails, InRange
  <2>2. HeldWasSeen'
    BY <1>4 DEF ExchangeFails, HeldWasSeen, Forbids
  <2> QED
    BY <2>1, <2>2
<1>5. CASE UNCHANGED budgetVars
  <2>1. BudgetTypeOK' /\ BudgetBalances' /\ InRange'
    BY <1>5 DEF budgetVars, InRange
  <2>2. HeldWasSeen'
    BY <1>5 DEF budgetVars, HeldWasSeen, Forbids
  <2> QED
    BY <2>1, <2>2
<1> QED
  BY <1>1, <1>2, <1>3, <1>4, <1>5 DEF BudgetNext

\* The invariant holds in every reachable state.
THEOREM BudgetInvHolds == BudgetSpec => []BudgetInv
  BY BudgetInvInit, BudgetInvNext, PTL DEF BudgetSpec

\* The counter stays within the capacity and every local within its range.
THEOREM BudgetTypeCorrect == BudgetSpec => []BudgetTypeOK
<1>1. BudgetInv => BudgetTypeOK
  BY DEF BudgetInv
<1> QED
  BY <1>1, BudgetInvHolds, PTL

\* Whatever the threads do, the counter is what was granted and no more than
\* the capacity (try_reserve, release).
THEOREM BudgetIsKept == BudgetSpec => []BudgetBalances
<1>1. BudgetInv => BudgetBalances
  BY DEF BudgetInv
<1> QED
  BY <1>1, BudgetInvHolds, PTL

\* No call is refused that could have been served all along.
THEOREM RefusalsDeserved == BudgetSpec => RefusalsAreDeserved
<1>1. ASSUME BudgetInv, [BudgetNext]_budgetVars,
             NEW t \in Threads, call[t] # "none", call'[t] = "none", ~answer'[t]
      PROVE  refusable[t]
  <2>1. ASSUME NEW u \in Threads, NEW kind \in {"reserve", "release"}, NEW n \in Sizes,
               Load(u, kind, n)
        PROVE  FALSE
    BY <1>1, <2>1 DEF Load, BudgetInv, BudgetTypeOK
  <2>2. ASSUME NEW u \in Threads, Refuse(u) PROVE refusable[t]
    BY <1>1, <2>2 DEF Refuse, Return, BudgetInv, BudgetTypeOK, HeldWasSeen
  <2>3. ASSUME NEW u \in Threads, Exchange(u) PROVE FALSE
    <3>1. u = t
      BY <1>1, <2>3 DEF Exchange, Return, BudgetInv, BudgetTypeOK
    <3>2. answer'[t] = TRUE
      BY <1>1, <2>3, <3>1 DEF Exchange, Return, BudgetInv, BudgetTypeOK
    <3> QED
      BY <1>1, <3>2
  <2>4. ASSUME NEW u \in Threads, ExchangeFails(u) PROVE FALSE
    BY <1>1, <2>4 DEF ExchangeFails
  <2>5. CASE UNCHANGED budgetVars
    BY <1>1, <2>5 DEF budgetVars
  <2> QED
    BY <1>1, <2>1, <2>2, <2>3, <2>4, <2>5 DEF BudgetNext
<1>2. BudgetInv /\ [BudgetNext]_budgetVars =>
        [\A t \in Threads : call[t] # "none" /\ call'[t] = "none" /\ ~answer'[t]
            => refusable[t]]_budgetVars
  BY <1>1
<1> QED
  BY <1>2, BudgetInvHolds, PTL DEF BudgetSpec, RefusalsAreDeserved
-----------------------------------------------------------------------------
(* The dispatcher: lists of slots.                                         *)

\* In the order of subscription, each once.
Rising(s) == \A i, j \in DOMAIN s : i < j => s[i] < s[j]

\* The lists of identifiers.
IdLists == Seq(Ids)

\* One turn of Erased.
ErasedTurn(list, slots, n, before) ==
    IF list[n] \in slots THEN before ELSE Append(before, list[n])

\* Erased is a loop over the list.
LEMMA ErasedLoop ==
    ASSUME NEW list \in IdLists, NEW slots
    PROVE  \E f \in [0..Len(list) -> IdLists] :
              /\ f[0] = <<>> /\ f[Len(list)] = Erased(list, slots)
              /\ \A n \in 1..Len(list) : f[n] = ErasedTurn(list, slots, n, f[n - 1])
<1> DEFINE N == Len(list)
           step == [n \in 1..N |-> [k \in IdLists |-> ErasedTurn(list, slots, n, k)]]
           Erases(g) == g = [n \in 0..N |-> IF n = 0 THEN <<>>
                               ELSE IF list[n] \in slots THEN g[n - 1] ELSE Append(g[n - 1], list[n])]
           after == CHOOSE g : Erases(g)
<1>1. N \in Nat /\ \A n \in 1..N : list[n] \in Ids
  BY LenProperties DEF IdLists
<1>2. \A n \in 1..N, k \in IdLists : ErasedTurn(list, slots, n, k) \in IdLists
  BY <1>1, AppendProperties DEF ErasedTurn, IdLists
<1>3. step \in [1..N -> [IdLists -> IdLists]] /\ <<>> \in IdLists
  BY <1>2 DEF IdLists
<1>4. PICK f \in [0..N -> IdLists] : f[0] = <<>> /\ \A n \in 1..N : f[n] = step[n][f[n - 1]]
  <2> HIDE DEF step, N
  <2> QED
    BY <1>1, <1>3, LoopExists
<1>5. \A n \in 1..N : f[n] = ErasedTurn(list, slots, n, f[n - 1])
  <2> SUFFICES ASSUME NEW n \in 1..N PROVE f[n] = ErasedTurn(list, slots, n, f[n - 1])
    OBVIOUS
  <2>1. n - 1 \in 0..N /\ f[n - 1] \in IdLists
    BY <1>1, <1>4
  <2> QED
    BY <2>1, <1>4
<1>6. Erases(f)
  <2>1. \A n \in 0..N : f[n] = IF n = 0 THEN <<>>
                               ELSE IF list[n] \in slots THEN f[n - 1] ELSE Append(f[n - 1], list[n])
    <3> SUFFICES ASSUME NEW n \in 0..N
                 PROVE  f[n] = IF n = 0 THEN <<>>
                               ELSE IF list[n] \in slots THEN f[n - 1] ELSE Append(f[n - 1], list[n])
      OBVIOUS
    <3>1. CASE n = 0
      BY <3>1, <1>4
    <3>2. CASE n # 0
      <4>1. n \in 1..N
        BY <1>1, <3>2
      <4>2. f[n] = ErasedTurn(list, slots, n, f[n - 1])
        BY <4>1, <1>5
      <4> QED
        BY <3>2, <4>2 DEF ErasedTurn
    <3> QED
      BY <3>1, <3>2
  <2> HIDE DEF N
  <2> QED
    BY <2>1, <1>4
<1>7. Erases(after)
  <2> HIDE DEF Erases
  <2> QED
    BY <1>6
<1>8. Erased(list, slots) = after[N]
  BY DEF Erased
<1>9. after = f
  <2> DEFINE T == {n \in 0..N : after[n] = f[n]}
  <2>0. \A n \in 0..N : after[n] = IF n = 0 THEN <<>>
                               ELSE IF list[n] \in slots THEN after[n - 1] ELSE Append(after[n - 1], list[n])
    <3> HIDE DEF after
    <3> QED
      BY <1>7
  <2>00. after = [n \in 0..N |-> after[n]]
    <3> HIDE DEF after
    <3> QED
      BY <1>7
  <2> HIDE DEF after, N
  <2>1. 0 \in T
    BY <2>0, <1>1, <1>4
  <2>2. \A n \in 1..N : n - 1 \in T => n \in T
    <3> SUFFICES ASSUME NEW n \in 1..N, n - 1 \in T PROVE n \in T
      OBVIOUS
    <3>1. after[n] = ErasedTurn(list, slots, n, after[n - 1])
      BY <2>0, <1>1 DEF ErasedTurn
    <3> QED
      BY <3>1, <1>5, <1>1
  <2>3. T = 0..N
    <3> HIDE DEF T
    <3>1. T \in SUBSET (0..N)
      BY DEF T
    <3> QED
      BY <1>1, <2>1, <2>2, <3>1, IntervalInduction
  <2>4. \A n \in 0..N : after[n] = f[n]
    BY <2>3
  <2>5. f = [n \in 0..N |-> f[n]]
    BY <1>4
  <2> QED
    BY <2>4, <2>00, <2>5
<1> QED
  BY <1>4, <1>5, <1>8, <1>9

\* A later subscription goes to the end.
LEMMA RisingAppend ==
    ASSUME NEW s \in IdLists, Rising(s), NEW e \in Ids, \A id \in ToSet(s) : id < e
    PROVE  Append(s, e) \in IdLists /\ Rising(Append(s, e)) /\ ToSet(Append(s, e)) = ToSet(s) \cup {e}
<1> DEFINE t == Append(s, e)
           n == Len(s)
<1>1. s \in Seq(Ids) /\ n \in Nat /\ DOMAIN s = 1..n
  BY LenProperties DEF IdLists
<1>2. t \in Seq(Ids) /\ Len(t) = n + 1 /\ t[n + 1] = e /\ \A i \in 1..n : t[i] = s[i]
  BY <1>1, AppendProperties
<1>3. DOMAIN t = 1..(n + 1)
  BY <1>2, LenProperties
<1> HIDE DEF t
<1>4. \A i \in 1..n : s[i] < e /\ s[i] \in Nat
  <2> SUFFICES ASSUME NEW i \in 1..n PROVE s[i] < e /\ s[i] \in Nat
    OBVIOUS
  <2>1. s[i] \in Ids /\ s[i] \in ToSet(s)
    BY <1>1 DEF ToSet
  <2> QED
    BY <2>1 DEF Ids
<1>5. Rising(t)
  <2> SUFFICES ASSUME NEW i \in 1..(n + 1), NEW j \in 1..(n + 1), i < j PROVE t[i] < t[j]
    BY <1>3 DEF Rising
  <2>1. i \in 1..n /\ t[i] = s[i]
    BY <1>1, <1>2
  <2>2. CASE j = n + 1
    BY <2>1, <2>2, <1>2, <1>4
  <2>3. CASE j # n + 1
    <3>1. j \in 1..n /\ t[j] = s[j]
      BY <1>1, <1>2, <2>3
    <3> QED
      BY <2>1, <3>1, <1>1 DEF Rising
  <2> QED
    BY <2>2, <2>3
<1>6. ToSet(t) = ToSet(s) \cup {e}
  BY <1>1, AppendToSet DEF t
<1> QED
  BY <1>2, <1>5, <1>6 DEF t, IdLists

\* What was erased is gone, the rest stays in order.
LEMMA ErasedProperties ==
    ASSUME NEW list \in IdLists, Rising(list), NEW slots
    PROVE  LET left == Erased(list, slots) IN
           left \in IdLists /\ Rising(left) /\ ToSet(left) = ToSet(list) \ slots
<1> DEFINE N == Len(list)
           Upto(n) == {list[i] : i \in 1..n}
<1>1. list \in Seq(Ids) /\ N \in Nat /\ DOMAIN list = 1..N /\ \A i \in 1..N : list[i] \in Ids
  BY LenProperties DEF IdLists
<1>2. PICK f \in [0..N -> IdLists] :
         /\ f[0] = <<>> /\ f[N] = Erased(list, slots)
         /\ \A n \in 1..N : f[n] = ErasedTurn(list, slots, n, f[n - 1])
  BY ErasedLoop
<1> DEFINE T == {n \in 0..N : Rising(f[n]) /\ ToSet(f[n]) = Upto(n) \ slots}
<1>3. 0 \in T
  BY <1>1, <1>2 DEF Rising, ToSet
<1>4. \A n \in 1..N : n - 1 \in T => n \in T
  <2> SUFFICES ASSUME NEW n \in 1..N, n - 1 \in T PROVE n \in T
    OBVIOUS
  <2>1. n - 1 \in 0..N /\ f[n - 1] \in IdLists /\ Rising(f[n - 1]) /\ ToSet(f[n - 1]) = Upto(n - 1) \ slots
    BY <1>1, <1>2
  <2>2. Upto(n) = Upto(n - 1) \cup {list[n]}
    <3>1. 1..n = 1..(n - 1) \cup {n}
      BY <1>1
    <3> QED
      BY <3>1
  <2>3. \A id \in Upto(n - 1) : id < list[n]
    BY <1>1 DEF Rising
  <2>4. list[n] \in Ids
    BY <1>1
  <2> DEFINE k == f[n - 1]
             U == Upto(n - 1)
             V == Upto(n)
             e == list[n]
  <2>5. f[n] = IF e \in slots THEN k ELSE Append(k, e)
    BY <1>2 DEF ErasedTurn
  <2>6. V = U \cup {e} /\ (\A id \in U : id < e) /\ e \in Ids /\ k \in IdLists /\ Rising(k) /\ ToSet(k) = U \ slots
    BY <2>1, <2>2, <2>3, <2>4
  <2>7. Rising(f[n]) /\ ToSet(f[n]) = V \ slots
    <3> HIDE DEF k, U, V, e
    <3>1. CASE e \in slots
      BY <3>1, <2>5, <2>6
    <3>2. CASE e \notin slots
      <4>1. Rising(Append(k, e)) /\ ToSet(Append(k, e)) = ToSet(k) \cup {e}
        BY <2>6, RisingAppend
      <4> QED
        BY <3>2, <4>1, <2>5, <2>6
    <3> QED
      BY <3>1, <3>2
  <2>8. n \in 0..N
    BY <1>1
  <2> QED
    BY <2>7, <2>8
<1>5. T = 0..N
  <2> HIDE DEF T
  <2>1. T \in SUBSET (0..N)
    BY DEF T
  <2> QED
    BY <1>1, <1>3, <1>4, <2>1, IntervalInduction
<1>6. N \in T
  BY <1>1, <1>5
<1>7. Upto(N) = ToSet(list)
  BY <1>1 DEF ToSet
<1>8. f[N] \in IdLists
  BY <1>1, <1>2
<1> QED
  BY <1>2, <1>6, <1>7, <1>8

-----------------------------------------------------------------------------
(* The dispatcher: chains of callbacks that own subscriptions.             *)

\* What the slots to be destroyed own, among these connections' slots.
CallsTurn(owns, destroyed, before) ==
    before \cup ({owns[c.id] : c \in {d \in before : d.id \in destroyed}} \ {None})

\* Sets of connections.
ConnectionSets == SUBSET Connections

\* A connection or none, and per slot what its callback owns.
MaybeConnection == Connections \cup {None}

Owners == [Ids -> Connections \cup {None}]

\* The rounds of Calls.
CallsRun(f, lists, owns, frames, connection) ==
    /\ f \in [0..MaxId -> ConnectionSets] /\ f[0] = {connection} \ {None}
    /\ f[MaxId] = Calls(lists, owns, frames, connection)
    /\ \A n \in 1..MaxId : f[n] = CallsTurn(owns, Listed(lists) \ Pinned(frames), f[n - 1])

\* Calls is a loop that adds what the slots own, as often as there are
\* identifiers.
LEMMA CallsLoop ==
    ASSUME NEW lists, NEW owns \in Owners, NEW frames, NEW connection \in MaybeConnection
    PROVE  \E f : CallsRun(f, lists, owns, frames, connection)
<1> DEFINE N == MaxId
           D == Listed(lists) \ Pinned(frames)
           a == {connection} \ {None}
           step == [n \in 1..N |-> [k \in ConnectionSets |-> CallsTurn(owns, D, k)]]
           Grows(g) == g = [n \in 0..N |-> IF n = 0 THEN a
                              ELSE g[n - 1] \cup ({owns[c.id] : c \in {d \in g[n - 1] : d.id \in D}} \ {None})]
           after == CHOOSE g : Grows(g)
<1>1. N \in Nat /\ a \in ConnectionSets
  BY DispatcherAssumption DEF ConnectionSets, MaybeConnection
<1> HIDE DEF a, D
<1>2. \A k \in ConnectionSets : CallsTurn(owns, D, k) \in ConnectionSets
  BY DEF CallsTurn, ConnectionSets, Owners, Connections
<1>3. step \in [1..N -> [ConnectionSets -> ConnectionSets]]
  BY <1>2
<1>4. PICK f \in [0..N -> ConnectionSets] : f[0] = a /\ \A n \in 1..N : f[n] = step[n][f[n - 1]]
  <2> HIDE DEF step, N
  <2> QED
    BY <1>1, <1>3, LoopExists
<1>5. \A n \in 1..N : f[n] = CallsTurn(owns, D, f[n - 1])
  <2> SUFFICES ASSUME NEW n \in 1..N PROVE f[n] = CallsTurn(owns, D, f[n - 1])
    OBVIOUS
  <2>1. n - 1 \in 0..N /\ f[n - 1] \in ConnectionSets
    BY <1>1, <1>4
  <2> QED
    BY <2>1, <1>4
<1>6. Grows(f)
  <2>1. \A n \in 0..N : f[n] = IF n = 0 THEN a
                               ELSE f[n - 1] \cup ({owns[c.id] : c \in {d \in f[n - 1] : d.id \in D}} \ {None})
    <3> SUFFICES ASSUME NEW n \in 0..N
                 PROVE  f[n] = IF n = 0 THEN a
                               ELSE f[n - 1] \cup ({owns[c.id] : c \in {d \in f[n - 1] : d.id \in D}} \ {None})
      OBVIOUS
    <3>1. CASE n = 0
      BY <3>1, <1>4
    <3>2. CASE n # 0
      <4>1. n \in 1..N
        BY <1>1, <3>2
      <4>2. f[n] = CallsTurn(owns, D, f[n - 1])
        BY <4>1, <1>5
      <4> QED
        BY <3>2, <4>2 DEF CallsTurn
    <3> QED
      BY <3>1, <3>2
  <2> HIDE DEF N
  <2> QED
    BY <2>1, <1>4
<1>7. Grows(after)
  <2> HIDE DEF Grows
  <2> QED
    BY <1>6
<1>8. Calls(lists, owns, frames, connection) = after[N]
  BY DEF Calls, a, D
<1>9. after = f
  <2> DEFINE T == {n \in 0..N : after[n] = f[n]}
  <2>0. /\ after = [n \in 0..N |-> after[n]]
        /\ \A n \in 0..N : after[n] = IF n = 0 THEN a
                               ELSE after[n - 1] \cup ({owns[c.id] : c \in {d \in after[n - 1] : d.id \in D}} \ {None})
    <3> HIDE DEF after
    <3> QED
      BY <1>7
  <2> HIDE DEF after, N
  <2>1. 0 \in T
    BY <2>0, <1>1, <1>4
  <2>2. \A n \in 1..N : n - 1 \in T => n \in T
    <3> SUFFICES ASSUME NEW n \in 1..N, n - 1 \in T PROVE n \in T
      OBVIOUS
    <3>1. after[n] = CallsTurn(owns, D, after[n - 1])
      <4>1. n \in 0..N /\ n # 0
        BY <1>1
      <4>2. after[n] = IF n = 0 THEN a
                       ELSE after[n - 1] \cup ({owns[c.id] : c \in {d \in after[n - 1] : d.id \in D}} \ {None})
        BY <4>1, <2>0
      <4> QED
        BY <4>1, <4>2 DEF CallsTurn
    <3> QED
      BY <3>1, <1>5, <1>1
  <2>3. T = 0..N
    <3> HIDE DEF T
    <3>1. T \in SUBSET (0..N)
      BY DEF T
    <3> QED
      BY <1>1, <2>1, <2>2, <3>1, IntervalInduction
  <2>4. \A n \in 0..N : after[n] = f[n]
    BY <2>3
  <2>5. f = [n \in 0..N |-> f[n]]
    BY <1>4
  <2> QED
    BY <2>4, <2>0, <2>5
<1> HIDE DEF step, Grows, after
<1>10. /\ f \in [0..MaxId -> ConnectionSets] /\ f[0] = {connection} \ {None}
       /\ f[MaxId] = Calls(lists, owns, frames, connection)
       /\ \A n \in 1..MaxId : f[n] = CallsTurn(owns, Listed(lists) \ Pinned(frames), f[n - 1])
  BY <1>4, <1>5, <1>8, <1>9 DEF a, D
<1>11. CallsRun(f, lists, owns, frames, connection)
  BY <1>10 DEF CallsRun
<1> QED
  BY <1>11

\* One turn adds what is owned by the slots to be destroyed, and no other.
LEMMA TurnAdds ==
    ASSUME NEW owns, NEW destroyed, NEW before
    PROVE  /\ before \subseteq CallsTurn(owns, destroyed, before)
           /\ \A c \in before : c.id \in destroyed /\ owns[c.id] # None
                                  => owns[c.id] \in CallsTurn(owns, destroyed, before)
           /\ \A c \in CallsTurn(owns, destroyed, before) :
                 c \in before \/ \E d \in before : d.id \in destroyed /\ owns[d.id] = c
  BY DEF CallsTurn

\* A callback owns an earlier subscription than its own.
OwnsEarlier(owns) == \A i \in Ids : owns[i] # None => owns[i].id < i

\* Everything that ends because this connection does.
EndsWith(calls, connection, owns, destroyed) ==
    /\ calls \subseteq Connections
    /\ connection # None => connection \in calls
    /\ \A c \in calls : c.id \in destroyed /\ owns[c.id] # None => owns[c.id] \in calls
    /\ \A c \in calls : c = connection \/ \E d \in calls : d.id \in destroyed /\ owns[d.id] = c

\* Callbacks own earlier subscriptions, so all are reached in the end; and
\* nothing is reached but what is owned by a slot that goes.
LEMMA CallsClosed ==
    ASSUME NEW lists, NEW owns \in Owners, NEW frames, NEW connection \in MaybeConnection,
           OwnsEarlier(owns)
    PROVE  EndsWith(Calls(lists, owns, frames, connection), connection, owns,
                    Listed(lists) \ Pinned(frames))
<1> USE DEF OwnsEarlier
<1> DEFINE N == MaxId
           D == Listed(lists) \ Pinned(frames)
           calls == Calls(lists, owns, frames, connection)
<1>1. N \in Nat
  BY DispatcherAssumption
<1>2. PICK f \in [0..N -> ConnectionSets] :
         /\ f[0] = {connection} \ {None} /\ f[N] = calls
         /\ \A n \in 1..N : f[n] = CallsTurn(owns, D, f[n - 1])
  <2>1. PICK f : CallsRun(f, lists, owns, frames, connection)
    BY CallsLoop
  <2> QED
    BY <2>1 DEF CallsRun
<1> HIDE DEF calls, D
<1> DEFINE Owned(n) == \A c \in f[n] : c = connection \/ \E d \in f[n] : d.id \in D /\ owns[d.id] = c
           Closed(n) == \A c \in f[n] : c.id > N - n /\ c.id \in D /\ owns[c.id] # None => owns[c.id] \in f[n]
           Holds(n) == (connection # None => connection \in f[n]) /\ Owned(n) /\ Closed(n)
           T == {n \in 0..N : Holds(n)}
<1>3. \A n \in 0..N : f[n] \in SUBSET Connections
  BY <1>2 DEF ConnectionSets
<1>4. \A c \in Connections : c.id \in Ids /\ c.id \in 1..N /\ c.id \in Int /\ c # None
  BY NoConnectionAssumption, <1>1 DEF Connections, Ids
<1>5. 0 \in T
  <2>1. f[0] \subseteq {connection} /\ (connection # None => connection \in f[0]) /\ f[0] \subseteq Connections
    BY <1>1, <1>2, <1>3
  <2>2. Closed(0)
    BY <2>1, <1>4, <1>1
  <2> QED
    BY <2>1, <2>2, <1>1
<1>6. ASSUME NEW n \in 1..N, n - 1 \in T PROVE n \in T
  <2> DEFINE before == f[n - 1]
             next == f[n]
  <2>1. n - 1 \in 0..N /\ n \in 0..N /\ n \in Int
    BY <1>1
  <2>2. before \subseteq Connections /\ next \subseteq Connections /\ next = CallsTurn(owns, D, before)
    BY <2>1, <1>2, <1>3
  <2>3. /\ connection # None => connection \in before
        /\ \A c \in before : c = connection \/ \E d \in before : d.id \in D /\ owns[d.id] = c
        /\ \A c \in before : c.id > N - (n - 1) /\ c.id \in D /\ owns[c.id] # None => owns[c.id] \in before
    BY <1>6
  <2> HIDE DEF before, next
  <2>4. /\ before \subseteq next
        /\ \A c \in before : c.id \in D /\ owns[c.id] # None => owns[c.id] \in next
        /\ \A c \in next : c \in before \/ \E d \in before : d.id \in D /\ owns[d.id] = c
    BY <2>2, TurnAdds
  <2>5. \A c \in next : c = connection \/ \E d \in next : d.id \in D /\ owns[d.id] = c
    BY <2>3, <2>4
  <2>6. ASSUME NEW c \in next, c.id > N - n, c.id \in D, owns[c.id] # None PROVE owns[c.id] \in next
    <3>1. CASE c \in before
      BY <3>1, <2>4, <2>6
    <3>2. CASE c \notin before
      <4>1. PICK d \in before : d.id \in D /\ owns[d.id] = c
        BY <3>2, <2>4
      <4>2. d.id \in Ids /\ d.id \in Int /\ c.id \in Int /\ c # None
        BY <2>2, <1>4
      <4>3. c.id < d.id
        BY <4>1, <4>2
      <4>4. d.id > N - (n - 1)
        BY <4>2, <4>3, <2>6, <2>1, <1>1
      <4> QED
        BY <4>1, <4>2, <4>4, <2>3, <3>2
    <3> QED
      BY <3>1, <3>2
  <2>7. Holds(n)
    BY <2>3, <2>4, <2>5, <2>6 DEF before, next
  <2> QED
    BY <2>1, <2>7
<1>7. T = 0..N
  <2> HIDE DEF T
  <2>1. T \in SUBSET (0..N)
    BY DEF T
  <2> QED
    BY <1>1, <1>5, <1>6, <2>1, IntervalInduction
<1>8. Holds(N) /\ N \in 0..N
  BY <1>1, <1>7
<1>9. \A c \in calls : c.id > N - N
  BY <1>2, <1>3, <1>4, <1>8
<1> QED
  BY <1>2, <1>3, <1>8, <1>9 DEF D, calls, EndsWith

-----------------------------------------------------------------------------
(* The dispatcher: who holds what.  A connection is held by a handle, by   *)
(* the callback of a slot, or, between the moves of one call, by nobody    *)
(* that will last: H, O and X.                                             *)

\* All connections that somebody holds.
AllOf(H, O, X) == (H \cup {O[i] : i \in Ids} \cup X) \ {None}

\* Slots that a list or a running dispatch keeps.
IsListed(L, i) == \E e \in Events : i \in L[e]

\* Lists, flags and connections account for each other.
ListsAgree(L, F, A, G) ==
    /\ \A e \in Events, id \in Ids : id \in L[e] <=> id \notin G /\ \E c \in A : c.event = e /\ c.id = id
    /\ \A id \in Ids : id \in F <=> id \notin G /\ \E c \in A : c.id = id
    /\ \A c, d \in A : c.id = d.id => c = d

\* Nothing is held twice, callbacks hold earlier subscriptions, and a slot
\* that is kept by nothing holds nothing, but for what is about to end.
HeldOnce(L, O, H, X, P) ==
    /\ \A i, j \in Ids : O[i] # None /\ O[i] = O[j] => i = j
    /\ \A i \in Ids : O[i] \notin H
    /\ \A i \in Ids : O[i] # None => O[i].id < i /\ (O[i] \in X \/ i \in P \/ IsListed(L, i))
    /\ X \cap H = {} /\ \A i \in Ids : O[i] \in X => i \notin P /\ ~IsListed(L, i)

\* The whole account: lists, flags, owners, handles, what is about to end,
\* what dispatches keep and what was cleared.
Account(L, F, O, H, X, P, G) ==
    /\ H \subseteq Connections /\ X \subseteq Connections /\ O \in Owners
    /\ ListsAgree(L, F, AllOf(H, O, X), G)
    /\ HeldOnce(L, O, H, X, P)

\* The connections that end, from X on along what the slots own.
Chained(E, O, L, X, P) ==
    /\ E \subseteq Connections /\ X \subseteq E
    /\ \A c \in E : c.id \notin P /\ IsListed(L, c.id) /\ O[c.id] # None => O[c.id] \in E
    /\ \A c \in E : c \in X \/ \E d \in E : d.id \notin P /\ IsListed(L, d.id) /\ O[d.id] = c

\* What their end does to lists, flags and callbacks.
Unlisted(L2, L, E) == \A e \in Events, id \in Ids :
    id \in L2[e] <=> id \in L[e] /\ ~\E c \in E : c.event = e /\ c.id = id

Lowered(F2, F, E) == \A id \in Ids : id \in F2 <=> id \in F /\ ~\E c \in E : c.id = id

Kept(O2, O, L2, P) == \A i \in Ids : O2[i] = IF i \in P \/ IsListed(L2, i) THEN O[i] ELSE None

\* When connections end with all that they lead to, what is left accounts for
\* itself again (State::disconnect).
LEMMA EndedAccount ==
    ASSUME NEW L, NEW F, NEW O, NEW H, NEW X, NEW P, NEW G, Account(L, F, O, H, X, P, G),
           NEW E, Chained(E, O, L, X, P), NEW L2, Unlisted(L2, L, E), NEW F2, Lowered(F2, F, E),
           NEW O2 \in Owners, Kept(O2, O, L2, P)
    PROVE  /\ Account(L2, F2, O2, H, {}, P, G)
           /\ AllOf(H, O2, {}) = AllOf(H, O, X) \ E
<1> USE DEF Chained, Unlisted, Lowered, Kept
<1> DEFINE A == AllOf(H, O, X)
           B == AllOf(H, O2, {})
<1>1. /\ H \subseteq Connections /\ X \subseteq Connections
      /\ \A i \in Ids : O[i] \in Connections \cup {None}
      /\ \A i \in Ids : O2[i] \in Connections \cup {None}
  BY DEF Account, Owners
<1>2. /\ \A c \in Connections : c.id \in Ids /\ c.event \in Events /\ c # None
      /\ A \subseteq Connections /\ B \subseteq Connections
  BY <1>1, NoConnectionAssumption DEF Connections, AllOf
<1>3. E \subseteq A
  BY <1>1, <1>2 DEF AllOf, Account
<1>4. /\ \A e \in Events, id \in Ids : id \in L[e] <=> id \notin G /\ \E c \in A : c.event = e /\ c.id = id
      /\ \A id \in Ids : id \in F <=> id \notin G /\ \E c \in A : c.id = id
      /\ \A c, d \in A : c.id = d.id => c = d
  BY DEF Account, ListsAgree
<1>5. /\ \A i, j \in Ids : O[i] # None /\ O[i] = O[j] => i = j
      /\ \A i \in Ids : O[i] \notin H
      /\ \A i \in Ids : O[i] # None => O[i].id < i /\ (O[i] \in X \/ i \in P \/ IsListed(L, i))
      /\ X \cap H = {} /\ \A i \in Ids : O[i] \in X => i \notin P /\ ~IsListed(L, i)
  BY DEF Account, HeldOnce
<1>6. \A i \in Ids : O2[i] # None => O2[i] = O[i] /\ (i \in P \/ IsListed(L2, i))
  OBVIOUS
<1>7. \A i \in Ids : IsListed(L2, i) => IsListed(L, i)
  BY DEF IsListed
<1>8. ASSUME NEW c \in E PROVE c \notin H
  BY <1>2, <1>3, <1>5
<1>9. ASSUME NEW c \in E, NEW i \in Ids, O2[i] = c PROVE FALSE
  <2>1. c \in Connections /\ c # None /\ O[i] = c /\ (i \in P \/ IsListed(L2, i))
    BY <1>2, <1>3, <1>6, <1>9
  <2>2. CASE c \in X
    BY <2>1, <2>2, <1>5, <1>7
  <2>3. CASE \E d \in E : d.id \notin P /\ IsListed(L, d.id) /\ O[d.id] = c
    <3>1. PICK d \in E : d.id \notin P /\ IsListed(L, d.id) /\ O[d.id] = c
      BY <2>3
    <3>2. d \in A /\ d.id \in Ids /\ d.id = i
      BY <2>1, <3>1, <1>2, <1>3, <1>5
    <3>3. PICK e \in Events : i \in L2[e]
      BY <2>1, <3>1, <3>2 DEF IsListed
    <3>4. PICK k \in A : k.event = e /\ k.id = i
      BY <3>3, <1>4
    <3>5. k = d
      BY <3>2, <3>4, <1>4
    <3> QED
      BY <3>3, <3>4, <3>5
  <2> QED
    BY <2>2, <2>3
<1>10. B \cap E = {} /\ B \subseteq A
  BY <1>1, <1>2, <1>6, <1>8, <1>9 DEF AllOf
<1>11. ASSUME NEW c \in A, c \notin E PROVE c \in B
  <2>1. CASE c \in H
    BY <2>1, <1>2 DEF AllOf
  <2>2. CASE \E i \in Ids : O[i] = c
    <3>1. PICK i \in Ids : O[i] = c
      BY <2>2
    <3>2. O[i] # None /\ (i \in P \/ IsListed(L, i))
      BY <3>1, <1>2, <1>5, <1>11
    <3>3. i \in P \/ IsListed(L2, i)
      <4> SUFFICES ASSUME i \notin P PROVE IsListed(L2, i)
        OBVIOUS
      <4>1. PICK e \in Events : i \in L[e]
        BY <3>2 DEF IsListed
      <4>2. ~\E d \in E : d.event = e /\ d.id = i
        BY <3>1, <3>2, <4>1, <1>11
      <4> QED
        BY <4>1, <4>2 DEF IsListed
    <3>4. O2[i] = c
      BY <3>1, <3>3
    <3> QED
      BY <3>4, <3>2, <3>1 DEF AllOf
  <2> QED
    BY <2>1, <2>2, <1>11 DEF AllOf
<1>12. B = A \ E
  BY <1>10, <1>11
<1> HIDE DEF A, B
<1>13. ListsAgree(L2, F2, B, G)
  <2>1. ASSUME NEW e \in Events, NEW id \in Ids
        PROVE  id \in L2[e] <=> id \notin G /\ \E c \in B : c.event = e /\ c.id = id
    <3>1. id \in L[e] <=> id \notin G /\ \E c \in A : c.event = e /\ c.id = id
      BY <1>4
    <3>2. id \in L2[e] <=> id \in L[e] /\ ~\E c \in E : c.event = e /\ c.id = id
      OBVIOUS
    <3>3. (\E c \in B : c.event = e /\ c.id = id)
             <=> (\E c \in A : c.event = e /\ c.id = id) /\ ~\E c \in E : c.event = e /\ c.id = id
      BY <1>3, <1>4, <1>12
    <3> QED
      BY <3>1, <3>2, <3>3
  <2>2. ASSUME NEW id \in Ids
        PROVE  id \in F2 <=> id \notin G /\ \E c \in B : c.id = id
    <3>1. id \in F <=> id \notin G /\ \E c \in A : c.id = id
      BY <1>4
    <3>2. id \in F2 <=> id \in F /\ ~\E c \in E : c.id = id
      OBVIOUS
    <3>3. (\E c \in B : c.id = id) <=> (\E c \in A : c.id = id) /\ ~\E c \in E : c.id = id
      BY <1>3, <1>4, <1>12
    <3> QED
      BY <3>1, <3>2, <3>3
  <2>3. \A c, d \in B : c.id = d.id => c = d
    BY <1>4, <1>12
  <2> QED
    BY <2>1, <2>2, <2>3 DEF ListsAgree
<1>14. HeldOnce(L2, O2, H, {}, P)
  <2>1. \A i, j \in Ids : O2[i] # None /\ O2[i] = O2[j] => i = j
    BY <1>5, <1>6
  <2>2. \A i \in Ids : O2[i] \notin H
    BY <1>1, <1>2, <1>5, <1>6
  <2>3. \A i \in Ids : O2[i] # None => O2[i].id < i /\ (i \in P \/ IsListed(L2, i))
    BY <1>5, <1>6
  <2> QED
    BY <2>1, <2>2, <2>3 DEF HeldOnce
<1> QED
  BY <1>1, <1>12, <1>13, <1>14 DEF Account, A, B

\* The lists as sets.
SetsOf(lists) == [e \in Events |-> ToSet(lists[e])]

ListMaps == [Events -> IdLists]

AllRise(lists) == \A e \in Events : Rising(lists[e])

\* What is listed, and what a running dispatch keeps.
LEMMA ListedSlots ==
    ASSUME NEW lists, NEW i
    PROVE  i \in Listed(lists) <=> IsListed(SetsOf(lists), i)
  BY DEF Listed, IsListed, SetsOf

\* Connections end on these lists: the account is balanced again, nothing new
\* is connected and nobody changes place.
EndsWell(lists, flags, owns, hands, frames, X, G) ==
    /\ listeners' \in ListMaps /\ AllRise(listeners') /\ owned' \in Owners
    /\ reentered' \in BOOLEAN /\ active' \subseteq flags
    /\ Account(SetsOf(listeners'), active', owned', hands, {}, Pinned(frames), G)
    /\ AllOf(hands, owned', {}) \subseteq AllOf(hands, owns, X)

\* Ends does so.
LEMMA EndsAccount ==
    ASSUME NEW lists \in ListMaps, AllRise(lists), NEW flags, NEW owns \in Owners, NEW hands, NEW frames,
           NEW G, NEW connections, connections \subseteq MaybeConnection,
           Account(SetsOf(lists), flags, owns, hands, connections \ {None}, Pinned(frames), G),
           Ends(lists, flags, owns, frames, connections)
    PROVE  EndsWell(lists, flags, owns, hands, frames, connections \ {None}, G)
<1> DEFINE L == SetsOf(lists)
           P == Pinned(frames)
           X == connections \ {None}
           E == UNION {Calls(lists, owns, frames, c) : c \in connections}
           L2 == SetsOf(listeners')
<1>1. OwnsEarlier(owns)
  BY DEF Account, HeldOnce, OwnsEarlier
<1>2. ASSUME NEW c \in connections
      PROVE  LET calls == Calls(lists, owns, frames, c) IN
             /\ calls \subseteq Connections
             /\ c # None => c \in calls
             /\ \A d \in calls : d.id \notin P /\ IsListed(L, d.id) /\ owns[d.id] # None => owns[d.id] \in calls
             /\ \A d \in calls : d = c \/ \E k \in calls : k.id \notin P /\ IsListed(L, k.id) /\ owns[k.id] = d
  <2>1. c \in MaybeConnection
    OBVIOUS
  <2> DEFINE calls == Calls(lists, owns, frames, c)
  <2>2. /\ calls \subseteq Connections
        /\ c # None => c \in calls
        /\ \A d \in calls : d.id \in Listed(lists) \ Pinned(frames) /\ owns[d.id] # None => owns[d.id] \in calls
        /\ \A d \in calls : d = c \/ \E k \in calls : k.id \in Listed(lists) \ Pinned(frames) /\ owns[k.id] = d
    <3>1. EndsWith(Calls(lists, owns, frames, c), c, owns, Listed(lists) \ Pinned(frames))
      BY <1>1, <2>1, CallsClosed
    <3> QED
      BY <3>1 DEF EndsWith
  <2>3. \A i : i \in Listed(lists) <=> IsListed(L, i)
    BY ListedSlots
  <2> HIDE DEF calls, P, L
  <2> QED
    BY <2>2, <2>3 DEF calls, P
<1>3. /\ E \subseteq Connections /\ X \subseteq E
      /\ \A c \in E : c.id \notin P /\ IsListed(L, c.id) /\ owns[c.id] # None => owns[c.id] \in E
      /\ \A c \in E : c \in X \/ \E d \in E : d.id \notin P /\ IsListed(L, d.id) /\ owns[d.id] = c
  <2> DEFINE Of(c) == Calls(lists, owns, frames, c)
  <2>1. E = UNION {Of(c) : c \in connections}
    OBVIOUS
  <2>2. \A c \in connections : 
             /\ Of(c) \subseteq Connections
             /\ c # None => c \in Of(c)
             /\ \A d \in Of(c) : d.id \notin P /\ IsListed(L, d.id) /\ owns[d.id] # None => owns[d.id] \in Of(c)
             /\ \A d \in Of(c) : d = c \/ \E k \in Of(c) : k.id \notin P /\ IsListed(L, k.id) /\ owns[k.id] = d
    BY <1>2
  <2> HIDE DEF Of, E, P, L
  <2>3. E \subseteq Connections /\ X \subseteq E
    BY <2>1, <2>2
  <2>4. ASSUME NEW d \in E
        PROVE  /\ d.id \notin P /\ IsListed(L, d.id) /\ owns[d.id] # None => owns[d.id] \in E
               /\ d \in X \/ \E k \in E : k.id \notin P /\ IsListed(L, k.id) /\ owns[k.id] = d
    <3>1. PICK c \in connections : d \in Of(c)
      BY <2>1
    <3>2. Of(c) \subseteq E /\ d # None
      BY <2>1, <2>3, NoConnectionAssumption
    <3>3. /\ d.id \notin P /\ IsListed(L, d.id) /\ owns[d.id] # None => owns[d.id] \in Of(c)
          /\ d = c \/ \E k \in Of(c) : k.id \notin P /\ IsListed(L, k.id) /\ owns[k.id] = d
      BY <2>2, <3>1
    <3> QED
      BY <3>2, <3>3
  <2> QED
    BY <2>3, <2>4
<1> DEFINE left == [e \in Events |-> Erased(lists[e], {c.id : c \in {d \in E : d.event = e}})]
<1>4. /\ listeners' = left /\ active' = flags \ {c.id : c \in E}
      /\ owned' = [id \in Ids |-> IF id \in Listed(left) \cup P THEN owns[id] ELSE None]
      /\ reentered' \in BOOLEAN
  BY DEF Ends, Deactivated
<1>5. ASSUME NEW e \in Events
      PROVE  /\ left[e] \in IdLists /\ Rising(left[e])
             /\ ToSet(left[e]) = ToSet(lists[e]) \ {c.id : c \in {d \in E : d.event = e}}
  <2>1. lists[e] \in IdLists /\ Rising(lists[e])
    BY DEF ListMaps, AllRise
  <2> DEFINE slots == {c.id : c \in {d \in E : d.event = e}}
  <2>2. left[e] = Erased(lists[e], slots)
    OBVIOUS
  <2> HIDE DEF slots, left
  <2>3. /\ Erased(lists[e], slots) \in IdLists /\ Rising(Erased(lists[e], slots))
        /\ ToSet(Erased(lists[e], slots)) = ToSet(lists[e]) \ slots
    BY <2>1, ErasedProperties
  <2> QED
    BY <2>2, <2>3 DEF slots
<1>6. left \in ListMaps /\ AllRise(left)
  BY <1>5 DEF ListMaps, AllRise
<1>7. \A e \in Events, id \in Ids : id \in L2[e] <=> id \in L[e] /\ ~\E c \in E : c.event = e /\ c.id = id
  <2>1. \A e \in Events : L2[e] = ToSet(left[e]) /\ L[e] = ToSet(lists[e])
    BY <1>4 DEF SetsOf
  <2> HIDE DEF left, E, L, L2
  <2> QED
    BY <1>5, <2>1
<1>8. \A id \in Ids : id \in active' <=> id \in flags /\ ~\E c \in E : c.id = id
  BY <1>4
<1>9. /\ owned' \in Owners
      /\ \A i \in Ids : owned'[i] = IF i \in P \/ IsListed(L2, i) THEN owns[i] ELSE None
  <2>1. \A i : i \in Listed(left) <=> IsListed(L2, i)
    BY <1>4, ListedSlots
  <2>2. owned' = [i \in Ids |-> IF i \in Listed(left) \cup P THEN owns[i] ELSE None]
    BY <1>4
  <2>3. owns \in [Ids -> Connections \cup {None}]
    BY DEF Owners
  <2> HIDE DEF left, E, L, L2, P
  <2>4. owned' \in [Ids -> Connections \cup {None}]
    BY <2>2, <2>3
  <2> QED
    BY <2>1, <2>2, <2>4 DEF Owners
<1>10. Account(L, flags, owns, hands, X, P, G)
  OBVIOUS
<1> HIDE DEF left, E, L, L2, P, X
<1>12. Chained(E, owns, L, X, P) /\ Unlisted(L2, L, E) /\ Lowered(active', flags, E) /\ Kept(owned', owns, L2, P)
  BY <1>3, <1>7, <1>8, <1>9 DEF Chained, Unlisted, Lowered, Kept
<1>11. /\ Account(L2, active', owned', hands, {}, P, G)
       /\ AllOf(hands, owned', {}) = AllOf(hands, owns, X) \ E
  BY <1>9, <1>10, <1>12, EndedAccount
<1> QED
  BY <1>4, <1>6, <1>9, <1>11 DEF EndsWell, L2, P, X

-----------------------------------------------------------------------------
(* The dispatcher: what its calls do to the account.                       *)

\* A handle gives up its connection.
LEMMA GivenUp ==
    ASSUME NEW L, NEW F, NEW O, NEW H, NEW P, NEW G, Account(L, F, O, H, {}, P, G),
           NEW H2, NEW X, H = H2 \cup X, H2 \cap X = {}
    PROVE  Account(L, F, O, H2, X, P, G) /\ AllOf(H2, O, X) = AllOf(H, O, {})
<1>1. AllOf(H2, O, X) = AllOf(H, O, {})
  BY DEF AllOf
<1>2. \A i \in Ids : O[i] \notin H
  BY DEF Account, HeldOnce
<1>3. HeldOnce(L, O, H2, X, P)
  BY <1>2 DEF Account, HeldOnce
<1> QED
  BY <1>1, <1>3 DEF Account

\* Running dispatches keep more slots.
LEMMA MoreKept ==
    ASSUME NEW L, NEW F, NEW O, NEW H, NEW P, NEW G, Account(L, F, O, H, {}, P, G),
           NEW P2, P \subseteq P2
    PROVE  Account(L, F, O, H, {}, P2, G)
<1>1. HeldOnce(L, O, H, {}, P2)
  BY DEF Account, HeldOnce
<1> QED
  BY <1>1 DEF Account

\* They keep less: what the slots let go of owned is to end.
LEMMA LessKept ==
    ASSUME NEW L, NEW F, NEW O, NEW H, NEW P, NEW G, Account(L, F, O, H, {}, P, G),
           NEW P2, NEW X, X \subseteq Connections,
           \A c \in X : \E i \in Ids : O[i] = c /\ i \notin P2 /\ ~IsListed(L, i),
           \A i \in Ids : i \in P /\ i \notin P2 /\ ~IsListed(L, i) /\ O[i] # None => O[i] \in X
    PROVE  Account(L, F, O, H, X, P2, G) /\ AllOf(H, O, X) = AllOf(H, O, {})
<1>1. None \notin X
  BY NoConnectionAssumption
<1>2. AllOf(H, O, X) = AllOf(H, O, {})
  BY DEF AllOf
<1>3. /\ \A i, j \in Ids : O[i] # None /\ O[i] = O[j] => i = j
      /\ \A i \in Ids : O[i] \notin H
      /\ \A i \in Ids : O[i] # None => O[i].id < i /\ (i \in P \/ IsListed(L, i))
  BY DEF Account, HeldOnce
<1>4. \A i \in Ids : O[i] # None => O[i].id < i /\ (O[i] \in X \/ i \in P2 \/ IsListed(L, i))
  BY <1>3
<1>5. X \cap H = {} /\ \A i \in Ids : O[i] \in X => i \notin P2 /\ ~IsListed(L, i)
  BY <1>1, <1>3
<1>6. HeldOnce(L, O, H, X, P2)
  BY <1>3, <1>4, <1>5 DEF HeldOnce
<1> QED
  BY <1>2, <1>6 DEF Account

\* A new connection with a slot of its own, whose callback takes one over.
Subscribed(L2, L, e, n) == \A d \in Events, i \in Ids : i \in L2[d] <=> i \in L[d] \/ (d = e /\ i = n)

Unused(L, O, A, P, G, n) ==
    n \notin G /\ n \notin P /\ ~IsListed(L, n) /\ O[n] = None /\ \A c \in A : c.id < n

\* What handles held is held by other handles, by the new callback, or ends.
PartsOf(H, H2, X, k) == H = H2 \cup X \cup ({k} \ {None}) /\ H2 \cap X = {} /\ k \notin H2 /\ k \notin X

SubscribesWell(L2, F, O, H, H2, X, P, G, e, n, k) ==
    /\ Account(L2, F \cup {n}, [O EXCEPT ![n] = k], H2 \cup {[event |-> e, id |-> n]}, X, P, G)
    /\ AllOf(H2 \cup {[event |-> e, id |-> n]}, [O EXCEPT ![n] = k], X)
          = AllOf(H, O, {}) \cup {[event |-> e, id |-> n]}

\* The account with the new connection in it.
LEMMA SubscribedAccount ==
    ASSUME NEW L, NEW F, NEW O, NEW H, NEW P, NEW G, Account(L, F, O, H, {}, P, G),
           NEW e \in Events, NEW n \in Ids, Unused(L, O, AllOf(H, O, {}), P, G, n),
           NEW L2, Subscribed(L2, L, e, n), NEW k \in MaybeConnection, NEW H2, NEW X,
           PartsOf(H, H2, X, k)
    PROVE  SubscribesWell(L2, F, O, H, H2, X, P, G, e, n, k)
<1>0. H = H2 \cup X \cup ({k} \ {None}) /\ H2 \cap X = {} /\ k \notin H2 /\ k \notin X
  BY DEF PartsOf
<1> DEFINE new == [event |-> e, id |-> n]
           A == AllOf(H, O, {})
           O2 == [O EXCEPT ![n] = k]
           B == AllOf(H2 \cup {new}, O2, X)
<1>1. /\ new \in Connections /\ new # None /\ new.event = e /\ new.id = n
  BY NoConnectionAssumption DEF Connections
<1>2. O \in [Ids -> Connections \cup {None}] /\ k \in Connections \cup {None} /\ H \subseteq Connections
  BY DEF Account, Owners, MaybeConnection
<1>3. O2 \in [Ids -> Connections \cup {None}] /\ O2[n] = k /\ \A i \in Ids : i # n => O2[i] = O[i]
  BY <1>2
<1> HIDE DEF new, O2
<1>4. n \notin G /\ n \notin P /\ ~IsListed(L, n) /\ O[n] = None /\ \A c \in A : c.id < n
  BY DEF Unused
<1>5. /\ \A c \in Connections : c.id \in Ids /\ c.event \in Events /\ c # None
      /\ A \subseteq Connections /\ new \notin A /\ None \notin A
  BY <1>1, <1>2, <1>4, NoConnectionAssumption DEF Connections, AllOf, Ids
<1>6. B = A \cup {new}
  <2>1. \A c : (\E i \in Ids : O2[i] = c) /\ c # None <=> ((\E i \in Ids : O[i] = c) \/ c = k) /\ c # None
    BY <1>3, <1>4
  <2> QED
    BY <2>1, <1>0, <1>1 DEF AllOf
<1>7. /\ \A d \in Events, id \in Ids : id \in L[d] <=> id \notin G /\ \E c \in A : c.event = d /\ c.id = id
      /\ \A id \in Ids : id \in F <=> id \notin G /\ \E c \in A : c.id = id
      /\ \A c, d \in A : c.id = d.id => c = d
  BY DEF Account, ListsAgree
<1>8. /\ \A i, j \in Ids : O[i] # None /\ O[i] = O[j] => i = j
      /\ \A i \in Ids : O[i] \notin H
      /\ \A i \in Ids : O[i] # None => O[i].id < i /\ (i \in P \/ IsListed(L, i))
  BY DEF Account, HeldOnce
<1>9. \A d \in Events, i \in Ids : i \in L2[d] <=> i \in L[d] \/ (d = e /\ i = n)
  BY DEF Subscribed
<1>10. IsListed(L2, n) /\ \A i \in Ids : i # n => (IsListed(L2, i) <=> IsListed(L, i))
  BY <1>9 DEF IsListed
<1>11. k # None => k \in H /\ k \in A /\ k.id < n
  <2>1. k # None => k \in H
    BY <1>0
  <2>2. k \in H /\ k # None => k \in A
    BY DEF AllOf
  <2> QED
    BY <2>1, <2>2, <1>4
<1>12. \A i \in Ids : O[i] # None => O[i] \in A
  BY DEF AllOf
<1> HIDE DEF A, B
<1>13. ListsAgree(L2, F \cup {n}, B, G)
  <2>1. ASSUME NEW d \in Events, NEW id \in Ids
        PROVE  id \in L2[d] <=> id \notin G /\ \E c \in B : c.event = d /\ c.id = id
    <3>1. id \in L[d] <=> id \notin G /\ \E c \in A : c.event = d /\ c.id = id
      BY <1>7
    <3>2. id \in L2[d] <=> id \in L[d] \/ (d = e /\ id = n)
      BY <1>9
    <3>3. (\E c \in B : c.event = d /\ c.id = id) <=> (\E c \in A : c.event = d /\ c.id = id) \/ (d = e /\ id = n)
      BY <1>1, <1>6
    <3> QED
      BY <3>1, <3>2, <3>3, <1>4
  <2>2. ASSUME NEW id \in Ids
        PROVE  id \in F \cup {n} <=> id \notin G /\ \E c \in B : c.id = id
    <3>1. id \in F <=> id \notin G /\ \E c \in A : c.id = id
      BY <1>7
    <3>2. (\E c \in B : c.id = id) <=> (\E c \in A : c.id = id) \/ id = n
      BY <1>1, <1>6
    <3> QED
      BY <3>1, <3>2, <1>4
  <2>3. \A c, d \in B : c.id = d.id => c = d
    <3>1. \A c \in A : c.id # n
      BY <1>4, <1>5 DEF Ids
    <3> QED
      BY <3>1, <1>1, <1>6, <1>7
  <2> QED
    BY <2>1, <2>2, <2>3 DEF ListsAgree
<1>14. HeldOnce(L2, O2, H2 \cup {new}, X, P)
  <2>1. ASSUME NEW i \in Ids, NEW j \in Ids, O2[i] # None, O2[i] = O2[j] PROVE i = j
    <3>1. \A m \in Ids : O[m] # k \/ O[m] = None
      BY <1>8, <1>11
    <3> QED
      BY <3>1, <2>1, <1>3, <1>8
  <2>2. ASSUME NEW i \in Ids PROVE O2[i] \notin H2 \cup {new}
    <3>1. CASE i = n
      BY <3>1, <1>0, <1>1, <1>3, <1>5, <1>11
    <3>2. CASE i # n
      BY <3>2, <1>0, <1>1, <1>3, <1>5, <1>8, <1>12
    <3> QED
      BY <3>1, <3>2
  <2>3. ASSUME NEW i \in Ids, O2[i] # None
        PROVE  O2[i].id < i /\ (O2[i] \in X \/ i \in P \/ IsListed(L2, i))
    <3>1. CASE i = n
      BY <3>1, <2>3, <1>3, <1>10, <1>11
    <3>2. CASE i # n
      BY <3>2, <2>3, <1>3, <1>8, <1>10
    <3> QED
      BY <3>1, <3>2
  <2>4. X \cap (H2 \cup {new}) = {}
    <3>1. \A c \in X : c \in H /\ c \in Connections
      BY <1>0, <1>2
    <3>2. \A c \in X : c \in A
      BY <3>1, <1>5 DEF A, AllOf
    <3> QED
      BY <3>2, <1>0, <1>5
  <2>5. ASSUME NEW i \in Ids, O2[i] \in X PROVE i \notin P /\ ~IsListed(L2, i)
    <3>1. CASE i = n
      BY <3>1, <2>5, <1>0, <1>3
    <3>2. CASE i # n
      BY <3>2, <2>5, <1>0, <1>3, <1>8
    <3> QED
      BY <3>1, <3>2
  <2> QED
    BY <2>1, <2>2, <2>3, <2>4, <2>5 DEF HeldOnce
<1> QED
  <2>1. H2 \subseteq Connections /\ X \subseteq Connections
    BY <1>0, <1>2
  <2>2. O2 \in Owners
    BY <1>3 DEF Owners
  <2> QED
    BY <2>1, <2>2, <1>0, <1>1, <1>2, <1>6, <1>13, <1>14 DEF Account, A, B, new, O2, SubscribesWell

\* All listeners are gone at once; a callback that is still running keeps what
\* it owns.
AllGone(D, L, L2) == (\A i \in Ids : i \in D <=> IsListed(L, i)) /\ \A e \in Events : L2[e] = {}

\* Callbacks outlive the clearing where a dispatch keeps their slots.
RunningKeep(O2, O, P) == O2 \in Owners /\ \A i \in Ids : O2[i] = IF i \in P THEN O[i] ELSE None

ClearsWell(L2, F, D, O2, O, H, P, G) ==
    Account(L2, F \ D, O2, H, {}, P, G \cup D) /\ AllOf(H, O2, {}) \subseteq AllOf(H, O, {})

\* The account after it.
LEMMA ClearedAccount ==
    ASSUME NEW L, NEW F, NEW O, NEW H, NEW P, NEW G, Account(L, F, O, H, {}, P, G),
           NEW D, NEW L2, AllGone(D, L, L2), NEW O2, RunningKeep(O2, O, P)
    PROVE  ClearsWell(L2, F, D, O2, O, H, P, G)
<1>0. /\ \A i \in Ids : i \in D <=> IsListed(L, i)
      /\ \A e \in Events : L2[e] = {}
      /\ O2 \in Owners /\ \A i \in Ids : O2[i] = IF i \in P THEN O[i] ELSE None
  BY DEF AllGone, RunningKeep
<1> DEFINE A == AllOf(H, O, {})
           B == AllOf(H, O2, {})
<1>1. O \in [Ids -> Connections \cup {None}] /\ H \subseteq Connections
  BY DEF Account, Owners
<1>2. \A i \in Ids : O2[i] # None => O2[i] = O[i] /\ i \in P
  BY <1>0
<1>3. B \subseteq A
  BY <1>2 DEF AllOf
<1>4. \A c \in A : c.id \in Ids /\ c.event \in Events
  BY <1>1 DEF AllOf, Connections
<1>5. /\ \A d \in Events, id \in Ids : id \in L[d] <=> id \notin G /\ \E c \in A : c.event = d /\ c.id = id
      /\ \A id \in Ids : id \in F <=> id \notin G /\ \E c \in A : c.id = id
      /\ \A c, d \in A : c.id = d.id => c = d
  BY DEF Account, ListsAgree
<1>6. /\ \A i, j \in Ids : O[i] # None /\ O[i] = O[j] => i = j
      /\ \A i \in Ids : O[i] \notin H
      /\ \A i \in Ids : O[i] # None => O[i].id < i
  BY DEF Account, HeldOnce
<1> HIDE DEF A, B
<1>7. \A c \in A : c.id \in G \cup D
  BY <1>0, <1>4, <1>5 DEF IsListed
<1>8. ListsAgree(L2, F \ D, B, G \cup D)
  <2>1. \A c \in B : c.id \in G \cup D
    BY <1>3, <1>7
  <2>2. \A e \in Events, id \in Ids : id \in L2[e] <=> id \notin G \cup D /\ \E c \in B : c.event = e /\ c.id = id
    BY <2>1, <1>0
  <2>3. \A id \in Ids : id \in F \ D <=> id \notin G \cup D /\ \E c \in B : c.id = id
    BY <2>1, <1>5, <1>7
  <2>4. \A c, d \in B : c.id = d.id => c = d
    BY <1>3, <1>5
  <2> QED
    BY <2>2, <2>3, <2>4 DEF ListsAgree
<1>9. HeldOnce(L2, O2, H, {}, P)
  <2>1. \A i \in Ids : O2[i] \notin H
    BY <1>1, <1>2, <1>6, NoConnectionAssumption
  <2> QED
    BY <2>1, <1>2, <1>6 DEF HeldOnce
<1> QED
  BY <1>0, <1>1, <1>3, <1>8, <1>9 DEF Account, A, B, ClearsWell
-----------------------------------------------------------------------------
(* The dispatcher: its invariant.                                          *)

\* Identifiers that were given out.
Taken(next) == IF next = 0 THEN Ids ELSE 1..(next - 1)

\* A dispatch has called, of the listeners it found, those before its place
\* that are still connected, in their order.
Halfway(f, live, taken) ==
    /\ f.event \in Events /\ f.snapshot \in IdLists /\ f.at \in 0..Len(f.snapshot) /\ f.ran \in IdLists
    /\ Rising(f.snapshot) /\ ToSet(f.snapshot) \subseteq taken /\ f.owed = ToSet(f.snapshot)
    /\ Rising(f.ran) /\ ToSet(f.ran) \subseteq {f.snapshot[j] : j \in 1..f.at}
    /\ \A j \in 1..f.at : f.snapshot[j] \in ToSet(f.ran) \/ f.snapshot[j] \notin live

\* One on the stack is at the handler it has just called.
AtHandler(f, live, taken) ==
    /\ f \in Frames /\ Halfway(f, live, taken)
    /\ f.ran # <<>> /\ Last(f.ran) = f.snapshot[f.at]

\* The connections of the application's handles.
Handed(hands) == {hands[h] : h \in Handles} \ {None}

HandleMaps == [Handles -> MaybeConnection]

HandlesDiffer(hands) == \A g, h \in Handles : hands[g] # None /\ hands[g] = hands[h] => g = h

\* Every connection and every cleared slot was given out.
AllTaken(A, G, taken) == G \subseteq taken /\ \A c \in A : c.id \in taken

\* All running dispatches are at their handlers.
FramesFit(frames, live, taken) ==
    /\ frames \in Seq(Frames) /\ Len(frames) <= MaxDepth
    /\ \A i \in DOMAIN frames : AtHandler(frames[i], live, taken)

\* The inductive invariant: the account is balanced, identifiers are new when
\* they are given out, and every dispatch keeps its place.
DispatcherInv ==
    /\ listeners \in ListMaps /\ AllRise(listeners)
    /\ handles \in HandleMaps /\ HandlesDiffer(handles)
    /\ active \subseteq Ids /\ nextId \in 0..MaxId /\ reentered \in BOOLEAN
    /\ Account(SetsOf(listeners), active, owned, Handed(handles), {}, Pinned(stack), cleared)
    /\ AllTaken(AllOf(Handed(handles), owned, {}), cleared, Taken(nextId))
    /\ FramesFit(stack, active, Taken(nextId))

\* A new dispatcher has it.
LEMMA DispatcherInvInit == DispatcherInit => DispatcherInv
<1> SUFFICES ASSUME DispatcherInit PROVE DispatcherInv
  OBVIOUS
<1>1. listeners \in ListMaps /\ AllRise(listeners) /\ \A e \in Events : SetsOf(listeners)[e] = {}
  BY DEF DispatcherInit, ListMaps, AllRise, IdLists, Rising, SetsOf, ToSet
<1>2. handles \in HandleMaps /\ HandlesDiffer(handles) /\ Handed(handles) = {}
  BY DEF DispatcherInit, HandleMaps, MaybeConnection, HandlesDiffer, Handed
<1>3. active \subseteq Ids /\ nextId \in 0..MaxId /\ reentered \in BOOLEAN
  <2>1. nextId \in 0..MaxId
    BY DispatcherAssumption DEF DispatcherInit
  <2>2. active \subseteq Ids /\ reentered \in BOOLEAN
    BY DEF DispatcherInit
  <2> QED
    BY <2>1, <2>2
<1>4. owned \in Owners /\ \A i \in Ids : owned[i] = None
  BY DEF DispatcherInit, Owners
<1>5. AllOf(Handed(handles), owned, {}) = {}
  BY <1>2, <1>4 DEF AllOf
<1>6. Account(SetsOf(listeners), active, owned, Handed(handles), {}, Pinned(stack), cleared)
  BY <1>1, <1>2, <1>4, <1>5 DEF Account, ListsAgree, HeldOnce, DispatcherInit
<1>7. AllTaken(AllOf(Handed(handles), owned, {}), cleared, Taken(nextId))
  BY <1>5 DEF AllTaken, DispatcherInit
<1>8. FramesFit(stack, active, Taken(nextId))
  BY DispatcherAssumption DEF FramesFit, DispatcherInit
<1> QED
  BY <1>1, <1>2, <1>3, <1>6, <1>7, <1>8 DEF DispatcherInv

\* The next identifier is new.
LEMMA TakenGrows ==
    ASSUME NEW next \in 1..MaxId
    PROVE  /\ next \in Ids /\ NextAfter(next) \in 0..MaxId
           /\ Taken(NextAfter(next)) = Taken(next) \cup {next}
           /\ \A i \in Taken(next) : i < next
<1>1. MaxId \in Nat
  BY DispatcherAssumption
<1>2. Taken(next) = 1..(next - 1)
  BY DEF Taken
<1>3. CASE next = MaxId
  <2>1. NextAfter(next) = 0
    BY <1>3 DEF NextAfter
  <2>2. Taken(NextAfter(next)) = 1..MaxId
    BY <2>1 DEF Taken, Ids
  <2> QED
    BY <1>1, <1>2, <1>3, <2>1, <2>2 DEF Ids
<1>4. CASE next # MaxId
  <2>1. NextAfter(next) = next + 1
    BY <1>4 DEF NextAfter
  <2>2. Taken(NextAfter(next)) = 1..next
    BY <2>1 DEF Taken
  <2> QED
    BY <1>1, <1>2, <1>4, <2>1, <2>2 DEF Ids
<1> QED
  BY <1>3, <1>4

\* Running dispatches do not mind what becomes of later slots, nor that slots
\* are disconnected.
LEMMA FramesKeep ==
    ASSUME NEW frames, NEW live, NEW taken, FramesFit(frames, live, taken),
           NEW live2, NEW taken2, live2 \cap taken \subseteq live, taken \subseteq taken2
    PROVE  FramesFit(frames, live2, taken2)
<1> SUFFICES ASSUME NEW i \in DOMAIN frames PROVE AtHandler(frames[i], live2, taken2)
  BY DEF FramesFit
<1>1. AtHandler(frames[i], live, taken)
  BY DEF FramesFit
<1> DEFINE f == frames[i]
<1> HIDE DEF f
<1>2. AtHandler(f, live, taken)
  BY <1>1 DEF f
<1>3. /\ f.event \in Events /\ f.snapshot \in IdLists /\ f.at \in 0..Len(f.snapshot) /\ f.ran \in IdLists
      /\ Rising(f.snapshot) /\ ToSet(f.snapshot) \subseteq taken /\ f.owed = ToSet(f.snapshot)
      /\ Rising(f.ran) /\ ToSet(f.ran) \subseteq {f.snapshot[j] : j \in 1..f.at}
  BY <1>2 DEF AtHandler, Halfway
<1>4. \A j \in 1..f.at : f.snapshot[j] \in ToSet(f.ran) \/ f.snapshot[j] \notin live
  BY <1>2 DEF AtHandler, Halfway
<1>5. \A j \in 1..f.at : f.snapshot[j] \in ToSet(f.snapshot)
  <2>1. DOMAIN f.snapshot = 1..Len(f.snapshot) /\ Len(f.snapshot) \in Nat
    BY <1>3, LenProperties DEF IdLists
  <2> QED
    BY <1>3, <2>1 DEF ToSet
<1>6. \A j \in 1..f.at : f.snapshot[j] \in ToSet(f.ran) \/ f.snapshot[j] \notin live2
  BY <1>3, <1>4, <1>5
<1>7. Halfway(f, live2, taken2)
  BY <1>3, <1>6 DEF Halfway
<1> QED
  BY <1>2, <1>7 DEF AtHandler, f

\* Whatever is kept was given out.
LEMMA KeptIsTaken ==
    ASSUME NEW L, NEW F, NEW O, NEW H, NEW P, NEW G, Account(L, F, O, H, {}, P, G),
           NEW taken, AllTaken(AllOf(H, O, {}), G, taken)
    PROVE  \A i \in Ids : IsListed(L, i) => i \in taken
<1>1. \A d \in Events, id \in Ids : id \in L[d] => \E c \in AllOf(H, O, {}) : c.id = id
  BY DEF Account, ListsAgree
<1> QED
  BY <1>1 DEF IsListed, AllTaken

\* So was what running dispatches keep.
LEMMA PinnedIsTaken ==
    ASSUME NEW frames, NEW live, NEW taken, FramesFit(frames, live, taken)
    PROVE  Pinned(frames) \subseteq taken
<1>1. \A i \in DOMAIN frames : ToSet(frames[i].snapshot) \subseteq taken
  BY DEF FramesFit, AtHandler, Halfway
<1> QED
  BY <1>1 DEF Pinned

\* Connections end in the course of a call, and the invariant holds again.
LEMMA EndsKeepInv ==
    ASSUME NEW lists \in ListMaps, AllRise(lists), NEW flags, flags \subseteq Ids, NEW owns \in Owners,
           NEW connections, connections \subseteq MaybeConnection,
           handles' \in HandleMaps, HandlesDiffer(handles'), nextId' \in 0..MaxId, cleared' = cleared,
           Account(SetsOf(lists), flags, owns, Handed(handles'), connections \ {None}, Pinned(stack'), cleared),
           AllTaken(AllOf(Handed(handles'), owns, connections \ {None}), cleared, Taken(nextId')),
           FramesFit(stack', flags, Taken(nextId')),
           Ends(lists, flags, owns, stack', connections)
    PROVE  DispatcherInv'
<1>1. EndsWell(lists, flags, owns, Handed(handles'), stack', connections \ {None}, cleared)
  BY EndsAccount
<1>2. /\ listeners' \in ListMaps /\ AllRise(listeners') /\ owned' \in Owners
      /\ active' \subseteq flags
      /\ Account(SetsOf(listeners'), active', owned', Handed(handles'), {}, Pinned(stack'), cleared)
      /\ AllOf(Handed(handles'), owned', {}) \subseteq AllOf(Handed(handles'), owns, connections \ {None})
  BY <1>1 DEF EndsWell
<1>3. reentered' \in BOOLEAN
  BY <1>1 DEF EndsWell
<1>4. AllTaken(AllOf(Handed(handles'), owned', {}), cleared, Taken(nextId'))
  BY <1>2 DEF AllTaken
<1>5. FramesFit(stack', active', Taken(nextId'))
  BY <1>2, FramesKeep
<1>6. SetsOf(listeners)' = SetsOf(listeners') /\ Pinned(stack)' = Pinned(stack')
  BY DEF SetsOf, Pinned
<1>7. Account(SetsOf(listeners), active, owned, Handed(handles), {}, Pinned(stack), cleared)'
  <2>1. Account(SetsOf(listeners'), active', owned', Handed(handles'), {}, Pinned(stack'), cleared')
    BY <1>2
  <2> QED
    BY <2>1
<1>8. active' \subseteq Ids
  BY <1>2
<1> QED
  BY <1>2, <1>3, <1>4, <1>5, <1>7, <1>8 DEF DispatcherInv

-----------------------------------------------------------------------------
(* The dispatcher: its steps.                                              *)

\* What the invariant says of a handle's connection.
LEMMA HandleHolds ==
    ASSUME NEW hands \in HandleMaps
    PROVE  /\ \A h \in Handles : hands[h] \in MaybeConnection
           /\ \A h \in Handles : hands[h] # None => hands[h] \in Handed(hands)
           /\ \A c \in Handed(hands) : c # None /\ \E h \in Handles : hands[h] = c
  BY DEF HandleMaps, Handed

\* Disconnect empties a handle.
LEMMA HandleEmptied ==
    ASSUME NEW hands \in HandleMaps, HandlesDiffer(hands), NEW h \in Handles
    PROVE  LET rest == [hands EXCEPT ![h] = None] IN
           /\ rest \in HandleMaps /\ HandlesDiffer(rest)
           /\ Handed(hands) = Handed(rest) \cup ({hands[h]} \ {None})
           /\ Handed(rest) \cap ({hands[h]} \ {None}) = {}
<1> DEFINE rest == [hands EXCEPT ![h] = None]
<1>1. hands \in [Handles -> MaybeConnection] /\ None \in MaybeConnection
  BY DEF HandleMaps, MaybeConnection
<1>2. /\ rest \in [Handles -> MaybeConnection] /\ rest[h] = None
      /\ \A g \in Handles : g # h => rest[g] = hands[g]
  BY <1>1
<1> HIDE DEF rest
<1>3. \A g, k \in Handles : hands[g] # None /\ hands[g] = hands[k] => g = k
  BY DEF HandlesDiffer
<1>4. HandlesDiffer(rest)
  BY <1>2, <1>3 DEF HandlesDiffer
<1>5. Handed(hands) = Handed(rest) \cup ({hands[h]} \ {None})
  BY <1>2 DEF Handed
<1>6. Handed(rest) \cap ({hands[h]} \ {None}) = {}
  BY <1>2, <1>3 DEF Handed
<1> QED
  BY <1>2, <1>4, <1>5, <1>6 DEF rest, HandleMaps

\* Move assignment overwrites one and empties another.
LEMMA HandleMoved ==
    ASSUME NEW hands \in HandleMaps, HandlesDiffer(hands), NEW from \in Handles, NEW to \in Handles, from # to
    PROVE  LET rest == [hands EXCEPT ![to] = hands[from], ![from] = None] IN
           /\ rest \in HandleMaps /\ HandlesDiffer(rest)
           /\ Handed(hands) = Handed(rest) \cup ({hands[to]} \ {None})
           /\ Handed(rest) \cap ({hands[to]} \ {None}) = {}
<1> DEFINE rest == [hands EXCEPT ![to] = hands[from], ![from] = None]
<1>1. hands \in [Handles -> MaybeConnection] /\ None \in MaybeConnection
  BY DEF HandleMaps, MaybeConnection
<1>2. /\ rest \in [Handles -> MaybeConnection] /\ rest[from] = None /\ rest[to] = hands[from]
      /\ \A g \in Handles : g # from /\ g # to => rest[g] = hands[g]
  BY <1>1
<1> HIDE DEF rest
<1>3. \A g, k \in Handles : hands[g] # None /\ hands[g] = hands[k] => g = k
  BY DEF HandlesDiffer
<1>4. HandlesDiffer(rest)
  BY <1>2, <1>3 DEF HandlesDiffer
<1>5. Handed(hands) = Handed(rest) \cup ({hands[to]} \ {None})
  <2>1. \A c : c \in Handed(hands) => c \in Handed(rest) \/ c = hands[to]
    <3> SUFFICES ASSUME NEW g \in Handles, hands[g] # None
                 PROVE  hands[g] \in Handed(rest) \/ hands[g] = hands[to]
      BY DEF Handed
    <3>1. CASE g = from
      BY <3>1, <1>2 DEF Handed
    <3>2. CASE g # from
      BY <3>2, <1>2 DEF Handed
    <3> QED
      BY <3>1, <3>2
  <2>2. \A c : c \in Handed(rest) => c \in Handed(hands)
    <3> SUFFICES ASSUME NEW g \in Handles, rest[g] # None PROVE rest[g] \in Handed(hands)
      BY DEF Handed
    <3>1. rest[g] = hands[g] \/ rest[g] = hands[from]
      BY <1>2
    <3> QED
      BY <3>1 DEF Handed
  <2>3. hands[to] # None => hands[to] \in Handed(hands)
    BY DEF Handed
  <2>4. \A c : c \in Handed(hands) => c # None
    BY DEF Handed
  <2> QED
    BY <2>1, <2>2, <2>3, <2>4
<1>6. Handed(rest) \cap ({hands[to]} \ {None}) = {}
  <2> SUFFICES ASSUME NEW g \in Handles, rest[g] # None, rest[g] = hands[to] PROVE FALSE
    BY DEF Handed
  <2>1. CASE g = to
    BY <2>1, <1>2, <1>3
  <2>2. CASE g # to
    BY <2>2, <1>2, <1>3
  <2> QED
    BY <2>1, <2>2
<1> QED
  BY <1>2, <1>4, <1>5, <1>6 DEF rest, HandleMaps

\* What the invariant says, part by part.
LEMMA InvParts ==
    ASSUME DispatcherInv
    PROVE  /\ listeners \in ListMaps /\ AllRise(listeners)
           /\ handles \in HandleMaps /\ HandlesDiffer(handles)
           /\ active \subseteq Ids /\ nextId \in 0..MaxId /\ owned \in Owners
           /\ Account(SetsOf(listeners), active, owned, Handed(handles), {}, Pinned(stack), cleared)
           /\ AllTaken(AllOf(Handed(handles), owned, {}), cleared, Taken(nextId))
           /\ FramesFit(stack, active, Taken(nextId))
  BY DEF DispatcherInv, Account

\* A handle's connection ends.
LEMMA HandleStep ==
    ASSUME DispatcherInv, handles' \in HandleMaps, HandlesDiffer(handles'),
           NEW c \in MaybeConnection,
           Handed(handles) = Handed(handles') \cup ({c} \ {None}), Handed(handles') \cap ({c} \ {None}) = {},
           Ends(listeners, active, owned, stack, {c}), UNCHANGED <<nextId, stack, cleared>>
    PROVE  DispatcherInv'
<1>1. /\ listeners \in ListMaps /\ AllRise(listeners)
      /\ active \subseteq Ids /\ nextId \in 0..MaxId /\ owned \in Owners
      /\ Account(SetsOf(listeners), active, owned, Handed(handles), {}, Pinned(stack), cleared)
      /\ AllTaken(AllOf(Handed(handles), owned, {}), cleared, Taken(nextId))
      /\ FramesFit(stack, active, Taken(nextId))
  BY InvParts
<1>2. stack' = stack /\ nextId' = nextId /\ cleared' = cleared
  OBVIOUS
<1>3. /\ Account(SetsOf(listeners), active, owned, Handed(handles'), {c} \ {None}, Pinned(stack), cleared)
      /\ AllOf(Handed(handles'), owned, {c} \ {None}) = AllOf(Handed(handles), owned, {})
  <2> DEFINE X == {c} \ {None}
             H2 == Handed(handles')
             H == Handed(handles)
             L == SetsOf(listeners)
             P == Pinned(stack)
  <2>1. H = H2 \cup X /\ H2 \cap X = {} /\ Account(L, active, owned, H, {}, P, cleared)
    BY <1>1
  <2> HIDE DEF X, H2, H, L, P
  <2>2. Account(L, active, owned, H2, X, P, cleared) /\ AllOf(H2, owned, X) = AllOf(H, owned, {})
    BY <2>1, GivenUp
  <2> QED
    BY <2>2 DEF X, H2, H, L, P
<1>4. AllTaken(AllOf(Handed(handles'), owned, {c} \ {None}), cleared, Taken(nextId))
  BY <1>1, <1>3
<1>5. {c} \subseteq MaybeConnection
  OBVIOUS
<1>6. Account(SetsOf(listeners), active, owned, Handed(handles'), {c} \ {None}, Pinned(stack'), cleared)
  BY <1>2, <1>3
<1>7. /\ AllTaken(AllOf(Handed(handles'), owned, {c} \ {None}), cleared, Taken(nextId'))
      /\ FramesFit(stack', active, Taken(nextId')) /\ nextId' \in 0..MaxId
      /\ Ends(listeners, active, owned, stack', {c})
  BY <1>1, <1>2, <1>4
<1> QED
  BY <1>1, <1>2, <1>5, <1>6, <1>7, EndsKeepInv

\* Subscription::disconnect.
LEMMA DisconnectKeeps ==
    ASSUME DispatcherInv, NEW h \in Handles, Disconnect(h)
    PROVE  DispatcherInv'
<1>1. handles \in HandleMaps /\ HandlesDiffer(handles) /\ handles[h] \in MaybeConnection
  BY InvParts, HandleHolds
<1>2. /\ handles' = [handles EXCEPT ![h] = None]
      /\ Ends(listeners, active, owned, stack, {handles[h]}) /\ UNCHANGED <<nextId, stack, cleared>>
  BY DEF Disconnect
<1>3. /\ handles' \in HandleMaps /\ HandlesDiffer(handles')
      /\ Handed(handles) = Handed(handles') \cup ({handles[h]} \ {None})
      /\ Handed(handles') \cap ({handles[h]} \ {None}) = {}
  BY <1>1, <1>2, HandleEmptied
<1> QED
  BY <1>1, <1>2, <1>3, HandleStep

\* Subscription::operator=.
LEMMA MoveAssignKeeps ==
    ASSUME DispatcherInv, NEW from \in Handles, NEW to \in Handles, MoveAssign(from, to)
    PROVE  DispatcherInv'
<1>1. handles \in HandleMaps /\ HandlesDiffer(handles) /\ handles[to] \in MaybeConnection
  BY InvParts, HandleHolds
<1>2. /\ handles' = [handles EXCEPT ![to] = handles[from], ![from] = None] /\ from # to
      /\ Ends(listeners, active, owned, stack, {handles[to]}) /\ UNCHANGED <<nextId, stack, cleared>>
  BY DEF MoveAssign
<1>3. /\ handles' \in HandleMaps /\ HandlesDiffer(handles')
      /\ Handed(handles) = Handed(handles') \cup ({handles[to]} \ {None})
      /\ Handed(handles') \cap ({handles[to]} \ {None}) = {}
  BY <1>1, <1>2, HandleMoved
<1> QED
  BY <1>1, <1>2, <1>3, HandleStep

\* subscribe() fills an empty handle.
LEMMA HandleFilled ==
    ASSUME NEW hands \in HandleMaps, HandlesDiffer(hands), NEW h \in Handles, hands[h] = None,
           NEW new \in Connections, new \notin Handed(hands)
    PROVE  LET full == [hands EXCEPT ![h] = new] IN
           /\ full \in HandleMaps /\ HandlesDiffer(full)
           /\ Handed(full) = Handed(hands) \cup {new}
<1> DEFINE full == [hands EXCEPT ![h] = new]
<1>1. hands \in [Handles -> MaybeConnection] /\ new \in MaybeConnection /\ new # None
  BY NoConnectionAssumption DEF HandleMaps, MaybeConnection
<1>2. /\ full \in [Handles -> MaybeConnection] /\ full[h] = new
      /\ \A g \in Handles : g # h => full[g] = hands[g]
  BY <1>1
<1> HIDE DEF full
<1>3. \A g, k \in Handles : hands[g] # None /\ hands[g] = hands[k] => g = k
  BY DEF HandlesDiffer
<1>4. \A g \in Handles : hands[g] # new
  BY <1>1 DEF Handed
<1>5. HandlesDiffer(full)
  BY <1>2, <1>3, <1>4 DEF HandlesDiffer
<1>6. Handed(full) = Handed(hands) \cup {new}
  <2>1. ASSUME NEW g \in Handles, full[g] # None PROVE full[g] \in Handed(hands) \cup {new}
    BY <2>1, <1>2 DEF Handed
  <2>2. ASSUME NEW g \in Handles, hands[g] # None PROVE hands[g] \in Handed(full)
    <3>1. g # h /\ full[g] = hands[g]
      BY <2>2, <1>2
    <3> QED
      BY <3>1, <2>2 DEF Handed
  <2>3. new \in Handed(full)
    BY <1>1, <1>2 DEF Handed
  <2> QED
    BY <2>1, <2>2, <2>3 DEF Handed
<1> QED
  BY <1>2, <1>5, <1>6 DEF full, HandleMaps

\* An unused identifier.
LEMMA NextIsUnused ==
    ASSUME DispatcherInv, nextId # 0
    PROVE  /\ nextId \in 1..MaxId
           /\ Unused(SetsOf(listeners), owned, AllOf(Handed(handles), owned, {}), Pinned(stack), cleared, nextId)
           /\ \A e \in Events : \A id \in ToSet(listeners[e]) : id < nextId
<1> DEFINE L == SetsOf(listeners)
           P == Pinned(stack)
           H == Handed(handles)
           taken == Taken(nextId)
           A == AllOf(H, owned, {})
<1>1. /\ Account(L, active, owned, H, {}, P, cleared) /\ AllTaken(A, cleared, taken)
      /\ FramesFit(stack, active, taken) /\ listeners \in ListMaps
  BY InvParts
<1>2. nextId \in 1..MaxId
  BY DispatcherAssumption DEF DispatcherInv
<1>3. nextId \in Ids /\ \A i \in taken : i < nextId /\ i # nextId
  <2>1. \A i \in taken : i < nextId
    BY <1>2, TakenGrows
  <2> QED
    BY <1>2, <2>1 DEF Ids
<1> HIDE DEF taken
<1>4. P \subseteq taken
  BY <1>1, PinnedIsTaken
<1>5. \A i \in Ids : IsListed(L, i) => i \in taken
  <2> HIDE DEF L, A, H, P
  <2> QED
    BY <1>1, KeptIsTaken DEF A
<1>6. \A i \in Ids : owned[i] # None => i \in P \/ IsListed(L, i)
  BY <1>1 DEF Account, HeldOnce
<1>7. cleared \subseteq taken /\ \A c \in A : c.id \in taken
  BY <1>1 DEF AllTaken
<1>8. Unused(L, owned, A, P, cleared, nextId)
  BY <1>3, <1>4, <1>5, <1>6, <1>7 DEF Unused
<1>9. ASSUME NEW e \in Events, NEW id \in ToSet(listeners[e]) PROVE id < nextId
  <2>1. id \in Ids
    <3>1. listeners[e] \in Seq(Ids)
      BY <1>1 DEF ListMaps, IdLists
    <3> QED
      BY <3>1, LenProperties DEF ToSet
  <2>2. IsListed(L, id)
    BY DEF IsListed, SetsOf
  <2> QED
    BY <2>1, <2>2, <1>3, <1>5
<1> QED
  BY <1>2, <1>8, <1>9

\* subscribe.
LEMMA SubscribeKeeps ==
    ASSUME DispatcherInv, NEW h \in Handles, NEW e \in Events, NEW given \in Handles \cup {None},
           Subscribe(h, e, given)
    PROVE  DispatcherInv'
<1> DEFINE n == nextId
           new == [event |-> e, id |-> n]
           left == [g \in Handles |-> IF g = given THEN None ELSE handles[g]]
           k == IF given \in Handles THEN handles[given] ELSE None
           mid == [left EXCEPT ![h] = None]
           X == {left[h]} \ {None}
           lists == [listeners EXCEPT ![e] = Append(@, n)]
           flags == active \cup {n}
           owns == [owned EXCEPT ![n] = k]
           L == SetsOf(listeners)
           P == Pinned(stack)
           H == Handed(handles)
           A == AllOf(H, owned, {})
<1>1. /\ n # 0 /\ nextId' = NextAfter(n) /\ cleared' = cleared /\ stack' = stack
      /\ Ends(lists, flags, owns, stack, {left[h]})
      /\ handles' = [left EXCEPT ![h] = new]
  BY DEF Subscribe
<1>2. /\ listeners \in ListMaps /\ AllRise(listeners)
      /\ handles \in HandleMaps /\ HandlesDiffer(handles)
      /\ active \subseteq Ids /\ nextId \in 0..MaxId /\ owned \in Owners
      /\ Account(L, active, owned, H, {}, P, cleared)
      /\ AllTaken(A, cleared, Taken(n))
      /\ FramesFit(stack, active, Taken(n))
  BY InvParts
<1>3. /\ n \in 1..MaxId /\ Unused(L, owned, A, P, cleared, n)
      /\ \A d \in Events : \A id \in ToSet(listeners[d]) : id < n
  BY <1>1, NextIsUnused
<1>4. /\ n \in Ids /\ NextAfter(n) \in 0..MaxId
      /\ Taken(NextAfter(n)) = Taken(n) \cup {n} /\ \A i \in Taken(n) : i < n
  BY <1>3, TakenGrows
<1>5. /\ left \in HandleMaps /\ HandlesDiffer(left) /\ k \in MaybeConnection
      /\ H = Handed(left) \cup ({k} \ {None}) /\ Handed(left) \cap ({k} \ {None}) = {}
  <2>0. handles \in [Handles -> MaybeConnection]
    BY <1>2 DEF HandleMaps
  <2>1. CASE given \in Handles
    <3>1. left = [handles EXCEPT ![given] = None] /\ k = handles[given]
      BY <2>0, <2>1
    <3> HIDE DEF left, k
    <3> QED
      BY <1>2, <2>0, <2>1, <3>1, HandleEmptied
  <2>2. CASE given \notin Handles
    <3>1. left = handles /\ k = None
      BY <2>0, <2>2
    <3> HIDE DEF left, k
    <3> QED
      BY <1>2, <3>1 DEF MaybeConnection
  <2> QED
    BY <2>1, <2>2
<1>6. handles' = [left EXCEPT ![h] = new]
  BY <1>1
<1> HIDE DEF left, k
<1>7. /\ mid \in HandleMaps /\ HandlesDiffer(mid)
      /\ Handed(left) = Handed(mid) \cup X /\ Handed(mid) \cap X = {}
  BY <1>5, HandleEmptied
<1>8. mid[h] = None /\ [left EXCEPT ![h] = new] = [mid EXCEPT ![h] = new]
  BY <1>5 DEF HandleMaps
<1> HIDE DEF mid
<1>9. /\ new \in Connections /\ new.id = n /\ new.event = e
  BY <1>4 DEF Connections
<1> HIDE DEF new
<1>10. new \notin Handed(mid)
  <2>1. \A c \in A : c.id < n
    BY <1>3 DEF Unused
  <2>2. \A c \in Handed(mid) : c \in H /\ c # None
    BY <1>5, <1>7 DEF Handed
  <2>3. \A c \in Handed(mid) : c \in A
    BY <2>2 DEF AllOf
  <2>4. ~(n < n)
    BY <1>3
  <2> HIDE DEF A, n
  <2> QED
    BY <2>1, <2>3, <2>4, <1>9
<1>11. /\ handles' \in HandleMaps /\ HandlesDiffer(handles') /\ Handed(handles') = Handed(mid) \cup {new}
  <2> DEFINE full == [mid EXCEPT ![h] = new]
  <2>1. full \in HandleMaps /\ HandlesDiffer(full) /\ Handed(full) = Handed(mid) \cup {new}
    BY <1>7, <1>8, <1>9, <1>10, HandleFilled
  <2>2. handles' = full
    BY <1>6, <1>8
  <2> HIDE DEF full
  <2> QED
    BY <2>1, <2>2
<1>12. /\ lists \in ListMaps /\ AllRise(lists) /\ ToSet(lists[e]) = ToSet(listeners[e]) \cup {n}
       /\ \A d \in Events : d # e => lists[d] = listeners[d]
  <2>1. \A d \in Events : listeners[d] \in IdLists /\ Rising(listeners[d])
    BY <1>2 DEF ListMaps, AllRise
  <2>2. /\ Append(listeners[e], n) \in IdLists /\ Rising(Append(listeners[e], n))
        /\ ToSet(Append(listeners[e], n)) = ToSet(listeners[e]) \cup {n}
    BY <2>1, <1>3, <1>4, RisingAppend
  <2>3. listeners \in [Events -> IdLists]
    BY <1>2 DEF ListMaps
  <2>4. /\ lists \in [Events -> IdLists] /\ lists[e] = Append(listeners[e], n)
        /\ \A d \in Events : d # e => lists[d] = listeners[d]
    BY <2>2, <2>3
  <2> HIDE DEF lists
  <2> QED
    BY <2>1, <2>2, <2>4 DEF ListMaps, AllRise
<1>13. Subscribed(SetsOf(lists), L, e, n)
  BY <1>12 DEF Subscribed, SetsOf
<1>14. owns \in Owners
  BY <1>2, <1>5 DEF Owners, MaybeConnection
<1>15. /\ H = Handed(mid) \cup X \cup ({k} \ {None}) /\ Handed(mid) \cap X = {}
       /\ k \notin Handed(mid) /\ k \notin X
  <2>1. None \notin Handed(mid) /\ None \notin X
    BY DEF Handed
  <2> QED
    BY <2>1, <1>5, <1>7
<1> HIDE DEF lists, L, P, H, X, n
<1>16. /\ Account(SetsOf(lists), flags, owns, Handed(handles'), X, P, cleared)
       /\ AllOf(Handed(handles'), owns, X) = A \cup {new}
  <2> DEFINE M == Handed(mid)
             S == SetsOf(lists)
  <2>1. /\ Account(L, active, owned, H, {}, P, cleared) /\ n \in Ids
        /\ Unused(L, owned, AllOf(H, owned, {}), P, cleared, n) /\ Subscribed(S, L, e, n)
        /\ k \in MaybeConnection /\ PartsOf(H, M, X, k)
    BY <1>2, <1>3, <1>4, <1>5, <1>13, <1>15 DEF PartsOf
  <2> HIDE DEF M, S
  <2>4. SubscribesWell(S, active, owned, H, M, X, P, cleared, e, n, k)
    BY <2>1, SubscribedAccount
  <2>2. /\ Account(S, active \cup {n}, [owned EXCEPT ![n] = k], M \cup {[event |-> e, id |-> n]}, X, P, cleared)
        /\ AllOf(M \cup {[event |-> e, id |-> n]}, [owned EXCEPT ![n] = k], X)
             = AllOf(H, owned, {}) \cup {[event |-> e, id |-> n]}
    BY <2>4 DEF SubscribesWell
  <2>3. Handed(handles') = M \cup {[event |-> e, id |-> n]}
    BY <1>11 DEF M, new
  <2> QED
    BY <2>2, <2>3 DEF M, S, new
<1>17. AllTaken(AllOf(Handed(handles'), owns, X), cleared, Taken(nextId'))
  BY <1>1, <1>2, <1>4, <1>9, <1>16 DEF AllTaken
<1>18. FramesFit(stack', flags, Taken(nextId'))
  <2>1. (active \cup {n}) \cap Taken(n) \subseteq active
    <3>1. n \notin Taken(n)
      <4>1. n \in Taken(n) => n < n
        BY <1>4
      <4>2. ~(n < n)
        BY <1>3
      <4> QED
        BY <4>1, <4>2
    <3> QED
      BY <3>1
  <2>2. Taken(n) \subseteq Taken(nextId')
    BY <1>1, <1>4
  <2>3. FramesFit(stack, active \cup {n}, Taken(nextId'))
    BY <1>2, <2>1, <2>2, FramesKeep
  <2> QED
    BY <1>1, <2>3
<1>19. left[h] \in MaybeConnection
  BY <1>5, HandleHolds
<1>20. /\ Account(SetsOf(lists), flags, owns, Handed(handles'), {left[h]} \ {None}, Pinned(stack'), cleared)
       /\ AllTaken(AllOf(Handed(handles'), owns, {left[h]} \ {None}), cleared, Taken(nextId'))
       /\ Ends(lists, flags, owns, stack', {left[h]}) /\ flags \subseteq Ids /\ {left[h]} \subseteq MaybeConnection
       /\ nextId' \in 0..MaxId
  BY <1>1, <1>2, <1>4, <1>16, <1>17, <1>19 DEF X, P
<1> HIDE DEF flags, owns
<1> QED
  BY <1>1, <1>11, <1>12, <1>14, <1>18, <1>20, EndsKeepInv

\* What the invariant is made of, put together after a step.
LEMMA InvFromParts ==
    ASSUME listeners' \in ListMaps, AllRise(listeners'), handles' \in HandleMaps, HandlesDiffer(handles'),
           active' \subseteq Ids, nextId' \in 0..MaxId, reentered' \in BOOLEAN,
           Account(SetsOf(listeners'), active', owned', Handed(handles'), {}, Pinned(stack'), cleared'),
           AllTaken(AllOf(Handed(handles'), owned', {}), cleared', Taken(nextId')),
           FramesFit(stack', active', Taken(nextId'))
    PROVE  DispatcherInv'
<1>1. SetsOf(listeners)' = SetsOf(listeners') /\ Pinned(stack)' = Pinned(stack')
  BY DEF SetsOf, Pinned
<1>2. Account(SetsOf(listeners), active, owned, Handed(handles), {}, Pinned(stack), cleared)'
  BY <1>1
<1> QED
  BY <1>2 DEF DispatcherInv

\* clear.
LEMMA ClearKeeps ==
    ASSUME DispatcherInv, Clear
    PROVE  DispatcherInv'
<1> DEFINE D == Listed(listeners)
           L == SetsOf(listeners)
           L2 == SetsOf(listeners')
           P == Pinned(stack)
           H == Handed(handles)
<1>1. /\ listeners \in ListMaps /\ AllRise(listeners)
      /\ handles \in HandleMaps /\ HandlesDiffer(handles)
      /\ active \subseteq Ids /\ nextId \in 0..MaxId /\ owned \in Owners
      /\ Account(L, active, owned, H, {}, P, cleared)
      /\ AllTaken(AllOf(H, owned, {}), cleared, Taken(nextId))
      /\ FramesFit(stack, active, Taken(nextId))
  BY InvParts
<1>2. /\ active' = active \ D /\ listeners' = [d \in Events |-> <<>>]
      /\ owned' = [id \in Ids |-> IF id \in P THEN owned[id] ELSE None]
      /\ cleared' = cleared \cup D /\ nextId' = nextId /\ handles' = handles /\ stack' = stack
  BY DEF Clear
<1>3. reentered' \in BOOLEAN
  BY DEF Clear
<1>4. listeners' \in ListMaps /\ AllRise(listeners') /\ \A d \in Events : L2[d] = {}
  BY <1>2 DEF ListMaps, IdLists, AllRise, Rising, SetsOf, ToSet
<1>5. \A i \in Ids : i \in D <=> IsListed(L, i)
  BY ListedSlots
<1>6. owned' \in Owners /\ \A i \in Ids : owned'[i] = IF i \in P THEN owned[i] ELSE None
  BY <1>1, <1>2 DEF Owners
<1>7. D \subseteq Ids
  <2>1. \A d \in Events : listeners[d] \in Seq(Ids)
    BY <1>1 DEF ListMaps, IdLists
  <2>2. \A d \in Events : ToSet(listeners[d]) \subseteq Ids
    BY <2>1, LenProperties DEF ToSet
  <2> QED
    BY <2>2 DEF Listed
<1> HIDE DEF D, L, L2, P, H
<1>8. Account(L2, active \ D, owned', H, {}, P, cleared \cup D) /\ AllOf(H, owned', {}) \subseteq AllOf(H, owned, {})
  <2>1. AllGone(D, L, L2) /\ RunningKeep(owned', owned, P)
    BY <1>4, <1>5, <1>6 DEF AllGone, RunningKeep
  <2>2. ClearsWell(L2, active, D, owned', owned, H, P, cleared)
    BY <2>1, <1>1, ClearedAccount
  <2> QED
    BY <2>2 DEF ClearsWell
<1>9. D \subseteq Taken(nextId)
  <2>1. \A i \in Ids : IsListed(L, i) => i \in Taken(nextId)
    BY <1>1, KeptIsTaken
  <2> QED
    BY <2>1, <1>5, <1>7
<1>10. AllTaken(AllOf(H, owned', {}), cleared \cup D, Taken(nextId))
  BY <1>1, <1>8, <1>9 DEF AllTaken
<1>11. FramesFit(stack, active \ D, Taken(nextId))
  <2>1. (active \ D) \cap Taken(nextId) \subseteq active
    OBVIOUS
  <2> QED
    BY <2>1, <1>1, FramesKeep
<1>12. /\ Account(SetsOf(listeners'), active', owned', Handed(handles'), {}, Pinned(stack'), cleared')
       /\ AllTaken(AllOf(Handed(handles'), owned', {}), cleared', Taken(nextId'))
       /\ FramesFit(stack', active', Taken(nextId'))
  BY <1>2, <1>8, <1>10, <1>11 DEF L2, P, H
<1>13. handles' \in HandleMaps /\ HandlesDiffer(handles') /\ active' \subseteq Ids /\ nextId' \in 0..MaxId
  BY <1>1, <1>2
<1> QED
  BY <1>3, <1>4, <1>12, <1>13, InvFromParts

-----------------------------------------------------------------------------
(* The dispatcher: dispatches.                                             *)

\* A dispatch before or at a handler.
Dispatching == [event : Events, snapshot : Seq(Ids), at : Nat, owed : SUBSET Ids, ran : Seq(Ids)]

\* One whose next handler is called.
CallsNext(f) == LET next == Min(Uncalled(f)) IN
    [f EXCEPT !.at = next, !.ran = Append(@, f.snapshot[next])]

\* The loop finds the first active listener that is left.
LEMMA UncalledHasFirst ==
    ASSUME NEW f \in Dispatching, Uncalled(f) # {}
    PROVE  LET next == Min(Uncalled(f)) IN
           /\ next \in (f.at + 1)..Len(f.snapshot) /\ f.snapshot[next] \in active
           /\ \A j \in (f.at + 1)..Len(f.snapshot) : j < next => f.snapshot[j] \notin active
<1> DEFINE S == Uncalled(f)
<1>1. f.at \in Nat /\ Len(f.snapshot) \in Nat
  BY LenProperties DEF Dispatching
<1>2. S \in SUBSET Nat /\ S # {}
  BY <1>1 DEF Uncalled
<1>3. \E m \in S : \A d \in S : m <= d
  <2> HIDE DEF S
  <2> QED
    BY <1>2, Least
<1>4. Min(S) \in S /\ \A d \in S : Min(S) <= d
  <2> HIDE DEF S
  <2> QED
    BY <1>3 DEF Min
<1> DEFINE next == Min(S)
<1>5. next \in S /\ \A d \in S : next <= d
  BY <1>4
<1> HIDE DEF next
<1>6. next \in (f.at + 1)..Len(f.snapshot) /\ f.snapshot[next] \in active
  BY <1>5 DEF Uncalled
<1>7. ASSUME NEW j \in (f.at + 1)..Len(f.snapshot), j < next, f.snapshot[j] \in active
      PROVE  FALSE
  <2>1. j \in S
    BY <1>7 DEF Uncalled
  <2> HIDE DEF S
  <2>2. next <= j
    BY <2>1, <1>5
  <2> QED
    BY <2>2, <1>6, <1>7, <1>1
<1> QED
  BY <1>6, <1>7 DEF next

\* It is called in its turn.
LEMMA NextFits ==
    ASSUME NEW f \in Dispatching, NEW taken, Halfway(f, active, taken), Uncalled(f) # {}
    PROVE  LET g == CallsNext(f) IN
           AtHandler(g, active, taken) /\ Last(g.ran) \in active /\ g.snapshot = f.snapshot
<1> DEFINE next == Min(Uncalled(f))
           g == CallsNext(f)
           s == f.snapshot
           e == s[next]
<1>1. /\ next \in (f.at + 1)..Len(s) /\ s[next] \in active
      /\ \A j \in (f.at + 1)..Len(s) : j < next => s[j] \notin active
  BY UncalledHasFirst
<1>2. /\ f.event \in Events /\ s \in IdLists /\ f.at \in 0..Len(s) /\ f.ran \in IdLists
      /\ Rising(s) /\ ToSet(s) \subseteq taken /\ f.owed = ToSet(s)
      /\ Rising(f.ran) /\ ToSet(f.ran) \subseteq {s[j] : j \in 1..f.at}
      /\ \A j \in 1..f.at : s[j] \in ToSet(f.ran) \/ s[j] \notin active
  BY DEF Halfway
<1>3. /\ g.event = f.event /\ g.snapshot = s /\ g.at = next /\ g.owed = f.owed /\ g.ran = Append(f.ran, e)
      /\ g = [event |-> f.event, snapshot |-> s, at |-> next, owed |-> f.owed, ran |-> Append(f.ran, e)]
  <2>1. g = [[f EXCEPT !.at = next] EXCEPT !.ran = Append(f.ran, e)]
    BY DEF CallsNext, Dispatching
  <2>2. f = [event |-> f.event, snapshot |-> f.snapshot, at |-> f.at, owed |-> f.owed, ran |-> f.ran]
    BY DEF Dispatching
  <2> DEFINE w == Append(f.ran, e)
  <2> HIDE DEF next, g, w
  <2>3. g = [event |-> f.event, snapshot |-> f.snapshot, at |-> next, owed |-> f.owed, ran |-> w]
    BY <2>1, <2>2 DEF w
  <2> QED
    BY <2>3 DEF w
<1>4. /\ f.owed \in SUBSET Ids /\ Len(s) \in Nat /\ f.at \in Nat /\ DOMAIN s = 1..Len(s)
      /\ \A j \in 1..Len(s) : s[j] \in Ids
  BY <1>2, LenProperties DEF Dispatching, IdLists
<1> HIDE DEF next, g, s
<1>5. next \in 1..Len(s) /\ next \in Nat \ {0} /\ f.at < next
  BY <1>1, <1>4
<1>6. e \in Ids /\ \A j \in 1..f.at : s[j] < e
  BY <1>2, <1>4, <1>5 DEF Rising
<1>7. /\ Append(f.ran, e) \in IdLists /\ Rising(Append(f.ran, e))
      /\ ToSet(Append(f.ran, e)) = ToSet(f.ran) \cup {e}
  <2>1. \A id \in ToSet(f.ran) : id < e
    BY <1>2, <1>6
  <2> HIDE DEF e
  <2> QED
    BY <2>1, <1>2, <1>6, RisingAppend
<1>8. ToSet(g.ran) \subseteq {s[j] : j \in 1..g.at}
  <2>1. \A j \in 1..f.at : j \in 1..next
    BY <1>4, <1>5
  <2>2. e \in {s[j] : j \in 1..next}
    BY <1>5
  <2>3. {s[j] : j \in 1..f.at} \subseteq {s[j] : j \in 1..next}
    BY <2>1
  <2> HIDE DEF e
  <2> QED
    BY <2>2, <2>3, <1>2, <1>3, <1>7
<1>9. ASSUME NEW j \in 1..g.at PROVE s[j] \in ToSet(g.ran) \/ s[j] \notin active
  <2>1. j \in 1..next
    BY <1>3
  <2>2. CASE j \in 1..f.at
    BY <2>2, <1>2, <1>3, <1>7
  <2>3. CASE j = next
    BY <2>3, <1>3, <1>7
  <2>4. CASE j \in (f.at + 1)..Len(s) /\ j < next
    BY <2>4, <1>1
  <2> QED
    BY <2>1, <2>2, <2>3, <2>4, <1>4, <1>5
<1>10. Halfway(g, active, taken)
  <2>1. g.at \in 0..Len(g.snapshot) /\ g.ran \in IdLists /\ Rising(g.ran)
    BY <1>3, <1>5, <1>7
  <2>2. ToSet(g.ran) \subseteq {g.snapshot[j] : j \in 1..g.at}
    BY <1>3, <1>8
  <2>3. \A j \in 1..g.at : g.snapshot[j] \in ToSet(g.ran) \/ g.snapshot[j] \notin active
    BY <1>3, <1>9
  <2>4. /\ g.event \in Events /\ g.snapshot \in IdLists /\ Rising(g.snapshot)
        /\ ToSet(g.snapshot) \subseteq taken /\ g.owed = ToSet(g.snapshot)
    BY <1>2, <1>3
  <2> QED
    BY <2>1, <2>2, <2>3, <2>4 DEF Halfway
<1>11. g \in Frames
  BY <1>2, <1>3, <1>4, <1>5, <1>7 DEF Frames, IdLists
<1>12. g.ran # <<>> /\ Last(g.ran) = e
  <2>1. f.ran \in Seq(Ids) /\ Len(f.ran) \in Nat
    BY <1>2, LenProperties DEF IdLists
  <2>2. Len(g.ran) = Len(f.ran) + 1 /\ g.ran[Len(f.ran) + 1] = e
    BY <2>1, <1>3, <1>6, AppendProperties
  <2>3. g.ran # <<>>
    BY <2>1, <2>2
  <2> QED
    BY <2>2, <2>3 DEF Last
<1> QED
  BY <1>1, <1>3, <1>10, <1>11, <1>12 DEF AtHandler, g, s

\* Dispatches on their way, the innermost between two handlers.
Underway(frames, live, taken) ==
    /\ frames \in Seq(Dispatching) /\ Len(frames) \in 1..MaxDepth
    /\ \A i \in 1..(Len(frames) - 1) : AtHandler(frames[i], live, taken)
    /\ Halfway(frames[Len(frames)], live, taken)

\* The innermost calls its next handler or is over; the others wait.
AdvancesWell(after, frames, live, taken) ==
    LET n == Len(frames) IN
    /\ FramesFit(after, live, taken) /\ Len(after) \in {n - 1, n}
    /\ \A i \in 1..(n - 1) : after[i] = frames[i]
    /\ Len(after) = n => Last(after[n].ran) \in live /\ after[n].snapshot = frames[n].snapshot
    /\ Len(after) = n - 1 => \A id \in frames[n].owed : id \in ToSet(frames[n].ran) \/ id \notin live

\* All dispatches but the innermost.
LEMMA OuterFrames ==
    ASSUME NEW frames, NEW live, NEW taken, Underway(frames, live, taken)
    PROVE  /\ Front(frames) \in Seq(Frames) /\ Len(Front(frames)) = Len(frames) - 1
           /\ \A i \in 1..(Len(frames) - 1) : Front(frames)[i] = frames[i]
           /\ FramesFit(Front(frames), live, taken)
<1> DEFINE n == Len(frames)
           outer == Front(frames)
<1>1. frames \in Seq(Dispatching) /\ n \in 1..MaxDepth /\ MaxDepth \in Nat
  BY DispatcherAssumption DEF Underway
<1>2. outer = SubSeq(frames, 1, n - 1)
  BY DEF Front
<1>3. 1 \in 1..(n + 1) /\ n - 1 \in 0..n /\ n \in Nat
  BY <1>1
<1>4. /\ Len(outer) = n - 1
      /\ \A i \in 1..(n - 1) : outer[i] = frames[i]
      /\ outer \in Seq(Dispatching)
  <2>1. 1 \in 1..(Len(frames) + 1) /\ n - 1 \in (1 - 1)..Len(frames) /\ (n - 1) - 1 + 1 = n - 1
        /\ \A i \in 1..(n - 1) : 1 + i - 1 = i
    BY <1>3
  <2> HIDE DEF outer
  <2> QED
    BY <2>1, <1>1, <1>2, <1>3, SubSeqProperties
<1>5. DOMAIN outer = 1..(n - 1)
  BY <1>4, LenProperties
<1>6. \A i \in 1..(n - 1) : outer[i] \in Frames
  BY <1>4 DEF Underway, AtHandler
<1>7. outer = [i \in 1..(n - 1) |-> outer[i]]
  BY <1>4, <1>5
<1>8. outer \in Seq(Frames)
  <2> HIDE DEF outer
  <2>1. outer \in [1..(n - 1) -> Frames]
    BY <1>6, <1>7
  <2> QED
    BY <2>1, <1>3, SeqDef
<1>9. Len(outer) <= MaxDepth
  BY <1>1, <1>4
<1>10. \A i \in DOMAIN outer : AtHandler(outer[i], live, taken)
  BY <1>4, <1>5 DEF Underway
<1> QED
  BY <1>4, <1>8, <1>9, <1>10 DEF FramesFit

\* One turn of the loop of dispatch.
LEMMA AdvancedFits ==
    ASSUME NEW frames, NEW taken, Underway(frames, active, taken)
    PROVE  AdvancesWell(Advanced(frames), frames, active, taken)
<1> DEFINE n == Len(frames)
           f == frames[n]
           outer == Front(frames)
           after == Advanced(frames)
<1>1. frames \in Seq(Dispatching) /\ n \in 1..MaxDepth /\ MaxDepth \in Nat /\ Halfway(f, active, taken)
  BY DispatcherAssumption DEF Underway
<1>2. f \in Dispatching
  BY <1>1, LenProperties
<1>3. /\ outer \in Seq(Frames) /\ Len(outer) = n - 1
      /\ \A i \in 1..(n - 1) : outer[i] = frames[i]
      /\ FramesFit(outer, active, taken)
  BY OuterFrames
<1>4. after = IF Uncalled(f) = {} THEN outer ELSE Append(outer, CallsNext(f))
  BY DEF Advanced, Snapshot, Last, CallsNext
<1> HIDE DEF f, outer, after
<1>5. ASSUME Uncalled(f) = {} PROVE AdvancesWell(after, frames, active, taken)
  <2>1. \A id \in f.owed : id \in ToSet(f.ran) \/ id \notin active
    <3>1. /\ f.owed = ToSet(f.snapshot) /\ f.snapshot \in Seq(Ids) /\ f.at \in 0..Len(f.snapshot)
          /\ \A j \in 1..f.at : f.snapshot[j] \in ToSet(f.ran) \/ f.snapshot[j] \notin active
      BY <1>1 DEF Halfway, IdLists
    <3>2. Len(f.snapshot) \in Nat /\ DOMAIN f.snapshot = 1..Len(f.snapshot)
      BY <3>1, LenProperties
    <3>3. \A j \in (f.at + 1)..Len(f.snapshot) : f.snapshot[j] \notin active
      BY <1>5 DEF Uncalled
    <3>4. ASSUME NEW j \in 1..Len(f.snapshot) PROVE f.snapshot[j] \in ToSet(f.ran) \/ f.snapshot[j] \notin active
      <4>1. j \in 1..f.at \/ j \in (f.at + 1)..Len(f.snapshot)
        BY <3>1, <3>2
      <4> QED
        BY <4>1, <3>1, <3>3
    <3> QED
      BY <3>1, <3>2, <3>4 DEF ToSet
  <2>2. after = outer /\ Len(after) = n - 1 /\ n # n - 1
    BY <1>1, <1>3, <1>4, <1>5
  <2> QED
    BY <2>1, <2>2, <1>3 DEF AdvancesWell, f
<1>6. ASSUME Uncalled(f) # {} PROVE AdvancesWell(after, frames, active, taken)
  <2> DEFINE g == CallsNext(f)
  <2>1. AtHandler(g, active, taken) /\ Last(g.ran) \in active /\ g.snapshot = f.snapshot
    BY <1>1, <1>2, <1>6, NextFits
  <2>2. g \in Frames /\ after = Append(outer, g)
    BY <2>1, <1>4, <1>6 DEF AtHandler
  <2> HIDE DEF g
  <2>3. /\ after \in Seq(Frames) /\ Len(after) = n /\ after[n] = g
        /\ \A i \in 1..(n - 1) : after[i] = outer[i]
    BY <2>2, <1>1, <1>3, AppendProperties
  <2>4. DOMAIN after = 1..n
    BY <2>3, LenProperties
  <2>5. \A i \in 1..(n - 1) : AtHandler(outer[i], active, taken)
    BY <1>3 DEF Underway
  <2>6. \A i \in DOMAIN after : AtHandler(after[i], active, taken)
    <3> SUFFICES ASSUME NEW i \in 1..n PROVE AtHandler(after[i], active, taken)
      BY <2>4
    <3>1. i = n \/ i \in 1..(n - 1)
      BY <1>1
    <3> QED
      BY <3>1, <2>1, <2>3, <2>5
  <2>7. FramesFit(after, active, taken)
    BY <2>3, <2>6, <1>1 DEF FramesFit
  <2>8. \A i \in 1..(n - 1) : after[i] = frames[i]
    BY <2>3, <1>3
  <2>9. Len(after) # n - 1
    BY <2>3, <1>1
  <2> QED
    BY <2>1, <2>3, <2>7, <2>8, <2>9 DEF AdvancesWell, f
<1> QED
  BY <1>5, <1>6 DEF after

\* What is connected, and what the lists and flags say of it.
LEMMA ConnectedListed ==
    ASSUME DispatcherInv
    PROVE  /\ Connected = AllOf(Handed(handles), owned, {})
           /\ \A e \in Events : ToSet(listeners[e]) = ConnectedTo(e)
           /\ active = Held \ cleared
<1> DEFINE L == SetsOf(listeners)
           A == AllOf(Handed(handles), owned, {})
<1>1. /\ listeners \in ListMaps /\ handles \in HandleMaps /\ active \subseteq Ids /\ owned \in Owners
      /\ Account(L, active, owned, Handed(handles), {}, Pinned(stack), cleared)
  BY InvParts
<1>2. Connected = A
  <2>1. Range(handles) = {handles[h] : h \in Handles} /\ Range(owned) = {owned[i] : i \in Ids}
    BY <1>1 DEF Range, HandleMaps, Owners
  <2> QED
    BY <2>1 DEF Connected, AllOf, Handed
<1>3. \A c \in A : c.id \in Ids /\ c.event \in Events
  BY <1>1 DEF Account, AllOf, Owners, Connections
<1>4. /\ \A d \in Events, id \in Ids : id \in L[d] <=> id \notin cleared /\ \E c \in A : c.event = d /\ c.id = id
      /\ \A id \in Ids : id \in active <=> id \notin cleared /\ \E c \in A : c.id = id
  BY <1>1 DEF Account, ListsAgree
<1>5. \A e \in Events : L[e] = ToSet(listeners[e]) /\ L[e] \subseteq Ids
  <2> SUFFICES ASSUME NEW e \in Events PROVE ToSet(listeners[e]) \subseteq Ids
    BY DEF SetsOf
  <2>1. listeners[e] \in Seq(Ids)
    BY <1>1 DEF ListMaps, IdLists
  <2> QED
    BY <2>1, LenProperties DEF ToSet
<1> HIDE DEF L, A
<1>6. \A e \in Events : L[e] = ConnectedTo(e)
  BY <1>2, <1>3, <1>4, <1>5 DEF ConnectedTo
<1>7. active = Held \ cleared
  BY <1>1, <1>2, <1>3, <1>4 DEF Held
<1> QED
  BY <1>2, <1>5, <1>6, <1>7 DEF A

\* A frame on the stack may be advanced.
LEMMA RunningUnderway ==
    ASSUME NEW frames, NEW live, NEW taken, FramesFit(frames, live, taken), frames # <<>>
    PROVE  Underway(frames, live, taken)
<1>1. frames \in Seq(Frames) /\ Len(frames) <= MaxDepth /\ MaxDepth \in Nat
  BY DispatcherAssumption DEF FramesFit
<1>2. Len(frames) \in Nat /\ Len(frames) # 0 /\ DOMAIN frames = 1..Len(frames)
  BY <1>1, LenProperties, EmptySeq
<1>3. Len(frames) \in 1..MaxDepth
  BY <1>1, <1>2
<1>4. Frames \subseteq Dispatching
  BY DEF Frames, Dispatching
<1>5. frames \in Seq(Dispatching)
  BY <1>1, <1>4, SeqDef
<1>6. \A i \in 1..Len(frames) : AtHandler(frames[i], live, taken)
  BY <1>2 DEF FramesFit
<1>7. Len(frames) \in 1..Len(frames) /\ \A i \in 1..(Len(frames) - 1) : i \in 1..Len(frames)
  BY <1>2
<1> QED
  BY <1>3, <1>5, <1>6, <1>7 DEF Underway, AtHandler

\* So may a dispatch that begins.
LEMMA BegunUnderway ==
    ASSUME DispatcherInv, Len(stack) < MaxDepth, NEW e \in Events
    PROVE  Underway(Append(stack, [event |-> e, snapshot |-> listeners[e], at |-> 0,
                                   owed |-> ConnectedTo(e), ran |-> <<>>]), active, Taken(nextId))
<1> DEFINE f == [event |-> e, snapshot |-> listeners[e], at |-> 0, owed |-> ConnectedTo(e), ran |-> <<>>]
           taken == Taken(nextId)
           frames == Append(stack, f)
           n == Len(stack)
<1>1. /\ listeners \in ListMaps /\ AllRise(listeners) /\ FramesFit(stack, active, taken)
      /\ Account(SetsOf(listeners), active, owned, Handed(handles), {}, Pinned(stack), cleared)
      /\ AllTaken(AllOf(Handed(handles), owned, {}), cleared, taken)
  BY InvParts
<1>2. listeners[e] \in IdLists /\ Rising(listeners[e]) /\ ConnectedTo(e) = ToSet(listeners[e])
  BY <1>1, ConnectedListed DEF ListMaps, AllRise
<1>3. ToSet(listeners[e]) \subseteq Ids /\ Len(listeners[e]) \in Nat
  BY <1>2, LenProperties DEF ToSet, IdLists
<1>4. ToSet(listeners[e]) \subseteq taken
  <2>1. \A i \in ToSet(listeners[e]) : IsListed(SetsOf(listeners), i)
    BY DEF IsListed, SetsOf
  <2> DEFINE L == SetsOf(listeners)
             H == Handed(handles)
             P == Pinned(stack)
  <2>2. Account(L, active, owned, H, {}, P, cleared) /\ AllTaken(AllOf(H, owned, {}), cleared, taken)
    BY <1>1
  <2> HIDE DEF L, H, P, taken
  <2>3. \A i \in Ids : IsListed(L, i) => i \in taken
    BY <2>2, KeptIsTaken
  <2> QED
    BY <2>1, <2>3, <1>3 DEF L
<1>5. <<>> \in IdLists /\ ToSet(<<>>) = {} /\ Rising(<<>>)
  BY DEF IdLists, ToSet, Rising
<1>6. f \in Dispatching
  BY <1>2, <1>3, <1>5 DEF Dispatching, IdLists
<1>7. Halfway(f, active, taken)
  <2>1. /\ f.event \in Events /\ f.snapshot \in IdLists /\ f.at \in 0..Len(f.snapshot) /\ f.ran \in IdLists
        /\ Rising(f.snapshot) /\ ToSet(f.snapshot) \subseteq taken /\ f.owed = ToSet(f.snapshot)
        /\ Rising(f.ran)
    BY <1>2, <1>3, <1>4, <1>5
  <2>2. ToSet(f.ran) \subseteq {f.snapshot[j] : j \in 1..f.at}
    BY <1>5
  <2>3. \A j \in 1..f.at : f.snapshot[j] \in ToSet(f.ran) \/ f.snapshot[j] \notin active
    OBVIOUS
  <2> QED
    BY <2>1, <2>2, <2>3 DEF Halfway
<1> HIDE DEF f, taken
<1>8. stack \in Seq(Frames) /\ n \in Nat /\ DOMAIN stack = 1..n /\ MaxDepth \in Nat
  BY <1>1, LenProperties, DispatcherAssumption DEF FramesFit
<1>9. stack \in Seq(Dispatching)
  <2>1. Frames \subseteq Dispatching
    BY DEF Frames, Dispatching
  <2> QED
    BY <2>1, <1>8, SeqDef
<1>10. /\ frames \in Seq(Dispatching) /\ Len(frames) = n + 1 /\ frames[n + 1] = f
       /\ \A i \in 1..n : frames[i] = stack[i]
  BY <1>6, <1>8, <1>9, AppendProperties
<1> HIDE DEF frames
<1>11. Len(frames) \in 1..MaxDepth /\ Len(frames) - 1 = n
  BY <1>8, <1>10
<1>12. \A i \in 1..n : AtHandler(frames[i], active, taken)
  BY <1>1, <1>8, <1>10 DEF FramesFit
<1>13. Underway(frames, active, taken)
  BY <1>7, <1>10, <1>11, <1>12 DEF Underway
<1> QED
  BY <1>13 DEF frames, f, taken

\* dispatch.
LEMMA DispatchKeeps ==
    ASSUME DispatcherInv, NEW e \in Events, Dispatch(e)
    PROVE  /\ DispatcherInv' /\ Len(stack') \in {Len(stack), Len(stack) + 1}
           /\ \A i \in 1..Len(stack) : stack'[i] = stack[i]
           /\ Len(stack') = Len(stack) + 1 => Last(stack'[Len(stack) + 1].ran) \in active
<1> DEFINE f == [event |-> e, snapshot |-> listeners[e], at |-> 0, owed |-> ConnectedTo(e), ran |-> <<>>]
           taken == Taken(nextId)
           frames == Append(stack, f)
           n == Len(stack)
<1>1. /\ n < MaxDepth /\ stack' = Advanced(frames)
      /\ listeners' = listeners /\ active' = active /\ nextId' = nextId /\ handles' = handles /\ owned' = owned
      /\ reentered' = reentered /\ cleared' = cleared
  BY DEF Dispatch
<1>2. /\ listeners \in ListMaps /\ AllRise(listeners) /\ handles \in HandleMaps /\ HandlesDiffer(handles)
      /\ active \subseteq Ids /\ nextId \in 0..MaxId /\ FramesFit(stack, active, taken)
      /\ Account(SetsOf(listeners), active, owned, Handed(handles), {}, Pinned(stack), cleared)
      /\ AllTaken(AllOf(Handed(handles), owned, {}), cleared, taken)
  BY InvParts
<1>3. reentered \in BOOLEAN
  BY DEF DispatcherInv
<1>4. Underway(frames, active, taken)
  BY <1>1, BegunUnderway
<1>5. stack \in Seq(Frames) /\ n \in Nat /\ DOMAIN stack = 1..n
  BY <1>2, LenProperties DEF FramesFit
<1>6. Len(frames) = n + 1 /\ \A i \in 1..n : frames[i] = stack[i]
  <2>1. DOMAIN frames = 1..(n + 1) /\ \A i \in 1..n : frames[i] = stack[i]
    BY <1>5
  <2> QED
    BY <2>1, <1>5
<1> HIDE DEF frames
<1>7. AdvancesWell(stack', frames, active, taken)
  BY <1>1, <1>4, AdvancedFits
<1> HIDE DEF taken
<1>8. FramesFit(stack', active, taken) /\ Len(stack') \in {n, n + 1} /\ \A i \in 1..n : stack'[i] = stack[i]
  BY <1>5, <1>6, <1>7 DEF AdvancesWell
<1>9. Pinned(stack) \subseteq Pinned(stack')
  <2>1. stack' \in Seq(Frames) /\ DOMAIN (stack') = 1..Len(stack')
    BY <1>8, LenProperties DEF FramesFit
  <2>2. \A i \in 1..n : i \in 1..Len(stack')
    <3>1. Len(stack') \in Nat /\ n <= Len(stack')
      BY <1>5, <1>8
    <3> QED
      BY <3>1, <1>5
  <2> QED
    BY <2>1, <2>2, <1>5, <1>8 DEF Pinned
<1>10. Account(SetsOf(listeners), active, owned, Handed(handles), {}, Pinned(stack'), cleared)
  <2> DEFINE L == SetsOf(listeners)
             H == Handed(handles)
             P == Pinned(stack)
             Q == Pinned(stack')
  <2>1. Account(L, active, owned, H, {}, P, cleared) /\ P \subseteq Q
    BY <1>2, <1>9
  <2> HIDE DEF L, H, P, Q
  <2>2. Account(L, active, owned, H, {}, Q, cleared)
    BY <2>1, MoreKept
  <2> QED
    BY <2>2 DEF L, H, Q
<1>11. /\ Account(SetsOf(listeners'), active', owned', Handed(handles'), {}, Pinned(stack'), cleared')
       /\ AllTaken(AllOf(Handed(handles'), owned', {}), cleared', Taken(nextId'))
       /\ FramesFit(stack', active', Taken(nextId'))
  BY <1>1, <1>2, <1>8, <1>10 DEF taken
<1>12. /\ listeners' \in ListMaps /\ AllRise(listeners') /\ handles' \in HandleMaps /\ HandlesDiffer(handles')
       /\ active' \subseteq Ids /\ nextId' \in 0..MaxId
  BY <1>1, <1>2
<1>13. reentered' \in BOOLEAN
  BY <1>1, <1>3
<1>14. DispatcherInv'
  BY <1>11, <1>12, <1>13, InvFromParts
<1>15. Len(stack') = n + 1 => Last(stack'[n + 1].ran) \in active
  BY <1>6, <1>7 DEF AdvancesWell
<1> QED
  BY <1>8, <1>14, <1>15

\* A dispatch that is over lets go of its slots.
LEMMA ReleaseKeeps ==
    ASSUME DispatcherInv, FramesFit(stack', active, Taken(nextId)), Release,
           UNCHANGED <<nextId, handles, cleared>>
    PROVE  DispatcherInv'
<1> DEFINE L == SetsOf(listeners)
           H == Handed(handles)
           P == Pinned(stack)
           Q == Pinned(stack')
           ends == {owned[id] : id \in Released}
           X == ends \ {None}
<1>1. /\ listeners \in ListMaps /\ AllRise(listeners) /\ handles \in HandleMaps /\ HandlesDiffer(handles)
      /\ active \subseteq Ids /\ nextId \in 0..MaxId /\ owned \in Owners
      /\ FramesFit(stack, active, Taken(nextId))
      /\ Account(L, active, owned, H, {}, P, cleared)
      /\ AllTaken(AllOf(H, owned, {}), cleared, Taken(nextId))
  BY InvParts
<1>2. /\ nextId' = nextId /\ handles' = handles /\ cleared' = cleared
      /\ Ends(listeners, active, owned, stack', ends)
  BY DEF Release
<1>3. P \subseteq Ids
  <2>1. \A i \in DOMAIN stack : stack[i].snapshot \in Seq(Ids)
    BY <1>1 DEF FramesFit, AtHandler, Halfway, IdLists
  <2>2. \A i \in DOMAIN stack : ToSet(stack[i].snapshot) \subseteq Ids
    BY <2>1, LenProperties DEF ToSet
  <2> QED
    BY <2>2 DEF Pinned
<1>4. \A i \in Ids : i \in Released <=> i \in P /\ i \notin Q /\ ~IsListed(L, i)
  <2>1. \A i : i \in Listed(listeners) <=> IsListed(L, i)
    BY ListedSlots
  <2> QED
    BY <2>1 DEF Released
<1>5. Released \subseteq Ids /\ \A i \in Ids : owned[i] \in MaybeConnection
  BY <1>1, <1>3 DEF Released, Owners, MaybeConnection
<1>6. ends \subseteq MaybeConnection /\ X \subseteq Connections
  BY <1>5 DEF MaybeConnection
<1>7. \A c \in X : \E i \in Ids : owned[i] = c /\ i \notin Q /\ ~IsListed(L, i)
  BY <1>4, <1>5
<1>8. \A i \in Ids : i \in P /\ i \notin Q /\ ~IsListed(L, i) /\ owned[i] # None => owned[i] \in X
  BY <1>4
<1>9. Account(L, active, owned, H, X, Q, cleared) /\ AllOf(H, owned, X) = AllOf(H, owned, {})
  <2> HIDE DEF L, H, P, Q, X
  <2> QED
    BY <1>1, <1>6, <1>7, <1>8, LessKept
<1>10. /\ Account(SetsOf(listeners), active, owned, Handed(handles'), ends \ {None}, Pinned(stack'), cleared)
       /\ AllTaken(AllOf(Handed(handles'), owned, ends \ {None}), cleared, Taken(nextId'))
       /\ FramesFit(stack', active, Taken(nextId'))
       /\ handles' \in HandleMaps /\ HandlesDiffer(handles') /\ nextId' \in 0..MaxId
  <2>1. AllTaken(AllOf(H, owned, X), cleared, Taken(nextId))
    BY <1>1, <1>9
  <2> QED
    BY <2>1, <1>1, <1>2, <1>9
<1> HIDE DEF ends
<1> QED
  BY <1>1, <1>2, <1>6, <1>10, EndsKeepInv

\* A handler returns to the loop that called it.
LEMMA HandlerReturnsKeeps ==
    ASSUME DispatcherInv, HandlerReturns
    PROVE  DispatcherInv' /\ AdvancesWell(stack', stack, active, Taken(nextId))
<1>1. stack # <<>> /\ stack' = Advanced(stack) /\ Release /\ UNCHANGED <<nextId, handles, cleared>>
  BY DEF HandlerReturns
<1>2. FramesFit(stack, active, Taken(nextId))
  BY InvParts
<1> DEFINE taken == Taken(nextId)
<1> HIDE DEF taken
<1>3. Underway(stack, active, taken)
  BY <1>1, <1>2, RunningUnderway DEF taken
<1>4. AdvancesWell(Advanced(stack), stack, active, taken)
  BY <1>3, AdvancedFits
<1>5. AdvancesWell(stack', stack, active, taken)
  BY <1>1, <1>4
<1>6. FramesFit(stack', active, taken)
  BY <1>5 DEF AdvancesWell
<1> QED
  BY <1>1, <1>5, <1>6, ReleaseKeeps DEF taken

\* A handler fails and ends its dispatch.
LEMMA HandlerFailsKeeps ==
    ASSUME DispatcherInv, HandlerFails
    PROVE  /\ DispatcherInv' /\ Len(stack') = Len(stack) - 1
           /\ \A i \in 1..(Len(stack) - 1) : stack'[i] = stack[i]
<1>1. stack # <<>> /\ stack' = Front(stack) /\ Release /\ UNCHANGED <<nextId, handles, cleared>>
  BY DEF HandlerFails
<1>2. FramesFit(stack, active, Taken(nextId))
  BY InvParts
<1> DEFINE taken == Taken(nextId)
<1> HIDE DEF taken
<1>3. Underway(stack, active, taken)
  BY <1>1, <1>2, RunningUnderway DEF taken
<1>4. /\ FramesFit(Front(stack), active, taken) /\ Len(Front(stack)) = Len(stack) - 1
      /\ \A i \in 1..(Len(stack) - 1) : Front(stack)[i] = stack[i]
  BY <1>3, OuterFrames
<1>5. FramesFit(stack', active, taken)
  BY <1>1, <1>4
<1> QED
  BY <1>1, <1>4, <1>5, ReleaseKeeps DEF taken

\* Every step keeps the invariant.
LEMMA DispatcherInvNext == DispatcherInv /\ [DispatcherNext]_dispatcherVars => DispatcherInv'
<1> SUFFICES ASSUME DispatcherInv, [DispatcherNext]_dispatcherVars PROVE DispatcherInv'
  OBVIOUS
<1>1. ASSUME NEW h \in Handles, Disconnect(h) PROVE DispatcherInv'
  BY <1>1, DisconnectKeeps
<1>2. ASSUME NEW from \in Handles, NEW to \in Handles, MoveAssign(from, to) PROVE DispatcherInv'
  BY <1>2, MoveAssignKeeps
<1>3. ASSUME NEW h \in Handles, NEW e \in Events, NEW given \in Handles \cup {None}, Subscribe(h, e, given)
      PROVE  DispatcherInv'
  BY <1>3, SubscribeKeeps
<1>4. CASE Clear
  BY <1>4, ClearKeeps
<1>5. ASSUME NEW e \in Events, Dispatch(e) PROVE DispatcherInv'
  BY <1>5, DispatchKeeps
<1>6. CASE HandlerReturns
  BY <1>6, HandlerReturnsKeeps
<1>7. CASE HandlerFails
  BY <1>7, HandlerFailsKeeps
<1>8. CASE UNCHANGED dispatcherVars
  <2>1. /\ listeners' = listeners /\ active' = active /\ nextId' = nextId /\ handles' = handles
        /\ owned' = owned /\ stack' = stack /\ reentered' = reentered /\ cleared' = cleared
    BY <1>8 DEF dispatcherVars
  <2>2. /\ listeners' \in ListMaps /\ AllRise(listeners') /\ handles' \in HandleMaps /\ HandlesDiffer(handles')
        /\ active' \subseteq Ids /\ nextId' \in 0..MaxId
        /\ Account(SetsOf(listeners'), active', owned', Handed(handles'), {}, Pinned(stack'), cleared')
        /\ AllTaken(AllOf(Handed(handles'), owned', {}), cleared', Taken(nextId'))
        /\ FramesFit(stack', active', Taken(nextId'))
    BY <2>1, InvParts
  <2>3. reentered' \in BOOLEAN
    BY <2>1 DEF DispatcherInv
  <2> QED
    BY <2>2, <2>3, InvFromParts
<1> QED
  BY <1>1, <1>2, <1>3, <1>4, <1>5, <1>6, <1>7, <1>8 DEF DispatcherNext

\* The types, and every list in the order of subscription.
LEMMA InvImpliesType == DispatcherInv => DispatcherTypeOK
<1> SUFFICES ASSUME DispatcherInv PROVE DispatcherTypeOK
  OBVIOUS
<1>1. /\ listeners \in ListMaps /\ handles \in HandleMaps /\ active \subseteq Ids /\ nextId \in 0..MaxId
      /\ owned \in Owners /\ FramesFit(stack, active, Taken(nextId))
  BY InvParts
<1>2. reentered \in BOOLEAN
  BY DEF DispatcherInv
<1>3. stack \in Seq(Frames) /\ Len(stack) <= MaxDepth
  BY <1>1 DEF FramesFit
<1>4. ASSUME NEW i \in DOMAIN stack
      PROVE  stack[i].at \in DOMAIN stack[i].snapshot /\ Last(stack[i].ran) = stack[i].snapshot[stack[i].at]
  <2> DEFINE f == stack[i]
  <2>1. AtHandler(f, active, Taken(nextId))
    BY <1>1 DEF FramesFit
  <2> HIDE DEF f
  <2>2. /\ f.at \in Nat \ {0} /\ f.at \in 0..Len(f.snapshot) /\ f.snapshot \in Seq(Ids)
        /\ Last(f.ran) = f.snapshot[f.at]
    BY <2>1 DEF AtHandler, Halfway, Frames
  <2>3. DOMAIN f.snapshot = 1..Len(f.snapshot) /\ Len(f.snapshot) \in Nat
    BY <2>2, LenProperties
  <2>4. f.at \in DOMAIN f.snapshot
    BY <2>2, <2>3
  <2> QED
    BY <2>2, <2>4 DEF f
<1>5. listeners \in [Events -> Seq(Ids)]
  BY <1>1 DEF ListMaps, IdLists
<1>6. handles \in [Handles -> Connections \cup {None}] /\ owned \in [Ids -> Connections \cup {None}]
  BY <1>1 DEF HandleMaps, MaybeConnection, Owners
<1> QED
  BY <1>1, <1>2, <1>3, <1>4, <1>5, <1>6 DEF DispatcherTypeOK

\* As many connections as places that hold one, where each is held once.
LEMMA HeldOnceCounts ==
    ASSUME NEW D, IsFiniteSet(D), NEW m, \A i, j \in D : m[i] # None /\ m[i] = m[j] => i = j
    PROVE  LET S == {i \in D : m[i] # None}
               T == {m[i] : i \in D} \ {None} IN
           IsFiniteSet(T) /\ Cardinality(T) = Cardinality(S) /\ Cardinality(S) \in Nat
<1> DEFINE S == {i \in D : m[i] # None}
           T == {m[i] : i \in D} \ {None}
           f == [i \in S |-> m[i]]
<1>1. IsFiniteSet(S) /\ Cardinality(S) \in Nat
  <2>1. S \in SUBSET D
    OBVIOUS
  <2> HIDE DEF S
  <2> QED
    BY <2>1, FS_Subset, FS_CardinalityType
<1>2. f \in [S -> T] /\ (\A i, j \in S : f[i] = f[j] => i = j) /\ \A t \in T : \E i \in S : f[i] = t
  OBVIOUS
<1> HIDE DEF S, T, f
<1>3. f \in Bijection(S, T)
  BY <1>2, Fun_IsBij
<1>4. ExistsBijection(S, T)
  BY <1>3 DEF ExistsBijection
<1>5. IsFiniteSet(T) /\ Cardinality(T) = Cardinality(S)
  BY <1>1, <1>4, FS_Bijection
<1> QED
  BY <1>1, <1>5 DEF S, T

\* Listeners and handles account for each other.
LEMMA InvImpliesHeld == DispatcherInv => ListenersAreHeld
<1> SUFFICES ASSUME DispatcherInv PROVE ListenersAreHeld
  OBVIOUS
<1>1. /\ listeners \in ListMaps /\ AllRise(listeners) /\ handles \in HandleMaps /\ HandlesDiffer(handles)
      /\ owned \in Owners
      /\ Account(SetsOf(listeners), active, owned, Handed(handles), {}, Pinned(stack), cleared)
  BY InvParts
<1>2. /\ Connected = AllOf(Handed(handles), owned, {})
      /\ \A e \in Events : ToSet(listeners[e]) = ConnectedTo(e)
      /\ active = Held \ cleared
  BY ConnectedListed
<1>3. \A e \in Events : \A i, j \in DOMAIN listeners[e] : i < j => listeners[e][i] < listeners[e][j]
  BY <1>1 DEF AllRise, Rising
<1> DEFINE ByHandles == {handles[h] : h \in Handles} \ {None}
           ByOwners == {owned[i] : i \in Ids} \ {None}
           HandlesIn == {h \in Handles : handles[h] # None}
           OwnersIn == {i \in Ids : owned[i] # None}
<1>4. Cardinality(Connected) = Cardinality(HandlesIn) + Cardinality(OwnersIn)
  <2>1. /\ IsFiniteSet(ByHandles) /\ Cardinality(ByHandles) = Cardinality(HandlesIn) /\ Cardinality(HandlesIn) \in Nat
    <3>1. \A g, h \in Handles : handles[g] # None /\ handles[g] = handles[h] => g = h
      BY <1>1 DEF HandlesDiffer
    <3> QED
      BY <3>1, HeldOnceCounts, DispatcherAssumption
  <2>2. /\ IsFiniteSet(ByOwners) /\ Cardinality(ByOwners) = Cardinality(OwnersIn) /\ Cardinality(OwnersIn) \in Nat
    <3>1. \A i, j \in Ids : owned[i] # None /\ owned[i] = owned[j] => i = j
      BY <1>1 DEF Account, HeldOnce
    <3>2. IsFiniteSet(Ids)
      <4>1. 1 \in Int /\ MaxId \in Int
        BY DispatcherAssumption
      <4> QED
        BY <4>1, FS_Interval DEF Ids
    <3> QED
      BY <3>1, <3>2, HeldOnceCounts
  <2>3. ByHandles \cap ByOwners = {}
    <3>1. \A i \in Ids : owned[i] \notin Handed(handles)
      BY <1>1 DEF Account, HeldOnce
    <3> QED
      BY <3>1 DEF Handed
  <2>4. Connected = ByHandles \cup ByOwners
    BY <1>2 DEF AllOf, Handed
  <2> DEFINE a == Cardinality(HandlesIn)
             b == Cardinality(OwnersIn)
  <2>5. a \in Nat /\ b \in Nat /\ Cardinality(ByHandles) = a /\ Cardinality(ByOwners) = b
    BY <2>1, <2>2
  <2> HIDE DEF ByHandles, ByOwners, a, b
  <2>6. Cardinality(Connected) = a + b - Cardinality({})
    BY <2>1, <2>2, <2>3, <2>4, <2>5, FS_Union
  <2>7. Cardinality(Connected) = a + b
    BY <2>5, <2>6, FS_EmptySet
  <2> QED
    BY <2>7 DEF a, b
<1> QED
  BY <1>2, <1>3, <1>4 DEF ListenersAreHeld

\* A dispatch has called, in order, whom it owed a call.
LEMMA InvImpliesFair == DispatcherInv => DispatchIsFair
<1> SUFFICES ASSUME DispatcherInv, NEW i \in DOMAIN stack
             PROVE  LET frame == stack[i] IN
                    /\ ToSet(frame.ran) \subseteq frame.owed
                    /\ \A a, b \in DOMAIN frame.ran : a < b => frame.ran[a] < frame.ran[b]
                    /\ \A id \in frame.owed :
                          id < Last(frame.ran) => id \in ToSet(frame.ran) \/ id \notin Held \ cleared
  BY DEF DispatchIsFair
<1> DEFINE f == stack[i]
<1>1. AtHandler(f, active, Taken(nextId))
  BY InvParts DEF FramesFit
<1>2. active = Held \ cleared
  BY ConnectedListed
<1> HIDE DEF f
<1>3. /\ f.snapshot \in Seq(Ids) /\ f.at \in 0..Len(f.snapshot) /\ f.at \in Nat \ {0} /\ Rising(f.snapshot)
      /\ f.owed = ToSet(f.snapshot) /\ ToSet(f.ran) \subseteq {f.snapshot[j] : j \in 1..f.at}
      /\ Rising(f.ran) /\ Last(f.ran) = f.snapshot[f.at]
      /\ \A j \in 1..f.at : f.snapshot[j] \in ToSet(f.ran) \/ f.snapshot[j] \notin active
  BY <1>1 DEF AtHandler, Halfway, Frames
<1>4. /\ Len(f.snapshot) \in Nat /\ DOMAIN f.snapshot = 1..Len(f.snapshot)
      /\ \A j \in 1..Len(f.snapshot) : f.snapshot[j] \in Nat
  <2>1. /\ Len(f.snapshot) \in Nat /\ DOMAIN f.snapshot = 1..Len(f.snapshot)
        /\ \A j \in 1..Len(f.snapshot) : f.snapshot[j] \in Ids
    BY <1>3, LenProperties
  <2>2. Ids \subseteq Nat
    BY DEF Ids
  <2> QED
    BY <2>1, <2>2
<1>5. ToSet(f.ran) \subseteq f.owed
  <2>1. \A j \in 1..f.at : j \in 1..Len(f.snapshot)
    BY <1>3, <1>4
  <2> QED
    BY <2>1, <1>3, <1>4 DEF ToSet
<1>6. ASSUME NEW id \in f.owed, id < Last(f.ran) PROVE id \in ToSet(f.ran) \/ id \notin active
  <2>1. PICK j \in 1..Len(f.snapshot) : id = f.snapshot[j]
    BY <1>3, <1>4 DEF ToSet
  <2>2. j \in 1..f.at
    <3>1. f.at < j => f.snapshot[f.at] < f.snapshot[j]
      BY <1>3, <1>4 DEF Rising
    <3>2. f.snapshot[j] < f.snapshot[f.at] /\ f.at \in 1..Len(f.snapshot)
      BY <1>3, <1>4, <1>6, <2>1
    <3>3. ~(f.snapshot[f.at] < f.snapshot[j])
      BY <3>2, <1>4
    <3> QED
      BY <3>1, <3>3, <1>3, <1>4
  <2> QED
    BY <2>1, <2>2, <1>3
<1>7. \A a, b \in DOMAIN f.ran : a < b => f.ran[a] < f.ran[b]
  BY <1>3 DEF Rising
<1> QED
  BY <1>2, <1>5, <1>6, <1>7 DEF f

\* A handler is called only while its subscription is connected, and none is
\* left out.
LEMMA StepSkips ==
    ASSUME DispatcherInv, DispatcherInv', [DispatcherNext]_dispatcherVars
    PROVE  /\ \A i \in DOMAIN (stack') :
                (i \notin DOMAIN stack \/ stack'[i].ran # stack[i].ran) => Last(stack'[i].ran) \in Held \ cleared
           /\ HandlerReturns /\ Len(stack') < Len(stack) =>
                \A id \in Last(stack).owed : id \in ToSet(Last(stack).ran) \/ id \notin Held \ cleared
<1> DEFINE n == Len(stack)
           after == stack'
           Calls2(i) == i \notin DOMAIN stack \/ after[i].ran # stack[i].ran
           Skips == \A i \in 1..Len(after) : Calls2(i) => Last(after[i].ran) \in active
<1>1. active = Held \ cleared
  BY ConnectedListed
<1>2. stack \in Seq(Frames) /\ stack' \in Seq(Frames)
  <2>1. FramesFit(stack, active, Taken(nextId)) /\ FramesFit(stack, active, Taken(nextId))'
    BY DEF DispatcherInv
  <2> QED
    BY <2>1 DEF FramesFit
<1>3. n \in Nat /\ DOMAIN stack = 1..n /\ Len(after) \in Nat /\ DOMAIN after = 1..Len(after)
  BY <1>2, LenProperties
<1> HIDE DEF after
<1>4. ASSUME after = stack PROVE Skips
  BY <1>3, <1>4
<1>5. ASSUME HandlerReturns
      PROVE  /\ Skips
             /\ Len(after) < n => \A id \in Last(stack).owed : id \in ToSet(Last(stack).ran) \/ id \notin active
  <2>1. AdvancesWell(after, stack, active, Taken(nextId))
    BY <1>5, HandlerReturnsKeeps DEF after
  <2>2. /\ Len(after) \in {n - 1, n} /\ \A i \in 1..(n - 1) : after[i] = stack[i]
        /\ Len(after) = n => Last(after[n].ran) \in active
        /\ Len(after) = n - 1 => \A id \in stack[n].owed : id \in ToSet(stack[n].ran) \/ id \notin active
    BY <2>1 DEF AdvancesWell
  <2>3. ASSUME NEW i \in 1..Len(after), Calls2(i) PROVE Last(after[i].ran) \in active
    <3>1. i \notin 1..(n - 1)
      <4> SUFFICES ASSUME i \in 1..(n - 1) PROVE FALSE
        OBVIOUS
      <4>1. i \in 1..n
        BY <1>3
      <4>2. after[i] = stack[i]
        BY <2>2
      <4> QED
        BY <4>1, <4>2, <2>3, <1>3
    <3> DEFINE m == Len(after)
    <3>2. m \in {n - 1, n} /\ n \in Nat /\ i \in 1..m
      BY <2>2, <1>3
    <3>3. i = n /\ m = n
      <4> HIDE DEF n, m
      <4> QED
        BY <3>1, <3>2
    <3> QED
      BY <3>3, <2>2
  <2>4. Last(stack) = stack[n]
    BY DEF Last
  <2>5. Len(after) < n => Len(after) = n - 1
    <3> DEFINE m == Len(after)
    <3>1. m \in {n - 1, n} /\ n \in Nat
      BY <2>2, <1>3
    <3> HIDE DEF n, m
    <3>2. m < n => m = n - 1
      BY <3>1
    <3> QED
      BY <3>2 DEF m, n
  <2> QED
    BY <2>2, <2>3, <2>4, <2>5
<1>6. ASSUME HandlerFails PROVE Skips
  <2>1. Len(after) = n - 1 /\ \A i \in 1..(n - 1) : after[i] = stack[i]
    BY <1>6, HandlerFailsKeeps DEF after
  <2>2. \A i \in 1..Len(after) : i \in DOMAIN stack /\ after[i] = stack[i]
    BY <2>1, <1>3
  <2> QED
    BY <2>2
<1>7. ASSUME NEW e \in Events, Dispatch(e) PROVE Skips
  <2>1. /\ Len(after) \in {n, n + 1} /\ \A i \in 1..n : after[i] = stack[i]
        /\ Len(after) = n + 1 => Last(after[n + 1].ran) \in active
    BY <1>7, DispatchKeeps DEF after
  <2>2. ASSUME NEW i \in 1..Len(after), Calls2(i) PROVE Last(after[i].ran) \in active
    <3>1. i \notin 1..n
      BY <2>1, <2>2, <1>3
    <3> DEFINE m == Len(after)
    <3>2. m \in {n, n + 1} /\ n \in Nat /\ i \in 1..m
      BY <2>1, <1>3
    <3>3. i = n + 1 /\ m = n + 1
      <4> HIDE DEF n, m
      <4> QED
        BY <3>1, <3>2
    <3> QED
      BY <3>3, <2>1
  <2> QED
    BY <2>2
<1>8. Skips
  <2>1. ASSUME NEW h \in Handles, Disconnect(h) PROVE after = stack
    BY <2>1 DEF Disconnect, after
  <2>2. ASSUME NEW from \in Handles, NEW to \in Handles, MoveAssign(from, to) PROVE after = stack
    BY <2>2 DEF MoveAssign, after
  <2>3. ASSUME NEW h \in Handles, NEW e \in Events, NEW given \in Handles \cup {None}, Subscribe(h, e, given)
        PROVE  after = stack
    BY <2>3 DEF Subscribe, after
  <2>4. ASSUME Clear PROVE after = stack
    BY <2>4 DEF Clear, after
  <2>5. ASSUME UNCHANGED dispatcherVars PROVE after = stack
    BY <2>5 DEF dispatcherVars, after
  <2> HIDE DEF Skips
  <2> QED
    BY <1>4, <1>5, <1>6, <1>7, <2>1, <2>2, <2>3, <2>4, <2>5 DEF DispatcherNext
<1>9. \A i \in DOMAIN (stack') :
         (i \notin DOMAIN stack \/ stack'[i].ran # stack[i].ran) => Last(stack'[i].ran) \in active
  BY <1>3, <1>8 DEF after
<1>10. HandlerReturns /\ Len(stack') < Len(stack) =>
           \A id \in Last(stack).owed : id \in ToSet(Last(stack).ran) \/ id \notin active
  BY <1>5 DEF after
<1> QED
  BY <1>1, <1>9, <1>10

\* The inductive invariant holds throughout (all of the dispatcher's
\* functions).
THEOREM DispatcherInvHolds == DispatcherSpec => []DispatcherInv
  BY DispatcherInvInit, DispatcherInvNext, PTL DEF DispatcherSpec

\* Whatever handlers do to the dispatcher that runs them, types, lists and
\* handles agree: a listener is listed as long as something can disconnect it
\* (subscribe, disconnect, clear, operator=, dispatch).
THEOREM ListenersAlwaysHeld == DispatcherSpec => []DispatcherInvariant
<1>1. DispatcherInv => DispatcherInvariant
  BY InvImpliesType, InvImpliesHeld DEF DispatcherInvariant
<1> QED
  BY <1>1, DispatcherInvHolds, PTL

\* Every dispatch under way has called, in order and once, whom it owed a call
\* and who is still connected (dispatch).
THEOREM DispatchAlwaysFair == DispatcherSpec => []DispatchIsFair
  BY InvImpliesFair, DispatcherInvHolds, PTL

\* No handler is called once its subscription is disconnected, and a dispatch
\* that completes has passed over no other (dispatch).
THEOREM DisconnectedAlwaysSkipped == DispatcherSpec => SkipsTheDisconnected
<1>1. DispatcherInv /\ DispatcherInv' /\ [DispatcherNext]_dispatcherVars =>
         [/\ \A i \in DOMAIN stack' :
                (i \notin DOMAIN stack \/ stack'[i].ran # stack[i].ran)
                   => Last(stack'[i].ran) \in Held \ cleared
          /\ HandlerReturns /\ Len(stack') < Len(stack) =>
                \A id \in Last(stack).owed :
                    id \in ToSet(Last(stack).ran) \/ id \notin Held \ cleared]_dispatcherVars
  BY StepSkips
<1>2. DispatcherSpec => [][DispatcherNext]_dispatcherVars
  BY DEF DispatcherSpec
<1> QED
  BY <1>1, <1>2, DispatcherInvHolds, PTL DEF SkipsTheDisconnected
-----------------------------------------------------------------------------
(* The frame driver.  For every value of its constants the simulation      *)
(* stays within the time the app was active with a surface.                *)
(*                                                                         *)
(* SimulatedWithinActiveTime is not inductive: a frame that continues the  *)
(* previous one charges now - previous.timestamp, and nothing in it says   *)
(* that this interval was active.  The strengthening keeps an account:     *)
(* time accepted, plus time a begun frame is about to accept, plus time a  *)
(* next frame could still charge, never exceeds activeTime.  The last item *)
(* counts only while the epoch of the baseline lasts, and that an epoch    *)
(* once left never comes back is what the revision and the generation,     *)
(* which only grow, are for.                                               *)

\* The next tick would charge the time since the previous frame.
SameEpoch ==
    /\ previous # NoFrame
    /\ Attached
    /\ previous.revision = lifecycle.revision
    /\ previous.generation = lastGeneration

\* A baseline is never ahead of what it was taken from, and while its epoch
\* lasts the app has been eligible ever since.
BaselineInv ==
    /\ since <= now
    /\ previous # NoFrame =>
          /\ previous.revision <= lifecycle.revision
          /\ previous.generation <= lastGeneration
          /\ previous.timestamp <= now
          /\ previous.revision = lifecycle.revision => CanRunGameLoop
    /\ SameEpoch => since <= previous.timestamp

\* Where the frame is determines what it still holds.
PhaseInv ==
    /\ pc \notin {"input", "events"} => frameDelta = 0
    /\ pc # "fixed" => stepsLeft = 0

Chargeable == IF SameEpoch THEN now - previous.timestamp ELSE 0

ActiveAccount == acceptedTime + frameDelta + Chargeable <= activeTime

SimulationAccount == simulatedTime + FixedStep * stepsLeft + accumulator <= acceptedTime

IInv == TypeOK /\ BaselineInv /\ PhaseInv /\ ActiveAccount /\ SimulationAccount
-----------------------------------------------------------------------------
(* FixedStepScheduler::advance, arithmetically.                            *)

\* Division with remainder.
LEMMA DivMod ==
    ASSUME NEW a \in Nat, NEW f \in Nat \ {0}
    PROVE  a \div f \in Nat /\ a % f \in 0..(f - 1) /\ a = f * (a \div f) + (a % f)
  OBVIOUS

\* What the scheduler hands out and keeps never exceeds what it was given.
LEMMA AdvanceBounds ==
    ASSUME TypeOK
    PROVE  /\ AcceptedDelta \in 0..frameDelta
           /\ StepCount \in 0..MaxStepsPerFrame
           /\ Remainder \in 0..(FixedStep - 1)
           /\ FixedStep * StepCount + Remainder <= accumulator + AcceptedDelta
  <1>1. AcceptedDelta \in 0..frameDelta
    BY CountAssumption, ConfigAssumption DEF TypeOK, AcceptedDelta
  <1>2. Pending \in Nat /\ FixedStep \in Nat \ {0} /\ MaxStepsPerFrame \in Nat \ {0}
    BY <1>1, CountAssumption, ConfigAssumption DEF TypeOK, Pending
  <1> DEFINE whole == Pending \div FixedStep
  <1>3. /\ whole \in Nat
        /\ Remainder \in 0..(FixedStep - 1)
        /\ Pending = FixedStep * whole + Remainder
    BY <1>2, DivMod DEF Remainder
  <1>4. StepCount \in 0..MaxStepsPerFrame /\ StepCount <= whole
    BY <1>2, <1>3 DEF StepCount
  <1>5. FixedStep * StepCount <= FixedStep * whole
    <2> HIDE DEF whole
    <2>1. \A f, m, n \in Nat : m <= n => f * m <= f * n
      OBVIOUS
    <2> QED
      BY <2>1, <1>2, <1>3, <1>4
  <1>6. FixedStep * StepCount \in Int /\ FixedStep * whole \in Int
    <2> HIDE DEF whole
    <2> QED
      BY <1>2, <1>3, <1>4
  <1> HIDE DEF whole
  <1> QED
    BY <1>1, <1>2, <1>3, <1>4, <1>5, <1>6 DEF Pending
-----------------------------------------------------------------------------
(* The inductive invariant.                                                *)

\* The program starts with an empty account.
LEMMA InitIInv == Init => IInv
  <1> SUFFICES ASSUME Init PROVE IInv
    OBVIOUS
  <1> QED
    BY MaxRevisionAssumption, MaxGenerationAssumption, CountAssumption, ConfigAssumption
    DEF Init, LifecycleInit, SurfaceInit, IInv, TypeOK, LifecycleTypeOK, LifecycleType,
        LifecycleStates, SurfaceTypeOK, Attached, BaselineInv, PhaseInv, ActiveAccount,
        SimulationAccount, Chargeable, SameEpoch

\* Forgetting the baseline can only lower what is still chargeable.
LEMMA ForgetKeepsIInv ==
    ASSUME IInv, ForgetTiming,
           UNCHANGED <<lifecycle, surfaceVars, pc, frameDelta, stepsLeft, now, historyVars, since>>
    PROVE  IInv'
  <1> USE DEF IInv
  <1>1. TypeOK'
    BY ConfigAssumption
    DEF ForgetTiming, TypeOK, LifecycleTypeOK, SurfaceTypeOK, Attached, surfaceVars, historyVars
  <1>2. BaselineInv' /\ PhaseInv'
    BY DEF ForgetTiming, BaselineInv, PhaseInv, SameEpoch, historyVars
  <1>3. Chargeable' = 0 /\ Chargeable \in Nat
    BY DEF ForgetTiming, Chargeable, SameEpoch, BaselineInv, TypeOK, FrameRecords, Timestamps,
           MinCount
  <1>4. ActiveAccount'
    BY <1>3 DEF ActiveAccount, historyVars, TypeOK
  <1>5. SimulationAccount'
    <2>1. FixedStep * stepsLeft \in Int
      BY ConfigAssumption DEF TypeOK
    <2> QED
      BY <2>1, ConfigAssumption, CountAssumption
      DEF ForgetTiming, SimulationAccount, historyVars, TypeOK
  <1> QED
    BY <1>1, <1>2, <1>4, <1>5

\* A frame begins: what was chargeable becomes what is charged.
LEMMA TickBeginsKeepsIInv == ASSUME IInv, TickBegins PROVE IInv'
  <1> USE DEF IInv
  <1>1. lifecycle.revision \in 0..MaxRevision /\ surface \in Descriptors
        /\ surface.generation = lastGeneration /\ surface.generation \in 1..MaxGeneration
    BY DEF TypeOK, LifecycleTypeOK, LifecycleType, SurfaceTypeOK, TickBegins, Eligible,
           Attached, Descriptors
  <1>2. Continuing <=> SameEpoch
    BY <1>1 DEF Continuing, SameEpoch, TickBegins, Eligible
  <1>3. now \in Timestamps /\ previous' \in FrameRecords
    BY <1>1 DEF TickBegins, FrameRecords
  <1>4. frameDelta' = Chargeable /\ Chargeable \in 0..MaxCount
    <2>1. CASE SameEpoch
      <3>1. previous \in FrameRecords
        BY <2>1 DEF SameEpoch, TypeOK
      <3>2. previous.timestamp \in Timestamps
        BY <3>1 DEF FrameRecords
      <3> QED
        BY <2>1, <1>2, <1>3, <3>2, CountAssumption
        DEF TickBegins, ElapsedOverflows, Chargeable, Timestamps, MinCount
    <2>2. CASE ~SameEpoch
      BY <2>2, <1>2, CountAssumption DEF TickBegins, Chargeable
    <2> QED
      BY <2>1, <2>2
  <1>5. /\ previous' # NoFrame
        /\ previous'.timestamp = now /\ previous'.revision = lifecycle.revision
        /\ previous'.generation = lastGeneration
    BY <1>1, <1>3, NoFrameAssumption DEF TickBegins
  <1>6. accumulator' \in 0..(FixedStep - 1) /\ accumulator' <= accumulator
    BY ConfigAssumption DEF TypeOK, TickBegins
  <1>7. TypeOK'
    BY <1>3, <1>4, <1>6
    DEF TypeOK, LifecycleTypeOK, SurfaceTypeOK, TickBegins, Attached, surfaceVars, historyVars,
        FramePhases
  <1>8. BaselineInv'
    BY <1>1, <1>3, <1>5, MaxRevisionAssumption, MaxGenerationAssumption
    DEF BaselineInv, SameEpoch, TickBegins, Eligible, CanRunGameLoop, surfaceVars, Attached,
        Timestamps, TypeOK
  <1>9. PhaseInv'
    BY DEF PhaseInv, TickBegins
  <1>10. ActiveAccount'
    <2>1. Chargeable' = 0
      BY <1>3, <1>5, CountAssumption DEF Chargeable, TickBegins, Timestamps, MinCount
    <2>2. frameDelta = 0
      BY DEF PhaseInv, TickBegins
    <2> QED
      BY <1>4, <2>1, <2>2 DEF ActiveAccount, TickBegins, historyVars, TypeOK
  <1>11. SimulationAccount'
    <2>1. FixedStep * stepsLeft \in Int
      BY ConfigAssumption DEF TypeOK
    <2> QED
      BY <1>6, <2>1, ConfigAssumption DEF SimulationAccount, TickBegins, historyVars, TypeOK
  <1> QED
    BY <1>7, <1>8, <1>9, <1>10, <1>11

\* The end of a frame drops the fixed updates it still owed.
LEMMA EndFrameKeepsIInv ==
    ASSUME IInv, EndFrame,
           UNCHANGED <<lifecycle, surfaceVars, previous, accumulator, now, historyVars, since>>
    PROVE  IInv'
  <1> USE DEF IInv
  <1>1. TypeOK'
    BY CountAssumption, ConfigAssumption
    DEF EndFrame, TypeOK, LifecycleTypeOK, SurfaceTypeOK, Attached, surfaceVars, historyVars
  <1>2. BaselineInv' /\ PhaseInv' /\ Chargeable' = Chargeable
    BY DEF EndFrame, BaselineInv, PhaseInv, SameEpoch, CanRunGameLoop, Attached, surfaceVars,
           historyVars, Chargeable
  <1>3. Chargeable \in Int
    BY DEF Chargeable, SameEpoch, TypeOK, FrameRecords, Timestamps
  <1>4. ActiveAccount'
    BY <1>2, <1>3 DEF EndFrame, ActiveAccount, TypeOK, historyVars
  <1>5. SimulationAccount'
    <2>1. FixedStep * stepsLeft \in Nat /\ FixedStep * 0 = 0
      BY ConfigAssumption DEF TypeOK
    <2> QED
      BY <2>1, ConfigAssumption DEF EndFrame, SimulationAccount, historyVars, TypeOK
  <1> QED
    BY <1>1, <1>2, <1>4, <1>5

\* The scheduler moves time from the frame to the accumulator and the steps.
LEMMA ProcessEventsKeepsIInv == ASSUME IInv, ProcessEvents PROVE IInv'
  <1> USE DEF IInv
  <1>1. CASE AccumulatorOverflows
    BY <1>1, EndFrameKeepsIInv DEF ProcessEvents, historyVars
  <1>2. CASE ~AccumulatorOverflows
    <2>1. /\ AcceptedDelta \in 0..frameDelta
          /\ StepCount \in 0..MaxStepsPerFrame
          /\ Remainder \in 0..(FixedStep - 1)
          /\ FixedStep * StepCount + Remainder <= accumulator + AcceptedDelta
      BY AdvanceBounds
    <2>2. /\ pc = "events" /\ pc' = "fixed" /\ stepsLeft' = StepCount /\ frameDelta' = 0
          /\ accumulator' = Remainder /\ acceptedTime' = acceptedTime + AcceptedDelta
          /\ UNCHANGED <<lifecycle, surfaceVars, previous, now, activeTime, simulatedTime, since>>
      BY <1>2 DEF ProcessEvents
    <2>3. TypeOK'
      BY <2>1, <2>2, CountAssumption, ConfigAssumption
      DEF TypeOK, LifecycleTypeOK, SurfaceTypeOK, Attached, surfaceVars, FramePhases
    <2>4. BaselineInv' /\ PhaseInv' /\ Chargeable' = Chargeable
      BY <2>2 DEF BaselineInv, PhaseInv, SameEpoch, CanRunGameLoop, Attached, surfaceVars,
                  Chargeable
    <2>5. Chargeable \in Int
      BY DEF Chargeable, SameEpoch, TypeOK, FrameRecords, Timestamps
    <2>6. ActiveAccount'
      BY <2>1, <2>2, <2>4, <2>5 DEF ActiveAccount, TypeOK
    <2>7. SimulationAccount'
      <3>1. stepsLeft = 0 /\ FixedStep * 0 = 0 /\ FixedStep * StepCount \in Int
        BY <2>1, <2>2, ConfigAssumption DEF PhaseInv
      <3> QED
        BY <2>1, <2>2, <3>1, ConfigAssumption DEF SimulationAccount, TypeOK
    <2> QED
      BY <2>3, <2>4, <2>6, <2>7
  <1> QED
    BY <1>1, <1>2

\* One fixed update turns a step that was owed into simulated time.
LEMMA FixedUpdateKeepsIInv == ASSUME IInv, FixedUpdate PROVE IInv'
  <1> USE DEF IInv
  <1>1. TypeOK'
    BY ConfigAssumption
    DEF FixedUpdate, TypeOK, LifecycleTypeOK, SurfaceTypeOK, Attached, surfaceVars
  <1>2. BaselineInv' /\ PhaseInv' /\ Chargeable' = Chargeable
    BY DEF FixedUpdate, BaselineInv, PhaseInv, SameEpoch, CanRunGameLoop, Attached, surfaceVars,
           Chargeable
  <1>3. ActiveAccount'
    BY <1>2 DEF FixedUpdate, ActiveAccount
  <1>4. SimulationAccount'
    <2>1. FixedStep * (stepsLeft - 1) = FixedStep * stepsLeft - FixedStep
          /\ FixedStep * stepsLeft \in Int
      BY ConfigAssumption DEF TypeOK
    <2> QED
      BY <2>1, ConfigAssumption DEF FixedUpdate, SimulationAccount, TypeOK
  <1> QED
    BY <1>1, <1>2, <1>3, <1>4

\* ProcessInput and VariableUpdate only move the frame to its next callback.
LEMMA NextPhaseKeepsIInv == ASSUME IInv, ProcessInput \/ VariableUpdate PROVE IInv'
  <1> USE DEF IInv
  <1>1. TypeOK'
    BY DEF ProcessInput, VariableUpdate, TypeOK, LifecycleTypeOK, SurfaceTypeOK, Attached,
           surfaceVars, historyVars, FramePhases
  <1>2. BaselineInv' /\ PhaseInv' /\ Chargeable' = Chargeable
    BY DEF ProcessInput, VariableUpdate, BaselineInv, PhaseInv, SameEpoch, CanRunGameLoop,
           Attached, surfaceVars, historyVars, Chargeable
  <1>3. ActiveAccount' /\ SimulationAccount'
    BY <1>2 DEF ProcessInput, VariableUpdate, ActiveAccount, SimulationAccount, historyVars
  <1> QED
    BY <1>1, <1>2, <1>3

\* A lifecycle change raises the revision, so a baseline of the past stays past.
LEMMA NativeLifecycleKeepsIInv == ASSUME IInv, NativeLifecycle PROVE IInv'
  <1> USE DEF IInv
  <1>1. /\ LifecycleTypeOK'
        /\ lifecycle'.revision >= lifecycle.revision
        /\ lifecycle'.revision = lifecycle.revision => lifecycle' = lifecycle
    BY LifecycleMoves DEF NativeLifecycle, TypeOK
  <1>2. UNCHANGED <<surface, lastGeneration, previous, accumulator, pc, frameDelta, stepsLeft,
                    now, activeTime, acceptedTime, simulatedTime>>
    BY DEF NativeLifecycle, surfaceVars, driverVars, historyVars
  <1>3. lifecycle.revision \in Int /\ lifecycle'.revision \in Int
        /\ (previous # NoFrame => previous.revision \in Int /\ previous.timestamp \in Int)
    BY <1>1, MaxRevisionAssumption, CountAssumption
    DEF LifecycleTypeOK, LifecycleType, TypeOK, FrameRecords, Timestamps, MinCount
  <1>4. TypeOK'
    BY <1>1, <1>2 DEF NativeLifecycle, TypeOK, SurfaceTypeOK, Attached
  <1>5. CASE lifecycle' = lifecycle
    <2>1. since' = since
      BY <1>5 DEF NativeLifecycle
    <2>2. BaselineInv' /\ PhaseInv' /\ Chargeable' = Chargeable
      BY <1>2, <1>5, <2>1 DEF BaselineInv, PhaseInv, SameEpoch, CanRunGameLoop, Attached, Chargeable
    <2>3. ActiveAccount' /\ SimulationAccount'
      BY <1>2, <2>2 DEF ActiveAccount, SimulationAccount
    <2> QED
      BY <1>4, <2>2, <2>3
  <1>6. CASE lifecycle' # lifecycle
    <2>1. since' = now
      BY <1>1, <1>6 DEF NativeLifecycle
    <2>2. lifecycle'.revision > lifecycle.revision
      BY <1>1, <1>3, <1>6
    <2>3. ~SameEpoch'
      BY <1>2, <1>3, <2>2 DEF SameEpoch, BaselineInv
    <2>4. BaselineInv' /\ PhaseInv'
      BY <1>2, <1>3, <2>1, <2>2, <2>3 DEF BaselineInv, PhaseInv, TypeOK
    <2>5. Chargeable' = 0 /\ Chargeable \in Nat
      BY <1>3, <2>3 DEF Chargeable, SameEpoch, BaselineInv, TypeOK
    <2>6. ActiveAccount'
      BY <1>2, <2>5 DEF ActiveAccount, TypeOK
    <2>7. SimulationAccount'
      BY <1>2 DEF SimulationAccount
    <2> QED
      BY <1>4, <2>4, <2>6, <2>7
  <1> QED
    BY <1>5, <1>6

\* A surface change ends the epoch, except a resize, which keeps it.
LEMMA NativeSurfaceKeepsIInv == ASSUME IInv, NativeSurface PROVE IInv'
  <1> USE DEF IInv
  <1>1. /\ SurfaceTypeOK'
        /\ lastGeneration' >= lastGeneration
        /\ Attached' /\ lastGeneration' = lastGeneration => Attached
    BY SurfaceMoves DEF NativeSurface, TypeOK
  <1>2. UNCHANGED <<lifecycle, previous, accumulator, pc, frameDelta, stepsLeft,
                    now, activeTime, acceptedTime, simulatedTime>>
    BY DEF NativeSurface, driverVars, historyVars
  <1>3. /\ lastGeneration \in Int /\ lastGeneration' \in Int
        /\ (previous # NoFrame => previous.generation \in Int /\ previous.timestamp \in Int)
        /\ since' \in {now, since} /\ since' <= now /\ since' \in Int
        /\ (Attached' /\ Attached => since' = since)
    <2>1. lastGeneration \in Int /\ lastGeneration' \in Int
      BY <1>1, MaxGenerationAssumption DEF TypeOK, SurfaceTypeOK
    <2>2. previous # NoFrame => previous.generation \in Int /\ previous.timestamp \in Int
      BY MaxGenerationAssumption, CountAssumption DEF TypeOK, FrameRecords, Timestamps, MinCount
    <2>3. since' \in {now, since}
      BY DEF NativeSurface
    <2>4. now \in Int /\ since \in Int /\ since <= now
      BY DEF TypeOK, BaselineInv
    <2>5. ASSUME Attached', Attached PROVE since' = since
      BY <2>5, Zenon DEF NativeSurface, Attached
    <2> QED
      BY <2>1, <2>2, <2>3, <2>4, <2>5
  <1>4. TypeOK'
    BY <1>1, <1>2, <1>3 DEF TypeOK, LifecycleTypeOK
  <1>5. SameEpoch' => SameEpoch /\ since' = since
    BY <1>1, <1>2, <1>3 DEF SameEpoch, BaselineInv
  <1>6. BaselineInv' /\ PhaseInv'
    BY <1>1, <1>2, <1>3, <1>5 DEF BaselineInv, PhaseInv, CanRunGameLoop
  <1>7. Chargeable \in Nat /\ (Chargeable' = 0 \/ Chargeable' = Chargeable)
    BY <1>2, <1>3, <1>5 DEF Chargeable, SameEpoch, BaselineInv, TypeOK
  <1>8. ActiveAccount' /\ SimulationAccount'
    BY <1>2, <1>7 DEF ActiveAccount, SimulationAccount, TypeOK
  <1> QED
    BY <1>4, <1>6, <1>8

\* Time that passes becomes chargeable only while it is active time.
LEMMA ClockKeepsIInv == ASSUME IInv, ClockAdvances PROVE IInv'
  <1> USE DEF IInv
  <1>1. PICK d \in 1..(MaxClock - now) :
            /\ now' = now + d
            /\ activeTime' = activeTime + (IF Eligible THEN d ELSE 0)
    BY DEF ClockAdvances
  <1>2. UNCHANGED <<lifecycle, surface, lastGeneration, previous, accumulator, pc, frameDelta,
                    stepsLeft, acceptedTime, simulatedTime, since>>
    BY DEF ClockAdvances, surfaceVars, driverVars
  <1>3. d \in Nat /\ now \in Int /\ since \in Int
        /\ (previous # NoFrame => previous.timestamp \in Int)
    BY <1>1, CountAssumption DEF TypeOK, FrameRecords, Timestamps, MinCount
  <1>4. TypeOK'
    BY <1>1, <1>2, <1>3 DEF TypeOK, LifecycleTypeOK, SurfaceTypeOK, Attached
  <1>5. SameEpoch' <=> SameEpoch
    BY <1>2 DEF SameEpoch, Attached
  <1>6. BaselineInv' /\ PhaseInv'
    BY <1>1, <1>2, <1>3, <1>5 DEF BaselineInv, PhaseInv, CanRunGameLoop
  <1>7. SameEpoch => Eligible
    BY DEF SameEpoch, BaselineInv, Eligible
  <1>8. /\ Chargeable \in Int
        /\ Chargeable' \in Int
        /\ Chargeable' <= Chargeable + (IF Eligible THEN d ELSE 0)
    BY <1>1, <1>2, <1>3, <1>5, <1>7 DEF Chargeable, SameEpoch
  <1>9. ActiveAccount'
    <2> DEFINE gain == IF Eligible THEN d ELSE 0
    <2>1. gain \in Int /\ activeTime' = activeTime + gain /\ Chargeable' <= Chargeable + gain
      BY <1>1, <1>3, <1>8
    <2>2. acceptedTime \in Int /\ frameDelta \in Int /\ activeTime \in Int
      BY CountAssumption DEF TypeOK
    <2>3. /\ Chargeable \in Int /\ Chargeable' \in Int
          /\ acceptedTime' = acceptedTime /\ frameDelta' = frameDelta
      BY <1>2, <1>8
    <2>4. acceptedTime + frameDelta + Chargeable <= activeTime
      BY DEF ActiveAccount
    <2> HIDE DEF gain, IInv
    <2>5. acceptedTime' + frameDelta' + Chargeable' <= activeTime'
      <3>1. \A accepted, delta, c0, c1, time, g \in Int :
                accepted + delta + c0 <= time /\ c1 <= c0 + g
                    => accepted + delta + c1 <= time + g
        OBVIOUS
      <3>2. acceptedTime + frameDelta + Chargeable' <= activeTime + gain
        BY <2>1, <2>2, <2>3, <2>4, <3>1
      <3> QED
        BY <2>1, <2>3, <3>2
    <2> QED
      BY <2>5 DEF ActiveAccount
  <1>10. SimulationAccount'
    BY <1>2 DEF SimulationAccount
  <1> QED
    BY <1>4, <1>6, <1>9, <1>10

\* Every step of the driver, of its callbacks and of the environment.
LEMMA NextKeepsIInv == IInv /\ [Next]_vars => IInv'
  <1> SUFFICES ASSUME IInv, [Next]_vars PROVE IInv'
    OBVIOUS
  <1>1. CASE Tick
    BY <1>1, ForgetKeepsIInv, TickBeginsKeepsIInv
    DEF Tick, TickOutOfRange, TickSkipped, TickRejected
  <1>2. CASE Callbacks
    BY <1>2, NextPhaseKeepsIInv, ProcessEventsKeepsIInv, FixedUpdateKeepsIInv, EndFrameKeepsIInv
    DEF Callbacks, Render, CallbackFails
  <1>3. CASE ResetTiming
    BY <1>3, ForgetKeepsIInv DEF ResetTiming
  <1>4. CASE Environment
    BY <1>4, NativeLifecycleKeepsIInv, NativeSurfaceKeepsIInv, ClockKeepsIInv DEF Environment
  <1>5. CASE UNCHANGED vars
    BY <1>5
    DEF IInv, TypeOK, LifecycleTypeOK, SurfaceTypeOK, BaselineInv, PhaseInv, ActiveAccount,
        SimulationAccount, Chargeable, SameEpoch, Attached, CanRunGameLoop, vars, surfaceVars,
        driverVars, historyVars
  <1> QED
    BY <1>1, <1>2, <1>3, <1>4, <1>5 DEF Next

\* The account holds in every reachable state.
LEMMA IInvHolds == Spec => []IInv
  BY InitIInv, NextKeepsIInv, PTL DEF Spec
-----------------------------------------------------------------------------
(* The theorems.                                                           *)

\* The driver is well typed and its accumulator stays below one step, for
\* every configuration FixedStepScheduler::create accepts.
THEOREM FramesAreTyped == Spec => []TypeOK
  <1>1. IInv => TypeOK
    BY DEF IInv
  <1> QED
    BY <1>1, IInvHolds, PTL

\* The simulation never runs ahead of the time the app was active with a
\* surface, whatever happens between two frames or inside one.
THEOREM SimulationIsActiveTime == Spec => []SimulatedWithinActiveTime
  <1>1. IInv => SimulatedWithinActiveTime
    <2> SUFFICES ASSUME IInv PROVE SimulatedWithinActiveTime
      OBVIOUS
    <2>1. Chargeable \in Nat
      BY CountAssumption
      DEF IInv, Chargeable, SameEpoch, BaselineInv, TypeOK, FrameRecords, Timestamps, MinCount
    <2>2. FixedStep * stepsLeft \in Nat
      BY ConfigAssumption DEF IInv, TypeOK
    <2> QED
      BY <2>1, <2>2, ConfigAssumption, CountAssumption
      DEF IInv, TypeOK, ActiveAccount, SimulationAccount, SimulatedWithinActiveTime
  <1> QED
    BY <1>1, IInvHolds, PTL

\* A frame charges only time after the last lifecycle or surface change.
THEOREM ChargesOnlyItsEpoch == Spec => FrameChargesOnlyItsEpoch
  <1>1. IInv /\ [Next]_vars
        => [pc = "idle" /\ pc' = "input" => frameDelta' <= now - since]_vars
    <2> SUFFICES ASSUME IInv, Next, pc = "idle", pc' = "input"
                 PROVE  frameDelta' <= now - since
      OBVIOUS
    <2>1. TickBegins
      BY DEF Next, Tick, TickOutOfRange, TickSkipped, TickRejected, Callbacks, ProcessInput,
             ProcessEvents, EndFrame, FixedUpdate, VariableUpdate, Render, CallbackFails,
             ResetTiming, Environment, NativeLifecycle, NativeSurface, ClockAdvances, driverVars
    <2>2. since \in Int /\ now \in Int /\ since <= now
      BY DEF IInv, TypeOK, BaselineInv
    <2>3. CASE Continuing
      <3>1. SameEpoch
        BY <2>1, <2>3 DEF Continuing, SameEpoch, TickBegins, Eligible, IInv, TypeOK, SurfaceTypeOK
      <3>2. since <= previous.timestamp /\ previous.timestamp \in Int
        BY <3>1, CountAssumption
        DEF IInv, BaselineInv, SameEpoch, TypeOK, FrameRecords, Timestamps, MinCount
      <3> QED
        BY <2>1, <2>2, <2>3, <3>2 DEF TickBegins
    <2>4. CASE ~Continuing
      BY <2>1, <2>2, <2>4 DEF TickBegins
    <2> QED
      BY <2>3, <2>4
  <1> QED
    BY <1>1, IInvHolds, PTL DEF Spec, FrameChargesOnlyItsEpoch

\* While frames run too, a native report of lost focus stops the game loop,
\* unless the revision counter is exhausted.
THEOREM FocusLossStopsTheFrames == Spec => []LossStopsTheLoop
  <1>1. TypeOK => LossStopsTheLoop
    BY LossStops DEF TypeOK
  <1> QED
    BY <1>1, FramesAreTyped, PTL
=============================================================================
