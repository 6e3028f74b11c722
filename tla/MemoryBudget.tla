---------------------------- MODULE MemoryBudget ----------------------------
(***************************************************************************)
(* A byte budget shared by threads without a lock: MemoryBudget            *)
(* (engine/foundation/include/storm/foundation/memory_budget.hpp).         *)
(*                                                                         *)
(* try_reserve and release load the counter once and then try to exchange  *)
(* it until the exchange succeeds or the value they read forbids it.  The  *)
(* load and every exchange are steps of their own.  compare_exchange_weak  *)
(* may fail although the counter holds the expected value; either way a    *)
(* failure reads it again.  A call that is refused before the first load   *)
(* is a stuttering step.                                                   *)
(***************************************************************************)
EXTENDS Integers

CONSTANTS Threads,
          CapacityBytes,       \* capacity_bytes_
          Sizes           \* byte counts asked for

ASSUME BudgetAssumption == CapacityBytes \in Nat /\ Sizes \subseteq Nat

VARIABLES reserved,       \* reserved_bytes_
          call,           \* per thread: "none", "reserve" or "release"
          bytes,          \* per thread: the argument of the call
          current         \* per thread: the local of that name

\* History variables.
VARIABLES granted,        \* bytes of the calls that returned true, less those released
          refusable,      \* a moment of the call at which the answer was no
          answer          \* what the last call returned

budgetVars == <<reserved, call, bytes, current, granted, refusable, answer>>

BudgetInit ==
    /\ reserved = 0 /\ granted = 0
    /\ call = [t \in Threads |-> "none"]
    /\ bytes = [t \in Threads |-> 0] /\ current = [t \in Threads |-> 0]
    /\ refusable = [t \in Threads |-> FALSE] /\ answer = [t \in Threads |-> TRUE]

\* What the loop tests, on a value of the counter.
Forbids(kind, n, value) ==
    IF kind = "reserve" THEN value > CapacityBytes - n ELSE value < n

Load(t, kind, n) ==
    /\ call[t] = "none"
    /\ kind = "reserve" => n <= CapacityBytes
    /\ call' = [call EXCEPT ![t] = kind] /\ bytes' = [bytes EXCEPT ![t] = n]
    /\ current' = [current EXCEPT ![t] = reserved]
    /\ refusable' = [refusable EXCEPT ![t] = Forbids(kind, n, reserved)]
    /\ UNCHANGED <<reserved, granted, answer>>

\* The locals of the call are gone.
Return(t, value) ==
    /\ call' = [call EXCEPT ![t] = "none"]
    /\ bytes' = [bytes EXCEPT ![t] = 0] /\ current' = [current EXCEPT ![t] = 0]
    /\ answer' = [answer EXCEPT ![t] = value]

Refuse(t) ==
    /\ call[t] # "none"
    /\ Forbids(call[t], bytes[t], current[t])
    /\ Return(t, FALSE)
    /\ UNCHANGED <<reserved, granted, refusable>>

\* Seeded fault: the counter is stored without being compared.
BrokenExchange(t) ==
    /\ call[t] # "none" /\ ~Forbids(call[t], bytes[t], current[t])
    /\ LET change == IF call[t] = "reserve" THEN bytes[t] ELSE -bytes[t] IN
       reserved' = current[t] + change /\ granted' = granted + change
    /\ Return(t, TRUE)
    /\ UNCHANGED refusable

Exchange(t) ==
    /\ call[t] # "none" /\ ~Forbids(call[t], bytes[t], current[t])
    /\ reserved = current[t]
    /\ LET change == IF call[t] = "reserve" THEN bytes[t] ELSE -bytes[t] IN
       /\ reserved' = current[t] + change
       /\ granted' = granted + change
    /\ Return(t, TRUE)
    /\ refusable' = [u \in Threads |->
          refusable[u] \/ (call[u] # "none" /\ Forbids(call[u], bytes[u], reserved'))]

\* Seeded fault: an exchange that failed is taken for a refusal.
BrokenExchangeFails(t) ==
    /\ call[t] # "none" /\ ~Forbids(call[t], bytes[t], current[t])
    /\ Return(t, FALSE)
    /\ UNCHANGED <<reserved, granted, refusable>>

ExchangeFails(t) ==
    /\ call[t] # "none" /\ ~Forbids(call[t], bytes[t], current[t])
    /\ current' = [current EXCEPT ![t] = reserved]
    /\ UNCHANGED <<reserved, call, bytes, granted, refusable, answer>>

BudgetNext ==
    \E t \in Threads :
        \/ \E kind \in {"reserve", "release"}, n \in Sizes : Load(t, kind, n)
        \/ Refuse(t) \/ Exchange(t) \/ ExchangeFails(t)

BudgetSpec == BudgetInit /\ [][BudgetNext]_budgetVars
-----------------------------------------------------------------------------
BudgetTypeOK ==
    /\ reserved \in 0..CapacityBytes /\ granted \in Int
    /\ call \in [Threads -> {"none", "reserve", "release"}]
    /\ bytes \in [Threads -> Nat] /\ current \in [Threads -> 0..CapacityBytes]
    /\ refusable \in [Threads -> BOOLEAN] /\ answer \in [Threads -> BOOLEAN]

\* No reservation and no release is lost between a load and an exchange: the
\* counter is the sum of what was granted, and that never exceeds the
\* capacity (try_reserve, release).
BudgetBalances == reserved = granted /\ granted <= CapacityBytes

\* A refusal is deserved: at some moment of the call the budget really could
\* not take, or did not hold, the bytes asked for, although the value the
\* loop looked at may be out of date when it returns.
RefusalsAreDeserved ==
    [][\A t \in Threads : call[t] # "none" /\ call'[t] = "none" /\ ~answer'[t] => refusable[t]]_budgetVars
=============================================================================
