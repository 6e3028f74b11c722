--------------------------- MODULE MCEngineServices ---------------------------
(* The components that know nothing of each other, each explored on its    *)
(* own: a behaviour is one of the component it chose in the beginning, and *)
(* the others stay as they are.                                            *)
EXTENDS TouchInput, MemoryBudget, EventDispatcher, TLC

VARIABLE subject

Subjects == {"touch input", "memory budget", "event dispatcher"}

vars == <<subject, touchVars, budgetVars, dispatcherVars>>

ServicesInit ==
    /\ subject \in Subjects
    /\ TouchInit /\ BudgetInit /\ DispatcherInit

ServicesNext ==
    /\ UNCHANGED subject
    /\ \/ /\ subject = "touch input" /\ TouchNext
          /\ UNCHANGED <<budgetVars, dispatcherVars>>
       \/ /\ subject = "memory budget" /\ BudgetNext
          /\ UNCHANGED <<touchVars, dispatcherVars>>
       \/ /\ subject = "event dispatcher" /\ DispatcherNext
          /\ UNCHANGED <<touchVars, budgetVars>>

ServicesSpec == ServicesInit /\ [][ServicesNext]_vars

\* Only equality is asked of pointers, threads and handles, and of the types
\* of events.  No behaviour has two of the first three, so that they share
\* their names.
ServicesSymmetry == Permutations(PointerIds) \cup Permutations(Events)
=============================================================================
