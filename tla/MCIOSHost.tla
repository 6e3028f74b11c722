------------------------------ MODULE MCIOSHost ------------------------------
(* IOSHost, or the queue that brings lifecycle events to an engine thread, *)
(* which share nothing: a behaviour is one of the component it chose in    *)
(* the beginning, and the other stays as it is.                            *)
EXTENDS IOSHost, LifecycleEventQueue, TLC

VARIABLE subject

vars == <<subject, viewVars, queueVars>>

HostInit == subject \in {"view controller", "event queue"} /\ ViewInit /\ QueueInit

HostNext ==
    /\ UNCHANGED subject
    /\ \/ subject = "view controller" /\ ViewNext /\ UNCHANGED queueVars
       \/ subject = "event queue" /\ QueueNext /\ UNCHANGED viewVars

\* Fairness is that of the queue.
HostSpec ==
    /\ HostInit /\ [][HostNext]_vars
    /\ WF_queueVars(subject = "event queue" /\ TryPop)

\* Touches are compared for equality only and processed in any order, and
\* metrics are not compared.  Neither occurs in the queue, about which alone
\* liveness is checked.
TouchSymmetry == Permutations(PointerIds) \cup Permutations(Metrics)
=============================================================================
