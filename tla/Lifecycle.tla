------------------------------ MODULE Lifecycle ------------------------------
(***************************************************************************)
(* The presentation lifecycle of one Android Activity or one UIKit scene:  *)
(* LifecycleStateMachine (engine/platform/src/lifecycle.cpp) with the two  *)
(* adapters that normalise native callbacks into requests of it            *)
(* (android_lifecycle_adapter.cpp, ios_lifecycle_adapter.cpp).             *)
(*                                                                         *)
(* A handler may make two requests in a row; the second is made only when  *)
(* the first succeeded, so a failing second request leaves the machine     *)
(* half-way.  `revision' counts the transitions that really happened and   *)
(* is the only trace an excursion leaves for code that looks later.        *)
(***************************************************************************)
EXTENDS Integers

CONSTANT MaxRevision      \* std::numeric_limits<std::uint64_t>::max()

ASSUME MaxRevisionAssumption == MaxRevision \in Nat

VARIABLE lifecycle        \* [state_, revision_] of the state machine

LifecycleStates ==
    {"Created", "ForegroundInactive", "ForegroundActive", "Background", "Terminating"}

\* The requests is_transition_allowed accepts in each state.
Allowed ==
    [Created            |-> {"ForegroundInactive", "Background", "Terminating"},
     ForegroundInactive |-> {"ForegroundActive", "Background", "Terminating"},
     ForegroundActive   |-> {"ForegroundInactive", "Terminating"},
     Background         |-> {"ForegroundInactive", "Terminating"},
     Terminating        |-> {}]

LifecycleType == [state : LifecycleStates, revision : 0..MaxRevision]

ActivityEvents ==
    {"Started", "Resumed", "Paused", "FocusLost", "Stopped", "FocusGained", "Destroyed"}

SceneEvents ==
    {"WillEnterForeground", "DidBecomeActive", "WillResignActive", "DidEnterBackground"}

LifecycleInit == lifecycle = [state |-> "Created", revision |-> 0]

CanRunGameLoop == lifecycle.state = "ForegroundActive"
-----------------------------------------------------------------------------
\* A request of a next state: whether it succeeded, and the machine after it.
Transition(l, next) ==
    IF next = l.state
    THEN [ok |-> TRUE, lifecycle |-> l]
    ELSE IF next \in Allowed[l.state] /\ l.revision < MaxRevision
         THEN [ok |-> TRUE,
               lifecycle |-> [state |-> next, revision |-> l.revision + 1]]
         ELSE [ok |-> FALSE, lifecycle |-> l]

\* One conditional request of a handler: made when every earlier one
\* succeeded and the machine is in one of the states `from'.
Request(r, from, next) ==
    IF r.ok /\ r.lifecycle.state \in from
    THEN Transition(r.lifecycle, next)
    ELSE r

ToForeground(r) == Request(r, {"Created", "Background"}, "ForegroundInactive")
ToInactive(r)   == Request(r, {"ForegroundActive"}, "ForegroundInactive")
ToActive(r)     == Request(ToForeground(r), {"ForegroundInactive"}, "ForegroundActive")

\* Seeded fault: the handler does not leave ForegroundActive first.
BrokenToBackground(r) == Request(r, {"Created", "ForegroundInactive"}, "Background")

ToBackground(r) == Request(ToInactive(r), {"Created", "ForegroundInactive"}, "Background")

ApplyActivityEvent(l, event) ==
    LET untouched == [ok |-> TRUE, lifecycle |-> l] IN
    CASE l.state = "Terminating"          -> [untouched EXCEPT !.ok = event = "Destroyed"]
      [] l.state # "Terminating" /\ event \in {"Started", "Resumed"}
                                          -> ToForeground(untouched)
      [] l.state # "Terminating" /\ event \in {"Paused", "FocusLost"}
                                          -> ToInactive(untouched)
      [] l.state # "Terminating" /\ event = "Stopped"     -> ToBackground(untouched)
      [] l.state # "Terminating" /\ event = "FocusGained" -> ToActive(untouched)
      [] l.state # "Terminating" /\ event = "Destroyed"   -> Transition(l, "Terminating")

ApplySceneEvent(l, event) ==
    LET untouched == [ok |-> TRUE, lifecycle |-> l] IN
    CASE l.state = "Terminating"          -> [untouched EXCEPT !.ok = FALSE]
      [] l.state # "Terminating" /\ event = "WillEnterForeground" -> ToForeground(untouched)
      [] l.state # "Terminating" /\ event = "DidBecomeActive"     -> ToActive(untouched)
      [] l.state # "Terminating" /\ event = "WillResignActive"    -> ToInactive(untouched)
      [] l.state # "Terminating" /\ event = "DidEnterBackground"  -> ToBackground(untouched)
-----------------------------------------------------------------------------
TransitionTo(next)    == lifecycle' = Transition(lifecycle, next).lifecycle
ActivityEvent(event)  == lifecycle' = ApplyActivityEvent(lifecycle, event).lifecycle
SceneEvent(event)     == lifecycle' = ApplySceneEvent(lifecycle, event).lifecycle
WillTerminate         == lifecycle' = Transition(lifecycle, "Terminating").lifecycle

LifecycleNext ==
    \/ \E next \in LifecycleStates : TransitionTo(next)
    \/ \E event \in ActivityEvents : ActivityEvent(event)
    \/ \E event \in SceneEvents    : SceneEvent(event)
    \/ WillTerminate

LifecycleSpec == LifecycleInit /\ [][LifecycleNext]_lifecycle
-----------------------------------------------------------------------------
\* The machine holds one of the documented states and a representable revision.
LifecycleTypeOK == lifecycle \in LifecycleType

\* A native report that the app lost focus, was paused, stopped or destroyed
\* leaves the game loop unable to run, even when the handler itself fails in
\* its second request; only an exhausted revision counter prevents it
\* (apply_activity_event, apply_scene_event).
LossStopsTheLoop ==
    lifecycle.revision < MaxRevision =>
        /\ \A e \in {"Paused", "FocusLost", "Stopped", "Destroyed"} :
              ApplyActivityEvent(lifecycle, e).lifecycle.state # "ForegroundActive"
        /\ \A e \in {"WillResignActive", "DidEnterBackground"} :
              ApplySceneEvent(lifecycle, e).lifecycle.state # "ForegroundActive"
=============================================================================
