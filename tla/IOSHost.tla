------------------------------- MODULE IOSHost -------------------------------
(***************************************************************************)
(* The iOS shell: the scene delegate that feeds the lifecycle              *)
(* (platforms/ios/scene_lifecycle_delegate.mm) and the view controller     *)
(* that owns a surface and a touch input (platforms/ios/app/               *)
(* app_delegate.mm).  UIKit calls both on the main thread, where each      *)
(* callback runs to completion; the touches of one callback are processed  *)
(* one by one, with `callback' open.                                       *)
(*                                                                         *)
(* Errors are only reported: after every failure the shell goes on.  UIKit *)
(* (outside the repository) begins, moves and ends a touch in this order,  *)
(* each callback with a set of touches in one phase, and stamps events in  *)
(* the order of their time, never ahead of the uptime.                     *)
(***************************************************************************)
EXTENDS Lifecycle, SurfaceLifecycle, TouchInput, FiniteSets

CONSTANTS HostSurfaceId,        \* kIOSHostSurfaceId
          MaxSupported          \* TouchInput::maximum_supported_pointers

ASSUME ViewAssumption == /\ NativeIds = {HostSurfaceId} /\ MaxSurface = MaxGeneration
                         /\ MaxSupported \in Nat /\ MaxPointers <= MaxSupported

VARIABLES callback,             \* the touches being processed
          deallocated,          \* the view controller is gone
          now,                  \* systemUptime
          clockFailed,          \* history: systemUptime was unusable when it was needed
          touching,             \* external: touches UIKit follows on the view
          lastTouch             \* external: time of the last touch event

viewVars == <<lifecycle, surfaceVars, touchVars, callback, deallocated, now, clockFailed,
              touching, lastTouch>>

NoCallback == [phase |-> "Move", ts |-> 0, rest |-> {}]

ViewInit ==
    /\ LifecycleInit /\ SurfaceInit /\ TouchInit
    /\ callback = NoCallback /\ deallocated = FALSE
    /\ now = 0 /\ clockFailed = FALSE
    /\ touching = {} /\ lastTouch = 0

Idle == ~deallocated /\ batch = "closed" /\ callback = NoCallback

\* The touch input speaks of the surface that is attached.
Bound == Attached /\ touchSurface = surface.generation
-----------------------------------------------------------------------------
(* Parts of the callbacks.                                                 *)

\* The pointers are cancelled at the uptime, which may be unusable; the
\* touch input may refuse, and that is only reported.
CancelAtUptime ==
    \/ clockFailed' = TRUE /\ UNCHANGED touchVars
    \/ /\ IF CanCancel(now, <<>>) THEN CancelTouchInput(now) ELSE UNCHANGED touchVars
       /\ UNCHANGED clockFailed

\* Seeded fault: nothing is cancelled.
BrokenCancelActiveTouches == UNCHANGED <<touchVars, clockFailed>>

\* _cancelActiveTouches
CancelActiveTouches ==
    IF Bound THEN CancelAtUptime ELSE UNCHANGED <<touchVars, clockFailed>>

\* Seeded fault: the surface goes, the touch input keeps it.
BrokenDetachHandler ==
    /\ IF Attached THEN Detach(surface.native_id, surface.generation) ELSE UNCHANGED surfaceVars
    /\ UNCHANGED <<touchVars, clockFailed>>

\* _detachSurface: the surface stays when the clock fails or the touch input
\* refuses.
DetachHandler ==
    \/ ~Attached /\ UNCHANGED <<surfaceVars, touchVars, clockFailed>>
    \/ Bound /\ clockFailed' = TRUE /\ UNCHANGED <<surfaceVars, touchVars>>
    \/ /\ Attached /\ UNCHANGED clockFailed
       /\ IF Bound /\ ~CanCancel(now, <<>>) THEN UNCHANGED <<surfaceVars, touchVars>>
          ELSE /\ Detach(surface.native_id, surface.generation)
               /\ IF Bound THEN DetachSurface(surface.generation, now) ELSE UNCHANGED touchVars
-----------------------------------------------------------------------------
(* viewDidLayoutSubviews, viewWillDisappear and dealloc.                   *)

\* When the touch input refuses, the new surface is detached at once.
AttachHandler(metrics) ==
    /\ ~Attached
    /\ CASE lastGeneration = MaxGeneration -> UNCHANGED <<surfaceVars, touchVars>>
         [] lastGeneration < MaxGeneration /\ Attachable(lastGeneration + 1) ->
              Attach(HostSurfaceId, metrics) /\ AttachSurface(lastGeneration + 1)
         [] OTHER ->
              /\ lastGeneration' = lastGeneration + 1
              /\ UNCHANGED <<surface, touchVars>>

\* Valid bounds attach or resize; touches go on across a resize, their
\* coordinates are points of the view.
Layout ==
    /\ Idle
    /\ \E metrics \in Metrics :
          \/ AttachHandler(metrics)
          \/ Resize(HostSurfaceId, surface.generation, metrics) /\ UNCHANGED touchVars
    /\ UNCHANGED <<lifecycle, callback, deallocated, now, clockFailed, touching, lastTouch>>

\* Empty bounds, bounds without a valid extent, or viewWillDisappear.
Disappears ==
    /\ Idle
    /\ DetachHandler
    /\ UNCHANGED <<lifecycle, callback, deallocated, now, touching, lastTouch>>

Dealloc ==
    /\ Idle
    /\ deallocated' = TRUE
    /\ DetachHandler
    /\ UNCHANGED <<lifecycle, callback, now, touching, lastTouch>>
-----------------------------------------------------------------------------
(* _processTouches                                                         *)

\* The sets of touches UIKit may report in a phase.
Reported(phase) ==
    SUBSET (IF phase = "Down" THEN PointerIds \ touching ELSE touching) \ {{}}

\* UIKit's own account of the touches.
Follow(phase, S) ==
    touching' = CASE phase = "Down"  -> touching \cup S
                  [] phase = "Move"  -> touching
                  [] phase \in Ending -> touching \ S

TouchesIgnored(phase, S) ==
    /\ Idle /\ ~Bound
    /\ S \in Reported(phase) /\ Follow(phase, S)
    /\ UNCHANGED <<lifecycle, surfaceVars, touchVars, callback, deallocated, now, clockFailed, lastTouch>>

\* Seeded fault: what cannot be processed is left out.
BrokenTouchesUnusable(phase, S) ==
    /\ Idle /\ Bound
    /\ S \in Reported(phase) /\ Follow(phase, S)
    /\ UNCHANGED <<lifecycle, surfaceVars, touchVars, callback, deallocated, now, clockFailed, lastTouch>>

\* With too many touches this happens at any timestamp, with fewer only at
\* an invalid one.
TouchesUnusable(phase, S) ==
    /\ Idle /\ Bound
    /\ S \in Reported(phase) /\ Follow(phase, S)
    /\ CancelAtUptime
    /\ UNCHANGED <<lifecycle, surfaceVars, callback, deallocated, now, lastTouch>>

TouchesArrive(phase, S, ts) ==
    /\ Idle /\ Bound
    /\ S \in Reported(phase) /\ Follow(phase, S)
    /\ Cardinality(S) <= MaxSupported
    /\ ts \in lastTouch..now /\ lastTouch' = ts
    /\ callback' = [phase |-> phase, ts |-> ts, rest |-> S]
    /\ UNCHANGED <<lifecycle, surfaceVars, touchVars, deallocated, now, clockFailed>>

\* The events that may come next: the touches are sorted by their identity,
\* an address, so in any order.
NextTouches ==
    {e \in PointerEvents :
        /\ e.id \in callback.rest /\ e.phase = callback.phase /\ e.ts = callback.ts
        /\ e.x # NonFinite /\ e.generation = surface.generation}

Touch(e) ==
    /\ e \in NextTouches
    /\ Process(e)
    /\ callback' = [callback EXCEPT !.rest = @ \ {e.id}]
    /\ UNCHANGED <<lifecycle, surfaceVars, deallocated, now, clockFailed, touching, lastTouch>>

TouchesRejected ==
    /\ \E e \in NextTouches : ~Accepts(e)
    /\ BatchRejected
    /\ callback' = NoCallback
    /\ UNCHANGED <<lifecycle, surfaceVars, deallocated, now, clockFailed, touching, lastTouch>>

TouchesEnd ==
    /\ callback.rest = {} /\ BatchEnds
    /\ callback' = NoCallback
    /\ UNCHANGED <<lifecycle, surfaceVars, deallocated, now, clockFailed, touching, lastTouch>>
-----------------------------------------------------------------------------
(* The scene delegate.                                                     *)

\* The hooks are called with the state in which the machine ends, when the
\* handler succeeded and the state is another; the application's hooks
\* cancel the touches of a scene that is not active.
Applies(r) ==
    /\ lifecycle' = r.lifecycle
    /\ IF r.ok /\ r.lifecycle.state \notin {lifecycle.state, "ForegroundActive"}
       THEN CancelActiveTouches
       ELSE UNCHANGED <<touchVars, clockFailed>>

SceneChanges ==
    /\ Idle
    /\ \E event \in SceneEvents : Applies(ApplySceneEvent(lifecycle, event))
    /\ UNCHANGED <<surfaceVars, callback, deallocated, now, touching, lastTouch>>

ApplicationWillTerminate ==
    /\ Idle
    /\ Applies(Transition(lifecycle, "Terminating"))
    /\ UNCHANGED <<surfaceVars, callback, deallocated, now, touching, lastTouch>>
-----------------------------------------------------------------------------
\* A frame of the runtime as docs/INPUT-SYSTEM.md composes it; the packaged
\* application has none yet, and none need ever happen here.
Frame ==
    /\ Idle /\ CanRunGameLoop /\ Attached
    /\ ProcessInputFrame
    /\ UNCHANGED <<lifecycle, surfaceVars, callback, deallocated, now, clockFailed, touching, lastTouch>>

ClockAdvances ==
    /\ Idle /\ now < MaxTime
    /\ now' = now + 1
    /\ UNCHANGED <<lifecycle, surfaceVars, touchVars, callback, deallocated, clockFailed, touching, lastTouch>>

ViewNext ==
    \/ Layout \/ Disappears \/ Dealloc
    \/ \E phase \in Phases, S \in SUBSET PointerIds :
          \/ TouchesIgnored(phase, S) \/ TouchesUnusable(phase, S)
          \/ \E ts \in 0..MaxTime : TouchesArrive(phase, S, ts)
    \/ \E e \in PointerEvents : Touch(e)
    \/ TouchesRejected \/ TouchesEnd
    \/ SceneChanges \/ ApplicationWillTerminate
    \/ Frame \/ ClockAdvances

ViewSpec == ViewInit /\ [][ViewNext]_viewVars
-----------------------------------------------------------------------------
\* Each part is well typed; the events of a callback speak of the surface
\* that is attached.
ViewTypeOK ==
    /\ LifecycleTypeOK /\ SurfaceTypeOK /\ TouchTypeOK
    /\ callback \in [phase : Phases, ts : 0..MaxTime, rest : SUBSET PointerIds]
    /\ callback # NoCallback => Bound
    /\ deallocated \in BOOLEAN /\ clockFailed \in BOOLEAN
    /\ now \in 0..MaxTime /\ lastTouch \in 0..now /\ touching \subseteq PointerIds

\* Surface and touch input come and go together, with one generation,
\* whichever of the two was attached or detached last and failed
\* (viewDidLayoutSubviews, _detachSurface).
ViewSurfacesAgree == touchSurface = IF Attached THEN surface.generation ELSE 0

\* No pointer outlives its touch: between callbacks the engine holds none
\* that UIKit has ended, also when the ending came in a rejected batch, in
\* one too large or badly stamped, or while no surface was attached; only an
\* uptime that cannot be read leaves one behind (_processTouches,
\* _detachSurface).
NoPointerOutlivesItsTouch ==
    Idle /\ ~clockFailed => ActiveIds \subseteq touching

\* docs/ADR-0013-NATIVE-TOUCH-ADAPTERS.md:42-44: touches are cancelled when
\* the scene leaves ForegroundActive.  No pointer is left, whatever the frame
\* held and however full it was, and for a game that were shown the frame as
\* it is then, none of them is down.  Only an exhausted revision counter,
\* which also breaks the hook off, or an unreadable uptime prevents it
\* (didTransitionToState, stormApplicationWillTerminate).  Whether the game
\* is ever shown that frame is another matter: UIKit goes on reporting the
\* touches, and a batch rejected for one of them discards the frame.
LeavingActiveCancels ==
    [][(lifecycle.state = "ForegroundActive" /\ lifecycle'.state # "ForegroundActive"
          /\ lifecycle'.revision < MaxRevision /\ ~clockFailed') =>
          /\ activePointers' = <<>>
          /\ \A id \in ActiveIds : Replayed(id)' = Unknown]_viewVars

\* The view controller takes its surface and its pointers with it, unless
\* the uptime cannot be read (dealloc).
ReleasedAtDealloc ==
    deallocated /\ ~clockFailed => ~Attached /\ touchSurface = 0 /\ activePointers = <<>>

\* Each part is well typed, the surfaces agree, and nothing outlives the view
\* controller, between any two callbacks and inside a callback with touches
\* (viewDidLayoutSubviews, _detachSurface, _processTouches, dealloc).
ViewInvariant == ViewTypeOK /\ ViewSurfacesAgree /\ ReleasedAtDealloc
=============================================================================
