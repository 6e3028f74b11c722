--------------------------- MODULE IOSHostProofs ---------------------------
(***************************************************************************)
(* For every set of touches, every capacity, extent and clock, and every   *)
(* order of UIKit's callbacks: surface and touch input agree, no pointer   *)
(* outlives its touch, a scene that leaves ForegroundActive cancels its    *)
(* touches, and the view controller uses the touch input as TouchSpec says *)
(* it is used.                                                             *)
(*                                                                         *)
(* NoPointerOutlivesItsTouch speaks of the time between callbacks.  Inside *)
(* one, a pointer may still be active whose ending waits to be processed,  *)
(* and one that goes down must be a touch already: PointersAreTouches.     *)
(***************************************************************************)
EXTENDS IOSHost, HostPartsProofs

\* Surface and touch input have seen the same generations.
GenerationsAgree == lastTouchSurface = lastGeneration

\* Neither an event that was accepted nor one that is waiting is ahead of
\* the clock.
NothingAhead == lastEventTime <= now /\ callback.ts <= now

\* Nothing is being processed in a view controller that is gone.
QuietAtDealloc == deallocated => batch = "closed" /\ callback = NoCallback

\* A pointer belongs to a touch, or its ending is among the touches that are
\* being processed.
PointersAreTouches ==
    /\ ~clockFailed => ActiveIds \subseteq touching \cup callback.rest
    /\ callback.phase \notin Ending => callback.rest \subseteq touching

ViewInv ==
    /\ ViewInvariant /\ TouchInv
    /\ GenerationsAgree /\ NothingAhead /\ QuietAtDealloc /\ PointersAreTouches

\* What a callback leaves of surface and touch input.
ShellOK ==
    /\ [TouchNext]_touchVars
    /\ SurfaceTypeOK' /\ ViewSurfacesAgree' /\ GenerationsAgree'
    /\ lastEventTime' <= now

CallbackType == [phase : Phases, ts : 0..MaxTime, rest : SUBSET PointerIds]
-----------------------------------------------------------------------------
\* The typing facts the steps need.
LEMMA ViewTypes ==
    ASSUME ViewInv
    PROVE  /\ lifecycle \in LifecycleType
           /\ lastGeneration \in 0..MaxGeneration /\ surface \in Descriptors \cup {NoSurface}
           /\ Attached => /\ surface \in Descriptors /\ surface.generation \in 1..MaxSurface
                          /\ surface.generation = lastGeneration
           /\ touchSurface = IF Attached THEN surface.generation ELSE 0
           /\ Attached => Bound
           /\ lastTouchSurface = lastGeneration
           /\ lastEventTime \in 0..MaxTime /\ lastEventTime <= now /\ now \in 0..MaxTime
           /\ callback \in CallbackType /\ callback.ts <= now
           /\ deallocated \in BOOLEAN /\ clockFailed \in BOOLEAN
           /\ lastTouch \in 0..now /\ touching \subseteq PointerIds
           /\ now \in Int /\ now <= now
  <1>1. ViewTypeOK /\ ViewSurfacesAgree /\ TouchInv /\ GenerationsAgree /\ NothingAhead
    BY DEF ViewInv, ViewInvariant
  <1>2. /\ lastGeneration \in 0..MaxGeneration /\ surface \in Descriptors \cup {NoSurface}
        /\ Attached => surface.generation = lastGeneration
    BY <1>1 DEF ViewTypeOK, SurfaceTypeOK
  <1>3. Attached => surface \in Descriptors /\ surface.generation \in 1..MaxSurface
    BY <1>2, ViewAssumption DEF Attached, Descriptors
  <1>4. lastEventTime \in 0..MaxTime
    BY <1>1, TouchTypes DEF TouchInv, TouchInvariant
  <1>5. now \in 0..MaxTime
    BY <1>1 DEF ViewTypeOK
  <1>6. now \in Int /\ now <= now
    BY <1>5
  <1> QED
    BY <1>1, <1>2, <1>3, <1>4, <1>5, <1>6
    DEF ViewTypeOK, LifecycleTypeOK, ViewSurfacesAgree, GenerationsAgree, NothingAhead, Bound,
        CallbackType

\* Whenever the uptime can be read, the pointers can be cancelled.
LEMMA CanCancelNow ==
    ASSUME ViewInv
    PROVE  CanCancel(now, <<>>)
  <1>1. /\ Len(activePointers) \in 0..MaxPointers
        /\ activePointers # <<>> => touchSurface # 0
    BY TouchTypes DEF ViewInv, TouchInv, TouchInvariant
  <1>2. lastEventTime \in 0..MaxTime /\ now \in 0..MaxTime /\ lastEventTime <= now
    BY ViewTypes
  <1>3. Len(activePointers) <= MaxEvents - Len(<<>>)
    BY <1>1, CapacityAssumption
  <1> QED
    BY <1>1, <1>2, <1>3 DEF CanCancel, CancelFits

\* Cancelling now does not put the touch input ahead of the clock.
LEMMA CancelTime ==
    ASSUME ViewInv, NEW ts \in 0..MaxTime, ts <= now, NEW events, CancelPointers(ts, events)
    PROVE  lastEventTime' <= now
  BY ViewTypes DEF CancelPointers

\* Without a surface there are no pointers.
LEMMA UnboundIsEmpty ==
    ASSUME ViewInv, ~Bound
    PROVE  ~Attached /\ touchSurface = 0 /\ activePointers = <<>>
  BY ViewTypes, TouchTypes DEF ViewInv, TouchInv, TouchInvariant

\* Without pointers there are no active identities.
LEMMA NoActiveIds ==
    ASSUME activePointers' = <<>>
    PROVE  ActiveIds' = {}
  BY DEF ActiveIds, Slots

\* The same pointers have the same identities.
LEMMA SameActiveIds ==
    ASSUME activePointers' = activePointers
    PROVE  ActiveIds' = ActiveIds
  BY DEF ActiveIds, Slots
-----------------------------------------------------------------------------
(* The parts of the callbacks.                                             *)

\* Nothing of surface and touch input changes.
LEMMA ShellUnchanged ==
    ASSUME ViewInv, UNCHANGED <<surfaceVars, touchVars>>
    PROVE  ShellOK
  <1>1. /\ SurfaceTypeOK /\ ViewSurfacesAgree /\ GenerationsAgree /\ lastEventTime <= now
        /\ UNCHANGED <<surface, lastGeneration, touchSurface, lastTouchSurface, lastEventTime>>
    BY DEF ViewInv, ViewInvariant, ViewTypeOK, NothingAhead, surfaceVars, touchVars, inputVars
  <1> QED
    BY <1>1 DEF ShellOK, SurfaceTypeOK, ViewSurfacesAgree, GenerationsAgree, Attached

\* Every pointer is cancelled, unless the uptime cannot be read.
LEMMA CancelKeeps ==
    ASSUME ViewInv, batch = "closed", CancelAtUptime, UNCHANGED surfaceVars
    PROVE  /\ ShellOK /\ batch' = "closed" /\ clockFailed' \in BOOLEAN
           /\ ~clockFailed' => activePointers' = <<>> /\ CancelTouchInput(now)
  <1>1. CASE clockFailed' = TRUE /\ UNCHANGED touchVars
    BY <1>1, ShellUnchanged DEF touchVars
  <1>2. CASE CancelTouchInput(now) /\ UNCHANGED clockFailed
    <2>1. now \in 0..MaxTime /\ now <= now /\ clockFailed \in BOOLEAN
      BY ViewTypes
    <2>2. TouchNext
      BY <1>2, <2>1 DEF TouchNext
    <2>3. lastEventTime' <= now /\ activePointers' = <<>>
      BY <1>2, <2>1, CancelTime DEF CancelTouchInput, CancelWithRetry, CancelPointers
    <2>4. UNCHANGED <<surface, lastGeneration, touchSurface, lastTouchSurface, batch>>
      BY <1>2 DEF CancelTouchInput, surfaceVars
    <2>5. SurfaceTypeOK /\ ViewSurfacesAgree /\ GenerationsAgree
      BY DEF ViewInv, ViewInvariant, ViewTypeOK
    <2> QED
      BY <1>2, <2>1, <2>2, <2>3, <2>4, <2>5
      DEF ShellOK, SurfaceTypeOK, ViewSurfacesAgree, GenerationsAgree, Attached
  <1> QED
    BY <1>1, <1>2, CanCancelNow DEF CancelAtUptime

\* Giving up the surface and cancelling the touches.
LEMMA DetachKeeps ==
    ASSUME ViewInv, batch = "closed", DetachHandler
    PROVE  /\ ShellOK /\ batch' = "closed" /\ clockFailed' \in BOOLEAN
           /\ ~clockFailed' => ~Attached' /\ touchSurface' = 0 /\ activePointers' = <<>>
  <1>1. clockFailed \in BOOLEAN
    BY ViewTypes
  <1>2. CASE ~Attached /\ UNCHANGED <<surfaceVars, touchVars, clockFailed>>
    <2>1. touchSurface = 0 /\ activePointers = <<>>
      BY <1>2, UnboundIsEmpty DEF Bound
    <2> QED
      BY <1>1, <1>2, <2>1, ShellUnchanged DEF surfaceVars, touchVars, inputVars, Attached
  <1>3. CASE clockFailed' = TRUE /\ UNCHANGED <<surfaceVars, touchVars>>
    BY <1>3, ShellUnchanged DEF touchVars
  <1>4. CASE /\ Attached /\ DetachSurface(surface.generation, now)
             /\ Detach(surface.native_id, surface.generation) /\ UNCHANGED clockFailed
    <2>1. surface.generation \in 1..MaxSurface /\ now \in 0..MaxTime /\ now <= now
      BY <1>4, ViewTypes
    <2>2. TouchNext
      BY <1>4, <2>1 DEF TouchNext
    <2>3. lastEventTime' <= now /\ activePointers' = <<>>
      BY <1>4, <2>1, CancelTime DEF DetachSurface, CancelWithRetry, CancelPointers
    <2>4. surface' = NoSurface /\ lastGeneration' = lastGeneration /\ touchSurface' = 0
          /\ lastTouchSurface' = lastTouchSurface /\ batch' = batch
      BY <1>4 DEF Detach, DetachSurface
    <2> QED
      BY <1>1, <1>4, <2>2, <2>3, <2>4, ViewTypes
      DEF ShellOK, SurfaceTypeOK, ViewSurfacesAgree, GenerationsAgree, Attached
  <1> QED
    BY <1>2, <1>3, <1>4, CanCancelNow, ViewTypes DEF DetachHandler

\* A generation that the surface hands out is always new to the touch input.
LEMMA AttachKeeps ==
    ASSUME ViewInv, NEW metrics \in Metrics, AttachHandler(metrics)
    PROVE  ShellOK /\ activePointers' = activePointers /\ batch' = batch
  <1>1. /\ lastGeneration \in 0..MaxGeneration /\ lastTouchSurface = lastGeneration
        /\ MaxSurface = MaxGeneration /\ MaxGeneration \in Nat /\ NativeIds = {HostSurfaceId}
    BY ViewTypes, ViewAssumption, MaxGenerationAssumption
  <1>2. touchSurface = 0 /\ activePointers = <<>>
    BY UnboundIsEmpty DEF Bound, AttachHandler
  <1>3. CASE lastGeneration = MaxGeneration
    <2>1. UNCHANGED <<surfaceVars, touchVars>>
      BY <1>1, <1>3 DEF AttachHandler
    <2> QED
      BY <2>1, ShellUnchanged DEF touchVars, inputVars
  <1>4. CASE lastGeneration # MaxGeneration
    <2>1. /\ lastGeneration < MaxGeneration /\ Attachable(lastGeneration + 1)
          /\ lastGeneration + 1 \in 1..MaxSurface
      BY <1>1, <1>2, <1>4 DEF Attachable
    <2>2. Attach(HostSurfaceId, metrics) /\ AttachSurface(lastGeneration + 1)
      BY <1>4, <2>1 DEF AttachHandler
    <2>3. TouchNext
      BY <2>1, <2>2 DEF TouchNext
    <2>4. /\ surface' = [native_id |-> HostSurfaceId, generation |-> lastGeneration + 1,
                         metrics |-> metrics]
          /\ lastGeneration' = lastGeneration + 1
          /\ touchSurface' = lastGeneration + 1 /\ lastTouchSurface' = lastGeneration + 1
          /\ UNCHANGED <<activePointers, lastEventTime, batch>>
      BY <2>2 DEF Attach, AttachSurface
    <2>5. surface' \in Descriptors /\ surface'.generation = lastGeneration + 1
      BY <1>1, <2>1, <2>4 DEF Descriptors
    <2>6. SurfaceTypeOK' /\ ViewSurfacesAgree' /\ GenerationsAgree'
      BY <1>1, <2>1, <2>4, <2>5, NoSurfaceAssumption
      DEF SurfaceTypeOK, ViewSurfacesAgree, GenerationsAgree, Attached
    <2>7. lastEventTime' <= now
      BY <2>4, ViewTypes
    <2> QED
      BY <2>3, <2>4, <2>6, <2>7 DEF ShellOK
  <1> QED
    BY <1>3, <1>4

\* A layout of another extent.
LEMMA ResizeKeeps ==
    ASSUME ViewInv, NEW metrics \in Metrics,
           Resize(HostSurfaceId, surface.generation, metrics), UNCHANGED touchVars
    PROVE  ShellOK
  <1>1. Attached /\ surface' = [surface EXCEPT !.metrics = metrics] /\ lastGeneration' = lastGeneration
    BY DEF Resize, IsCurrent
  <1>2. surface' \in Descriptors /\ surface'.generation = surface.generation
    BY <1>1, ViewTypes DEF Descriptors
  <1>3. UNCHANGED <<touchSurface, lastTouchSurface, lastEventTime>>
    BY DEF touchVars, inputVars
  <1> QED
    BY <1>1, <1>2, <1>3, ViewTypes, NoSurfaceAssumption
    DEF ShellOK, SurfaceTypeOK, ViewSurfacesAgree, GenerationsAgree, Attached
-----------------------------------------------------------------------------
(* The steps.                                                              *)

\* The clock goes on and is never behind the touches.
ClockOK ==
    /\ now \in Int /\ now' \in 0..MaxTime /\ now <= now'
    /\ lastTouch' \in 0..now' /\ callback'.ts <= now'

\* What is left to show of a step once the touch input, the surface and the
\* lifecycle are settled.
LEMMA Assemble ==
    ASSUME ViewInv, ShellOK, LifecycleTypeOK', ClockOK,
           callback' \in CallbackType, callback' # NoCallback => Bound',
           deallocated' \in BOOLEAN, clockFailed' \in BOOLEAN, touching' \subseteq PointerIds,
           ReleasedAtDealloc', QuietAtDealloc', PointersAreTouches'
    PROVE  ViewInv'
  <1>1. TouchInv'
    BY TouchStepInv DEF ViewInv, ShellOK
  <1>2. TouchTypeOK'
    BY <1>1 DEF TouchInv, TouchInvariant
  <1>3. NothingAhead'
    <2>1. lastEventTime' \in 0..MaxTime /\ lastEventTime' <= now
      BY <1>2 DEF ShellOK, TouchTypeOK
    <2>2. lastEventTime' \in Int /\ now \in Int /\ now' \in Int /\ now <= now' /\ callback'.ts <= now'
      BY <2>1 DEF ClockOK
    <2>3. lastEventTime' <= now'
      BY <2>1, <2>2
    <2> QED
      BY <2>2, <2>3 DEF NothingAhead
  <1>4. ViewTypeOK' /\ ViewSurfacesAgree' /\ GenerationsAgree'
    BY <1>2 DEF ShellOK, ViewTypeOK, ClockOK, CallbackType
  <1> QED
    BY <1>1, <1>3, <1>4 DEF ViewInv, ViewInvariant

\* Where the clock stands still, no event gets ahead of it.
LEMMA ClockStands ==
    ASSUME ViewInv, UNCHANGED <<now, lastTouch>>, callback'.ts <= now
    PROVE  ClockOK
  BY ViewTypes DEF ClockOK

\* A callback that does not begin to process touches.
LEMMA IdleStep ==
    ASSUME ViewInv, Idle, ShellOK, LifecycleTypeOK', ClockOK, UNCHANGED callback,
           batch' = "closed", deallocated' \in BOOLEAN, clockFailed' \in BOOLEAN,
           touching' \subseteq PointerIds, ReleasedAtDealloc',
           ~clockFailed' => ActiveIds' \subseteq touching'
    PROVE  ViewInv'
  <1>1. callback' = NoCallback /\ callback'.rest = {} /\ callback' \in CallbackType
    BY ViewTypes DEF Idle, NoCallback
  <1>2. QuietAtDealloc' /\ PointersAreTouches'
    BY <1>1 DEF QuietAtDealloc, PointersAreTouches
  <1> QED
    BY <1>1, <1>2, Assemble

\* A step that touches neither the view controller's end nor its surface
\* does not undo the release.
LEMMA StaysReleased ==
    ASSUME ViewInv, Idle, UNCHANGED deallocated
    PROVE  ReleasedAtDealloc'
  BY DEF Idle, ReleasedAtDealloc

\* Between callbacks every pointer is a touch.
LEMMA IdlePointers ==
    ASSUME ViewInv, Idle
    PROVE  ~clockFailed => ActiveIds \subseteq touching
  BY DEF ViewInv, PointersAreTouches, Idle, NoCallback

\* A layout of the view.
LEMMA LayoutStep ==
    ASSUME ViewInv, Layout
    PROVE  ViewInv' /\ ShellOK
  <1>1. /\ Idle
        /\ UNCHANGED <<lifecycle, callback, deallocated, now, clockFailed, touching, lastTouch>>
    BY DEF Layout
  <1>2. ShellOK /\ activePointers' = activePointers /\ batch' = batch
    <2>1. ASSUME NEW metrics \in Metrics, AttachHandler(metrics)
          PROVE  ShellOK /\ activePointers' = activePointers /\ batch' = batch
      BY <2>1, AttachKeeps
    <2>2. ASSUME NEW metrics \in Metrics, Resize(HostSurfaceId, surface.generation, metrics),
                 UNCHANGED touchVars
          PROVE  ShellOK /\ activePointers' = activePointers /\ batch' = batch
      BY <2>2, ResizeKeeps DEF touchVars, inputVars
    <2> QED
      BY <2>1, <2>2 DEF Layout
  <1>3. ClockOK /\ ReleasedAtDealloc'
    BY <1>1, ClockStands, StaysReleased, ViewTypes
  <1>4. ~clockFailed' => ActiveIds' \subseteq touching'
    BY <1>1, <1>2, IdlePointers, SameActiveIds
  <1>5. LifecycleTypeOK' /\ batch' = "closed"
    BY <1>1, <1>2, ViewTypes DEF LifecycleTypeOK, Idle
  <1> QED
    BY <1>1, <1>2, <1>3, <1>4, <1>5, IdleStep, ViewTypes

\* The view disappears or goes.
LEMMA ReleaseStep ==
    ASSUME ViewInv, Disappears \/ Dealloc
    PROVE  ViewInv' /\ ShellOK
  <1>1. /\ Idle /\ DetachHandler /\ deallocated' \in BOOLEAN
        /\ UNCHANGED <<lifecycle, callback, now, touching, lastTouch>>
    BY ViewTypes DEF Disappears, Dealloc
  <1>2. /\ ShellOK /\ batch' = "closed" /\ clockFailed' \in BOOLEAN
        /\ ~clockFailed' => ~Attached' /\ touchSurface' = 0 /\ activePointers' = <<>>
    BY <1>1, DetachKeeps DEF Idle
  <1>3. ReleasedAtDealloc' /\ (~clockFailed' => ActiveIds' \subseteq touching')
    BY <1>2, NoActiveIds DEF ReleasedAtDealloc
  <1>4. ClockOK /\ LifecycleTypeOK'
    BY <1>1, ClockStands, ViewTypes DEF LifecycleTypeOK
  <1> QED
    BY <1>1, <1>2, <1>3, <1>4, IdleStep, ViewTypes

\* Touches that are not processed: there is no surface, and so no pointer,
\* or they are refused, and every pointer is cancelled.
LEMMA UnprocessedStep ==
    ASSUME ViewInv, NEW phase \in Phases, NEW S \in SUBSET PointerIds,
           TouchesIgnored(phase, S) \/ TouchesUnusable(phase, S)
    PROVE  ViewInv' /\ ShellOK
  <1>1. /\ Idle /\ Follow(phase, S)
        /\ UNCHANGED <<lifecycle, surfaceVars, callback, deallocated, now, lastTouch>>
    BY DEF TouchesIgnored, TouchesUnusable
  <1>2. touching' \subseteq PointerIds
    BY <1>1, ViewTypes DEF Follow, Phases, Ending
  <1>3. /\ ShellOK /\ batch' = "closed" /\ clockFailed' \in BOOLEAN
        /\ ~clockFailed' => activePointers' = <<>>
    <2>1. CASE TouchesIgnored(phase, S)
      <3>1. activePointers = <<>> /\ UNCHANGED <<surfaceVars, touchVars, clockFailed>>
        BY <2>1, UnboundIsEmpty DEF TouchesIgnored
      <3> QED
        BY <1>1, <3>1, ShellUnchanged, ViewTypes DEF Idle, touchVars, inputVars
    <2>2. CASE TouchesUnusable(phase, S)
      BY <1>1, <2>2, CancelKeeps DEF TouchesUnusable, Idle
    <2> QED
      BY <2>1, <2>2
  <1>4. ~clockFailed' => ActiveIds' \subseteq touching'
    BY <1>3, NoActiveIds
  <1>5. ClockOK /\ LifecycleTypeOK' /\ ReleasedAtDealloc'
    BY <1>1, ClockStands, StaysReleased, ViewTypes DEF LifecycleTypeOK
  <1> QED
    BY <1>1, <1>2, <1>3, <1>4, <1>5, IdleStep, ViewTypes

\* Touches that will be processed: those that end are no touches any more,
\* their pointers are active until they are processed.
LEMMA ArriveStep ==
    ASSUME ViewInv, NEW phase \in Phases, NEW S \in SUBSET PointerIds, NEW ts \in 0..MaxTime,
           TouchesArrive(phase, S, ts)
    PROVE  ViewInv' /\ ShellOK
  <1>1. /\ Idle /\ Bound /\ S \in Reported(phase) /\ Follow(phase, S)
        /\ ts \in lastTouch..now /\ lastTouch' = ts
        /\ callback' = [phase |-> phase, ts |-> ts, rest |-> S]
        /\ UNCHANGED <<lifecycle, surfaceVars, touchVars, deallocated, now, clockFailed>>
    BY DEF TouchesArrive
  <1>2. touching' \subseteq PointerIds
    BY <1>1, ViewTypes DEF Follow, Phases, Ending
  <1>3. ts \in 0..now /\ ts <= now
    BY <1>1, ViewTypes
  <1>4. callback' \in CallbackType /\ callback'.ts <= now
    BY <1>1, <1>3 DEF CallbackType
  <1>5. ClockOK
    BY <1>1, <1>3, <1>4, ViewTypes DEF ClockOK
  <1>6. PointersAreTouches'
    <2>1. ~clockFailed' => ActiveIds' \subseteq touching
      BY <1>1, IdlePointers, SameActiveIds DEF touchVars, inputVars
    <2>2. callback'.phase = phase /\ callback'.rest = S
      BY <1>1
    <2>3. CASE phase \in Ending
      <3>1. touching' = touching \ S
        BY <1>1, <2>3 DEF Follow, Ending
      <3> QED
        BY <2>1, <2>2, <2>3, <3>1 DEF PointersAreTouches
    <2>4. CASE phase = "Down"
      <3>1. touching' = touching \cup S
        BY <1>1, <2>4 DEF Follow, Ending
      <3> QED
        BY <2>1, <2>2, <3>1 DEF PointersAreTouches
    <2>5. CASE phase = "Move"
      <3>1. touching' = touching /\ S \subseteq touching
        BY <1>1, <2>5 DEF Follow, Ending, Reported
      <3> QED
        BY <2>1, <2>2, <3>1 DEF PointersAreTouches
    <2> QED
      BY <2>3, <2>4, <2>5 DEF Phases, Ending
  <1>7. Bound' /\ QuietAtDealloc' /\ ReleasedAtDealloc'
    BY <1>1 DEF Bound, Attached, surfaceVars, touchVars, inputVars, Idle, QuietAtDealloc,
                ReleasedAtDealloc
  <1>8. ShellOK
    BY <1>1, ShellUnchanged
  <1> QED
    BY <1>1, <1>2, <1>4, <1>5, <1>6, <1>7, <1>8, Assemble, ViewTypes DEF LifecycleTypeOK

\* The identities of the pointers after an accepted event.
LEMMA ProcessedIds ==
    ASSUME TouchInv, NEW e \in PointerEvents, Process(e)
    PROVE  /\ ActiveIds' \subseteq ActiveIds \cup {e.id}
           /\ e.phase \in Ending => e.id \notin ActiveIds'
  <1> DEFINE A == activePointers'
  <1>1. /\ A = PointersAfter(e) /\ Accepts(e) /\ TouchTypeOK /\ OnePerPointer
        /\ activePointers \in Seq(PointerType)
    BY TouchTypes DEF Process, TouchInv, TouchInvariant
  <1>2. \A i \in 1..Len(A) : CameFrom(A[i], e)
    BY <1>1, ProcessedPointers
  <1>3. \A k \in Slots : activePointers[k] \in PointerType /\ activePointers[k].id \in ActiveIds
    BY <1>1, ElementOfSeq DEF Slots, ActiveIds
  <1>4. \A k \in Slots : Moved(activePointers[k], e).id = activePointers[k].id
    BY <1>3 DEF Moved, PointerType
  <1>5. \A i \in 1..Len(A) :
           A[i].id \in ActiveIds \cup {e.id} /\ (e.phase \in Ending => A[i].id # e.id)
    BY <1>2, <1>3, <1>4 DEF CameFrom, Ending
  <1>6. \A id \in ActiveIds' : \E i \in 1..Len(A) : id = A[i].id
    BY DEF ActiveIds, Slots
  <1> HIDE DEF A
  <1>7. \A id \in ActiveIds' : id \in ActiveIds \cup {e.id} /\ (e.phase \in Ending => id # e.id)
    BY <1>5, <1>6
  <1> QED
    BY <1>7

\* One touch is processed: its pointer is a touch, or ends.
LEMMA TouchStep ==
    ASSUME ViewInv, NEW e \in PointerEvents, Touch(e)
    PROVE  ViewInv' /\ ShellOK
  <1>1. /\ Process(e) /\ e.id \in callback.rest /\ e.phase = callback.phase /\ e.ts = callback.ts
        /\ callback' = [callback EXCEPT !.rest = @ \ {e.id}]
        /\ UNCHANGED <<lifecycle, surfaceVars, deallocated, now, clockFailed, touching, lastTouch>>
    BY DEF Touch, NextTouches
  <1>2. /\ Accepts(e) /\ lastEventTime' = e.ts /\ UNCHANGED <<touchSurface, lastTouchSurface>>
    BY <1>1 DEF Process
  <1>3. /\ callback' \in CallbackType /\ callback'.ts = callback.ts
        /\ callback'.phase = callback.phase /\ callback'.rest = callback.rest \ {e.id}
        /\ callback' # NoCallback => Bound
    <2>1. Bound
      BY <1>2, ViewTypes DEF Accepts
    <2> QED
      BY <1>1, <2>1, ViewTypes DEF CallbackType
  <1>4. ShellOK
    <2>1. TouchNext
      BY <1>1 DEF TouchNext
    <2>2. lastEventTime' <= now
      BY <1>1, <1>2, ViewTypes
    <2> QED
      BY <1>1, <1>2, <2>1, <2>2
      DEF ShellOK, SurfaceTypeOK, ViewSurfacesAgree, GenerationsAgree, Attached, surfaceVars,
          ViewInv, ViewInvariant, ViewTypeOK
  <1>5. ClockOK
    BY <1>1, <1>3, ClockStands, ViewTypes
  <1>6. callback'.phase \notin Ending => callback'.rest \subseteq touching' /\ e.id \in touching
    BY <1>1, <1>3 DEF ViewInv, PointersAreTouches
  <1>7. ~clockFailed' => ActiveIds' \subseteq touching' \cup callback'.rest
    <2> SUFFICES ASSUME ~clockFailed, NEW id \in ActiveIds'
                 PROVE  id \in touching \cup callback'.rest
      BY <1>1
    <2>1. CASE id = e.id
      BY <1>1, <1>3, <1>6, <2>1, ProcessedIds DEF ViewInv
    <2>2. CASE id # e.id
      <3>1. id \in ActiveIds
        BY <1>1, <2>2, ProcessedIds DEF ViewInv
      <3> QED
        BY <1>3, <2>2, <3>1 DEF ViewInv, PointersAreTouches
    <2> QED
      BY <2>1, <2>2
  <1>8. PointersAreTouches'
    BY <1>6, <1>7 DEF PointersAreTouches
  <1>9. ~deallocated
    BY <1>1 DEF ViewInv, QuietAtDealloc, NoCallback
  <1>10. Bound => Bound'
    BY <1>1, <1>2 DEF Bound, Attached, surfaceVars
  <1>11. LifecycleTypeOK'
    BY <1>1, ViewTypes DEF LifecycleTypeOK
  <1> QED
    BY <1>1, <1>3, <1>4, <1>5, <1>8, <1>9, <1>10, <1>11, Assemble, ViewTypes
    DEF ReleasedAtDealloc, QuietAtDealloc

\* The callback is over: everything was processed, or every pointer was
\* cancelled.
LEMMA CallbackEndsStep ==
    ASSUME ViewInv, TouchesRejected \/ TouchesEnd
    PROVE  ViewInv' /\ ShellOK
  <1>1. /\ callback' = NoCallback
        /\ UNCHANGED <<lifecycle, surfaceVars, deallocated, now, clockFailed, touching, lastTouch>>
        /\ [TouchNext]_touchVars /\ UNCHANGED <<touchSurface, lastTouchSurface>>
    BY DEF TouchesRejected, TouchesEnd, TouchNext, BatchRejected, BatchEnds, inputVars
  <1>2. ~deallocated
    BY DEF ViewInv, QuietAtDealloc, TouchesRejected, TouchesEnd, NextTouches, BatchEnds, NoCallback
  <1>3. lastEventTime' <= now /\ (~clockFailed => ActiveIds' \subseteq touching)
    <2>1. CASE TouchesRejected
      <3>1. CancelPointers(lastEventTime, <<>>)
        BY <2>1, RejectedStep DEF TouchesRejected, ViewInv
      <3>2. activePointers' = <<>> /\ lastEventTime' = lastEventTime
        BY <3>1 DEF CancelPointers
      <3> QED
        BY <3>2, NoActiveIds, ViewTypes
    <2>2. CASE TouchesEnd
      <3>1. callback.rest = {} /\ lastEventTime' = lastEventTime /\ activePointers' = activePointers
        BY <2>2 DEF TouchesEnd, BatchEnds, inputVars
      <3> QED
        BY <3>1, SameActiveIds, ViewTypes DEF ViewInv, PointersAreTouches
    <2> QED
      BY <2>1, <2>2
  <1>4. /\ callback' \in CallbackType /\ callback'.ts = 0 /\ callback'.rest = {}
    BY <1>1, BoundAssumption DEF NoCallback, CallbackType, Phases
  <1>5. ClockOK
    <2>1. now \in 0..MaxTime
      BY ViewTypes
    <2>2. callback'.ts <= now
      BY <1>4, <2>1
    <2> QED
      BY <1>1, <2>2, ClockStands
  <1>6. PointersAreTouches'
    BY <1>1, <1>3, <1>4 DEF PointersAreTouches
  <1>7. ShellOK
    BY <1>1, <1>3
    DEF ShellOK, SurfaceTypeOK, ViewSurfacesAgree, GenerationsAgree, Attached, surfaceVars,
        ViewInv, ViewInvariant, ViewTypeOK
  <1>8. LifecycleTypeOK'
    BY <1>1, ViewTypes DEF LifecycleTypeOK
  <1> QED
    BY <1>1, <1>2, <1>4, <1>5, <1>6, <1>7, <1>8, Assemble, ViewTypes
    DEF ReleasedAtDealloc, QuietAtDealloc

\* The scene delegate moves the lifecycle and may cancel the pointers.
LEMMA SceneStep ==
    ASSUME ViewInv, SceneChanges \/ ApplicationWillTerminate
    PROVE  ViewInv' /\ ShellOK
  <1>1. /\ Idle /\ UNCHANGED <<surfaceVars, callback, deallocated, now, touching, lastTouch>>
        /\ lifecycle \in LifecycleType
    BY ViewTypes DEF SceneChanges, ApplicationWillTerminate
  <1>2. PICK r : Applies(r) /\ Reached(r, lifecycle)
    <2>1. \A event \in SceneEvents : Reached(ApplySceneEvent(lifecycle, event), lifecycle)
      BY <1>1, EventMoves
    <2>2. Reached(Transition(lifecycle, "Terminating"), lifecycle)
      BY <1>1, TransitionMoves DEF Reached, LifecycleStates
    <2> QED
      BY <2>1, <2>2 DEF SceneChanges, ApplicationWillTerminate
  <1>3. LifecycleTypeOK'
    BY <1>2 DEF Applies, Reached, LifecycleTypeOK
  <1>4. /\ ShellOK /\ batch' = "closed" /\ clockFailed' \in BOOLEAN
        /\ ~clockFailed' => ActiveIds' \subseteq touching'
    <2>1. CASE UNCHANGED <<touchVars, clockFailed>>
      BY <1>1, <2>1, ShellUnchanged, SameActiveIds, IdlePointers, ViewTypes
      DEF Idle, touchVars, inputVars
    <2>2. CASE CancelAtUptime
      BY <1>1, <2>2, CancelKeeps, NoActiveIds DEF Idle
    <2> QED
      BY <1>2, <2>1, <2>2 DEF Applies, CancelActiveTouches
  <1>5. ClockOK /\ ReleasedAtDealloc'
    BY <1>1, ClockStands, StaysReleased, ViewTypes
  <1> QED
    BY <1>1, <1>3, <1>4, <1>5, IdleStep, ViewTypes

\* Frames and the clock.
LEMMA EnvironmentStep ==
    ASSUME ViewInv, Frame \/ ClockAdvances
    PROVE  ViewInv' /\ ShellOK
  <1>1. /\ Idle
        /\ UNCHANGED <<lifecycle, surfaceVars, callback, deallocated, clockFailed, touching, lastTouch>>
        /\ UNCHANGED <<touchSurface, lastTouchSurface, lastEventTime, batch>>
        /\ [TouchNext]_touchVars
    BY DEF Frame, ClockAdvances, ProcessInputFrame, TouchNext, touchVars, inputVars
  <1>2. ActiveIds' = ActiveIds
    <2>1. CASE Frame
      <3>1. Slots' = Slots /\ \A i \in Slots : activePointers'[i].id = activePointers[i].id
        BY <2>1, BeginFrameKeepsPointers
        DEF Frame, ProcessInputFrame, ViewInv, TouchInv, TouchInvariant
      <3> QED
        BY <3>1 DEF ActiveIds
    <2>2. CASE ClockAdvances
      BY <2>2, SameActiveIds DEF ClockAdvances, touchVars, inputVars
    <2> QED
      BY <2>1, <2>2
  <1>3. ClockOK
    <2>1. now \in 0..MaxTime /\ now \in Int /\ lastTouch \in 0..now /\ callback.ts = 0
      BY <1>1, ViewTypes DEF Idle, NoCallback
    <2>2. CASE UNCHANGED now
      BY <1>1, <2>1, <2>2 DEF ClockOK
    <2>3. CASE now < MaxTime /\ now' = now + 1
      BY <1>1, <2>1, <2>3, BoundAssumption DEF ClockOK
    <2> QED
      BY <2>2, <2>3 DEF Frame, ClockAdvances
  <1>4. ShellOK
    <2>1. /\ SurfaceTypeOK /\ ViewSurfacesAgree /\ GenerationsAgree /\ lastEventTime <= now
          /\ UNCHANGED <<surface, lastGeneration>>
      BY <1>1 DEF ViewInv, ViewInvariant, ViewTypeOK, NothingAhead, surfaceVars
    <2> QED
      BY <1>1, <2>1 DEF ShellOK, SurfaceTypeOK, ViewSurfacesAgree, GenerationsAgree, Attached
  <1>5. LifecycleTypeOK' /\ batch' = "closed" /\ (~clockFailed' => ActiveIds' \subseteq touching')
    BY <1>1, <1>2, IdlePointers, ViewTypes DEF LifecycleTypeOK, Idle
  <1>6. ReleasedAtDealloc'
    BY <1>1, StaysReleased
  <1> QED
    BY <1>1, <1>3, <1>4, <1>5, <1>6, IdleStep, ViewTypes

\* A step that changes nothing.
LEMMA StutterStep ==
    ASSUME ViewInv, UNCHANGED viewVars
    PROVE  ViewInv' /\ ShellOK
  <1>1. UNCHANGED <<lifecycle, surfaceVars, touchVars, callback, deallocated, now, clockFailed,
                    touching, lastTouch>>
    BY DEF viewVars
  <1>2. ShellOK
    BY <1>1, ShellUnchanged
  <1>3. ClockOK
    BY <1>1, ClockStands, ViewTypes
  <1>4. UNCHANGED <<surface, activePointers, touchSurface, batch>>
    BY <1>1 DEF surfaceVars, touchVars, inputVars
  <1>5. PointersAreTouches' /\ QuietAtDealloc' /\ ReleasedAtDealloc'
    BY <1>1, <1>4, SameActiveIds
    DEF ViewInv, ViewInvariant, PointersAreTouches, QuietAtDealloc, ReleasedAtDealloc, Attached
  <1>6. LifecycleTypeOK' /\ (callback' # NoCallback => Bound')
    BY <1>1, <1>4, ViewTypes DEF LifecycleTypeOK, Bound, Attached, ViewInv, ViewInvariant, ViewTypeOK
  <1> QED
    BY <1>1, <1>2, <1>3, <1>5, <1>6, Assemble, ViewTypes

\* ViewInv is inductive, and every step leaves the parts agreeing.
LEMMA ViewStepInv == ViewInv /\ [ViewNext]_viewVars => ViewInv' /\ ShellOK
  <1> SUFFICES ASSUME ViewInv, [ViewNext]_viewVars
               PROVE  ViewInv' /\ ShellOK
    OBVIOUS
  <1>1. ASSUME NEW phase \in Phases, NEW S \in SUBSET PointerIds,
               \/ TouchesIgnored(phase, S) \/ TouchesUnusable(phase, S)
               \/ \E ts \in 0..MaxTime : TouchesArrive(phase, S, ts)
        PROVE  ViewInv' /\ ShellOK
    BY <1>1, UnprocessedStep, ArriveStep
  <1> QED
    BY <1>1, LayoutStep, ReleaseStep, TouchStep, CallbackEndsStep, SceneStep, EnvironmentStep,
       StutterStep DEF ViewNext

\* Before the view appears there is nothing to disagree about.
LEMMA ViewInitInv == ViewInit => ViewInv
  <1> SUFFICES ASSUME ViewInit PROVE ViewInv
    OBVIOUS
  <1>1. TouchInv
    BY TouchInitInv DEF ViewInit
  <1>2. LifecycleTypeOK /\ SurfaceTypeOK
    BY MaxRevisionAssumption, MaxGenerationAssumption
    DEF ViewInit, LifecycleInit, SurfaceInit, LifecycleTypeOK, LifecycleType, LifecycleStates,
        SurfaceTypeOK, Attached
  <1>3. ViewTypeOK
    <2>1. /\ callback = NoCallback /\ deallocated = FALSE /\ clockFailed = FALSE
          /\ now = 0 /\ touching = {} /\ lastTouch = 0
      BY DEF ViewInit
    <2>2. 0 \in 0..MaxTime /\ 0 \in 0..0
      BY BoundAssumption
    <2>3. NoCallback \in [phase : Phases, ts : 0..MaxTime, rest : SUBSET PointerIds]
      BY <2>2 DEF NoCallback, Phases
    <2> QED
      BY <1>1, <1>2, <2>1, <2>2, <2>3 DEF ViewTypeOK, TouchInv, TouchInvariant
  <1>4. ViewSurfacesAgree /\ ReleasedAtDealloc /\ GenerationsAgree
    BY DEF ViewInit, SurfaceInit, TouchInit, ViewSurfacesAgree, ReleasedAtDealloc, GenerationsAgree,
           Attached
  <1>5. NothingAhead /\ QuietAtDealloc /\ PointersAreTouches
    BY DEF ViewInit, TouchInit, NothingAhead, QuietAtDealloc, PointersAreTouches, NoCallback,
           ActiveIds, Slots
  <1> QED
    BY <1>1, <1>3, <1>4, <1>5 DEF ViewInv, ViewInvariant

\* ViewInv holds in every reachable state.
LEMMA ViewCorrect == ViewSpec => []ViewInv
  BY ViewInitInv, ViewStepInv, PTL DEF ViewSpec
-----------------------------------------------------------------------------
(* The theorems.                                                           *)

\* Types, the agreement of surface and touch input, and their release with
\* the view controller.
THEOREM ViewInvariantHolds == ViewSpec => []ViewInvariant
  <1>1. ViewInv => ViewInvariant
    BY DEF ViewInv
  <1> QED
    BY <1>1, ViewCorrect, PTL

\* Between callbacks the engine holds no pointer that UIKit has ended.
THEOREM PointersDieWithTheirTouch == ViewSpec => []NoPointerOutlivesItsTouch
  <1>1. ViewInv => NoPointerOutlivesItsTouch
    BY IdlePointers DEF NoPointerOutlivesItsTouch
  <1> QED
    BY <1>1, ViewCorrect, PTL

\* The view controller uses the touch input as TouchSpec says.
THEOREM ViewImplementsTouchSpec == ViewSpec => TouchSpec
  <1>1. ViewInit => TouchInit
    BY DEF ViewInit
  <1>2. ViewInv /\ [ViewNext]_viewVars => [TouchNext]_touchVars
    BY ViewStepInv DEF ShellOK
  <1> QED
    BY <1>1, <1>2, ViewCorrect, PTL DEF ViewSpec, TouchSpec

\* So what the touch input promises holds under the view controller.
THEOREM ViewKeepsTouchPromises ==
    ViewSpec => [](TouchInvariant /\ CleanupSucceeds /\ FrameExplainsPointers) /\ EndsAreReported
  BY ViewImplementsTouchSpec, TouchInvariantHolds, CleanupAlwaysSucceeds, FramesExplainPointers,
     EndsAreAlwaysReported, PTL

\* A scene that leaves ForegroundActive has no touch left, neither as an active
\* pointer nor for a game that were shown the frame as it then is.
THEOREM LeavingActiveAlwaysCancels == ViewSpec => LeavingActiveCancels
  <1>1. ViewInv /\ [ViewNext]_viewVars
        => [(lifecycle.state = "ForegroundActive" /\ lifecycle'.state # "ForegroundActive"
               /\ lifecycle'.revision < MaxRevision /\ ~clockFailed') =>
               /\ activePointers' = <<>>
               /\ \A id \in ActiveIds : Replayed(id)' = Unknown]_viewVars
    <2> SUFFICES ASSUME ViewInv, ViewNext, lifecycle.state = "ForegroundActive",
                        lifecycle'.state # "ForegroundActive",
                        lifecycle'.revision < MaxRevision, ~clockFailed'
                 PROVE  /\ activePointers' = <<>>
                        /\ \A id \in ActiveIds : Replayed(id)' = Unknown
      OBVIOUS
    <2>1. SceneChanges \/ ApplicationWillTerminate
      BY DEF ViewNext, Layout, Disappears, Dealloc, TouchesIgnored, TouchesUnusable, TouchesArrive,
             Touch, TouchesRejected, TouchesEnd, Frame, ClockAdvances
    <2>2. lifecycle \in LifecycleType /\ Idle /\ UNCHANGED surfaceVars
      BY <2>1, ViewTypes DEF SceneChanges, ApplicationWillTerminate
    <2>3. PICK r : Applies(r) /\ (r.ok \/ r.lifecycle.revision = MaxRevision
                                       \/ r.lifecycle = lifecycle)
      <3>1. \A event \in SceneEvents : LET r == ApplySceneEvent(lifecycle, event) IN
               r.ok \/ r.lifecycle.revision = MaxRevision
        BY <2>2, SceneEventsAreGranted DEF Granted
      <3>2. LET r == Transition(lifecycle, "Terminating") IN r.ok \/ r.lifecycle = lifecycle
        BY DEF Transition
      <3> QED
        BY <2>1, <3>1, <3>2 DEF SceneChanges, ApplicationWillTerminate
    <2>4. r.ok /\ lifecycle' = r.lifecycle
      <3>1. lifecycle' = r.lifecycle
        BY <2>3 DEF Applies
      <3>2. r.lifecycle.revision # MaxRevision
        BY <3>1, MaxRevisionAssumption
      <3> QED
        BY <2>3, <3>1, <3>2
    <2>5. CancelActiveTouches
      BY <2>3, <2>4 DEF Applies
    <2>6. CASE ~Bound
      <3>1. activePointers = <<>> /\ activePointers' = activePointers
        BY <2>5, <2>6, UnboundIsEmpty DEF CancelActiveTouches, touchVars, inputVars
      <3> QED
        BY <3>1 DEF ActiveIds, Slots
    <2>7. CASE Bound
      <3>1. CancelTouchInput(now)
        BY <2>2, <2>5, <2>7, CancelKeeps DEF CancelActiveTouches, Idle
      <3>2. PICK events \in {frameEvents, <<>>} : CancelPointers(now, events)
        BY <3>1 DEF CancelTouchInput, CancelWithRetry
      <3>3. events \in Seq(PointerEvents) /\ TouchTypeOK /\ SurfaceIsNewest /\ now \in 0..MaxTime
        BY ViewTypes, TouchTypes, EmptySeq DEF ViewInv, TouchInv, TouchInvariant
      <3>4. \A id \in ActiveIds : Replayed(id)' = Unknown
        BY <3>2, <3>3, CancelEnds
      <3> QED
        BY <3>2, <3>4 DEF CancelPointers
    <2> QED
      BY <2>6, <2>7
  <1> QED
    BY <1>1, ViewCorrect, PTL DEF ViewSpec, LeavingActiveCancels
=============================================================================
