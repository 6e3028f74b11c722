-------------------------- MODULE AndroidHostProofs --------------------------
(***************************************************************************)
(* For every capacity, extent, clock and order of app commands and motion  *)
(* events the Android shell makes: nothing is refused, the surface and the *)
(* touch input agree, and the shell uses the touch input as TouchSpec says *)
(* it is used, so that what is proved of the touch input holds here.       *)
(*                                                                         *)
(* NothingRefused is not inductive: that the touch input accepts the next  *)
(* surface needs that it has seen the same generations, that it accepts a  *)
(* cancellation needs that no event is ahead of the clock, and that the    *)
(* lifecycle accepts an event needs that it terminates only with the main  *)
(* loop.                                                                   *)
(***************************************************************************)
EXTENDS AndroidHost, HostPartsProofs

\* Surface and touch input have seen the same generations.
GenerationsAgree == lastTouchSurface = lastGeneration

\* No event that was accepted is ahead of the clock.
NoEventAhead == lastEventTime <= now

TerminatesWithMain == lifecycle.state = "Terminating" => main # "polling"

HostInv ==
    /\ HostInvariant /\ NothingRefused /\ TouchInv
    /\ GenerationsAgree /\ NoEventAhead /\ TerminatesWithMain

\* What a handler leaves of surface and touch input.
ShellOK ==
    /\ [TouchNext]_touchVars
    /\ SurfaceTypeOK' /\ SurfacesAgree' /\ GenerationsAgree'
    /\ lastEventTime' <= now
-----------------------------------------------------------------------------
\* The typing facts the steps need.
LEMMA HostTypes ==
    ASSUME HostInv
    PROVE  /\ lifecycle \in LifecycleType
           /\ lastGeneration \in 0..MaxGeneration /\ surface \in Descriptors \cup {NoSurface}
           /\ Attached => /\ surface \in Descriptors /\ surface.generation \in 1..MaxSurface
                          /\ surface.generation = lastGeneration
           /\ touchSurface = IF Attached THEN surface.generation ELSE 0
           /\ lastTouchSurface = lastGeneration
           /\ lastEventTime \in 0..MaxTime /\ lastEventTime <= now /\ now \in 0..MaxTime
           /\ failed \in Reasons \ {"refused"} /\ nextSurfaceId \in 1..(MaxNativeId + 1)
           /\ main \in {"polling", "destroyRequested", "ended"} /\ lastMotion \in 0..now
           /\ now \in Int /\ now <= now /\ nextSurfaceId \in Int /\ MaxNativeId \in Int
  <1>1. HostTypeOK /\ SurfacesAgree /\ TouchInv /\ GenerationsAgree /\ NoEventAhead /\ NothingRefused
    BY DEF HostInv, HostInvariant
  <1>2. /\ lastGeneration \in 0..MaxGeneration /\ surface \in Descriptors \cup {NoSurface}
        /\ Attached => surface.generation = lastGeneration
    BY <1>1 DEF HostTypeOK, SurfaceTypeOK
  <1>3. Attached => surface \in Descriptors /\ surface.generation \in 1..MaxSurface
    BY <1>2, HostAssumption DEF Attached, Descriptors
  <1>4. lastEventTime \in 0..MaxTime
    BY <1>1, TouchTypes DEF TouchInv, TouchInvariant
  <1>5. now \in 0..MaxTime /\ nextSurfaceId \in 1..(MaxNativeId + 1)
    BY <1>1 DEF HostTypeOK
  <1>6. now \in Int /\ now <= now /\ nextSurfaceId \in Int /\ MaxNativeId \in Int
    BY <1>5, HostAssumption
  <1> QED
    BY <1>1, <1>2, <1>3, <1>4, <1>5, <1>6
    DEF HostTypeOK, LifecycleTypeOK, SurfacesAgree, GenerationsAgree, NoEventAhead, NothingRefused

\* Whenever the clock can be read, the pointers can be cancelled.
LEMMA CanCancelNow ==
    ASSUME HostInv
    PROVE  CanCancel(now, <<>>)
  <1>1. /\ Len(activePointers) \in 0..MaxPointers
        /\ activePointers # <<>> => touchSurface # 0
    BY TouchTypes DEF HostInv, TouchInv, TouchInvariant
  <1>2. lastEventTime \in 0..MaxTime /\ now \in 0..MaxTime /\ lastEventTime <= now
    BY HostTypes
  <1>3. Len(activePointers) <= MaxEvents - Len(<<>>)
    BY <1>1, CapacityAssumption
  <1> QED
    BY <1>1, <1>2, <1>3 DEF CanCancel, CancelFits

\* Cancelling now does not put the touch input ahead of the clock.
LEMMA CancelTime ==
    ASSUME HostInv, NEW ts \in 0..MaxTime, ts <= now, NEW events, CancelPointers(ts, events)
    PROVE  lastEventTime' <= now
  BY HostTypes DEF CancelPointers
-----------------------------------------------------------------------------
(* The handlers.                                                           *)

\* Nothing of surface and touch input changes.
LEMMA ShellUnchanged ==
    ASSUME HostInv, UNCHANGED <<surfaceVars, touchVars>>
    PROVE  ShellOK
  <1>1. /\ SurfaceTypeOK /\ SurfacesAgree /\ GenerationsAgree /\ lastEventTime <= now
        /\ UNCHANGED <<surface, lastGeneration, touchSurface, lastTouchSurface, lastEventTime>>
    BY DEF HostInv, HostInvariant, HostTypeOK, NoEventAhead, surfaceVars, touchVars, inputVars
  <1> QED
    BY <1>1 DEF ShellOK, SurfaceTypeOK, SurfacesAgree, GenerationsAgree, Attached

\* Giving up the surface and cancelling the touches, on every path of it.
LEMMA DetachKeeps ==
    ASSUME HostInv, batch = "closed", DetachHandler
    PROVE  /\ ShellOK
           /\ failed' \in {failed, "clock"}
           /\ failed' # "clock" => ~Attached' /\ touchSurface' = 0 /\ activePointers' = <<>>
  <1>1. /\ activePointers # <<>> => touchSurface # 0
        /\ touchSurface = IF Attached THEN surface.generation ELSE 0
    BY HostTypes, TouchTypes DEF HostInv, TouchInv, TouchInvariant
  <1>2. CASE ~Attached /\ UNCHANGED <<surfaceVars, touchVars, failed>>
    BY <1>1, <1>2, ShellUnchanged DEF surfaceVars, touchVars, inputVars, Attached
  <1>3. CASE Attached /\ Fail("clock") /\ UNCHANGED <<surfaceVars, touchVars>>
    BY <1>3, ShellUnchanged DEF Fail
  <1>4. CASE /\ Attached /\ DetachSurface(surface.generation, now)
             /\ Detach(surface.native_id, surface.generation) /\ UNCHANGED failed
    <2>1. surface.generation \in 1..MaxSurface /\ now \in 0..MaxTime /\ now <= now
      BY <1>4, HostTypes
    <2>2. TouchNext
      BY <1>4, <2>1 DEF TouchNext
    <2>3. lastEventTime' <= now /\ activePointers' = <<>>
      BY <1>4, <2>1, CancelTime DEF DetachSurface, CancelWithRetry, CancelPointers
    <2>4. surface' = NoSurface /\ lastGeneration' = lastGeneration /\ touchSurface' = 0
          /\ lastTouchSurface' = lastTouchSurface
      BY <1>4 DEF Detach, DetachSurface
    <2> QED
      BY <1>4, <2>2, <2>3, <2>4, HostTypes
      DEF ShellOK, SurfaceTypeOK, SurfacesAgree, GenerationsAgree, Attached
  <1> QED
    BY <1>1, <1>2, <1>3, <1>4, CanCancelNow DEF DetachHandler

\* A window that appears.
LEMMA AttachKeeps ==
    ASSUME HostInv, Handling, ~Attached, NEW metrics \in Metrics \cup {NoSurface},
           AttachHandler(metrics)
    PROVE  /\ ShellOK
           /\ failed' \in {failed, "exhausted", "metrics"}
           /\ nextSurfaceId' \in 1..(MaxNativeId + 1)
  <1>1. CASE UNCHANGED <<surfaceVars, touchVars, nextSurfaceId>> /\ (Fail("exhausted") \/ Fail("metrics"))
    BY <1>1, ShellUnchanged, HostTypes DEF Fail
  <1>2. CASE /\ nextSurfaceId <= MaxNativeId /\ metrics # NoSurface /\ lastGeneration # MaxGeneration
             /\ IF Attachable(lastGeneration + 1)
                THEN /\ Attach(nextSurfaceId, metrics)
                     /\ AttachSurface(lastGeneration + 1)
                     /\ nextSurfaceId' = nextSurfaceId + 1 /\ UNCHANGED failed
                ELSE /\ Fail("refused") /\ lastGeneration' = lastGeneration + 1
                     /\ UNCHANGED <<surface, touchVars, nextSurfaceId>>
    <2>1. /\ lastGeneration \in 0..MaxGeneration /\ lastTouchSurface = lastGeneration /\ touchSurface = 0
          /\ nextSurfaceId \in 1..(MaxNativeId + 1) /\ MaxSurface = MaxGeneration /\ MaxGeneration \in Nat
          /\ MaxNativeId \in Nat /\ NativeIds = 1..MaxNativeId
      BY HostTypes, HostAssumption, MaxGenerationAssumption
    <2>2. activePointers = <<>>
      BY <2>1, TouchTypes DEF HostInv, TouchInv, TouchInvariant
    <2>3. Attachable(lastGeneration + 1) /\ lastGeneration + 1 \in 1..MaxSurface
      BY <1>2, <2>1, <2>2 DEF Attachable
    <2>4. /\ Attach(nextSurfaceId, metrics) /\ AttachSurface(lastGeneration + 1)
          /\ nextSurfaceId' = nextSurfaceId + 1 /\ UNCHANGED failed
      BY <1>2, <2>3
    <2>5. TouchNext
      BY <2>3, <2>4 DEF TouchNext
    <2>6. /\ surface' = [native_id |-> nextSurfaceId, generation |-> lastGeneration + 1, metrics |-> metrics]
          /\ lastGeneration' = lastGeneration + 1
          /\ touchSurface' = lastGeneration + 1 /\ lastTouchSurface' = lastGeneration + 1
          /\ lastEventTime' = lastEventTime
      BY <2>4 DEF Attach, AttachSurface
    <2>7. surface' \in Descriptors /\ surface'.generation = lastGeneration + 1
      BY <1>2, <2>1, <2>3, <2>6 DEF Descriptors
    <2>8. SurfaceTypeOK' /\ SurfacesAgree' /\ GenerationsAgree'
      BY <2>1, <2>3, <2>6, <2>7, NoSurfaceAssumption
      DEF SurfaceTypeOK, SurfacesAgree, GenerationsAgree, Attached
    <2>9. lastEventTime' <= now
      BY <2>6, HostTypes
    <2> QED
      BY <1>2, <2>1, <2>4, <2>5, <2>8, <2>9 DEF ShellOK
  <1>3. nextSurfaceId \in Int /\ MaxNativeId \in Int
    BY HostTypes
  <1>4. \/ nextSurfaceId > MaxNativeId
        \/ nextSurfaceId <= MaxNativeId /\ metrics = NoSurface
        \/ nextSurfaceId <= MaxNativeId /\ metrics # NoSurface /\ lastGeneration = MaxGeneration
        \/ nextSurfaceId <= MaxNativeId /\ metrics # NoSurface /\ lastGeneration # MaxGeneration
    BY <1>3
  <1>5. CASE nextSurfaceId > MaxNativeId
    BY <1>1, <1>3, <1>5 DEF AttachHandler
  <1>6. CASE nextSurfaceId <= MaxNativeId /\ metrics = NoSurface
    BY <1>1, <1>3, <1>6 DEF AttachHandler
  <1>7. CASE nextSurfaceId <= MaxNativeId /\ metrics # NoSurface /\ lastGeneration = MaxGeneration
    BY <1>1, <1>3, <1>7 DEF AttachHandler
  <1>8. CASE nextSurfaceId <= MaxNativeId /\ metrics # NoSurface /\ lastGeneration # MaxGeneration
    BY <1>2, <1>3, <1>8 DEF AttachHandler
  <1> QED
    BY <1>4, <1>5, <1>6, <1>7, <1>8

\* A window whose metrics change.
LEMMA ResizeKeeps ==
    ASSUME HostInv, NEW metrics \in Metrics \cup {NoSurface}, ResizeHandler(metrics)
    PROVE  ShellOK /\ failed' \in {failed, "metrics", "clock"}
  <1>1. CASE UNCHANGED <<surfaceVars, touchVars>> /\ failed' \in {failed, "metrics", "clock"}
    BY <1>1, ShellUnchanged
  <1>2. CASE /\ Attached /\ metrics # NoSurface /\ CancelTouchInput(now)
             /\ Resize(surface.native_id, surface.generation, metrics) /\ UNCHANGED failed
    <2>1. now \in 0..MaxTime /\ now <= now /\ surface \in Descriptors
      BY <1>2, HostTypes
    <2>2. TouchNext
      BY <1>2, <2>1 DEF TouchNext
    <2>3. lastEventTime' <= now
      BY <1>2, <2>1, CancelTime DEF CancelTouchInput, CancelWithRetry
    <2>4. /\ surface' = [surface EXCEPT !.metrics = metrics] /\ lastGeneration' = lastGeneration
          /\ touchSurface' = touchSurface /\ lastTouchSurface' = lastTouchSurface
      BY <1>2 DEF Resize, CancelTouchInput
    <2>5. surface' \in Descriptors /\ surface'.generation = surface.generation
      BY <1>2, <2>1, <2>4 DEF Descriptors
    <2> QED
      BY <1>2, <2>2, <2>3, <2>4, <2>5, HostTypes, NoSurfaceAssumption
      DEF ShellOK, SurfaceTypeOK, SurfacesAgree, GenerationsAgree, Attached
  <1> QED
    BY <1>1, <1>2, CanCancelNow DEF ResizeHandler, Fail
-----------------------------------------------------------------------------
(* The steps.                                                              *)

\* The clock goes on and is never behind the motion events.
ClockOK == now \in Int /\ now' \in 0..MaxTime /\ now <= now' /\ lastMotion' \in 0..now'

\* What is left to show of a step once the touch input, the surface and the
\* lifecycle are settled.
LEMMA Assemble ==
    ASSUME HostInv, ShellOK, LifecycleTypeOK', ClockOK,
           failed' \in Reasons \ {"refused"}, nextSurfaceId' \in 1..(MaxNativeId + 1),
           main' \in {"polling", "destroyRequested", "ended"},
           ReleasedAtExit', TerminatesWithMain'
    PROVE  HostInv'
  <1>1. TouchInv'
    BY TouchStepInv DEF HostInv, ShellOK
  <1>2. TouchTypeOK'
    BY <1>1 DEF TouchInv, TouchInvariant
  <1>3. NoEventAhead'
    <2>1. lastEventTime' \in 0..MaxTime /\ lastEventTime' <= now
      BY <1>2 DEF ShellOK, TouchTypeOK
    <2>2. lastEventTime' \in Int /\ now \in Int /\ now' \in Int /\ now <= now'
      BY <2>1, HostAssumption, BoundAssumption DEF ClockOK
    <2> QED
      BY <2>1, <2>2, HostAssumption DEF NoEventAhead
  <1>4. HostTypeOK' /\ SurfacesAgree' /\ NothingRefused' /\ GenerationsAgree'
    BY <1>2 DEF ShellOK, HostTypeOK, NothingRefused, ClockOK
  <1> QED
    BY <1>1, <1>3, <1>4 DEF HostInv, HostInvariant

\* Where the clock stands still, no event gets ahead of it.
LEMMA ClockStands ==
    ASSUME HostInv, UNCHANGED <<now, lastMotion>>
    PROVE  ClockOK
  BY HostTypes DEF ClockOK

\* A lifecycle event that the shell passes on.
LEMMA LifecycleEventKeeps ==
    ASSUME HostInv, Handling, NEW event \in ActivityEvents \ {"Destroyed"}, ApplyLifecycleEvent(event)
    PROVE  /\ LifecycleTypeOK' /\ lifecycle'.state # "Terminating"
           /\ failed' \in {failed, "exhausted"}
  <1>1. lifecycle \in LifecycleType /\ lifecycle.state # "Terminating"
    BY HostTypes DEF HostInv, TerminatesWithMain, Handling
  <1> DEFINE r == ApplyActivityEvent(lifecycle, event)
  <1>2. Granted(r)
    BY <1>1, EventsAreGranted
  <1>3. /\ lifecycle' = r.lifecycle
        /\ failed' = CASE r.ok -> failed
                       [] ~r.ok /\ lifecycle'.revision = MaxRevision -> "exhausted"
                       [] OTHER -> "refused"
    BY DEF ApplyLifecycleEvent
  <1> HIDE DEF r
  <1> QED
    BY <1>2, <1>3 DEF Granted, LifecycleTypeOK

\* The app commands about the activity.
LEMMA ActivityStep ==
    ASSUME HostInv, ActivityChanges \/ FocusLost
    PROVE  HostInv' /\ ShellOK
  <1>1. PICK event \in ActivityEvents \ {"Destroyed"} : ApplyLifecycleEvent(event)
    BY DEF ActivityChanges, FocusLost, ActivityEvents
  <1>2. /\ Handling /\ UNCHANGED <<surfaceVars, nextSurfaceId, main, now, lastMotion>>
        /\ CancelTouchInput(now) \/ UNCHANGED touchVars
    BY DEF ActivityChanges, FocusLost
  <1>3. /\ LifecycleTypeOK' /\ lifecycle'.state # "Terminating"
        /\ failed' \in {failed, "exhausted"}
    BY <1>1, <1>2, LifecycleEventKeeps
  <1>4. ShellOK
    <2>1. CASE UNCHANGED touchVars
      BY <1>2, <2>1, ShellUnchanged
    <2>2. CASE CancelTouchInput(now)
      <3>1. now \in 0..MaxTime /\ now <= now
        BY HostTypes
      <3>2. TouchNext
        BY <2>2, <3>1 DEF TouchNext
      <3>3. lastEventTime' <= now
        BY <2>2, <3>1, CancelTime DEF CancelTouchInput, CancelWithRetry
      <3>4. UNCHANGED <<surface, lastGeneration, touchSurface, lastTouchSurface>>
        BY <1>2, <2>2 DEF CancelTouchInput, surfaceVars
      <3>5. SurfaceTypeOK /\ SurfacesAgree /\ GenerationsAgree
        BY DEF HostInv, HostInvariant, HostTypeOK
      <3> QED
        BY <3>2, <3>3, <3>4, <3>5 DEF ShellOK, SurfaceTypeOK, SurfacesAgree, GenerationsAgree, Attached
    <2> QED
      BY <1>2, <2>1, <2>2
  <1>5. failed' \in Reasons \ {"refused"} /\ main' = "polling"
    BY <1>2, <1>3, HostTypes DEF Handling, Reasons
  <1>6. ReleasedAtExit' /\ TerminatesWithMain'
    BY <1>3, <1>5 DEF ReleasedAtExit, TerminatesWithMain
  <1> QED
    BY <1>2, <1>3, <1>4, <1>5, <1>6, Assemble, ClockStands, HostTypes

\* The app commands about the window.
LEMMA WindowStep ==
    ASSUME HostInv, InitWindow \/ WindowResized
    PROVE  HostInv' /\ ShellOK
  <1>1. Handling /\ UNCHANGED <<lifecycle, main, now, lastMotion>>
    BY DEF InitWindow, WindowResized
  <1>2. /\ ShellOK /\ failed' \in {failed, "exhausted", "metrics", "clock"}
        /\ nextSurfaceId' \in 1..(MaxNativeId + 1)
    <2>1. CASE InitWindow
      BY <1>1, <2>1, AttachKeeps DEF InitWindow
    <2>2. CASE WindowResized
      BY <2>2, ResizeKeeps, HostTypes DEF WindowResized
    <2> QED
      BY <2>1, <2>2
  <1>3. failed' \in Reasons \ {"refused"} /\ main' = "polling"
    BY <1>1, <1>2, HostTypes DEF Handling, Reasons
  <1>4. LifecycleTypeOK' /\ ReleasedAtExit' /\ TerminatesWithMain'
    BY <1>1, <1>3
    DEF HostInv, HostInvariant, HostTypeOK, LifecycleTypeOK, ReleasedAtExit, TerminatesWithMain
  <1> QED
    BY <1>1, <1>2, <1>3, <1>4, Assemble, ClockStands, HostTypes

\* Whatever ends the main loop detaches first.
LEMMA ReleaseStep ==
    ASSUME HostInv, TermWindow \/ Destroy \/ MainEnds
    PROVE  HostInv' /\ ShellOK
  <1>1. /\ batch = "closed" /\ DetachHandler /\ UNCHANGED <<nextSurfaceId, now, lastMotion>>
        /\ main' \in {main, "destroyRequested", "ended"}
    BY DEF TermWindow, Destroy, MainEnds, Handling
  <1>2. /\ ShellOK /\ failed' \in {failed, "clock"}
        /\ failed' # "clock" => ~Attached' /\ touchSurface' = 0 /\ activePointers' = <<>>
    BY <1>1, DetachKeeps
  <1>3. failed' \in Reasons \ {"refused"} /\ main' \in {"polling", "destroyRequested", "ended"}
    BY <1>1, <1>2, HostTypes DEF Reasons
  <1>4. LifecycleTypeOK' /\ TerminatesWithMain'
    <2>1. CASE UNCHANGED lifecycle
      <3>1. main' = "polling" => main = "polling"
        BY <1>1
      <3> QED
        BY <2>1, <3>1 DEF HostInv, HostInvariant, HostTypeOK, LifecycleTypeOK, TerminatesWithMain
    <2>2. CASE Destroy /\ lifecycle' = ApplyActivityEvent(lifecycle, "Destroyed").lifecycle
      <3>1. lifecycle \in LifecycleType
        BY HostTypes
      <3>2. Reached(ApplyActivityEvent(lifecycle, "Destroyed"), lifecycle)
        BY <3>1, EventMoves DEF ActivityEvents
      <3> QED
        BY <2>2, <3>2 DEF Reached, LifecycleTypeOK, TerminatesWithMain, Destroy
    <2> QED
      BY <2>1, <2>2 DEF TermWindow, Destroy, MainEnds
  <1>5. ReleasedAtExit'
    BY <1>2 DEF ReleasedAtExit
  <1> QED
    BY <1>1, <1>2, <1>3, <1>4, <1>5, Assemble, ClockStands, HostTypes

\* A motion event speaks of the surface that is attached and is not ahead of
\* the clock.
LEMMA MotionStep ==
    ASSUME HostInv, \/ \E e \in PointerEvents : Motion(e)
                    \/ MotionRejected \/ MotionEnds
                    \/ \E ts \in 0..MaxTime : MotionCancels(ts)
    PROVE  HostInv' /\ ShellOK
  <1>1. UNCHANGED <<lifecycle, surface, lastGeneration, failed, nextSurfaceId, main, now>>
    BY DEF Motion, MotionRejected, MotionEnds, MotionCancels, surfaceVars
  <1>2. /\ SurfaceTypeOK /\ SurfacesAgree /\ GenerationsAgree /\ ReleasedAtExit /\ TerminatesWithMain
        /\ LifecycleTypeOK
    BY DEF HostInv, HostInvariant, HostTypeOK
  <1>3. /\ UNCHANGED <<touchSurface, lastTouchSurface>> /\ lastEventTime' <= now
        /\ [TouchNext]_touchVars
        /\ ClockOK
        /\ ReleasedAtExit'
    <2>0. /\ now \in 0..MaxTime /\ now \in Int /\ now <= now
          /\ lastEventTime \in 0..MaxTime /\ lastEventTime <= now /\ lastMotion \in 0..now
      BY HostTypes
    <2>1. ASSUME NEW e \in PointerEvents, Motion(e)
          PROVE  /\ UNCHANGED <<touchSurface, lastTouchSurface>> /\ lastEventTime' <= now
                 /\ TouchNext /\ ClockOK /\ main = "polling"
      <3>1. Process(e) /\ e \in MotionEvents /\ lastMotion' = e.ts /\ UNCHANGED now /\ main = "polling"
        BY <2>1 DEF Motion, TakesMotion
      <3>2. e.ts \in lastMotion..now
        BY <3>1 DEF MotionEvents
      <3>3. e.ts \in 0..now /\ e.ts <= now
        BY <3>2, <2>0
      <3> QED
        BY <2>0, <3>1, <3>3 DEF Process, TouchNext, ClockOK
    <2>2. CASE MotionRejected
      <3>1. BatchRejected /\ UNCHANGED now /\ main = "polling"
        BY <2>2 DEF MotionRejected, TakesMotion
      <3>2. PICK e \in MotionEvents : lastMotion' = e.ts
        BY <2>2 DEF MotionRejected
      <3>3. e.ts \in lastMotion..now
        BY DEF MotionEvents
      <3>4. e.ts \in 0..now
        BY <3>3, <2>0
      <3>5. CancelPointers(lastEventTime, <<>>)
        BY <3>1, RejectedStep DEF HostInv
      <3>6. lastEventTime' <= now
        BY <2>0, <3>5, CancelTime
      <3> QED
        <4>1. UNCHANGED <<touchSurface, lastTouchSurface>> /\ TouchNext
          BY <3>1 DEF BatchRejected, TouchNext
        <4>2. ClockOK
          BY <2>0, <3>1, <3>2, <3>4 DEF ClockOK
        <4>3. ReleasedAtExit'
          BY <1>1, <3>1 DEF ReleasedAtExit
        <4> QED
          BY <3>6, <4>1, <4>2, <4>3
    <2>3. CASE MotionEnds
      <3>1. UNCHANGED <<touchSurface, lastTouchSurface, lastEventTime, activePointers, now, lastMotion>>
        BY <2>3 DEF MotionEnds, BatchEnds, inputVars
      <3> QED
        BY <1>1, <1>2, <2>0, <2>3, <3>1 DEF MotionEnds, TouchNext, ClockOK, ReleasedAtExit, Attached
    <2>4. ASSUME NEW ts \in 0..MaxTime, MotionCancels(ts)
          PROVE  /\ UNCHANGED <<touchSurface, lastTouchSurface>> /\ lastEventTime' <= now
                 /\ [TouchNext]_touchVars /\ ClockOK /\ main = "polling"
      <3>1. /\ ts \in lastMotion..now /\ lastMotion' = ts /\ UNCHANGED now /\ main = "polling"
            /\ CancelTouchInput(ts) \/ UNCHANGED touchVars
        BY <2>4 DEF MotionCancels, TakesMotion
      <3>2. ts \in 0..now /\ ts <= now
        BY <2>0, <3>1
      <3>3. CASE CancelTouchInput(ts)
        <4>1. lastEventTime' <= now
          BY <3>2, <3>3, CancelTime DEF CancelTouchInput, CancelWithRetry
        <4> QED
          BY <2>0, <3>1, <3>2, <3>3, <4>1 DEF CancelTouchInput, TouchNext, ClockOK
      <3>4. CASE UNCHANGED touchVars
        BY <2>0, <3>1, <3>2, <3>4 DEF touchVars, inputVars, ClockOK
      <3> QED
        BY <3>1, <3>3, <3>4
    <2>5. main = "polling" => ReleasedAtExit'
      BY <1>1 DEF ReleasedAtExit
    <2>6. CASE \E e \in PointerEvents : Motion(e)
      BY <2>1, <2>5, <2>6
    <2>7. CASE \E ts \in 0..MaxTime : MotionCancels(ts)
      BY <2>4, <2>5, <2>7
    <2> QED
      BY <2>2, <2>3, <2>6, <2>7
  <1>4. ShellOK
    BY <1>1, <1>2, <1>3 DEF ShellOK, SurfaceTypeOK, SurfacesAgree, GenerationsAgree, Attached
  <1>5. LifecycleTypeOK' /\ TerminatesWithMain'
    BY <1>1, <1>2 DEF LifecycleTypeOK, TerminatesWithMain
  <1> QED
    BY <1>1, <1>3, <1>4, <1>5, Assemble, HostTypes

\* Motion events, frames, the clock and the end of the main loop.
LEMMA EnvironmentStep ==
    ASSUME HostInv, Frame \/ ClockAdvances \/ PollFails \/ UNCHANGED hostVars
    PROVE  HostInv' /\ ShellOK
  <1>1. /\ UNCHANGED <<lifecycle, surface, lastGeneration, nextSurfaceId, main, lastMotion>>
        /\ UNCHANGED <<touchSurface, lastTouchSurface, lastEventTime>>
        /\ [TouchNext]_touchVars
    BY DEF Frame, ClockAdvances, PollFails, hostVars, surfaceVars, touchVars, inputVars,
           ProcessInputFrame, TouchNext
  <1>2. /\ SurfaceTypeOK /\ SurfacesAgree /\ GenerationsAgree /\ ReleasedAtExit /\ TerminatesWithMain
        /\ LifecycleTypeOK
    BY DEF HostInv, HostInvariant, HostTypeOK
  <1>3. ShellOK /\ LifecycleTypeOK' /\ TerminatesWithMain'
    BY <1>1, <1>2, HostTypes
    DEF ShellOK, SurfaceTypeOK, SurfacesAgree, GenerationsAgree, Attached, LifecycleTypeOK,
        TerminatesWithMain
  <1>4. ClockOK
    <2>1. now \in 0..MaxTime /\ now \in Int /\ lastMotion \in 0..now
      BY HostTypes
    <2>2. CASE UNCHANGED now
      BY <1>1, <2>1, <2>2 DEF ClockOK
    <2>3. CASE now < MaxTime /\ now' = now + 1
      BY <1>1, <2>1, <2>3, BoundAssumption DEF ClockOK
    <2> QED
      BY <2>2, <2>3 DEF Frame, ClockAdvances, PollFails, hostVars
  <1>5. failed' \in Reasons \ {"refused"}
    BY HostTypes DEF Frame, ClockAdvances, PollFails, hostVars, Fail, Reasons
  <1>6. ReleasedAtExit'
    <2>1. CASE Frame \/ PollFails
      BY <1>1, <2>1 DEF Frame, PollFails, Handling, ReleasedAtExit
    <2>2. CASE ClockAdvances \/ UNCHANGED hostVars
      <3>1. UNCHANGED <<failed, activePointers>>
        BY <2>2 DEF ClockAdvances, hostVars, touchVars, inputVars
      <3> QED
        BY <1>1, <1>2, <3>1 DEF ReleasedAtExit, Attached
    <2> QED
      BY <2>1, <2>2
  <1> QED
    BY <1>1, <1>3, <1>4, <1>5, <1>6, Assemble, HostTypes

\* HostInv is inductive, and every step leaves the parts agreeing.
LEMMA HostStepInv == HostInv /\ [HostNext]_hostVars => HostInv' /\ ShellOK
  BY ActivityStep, WindowStep, ReleaseStep, MotionStep, EnvironmentStep DEF HostNext

\* Before the first event there is nothing to disagree about.
LEMMA HostInitInv == HostInit => HostInv
  <1> SUFFICES ASSUME HostInit PROVE HostInv
    OBVIOUS
  <1>1. TouchInv
    BY TouchInitInv DEF HostInit
  <1>2. LifecycleTypeOK /\ SurfaceTypeOK
    BY MaxRevisionAssumption, MaxGenerationAssumption
    DEF HostInit, LifecycleInit, SurfaceInit, LifecycleTypeOK, LifecycleType, LifecycleStates,
        SurfaceTypeOK, Attached
  <1>3. HostTypeOK
    BY <1>1, <1>2, BoundAssumption, HostAssumption
    DEF HostInit, HostTypeOK, Reasons, TouchInv, TouchInvariant
  <1>4. SurfacesAgree /\ ReleasedAtExit /\ GenerationsAgree
    BY DEF HostInit, SurfaceInit, TouchInit, SurfacesAgree, ReleasedAtExit, GenerationsAgree, Attached
  <1>5. NothingRefused /\ NoEventAhead /\ TerminatesWithMain
    BY DEF HostInit, TouchInit, LifecycleInit, NothingRefused, NoEventAhead, TerminatesWithMain
  <1> QED
    BY <1>1, <1>3, <1>4, <1>5 DEF HostInv, HostInvariant

\* HostInv holds in every reachable state.
LEMMA HostCorrect == HostSpec => []HostInv
  BY HostInitInv, HostStepInv, PTL DEF HostSpec
-----------------------------------------------------------------------------
(* The theorems.                                                           *)

\* Types, the agreement of surface and touch input, and their release when
\* the main loop has ended.
THEOREM HostInvariantHolds == HostSpec => []HostInvariant
  <1>1. HostInv => HostInvariant
    BY DEF HostInv
  <1> QED
    BY <1>1, HostCorrect, PTL

\* Neither the lifecycle nor the surface nor the touch input ever refuses
\* what the shell asks of it.
THEOREM NothingIsRefused == HostSpec => []NothingRefused
  <1>1. HostInv => NothingRefused
    BY DEF HostInv
  <1> QED
    BY <1>1, HostCorrect, PTL

\* The shell uses the touch input as TouchSpec says: every step of the shell
\* is one of the touch input or leaves it alone.
THEOREM ShellImplementsTouchSpec == HostSpec => TouchSpec
  <1>1. HostInit => TouchInit
    BY DEF HostInit
  <1>2. HostInv /\ [HostNext]_hostVars => [TouchNext]_touchVars
    BY HostStepInv DEF ShellOK
  <1> QED
    BY <1>1, <1>2, HostCorrect, PTL DEF HostSpec, TouchSpec

\* So what the touch input promises holds under the shell.
THEOREM ShellKeepsTouchPromises ==
    HostSpec => [](TouchInvariant /\ CleanupSucceeds /\ FrameExplainsPointers) /\ EndsAreReported
  BY ShellImplementsTouchSpec, TouchInvariantHolds, CleanupAlwaysSucceeds, FramesExplainPointers,
     EndsAreAlwaysReported, PTL

\* No gesture mixes two coordinate spaces.
THEOREM NoGestureMixesMetrics == HostSpec => MetricsChangeEndsGestures
  <1>1. HostInv /\ [HostNext]_hostVars
        => [(Attached /\ Attached' /\ surface'.metrics # surface.metrics) =>
              /\ activePointers' = <<>>
              /\ \A id \in ActiveIds :
                    \E e \in {frameEvents'[i] : i \in 1..Len(frameEvents')} :
                        e.id = id /\ e.phase = "Cancel"]_hostVars
    <2> SUFFICES ASSUME HostInv, HostNext, Attached, Attached', surface'.metrics # surface.metrics
                 PROVE  /\ activePointers' = <<>>
                        /\ \A id \in ActiveIds :
                              \E e \in {frameEvents'[i] : i \in 1..Len(frameEvents')} :
                                  e.id = id /\ e.phase = "Cancel"
      OBVIOUS
    <2>1. WindowResized
      BY DEF HostNext, ActivityChanges, FocusLost, InitWindow, TermWindow, Destroy, Motion,
             MotionRejected, MotionEnds, MotionCancels, Frame, ClockAdvances, PollFails, MainEnds,
             surfaceVars, DetachHandler, Detach, Attached
    <2>2. CancelTouchInput(now)
      BY <2>1 DEF WindowResized, ResizeHandler, surfaceVars
    <2>3. PICK events \in {frameEvents, <<>>} : CancelPointers(now, events)
      BY <2>2 DEF CancelTouchInput, CancelWithRetry
    <2>4. /\ events \in Seq(PointerEvents) /\ TouchTypeOK /\ SurfaceIsNewest /\ now \in 0..MaxTime
      BY HostTypes, TouchTypes, EmptySeq DEF HostInv, TouchInv, TouchInvariant
    <2>5. \A i \in Slots : \E j \in 1..Len(frameEvents') :
              frameEvents'[j].id = activePointers[i].id /\ frameEvents'[j].phase = "Cancel"
      BY <2>3, <2>4, CancelReports
    <2> QED
      BY <2>3, <2>5 DEF CancelPointers, ActiveIds
  <1> QED
    BY <1>1, HostCorrect, PTL DEF HostSpec, MetricsChangeEndsGestures
=============================================================================
