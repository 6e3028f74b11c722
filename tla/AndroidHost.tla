----------------------------- MODULE AndroidHost -----------------------------
(***************************************************************************)
(* The Android shell (platforms/android/native_activity.cpp): one thread   *)
(* that pumps app commands and motion events into the lifecycle, the       *)
(* surface and the touch input, and the frame that shows the touch input   *)
(* to the game when the frame driver lets one run.                         *)
(*                                                                         *)
(* Handlers run to completion, so each is one step; only the events of one *)
(* motion batch are steps of their own, with `batch' open.  The first      *)
(* error of a handler latches `failed': nothing is handled after it and    *)
(* the main loop leaves.  `failed' holds the reason instead of a Boolean,  *)
(* "refused" when the lifecycle, the surface or the touch input turned     *)
(* down a call the shell made.                                             *)
(*                                                                         *)
(* android_native_app_glue (outside the repository) creates a window only  *)
(* after the previous one was terminated, and delivers motion events in    *)
(* the order of their time, which may lie before the clock.                *)
(***************************************************************************)
EXTENDS Lifecycle, SurfaceLifecycle, TouchInput

CONSTANT MaxNativeId            \* std::numeric_limits<NativeSurfaceId>::max()

ASSUME HostAssumption == /\ MaxNativeId \in Nat \ {0} /\ NativeIds = 1..MaxNativeId
                         /\ MaxSurface = MaxGeneration

VARIABLES failed,               \* NativeActivityState::failed
          nextSurfaceId,        \* next_surface_id; above MaxNativeId when exhausted
          main,                 \* where android_main is
          now,                  \* CLOCK_MONOTONIC
          lastMotion            \* external: time of the last motion event delivered

hostVars == <<lifecycle, surfaceVars, touchVars, failed, nextSurfaceId, main, now, lastMotion>>

Reasons == {"no", "exhausted", "metrics", "clock", "poll", "refused"}

HostInit ==
    /\ LifecycleInit /\ SurfaceInit /\ TouchInit
    /\ failed = "no" /\ nextSurfaceId = 1 /\ main = "polling"
    /\ now = 0 /\ lastMotion = 0

Handling == main = "polling" /\ failed = "no" /\ batch = "closed"

Fail(reason) == failed' = reason

\* Only a saturated counter makes the lifecycle refuse an Activity event
\* that Allowed admits.
ApplyLifecycleEvent(event) ==
    /\ lifecycle' = ApplyActivityEvent(lifecycle, event).lifecycle
    /\ failed' = CASE ApplyActivityEvent(lifecycle, event).ok -> failed
                   [] ~ApplyActivityEvent(lifecycle, event).ok
                      /\ lifecycle'.revision = MaxRevision -> "exhausted"
                   [] OTHER -> "refused"
-----------------------------------------------------------------------------
(* The handlers, as parts of the steps below.                              *)

\* attach_surface; NoSurface stands for the metrics of a window that reports
\* an empty extent.  When the touch input refuses, the surface is detached
\* again and its generation is spent.
AttachHandler(metrics) ==
    CASE nextSurfaceId > MaxNativeId
              -> Fail("exhausted") /\ UNCHANGED <<surfaceVars, touchVars, nextSurfaceId>>
      [] nextSurfaceId <= MaxNativeId /\ metrics = NoSurface
              -> Fail("metrics") /\ UNCHANGED <<surfaceVars, touchVars, nextSurfaceId>>
      [] nextSurfaceId <= MaxNativeId /\ metrics # NoSurface /\ lastGeneration = MaxGeneration
              -> Fail("exhausted") /\ UNCHANGED <<surfaceVars, touchVars, nextSurfaceId>>
      [] OTHER
              -> IF Attachable(lastGeneration + 1)
                 THEN /\ Attach(nextSurfaceId, metrics)
                      /\ AttachSurface(lastGeneration + 1)
                      /\ nextSurfaceId' = nextSurfaceId + 1 /\ UNCHANGED failed
                 ELSE /\ Fail("refused") /\ lastGeneration' = lastGeneration + 1
                      /\ UNCHANGED <<surface, touchVars, nextSurfaceId>>

\* Seeded fault: the surface is resized under the fingers.
BrokenResizeHandler(metrics) ==
    IF Attached /\ metrics # NoSurface
    THEN Resize(surface.native_id, surface.generation, metrics) /\ UNCHANGED <<touchVars, failed>>
    ELSE UNCHANGED <<surfaceVars, touchVars, failed>>

\* resize_surface: pointers are cancelled before the surface changes its
\* coordinates.
ResizeHandler(metrics) ==
    \/ ~Attached /\ UNCHANGED <<surfaceVars, touchVars, failed>>
    \/ Attached /\ metrics = NoSurface /\ Fail("metrics") /\ UNCHANGED <<surfaceVars, touchVars>>
    \/ Attached /\ metrics = surface.metrics /\ UNCHANGED <<surfaceVars, touchVars, failed>>
    \/ /\ Attached /\ metrics \notin {NoSurface, surface.metrics}
       /\ \/ Fail("clock") /\ UNCHANGED <<surfaceVars, touchVars>>
          \/ IF CanCancel(now, <<>>)
             THEN /\ CancelTouchInput(now)
                  /\ Resize(surface.native_id, surface.generation, metrics)
                  /\ UNCHANGED failed
             ELSE Fail("refused") /\ UNCHANGED <<surfaceVars, touchVars>>

\* Seeded faults: the touch input is forgotten; a full frame is not emptied.
BrokenDetachHandlerForgets ==
    /\ IF Attached THEN Detach(surface.native_id, surface.generation) ELSE UNCHANGED surfaceVars
    /\ UNCHANGED <<touchVars, failed>>

BrokenDetachHandlerGivesUp ==
    IF ~Attached THEN UNCHANGED <<surfaceVars, touchVars, failed>>
    ELSE IF CanCancel(now, frameEvents)
         THEN /\ DetachSurface(surface.generation, now)
              /\ Detach(surface.native_id, surface.generation) /\ UNCHANGED failed
         ELSE Fail("refused") /\ UNCHANGED <<surfaceVars, touchVars>>

\* detach_surface: the clock is read first, the touch input is asked only
\* when it has the same surface.
DetachHandler ==
    \/ ~Attached /\ UNCHANGED <<surfaceVars, touchVars, failed>>
    \/ Attached /\ Fail("clock") /\ UNCHANGED <<surfaceVars, touchVars>>
    \/ /\ Attached
       /\ IF touchSurface = surface.generation /\ ~CanCancel(now, <<>>)
          THEN Fail("refused") /\ UNCHANGED <<surfaceVars, touchVars>>
          ELSE /\ IF touchSurface = surface.generation
                  THEN DetachSurface(surface.generation, now)
                  ELSE UNCHANGED touchVars
               /\ Detach(surface.native_id, surface.generation)
               /\ UNCHANGED failed
-----------------------------------------------------------------------------
(* handle_app_command                                                      *)

ActivityChanges ==
    /\ Handling
    /\ \E event \in {"Started", "Resumed", "Paused", "Stopped", "FocusGained"} :
          ApplyLifecycleEvent(event)
    /\ UNCHANGED <<surfaceVars, touchVars, nextSurfaceId, main, now, lastMotion>>

\* The cancellation may fail, or be skipped because the clock cannot be read;
\* the lifecycle is told in any case.
FocusLost ==
    /\ Handling
    /\ CancelTouchInput(now) \/ UNCHANGED touchVars
    /\ ApplyLifecycleEvent("FocusLost")
    /\ UNCHANGED <<surfaceVars, nextSurfaceId, main, now, lastMotion>>

InitWindow ==
    /\ Handling /\ ~Attached
    /\ \E metrics \in Metrics \cup {NoSurface} : AttachHandler(metrics)
    /\ UNCHANGED <<lifecycle, main, now, lastMotion>>

WindowResized ==
    /\ Handling
    /\ \E metrics \in Metrics \cup {NoSurface} : ResizeHandler(metrics)
    /\ UNCHANGED <<lifecycle, nextSurfaceId, main, now, lastMotion>>

TermWindow ==
    /\ Handling
    /\ DetachHandler
    /\ UNCHANGED <<lifecycle, nextSurfaceId, main, now, lastMotion>>

\* APP_CMD_DESTROY; the glue requests the end of the main loop with it.
Destroy ==
    /\ Handling
    /\ main' = "destroyRequested"
    /\ DetachHandler
    /\ IF failed' = "no"
       THEN lifecycle' = ApplyActivityEvent(lifecycle, "Destroyed").lifecycle
       ELSE UNCHANGED lifecycle
    /\ UNCHANGED <<nextSurfaceId, now, lastMotion>>
-----------------------------------------------------------------------------
(* handle_input_event                                                      *)

\* The pointer events one motion event may carry: only a move speaks of
\* several pointers, all of them with the time of the motion event.
MotionEvents ==
    {e \in PointerEvents :
        /\ e.generation = surface.generation
        /\ e.ts \in lastMotion..now
        /\ e.phase # "Cancel" /\ e.x # NonFinite
        /\ batch = "open" => /\ e.phase = "Move" /\ e.ts = lastMotion
                             /\ frameEvents[Len(frameEvents)].phase = "Move"}

TakesMotion ==
    /\ main = "polling" /\ failed = "no"
    /\ Attached /\ touchSurface = surface.generation

Motion(e) ==
    /\ TakesMotion
    /\ e \in MotionEvents
    /\ Process(e)
    /\ lastMotion' = e.ts
    /\ UNCHANGED <<lifecycle, surfaceVars, failed, nextSurfaceId, main, now>>

MotionRejected ==
    /\ TakesMotion
    /\ \E ts \in {e.ts : e \in {r \in MotionEvents : ~Accepts(r)}} : lastMotion' = ts
    /\ BatchRejected
    /\ UNCHANGED <<lifecycle, surfaceVars, failed, nextSurfaceId, main, now>>

MotionEnds ==
    /\ BatchEnds
    /\ UNCHANGED <<lifecycle, surfaceVars, failed, nextSurfaceId, main, now, lastMotion>>

\* ACTION_CANCEL, an impossible pointer count or a negative pointer id: the
\* pointers are cancelled at the time of the motion event.  When that lies
\* before the last event the failure is only logged.
MotionCancels(ts) ==
    /\ TakesMotion /\ batch = "closed"
    /\ ts \in lastMotion..now /\ lastMotion' = ts
    /\ IF CanCancel(ts, <<>>) THEN CancelTouchInput(ts) ELSE UNCHANGED touchVars
    /\ UNCHANGED <<lifecycle, surfaceVars, failed, nextSurfaceId, main, now>>
-----------------------------------------------------------------------------
\* A frame of the runtime as docs/INPUT-SYSTEM.md composes it, when
\* MobileFrameDriver finds it eligible; the packaged shell has none yet, and
\* none need ever happen here.
Frame ==
    /\ Handling /\ CanRunGameLoop /\ Attached
    /\ ProcessInputFrame
    /\ UNCHANGED <<lifecycle, surfaceVars, failed, nextSurfaceId, main, now, lastMotion>>

ClockAdvances ==
    /\ now < MaxTime /\ main = "polling"
    /\ now' = now + 1
    /\ UNCHANGED <<lifecycle, surfaceVars, touchVars, failed, nextSurfaceId, main, lastMotion>>

\* ALooper_pollOnce reports an error.
PollFails ==
    /\ Handling
    /\ Fail("poll")
    /\ UNCHANGED <<lifecycle, surfaceVars, touchVars, nextSurfaceId, main, now, lastMotion>>

\* Seeded fault: the loop just ends.
BrokenMainEnds ==
    /\ main # "ended" /\ batch = "closed"
    /\ main = "destroyRequested" \/ failed # "no"
    /\ main' = "ended"
    /\ UNCHANGED <<lifecycle, surfaceVars, touchVars, failed, nextSurfaceId, now, lastMotion>>

\* android_main leaves its loop and detaches once more.
MainEnds ==
    /\ main # "ended" /\ batch = "closed"
    /\ main = "destroyRequested" \/ failed # "no"
    /\ DetachHandler
    /\ main' = "ended"
    /\ UNCHANGED <<lifecycle, nextSurfaceId, now, lastMotion>>

HostNext ==
    \/ ActivityChanges \/ FocusLost
    \/ InitWindow \/ WindowResized \/ TermWindow \/ Destroy
    \/ \E e \in PointerEvents : Motion(e)
    \/ MotionRejected \/ MotionEnds
    \/ \E ts \in 0..MaxTime : MotionCancels(ts)
    \/ Frame \/ ClockAdvances \/ PollFails \/ MainEnds

HostSpec == HostInit /\ [][HostNext]_hostVars
-----------------------------------------------------------------------------
\* Each part is well typed, and no event is older than its delivery.
HostTypeOK ==
    /\ LifecycleTypeOK /\ SurfaceTypeOK /\ TouchTypeOK
    /\ failed \in Reasons /\ nextSurfaceId \in 1..(MaxNativeId + 1)
    /\ main \in {"polling", "destroyRequested", "ended"}
    /\ now \in 0..MaxTime /\ lastMotion \in 0..now

\* The touch input has a surface exactly when the surface lifecycle has one,
\* and the same generation of it, whichever handlers failed in between
\* (attach_surface, detach_surface).
SurfacesAgree == touchSurface = IF Attached THEN surface.generation ELSE 0

\* However the main loop ended, surface and touch input are released and no
\* pointer is left active, unless the clock could not be read (android_main).
ReleasedAtExit ==
    main = "ended" /\ failed # "clock" =>
        ~Attached /\ touchSurface = 0 /\ activePointers = <<>>

\* Each part is well typed, the two surfaces agree between any two commands,
\* events and frames, and both are released when the main loop has ended, by
\* whatever path (handle_app_command, handle_input_event, android_main).
HostInvariant == HostTypeOK /\ SurfacesAgree /\ ReleasedAtExit

\* No order of app commands and motion events makes the lifecycle, the
\* surface or the touch input refuse what the shell asks of it: the shell
\* stops only for a window without extent, a clock or a looper that fails or
\* an exhausted counter (apply_lifecycle_event, attach_surface, resize_surface,
\* detach_surface).
NothingRefused == failed # "refused"

\* One gesture never mixes two coordinate spaces: a pointer that went down
\* under one extent and density is cancelled, and its end is in the frame,
\* before the surface has another (resize_surface).
MetricsChangeEndsGestures ==
    [][(Attached /\ Attached' /\ surface'.metrics # surface.metrics) =>
          /\ activePointers' = <<>>
          /\ \A id \in ActiveIds :
                \E e \in {frameEvents'[i] : i \in 1..Len(frameEvents')} :
                    e.id = id /\ e.phase = "Cancel"]_hostVars
=============================================================================
