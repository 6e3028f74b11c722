---------------------------- MODULE TouchPipeline ----------------------------
(***************************************************************************)
(* The path of a touch to the game: the shell feeds TouchInput; when the   *)
(* frame driver ticks, TouchInputGameLoopAdapter shows the frame to a      *)
(* consumer that calls GestureActionInputPipeline::process_frame           *)
(* (engine/runtime/src/gesture_action_input_pipeline.cpp), and empties it. *)
(* The pipeline is GestureRecognizer followed by InputActionMap; when the  *)
(* recognizer fails the map is not called.                                 *)
(*                                                                         *)
(* Frames run only while a surface is attached, which is the condition of  *)
(* the frame driver; between two frames surfaces may come and go.  The     *)
(* shell stamps cancellations with the clock, and hands over events that   *)
(* waited in a queue, none of them from the future.                        *)
(***************************************************************************)
EXTENDS TouchInput, GestureRecognizer, InputActionMap

CONSTANT BindingLists           \* what the game may bind

VARIABLES now,                  \* the monotonic clock
          answer                \* Result of the last process_frame

pipelineVars == <<touchVars, gestureVars, actionVars, now, answer>>

PipelineInit ==
    /\ TouchInit /\ GestureInit
    /\ \E list \in BindingLists : ActionInit(list)
    /\ now = 0 /\ answer = "ok"

ProcessFrame ==
    /\ touchSurface # 0
    /\ Update(frameEvents, now, touchSurface)
    /\ ProcessInputFrame
    /\ IF Updated(frameEvents, now, touchSurface).ok
       THEN /\ UpdateActions(gestures')
            /\ answer' = IF AcceptsGestures(gestures') THEN "ok" ELSE "map failed"
       ELSE answer' = "recognizer failed" /\ UNCHANGED actionVars
    /\ UNCHANGED now

Shell ==
    /\ \/ \E g \in 1..MaxSurface : AttachSurface(g)
       \/ touchSurface # 0 /\ DetachSurface(touchSurface, now)
       \/ CancelTouchInput(now)
       \/ \E e \in PointerEvents : e.ts <= now /\ Process(e)
       \/ BatchRejected
       \/ BatchEnds
    /\ UNCHANGED <<gestureVars, actionVars, now, answer>>

Rebind ==
    /\ batch = "closed"
    /\ \E list \in BindingLists : ReplaceBindings(list)
    /\ UNCHANGED <<touchVars, gestureVars, now, answer>>

ClockAdvances ==
    /\ batch = "closed"
    /\ now < MaxTime /\ now' = now + 1
    /\ UNCHANGED <<touchVars, gestureVars, actionVars, answer>>

PipelineNext == ProcessFrame \/ Shell \/ Rebind \/ ClockAdvances

PipelineSpec == PipelineInit /\ [][PipelineNext]_pipelineVars
-----------------------------------------------------------------------------
PipelineTypeOK ==
    /\ TouchTypeOK /\ GestureTypeOK
    /\ bindings \in BindingLists /\ Len(actions) <= MaxActions
    /\ lastGestureTime \in 0..now /\ now \in 0..MaxTime
    /\ answer \in {"ok", "recognizer failed", "map failed"}

\* The recognizer follows the same pointers as the game: a pointer it tracks
\* is where the frames shown so far left it, also after rejected batches,
\* frames emptied early, lost surfaces and failed updates
\* (process_touch_input, process_frame, update, reset).
TracksFollowTheFrames ==
    \A i \in TrackSlots : tracks[i] # None => consumer[tracks[i].id] = tracks[i].x

\* What waits in the frame can always be handed to the recognizer as far as
\* time goes: it is not older than what the recognizer saw last and not newer
\* than the clock, so update never resets for a timestamp
\* (cancel_all, process, update).
FrameIsInTime ==
    /\ lastFrame <= now
    /\ \A i \in 1..Len(frameEvents) : frameEvents[i].ts \in lastEvent..now

\* The three parts are well typed and agree on the time, between any two
\* frames and calls of the shell (process_frame, process_touch_input).
PipelineInvariant == PipelineTypeOK /\ FrameIsInTime

\* docs/INPUT-SYSTEM.md:142-143: "Gesture cancellation and surface-generation
\* changes are converted to cancelled action events".  When the game binds
\* Cancelled and a frame finds another surface than the recognizer saw, with
\* pointers still tracked, it yields a cancelled action (process_frame).
SurfaceChangeCancels ==
    [][/\ ProcessFrame
       /\ \E i \in TrackSlots : tracks[i] # None
       /\ seenSurface # touchSurface
       /\ \E k \in DOMAIN bindings : bindings[k].gesture = "Cancelled"
       => \E k \in DOMAIN actions' : actions'[k].phase = "Cancelled"]_pipelineVars

\* docs/INPUT-SYSTEM.md:28-30: a rejected batch "drops partial frame events
\* and cancels all active pointers so malformed OS input cannot strand a
\* pointer in the engine".  The recognizer is part of the engine: after a
\* frame it tracks only pointers that are active (process_batch,
\* process_frame).
NoStrandedTrack ==
    [][ProcessFrame => \A i \in TrackSlots :
          tracks'[i] # None => tracks'[i].id \in ActiveIds']_pipelineVars
=============================================================================
