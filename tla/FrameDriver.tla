----------------------------- MODULE FrameDriver -----------------------------
(***************************************************************************)
(* The frame driver and what it schedules: MobileFrameDriver               *)
(* (engine/runtime/src/mobile_frame_driver.cpp), GameLoop                  *)
(* (engine/core/src/game_loop.cpp) and FixedStepScheduler                  *)
(* (engine/core/src/fixed_step_scheduler.cpp), over the lifecycle and the  *)
(* surface they read.                                                      *)
(*                                                                         *)
(* All of it runs on one thread, but tick calls out to the application     *)
(* five times and the application may pump native events, reset the driver *)
(* or take its time in any of the callbacks, so each callback is a step of *)
(* its own and the lifecycle, the surface and the clock move between them. *)
(* Every callback may also fail, which ends the frame.                     *)
(*                                                                         *)
(* Time is counted in the unit of the clock (nanoseconds in the code).     *)
(* The timestamp of a frame is the clock when tick is called; one that     *)
(* lies before the previous frame's is a regression of the source.         *)
(***************************************************************************)
EXTENDS Lifecycle, SurfaceLifecycle

CONSTANTS MaxCount,             \* std::numeric_limits<std::int64_t>::max()
          StartClocks,          \* clock readings at which the app may start
          MaxClock,             \* bound of the model: the clock stops here
          FixedStep,            \* FixedStepConfig::fixed_step
          MaxFrameDelta,        \* FixedStepConfig::maximum_frame_delta
          MaxStepsPerFrame,     \* FixedStepConfig::maximum_steps_per_frame
          NoFrame               \* previous_..._ without a value

ASSUME CountAssumption  == MaxCount \in Nat /\ MaxClock \in Int /\ StartClocks \subseteq Int
ASSUME ConfigAssumption == /\ FixedStep \in 1..MaxCount
                           /\ MaxFrameDelta \in 1..MaxCount
                           /\ MaxStepsPerFrame \in Nat \ {0}

MinCount == -MaxCount - 1
Timestamps == MinCount..MaxCount

FrameRecords == [timestamp : Timestamps, revision : 0..MaxRevision, generation : 1..MaxGeneration]

ASSUME NoFrameAssumption == NoFrame \notin FrameRecords

VARIABLES previous,        \* previous_{frame_timestamp_ns,lifecycle_revision,surface_generation}_
          accumulator,     \* FixedStepScheduler::accumulator_
          pc,              \* the callback the frame is about to make, or "idle"
          frameDelta,      \* the elapsed time handed to GameLoop::tick
          stepsLeft,       \* fixed updates this frame still owes
          now              \* the monotonic clock of the frame source

\* History variables: what the properties compare the program with.
VARIABLES activeTime,      \* clock time spent active with a surface attached
          acceptedTime,    \* accepted_frame_delta, summed over all frames
          simulatedTime,   \* FixedStep times the fixed updates that were made
          since            \* when the lifecycle or the surface last changed

driverVars  == <<previous, accumulator, pc, frameDelta, stepsLeft>>
historyVars == <<activeTime, acceptedTime, simulatedTime>>
vars == <<lifecycle, surfaceVars, driverVars, now, historyVars, since>>

FramePhases == {"input", "events", "fixed", "render"}

Eligible == CanRunGameLoop /\ Attached

\* Seeded faults: only the surface, or only the lifecycle, is compared.
BrokenContinuingSurface ==
    previous # NoFrame /\ previous.generation = surface.generation

BrokenContinuingLifecycle ==
    previous # NoFrame /\ previous.revision = lifecycle.revision

\* The environment of the previous frame is the present one.
Continuing ==
    /\ previous # NoFrame
    /\ previous.revision = lifecycle.revision
    /\ previous.generation = surface.generation

Init ==
    /\ LifecycleInit /\ SurfaceInit
    /\ previous = NoFrame /\ accumulator = 0
    /\ pc = "idle" /\ frameDelta = 0 /\ stepsLeft = 0
    /\ now \in StartClocks /\ since = now
    /\ activeTime = 0 /\ acceptedTime = 0 /\ simulatedTime = 0
-----------------------------------------------------------------------------
(* FixedStepScheduler::advance                                             *)

AcceptedDelta == IF frameDelta < MaxFrameDelta THEN frameDelta ELSE MaxFrameDelta

\* The sum must fit the duration type; accumulator_ is left alone otherwise.
AccumulatorOverflows == AcceptedDelta > MaxCount - accumulator

Pending == accumulator + AcceptedDelta

\* The while loop takes whole steps up to the budget; whole steps beyond it
\* are discarded and only the remainder is kept.
StepCount ==
    LET whole == Pending \div FixedStep IN
    IF whole < MaxStepsPerFrame THEN whole ELSE MaxStepsPerFrame

\* Seeded fault: whole steps beyond the budget are kept.
BrokenRemainder == Pending - StepCount * FixedStep

Remainder == Pending % FixedStep
-----------------------------------------------------------------------------
(* MobileFrameDriver                                                       *)

ForgetTiming == previous' = NoFrame /\ accumulator' = 0

ResetTiming ==
    /\ ForgetTiming
    /\ UNCHANGED <<lifecycle, surfaceVars, pc, frameDelta, stepsLeft, now, historyVars, since>>

\* tick() of a clock reading that has no nanosecond timestamp.
TickOutOfRange ==
    /\ pc = "idle" /\ now \notin Timestamps
    /\ ForgetTiming
    /\ UNCHANGED <<lifecycle, surfaceVars, pc, frameDelta, stepsLeft, now, historyVars, since>>

\* SkippedInactive and SkippedSurfaceUnavailable.
TickSkipped ==
    /\ pc = "idle" /\ now \in Timestamps
    /\ ~Eligible
    /\ ForgetTiming
    /\ UNCHANGED <<lifecycle, surfaceVars, pc, frameDelta, stepsLeft, now, historyVars, since>>

ElapsedOverflows(ts) == previous.timestamp < 0 /\ ts > MaxCount + previous.timestamp

\* A timestamp before the previous frame's, or too far after it.
TickRejected(ts) ==
    /\ pc = "idle"
    /\ Eligible /\ Continuing
    /\ ts < previous.timestamp \/ ElapsedOverflows(ts)
    /\ ForgetTiming
    /\ UNCHANGED <<lifecycle, surfaceVars, pc, frameDelta, stepsLeft, now, historyVars, since>>

\* The baseline is recorded before any callback runs.
TickBegins ==
    /\ pc = "idle" /\ now \in Timestamps
    /\ Eligible
    /\ Continuing => now >= previous.timestamp /\ ~ElapsedOverflows(now)
    /\ frameDelta'  = IF Continuing THEN now - previous.timestamp ELSE 0
    /\ accumulator' = IF Continuing THEN accumulator ELSE 0
    /\ previous' = [timestamp |-> now, revision |-> lifecycle.revision,
                    generation |-> surface.generation]
    /\ pc' = "input"
    /\ UNCHANGED <<lifecycle, surfaceVars, stepsLeft, now, historyVars, since>>
-----------------------------------------------------------------------------
(* GameLoop::tick                                                          *)

EndFrame == pc' = "idle" /\ frameDelta' = 0 /\ stepsLeft' = 0

ProcessInput ==
    /\ pc = "input"
    /\ pc' = "events"
    /\ UNCHANGED <<lifecycle, surfaceVars, previous, accumulator, frameDelta, stepsLeft,
                   now, historyVars, since>>

\* process_events returns, then the scheduler takes the delta or refuses it.
ProcessEvents ==
    /\ pc = "events"
    /\ UNCHANGED <<lifecycle, surfaceVars, previous, now, activeTime, simulatedTime, since>>
    /\ \/ /\ AccumulatorOverflows
          /\ EndFrame
          /\ UNCHANGED <<accumulator, acceptedTime>>
       \/ /\ ~AccumulatorOverflows
          /\ pc' = "fixed" /\ stepsLeft' = StepCount /\ frameDelta' = 0
          /\ accumulator' = Remainder
          /\ acceptedTime' = acceptedTime + AcceptedDelta

FixedUpdate ==
    /\ pc = "fixed" /\ stepsLeft > 0
    /\ stepsLeft' = stepsLeft - 1
    /\ simulatedTime' = simulatedTime + FixedStep
    /\ UNCHANGED <<lifecycle, surfaceVars, previous, accumulator, pc, frameDelta,
                   now, activeTime, acceptedTime, since>>

VariableUpdate ==
    /\ pc = "fixed" /\ stepsLeft = 0
    /\ pc' = "render"
    /\ UNCHANGED <<lifecycle, surfaceVars, previous, accumulator, frameDelta, stepsLeft,
                   now, historyVars, since>>

Render ==
    /\ pc = "render"
    /\ EndFrame
    /\ UNCHANGED <<lifecycle, surfaceVars, previous, accumulator, now, historyVars, since>>

CallbackFails ==
    /\ pc \in FramePhases
    /\ EndFrame
    /\ UNCHANGED <<lifecycle, surfaceVars, previous, accumulator, now, historyVars, since>>
-----------------------------------------------------------------------------
(* The environment: at any time, also inside a callback.                   *)

NativeLifecycle ==
    /\ LifecycleNext
    /\ since' = IF lifecycle'.revision # lifecycle.revision THEN now ELSE since
    /\ UNCHANGED <<surfaceVars, driverVars, now, historyVars>>

NativeSurface ==
    /\ SurfaceNext
    /\ since' = IF Attached' # Attached THEN now ELSE since
    /\ UNCHANGED <<lifecycle, driverVars, now, historyVars>>

ClockAdvances ==
    /\ now < MaxClock
    /\ \E d \in 1..(MaxClock - now) :
          /\ now' = now + d
          /\ activeTime' = activeTime + (IF Eligible THEN d ELSE 0)
    /\ UNCHANGED <<lifecycle, surfaceVars, driverVars, acceptedTime, simulatedTime, since>>

Tick == TickOutOfRange \/ TickSkipped \/ (\E ts \in Timestamps : ts <= now /\ TickRejected(ts))
        \/ TickBegins
Callbacks == ProcessInput \/ ProcessEvents \/ FixedUpdate \/ VariableUpdate \/ Render \/ CallbackFails
Environment == NativeLifecycle \/ NativeSurface \/ ClockAdvances

Next == Tick \/ Callbacks \/ ResetTiming \/ Environment

Spec == Init /\ [][Next]_vars
-----------------------------------------------------------------------------
\* Types, and the scheduler keeps less than one step between frames, so the
\* interpolation alpha it reports lies in [0, 1).
TypeOK ==
    /\ LifecycleTypeOK /\ SurfaceTypeOK
    /\ previous \in FrameRecords \cup {NoFrame}
    /\ accumulator \in 0..(FixedStep - 1)
    /\ pc \in FramePhases \cup {"idle"}
    /\ frameDelta \in 0..MaxCount
    /\ stepsLeft \in 0..MaxStepsPerFrame
    /\ now \in Int /\ since \in Int
    /\ activeTime \in Nat /\ acceptedTime \in Nat /\ simulatedTime \in Nat

\* The simulation never runs ahead of the time the app was really active
\* with a surface: neither a trip through the background between two frames,
\* nor a replaced surface, nor a change made inside a callback, nor a failed
\* frame that is tried again lets any other time into it
\* (tick_at_monotonic_nanoseconds, advance, GameLoop::tick).
SimulatedWithinActiveTime ==
    /\ simulatedTime <= acceptedTime
    /\ acceptedTime <= activeTime

\* The interval a frame charges to the simulation begins no earlier than the
\* last change of the lifecycle or of the surface.
FrameChargesOnlyItsEpoch ==
    [][pc = "idle" /\ pc' = "input" => frameDelta' <= now - since]_vars
=============================================================================
