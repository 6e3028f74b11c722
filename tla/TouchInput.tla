----------------------------- MODULE TouchInput -----------------------------
(***************************************************************************)
(* Ingestion of pointer events: TouchInput                                 *)
(* (engine/input/src/touch_input.cpp), with what surrounds it on the       *)
(* owning thread: the shells that cancel and detach, retrying once with an *)
(* emptied frame when the cancellations do not fit                         *)
(* (platforms/android/native_activity.cpp, platforms/ios/app/              *)
(* app_delegate.mm), and TouchInputGameLoopAdapter, which shows the frame  *)
(* to the game and empties it                                              *)
(* (engine/runtime/src/touch_input_game_loop_adapter.cpp).                 *)
(*                                                                         *)
(* process_batch is a loop over process; each event of it is a step and    *)
(* nothing else happens before the batch is closed.  Which event comes     *)
(* next is chosen step by step, so every batch is covered.  A call that is *)
(* rejected without effect is a stuttering step.                           *)
(*                                                                         *)
(* Timestamp 0 stands for "no event yet": nothing is earlier, so           *)
(* has_last_event_timestamp_ makes no other difference.                    *)
(***************************************************************************)
EXTENDS PointerEvent, SequencesExt

CONSTANTS MaxPointers,        \* TouchInputConfig::maximum_active_pointers
          MaxEvents,          \* TouchInputConfig::maximum_events_per_frame
          Unknown             \* the game knows no such pointer

\* TouchInput::create
ASSUME CapacityAssumption ==
    MaxPointers \in Nat \ {0} /\ MaxEvents \in Nat /\ MaxPointers <= MaxEvents

ASSUME UnknownAssumption == Unknown \notin Positions

VARIABLES activePointers,     \* active_pointers_
          frameEvents,        \* frame_events_
          touchSurface,       \* surface_generation_, 0 when there is none
          lastTouchSurface,   \* last_surface_generation_
          lastEventTime,      \* last_event_timestamp_ns_
          batch,              \* "open" inside process_batch
          consumer            \* history: where the game last saw each pointer

inputVars == <<activePointers, frameEvents, touchSurface, lastTouchSurface, lastEventTime>>
touchVars == <<inputVars, batch, consumer>>

TouchInit ==
    /\ activePointers = <<>> /\ frameEvents = <<>>
    /\ touchSurface = 0 /\ lastTouchSurface = 0 /\ lastEventTime = 0
    /\ batch = "closed"
    /\ consumer = [p \in PointerIds |-> Unknown]

Slots == 1..Len(activePointers)
ActiveIds == {activePointers[i].id : i \in Slots}
-----------------------------------------------------------------------------
(* process                                                                 *)

\* Seeded faults: no room is asked for a pointer; time may run backwards.
BrokenAcceptsPointers(e) ==
    /\ touchSurface # 0 /\ e.generation = touchSurface /\ e.x # NonFinite
    /\ Len(frameEvents) < MaxEvents /\ e.ts >= lastEventTime
    /\ (e.phase = "Down") = (e.id \notin ActiveIds)

BrokenAcceptsOldEvents(e) ==
    /\ touchSurface # 0 /\ e.generation = touchSurface /\ e.x # NonFinite
    /\ Len(frameEvents) < MaxEvents
    /\ IF e.phase = "Down"
       THEN e.id \notin ActiveIds /\ Len(activePointers) < MaxPointers
       ELSE e.id \in ActiveIds

Accepts(e) ==
    /\ touchSurface # 0 /\ e.generation = touchSurface
    /\ e.x # NonFinite
    /\ Len(frameEvents) < MaxEvents
    /\ e.ts >= lastEventTime
    /\ IF e.phase = "Down"
       THEN e.id \notin ActiveIds /\ Len(activePointers) < MaxPointers
       ELSE e.id \in ActiveIds

\* The vector of snapshots after an accepted event.
Moved(p, e) == [p EXCEPT !.x = e.x, !.delta = p.delta + (e.x - p.x), !.ts = e.ts]

FindPointer(id) == CHOOSE i \in Slots : activePointers[i].id = id

\* Seeded fault: everything from the pointer on is erased.
BrokenWithout(id) == SubSeq(activePointers, 1, FindPointer(id) - 1)

Without(id) == RemoveAt(activePointers, FindPointer(id))

PointersAfter(e) ==
    CASE e.phase = "Down" -> Append(activePointers, [id |-> e.id, x |-> e.x, delta |-> 0, ts |-> e.ts])
      [] e.phase = "Move" -> [i \in Slots |-> IF activePointers[i].id = e.id
                                              THEN Moved(activePointers[i], e)
                                              ELSE activePointers[i]]
      [] e.phase \in Ending -> Without(e.id)

Process(e) ==
    /\ batch \in {"closed", "open"}
    /\ Accepts(e)
    /\ activePointers' = PointersAfter(e)
    /\ frameEvents' = Append(frameEvents, e)
    /\ lastEventTime' = e.ts
    /\ batch' = "open"
    /\ UNCHANGED <<touchSurface, lastTouchSurface, consumer>>

BatchEnds ==
    /\ batch = "open" /\ batch' = "closed"
    /\ UNCHANGED <<inputVars, consumer>>
-----------------------------------------------------------------------------
(* cancel_all and begin_frame, as parts of the operations that call them.  *)

CancelFits(events) == Len(activePointers) <= MaxEvents - Len(events)

\* cancel_all(ts) succeeds when `events' are what the frame holds.
CanCancel(ts, events) ==
    activePointers # <<>> => touchSurface # 0 /\ ts >= lastEventTime /\ CancelFits(events)

Cancellations(ts) ==
    [i \in Slots |-> [id |-> activePointers[i].id, phase |-> "Cancel", x |-> activePointers[i].x,
                      ts |-> ts, generation |-> touchSurface]]

CancelPointers(ts, events) ==
    /\ frameEvents' = events \o Cancellations(ts)
    /\ lastEventTime' = IF activePointers = <<>> THEN lastEventTime ELSE ts
    /\ activePointers' = <<>>

\* Seeded fault: the accumulated deltas survive the frame.
BrokenBeginFrame == frameEvents' = <<>> /\ UNCHANGED activePointers

BeginFrame ==
    /\ frameEvents' = <<>>
    /\ activePointers' = [i \in Slots |-> [activePointers[i] EXCEPT !.delta = 0]]

\* Seeded fault: the pointers are cancelled before the frame is emptied.
BrokenBatchRejected ==
    /\ batch \in {"closed", "open"}
    /\ ~ \A e \in PointerEvents : Accepts(e)
    /\ IF CanCancel(lastEventTime, frameEvents)
       THEN CancelPointers(lastEventTime, frameEvents) /\ batch' = "closed"
       ELSE BeginFrame /\ batch' = "internalError" /\ UNCHANGED lastEventTime
    /\ UNCHANGED <<touchSurface, lastTouchSurface, consumer>>

\* An event of the batch fails, whichever: the frame is emptied and every
\* active pointer is cancelled at the time of the last event.
BatchRejected ==
    /\ batch \in {"closed", "open"}
    /\ ~ \A e \in PointerEvents : Accepts(e)
    /\ IF CanCancel(lastEventTime, <<>>)
       THEN CancelPointers(lastEventTime, <<>>) /\ batch' = "closed"
       ELSE BeginFrame /\ batch' = "internalError" /\ UNCHANGED lastEventTime
    /\ UNCHANGED <<touchSurface, lastTouchSurface, consumer>>
-----------------------------------------------------------------------------
(* What the shells call.                                                   *)

Attachable(generation) ==
    generation > lastTouchSurface /\ touchSurface = 0 /\ activePointers = <<>>

AttachSurface(generation) ==
    /\ batch = "closed"
    /\ Attachable(generation)
    /\ touchSurface' = generation /\ lastTouchSurface' = generation
    /\ UNCHANGED <<activePointers, frameEvents, lastEventTime, batch, consumer>>

\* cancel_all(ts); when it has no room for the cancellations, begin_frame
\* and cancel_all(ts) again.  The second call meets an empty frame, so it
\* fails only where the first would have failed before counting room.
CancelWithRetry(ts) ==
    /\ CanCancel(ts, <<>>)
    /\ CancelPointers(ts, IF CanCancel(ts, frameEvents) THEN frameEvents ELSE <<>>)

CancelTouchInput(ts) ==
    /\ batch = "closed"
    /\ CancelWithRetry(ts)
    /\ UNCHANGED <<touchSurface, lastTouchSurface, batch, consumer>>

DetachSurface(generation, ts) ==
    /\ batch = "closed"
    /\ touchSurface # 0 /\ generation = touchSurface
    /\ CancelWithRetry(ts)
    /\ touchSurface' = 0
    /\ UNCHANGED <<lastTouchSurface, batch, consumer>>
-----------------------------------------------------------------------------
(* TouchInputGameLoopAdapter::process_input                                *)

Mentions(id) == {i \in 1..Len(frameEvents) : frameEvents[i].id = id}

LastOf(S) == CHOOSE i \in S : \A j \in S : j <= i

\* Where a game that follows the events of this frame believes a pointer is.
Replayed(id) ==
    IF Mentions(id) = {} THEN consumer[id]
    ELSE LET e == frameEvents[LastOf(Mentions(id))] IN
         IF e.phase \in Ending THEN Unknown ELSE e.x

\* The frame is shown, then cleared whatever the game answers.
ProcessInputFrame ==
    /\ batch = "closed"
    /\ consumer' = [id \in PointerIds |-> Replayed(id)]
    /\ BeginFrame
    /\ UNCHANGED <<touchSurface, lastTouchSurface, lastEventTime, batch>>
-----------------------------------------------------------------------------
TouchNext ==
    \/ \E g \in 1..MaxSurface : AttachSurface(g)
    \/ \E g \in 1..MaxSurface, ts \in 0..MaxTime : DetachSurface(g, ts)
    \/ \E ts \in 0..MaxTime : CancelTouchInput(ts)
    \/ \E e \in PointerEvents : Process(e)
    \/ BatchRejected
    \/ BatchEnds
    \/ ProcessInputFrame

TouchSpec == TouchInit /\ [][TouchNext]_touchVars
-----------------------------------------------------------------------------
\* The buffers stay within the capacities they were created with, and no
\* pointer is active without a surface.
TouchTypeOK ==
    /\ Len(activePointers) <= MaxPointers /\ Len(frameEvents) <= MaxEvents
    /\ activePointers \in Seq([id : PointerIds, x : Positions, delta : Int, ts : 0..MaxTime])
    /\ frameEvents \in Seq(PointerEvents)
    /\ touchSurface \in 0..MaxSurface /\ lastTouchSurface \in 0..MaxSurface
    /\ lastEventTime \in 0..MaxTime
    /\ batch \in {"closed", "open", "internalError"}
    /\ consumer \in [PointerIds -> Positions \cup {Unknown}]
    /\ activePointers # <<>> => touchSurface # 0

\* The clean-up of a rejected batch always succeeds: wherever in the batch
\* the bad event stands and however full the frame was, the Internal error
\* of process_batch is unreachable.
CleanupSucceeds == batch # "internalError"

\* The game never misses the beginning of a pointer that is still active: a
\* game that replays the events of the frames it was shown finds every
\* active pointer where it is, also when batches were rejected and frames
\* emptied early; and the accumulated delta is the movement since it last
\* looked or since the pointer went down, whichever is later
\* (process, process_batch, begin_frame, process_input).
FrameExplainsPointers ==
    \A i \in Slots :
        LET p     == activePointers[i]
            downs == {j \in Mentions(p.id) : frameEvents[j].phase = "Down"}
            base  == IF downs = {} THEN consumer[p.id] ELSE frameEvents[LastOf(downs)].x IN
        /\ Replayed(p.id) = p.x
        /\ base \in Positions /\ p.x = base + p.delta

\* Events reach the game in the order of time and of surfaces: two
\* neighbours in a frame never go back in either, also across a detach, a
\* new surface and cancellations stamped by the shell.
FrameIsOrdered ==
    /\ \A i \in 1..(Len(frameEvents) - 1) :
          /\ frameEvents[i].ts <= frameEvents[i + 1].ts
          /\ frameEvents[i].generation <= frameEvents[i + 1].generation
    /\ frameEvents # <<>> =>
          /\ frameEvents[Len(frameEvents)].ts <= lastEventTime
          /\ frameEvents[Len(frameEvents)].generation <= lastTouchSurface

\* Capacities, types and order together: what every operation of the touch
\* input leaves intact (create, process, process_batch, cancel_all).
TouchInvariant == TouchTypeOK /\ FrameIsOrdered

\* Pointers that are not active, but that the game would go on believing in
\* if it were shown the frame as it is.
Stranded == {id \in PointerIds \ ActiveIds : Replayed(id) # Unknown}

\* The frame is emptied although the game has not seen it: because there was
\* no room for cancellations, or because a batch is rejected.
RoomIsMade == \E ts \in 0..MaxTime : ~CanCancel(ts, frameEvents) /\ CancelWithRetry(ts)

FrameDiscarded == RoomIsMade \/ BatchRejected

\* Only a frame that is discarded strands a pointer, and only one of which the
\* frame held the ending; whatever else ends a pointer or changes the frame,
\* the game that is shown the frame learns of every ending.  Of the pointers
\* that are active when the frame is discarded none is stranded (process,
\* process_batch, cancel_all, process_input).  That an ending may be lost with
\* a discarded frame is what the code does, not what it promises: see
\* NoStrandedTrack of module TouchPipeline.
EndsAreReported ==
    [][\A id \in Stranded' \ Stranded :
          /\ FrameDiscarded
          /\ id \notin ActiveIds
          /\ Mentions(id) # {} /\ frameEvents[LastOf(Mentions(id))].phase \in Ending]_touchVars
=============================================================================
