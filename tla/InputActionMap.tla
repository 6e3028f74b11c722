--------------------------- MODULE InputActionMap ---------------------------
(***************************************************************************)
(* From gestures to the actions of the game: InputActionMap                *)
(* (engine/input/src/input_action_map.cpp).  A batch of gestures is        *)
(* validated as a whole before any of it is mapped, and a batch that fails *)
(* leaves no output and no trace in the time of the last gesture.  A       *)
(* replacement that is refused changes nothing and is a stuttering step.   *)
(*                                                                         *)
(* A gesture is what GestureRecognizer emits; of its payload only the time *)
(* and the pinch distance, which is zero exactly when the scale is, can    *)
(* make it invalid.                                                        *)
(***************************************************************************)
EXTENDS Integers, Sequences, SequencesExt

CONSTANTS ActionIds,            \* non-zero action identities
          MaxBindings,          \* maximum_bindings
          MaxMapGestures,       \* maximum_gesture_events_per_update
          MaxActions            \* maximum_action_events_per_update

ASSUME ActionMapAssumption ==
    MaxBindings \in Nat \ {0} /\ MaxMapGestures \in Nat \ {0} /\ MaxActions \in Nat \ {0}

VARIABLES bindings,             \* bindings_
          actions,              \* output_
          lastGestureTime       \* last_timestamp_ns_, 0 when there is none

actionVars == <<bindings, actions, lastGestureTime>>

Beginnings == {"DragBegin", "PanBegin", "PinchBegin"}
Endings    == {"DragEnd", "PanEnd", "PinchEnd"}
GestureTypes ==
    {"Tap", "DoubleTap", "LongPress", "DragUpdate", "Swipe", "PanUpdate", "PinchUpdate", "Cancelled"}
    \cup Beginnings \cup Endings

PhaseFor(gesture) ==
    CASE gesture.type \in Beginnings -> "Started"
      [] gesture.type \in Endings    -> IF gesture.cancelled THEN "Cancelled" ELSE "Completed"
      [] gesture.type = "Cancelled"  -> "Cancelled"
      [] OTHER                       -> "Performed"

IsValidGestureEvent(gesture) ==
    /\ gesture.type \in GestureTypes
    /\ gesture.distance > 0
    /\ gesture.type = "Cancelled" => gesture.cancelled
    /\ gesture.cancelled => gesture.type \in Endings \cup {"Cancelled"}

ActionsOf(gesture) ==
    LET matching == SelectSeq(bindings, LAMBDA b : b.gesture = gesture.type) IN
    [k \in DOMAIN matching |-> [action |-> matching[k].action, phase |-> PhaseFor(gesture),
                                source |-> gesture]]

\* Gesture order first, binding order within a gesture.
Mapped(batchOf) == FoldLeft(LAMBDA out, gesture : out \o ActionsOf(gesture), <<>>, batchOf)

AcceptsGestures(batchOf) ==
    /\ Len(batchOf) <= MaxMapGestures
    /\ \A k \in DOMAIN batchOf :
          /\ IsValidGestureEvent(batchOf[k])
          /\ batchOf[k].ts >= (IF k = 1 THEN lastGestureTime ELSE batchOf[k - 1].ts)
    /\ Len(Mapped(batchOf)) <= MaxActions
-----------------------------------------------------------------------------
ActionInit(initialBindings) ==
    bindings = initialBindings /\ actions = <<>> /\ lastGestureTime = 0

UpdateActions(batchOf) ==
    /\ UNCHANGED bindings
    /\ IF AcceptsGestures(batchOf)
       THEN /\ actions' = Mapped(batchOf)
            /\ lastGestureTime' = IF batchOf = <<>> THEN lastGestureTime
                                  ELSE batchOf[Len(batchOf)].ts
       ELSE actions' = <<>> /\ UNCHANGED lastGestureTime

ReplaceBindings(replacement) ==
    /\ Len(replacement) <= MaxBindings
    /\ \A k \in DOMAIN replacement : /\ replacement[k].action \in ActionIds
                                     /\ replacement[k].gesture \in GestureTypes
    /\ IsInjective(replacement)
    /\ bindings' = replacement /\ actions' = <<>>
    /\ UNCHANGED lastGestureTime
=============================================================================
