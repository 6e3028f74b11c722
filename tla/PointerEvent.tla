---------------------------- MODULE PointerEvent ----------------------------
(***************************************************************************)
(* PointerEvent, the message between the shells, TouchInput and            *)
(* GestureRecognizer (engine/input/include/storm/input/touch_input.hpp).   *)
(*                                                                         *)
(* One coordinate stands for both axes.  NonFinite stands for coordinates  *)
(* and movements that are not finite numbers.                              *)
(***************************************************************************)
EXTENDS Integers, Sequences

CONSTANTS PointerIds,
          Positions,          \* finite coordinates
          NonFinite,
          MaxTime,            \* bound of the model on timestamps
          MaxSurface          \* bound of the model on surface generations

ASSUME PositionAssumption == Positions \subseteq Int /\ NonFinite \notin Positions
ASSUME BoundAssumption    == MaxTime \in Nat /\ MaxSurface \in Nat

Phases == {"Down", "Move", "Up", "Cancel"}
Ending == {"Up", "Cancel"}

PointerEvents ==
    [id : PointerIds, phase : Phases, x : Positions \cup {NonFinite},
     ts : 0..MaxTime, generation : 1..MaxSurface]
=============================================================================
