--------------------------- MODULE MCTouchPipeline ---------------------------
(* Instances of TouchPipeline for TLC.                                     *)
EXTENDS TouchPipeline, TLC

Bind(gesture, action) == [gesture |-> gesture, action |-> action]

\* One action bound to two gestures; and a rebinding of the first gesture.
OneAction == {<<Bind("Cancelled", 1), Bind("DragBegin", 1)>>}
TwoLists  == OneAction \cup {<<Bind("Cancelled", 2)>>}

PipelineSymmetry == Permutations(PointerIds)
=============================================================================
