-------------------------- MODULE MCEventDispatcher --------------------------
(* EventDispatcher by itself, with its event types, and the application's  *)
(* handles, interchangeable.                                               *)
EXTENDS EventDispatcher, TLC

DispatcherSymmetry == Permutations(Events) \cup Permutations(Handles)
=============================================================================
