--------------------------- MODULE MCPhysicsScene2D ---------------------------
(* PhysicsScene2D under a budget shared by what grows: the identifiers of  *)
(* scenes, those being allocated, the entity slots of all objects together *)
(* and the body slots.                                                     *)
(* Two scenes with two slots and a body, one with three and a body, or one *)
(* with two and two bodies fit into a budget of six.  Three bodies, whose  *)
(* contacts are in different slots, are given to one scene that lies still *)
(* under them, and their slots may be used twice again.                    *)
EXTENDS PhysicsScene2D, TLC

CONSTANT Budget

EntitySlots == LET Sum[S \in SUBSET Objects] ==
                     IF S = {} THEN 0
                     ELSE LET o == CHOOSE o \in S : TRUE IN Len(scenes[o].slots) + Sum[S \ {o}]
               IN Sum[Objects]

Allocating == {o \in Objects : ~Idle(o)}

Changing ==
    /\ nextSceneId + Cardinality(Allocating) + EntitySlots + Len(world.slots) <= Budget
    /\ Len(world.slots) <= 2

BodiesGiven == FoldFunction(+, 0, [i \in DOMAIN world.slots |-> world.slots[i].generation])

Still ==
    /\ nextSceneId = 2 /\ Allocating = {}
    /\ \A o \in Objects : \A i \in DOMAIN scenes[o].slots :
          scenes[o].slots[i].parent = None /\ scenes[o].slots[i].generation = 1
    /\ BodiesGiven <= MaxBodies + 2

Bounded == Changing \/ Still

ObjectSymmetry == Permutations(Objects)
=============================================================================
