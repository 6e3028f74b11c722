--------------------------- MODULE MCPhysicsScene1D ---------------------------
(* PhysicsScene1D with one scene of at most three entities.  Everything that *)
(* makes a state more than freshly attached dynamic bodies at rest counts    *)
(* against one Budget: transforms, bodies of another type, velocities,       *)
(* forces, transforms written by the game, bodies whose entity or transform  *)
(* is lost (twice: each of them still needs a step to be retired) and slots  *)
(* that were used before.  Any few of them therefore meet in one state, and  *)
(* never all of them.                                                        *)
EXTENDS PhysicsScene1D, TLC

CONSTANT Budget

Definition(type, mass, restitution, isTrigger) ==
    [type |-> type, halfExtent |-> 1, mass |-> mass, restitution |-> restitution,
     isTrigger |-> isTrigger, layer |-> {1}, mask |-> {1}]

MCDefinitions ==
    {Definition("Dynamic", 1, 1, FALSE),
     [Definition("Dynamic", 3, 0, FALSE) EXCEPT !.layer = {1, 2}],
     Definition("Kinematic", 1, 1, FALSE),
     [Definition("Static", 1, 0, TRUE) EXCEPT !.mask = {1, 2}]}

MCOrigins == {-3, 0, 2}

Special == {i \in Alive(world) : world.slots[i].body.definition.type # "Dynamic"}
Moving  == {i \in Alive(world) : world.slots[i].body.velocity # 0}
Forced  == {i \in Alive(world) : world.slots[i].body.force # 0}
Dead    == {i \in DOMAIN world.slots : world.slots[i].body = Nothing \/ world.slots[i].generation > 1}
Written == {i \in DOMAIN entries : entries[i].entity \in written}
Lost    == {i \in DOMAIN entries : entries[i].entity \notin DOMAIN transforms}

Bounded ==
    Cardinality(DOMAIN transforms) + Cardinality(Special) + Cardinality(Moving) + Cardinality(Forced)
      + Cardinality(Written) + 2 * Cardinality(Lost) + Cardinality(Dead) <= Budget

EntitySymmetry == Permutations(Entities)
=============================================================================
