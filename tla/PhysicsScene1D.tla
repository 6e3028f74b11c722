---------------------------- MODULE PhysicsScene1D ----------------------------
(***************************************************************************)
(* The bridge between a scene and the physics of its entities on a line:   *)
(* PhysicsScene1D (engine/physics/src/one_d_scene.cpp), over the bodies of *)
(* module PhysicsWorld1D.                                                  *)
(*                                                                         *)
(* Of the scene the bridge asks only whether an entity is alive and has a  *)
(* Transform1D, and both change between any two calls.  `Entities' are     *)
(* handles; module Scene shows that none of them ever names two entities,  *)
(* so an entity that was destroyed is here one that lost its transform and *)
(* may, which is more than the scene allows, get one again.  A call that   *)
(* is refused before it changes anything, also for the wrong scene, is a   *)
(* stuttering step.                                                        *)
(***************************************************************************)
EXTENDS PhysicsWorld1D

CONSTANTS Entities,
          Placements,           \* positions the game gives to transforms and bodies
          Velocities,           \* initial and set velocities
          Changes,              \* forces and impulses
          Gravities,
          Origins, Lengths      \* of rays

ASSUME PlacementAssumption ==
    /\ Placements \cup Velocities \cup Changes \cup Gravities \cup Origins \subseteq Numbers
    /\ Lengths \subseteq 0..MaxNumber

VARIABLES entries,              \* entries_
          world,                \* world_
          transforms,           \* Transform1D::position of each entity that has one
          touching,             \* history: contacts the game was told of and not of their end
          written               \* history: entities whose transform the game has set since

physicsVars == <<entries, world, transforms, touching, written>>

\* create
PhysicsInit ==
    /\ entries = <<>> /\ world = EmptyWorld
    /\ transforms = <<>> /\ touching = {} /\ written = {}
-----------------------------------------------------------------------------
(* The game works on its scene.                                            *)

\* A Transform1D is added, or its position set without the bridge.
WriteTransform(h, position) ==
    /\ transforms' = [k \in DOMAIN transforms \cup {h} |-> IF k = h THEN position ELSE transforms[k]]
    /\ written' = written \cup {h}
    /\ UNCHANGED <<entries, world, touching>>

\* The component is removed or the entity destroyed.
LoseTransform(h) ==
    /\ h \in DOMAIN transforms
    /\ transforms' = [k \in DOMAIN transforms \ {h} |-> transforms[k]]
    /\ written' = written \ {h}
    /\ UNCHANGED <<entries, world, touching>>
-----------------------------------------------------------------------------
(* What the game asks of the bridge.                                       *)

HasEntry(h) == \E i \in DOMAIN entries : entries[i].entity = h

\* The body begins where the transform is.
AttachBody(h, definition, velocity) ==
    /\ h \in DOMAIN transforms /\ ~HasEntry(h)
    /\ CanCreateBody(world, definition, velocity)
    /\ entries' = Append(entries, [entity |-> h, body |-> NextBody(world)])
    /\ world' = WithBody(world, definition, transforms[h], velocity)
    /\ written' = written \ {h}
    /\ UNCHANGED <<transforms, touching>>

\* The bridge r without its k-th entry and that entry's body.
Without(r, k) == [world   |-> WithoutBody(r.world, r.entries[k].body),
                  entries |-> RemoveAt(r.entries, k)]

\* The entity need not be alive.
DetachBody(k) ==
    /\ LET r == Without([world |-> world, entries |-> entries], k) IN
       world' = r.world /\ entries' = r.entries
    /\ UNCHANGED <<transforms, touching, written>>

\* The setters need the entity, its transform and its body.
IsDriven(entry) == entry.entity \in DOMAIN transforms

SetPosition(entry, position) ==
    /\ IsDriven(entry)
    /\ world' = Positioned(world, entry.body, position)
    /\ transforms' = [transforms EXCEPT ![entry.entity] = position]
    /\ written' = written \ {entry.entity}
    /\ UNCHANGED <<entries, touching>>

\* set_velocity, apply_force or apply_impulse gave this world.
Drive(entry, w) ==
    /\ IsDriven(entry) /\ world' = w
    /\ UNCHANGED <<entries, transforms, touching, written>>

SetVelocity(entry, velocity) ==
    CanSetVelocity(world, entry.body, velocity)
      /\ Drive(entry, WithVelocity(world, entry.body, velocity))

ApplyForce(entry, force) ==
    CanApplyForce(world, entry.body, force) /\ Drive(entry, WithForce(world, entry.body, force))

ApplyImpulse(entry, change) ==
    CanApplyImpulse(world, entry.body, change)
      /\ Drive(entry, WithImpulse(world, entry.body, change))
-----------------------------------------------------------------------------
(* step                                                                    *)

Gone(list) == {i \in DOMAIN list : list[i].entity \notin DOMAIN transforms}

\* The loop over the entries: the bridge after n retirements, or after all of
\* them where there are fewer.
Retirements ==
    LET after[n \in 0..Len(entries)] ==
          IF n = 0 THEN [world |-> world, entries |-> entries]
          ELSE LET r == after[n - 1] IN
               IF Gone(r.entries) = {} THEN r ELSE Without(r, Min(Gone(r.entries)))
    IN after

\* Seeded fault: bodies are destroyed before the entries, all of them, are.
BrokenStepFails ==
    /\ \E n \in 0..Len(entries) : world' = Retirements[n].world /\ UNCHANGED entries
    /\ UNCHANGED <<transforms, touching, written>>

\* Out of memory at a retirement, or the step of the world fails after all
\* of them, for lack of memory, a limit or a number: what was retired stays
\* so and the rest is as it was.
StepFails ==
    /\ \E n \in 0..Len(entries) :
          LET r == Retirements[n] IN world' = r.world /\ entries' = r.entries
    /\ UNCHANGED <<transforms, touching, written>>

\* Bodies that are gone are destroyed, the world makes its step, and the
\* transforms follow.
StepBridge(gravity) ==
    /\ LET r == Retirements[Len(entries)]
           simulated == Simulated(r.world, gravity) IN
       /\ CanStep(r.world, gravity, simulated)
       /\ world' = Stepped(r.world, simulated)
       /\ entries' = r.entries
       /\ touching' = Told(touching, Transitions(r.world.contacts, world'.contacts), entries')
    /\ transforms' = [h \in DOMAIN transforms |->
                         IF \E entry \in ToSet(entries') : entry.entity = h
                         THEN BodyOf(world', (CHOOSE entry \in ToSet(entries') : entry.entity = h).body).position
                         ELSE transforms[h]]
    /\ written' = written \ {entries'[i].entity : i \in DOMAIN entries'}

PhysicsNext ==
    \/ \E h \in Entities :
          \/ \E position \in Placements : WriteTransform(h, position)
          \/ LoseTransform(h)
          \/ \E definition \in Definitions, velocity \in Velocities : AttachBody(h, definition, velocity)
    \/ \E k \in DOMAIN entries : DetachBody(k)
    \/ \E entry \in ToSet(entries) :
          \/ \E position \in Placements : SetPosition(entry, position)
          \/ \E velocity \in Velocities : SetVelocity(entry, velocity)
          \/ \E change \in Changes : ApplyForce(entry, change) \/ ApplyImpulse(entry, change)
    \/ \E gravity \in Gravities : StepBridge(gravity)
    \/ StepFails

PhysicsSpec == PhysicsInit /\ [][PhysicsNext]_physicsVars
-----------------------------------------------------------------------------
\* Contents of the bridge are well formed, numbers included.
PhysicsTypeOK ==
    /\ entries \in Seq([entity : Entities, body : Bodies])
    /\ WorldTypeOK(world)
    /\ DOMAIN transforms \subseteq Entities /\ \A h \in DOMAIN transforms : IsFinite(transforms[h])
    /\ touching \subseteq [contact : Contacts, between : SUBSET Entities]

\* One body for each attached entity and none else, wherever a step failed.
BodiesMatchEntries ==
    /\ {entries[i].body : i \in DOMAIN entries} = LiveBodies(world)
    /\ \A i, j \in DOMAIN entries :
          i # j => entries[i].entity # entries[j].entity /\ entries[i].body # entries[j].body

\* A transform is where the body of its entity is, but for one that the game
\* itself has written since.
TransformsFollow ==
    \A i \in DOMAIN entries :
        LET h == entries[i].entity IN
        h \in DOMAIN transforms \ written => transforms[h] = BodyOf(world, entries[i].body).position

\* Types, bodies, entries and transforms stay together: after steps that
\* retired some entities and then failed, after detaching the dead, and when
\* slots of bodies and of entities are reused (attach, detach, set_position,
\* step, create_body, destroy_body).
BridgeInvariant == PhysicsTypeOK /\ BodiesMatchEntries /\ TransformsFollow

\* The game that follows the Begin and End events knows exactly the contacts
\* of the last successful step and, while both bodies live, between which
\* entities they are: whatever was destroyed, reused or failed in between
\* (docs/1D-GAME-DEVELOPMENT.md:58-68; step, destroy_body).
GameKnowsTheContacts ==
    /\ {k.contact : k \in touching} = ToSet(world.contacts)
    /\ \A k \in touching :
          IsBody(world, k.contact.first) /\ IsBody(world, k.contact.second) =>
              k.between = {EntityOf(k.contact.first, entries), EntityOf(k.contact.second, entries)}

\* And each event is right when it comes: nothing is begun that the game
\* knows of, nothing goes on or ends that was not begun, nothing it knows is
\* passed over and nothing told twice; in the order of slots, the end of a
\* contact before the beginning of the next in its slots (step,
\* destroy_body).
ContactEventsMakeSense ==
    [][\A gravity \in Gravities : StepBridge(gravity) =>
          MakeSense(Transitions(world.contacts, world'.contacts),
                    {k.contact : k \in touching})]_physicsVars

\* In every world the game can build a ray hits the first body on its way,
\* and the overlap query knows of no earlier one (overlap_query, raycast).
QueriesAgree ==
    IsAtRest(world) =>
        \A mask \in {{layer} : layer \in Layers}, triggers \in BOOLEAN :
            CanQuery(world, mask, triggers) =>
                \A origin \in Origins, direction \in {-1, 1}, maximum \in Lengths :
                    IsFinite(origin + direction * maximum) =>
                        QueriesAgreeIn(world, origin, direction, maximum, mask, triggers)

\* In every world the game can build, and however many bodies meet in one
\* step, the pairs resolved one after the other keep momentum, make no
\* energy and miss no overlap that an earlier pair has caused (step).
CollisionsResolve == \A gravity \in Gravities : CollisionsResolveIn(world, gravity)
=============================================================================
