---------------------------- MODULE PhysicsScene2D ----------------------------
(***************************************************************************)
(* The bridge between a scene and the physics of its entities:             *)
(* PhysicsScene2D (engine/physics/src/two_d_scene.cpp), over the scenes of *)
(* module Scene and the bodies of module PhysicsWorld2D.                   *)
(*                                                                         *)
(* The bridge does not hold the scene: it remembers its identifier, and    *)
(* the game changes, moves and drops the scene between any two calls.  A   *)
(* call that is refused before it changes anything is a stuttering step.   *)
(* The bridge owns its world and stays in one place (moving it moves all   *)
(* it holds); positions are left out, as in the world.                     *)
(***************************************************************************)
EXTENDS Scene, PhysicsWorld2D, FiniteSets

CONSTANT Transform              \* Transform2D, one of the component types

ASSUME TransformAssumption == Transform \in ComponentTypes

VARIABLES boundTo,              \* scene_id_, 0 before create()
          entries,              \* entries_
          world,                \* world_
          touching              \* history: contacts the game was told of and not of their end

bridgeVars == <<boundTo, entries, world, touching>>
physicsVars == <<sceneVars, bridgeVars>>

PhysicsInit ==
    /\ SceneInit
    /\ boundTo = 0 /\ entries = <<>> /\ world = EmptyWorld /\ touching = {}
-----------------------------------------------------------------------------
\* validate_scene
IsBound(c) == boundTo # 0 /\ c.id = boundTo

HasTransform(c, h) == Owns(c, h) /\ HasComponent(c, h, Transform)

\* validate_entity_transform
IsSimulated(c, h) == HasTransform(c, h) /\ c.slots[h.index].parent = None

HasEntry(h) == \E i \in DOMAIN entries : entries[i].entity = h

CreateBridge(o) ==
    /\ boundTo = 0 /\ scenes[o].id # 0
    /\ boundTo' = scenes[o].id
    /\ UNCHANGED <<sceneVars, entries, world, touching>>

AttachBody(o, h) ==
    /\ IsBound(scenes[o]) /\ IsSimulated(scenes[o], h) /\ ~HasEntry(h)
    /\ CanCreateBody(world)
    /\ entries' = Append(entries, [entity |-> h, body |-> NextBody(world)])
    /\ world' = WithBody(world)
    /\ UNCHANGED <<sceneVars, boundTo, touching>>

\* World and entries without the i-th of the entries.
Without(r, i) ==
    [world |-> WithoutBody(r.world, r.entries[i].body), entries |-> RemoveAt(r.entries, i)]

\* The entity need not be alive.
DetachBody(o, h) ==
    /\ IsBound(scenes[o]) /\ HasEntry(h)
    /\ \E i \in DOMAIN entries :
          /\ entries[i].entity = h
          /\ LET r == Without([world |-> world, entries |-> entries], i) IN
             world' = r.world /\ entries' = r.entries
    /\ UNCHANGED <<sceneVars, boundTo, touching>>
-----------------------------------------------------------------------------
(* step                                                                    *)

IsGone(c, entry) == ~HasTransform(c, entry.entity)

\* An attached entity was given a parent: refused before anything changes.
Refused(c) ==
    \E i \in DOMAIN entries : ~IsGone(c, entries[i]) /\ ~IsSimulated(c, entries[i].entity)

\* Seeded fault: an entity without its Transform2D keeps its body.
BrokenGone(c, list) == {i \in DOMAIN list : ~Owns(c, list[i].entity)}

Gone(c, list) == {i \in DOMAIN list : IsGone(c, list[i])}

\* The loop over the entries: the bridge after n retirements, or after all of
\* them where there are fewer.
Retirements(c) ==
    LET after[n \in 0..Len(entries)] ==
          IF n = 0 THEN [world |-> world, entries |-> entries]
          ELSE LET r == after[n - 1] IN
               IF Gone(c, r.entries) = {} THEN r ELSE Without(r, Min(Gone(c, r.entries)))
    IN after

\* Seeded fault: the retirements are forgotten when the world fails.
BrokenStepFails(o) ==
    /\ IsBound(scenes[o]) /\ ~Refused(scenes[o])
    /\ world' = Retirements(scenes[o])[Len(entries)].world
    /\ UNCHANGED <<sceneVars, boundTo, entries, touching>>

\* Out of memory at one of the retirements, or the step of the world fails
\* after all of them: what was retired stays so.
StepFails(o) ==
    /\ IsBound(scenes[o]) /\ ~Refused(scenes[o])
    /\ \E n \in 0..Len(entries) :
          LET r == Retirements(scenes[o])[n] IN world' = r.world /\ entries' = r.entries
    /\ UNCHANGED <<sceneVars, boundTo, touching>>

StepBridge(o) ==
    /\ IsBound(scenes[o]) /\ ~Refused(scenes[o])
    /\ LET r == Retirements(scenes[o])[Len(entries)] IN
       \E contacts \in ContactLists(r.world) :
          /\ world' = Stepped(r.world, contacts)
          /\ entries' = r.entries
          /\ touching' = Told(touching, Transitions(r.world.contacts, contacts), r.entries)
    /\ UNCHANGED <<sceneVars, boundTo>>

\* The game works on its scenes.
SceneStep == SceneNext /\ UNCHANGED bridgeVars

PhysicsNext ==
    \/ SceneStep
    \/ \E o \in Objects :
          \/ CreateBridge(o) \/ StepBridge(o) \/ StepFails(o)
          \/ \E h \in LiveHandles(scenes[o]) : AttachBody(o, h)
          \/ \E entry \in ToSet(entries) : DetachBody(o, entry.entity)

PhysicsSpec == PhysicsInit /\ [][PhysicsNext]_physicsVars
-----------------------------------------------------------------------------
\* Contents of the bridge are well formed, and the counter of bodies counts.
PhysicsTypeOK ==
    /\ boundTo \in 0..MaxSceneId
    /\ entries \in Seq([entity : Handles, body : Bodies])
    /\ world.slots \in Seq([alive : BOOLEAN, generation : 0..MaxBodyGeneration])
    /\ world.free \in Seq(1..MaxBodies)
    /\ world.contacts \in Seq(Contacts) /\ Len(world.contacts) <= MaxContacts
    /\ world.count = Cardinality(LiveBodies(world)) /\ world.count <= MaxBodies
    /\ touching \subseteq [contact : Contacts, between : SUBSET Handles]

\* One body for each attached entity and none else: whatever happened to the
\* scene between two steps, and wherever a step failed, no body is left
\* without its entry and no entry without its body, so the errors that step
\* reports after the world has moved are unreachable (attach, detach, step).
BodiesMatchEntries ==
    /\ {entries[i].body : i \in DOMAIN entries} = LiveBodies(world)
    /\ \A i, j \in DOMAIN entries :
          i # j => entries[i].entity # entries[j].entity /\ entries[i].body # entries[j].body

\* Types, counter, bodies and entries together, after every call of the
\* bridge, the failed ones included.
BridgeInvariant == PhysicsTypeOK /\ BodiesMatchEntries

\* A step leaves bodies only to entities that are alive, have their
\* Transform2D and no parent: an entity destroyed, or one whose slot was
\* given to another, never moves again (step).
StepRetiresTheGone ==
    [][\A o \in Objects : StepBridge(o) =>
          \A i \in DOMAIN entries' : IsSimulated(scenes[o], entries'[i].entity)]_physicsVars

\* The game that follows the Begin and End events knows exactly the contacts
\* of the last successful step: bodies may be destroyed, their slots reused
\* and steps fail in between (step, destroy_body).
GameKnowsTheContacts == {k.contact : k \in touching} = ToSet(world.contacts)

\* And each event is right when it comes: nothing is begun that the game
\* knows of, nothing goes on or ends that was not begun, nothing it knows is
\* passed over and nothing told twice; in the order of slots, the end of a
\* contact before the beginning of the next in its slots, whatever was
\* destroyed, reused or failed since the last step that succeeded
\* (docs/PHYSICS-2D.md:81-92; step, destroy_body).
ContactEventsMakeSense ==
    [][\A o \in Objects : StepBridge(o) =>
          MakeSense(Transitions(world.contacts, world'.contacts),
                    {k.contact : k \in touching})]_physicsVars

\* A contact the game was told of between two living bodies is still one of
\* the entities it was told of: a body in a reused slot never stays in the
\* contact of its predecessor, whose entity is another (attach, step,
\* create_body, destroy_body).
ContactsKeepTheirEntities ==
    \A k \in touching :
        IsBody(world, k.contact.first) /\ IsBody(world, k.contact.second) =>
            k.between = {EntityOf(k.contact.first, entries), EntityOf(k.contact.second, entries)}
=============================================================================
