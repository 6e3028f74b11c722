-------------------------------- MODULE Scene --------------------------------
(***************************************************************************)
(* Scenes and their entities: Scene (engine/core/src/scene.cpp,            *)
(* engine/core/include/storm/core/scene.hpp).                              *)
(*                                                                         *)
(* `Objects' are the C++ objects of type Scene; each is used by one thread *)
(* at a time, and the threads share nothing but the counter of scene       *)
(* identifiers.  What an object holds moves between objects; handles name  *)
(* what is held, never the object.                                         *)
(*                                                                         *)
(* An operation is a function from contents to contents and its guard is   *)
(* where it succeeds.  A call that is rejected, or finds no memory, changes *)
(* nothing and is a stuttering step: every allocation comes before the     *)
(* first assignment.  Names and the values of components are left out.     *)
(* Slots are counted from one.                                             *)
(***************************************************************************)
EXTENDS Naturals, Sequences, SequencesExt

CONSTANTS Objects,
          ComponentTypes,
          MaxSceneId,           \* std::numeric_limits<SceneId>::max()
          MaxEntities,          \* std::numeric_limits<EntityIndex>::max()
          MaxGeneration,        \* std::numeric_limits<EntityGeneration>::max()
          None                  \* no parent

ASSUME LimitAssumption ==
    MaxSceneId \in Nat \ {0} /\ MaxEntities \in Nat \ {0} /\ MaxGeneration \in Nat \ {0}

Handles == [scene : 1..MaxSceneId, index : 1..MaxEntities, generation : 0..MaxGeneration]

ASSUME NoneAssumption == None \notin Handles

Slots == [generation : 0..MaxGeneration, alive : BOOLEAN,
          parent : Handles \cup {None}, children : Seq(Handles)]

VARIABLES scenes,               \* per object: scene_id_ (0: moved from), entities_,
                                \* free_entity_indices_, component_storages_
          nextSceneId,          \* next_scene_id
          candidate,            \* per object under construction: the identifier tried, or 0
          ended                 \* history: handles that were alive once

sceneVars == <<scenes, nextSceneId, candidate, ended>>

MovedFrom == [id |-> 0, slots |-> <<>>, free |-> <<>>, components |-> {}]

SceneInit ==
    /\ scenes = [o \in Objects |-> MovedFrom]
    /\ nextSceneId = 1
    /\ candidate = [o \in Objects |-> 0]
    /\ ended = {}
-----------------------------------------------------------------------------
(* What the contents of a scene say.                                       *)

Owns(c, h) ==
    /\ h # None /\ c.id # 0 /\ h.scene = c.id
    /\ h.index \in DOMAIN c.slots
    /\ c.slots[h.index].alive /\ c.slots[h.index].generation = h.generation

HandleAt(c, i) == [scene |-> c.id, index |-> i, generation |-> c.slots[i].generation]

Live(c) == {i \in DOMAIN c.slots : c.slots[i].alive}

\* The handles c accepts; a call with any other is rejected.
LiveHandles(c) == {HandleAt(c, i) : i \in Live(c)}

\* No walk inside S goes on forever.
Grounded(c, S) ==
    \A T \in SUBSET S :
        T # {} => \E i \in T : c.slots[i].parent # None => c.slots[i].parent.index \notin T
-----------------------------------------------------------------------------
(* create_entity and destroy_entity                                        *)

NewSlot == [generation |-> 1, alive |-> TRUE, parent |-> None, children |-> <<>>]

CanCreate(c) == c.id # 0 /\ (c.free # <<>> \/ Len(c.slots) < MaxEntities)

\* Seeded fault: the index stays on the free list.
BrokenWithEntity(c) ==
    IF c.free # <<>>
    THEN [c EXCEPT !.slots[c.free[Len(c.free)]] = [NewSlot EXCEPT !.generation = c.slots[c.free[Len(c.free)]].generation]]
    ELSE [c EXCEPT !.slots = Append(@, NewSlot)]

\* The slot freed last is reused with the generation it was given when it
\* was freed; otherwise the vector grows.
WithEntity(c) ==
    IF c.free # <<>>
    THEN LET i == c.free[Len(c.free)] IN
         [c EXCEPT !.slots[i] = [NewSlot EXCEPT !.generation = c.slots[i].generation],
                   !.free = SubSeq(@, 1, Len(@) - 1)]
    ELSE [c EXCEPT !.slots = Append(@, NewSlot)]

Retired(slot) == slot.generation = MaxGeneration

\* The increment of an unsigned number.
Successor(generation) == IF generation = MaxGeneration THEN 0 ELSE generation + 1

\* Seeded fault: components stay behind.
BrokenErased(c, i) == c.components

\* The components of slot i are erased from every storage.
Erased(c, i) == {k \in c.components : k.index # i}

\* The entity leaves its parent, its children become roots.
WithoutEntity(c, h) ==
    LET entity    == c.slots[h.index]
        Left(i, s) ==
            IF i = h.index
            THEN [s EXCEPT !.parent = None, !.children = <<>>, !.alive = FALSE,
                           !.generation = IF Retired(entity) THEN @ ELSE Successor(@)]
            ELSE [s EXCEPT
                    !.children = IF Owns(c, entity.parent) /\ entity.parent.index = i
                                 THEN RemoveFirst(@, h) ELSE @,
                    !.parent = IF \E k \in ToSet(entity.children) : Owns(c, k) /\ k.index = i /\ @ = h
                               THEN None ELSE @] IN
    [c EXCEPT !.slots = [i \in DOMAIN c.slots |-> Left(i, c.slots[i])],
              !.free = IF Retired(entity) THEN @ ELSE Append(@, h.index),
              !.components = Erased(c, h.index)]
-----------------------------------------------------------------------------
(* set_parent                                                              *)

\* Seeded fault: only the parent itself is compared with the child.
BrokenMayAdopt(c, child, parent) == child # parent

\* The ancestors that the walk up from `parent' visits, None once it has
\* ended; it takes as many steps as there are slots.
Visited(c, parent) ==
    LET walk[n \in 0..Len(c.slots)] ==
          IF n = 0 THEN parent
          ELSE IF Owns(c, walk[n - 1]) THEN c.slots[walk[n - 1].index].parent ELSE None
    IN walk

\* The walk meets neither the child nor a stale handle, and ends.
MayAdopt(c, child, parent) ==
    LET walk == Visited(c, parent) IN
    /\ \A n \in DOMAIN walk : walk[n] # child /\ (walk[n] = None \/ Owns(c, walk[n]))
    /\ walk[Len(c.slots)] = None

\* The new edge is entered, as the last, before the old one is removed.
Reparented(c, child, parent) ==
    LET old == c.slots[child.index].parent
        Adopted(i, s) ==
            [s EXCEPT !.children =
                IF parent # None /\ parent.index = i
                THEN IF Contains(@, child) THEN @ ELSE Append(@, child)
                ELSE IF Owns(c, old) /\ old.index = i THEN RemoveFirst(@, child)
                ELSE @] IN
    [c EXCEPT !.slots = [i \in DOMAIN c.slots |->
                           [Adopted(i, c.slots[i]) EXCEPT
                              !.parent = IF i = child.index THEN parent ELSE @]]]
-----------------------------------------------------------------------------
(* add_component.  Storages are keyed by slot; the handle that was used is *)
(* history.                                                                *)

HasComponent(c, h, type) == \E k \in c.components : k.type = type /\ k.index = h.index

WithComponent(c, h, type) ==
    [c EXCEPT !.components = @ \cup {[type |-> type, index |-> h.index, addedTo |-> h]}]
-----------------------------------------------------------------------------
(* The operations.                                                         *)

AliveIn(contents) == UNION {LiveHandles(contents[o]) : o \in Objects}

Idle(o) == candidate[o] = 0

\* The objects hold `contents' from now on.
Becomes(contents) ==
    /\ scenes' = contents
    /\ ended' = ended \cup (AliveIn(scenes) \ AliveIn(contents))

Updates(o, c) ==
    /\ Idle(o)
    /\ Becomes([scenes EXCEPT ![o] = c])
    /\ UNCHANGED <<nextSceneId, candidate>>

\* allocate_scene_id: the load and the loop of exchanges, which may fail for
\* no reason; a failure tries the identifier it found.  The largest
\* number is never given out.
Usable(id) == IF id = MaxSceneId THEN 0 ELSE id

LoadSceneId(o) ==
    /\ Idle(o)
    /\ candidate' = [candidate EXCEPT ![o] = Usable(nextSceneId)]
    /\ UNCHANGED <<scenes, nextSceneId, ended>>

ExchangeFails(o) ==
    /\ ~Idle(o)
    /\ candidate' = [candidate EXCEPT ![o] = Usable(nextSceneId)]
    /\ UNCHANGED <<scenes, nextSceneId, ended>>

\* Seeded fault: the counter is stored, not exchanged.
BrokenCreateScene(o) ==
    /\ ~Idle(o)
    /\ nextSceneId' = candidate[o] + 1
    /\ candidate' = [candidate EXCEPT ![o] = 0]
    /\ Becomes([scenes EXCEPT ![o] = [MovedFrom EXCEPT !.id = candidate[o]]])

\* The exchange succeeds; the scene replaces what the object held.
CreateScene(o) ==
    /\ ~Idle(o) /\ candidate[o] = nextSceneId
    /\ nextSceneId' = nextSceneId + 1
    /\ candidate' = [candidate EXCEPT ![o] = 0]
    /\ Becomes([scenes EXCEPT ![o] = [MovedFrom EXCEPT !.id = candidate[o]]])

MoveScene(from, to) ==
    /\ from # to /\ Idle(from) /\ Idle(to)
    /\ Becomes([scenes EXCEPT ![to] = scenes[from], ![from] = MovedFrom])
    /\ UNCHANGED <<nextSceneId, candidate>>

CreateEntity(o) == CanCreate(scenes[o]) /\ Updates(o, WithEntity(scenes[o]))

DestroyEntity(o, h) == Owns(scenes[o], h) /\ Updates(o, WithoutEntity(scenes[o], h))

SetParent(o, child, parent) ==
    LET c == scenes[o] IN
    /\ Owns(c, child) /\ c.slots[child.index].parent # parent
    /\ parent # None => Owns(c, parent) /\ MayAdopt(c, child, parent)
    /\ Updates(o, Reparented(c, child, parent))

AddComponent(o, h, type) ==
    LET c == scenes[o] IN
    /\ Owns(c, h) /\ ~HasComponent(c, h, type)
    /\ Updates(o, WithComponent(c, h, type))

RemoveComponent(o, h, type) ==
    LET c == scenes[o] IN
    /\ Owns(c, h) /\ HasComponent(c, h, type)
    /\ Updates(o, [c EXCEPT !.components = {k \in @ : k.type # type \/ k.index # h.index}])

SceneNext ==
    \E o \in Objects :
        \/ LoadSceneId(o) \/ ExchangeFails(o) \/ CreateScene(o)
        \/ \E to \in Objects : MoveScene(o, to)
        \/ CreateEntity(o)
        \/ \E h \in LiveHandles(scenes[o]) :
              \/ DestroyEntity(o, h)
              \/ \E parent \in LiveHandles(scenes[o]) \cup {None} : SetParent(o, h, parent)
              \/ \E type \in ComponentTypes : AddComponent(o, h, type) \/ RemoveComponent(o, h, type)

SceneSpec == SceneInit /\ [][SceneNext]_sceneVars
-----------------------------------------------------------------------------
Components == [type : ComponentTypes, index : 1..MaxEntities, addedTo : Handles]

SceneType == [id : 0..(MaxSceneId - 1), slots : Seq(Slots), free : Seq(1..MaxEntities),
              components : SUBSET Components]

\* Contents are well formed and within the index space.
SceneTypeOK ==
    /\ \A o \in Objects : scenes[o] \in SceneType /\ Len(scenes[o].slots) <= MaxEntities
    /\ DOMAIN scenes = Objects
    /\ nextSceneId \in 1..MaxSceneId
    /\ candidate \in [Objects -> 0..(MaxSceneId - 1)]
    /\ ended \subseteq Handles

\* The two sides of every edge agree, each child is listed once, and edges
\* lead from live to live.
EdgesAgree(c) ==
    \A i \in DOMAIN c.slots :
        /\ ToSet(c.slots[i].children) = {HandleAt(c, j) : j \in
              {k \in Live(c) : c.slots[k].parent # None /\ c.slots[k].parent = HandleAt(c, i)}}
        /\ IsInjective(c.slots[i].children)
        /\ c.slots[i].parent # None => i \in Live(c) /\ Owns(c, c.slots[i].parent)

\* No order of creations, destructions and reparentings leaves a hierarchy
\* that is not a forest: the walk of set_parent never meets the stale parent
\* or the endless loop it guards against (create_entity, destroy_entity,
\* set_parent).
HierarchyIsForest ==
    \A o \in Objects : EdgesAgree(scenes[o]) /\ Grounded(scenes[o], DOMAIN scenes[o].slots)

FreeIsExact(c) ==
    /\ \A a, b \in DOMAIN c.free : c.free[a] = c.free[b] => a = b
    /\ \A a \in DOMAIN c.free : c.free[a] \in DOMAIN c.slots \ Live(c)
    /\ \A i \in DOMAIN c.slots \ Live(c) :
          Retired(c.slots[i]) \/ \E a \in DOMAIN c.free : c.free[a] = i

\* Every dead slot waits once for its reuse, but for the retired ones, and
\* no live slot does (create_entity, destroy_entity).
FreeSlotsAreExact == \A o \in Objects : FreeIsExact(scenes[o])

\* Contents and free lists together, after every operation and move of
\* every scene object.
SceneInvariant == SceneTypeOK /\ FreeSlotsAreExact

\* A handle whose entity was destroyed, or whose scene was dropped, never
\* becomes valid again: not through a reused slot, not at the end of the
\* generations, not in another scene or object; and two objects never hold
\* one scene (create, create_entity, destroy_entity, operator=).
HandlesDieOnce ==
    /\ ended \cap AliveIn(scenes) = {}
    /\ \A o, p \in Objects : o # p /\ scenes[o].id # 0 => scenes[o].id # scenes[p].id

\* A component found through a live handle is one that was added through
\* that handle, never one left by an earlier entity of the slot
\* (add_component, destroy_entity).
ComponentsFollowTheirEntity ==
    \A o \in Objects : \A k \in scenes[o].components :
        k.index = k.addedTo.index /\ Owns(scenes[o], k.addedTo)
=============================================================================
