----------------------------- MODULE SceneArchive -----------------------------
(***************************************************************************)
(* Saving a scene and loading it again: SceneSerializer                    *)
(* (engine/serialization/include/storm/serialization/scene_serializer.hpp) *)
(* with BinaryWriter and BinaryReader (engine/serialization/src/           *)
(* binary_archive.cpp), over the scenes of module Scene.                   *)
(*                                                                         *)
(* An archive is the sequence of its fields, each a number; a limit on     *)
(* bytes bounds fields.  Names, written and read back as they are, are     *)
(* left out; the payload of a component is as many fields as its codec     *)
(* writes, all zero, and any other value stands for one the codec refuses; *)
(* what a codec agrees to write it reads again.  Entity identifiers of the *)
(* archive are counted from zero.                                          *)
(*                                                                         *)
(* The application keeps one archive in a file.  A process that saves ends *)
(* there and the next begins with the file alone, which may have been cut, *)
(* extended or altered, once.                                              *)
(***************************************************************************)
EXTENDS Scene, FiniteSets

CONSTANTS TypeId,               \* per component type: ComponentCodec<>::type_id, as its rank
          Width,                \* per component type: the fields its codec writes
          DefaultLimits,        \* SceneArchiveLimits
          Limits                \* the limits in use

ASSUME CodecAssumption ==
    /\ TypeId \in [ComponentTypes -> Nat \ {0}] /\ IsInjective(TypeId)
    /\ Width \in [ComponentTypes -> Nat]

ASSUME LimitsAssumption ==
    /\ Limits \subseteq [bytes : Nat, entities : Nat, types : Nat, records : Nat, payload : Nat]
    /\ DefaultLimits \in Limits

VARIABLES file,                 \* the archive kept, or None
          damaged               \* it is no longer as it was saved

archiveVars == <<sceneVars, file, damaged>>

Magic == 5                      \* kSceneArchiveMagic
Version == 1                    \* kSceneArchiveVersion
Schema == 1                     \* ComponentCodec<>::schema_version
NoEntity == MaxEntities         \* kNoEntity, the largest number of 32 bits

Ascending(S) == SetToSortSeq(S, <)
-----------------------------------------------------------------------------
(* serialize                                                               *)

\* find_entity_id: the place of slot i among the live ones.
EntityId(c, i) == Cardinality({j \in Live(c) : j < i})

PlaceIn(seq, e) == CHOOSE p \in DOMAIN seq : seq[p] = e

\* Seeded fault: without the second pass, a parent in a later slot is lost.
BrokenEntityFields(c, i) ==
    LET parent == c.slots[i].parent IN
    IF parent = None \/ parent.index > i THEN <<EntityId(c, i), NoEntity, 0>>
    ELSE <<EntityId(c, i), EntityId(c, parent.index),
           PlaceIn(c.slots[parent.index].children, HandleAt(c, i)) - 1>>

\* Identifier, parent and place among the siblings.
EntityFields(c, i) ==
    LET parent == c.slots[i].parent IN
    IF parent = None THEN <<EntityId(c, i), NoEntity, 0>>
    ELSE <<EntityId(c, i), EntityId(c, parent.index),
           PlaceIn(c.slots[parent.index].children, HandleAt(c, i)) - 1>>

\* The links of every entity are found on the other side, once.
LinksAgree(c) ==
    \A i \in Live(c) :
        LET slot == c.slots[i] IN
        /\ slot.parent # None =>
              Owns(c, slot.parent) /\ Contains(c.slots[slot.parent.index].children, HandleAt(c, i))
        /\ \A k \in ToSet(slot.children) :
              Owns(c, k) /\ c.slots[k.index].parent = HandleAt(c, i)
        /\ IsInjective(slot.children)

Stored(c) == {k.type : k \in c.components}

Carriers(c, type) == {i \in Live(c) : HasComponent(c, HandleAt(c, i), type)}

Record(c, type, i) == <<EntityId(c, i), Width[type]>> \o [f \in 1..Width[type] |-> 0]

Block(c, type, carriers) ==
    <<TypeId[type], Schema, Len(carriers)>>
    \o FlattenSeq([n \in DOMAIN carriers |-> Record(c, type, carriers[n])])

\* The archive of c whose blocks list the carriers of each type in this order.
ArchiveOf(c, carriers) ==
    LET slots == Ascending(Live(c))
        types == SetToSortSeq(Stored(c), LAMBDA s, t : TypeId[s] < TypeId[t]) IN
    <<Magic, Version, 0, Len(slots)>>
    \o FlattenSeq([n \in DOMAIN slots |-> EntityFields(c, slots[n])])
    \o <<Len(types)>>
    \o FlattenSeq([n \in DOMAIN types |-> Block(c, types[n], carriers[types[n]])])

\* for_each_component visits the slots in order.
Serialized(c) == ArchiveOf(c, [type \in ComponentTypes |-> Ascending(Carriers(c, type))])

\* Where serialize<codecs> succeeds; `encodable' are the components whose
\* values their codecs agree to write.
CanSerialize(c, codecs, encodable, limits) ==
    /\ c.id # 0
    /\ Cardinality(Live(c)) <= limits.entities /\ Cardinality(Live(c)) <= NoEntity
    /\ LinksAgree(c)
    /\ Stored(c) \subseteq codecs /\ c.components \subseteq encodable
    /\ Cardinality(Stored(c)) <= limits.types
    /\ \A type \in Stored(c) : Carriers(c, type) # {} /\ Width[type] <= limits.payload
    /\ Cardinality(c.components) <= limits.records
    /\ Len(Serialized(c)) <= limits.bytes
-----------------------------------------------------------------------------
(* deserialize                                                             *)

Entities(a) == 0..(a[4] - 1)
StoredId(a, e) == a[5 + 3 * e]
Parent(a, e) == a[6 + 3 * e]
SiblingOrder(a, e) == a[7 + 3 * e]
ChildrenOf(a, e) == {k \in Entities(a) : Parent(a, k) = e}

SiblingsInOrder(a) ==
    \A e \in Entities(a) :
        {SiblingOrder(a, k) : k \in ChildrenOf(a, e)} = 0..(Cardinality(ChildrenOf(a, e)) - 1)

\* What is read before the scene is created.
Admitted(a, limits) ==
    /\ Len(a) <= limits.bytes
    /\ Len(a) >= 4 /\ a[1] = Magic /\ a[2] = Version /\ a[3] = 0
    /\ a[4] <= limits.entities /\ a[4] # NoEntity
    /\ Len(a) >= 4 + 3 * a[4]
    /\ \A e \in Entities(a) :
          /\ StoredId(a, e) = e
          /\ IF Parent(a, e) = NoEntity THEN SiblingOrder(a, e) = 0
             ELSE Parent(a, e) < a[4] /\ Parent(a, e) # e
    /\ SiblingsInOrder(a)

\* The entities of the archive take the first slots, in order.
Populated(a, id) ==
    LET created[n \in 0..a[4]] ==
          IF n = 0 THEN [MovedFrom EXCEPT !.id = id] ELSE WithEntity(created[n - 1])
    IN created[a[4]]

Links(a) ==
    LET Siblings(e) ==
          SetToSortSeq(ChildrenOf(a, e), LAMBDA k, l : SiblingOrder(a, k) < SiblingOrder(a, l)) IN
    FlattenSeq([n \in 1..a[4] |->
        LET siblings == Siblings(n - 1) IN
        [s \in DOMAIN siblings |-> [child |-> siblings[s] + 1, parent |-> n]]])

\* set_parent for each link; None once one is refused.
Linked(scene, links) ==
    FoldLeft(LAMBDA c, l :
                IF c = None THEN None
                ELSE IF MayAdopt(c, HandleAt(c, l.child), HandleAt(c, l.parent))
                     THEN Reparented(c, HandleAt(c, l.child), HandleAt(c, l.parent))
                     ELSE None,
             scene, links)

\* The reader stands at a record: the scene with its component and the
\* reader behind it, or None.
WithRecord(s, a, type, limits) ==
    LET entity == a[s.at]
        size   == a[s.at + 1]
        next   == s.at + 2 + size
        h      == HandleAt(s.scene, entity + 1) IN
    IF /\ s.at + 1 <= Len(a)
       /\ size <= limits.payload /\ entity \in Entities(a) /\ next <= Len(a) + 1
       /\ size = Width[type] /\ \A f \in (s.at + 2)..(next - 1) : a[f] = 0
       /\ ~HasComponent(s.scene, h, type)
    THEN [s EXCEPT !.at = next, !.scene = WithComponent(s.scene, h, type)]
    ELSE None

\* The reader stands at a block, after one of type `previous'.
WithBlock(s, a, codecs, limits) ==
    LET count == a[s.at + 2]
        type  == CHOOSE t \in codecs : TypeId[t] = a[s.at] IN
    IF /\ s.at + 2 <= Len(a)
       /\ a[s.at] > s.previous /\ \E t \in codecs : TypeId[t] = a[s.at]
       /\ a[s.at + 1] = Schema
       /\ count \in 1..a[4] /\ s.records + count <= limits.records
    THEN FoldLeft(LAMBDA r, n : IF r = None THEN None ELSE WithRecord(r, a, type, limits),
                  [s EXCEPT !.at = @ + 3, !.previous = a[s.at], !.records = @ + count],
                  [n \in 1..count |-> n])
    ELSE None

\* Seeded fault: what follows the last block is ignored.
BrokenIsConsumed(s, a) == TRUE

IsConsumed(s, a) == s.at = Len(a) + 1

\* What deserialize<codecs> makes of an archive it admitted: the scene, or
\* None.
Deserialized(a, id, codecs, limits) ==
    LET linked  == Linked(Populated(a, id), Links(a))
        typesAt == 5 + 3 * a[4]
        decoded == FoldLeft(LAMBDA s, n : IF s = None THEN None ELSE WithBlock(s, a, codecs, limits),
                            [at |-> typesAt + 1, previous |-> 0, records |-> 0, scene |-> linked],
                            [n \in 1..a[typesAt] |-> n]) IN
    IF /\ linked # None /\ Len(a) >= typesAt
       /\ a[typesAt] <= limits.types /\ a[typesAt] <= Cardinality(codecs)
       /\ decoded # None /\ IsConsumed(decoded, a)
    THEN decoded.scene ELSE None
-----------------------------------------------------------------------------
(* The process and its file.                                               *)

ArchiveInit == SceneInit /\ file = None /\ damaged = FALSE

\* The process saves a scene and ends; the game may have left any value in
\* any component.
SaveScene(o, codecs, limits) ==
    /\ \E encodable \in SUBSET scenes[o].components :
          CanSerialize(scenes[o], codecs, encodable, limits)
    /\ file' = Serialized(scenes[o]) /\ damaged' = FALSE
    /\ scenes' = [p \in Objects |-> MovedFrom] /\ ended' = {}
    /\ nextSceneId' = 1 /\ candidate' = [p \in Objects |-> 0]

\* The file between two processes: cut, extended, or one field altered.
DamagedFiles(a) ==
    {SubSeq(a, 1, n) : n \in 0..(Len(a) - 1)}
    \cup {Append(a, v) : v \in 0..NoEntity}
    \cup {[a EXCEPT ![n] = v] : n \in DOMAIN a, v \in 0..NoEntity}

DamageFile ==
    /\ file # None /\ nextSceneId = 1 /\ ~damaged
    /\ file' \in DamagedFiles(file) /\ damaged' = TRUE
    /\ UNCHANGED sceneVars

\* The identifier of the scene is taken between reading the entities and
\* creating them; the thread that loads shares nothing else with others.
LoadScene(o, codecs, limits) ==
    /\ Idle(o) /\ file # None /\ Admitted(file, limits) /\ Usable(nextSceneId) # 0
    /\ LET c == Deserialized(file, nextSceneId, codecs, limits) IN
       c # None /\ Becomes([scenes EXCEPT ![o] = c])
    /\ nextSceneId' = nextSceneId + 1
    /\ UNCHANGED <<candidate, file, damaged>>

\* The archive is refused after its entities were read, or memory runs out
\* while the scene is built: the identifier is spent.
LoadFails(limits) ==
    /\ file # None /\ Admitted(file, limits) /\ Usable(nextSceneId) # 0
    /\ nextSceneId' = nextSceneId + 1
    /\ UNCHANGED <<scenes, candidate, ended, file, damaged>>

ArchiveNext ==
    \/ SceneNext /\ UNCHANGED <<file, damaged>>
    \/ DamageFile
    \/ \E limits \in Limits :
          \/ LoadFails(limits)
          \/ \E o \in Objects, codecs \in SUBSET ComponentTypes :
                SaveScene(o, codecs, limits) \/ LoadScene(o, codecs, limits)

ArchiveSpec == ArchiveInit /\ [][ArchiveNext]_archiveVars
-----------------------------------------------------------------------------
\* d is c with its live slots moved together.
SameScene(c, d) ==
    LET Moved(h) == IF h = None THEN None ELSE HandleAt(d, EntityId(c, h.index) + 1) IN
    /\ Len(d.slots) = Cardinality(Live(c)) /\ Live(d) = DOMAIN d.slots
    /\ \A i \in Live(c) :
          LET slot == d.slots[EntityId(c, i) + 1] IN
          /\ slot.parent = Moved(c.slots[i].parent)
          /\ slot.children = [n \in DOMAIN c.slots[i].children |-> Moved(c.slots[i].children[n])]
    /\ {<<k.type, k.index>> : k \in d.components}
          = {<<k.type, EntityId(c, k.index) + 1>> : k \in c.components}

\* A scene that can be saved is loaded again under the same limits and with
\* the same codecs, with its hierarchy, the order of siblings and every
\* component on its entity, whatever slots were freed, reused or retired
\* before; and no scene is refused but for a limit, a missing codec or a value
\* that its codec refuses.  The one exception is the scene of exactly NoEntity
\* entities: serialize writes it and deserialize does not read it
\* (serialize, deserialize).
SavedSceneComesBack ==
    \A o \in Objects : scenes[o].id # 0 =>
        LET c == scenes[o] IN
        /\ Cardinality(Live(c)) <= DefaultLimits.entities
              => CanSerialize(c, ComponentTypes, c.components, DefaultLimits)
        /\ \A limits \in Limits, codecs \in SUBSET ComponentTypes :
              CanSerialize(c, codecs, c.components, limits) =>
                  LET a == Serialized(c)
                      d == Deserialized(a, c.id, codecs, limits) IN
                  /\ Admitted(a, limits) <=> Cardinality(Live(c)) # NoEntity
                  /\ Admitted(a, limits) => d # None /\ SameScene(c, d)

\* An archive that is accepted, a damaged one included, is the archive of
\* the scene it is loaded as, up to the order of the records in a block:
\* nothing of it is ignored, misread or repaired, and none that was cut or
\* extended is accepted (deserialize; docs/SCENE-SERIALIZATION.md).
NothingIsDropped ==
    file # None /\ Admitted(file, DefaultLimits) =>
        LET c == Deserialized(file, 1, ComponentTypes, DefaultLimits) IN
        c # None =>
            \E carriers \in [Stored(c) -> UNION {SetToSeqs(Carriers(c, type)) : type \in Stored(c)}] :
                /\ \A type \in Stored(c) : ToSet(carriers[type]) = Carriers(c, type)
                /\ file = ArchiveOf(c, carriers)
=============================================================================
