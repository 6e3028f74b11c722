----------------------------- MODULE SceneProofs -----------------------------
(***************************************************************************)
(* Scenes and the physics of their entities, for any set of objects and    *)
(* any limits: the hierarchy is a forest, a handle dies once, bodies and   *)
(* attached entities agree, and the game knows who touches whom.           *)
(*                                                                         *)
(* The contents of one scene object are studied first, operation by        *)
(* operation; each operation is reduced to a `shape', what it does slot by *)
(* slot.  Then the bodies of a world in the same way, the loop of step     *)
(* that retires them, the merge of the contact lists and the events the    *)
(* game is told of; loops are recursive functions, which exist by          *)
(* LoopExists.                                                             *)
(***************************************************************************)
EXTENDS PhysicsScene2D, CommonLemmas, FiniteSetTheorems

InFree(c, i) == i \in ToSet(c.free)

\* A handle that c does not accept and never will: its slot has moved on, or
\* is retired for good.
Stale(c, h) ==
    h.scene = c.id =>
        /\ h.index \in DOMAIN c.slots
        /\ \/ h.generation < c.slots[h.index].generation
           \/ /\ h.generation = c.slots[h.index].generation
              /\ h.index \notin Live(c) /\ ~InFree(c, h.index)

ComponentsFollow(c) ==
    \A k \in c.components : k.index = k.addedTo.index /\ Owns(c, k.addedTo)

WellTyped(c) ==
    /\ c \in SceneType /\ Len(c.slots) <= MaxEntities
    /\ c.id = 0 => c.slots = <<>>

ContentsOK(c) ==
    /\ WellTyped(c)
    /\ FreeIsExact(c) /\ EdgesAgree(c) /\ Grounded(c, DOMAIN c.slots)
    /\ ComponentsFollow(c)

Kids(c, i) == ToSet(c.slots[i].children)

\* The edges, handle by handle.
EdgesMatch(c) ==
    \A i \in DOMAIN c.slots :
        /\ \A x \in Handles :
              x \in Kids(c, i) <=> Owns(c, x) /\ c.slots[x.index].parent = HandleAt(c, i)
        /\ IsInjective(c.slots[i].children)
        /\ c.slots[i].parent # None => c.slots[i].alive /\ Owns(c, c.slots[i].parent)
-----------------------------------------------------------------------------
\* The typing facts the steps need.
LEMMA ContentsTypes ==
    ASSUME NEW c, WellTyped(c)
    PROVE  /\ c.id \in 0..(MaxSceneId - 1) /\ c.free \in Seq(1..MaxEntities)
           /\ c.slots \in Seq(Slots) /\ Len(c.slots) \in Nat /\ Len(c.slots) <= MaxEntities
           /\ DOMAIN c.slots = 1..Len(c.slots)
           /\ c.components \subseteq Components
           /\ DOMAIN c.slots # {} => c.id # 0
           /\ \A i \in DOMAIN c.slots :
                 /\ i \in 1..MaxEntities
                 /\ c.slots[i] \in Slots
                 /\ c.slots[i].generation \in 0..MaxGeneration
                 /\ c.slots[i].alive \in BOOLEAN
                 /\ c.slots[i].parent \in Handles \cup {None}
                 /\ c.slots[i].children \in Seq(Handles)
                 /\ Kids(c, i) \subseteq Handles
                 /\ HandleAt(c, i) \in Handles
  <1>1. /\ c.id \in 0..(MaxSceneId - 1) /\ c.free \in Seq(1..MaxEntities)
        /\ c.slots \in Seq(Slots) /\ c.components \subseteq Components
        /\ Len(c.slots) <= MaxEntities /\ (c.id = 0 => c.slots = <<>>)
    BY DEF WellTyped, SceneType
  <1>2. Len(c.slots) \in Nat /\ DOMAIN c.slots = 1..Len(c.slots)
    BY <1>1, LenProperties
  <1>3. DOMAIN c.slots # {} => c.id # 0
    BY <1>1, <1>2
  <1>4. ASSUME NEW i \in DOMAIN c.slots
        PROVE  /\ i \in 1..MaxEntities
               /\ c.slots[i] \in Slots
               /\ c.slots[i].generation \in 0..MaxGeneration
               /\ c.slots[i].alive \in BOOLEAN
               /\ c.slots[i].parent \in Handles \cup {None}
               /\ c.slots[i].children \in Seq(Handles)
               /\ Kids(c, i) \subseteq Handles
               /\ HandleAt(c, i) \in Handles
    <2>1. c.slots[i] \in Slots
      BY <1>1, <1>2, ElementOfSeq
    <2>2. /\ c.slots[i].generation \in 0..MaxGeneration /\ c.slots[i].alive \in BOOLEAN
          /\ c.slots[i].parent \in Handles \cup {None}
          /\ c.slots[i].children \in Seq(Handles)
      BY <2>1 DEF Slots
    <2>3. Kids(c, i) \subseteq Handles
      <3>1. \A a \in DOMAIN c.slots[i].children : c.slots[i].children[a] \in Handles
        BY <2>2, ElementOfSeq, LenProperties
      <3> QED
        BY <3>1 DEF Kids, ToSet
    <2>4. i \in 1..MaxEntities
      BY <1>1, <1>2, LimitAssumption
    <2>5. c.id \in 1..MaxSceneId
      BY <1>1, <1>3, LimitAssumption
    <2> QED
      BY <2>1, <2>2, <2>3, <2>4, <2>5 DEF HandleAt, Handles
  <1> QED
    BY <1>1, <1>2, <1>3, <1>4

\* The parts of a handle.
LEMMA HandleParts ==
    /\ \A x \in Handles : /\ x # None /\ x.scene \in 1..MaxSceneId /\ x.index \in 1..MaxEntities
                          /\ x.generation \in 0..MaxGeneration
    /\ \A x, y \in Handles :
          x = y <=> x.scene = y.scene /\ x.index = y.index /\ x.generation = y.generation
    /\ \A c, i : /\ HandleAt(c, i).scene = c.id /\ HandleAt(c, i).index = i
                 /\ HandleAt(c, i).generation = c.slots[i].generation
  BY NoneAssumption DEF Handles, HandleAt

\* Accepting a handle is holding a live slot of its name.
LEMMA OwnsIs ==
    ASSUME NEW c, WellTyped(c), NEW x \in Handles
    PROVE  Owns(c, x) <=> x.index \in Live(c) /\ x = HandleAt(c, x.index)
  <1>1. ASSUME Owns(c, x) PROVE x.index \in Live(c) /\ x = HandleAt(c, x.index)
    <2>1. x.index \in Live(c) /\ x.scene = c.id /\ x.generation = c.slots[x.index].generation
      BY <1>1 DEF Owns, Live
    <2>2. HandleAt(c, x.index) \in Handles
      BY <2>1, ContentsTypes DEF Live
    <2> QED
      BY <2>1, <2>2, HandleParts
  <1>2. ASSUME x.index \in Live(c), x = HandleAt(c, x.index) PROVE Owns(c, x)
    <2>1. x.index \in DOMAIN c.slots /\ c.slots[x.index].alive
      BY <1>2 DEF Live
    <2>2. c.id # 0
      BY <2>1, ContentsTypes
    <2>3. x # None /\ x.scene = c.id /\ x.generation = c.slots[x.index].generation
      BY <1>2, HandleParts
    <2> QED
      BY <2>1, <2>2, <2>3 DEF Owns
  <1> QED
    BY <1>1, <1>2

\* The handles that are accepted.
LEMMA LiveHandlesAre ==
    ASSUME NEW c, WellTyped(c)
    PROVE  LiveHandles(c) = {x \in Handles : Owns(c, x)}
  <1>1. \A i \in Live(c) : HandleAt(c, i) \in Handles /\ HandleAt(c, i).index = i
    BY ContentsTypes, HandleParts DEF Live
  <1>2. \A i \in Live(c) : Owns(c, HandleAt(c, i))
    BY <1>1, OwnsIs
  <1>3. \A x \in Handles : Owns(c, x) => x.index \in Live(c) /\ x = HandleAt(c, x.index)
    BY OwnsIs
  <1> QED
    BY <1>1, <1>2, <1>3 DEF LiveHandles

\* Two accepted handles of one slot are the same.
LEMMA OneHandlePerSlot ==
    ASSUME NEW c, WellTyped(c), NEW x \in Handles, NEW y \in Handles,
           Owns(c, x), Owns(c, y), x.index = y.index
    PROVE  x = y
  BY OwnsIs

\* Parents and children agree, entity by entity.
LEMMA EdgesPointwise ==
    ASSUME NEW c, WellTyped(c)
    PROVE  EdgesAgree(c) <=> EdgesMatch(c)
  <1> DEFINE Named(i) == {k \in Live(c) : c.slots[k].parent # None /\ c.slots[k].parent = HandleAt(c, i)}
             Members(i) == {HandleAt(c, j) : j \in Named(i)}
  <1>1. ASSUME NEW i \in DOMAIN c.slots
        PROVE  Members(i) \subseteq Handles
    BY ContentsTypes DEF Live
  <1>2. ASSUME NEW i \in DOMAIN c.slots, NEW x \in Handles
        PROVE  x \in Members(i) <=> Owns(c, x) /\ c.slots[x.index].parent = HandleAt(c, i)
    <2>1. HandleAt(c, i) # None
      BY ContentsTypes, HandleParts
    <2>2. ASSUME x \in Members(i)
          PROVE  Owns(c, x) /\ c.slots[x.index].parent = HandleAt(c, i)
      <3>1. PICK j \in Named(i) : x = HandleAt(c, j)
        BY <2>2
      <3>2. x.index = j
        BY <3>1, HandleParts
      <3> QED
        BY <3>1, <3>2, OwnsIs
    <2>3. ASSUME Owns(c, x), c.slots[x.index].parent = HandleAt(c, i)
          PROVE  x \in Members(i)
      <3>1. x.index \in Live(c) /\ x = HandleAt(c, x.index)
        BY <2>3, OwnsIs
      <3>2. x.index \in Named(i)
        BY <3>1, <2>1, <2>3
      <3> QED
        BY <3>1, <3>2
    <2> QED
      BY <2>2, <2>3
  <1>3. ASSUME NEW i \in DOMAIN c.slots
        PROVE  Kids(c, i) = Members(i) <=>
                 \A x \in Handles :
                    x \in Kids(c, i) <=> Owns(c, x) /\ c.slots[x.index].parent = HandleAt(c, i)
    <2>1. Kids(c, i) \subseteq Handles
      BY ContentsTypes
    <2> HIDE DEF Members
    <2> QED
      BY <2>1, <1>1, <1>2
  <1>4. EdgesAgree(c) <=>
          \A i \in DOMAIN c.slots :
              /\ Kids(c, i) = Members(i)
              /\ IsInjective(c.slots[i].children)
              /\ c.slots[i].parent # None => i \in Live(c) /\ Owns(c, c.slots[i].parent)
    BY DEF EdgesAgree, Kids
  <1>5. \A i \in DOMAIN c.slots : i \in Live(c) <=> c.slots[i].alive
    BY DEF Live
  <1> HIDE DEF Members, Named
  <1> QED
    BY <1>3, <1>4, <1>5 DEF EdgesMatch
-----------------------------------------------------------------------------
(* create_entity: the slot i comes to life.                                *)

Created(c, d, i) ==
    /\ WellTyped(d) /\ d.id = c.id /\ d.components = c.components
    /\ DOMAIN d.slots = DOMAIN c.slots \cup {i} /\ i \notin Live(c)
    /\ \A j \in DOMAIN c.slots : j # i => d.slots[j] = c.slots[j]
    /\ d.slots[i].alive /\ d.slots[i].parent = None /\ d.slots[i].children = <<>>
    /\ i \in DOMAIN c.slots => d.slots[i].generation = c.slots[i].generation /\ InFree(c, i)
    /\ IsInjective(d.free) /\ \A j : InFree(d, j) <=> InFree(c, j) /\ j # i

\* The free list, index by index.
LEMMA FreePointwise ==
    ASSUME NEW c, WellTyped(c)
    PROVE  FreeIsExact(c) <=>
             /\ IsInjective(c.free)
             /\ \A j : InFree(c, j) => j \in DOMAIN c.slots \ Live(c)
             /\ \A j \in DOMAIN c.slots \ Live(c) : Retired(c.slots[j]) \/ InFree(c, j)
  BY DEF FreeIsExact, IsInjective, InFree, ToSet

\* create_entity, slot by slot.
LEMMA WithEntityShape ==
    ASSUME NEW c, ContentsOK(c), CanCreate(c)
    PROVE  \E i : Created(c, WithEntity(c), i)
  <1> DEFINE d == WithEntity(c)
  <1>1. /\ WellTyped(c) /\ IsInjective(c.free)
        /\ \A j : InFree(c, j) => j \in DOMAIN c.slots \ Live(c)
    BY FreePointwise DEF ContentsOK
  <1>2. /\ c.slots \in Seq(Slots) /\ DOMAIN c.slots = 1..Len(c.slots) /\ Len(c.slots) \in Nat
        /\ c.free \in Seq(1..MaxEntities) /\ c.id # 0 /\ Len(c.slots) <= MaxEntities
        /\ \A i \in DOMAIN c.slots : c.slots[i].generation \in 0..MaxGeneration
    BY <1>1, ContentsTypes DEF CanCreate
  <1>3. /\ NewSlot.alive /\ NewSlot.parent = None /\ NewSlot.children = <<>> /\ NewSlot \in Slots
        /\ \A g \in 0..MaxGeneration :
              LET s == [NewSlot EXCEPT !.generation = g] IN
              s \in Slots /\ s.alive /\ s.parent = None /\ s.children = <<>> /\ s.generation = g
    <2>1. 1 \in 0..MaxGeneration /\ <<>> \in Seq(Handles)
      BY LimitAssumption
    <2> QED
      BY <2>1 DEF NewSlot, Slots
  <1> HIDE DEF d
  <1>4. c \in SceneType
    BY <1>1 DEF WellTyped
  <1>5. CASE c.free # <<>>
    <2> DEFINE i == c.free[Len(c.free)]
               s == [NewSlot EXCEPT !.generation = c.slots[i].generation]
               f == SubSeq(c.free, 1, Len(c.free) - 1)
    <2>1. /\ Len(c.free) \in DOMAIN c.free /\ f \in Seq(1..MaxEntities) /\ IsInjective(f)
          /\ ToSet(f) = ToSet(c.free) \ {i}
      BY <1>1, <1>2, <1>5, FrontProperties
    <2>2. InFree(c, i)
      BY <2>1 DEF InFree, ToSet
    <2>3. i \in DOMAIN c.slots /\ i \notin Live(c)
      BY <1>1, <2>2
    <2>4. s \in Slots /\ s.alive /\ s.parent = None /\ s.children = <<>> /\ s.generation = c.slots[i].generation
      BY <1>2, <1>3, <2>3
    <2> HIDE DEF i, s, f
    <2>5. d = [c EXCEPT !.slots = [c.slots EXCEPT ![i] = s], !.free = f]
      BY <1>4, <1>5 DEF d, WithEntity, i, s, f, SceneType
    <2>6. /\ d.id = c.id /\ d.components = c.components /\ d.free = f
          /\ d.slots = [c.slots EXCEPT ![i] = s] /\ d \in [id : {d.id}, slots : {d.slots}, free : {d.free}, components : {d.components}]
      BY <1>4, <2>5 DEF SceneType
    <2>7. /\ d.slots \in Seq(Slots) /\ Len(d.slots) = Len(c.slots) /\ DOMAIN d.slots = DOMAIN c.slots
          /\ d.slots[i] = s /\ \A j \in DOMAIN c.slots : j # i => d.slots[j] = c.slots[j]
      BY <1>2, <2>3, <2>4, <2>6, ExceptSeq
    <2>8. WellTyped(d)
      <3>1. d \in SceneType
        BY <1>4, <2>1, <2>6, <2>7 DEF SceneType
      <3> QED
        BY <3>1, <1>2, <2>6, <2>7 DEF WellTyped
    <2>9. \A j : InFree(d, j) <=> InFree(c, j) /\ j # i
      BY <2>1, <2>6 DEF InFree
    <2> QED
      BY <2>1, <2>2, <2>3, <2>4, <2>6, <2>7, <2>8, <2>9 DEF Created, d
  <1>6. CASE c.free = <<>>
    <2> DEFINE i == Len(c.slots) + 1
    <2>1. d = [c EXCEPT !.slots = Append(c.slots, NewSlot)] /\ Len(c.slots) < MaxEntities
      BY <1>4, <1>6 DEF d, WithEntity, SceneType, CanCreate
    <2>2. /\ d.id = c.id /\ d.components = c.components /\ d.free = c.free
          /\ d.slots = Append(c.slots, NewSlot)
          /\ d \in [id : {d.id}, slots : {d.slots}, free : {d.free}, components : {d.components}]
      BY <1>4, <2>1 DEF SceneType
    <2>3. /\ d.slots \in Seq(Slots) /\ Len(d.slots) = i
          /\ d.slots[i] = NewSlot /\ \A j \in 1..Len(c.slots) : d.slots[j] = c.slots[j]
      BY <1>2, <1>3, <2>2, AppendProperties
    <2>4. DOMAIN d.slots = DOMAIN c.slots \cup {i} /\ i \notin DOMAIN c.slots
      <3>1. DOMAIN d.slots = 1..i
        BY <2>3, LenProperties
      <3> QED
        BY <3>1, <1>2
    <2>5. WellTyped(d)
      <3>1. d \in SceneType
        BY <1>4, <2>2, <2>3 DEF SceneType
      <3>2. Len(d.slots) <= MaxEntities
        BY <1>2, <2>1, <2>3, LimitAssumption
      <3> QED
        BY <3>1, <3>2, <1>2, <2>2 DEF WellTyped
    <2>6. \A j : ~InFree(c, j) /\ ~InFree(d, j)
      BY <1>6, <2>2 DEF InFree, ToSet
    <2>7. i \notin Live(c)
      BY <2>4 DEF Live
    <2> HIDE DEF i
    <2>8. Created(c, d, i)
      BY <1>1, <1>2, <1>3, <2>2, <2>3, <2>4, <2>5, <2>6, <2>7 DEF Created
    <2> QED
      BY <2>8 DEF d
  <1> QED
    BY <1>5, <1>6

\* What c accepted d accepts, and one handle more.
LEMMA CreatedOwns ==
    ASSUME NEW c, NEW d, NEW i, WellTyped(c), Created(c, d, i), NEW x \in Handles
    PROVE  /\ Owns(d, x) <=> Owns(c, x) \/ x = HandleAt(d, i)
           /\ Owns(c, x) => x.index # i /\ x.index \in DOMAIN c.slots
  <1>1. Owns(c, x) <=> x.index \in Live(c) /\ x = HandleAt(c, x.index)
    BY OwnsIs
  <1>2. Owns(d, x) <=> x.index \in Live(d) /\ x = HandleAt(d, x.index)
    BY OwnsIs DEF Created
  <1>3. Live(d) = Live(c) \cup {i} /\ i \notin Live(c)
    BY DEF Created, Live
  <1>4. \A j \in Live(c) : HandleAt(d, j) = HandleAt(c, j) /\ j \in DOMAIN c.slots
    BY <1>3 DEF Created, Live, HandleAt
  <1>5. HandleAt(d, i).index = i
    BY HandleParts
  <1> QED
    BY <1>1, <1>2, <1>3, <1>4, <1>5

\* A new entity has neither parent nor children.
LEMMA CreatedEdges ==
    ASSUME NEW c, NEW d, NEW i, WellTyped(c), Created(c, d, i), EdgesMatch(c)
    PROVE  EdgesMatch(d)
  <1>1. /\ DOMAIN d.slots = DOMAIN c.slots \cup {i} /\ d.id = c.id
        /\ \A j \in DOMAIN c.slots : j # i => d.slots[j] = c.slots[j]
        /\ d.slots[i].alive /\ d.slots[i].parent = None /\ d.slots[i].children = <<>>
    BY DEF Created
  <1>2. \A x \in Handles : /\ Owns(d, x) <=> Owns(c, x) \/ x = HandleAt(d, i)
                           /\ Owns(c, x) => x.index # i /\ x.index \in DOMAIN c.slots
    BY CreatedOwns
  <1>3. HandleAt(d, i).index = i
    BY HandleParts
  <1>4. ASSUME NEW x \in Handles, NEW p \in Handles
        PROVE  Owns(d, x) /\ d.slots[x.index].parent = p
                 <=> Owns(c, x) /\ c.slots[x.index].parent = p
    BY <1>1, <1>2, <1>3, NoneAssumption
  <1>5. ASSUME NEW x \in Handles, Owns(c, x)
        PROVE  c.slots[x.index].parent # None => c.slots[x.index].parent.index # i
    <2>1. c.slots[x.index].parent # None =>
            /\ c.slots[x.index].parent \in Handles
            /\ Owns(c, c.slots[x.index].parent)
      BY <1>2, <1>5, ContentsTypes DEF EdgesMatch
    <2> QED
      BY <2>1, <1>2
  <1>6. \A j \in DOMAIN d.slots : HandleAt(d, j) \in Handles
    BY ContentsTypes DEF Created
  <1>7. ASSUME NEW j \in DOMAIN c.slots, j # i
        PROVE  /\ \A x \in Handles :
                     x \in Kids(d, j) <=> Owns(d, x) /\ d.slots[x.index].parent = HandleAt(d, j)
               /\ IsInjective(d.slots[j].children)
               /\ d.slots[j].parent # None => d.slots[j].alive /\ Owns(d, d.slots[j].parent)
    <2>1. d.slots[j] = c.slots[j] /\ HandleAt(d, j) = HandleAt(c, j) /\ Kids(d, j) = Kids(c, j)
      BY <1>1, <1>7 DEF HandleAt, Kids
    <2>2. c.slots[j].parent \in Handles \cup {None}
      BY ContentsTypes
    <2>3. HandleAt(d, j) \in Handles
      BY <1>1, <1>6
    <2>4. /\ \A x \in Handles :
                x \in Kids(c, j) <=> Owns(c, x) /\ c.slots[x.index].parent = HandleAt(c, j)
          /\ IsInjective(c.slots[j].children)
          /\ c.slots[j].parent # None => c.slots[j].alive /\ Owns(c, c.slots[j].parent)
      BY DEF EdgesMatch
    <2> QED
      BY <2>1, <2>2, <2>3, <2>4, <1>2, <1>4
  <1>8. /\ \A x \in Handles :
              x \in Kids(d, i) <=> Owns(d, x) /\ d.slots[x.index].parent = HandleAt(d, i)
        /\ IsInjective(d.slots[i].children)
        /\ d.slots[i].parent # None => d.slots[i].alive /\ Owns(d, d.slots[i].parent)
    <2>1. Kids(d, i) = {} /\ IsInjective(d.slots[i].children)
      BY <1>1 DEF Kids, ToSet, IsInjective
    <2>2. ASSUME NEW x \in Handles, Owns(d, x), d.slots[x.index].parent = HandleAt(d, i)
          PROVE  FALSE
      <3>1. HandleAt(d, i) \in Handles
        BY <1>1, <1>6
      <3>2. Owns(c, x) /\ c.slots[x.index].parent = HandleAt(d, i)
        BY <2>2, <3>1, <1>4
      <3> QED
        BY <3>1, <3>2, <1>3, <1>5, NoneAssumption
    <2> QED
      BY <2>1, <2>2, <1>1
  <1> QED
    BY <1>1, <1>7, <1>8 DEF EdgesMatch

\* A new entity begins a tree of its own, in a slot no handle in use names.
LEMMA CreatedKeeps ==
    ASSUME NEW c, NEW d, NEW i, ContentsOK(c), Created(c, d, i)
    PROVE  /\ ContentsOK(d) /\ d.id = c.id
           /\ \A x \in Handles : Owns(c, x) => Owns(d, x)
           /\ \A x \in Handles : Stale(c, x) => Stale(d, x)
  <1>1. WellTyped(c) /\ WellTyped(d) /\ EdgesMatch(c)
    BY EdgesPointwise DEF ContentsOK, Created
  <1>2. EdgesAgree(d)
    BY <1>1, CreatedEdges, EdgesPointwise
  <1>3. \A x \in Handles : Owns(c, x) => Owns(d, x)
    BY <1>1, CreatedOwns
  <1>4. ComponentsFollow(d)
    <2>1. \A k \in c.components : k.addedTo \in Handles
      BY <1>1, ContentsTypes DEF Components
    <2> QED
      BY <2>1, <1>3 DEF ComponentsFollow, ContentsOK, Created
  <1>5. /\ IsInjective(c.free)
        /\ \A j : InFree(c, j) => j \in DOMAIN c.slots \ Live(c)
        /\ \A j \in DOMAIN c.slots \ Live(c) : Retired(c.slots[j]) \/ InFree(c, j)
    BY <1>1, FreePointwise DEF ContentsOK
  <1>6. Live(d) = Live(c) \cup {i} /\ i \notin Live(c)
    BY DEF Created, Live
  <1>7. FreeIsExact(d)
    <2>1. \A j : InFree(d, j) => j \in DOMAIN d.slots \ Live(d)
      BY <1>5, <1>6 DEF Created
    <2>2. ASSUME NEW j \in DOMAIN d.slots \ Live(d)
          PROVE  Retired(d.slots[j]) \/ InFree(d, j)
      <3>1. j # i /\ j \in DOMAIN c.slots \ Live(c) /\ d.slots[j] = c.slots[j]
        BY <1>6 DEF Created
      <3> QED
        BY <3>1, <1>5 DEF Created
    <2>3. IsInjective(d.free)
      BY DEF Created
    <2> QED
      BY <2>1, <2>2, <2>3, <1>1, FreePointwise
  <1>8. Grounded(d, DOMAIN d.slots)
    <2> SUFFICES ASSUME NEW T \in SUBSET DOMAIN d.slots, T # {}
                 PROVE  \E j \in T : d.slots[j].parent # None => d.slots[j].parent.index \notin T
      BY DEF Grounded
    <2>1. CASE i \in T
      BY <2>1 DEF Created
    <2>2. CASE i \notin T
      <3>1. T \in SUBSET DOMAIN c.slots /\ \A j \in T : d.slots[j] = c.slots[j]
        BY <2>2 DEF Created
      <3>2. PICK j \in T : c.slots[j].parent # None => c.slots[j].parent.index \notin T
        BY <3>1 DEF ContentsOK, Grounded
      <3> QED
        BY <3>1, <3>2
    <2> QED
      BY <2>1, <2>2
  <1>9. ASSUME NEW x \in Handles, Stale(c, x) PROVE Stale(d, x)
    <2> SUFFICES ASSUME x.scene = d.id
                 PROVE  /\ x.index \in DOMAIN d.slots
                        /\ \/ x.generation < d.slots[x.index].generation
                           \/ /\ x.generation = d.slots[x.index].generation
                              /\ x.index \notin Live(d) /\ ~InFree(d, x.index)
      BY DEF Stale
    <2>1. /\ x.index \in DOMAIN c.slots
          /\ \/ x.generation < c.slots[x.index].generation
             \/ /\ x.generation = c.slots[x.index].generation
                /\ x.index \notin Live(c) /\ ~InFree(c, x.index)
      BY <1>9 DEF Stale, Created
    <2>2. x.index \in DOMAIN d.slots /\ d.slots[x.index].generation = c.slots[x.index].generation
      BY <2>1 DEF Created
    <2>3. x.index = i => InFree(c, x.index)
      BY <2>1 DEF Created
    <2> QED
      BY <2>1, <2>2, <2>3, <1>6 DEF Created
  <1> QED
    BY <1>1, <1>2, <1>3, <1>4, <1>7, <1>8, <1>9 DEF ContentsOK, Created
-----------------------------------------------------------------------------
(* destroy_entity: the slot of h dies, and every edge of h with it.        *)

Destroyed(c, d, h) ==
    /\ WellTyped(d) /\ d.id = c.id /\ DOMAIN d.slots = DOMAIN c.slots
    /\ d.components = {k \in c.components : k.index # h.index}
    /\ ~d.slots[h.index].alive /\ d.slots[h.index].parent = None
    /\ d.slots[h.index].children = <<>>
    /\ \A i \in DOMAIN c.slots : i # h.index =>
          /\ d.slots[i].alive = c.slots[i].alive
          /\ d.slots[i].generation = c.slots[i].generation
          /\ d.slots[i].parent = IF c.slots[i].parent = h THEN None ELSE c.slots[i].parent
          /\ IsInjective(d.slots[i].children)
          /\ Kids(d, i) = Kids(c, i) \ {h}
    /\ IsInjective(d.free)
    /\ \/ /\ Retired(c.slots[h.index]) /\ d.slots[h.index].generation = c.slots[h.index].generation
          /\ \A j : InFree(d, j) <=> InFree(c, j)
       \/ /\ d.slots[h.index].generation = c.slots[h.index].generation + 1
          /\ \A j : InFree(d, j) <=> InFree(c, j) \/ j = h.index

\* The children of h are the entities that name h as their parent.
LEMMA ChildrenName ==
    ASSUME NEW c, WellTyped(c), EdgesMatch(c), NEW h \in Handles, Owns(c, h),
           NEW i \in DOMAIN c.slots
    PROVE  (\E k \in Kids(c, h.index) : Owns(c, k) /\ k.index = i /\ c.slots[i].parent = h)
             <=> c.slots[i].parent = h
  <1>1. h.index \in DOMAIN c.slots /\ h = HandleAt(c, h.index)
    BY OwnsIs DEF Live
  <1>2. ASSUME c.slots[i].parent = h
        PROVE  \E k \in Kids(c, h.index) : Owns(c, k) /\ k.index = i /\ c.slots[i].parent = h
    <2>1. i \in Live(c)
      BY <1>2, NoneAssumption DEF EdgesMatch, Live
    <2>2. HandleAt(c, i) \in Handles /\ HandleAt(c, i).index = i
      BY ContentsTypes, HandleParts
    <2>3. Owns(c, HandleAt(c, i))
      BY <2>1, <2>2, OwnsIs
    <2>4. HandleAt(c, i) \in Kids(c, h.index)
      BY <1>1, <1>2, <2>2, <2>3 DEF EdgesMatch
    <2> QED
      BY <1>2, <2>2, <2>3, <2>4
  <1> QED
    BY <1>2

\* h is listed by its parent and by nobody else.
LEMMA ListedByParent ==
    ASSUME NEW c, WellTyped(c), EdgesMatch(c), NEW h \in Handles, Owns(c, h),
           NEW i \in DOMAIN c.slots, h \in Kids(c, i)
    PROVE  /\ c.slots[h.index].parent = HandleAt(c, i)
           /\ Owns(c, c.slots[h.index].parent) /\ c.slots[h.index].parent.index = i
  <1>1. c.slots[h.index].parent = HandleAt(c, i) /\ h.index \in DOMAIN c.slots
    BY OwnsIs DEF EdgesMatch, Live
  <1>2. HandleAt(c, i) # None /\ HandleAt(c, i).index = i
    BY ContentsTypes, HandleParts
  <1>3. Owns(c, c.slots[h.index].parent)
    BY <1>1, <1>2 DEF EdgesMatch
  <1> QED
    BY <1>1, <1>2, <1>3

\* destroy_entity, slot by slot.
LEMMA WithoutEntityShape ==
    ASSUME NEW c, ContentsOK(c), NEW h \in Handles, Owns(c, h)
    PROVE  Destroyed(c, WithoutEntity(c, h), h)
  <1> DEFINE d == WithoutEntity(c, h)
             entity == c.slots[h.index]
             n == h.index
             newKids(i) == IF Owns(c, entity.parent) /\ entity.parent.index = i
                           THEN RemoveFirst(c.slots[i].children, h) ELSE c.slots[i].children
             newParent(i) == IF \E k \in ToSet(entity.children) :
                                  Owns(c, k) /\ k.index = i /\ c.slots[i].parent = h
                             THEN None ELSE c.slots[i].parent
             newGeneration == IF Retired(entity) THEN entity.generation ELSE Successor(entity.generation)
  <1>1. /\ WellTyped(c) /\ EdgesMatch(c) /\ c \in SceneType /\ IsInjective(c.free)
        /\ \A j : InFree(c, j) => j \in DOMAIN c.slots \ Live(c)
    BY FreePointwise, EdgesPointwise DEF ContentsOK, WellTyped
  <1>2. n \in DOMAIN c.slots /\ n \in Live(c) /\ h = HandleAt(c, n) /\ n \in 1..MaxEntities
    BY <1>1, OwnsIs, HandleParts DEF Live
  <1>3. \A i \in DOMAIN c.slots :
           /\ c.slots[i] \in Slots /\ c.slots[i].generation \in 0..MaxGeneration
           /\ c.slots[i].alive \in BOOLEAN /\ c.slots[i].parent \in Handles \cup {None}
           /\ c.slots[i].children \in Seq(Handles) /\ IsInjective(c.slots[i].children)
    BY <1>1, ContentsTypes DEF EdgesMatch
  <1>4. ASSUME NEW i \in DOMAIN c.slots
        PROVE  newParent(i) = IF c.slots[i].parent = h THEN None ELSE c.slots[i].parent
    BY <1>1, <1>2, <1>4, ChildrenName DEF Kids
  <1>5. ASSUME NEW i \in DOMAIN c.slots
        PROVE  /\ newKids(i) \in Seq(Handles) /\ IsInjective(newKids(i))
               /\ ToSet(newKids(i)) = Kids(c, i) \ {h}
    <2>1. CASE Owns(c, entity.parent) /\ entity.parent.index = i
      BY <2>1, <1>3, RemoveFirstProperties DEF Kids
    <2>2. CASE ~(Owns(c, entity.parent) /\ entity.parent.index = i)
      <3>1. h \notin Kids(c, i)
        BY <2>2, <1>1, <1>2, ListedByParent
      <3> QED
        BY <2>2, <3>1, <1>3 DEF Kids
    <2> QED
      BY <2>1, <2>2
  <1>6. /\ newGeneration \in 0..MaxGeneration
        /\ ~Retired(entity) => newGeneration = entity.generation + 1
    BY <1>2, <1>3, LimitAssumption DEF Retired, Successor
  <1> DEFINE dead == [entity EXCEPT !.parent = None, !.children = <<>>, !.alive = FALSE,
                                    !.generation = newGeneration]
             kept(i) == [c.slots[i] EXCEPT !.children = newKids(i), !.parent = newParent(i)]
             slots == [i \in DOMAIN c.slots |-> IF i = n THEN dead ELSE kept(i)]
             free == IF Retired(entity) THEN c.free ELSE Append(c.free, n)
             components == {k \in c.components : k.index # n}
  <1>7. d = [c EXCEPT !.slots = slots, !.free = free, !.components = components]
    BY <1>1, <1>2 DEF WithoutEntity, Erased
  <1> HIDE DEF newKids, newParent, newGeneration
  <1>8. /\ dead \in Slots /\ dead.parent = None /\ dead.children = <<>> /\ ~dead.alive
        /\ dead.generation = newGeneration
    <2>1. entity \in Slots /\ <<>> \in Seq(Handles)
      BY <1>2, <1>3
    <2> HIDE DEF entity
    <2> QED
      BY <2>1, <1>6 DEF Slots
  <1>9. ASSUME NEW i \in DOMAIN c.slots
        PROVE  /\ kept(i) \in Slots /\ kept(i).alive = c.slots[i].alive
               /\ kept(i).generation = c.slots[i].generation
               /\ kept(i).parent = newParent(i) /\ kept(i).children = newKids(i)
    <2>1. newParent(i) \in Handles \cup {None} /\ newKids(i) \in Seq(Handles) /\ c.slots[i] \in Slots
      BY <1>3, <1>4, <1>5
    <2> QED
      BY <2>1 DEF Slots
  <1> HIDE DEF dead, kept, entity
  <1>10. /\ DOMAIN c.slots = 1..Len(c.slots) /\ Len(c.slots) \in Nat /\ Len(c.slots) <= MaxEntities
         /\ c.free \in Seq(1..MaxEntities) /\ c.components \subseteq Components
    BY <1>1, ContentsTypes
  <1>11. /\ slots \in Seq(Slots) /\ Len(slots) = Len(c.slots) /\ DOMAIN slots = DOMAIN c.slots
    BY <1>8, <1>9, <1>10, IsASeq
  <1>12. /\ free \in Seq(1..MaxEntities) /\ IsInjective(free)
         /\ Retired(entity) => ToSet(free) = ToSet(c.free)
         /\ ~Retired(entity) => ToSet(free) = ToSet(c.free) \cup {n}
    <2>1. n \notin ToSet(c.free)
      BY <1>1, <1>2 DEF InFree
    <2>2. CASE Retired(entity)
      BY <2>2, <1>1, <1>10
    <2>3. CASE ~Retired(entity)
      <3>1. /\ Append(c.free, n) \in Seq(1..MaxEntities)
            /\ ToSet(Append(c.free, n)) = ToSet(c.free) \cup {n}
            /\ IsInjective(Append(c.free, n))
        <4> DEFINE T == 1..MaxEntities
        <4>1. c.free \in Seq(T) /\ n \in T /\ IsInjective(c.free) /\ n \notin ToSet(c.free)
          BY <2>1, <1>1, <1>2, <1>10
        <4> HIDE DEF T, n
        <4>2. /\ Append(c.free, n) \in Seq(T)
              /\ ToSet(Append(c.free, n)) = ToSet(c.free) \cup {n}
              /\ IsInjective(Append(c.free, n))
          BY <4>1, AppendToSet
        <4> QED
          BY <4>2 DEF T
      <3> QED
        BY <3>1, <2>3
    <2> QED
      BY <2>2, <2>3
  <1> DEFINE final == [c EXCEPT !.slots = slots, !.free = free, !.components = components]
  <1> HIDE DEF slots, free, components, d
  <1>13. /\ final.id = c.id /\ final.slots = slots /\ final.free = free /\ final.components = components
         /\ final \in [id : {c.id}, slots : {slots}, free : {free}, components : {components}]
    BY <1>1 DEF SceneType
  <1>14. d = final
    BY <1>7
  <1> HIDE DEF final
  <1>15. components \subseteq c.components
    BY DEF components
  <1>16. WellTyped(d)
    <2>1. d \in SceneType
      BY <1>1, <1>10, <1>11, <1>12, <1>13, <1>14, <1>15 DEF SceneType
    <2>2. d.id # 0
      BY <1>1, <1>2, <1>13, <1>14, ContentsTypes
    <2>3. Len(d.slots) <= MaxEntities
      BY <1>10, <1>11, <1>13, <1>14
    <2> QED
      BY <2>1, <2>2, <2>3 DEF WellTyped
  <1>17. d.slots[n] = dead /\ \A i \in DOMAIN c.slots : i # n => d.slots[i] = kept(i)
    BY <1>2, <1>13, <1>14 DEF slots
  <1>18. \A i \in DOMAIN c.slots : i # n =>
            /\ d.slots[i].alive = c.slots[i].alive
            /\ d.slots[i].generation = c.slots[i].generation
            /\ d.slots[i].parent = IF c.slots[i].parent = h THEN None ELSE c.slots[i].parent
            /\ IsInjective(d.slots[i].children)
            /\ Kids(d, i) = Kids(c, i) \ {h}
    BY <1>4, <1>5, <1>9, <1>17 DEF Kids
  <1>19. \/ /\ Retired(c.slots[n]) /\ d.slots[n].generation = c.slots[n].generation
            /\ \A j : InFree(d, j) <=> InFree(c, j)
         \/ /\ d.slots[n].generation = c.slots[n].generation + 1
            /\ \A j : InFree(d, j) <=> InFree(c, j) \/ j = n
    BY <1>6, <1>8, <1>12, <1>13, <1>14, <1>17 DEF InFree, entity, newGeneration
  <1>20. d.components = {k \in c.components : k.index # n} /\ IsInjective(d.free)
    BY <1>12, <1>13, <1>14 DEF components
  <1>21. d.id = c.id /\ DOMAIN d.slots = DOMAIN c.slots
    BY <1>11, <1>13, <1>14
  <1>22. Destroyed(c, d, h)
    BY <1>8, <1>16, <1>17, <1>18, <1>19, <1>20, <1>21 DEF Destroyed
  <1> QED
    BY <1>22 DEF d

\* h itself is what d no longer accepts.
LEMMA DestroyedOwns ==
    ASSUME NEW c, NEW d, NEW h \in Handles, WellTyped(c), Owns(c, h), Destroyed(c, d, h),
           NEW x \in Handles
    PROVE  Owns(d, x) <=> Owns(c, x) /\ x # h
  <1>1. Owns(c, x) <=> x.index \in Live(c) /\ x = HandleAt(c, x.index)
    BY OwnsIs
  <1>2. Owns(d, x) <=> x.index \in Live(d) /\ x = HandleAt(d, x.index)
    BY OwnsIs DEF Destroyed
  <1>3. h.index \in Live(c) /\ h = HandleAt(c, h.index)
    BY OwnsIs
  <1>4. Live(d) = Live(c) \ {h.index}
    <2>1. h.index \notin Live(d) /\ DOMAIN d.slots = DOMAIN c.slots
      BY DEF Destroyed, Live
    <2>2. \A i \in DOMAIN c.slots : i # h.index => d.slots[i].alive = c.slots[i].alive
      BY DEF Destroyed
    <2> QED
      BY <2>1, <2>2 DEF Live
  <1>5. \A i \in Live(c) : i # h.index => HandleAt(d, i) = HandleAt(c, i)
    BY DEF Destroyed, Live, HandleAt
  <1> QED
    BY <1>1, <1>2, <1>3, <1>4, <1>5

\* Nobody is left the parent or the child of what was destroyed.
LEMMA DestroyedEdges ==
    ASSUME NEW c, NEW d, NEW h \in Handles, WellTyped(c), Owns(c, h), Destroyed(c, d, h),
           EdgesMatch(c)
    PROVE  EdgesMatch(d)
  <1> DEFINE n == h.index
  <1>1. /\ DOMAIN d.slots = DOMAIN c.slots /\ d.id = c.id
        /\ ~d.slots[n].alive /\ d.slots[n].parent = None /\ d.slots[n].children = <<>>
        /\ \A i \in DOMAIN c.slots : i # n =>
              /\ d.slots[i].alive = c.slots[i].alive
              /\ d.slots[i].generation = c.slots[i].generation
              /\ d.slots[i].parent = IF c.slots[i].parent = h THEN None ELSE c.slots[i].parent
              /\ IsInjective(d.slots[i].children)
              /\ Kids(d, i) = Kids(c, i) \ {h}
    BY DEF Destroyed
  <1>2. \A x \in Handles : Owns(d, x) <=> Owns(c, x) /\ x # h
    BY DestroyedOwns
  <1>3. n \in DOMAIN c.slots /\ h = HandleAt(c, n)
    BY OwnsIs DEF Live
  <1>4. \A x \in Handles : Owns(c, x) =>
            /\ x.index \in DOMAIN c.slots
            /\ x # h => x.index # n
    BY <1>3, OwnsIs DEF Live
  <1>5. \A i \in DOMAIN c.slots : /\ HandleAt(d, i) \in Handles /\ HandleAt(d, i).index = i
                                  /\ HandleAt(c, i) \in Handles /\ HandleAt(c, i).index = i
    BY ContentsTypes, HandleParts DEF Destroyed
  <1>6. ASSUME NEW x \in Handles, Owns(d, x)
        PROVE  /\ x.index \in DOMAIN c.slots /\ Owns(c, x)
               /\ d.slots[x.index].parent =
                    IF c.slots[x.index].parent = h THEN None ELSE c.slots[x.index].parent
    BY <1>1, <1>2, <1>4, <1>6
  <1>7. ASSUME NEW i \in DOMAIN c.slots, i # n
        PROVE  /\ \A x \in Handles :
                     x \in Kids(d, i) <=> Owns(d, x) /\ d.slots[x.index].parent = HandleAt(d, i)
               /\ IsInjective(d.slots[i].children)
               /\ d.slots[i].parent # None => d.slots[i].alive /\ Owns(d, d.slots[i].parent)
    <2>1. HandleAt(d, i) = HandleAt(c, i) /\ HandleAt(c, i) # h
      BY <1>1, <1>5, <1>7 DEF HandleAt
    <2>2. ASSUME NEW x \in Handles
          PROVE  x \in Kids(d, i) <=> Owns(d, x) /\ d.slots[x.index].parent = HandleAt(d, i)
      <3>1. x \in Kids(c, i) <=> Owns(c, x) /\ c.slots[x.index].parent = HandleAt(c, i)
        BY DEF EdgesMatch
      <3>2. x \in Kids(d, i) <=> x \in Kids(c, i) /\ x # h
        BY <1>1, <1>7
      <3>3. HandleAt(c, i) # None
        BY <1>5, NoneAssumption
      <3> QED
        BY <2>1, <3>1, <3>2, <3>3, <1>2, <1>6
    <2>3. c.slots[i].parent \in Handles \cup {None}
      BY ContentsTypes
    <2>4. c.slots[i].parent # None => c.slots[i].alive /\ Owns(c, c.slots[i].parent)
      BY DEF EdgesMatch
    <2> QED
      BY <2>2, <2>3, <2>4, <1>1, <1>2, <1>7
  <1>8. \A x \in Handles :
            x \in Kids(d, n) <=> Owns(d, x) /\ d.slots[x.index].parent = HandleAt(d, n)
    <2>1. Kids(d, n) = {}
      BY <1>1 DEF Kids, ToSet
    <2>2. ASSUME NEW x \in Handles, Owns(d, x), d.slots[x.index].parent = HandleAt(d, n)
          PROVE  FALSE
      <3>1. HandleAt(d, n) # None /\ HandleAt(d, n).index = n
        BY <1>3, <1>5, NoneAssumption
      <3>2. /\ c.slots[x.index].parent = HandleAt(d, n) /\ HandleAt(d, n) # h
            /\ x.index \in DOMAIN c.slots
        BY <2>2, <3>1, <1>6
      <3>3. Owns(c, HandleAt(d, n))
        BY <3>1, <3>2 DEF EdgesMatch
      <3>4. HandleAt(d, n) = h
        BY <3>1, <3>3, <1>3, <1>5, OneHandlePerSlot
      <3> QED
        BY <3>2, <3>4
    <2> QED
      BY <2>1, <2>2
  <1>9. IsInjective(d.slots[n].children)
    BY <1>1 DEF IsInjective
  <1> HIDE DEF n
  <1> QED
    BY <1>1, <1>7, <1>8, <1>9 DEF EdgesMatch

\* The death of an entity leaves a forest, and its handle to nobody.
LEMMA DestroyedKeeps ==
    ASSUME NEW c, NEW d, NEW h \in Handles, ContentsOK(c), Owns(c, h), Destroyed(c, d, h)
    PROVE  /\ ContentsOK(d) /\ d.id = c.id
           /\ \A x \in Handles : Owns(c, x) /\ x # h => Owns(d, x)
           /\ \A x \in Handles : Stale(c, x) => Stale(d, x)
           /\ Stale(d, h)
  <1>1. WellTyped(c) /\ WellTyped(d) /\ EdgesMatch(c) /\ d.id = c.id /\ DOMAIN d.slots = DOMAIN c.slots
    BY EdgesPointwise DEF ContentsOK, Destroyed
  <1>2. EdgesAgree(d)
    BY <1>1, DestroyedEdges, EdgesPointwise
  <1>3. \A x \in Handles : Owns(d, x) <=> Owns(c, x) /\ x # h
    BY <1>1, DestroyedOwns
  <1>4. ComponentsFollow(d)
    <2>1. \A k \in c.components : k.addedTo \in Handles
      BY <1>1, ContentsTypes DEF Components
    <2>2. \A k \in d.components : k \in c.components /\ k.index # h.index
      BY DEF Destroyed
    <2>3. \A k \in c.components : k.index = k.addedTo.index /\ Owns(c, k.addedTo)
      BY DEF ContentsOK, ComponentsFollow
    <2> QED
      BY <2>1, <2>2, <2>3, <1>3 DEF ComponentsFollow
  <1>5. /\ IsInjective(c.free)
        /\ \A j : InFree(c, j) => j \in DOMAIN c.slots \ Live(c)
        /\ \A j \in DOMAIN c.slots \ Live(c) : Retired(c.slots[j]) \/ InFree(c, j)
    BY <1>1, FreePointwise DEF ContentsOK
  <1>6. h.index \in DOMAIN c.slots /\ h.index \in Live(c) /\ h = HandleAt(c, h.index)
    BY <1>1, OwnsIs DEF Live
  <1>7. \A i \in DOMAIN c.slots : i # h.index =>
            /\ d.slots[i].alive = c.slots[i].alive
            /\ d.slots[i].generation = c.slots[i].generation
            /\ d.slots[i].parent = IF c.slots[i].parent = h THEN None ELSE c.slots[i].parent
    BY DEF Destroyed
  <1>8. Live(d) = Live(c) \ {h.index}
    <2>1. h.index \notin Live(d)
      BY DEF Destroyed, Live
    <2> QED
      BY <2>1, <1>1, <1>7 DEF Live
  <1>9. \/ /\ Retired(c.slots[h.index]) /\ d.slots[h.index].generation = c.slots[h.index].generation
           /\ \A j : InFree(d, j) <=> InFree(c, j)
        \/ /\ d.slots[h.index].generation = c.slots[h.index].generation + 1
           /\ \A j : InFree(d, j) <=> InFree(c, j) \/ j = h.index
    BY DEF Destroyed
  <1>10. FreeIsExact(d)
    <2>1. \A j : InFree(d, j) => j \in DOMAIN d.slots \ Live(d)
      BY <1>1, <1>5, <1>6, <1>8, <1>9
    <2>2. ASSUME NEW j \in DOMAIN d.slots \ Live(d)
          PROVE  Retired(d.slots[j]) \/ InFree(d, j)
      <3>1. CASE j = h.index
        BY <3>1, <1>9 DEF Retired
      <3>2. CASE j # h.index
        BY <3>2, <1>1, <1>5, <1>7, <1>8, <1>9 DEF Retired
      <3> QED
        BY <3>1, <3>2
    <2>3. IsInjective(d.free)
      BY DEF Destroyed
    <2> QED
      BY <2>1, <2>2, <2>3, <1>1, FreePointwise
  <1>11. Grounded(d, DOMAIN d.slots)
    <2> SUFFICES ASSUME NEW T \in SUBSET DOMAIN d.slots, T # {}
                 PROVE  \E j \in T : d.slots[j].parent # None => d.slots[j].parent.index \notin T
      BY DEF Grounded
    <2>1. PICK j \in T : c.slots[j].parent # None => c.slots[j].parent.index \notin T
      BY <1>1 DEF ContentsOK, Grounded
    <2>2. d.slots[j].parent = None \/ d.slots[j].parent = c.slots[j].parent
      <3>1. j = h.index => d.slots[j].parent = None
        BY DEF Destroyed
      <3> QED
        BY <3>1, <1>1, <1>7
    <2> QED
      BY <2>1, <2>2
  <1>12. \A i \in DOMAIN c.slots : c.slots[i].generation \in Nat /\ d.slots[i].generation \in Nat
    BY <1>1, ContentsTypes
  <1>13. ASSUME NEW x \in Handles, Stale(c, x) PROVE Stale(d, x)
    <2> SUFFICES ASSUME x.scene = d.id
                 PROVE  /\ x.index \in DOMAIN d.slots
                        /\ \/ x.generation < d.slots[x.index].generation
                           \/ /\ x.generation = d.slots[x.index].generation
                              /\ x.index \notin Live(d) /\ ~InFree(d, x.index)
      BY DEF Stale
    <2>1. /\ x.index \in DOMAIN c.slots
          /\ \/ x.generation < c.slots[x.index].generation
             \/ /\ x.generation = c.slots[x.index].generation
                /\ x.index \notin Live(c) /\ ~InFree(c, x.index)
      BY <1>1, <1>13 DEF Stale
    <2>2. x.generation \in Nat
      BY HandleParts
    <2>3. CASE x.index = h.index
      BY <2>1, <2>2, <2>3, <1>1, <1>6, <1>9, <1>12
    <2>4. CASE x.index # h.index
      BY <2>1, <2>4, <1>1, <1>7, <1>8, <1>9
    <2> QED
      BY <2>3, <2>4
  <1>14. Stale(d, h)
    <2>1. h.generation = c.slots[h.index].generation
      BY <1>6, HandleParts
    <2>2. ~InFree(c, h.index) /\ h.index \notin Live(d)
      BY <1>5, <1>6, <1>8
    <2> QED
      BY <2>1, <2>2, <1>1, <1>6, <1>9, <1>12 DEF Stale
  <1> QED
    BY <1>1, <1>2, <1>3, <1>4, <1>10, <1>11, <1>13, <1>14 DEF ContentsOK
-----------------------------------------------------------------------------
(* The walk of set_parent up the hierarchy.                                *)

Above(c, x) == IF Owns(c, x) THEN c.slots[x.index].parent ELSE None

IsWalk(c, parent, m, w) ==
    w = [n \in 0..m |-> IF n = 0 THEN parent ELSE Above(c, w[n - 1])]

\* The recursive definition of the walk defines something: a least length
\* without a walk cannot exist.
LEMMA WalkExists ==
    ASSUME NEW c, NEW parent, NEW m \in Nat
    PROVE  \E w : IsWalk(c, parent, m, w)
  <1> DEFINE Missing == {k \in Nat : ~\E w : IsWalk(c, parent, k, w)}
  <1> SUFFICES ASSUME Missing # {} PROVE FALSE
    OBVIOUS
  <1>1. PICK k \in Missing : \A j \in Missing : k <= j
    <2>1. Missing \in SUBSET Nat
      OBVIOUS
    <2> HIDE DEF Missing
    <2> QED
      BY <2>1, Least
  <1>2. CASE k = 0
    <2> DEFINE w == [n \in 0..0 |-> parent]
    <2>1. w = [n \in 0..0 |-> IF n = 0 THEN parent ELSE Above(c, w[n - 1])]
      OBVIOUS
    <2>2. IsWalk(c, parent, 0, w)
      BY <2>1 DEF IsWalk
    <2> HIDE DEF w
    <2> QED
      BY <2>2, <1>1, <1>2
  <1>3. CASE k # 0
    <2>1. k - 1 \in Nat /\ k \in Nat /\ ~(k <= k - 1)
      BY <1>1, <1>3
    <2>2. k - 1 \notin Missing
      BY <1>1, <2>1
    <2>3. PICK w : IsWalk(c, parent, k - 1, w)
      BY <2>1, <2>2
    <2> DEFINE v == [n \in 0..k |-> IF n = k THEN Above(c, w[k - 1]) ELSE w[n]]
    <2>4. \A n \in 0..(k - 1) : w[n] = IF n = 0 THEN parent ELSE Above(c, w[n - 1])
      BY <2>3 DEF IsWalk
    <2>5. \A n \in 0..k : v[n] = IF n = 0 THEN parent ELSE Above(c, v[n - 1])
      <3> SUFFICES ASSUME NEW n \in 0..k
                   PROVE  v[n] = IF n = 0 THEN parent ELSE Above(c, v[n - 1])
        OBVIOUS
      <3>1. CASE n = k
        <4>1. v[n] = Above(c, w[k - 1]) /\ v[n - 1] = w[k - 1]
          BY <3>1, <2>1
        <4> QED
          BY <4>1, <3>1, <1>3
      <3>2. CASE n # k
        <4>1. n \in 0..(k - 1) /\ v[n] = w[n] /\ (n # 0 => v[n - 1] = w[n - 1])
          BY <3>2, <2>1
        <4> QED
          BY <4>1, <2>4
      <3> QED
        BY <3>1, <3>2
    <2>6. v = [n \in 0..k |-> v[n]]
      OBVIOUS
    <2> HIDE DEF v
    <2>7. v = [n \in 0..k |-> IF n = 0 THEN parent ELSE Above(c, v[n - 1])]
      BY <2>5, <2>6
    <2>8. IsWalk(c, parent, k, v)
      BY <2>7 DEF IsWalk
    <2> QED
      BY <2>8, <1>1
  <1> QED
    BY <1>2, <1>3

\* One step of the walk to the root.
LEMMA WalkSteps ==
    ASSUME NEW c, WellTyped(c), NEW parent
    PROVE  LET walk == Visited(c, parent) IN
           /\ DOMAIN walk = 0..Len(c.slots) /\ walk[0] = parent
           /\ \A n \in 1..Len(c.slots) : walk[n] = Above(c, walk[n - 1])
  <1> DEFINE m == Len(c.slots)
             walk == Visited(c, parent)
  <1>1. m \in Nat
    BY ContentsTypes
  <1>2. walk = CHOOSE w : IsWalk(c, parent, m, w)
    BY DEF Visited, IsWalk, Above
  <1> HIDE DEF walk, m
  <1>3. IsWalk(c, parent, m, walk)
    BY <1>1, <1>2, WalkExists
  <1>4. walk = [n \in 0..m |-> IF n = 0 THEN parent ELSE Above(c, walk[n - 1])]
    BY <1>3 DEF IsWalk
  <1>5. DOMAIN walk = 0..m
    BY <1>4
  <1>6. \A n \in 0..m : walk[n] = IF n = 0 THEN parent ELSE Above(c, walk[n - 1])
    BY <1>4
  <1>7. walk[0] = parent /\ \A n \in 1..m : walk[n] = Above(c, walk[n - 1])
    BY <1>1, <1>6
  <1> QED
    BY <1>5, <1>7 DEF walk, m

\* A set of slots without a way out, whose way out was the child, would hold
\* the walk captive.
LEMMA WalkIsCaptive ==
    ASSUME NEW c, WellTyped(c), EdgesMatch(c), NEW child \in Handles, NEW parent \in Handles,
           Owns(c, child), MayAdopt(c, child, parent),
           NEW T \in SUBSET DOMAIN c.slots, parent.index \in T,
           \A j \in T : j # child.index => c.slots[j].parent # None /\ c.slots[j].parent.index \in T
    PROVE  FALSE
  <1> DEFINE walk == Visited(c, parent)
             Free == {n \in 0..Len(c.slots) : ~(walk[n] \in Handles /\ walk[n].index \in T)}
  <1>1. /\ DOMAIN walk = 0..Len(c.slots) /\ walk[0] = parent
        /\ \A n \in 1..Len(c.slots) : walk[n] = Above(c, walk[n - 1])
    BY WalkSteps
  <1>2. /\ \A n \in 0..Len(c.slots) : walk[n] # child /\ (walk[n] = None \/ Owns(c, walk[n]))
        /\ walk[Len(c.slots)] = None
    BY <1>1 DEF MayAdopt
  <1>3. Len(c.slots) \in Nat
    BY ContentsTypes
  <1> HIDE DEF walk
  <1>4. Free \in SUBSET Nat /\ Len(c.slots) \in Free
    BY <1>2, <1>3, NoneAssumption
  <1>5. PICK n \in Free : \A j \in Free : n <= j
    <2> HIDE DEF Free
    <2> QED
      BY <1>4, Least
  <1>6. n # 0
    BY <1>1, <1>5
  <1>7. n \in 1..Len(c.slots) /\ n - 1 \in 0..Len(c.slots) /\ ~(n <= n - 1)
    BY <1>3, <1>5, <1>6
  <1>8. walk[n - 1] \in Handles /\ walk[n - 1].index \in T
    BY <1>5, <1>7
  <1>9. Owns(c, walk[n - 1]) /\ walk[n - 1].index # child.index
    <2>1. Owns(c, walk[n - 1]) /\ walk[n - 1] # child
      BY <1>2, <1>7, <1>8, NoneAssumption
    <2> QED
      BY <2>1, <1>8, OneHandlePerSlot
  <1>10. walk[n] = c.slots[walk[n - 1].index].parent
    BY <1>1, <1>7, <1>9 DEF Above
  <1>11. walk[n] # None /\ walk[n].index \in T
    BY <1>8, <1>9, <1>10
  <1>12. walk[n] \in Handles
    BY <1>8, <1>10, <1>11, ContentsTypes
  <1> QED
    BY <1>5, <1>11, <1>12
-----------------------------------------------------------------------------
(* set_parent: the child moves below `parent', or becomes a root.          *)

Adopts(c, child, parent) ==
    /\ Owns(c, child)
    /\ parent # None => parent \in Handles /\ Owns(c, parent) /\ MayAdopt(c, child, parent)

Moved(c, d, child, parent) ==
    /\ WellTyped(d) /\ d.id = c.id /\ DOMAIN d.slots = DOMAIN c.slots
    /\ d.free = c.free /\ d.components = c.components
    /\ \A i \in DOMAIN c.slots :
          /\ d.slots[i].alive = c.slots[i].alive
          /\ d.slots[i].generation = c.slots[i].generation
          /\ d.slots[i].parent = IF i = child.index THEN parent ELSE c.slots[i].parent
          /\ IsInjective(d.slots[i].children)
          /\ Kids(d, i) = IF parent # None /\ parent.index = i THEN Kids(c, i) \cup {child}
                          ELSE Kids(c, i) \ {child}

\* set_parent, slot by slot.
LEMMA ReparentedShape ==
    ASSUME NEW c, ContentsOK(c), NEW child \in Handles, NEW parent \in Handles \cup {None},
           Owns(c, child)
    PROVE  Moved(c, Reparented(c, child, parent), child, parent)
  <1> DEFINE d == Reparented(c, child, parent)
             old == c.slots[child.index].parent
             newKids(i) ==
                IF parent # None /\ parent.index = i
                THEN IF Contains(c.slots[i].children, child) THEN c.slots[i].children
                     ELSE Append(c.slots[i].children, child)
                ELSE IF Owns(c, old) /\ old.index = i THEN RemoveFirst(c.slots[i].children, child)
                ELSE c.slots[i].children
             newParent(i) == IF i = child.index THEN parent ELSE c.slots[i].parent
             kept(i) == [[c.slots[i] EXCEPT !.children = newKids(i)] EXCEPT !.parent = newParent(i)]
             slots == [i \in DOMAIN c.slots |-> kept(i)]
  <1>1. WellTyped(c) /\ EdgesMatch(c) /\ c \in SceneType
    BY EdgesPointwise DEF ContentsOK, WellTyped
  <1>2. \A i \in DOMAIN c.slots :
           /\ c.slots[i] \in Slots /\ c.slots[i].parent \in Handles \cup {None}
           /\ c.slots[i].children \in Seq(Handles) /\ IsInjective(c.slots[i].children)
    BY <1>1, ContentsTypes DEF EdgesMatch
  <1>3. ASSUME NEW i \in DOMAIN c.slots
        PROVE  /\ newKids(i) \in Seq(Handles) /\ IsInjective(newKids(i))
               /\ ToSet(newKids(i)) = IF parent # None /\ parent.index = i
                                      THEN Kids(c, i) \cup {child} ELSE Kids(c, i) \ {child}
    <2> DEFINE s == c.slots[i].children
    <2>1. s \in Seq(Handles) /\ IsInjective(s) /\ Kids(c, i) = ToSet(s)
      BY <1>2 DEF Kids
    <2>2. Contains(s, child) <=> child \in ToSet(s)
      <3>1. DOMAIN s = 1..Len(s)
        BY <2>1, LenProperties
      <3> QED
        BY <3>1 DEF Contains, ToSet
    <2>3. CASE parent # None /\ parent.index = i
      <3>1. CASE Contains(s, child)
        BY <2>1, <2>2, <2>3, <3>1
      <3>2. CASE ~Contains(s, child)
        <4>1. newKids(i) = Append(s, child)
          BY <2>3, <3>2
        <4>2. child \notin ToSet(s)
          BY <2>2, <3>2
        <4> HIDE DEF s
        <4>3. /\ Append(s, child) \in Seq(Handles) /\ IsInjective(Append(s, child))
              /\ ToSet(Append(s, child)) = ToSet(s) \cup {child}
          BY <2>1, <4>2, AppendToSet
        <4> HIDE DEF newKids
        <4> QED
          BY <2>1, <2>3, <4>1, <4>3
      <3> QED
        BY <3>1, <3>2
    <2>4. CASE ~(parent # None /\ parent.index = i) /\ Owns(c, old) /\ old.index = i
      <3>1. newKids(i) = RemoveFirst(s, child)
        BY <2>4
      <3> HIDE DEF newKids, s
      <3>2. /\ RemoveFirst(s, child) \in Seq(Handles) /\ IsInjective(RemoveFirst(s, child))
            /\ ToSet(RemoveFirst(s, child)) = ToSet(s) \ {child}
        BY <2>1, RemoveFirstProperties
      <3> QED
        BY <2>1, <2>4, <3>1, <3>2
    <2>5. CASE ~(parent # None /\ parent.index = i) /\ ~(Owns(c, old) /\ old.index = i)
      <3>1. child \notin Kids(c, i)
        BY <2>5, <1>1, ListedByParent
      <3>2. newKids(i) = s
        BY <2>5
      <3> HIDE DEF newKids
      <3> QED
        BY <2>1, <2>5, <3>1, <3>2
    <2> QED
      BY <2>3, <2>4, <2>5
  <1>4. d = [c EXCEPT !.slots = slots]
    BY <1>1 DEF Reparented
  <1> HIDE DEF newKids, d
  <1>5. ASSUME NEW i \in DOMAIN c.slots
        PROVE  /\ kept(i) \in Slots /\ kept(i).alive = c.slots[i].alive
               /\ kept(i).generation = c.slots[i].generation
               /\ kept(i).parent = newParent(i) /\ kept(i).children = newKids(i)
    <2>1. newParent(i) \in Handles \cup {None} /\ newKids(i) \in Seq(Handles) /\ c.slots[i] \in Slots
      BY <1>2, <1>3
    <2> HIDE DEF newParent
    <2> QED
      BY <2>1 DEF Slots
  <1> HIDE DEF kept
  <1>6. DOMAIN c.slots = 1..Len(c.slots) /\ Len(c.slots) \in Nat /\ Len(c.slots) <= MaxEntities
    BY <1>1, ContentsTypes
  <1>7. slots \in Seq(Slots) /\ Len(slots) = Len(c.slots) /\ DOMAIN slots = DOMAIN c.slots
    BY <1>5, <1>6, IsASeq
  <1> DEFINE final == [c EXCEPT !.slots = slots]
  <1>8. final = d
    BY <1>4
  <1>9. \A i \in DOMAIN c.slots : slots[i] = kept(i)
    OBVIOUS
  <1> HIDE DEF slots
  <1>10. /\ final.id = c.id /\ final.slots = slots /\ final.free = c.free
         /\ final.components = c.components /\ final \in SceneType
    BY <1>1, <1>7 DEF SceneType
  <1> HIDE DEF final
  <1>11. WellTyped(d)
    <2>1. DOMAIN c.slots # {} => c.id # 0
      BY <1>1, ContentsTypes
    <2>2. c.id = 0 => slots = <<>>
      <3>1. Len(c.slots) # 0 => 1 \in DOMAIN c.slots
        BY <1>6
      <3>2. c.id = 0 => Len(slots) = 0
        BY <2>1, <3>1, <1>7
      <3> QED
        BY <3>2, <1>7, EmptySeq
    <2> QED
      BY <2>2, <1>6, <1>7, <1>8, <1>10 DEF WellTyped
  <1>12. /\ d.id = c.id /\ DOMAIN d.slots = DOMAIN c.slots
         /\ d.free = c.free /\ d.components = c.components
         /\ \A i \in DOMAIN c.slots : d.slots[i] = kept(i)
    BY <1>7, <1>8, <1>9, <1>10
  <1>13. ASSUME NEW i \in DOMAIN c.slots
         PROVE  /\ d.slots[i].alive = c.slots[i].alive
                /\ d.slots[i].generation = c.slots[i].generation
                /\ d.slots[i].parent = IF i = child.index THEN parent ELSE c.slots[i].parent
                /\ IsInjective(d.slots[i].children)
                /\ Kids(d, i) = IF parent # None /\ parent.index = i THEN Kids(c, i) \cup {child}
                                ELSE Kids(c, i) \ {child}
    <2>1. /\ d.slots[i].alive = c.slots[i].alive /\ d.slots[i].generation = c.slots[i].generation
          /\ d.slots[i].parent = newParent(i) /\ d.slots[i].children = newKids(i)
      BY <1>5, <1>12
    <2>2. IsInjective(d.slots[i].children) /\ Kids(d, i) = ToSet(newKids(i))
      BY <2>1, <1>3 DEF Kids
    <2> QED
      BY <2>1, <2>2, <1>3
  <1>14. Moved(c, d, child, parent)
    BY <1>11, <1>12, <1>13 DEF Moved
  <1> QED
    BY <1>14 DEF d

\* Every handle is worth what it was.
LEMMA MovedOwns ==
    ASSUME NEW c, NEW d, NEW child, NEW parent, Moved(c, d, child, parent)
    PROVE  /\ \A x : Owns(d, x) <=> Owns(c, x)
           /\ Live(d) = Live(c)
           /\ \A i \in DOMAIN c.slots : HandleAt(d, i) = HandleAt(c, i)
  <1>1. /\ d.id = c.id /\ DOMAIN d.slots = DOMAIN c.slots
        /\ \A i \in DOMAIN c.slots : /\ d.slots[i].alive = c.slots[i].alive
                                     /\ d.slots[i].generation = c.slots[i].generation
    BY DEF Moved
  <1> QED
    BY <1>1 DEF Owns, Live, HandleAt

\* The child leaves one list and enters the other.
LEMMA MovedEdges ==
    ASSUME NEW c, NEW d, NEW child \in Handles, NEW parent, WellTyped(c), EdgesMatch(c),
           Adopts(c, child, parent), Moved(c, d, child, parent)
    PROVE  EdgesMatch(d)
  <1>1. /\ DOMAIN d.slots = DOMAIN c.slots
        /\ \A i \in DOMAIN c.slots :
              /\ d.slots[i].alive = c.slots[i].alive
              /\ d.slots[i].parent = IF i = child.index THEN parent ELSE c.slots[i].parent
              /\ IsInjective(d.slots[i].children)
              /\ Kids(d, i) = IF parent # None /\ parent.index = i THEN Kids(c, i) \cup {child}
                              ELSE Kids(c, i) \ {child}
    BY DEF Moved
  <1>2. /\ \A x : Owns(d, x) <=> Owns(c, x)
        /\ \A i \in DOMAIN c.slots : HandleAt(d, i) = HandleAt(c, i)
    BY MovedOwns
  <1>3. \A x \in Handles : Owns(c, x) => /\ x.index \in DOMAIN c.slots /\ c.slots[x.index].alive
                                         /\ x = HandleAt(c, x.index)
    BY OwnsIs DEF Live
  <1>4. Owns(c, child) /\ (parent # None => parent \in Handles /\ Owns(c, parent))
    BY DEF Adopts
  <1> SUFFICES ASSUME NEW i \in DOMAIN c.slots
               PROVE  /\ \A x \in Handles :
                           x \in Kids(d, i) <=> Owns(d, x) /\ d.slots[x.index].parent = HandleAt(d, i)
                      /\ IsInjective(d.slots[i].children)
                      /\ d.slots[i].parent # None => d.slots[i].alive /\ Owns(d, d.slots[i].parent)
    BY <1>1 DEF EdgesMatch
  <1>5. HandleAt(c, i) \in Handles /\ HandleAt(c, i).index = i /\ HandleAt(c, i) # None
    BY ContentsTypes, HandleParts
  <1>6. (parent # None /\ parent.index = i) <=> parent = HandleAt(c, i)
    BY <1>3, <1>4, <1>5
  <1>7. ASSUME NEW x \in Handles
        PROVE  x \in Kids(d, i) <=> Owns(d, x) /\ d.slots[x.index].parent = HandleAt(d, i)
    <2>1. x \in Kids(c, i) <=> Owns(c, x) /\ c.slots[x.index].parent = HandleAt(c, i)
      BY DEF EdgesMatch
    <2>2. CASE x = child
      <3>1. x \in Kids(d, i) <=> parent = HandleAt(c, i)
        BY <2>2, <1>1, <1>6
      <3>2. d.slots[x.index].parent = parent
        BY <2>2, <1>1, <1>3, <1>4
      <3> QED
        BY <2>2, <3>1, <3>2, <1>2, <1>4
    <2>3. CASE x # child
      <3>1. x \in Kids(d, i) <=> x \in Kids(c, i)
        BY <2>3, <1>1
      <3>2. Owns(c, x) => x.index # child.index /\ d.slots[x.index].parent = c.slots[x.index].parent
        BY <2>3, <1>1, <1>3, <1>4
      <3> QED
        BY <2>1, <3>1, <3>2, <1>2
    <2> QED
      BY <2>2, <2>3
  <1>8. d.slots[i].parent # None => d.slots[i].alive /\ Owns(d, d.slots[i].parent)
    <2>1. CASE i = child.index
      BY <2>1, <1>1, <1>2, <1>3, <1>4
    <2>2. CASE i # child.index
      BY <2>2, <1>1, <1>2 DEF EdgesMatch
    <2> QED
      BY <2>1, <2>2
  <1> QED
    BY <1>1, <1>7, <1>8

\* The walk has made sure that the new edge closes no circle.
LEMMA MovedGrounded ==
    ASSUME NEW c, NEW d, NEW child \in Handles, NEW parent, ContentsOK(c), EdgesMatch(c),
           Adopts(c, child, parent), Moved(c, d, child, parent)
    PROVE  Grounded(d, DOMAIN d.slots)
  <1> SUFFICES ASSUME NEW T \in SUBSET DOMAIN d.slots, T # {},
                      \A j \in T : d.slots[j].parent # None /\ d.slots[j].parent.index \in T
               PROVE  FALSE
    BY DEF Grounded
  <1>1. /\ DOMAIN d.slots = DOMAIN c.slots /\ WellTyped(c)
        /\ \A i \in DOMAIN c.slots :
              d.slots[i].parent = IF i = child.index THEN parent ELSE c.slots[i].parent
    BY DEF Moved, ContentsOK
  <1>2. child.index \in T
    <2> SUFFICES ASSUME child.index \notin T PROVE FALSE
      OBVIOUS
    <2>1. \A j \in T : d.slots[j].parent = c.slots[j].parent
      BY <1>1
    <2>2. \E j \in T : c.slots[j].parent # None => c.slots[j].parent.index \notin T
      BY <1>1 DEF ContentsOK, Grounded
    <2> QED
      BY <2>1, <2>2
  <1>3. parent # None /\ parent.index \in T
    BY <1>1, <1>2
  <1>4. \A j \in T : j # child.index => c.slots[j].parent # None /\ c.slots[j].parent.index \in T
    BY <1>1
  <1>5. Owns(c, child) /\ parent \in Handles /\ MayAdopt(c, child, parent)
    BY <1>3 DEF Adopts
  <1> QED
    BY <1>1, <1>3, <1>4, <1>5, WalkIsCaptive

\* set_parent keeps all that the contents of a scene promise.
LEMMA MovedKeeps ==
    ASSUME NEW c, NEW d, NEW child \in Handles, NEW parent, ContentsOK(c),
           Adopts(c, child, parent), Moved(c, d, child, parent)
    PROVE  /\ ContentsOK(d) /\ d.id = c.id
           /\ \A x : Owns(d, x) <=> Owns(c, x)
           /\ \A x : Stale(c, x) => Stale(d, x)
  <1>1. WellTyped(c) /\ WellTyped(d) /\ EdgesMatch(c) /\ d.id = c.id
    BY EdgesPointwise DEF ContentsOK, Moved
  <1>2. EdgesAgree(d) /\ Grounded(d, DOMAIN d.slots)
    BY <1>1, MovedEdges, MovedGrounded, EdgesPointwise
  <1>3. (\A x : Owns(d, x) <=> Owns(c, x)) /\ Live(d) = Live(c)
    BY MovedOwns
  <1>4. ComponentsFollow(d)
    BY <1>3 DEF ComponentsFollow, ContentsOK, Moved
  <1>5. /\ DOMAIN d.slots = DOMAIN c.slots /\ d.free = c.free
        /\ \A i \in DOMAIN c.slots : d.slots[i].generation = c.slots[i].generation
    BY DEF Moved
  <1>6. FreeIsExact(d)
    BY <1>3, <1>5 DEF FreeIsExact, Retired, ContentsOK
  <1>7. \A x : Stale(c, x) => Stale(d, x)
    BY <1>1, <1>3, <1>5 DEF Stale, InFree
  <1> QED
    BY <1>1, <1>2, <1>3, <1>4, <1>6, <1>7 DEF ContentsOK
-----------------------------------------------------------------------------
(* add_component and remove_component: only the components change.         *)

LEMMA ComponentsChange ==
    ASSUME NEW c, ContentsOK(c), NEW K \in SUBSET Components,
           \A k \in K : k.index = k.addedTo.index /\ Owns(c, k.addedTo)
    PROVE  LET d == [c EXCEPT !.components = K] IN
           /\ ContentsOK(d) /\ d.id = c.id
           /\ \A x : Owns(d, x) <=> Owns(c, x)
           /\ \A x : Stale(c, x) => Stale(d, x)
  <1> DEFINE d == [c EXCEPT !.components = K]
  <1>1. /\ d.id = c.id /\ d.slots = c.slots /\ d.free = c.free /\ d.components = K
        /\ d \in SceneType
    BY DEF ContentsOK, WellTyped, SceneType
  <1> HIDE DEF d
  <1>2. WellTyped(d)
    BY <1>1 DEF ContentsOK, WellTyped
  <1>3. (\A x : Owns(d, x) <=> Owns(c, x)) /\ Live(d) = Live(c)
    BY <1>1 DEF Owns, Live
  <1>4. \A i : HandleAt(d, i) = HandleAt(c, i)
    BY <1>1 DEF HandleAt
  <1>5. FreeIsExact(d) /\ Grounded(d, DOMAIN d.slots)
    BY <1>1, <1>3 DEF FreeIsExact, Grounded, ContentsOK
  <1>6. EdgesMatch(d)
    <2>1. EdgesMatch(c)
      BY EdgesPointwise DEF ContentsOK
    <2> QED
      BY <2>1, <1>1, <1>3, <1>4 DEF EdgesMatch, Kids
  <1>7. ComponentsFollow(d)
    BY <1>1, <1>3 DEF ComponentsFollow
  <1>8. \A x : Stale(c, x) => Stale(d, x)
    BY <1>1, <1>3 DEF Stale, InFree
  <1>9. ContentsOK(d)
    BY <1>2, <1>5, <1>6, <1>7, EdgesPointwise DEF ContentsOK
  <1> QED
    BY <1>1, <1>3, <1>8, <1>9 DEF d

\* A scene that was just created, or moved from, is in order.
LEMMA EmptyIsOK ==
    ASSUME NEW n \in 0..(MaxSceneId - 1)
    PROVE  LET c == [MovedFrom EXCEPT !.id = n] IN
           /\ ContentsOK(c) /\ c.id = n /\ \A x : ~Owns(c, x)
  <1> DEFINE c == [MovedFrom EXCEPT !.id = n]
  <1>0. /\ MovedFrom \in SceneType
        /\ MovedFrom.slots = <<>> /\ MovedFrom.free = <<>> /\ MovedFrom.components = {}
    <2>1. <<>> \in Seq(Slots) /\ <<>> \in Seq(1..MaxEntities) /\ {} \in SUBSET Components
      BY EmptySeq
    <2>2. 0 \in 0..(MaxSceneId - 1)
      BY LimitAssumption
    <2> QED
      BY <2>1, <2>2 DEF MovedFrom, SceneType
  <1>1. /\ c.id = n /\ c.slots = <<>> /\ c.free = <<>> /\ c.components = {}
        /\ c \in SceneType
    BY <1>0 DEF SceneType
  <1> HIDE DEF c
  <1>2. c \in SceneType
    BY <1>1
  <1>3. DOMAIN c.slots = {} /\ DOMAIN c.free = {} /\ Len(c.slots) = 0
    BY <1>1
  <1>4. WellTyped(c)
    BY <1>1, <1>2, <1>3, LimitAssumption DEF WellTyped
  <1>5. FreeIsExact(c) /\ EdgesAgree(c) /\ Grounded(c, DOMAIN c.slots)
    BY <1>3 DEF FreeIsExact, EdgesAgree, Grounded
  <1>6. ComponentsFollow(c) /\ \A x : ~Owns(c, x)
    BY <1>1, <1>3 DEF ComponentsFollow, Owns
  <1> QED
    BY <1>1, <1>4, <1>5, <1>6 DEF ContentsOK, c
-----------------------------------------------------------------------------
(* The objects together.                                                   *)

OneObjectPerScene ==
    \A o, p \in Objects : o # p /\ scenes[o].id # 0 => scenes[o].id # scenes[p].id

\* Scene identifiers are given out upwards, and what ended is stale wherever
\* it could be presented.
SceneInv ==
    /\ SceneTypeOK
    /\ \A o \in Objects : ContentsOK(scenes[o]) /\ scenes[o].id < nextSceneId
    /\ OneObjectPerScene
    /\ \A h \in ended : h.scene < nextSceneId /\ \A o \in Objects : Stale(scenes[o], h)

\* The handles accepted anywhere.
LEMMA AliveIs ==
    ASSUME NEW S, \A o \in Objects : ContentsOK(S[o])
    PROVE  AliveIn(S) = {x \in Handles : \E o \in Objects : Owns(S[o], x)}
  <1>1. \A o \in Objects : LiveHandles(S[o]) = {x \in Handles : Owns(S[o], x)}
    BY LiveHandlesAre DEF ContentsOK
  <1>2. AliveIn(S) \subseteq {x \in Handles : \E o \in Objects : Owns(S[o], x)}
    BY <1>1 DEF AliveIn
  <1>3. {x \in Handles : \E o \in Objects : Owns(S[o], x)} \subseteq AliveIn(S)
    BY <1>1 DEF AliveIn
  <1> QED
    BY <1>2, <1>3

\* A step that replaces what the objects hold.
LEMMA BecomesKeeps ==
    ASSUME SceneInv, NEW contents, Becomes(contents), DOMAIN contents = Objects,
           nextSceneId' \in 1..MaxSceneId, nextSceneId <= nextSceneId',
           candidate' \in [Objects -> 0..(MaxSceneId - 1)],
           \A o \in Objects : ContentsOK(contents[o]) /\ contents[o].id < nextSceneId',
           \A o, p \in Objects : o # p /\ contents[o].id # 0 => contents[o].id # contents[p].id,
           \A h \in ended : \A o \in Objects : Stale(contents[o], h),
           \A h \in Handles : \A o, p \in Objects :
              Owns(scenes[o], h) /\ (\A q \in Objects : ~Owns(contents[q], h)) => Stale(contents[p], h)
    PROVE  SceneInv'
  <1>1. scenes' = contents /\ ended' = ended \cup (AliveIn(scenes) \ AliveIn(contents))
    BY DEF Becomes
  <1>2. AliveIn(scenes) = {x \in Handles : \E o \in Objects : Owns(scenes[o], x)}
    BY AliveIs DEF SceneInv
  <1>3. AliveIn(contents) = {x \in Handles : \E o \in Objects : Owns(contents[o], x)}
    BY AliveIs
  <1>4. nextSceneId \in Nat /\ nextSceneId' \in Nat /\ ended \subseteq Handles
    BY DEF SceneInv, SceneTypeOK
  <1>5. \A h \in Handles : h.scene \in Nat
    BY HandleParts
  <1>6. \A o \in Objects : scenes[o].id < nextSceneId /\ scenes[o].id \in Nat
    BY ContentsTypes DEF SceneInv, ContentsOK
  <1>7. ASSUME NEW h \in ended'
        PROVE  h \in Handles /\ h.scene < nextSceneId' /\ \A o \in Objects : Stale(contents[o], h)
    <2>1. CASE h \in ended
      BY <2>1, <1>4, <1>5 DEF SceneInv
    <2>2. CASE h \notin ended
      <3>1. h \in Handles /\ (\E o \in Objects : Owns(scenes[o], h))
            /\ \A q \in Objects : ~Owns(contents[q], h)
        BY <2>2, <1>1, <1>2, <1>3
      <3>2. PICK o \in Objects : Owns(scenes[o], h)
        BY <3>1
      <3>3. h.scene = scenes[o].id
        BY <3>2 DEF Owns
      <3> QED
        BY <3>1, <3>2, <3>3, <1>4, <1>5, <1>6
    <2> QED
      BY <2>1, <2>2
  <1>8. SceneTypeOK'
    <2>1. \A o \in Objects : contents[o] \in SceneType /\ Len(contents[o].slots) <= MaxEntities
      BY DEF ContentsOK, WellTyped
    <2> QED
      BY <2>1, <1>1, <1>7 DEF SceneTypeOK
  <1>9. \A h \in ended' : h.scene < nextSceneId' /\ \A o \in Objects : Stale(scenes'[o], h)
    BY <1>1, <1>7
  <1>10. \A o \in Objects : ContentsOK(scenes'[o]) /\ scenes'[o].id < nextSceneId'
    BY <1>1
  <1>11. OneObjectPerScene'
    BY <1>1 DEF OneObjectPerScene
  <1> QED
    BY <1>8, <1>9, <1>10, <1>11 DEF SceneInv

\* A step of one object on what it holds.
LEMMA UpdateKeeps ==
    ASSUME SceneInv, NEW o \in Objects, NEW c, Updates(o, c),
           ContentsOK(c), c.id = scenes[o].id,
           \A x \in Handles : Owns(scenes[o], x) => Owns(c, x) \/ Stale(c, x),
           \A x \in Handles : Stale(scenes[o], x) => Stale(c, x)
    PROVE  SceneInv'
  <1> DEFINE contents == [scenes EXCEPT ![o] = c]
  <1>1. Becomes(contents) /\ nextSceneId' = nextSceneId /\ candidate' = candidate
    BY DEF Updates
  <1>2. DOMAIN scenes = Objects
    BY DEF SceneInv, SceneTypeOK
  <1>3. /\ DOMAIN contents = Objects /\ contents[o] = c
        /\ \A p \in Objects : p # o => contents[p] = scenes[p]
    BY <1>2
  <1> HIDE DEF contents
  <1>4. /\ nextSceneId \in 1..MaxSceneId /\ candidate \in [Objects -> 0..(MaxSceneId - 1)]
        /\ nextSceneId <= nextSceneId /\ ended \subseteq Handles
    BY DEF SceneInv, SceneTypeOK
  <1>5. /\ \A p \in Objects : ContentsOK(scenes[p]) /\ scenes[p].id < nextSceneId
        /\ OneObjectPerScene
        /\ \A h \in ended : \A p \in Objects : Stale(scenes[p], h)
    BY DEF SceneInv
  <1>6. \A p \in Objects : contents[p].id = scenes[p].id
    BY <1>3
  <1>7. \A p \in Objects : ContentsOK(contents[p]) /\ contents[p].id < nextSceneId
    BY <1>3, <1>5, <1>6
  <1>8. \A p, q \in Objects : p # q /\ contents[p].id # 0 => contents[p].id # contents[q].id
    BY <1>5, <1>6 DEF OneObjectPerScene
  <1>9. \A h \in ended : \A p \in Objects : Stale(contents[p], h)
    BY <1>3, <1>4, <1>5
  <1>10. ASSUME NEW h \in Handles, NEW p \in Objects, NEW q \in Objects,
                Owns(scenes[p], h), \A r \in Objects : ~Owns(contents[r], h)
         PROVE  Stale(contents[q], h)
    <2>1. p = o
      BY <1>3, <1>10
    <2>2. Stale(c, h)
      BY <2>1, <1>3, <1>10
    <2>3. CASE q = o
      BY <2>2, <2>3, <1>3
    <2>4. CASE q # o
      <3>1. h.scene = scenes[o].id /\ scenes[o].id # 0
        BY <2>1, <1>10 DEF Owns
      <3>2. contents[q].id # h.scene
        BY <2>4, <3>1, <1>5, <1>6 DEF OneObjectPerScene
      <3> QED
        BY <3>2 DEF Stale
    <2> QED
      BY <2>3, <2>4
  <1> QED
    BY <1>1, <1>3, <1>4, <1>7, <1>8, <1>9, <1>10, BecomesKeeps

\* No scene, no handle.
LEMMA SceneInitInv == SceneInit => SceneInv
  <1> SUFFICES ASSUME SceneInit PROVE SceneInv
    OBVIOUS
  <1>1. [MovedFrom EXCEPT !.id = 0] = MovedFrom
    BY DEF MovedFrom
  <1>2. ContentsOK(MovedFrom) /\ MovedFrom.id = 0
    <2>1. 0 \in 0..(MaxSceneId - 1)
      BY LimitAssumption
    <2> QED
      BY <2>1, <1>1, EmptyIsOK
  <1>3. \A o \in Objects : scenes[o] = MovedFrom
    BY DEF SceneInit
  <1>4. SceneTypeOK
    <2>1. \A o \in Objects : scenes[o] \in SceneType /\ Len(scenes[o].slots) <= MaxEntities
      BY <1>2, <1>3 DEF ContentsOK, WellTyped
    <2>2. 0 \in 0..(MaxSceneId - 1) /\ 1 \in 1..MaxSceneId
      BY LimitAssumption
    <2> QED
      BY <2>1, <2>2 DEF SceneInit, SceneTypeOK
  <1>5. \A o \in Objects : ContentsOK(scenes[o]) /\ scenes[o].id < nextSceneId
    BY <1>2, <1>3 DEF SceneInit
  <1>6. OneObjectPerScene /\ ended = {}
    BY <1>2, <1>3 DEF SceneInit, OneObjectPerScene
  <1> QED
    BY <1>4, <1>5, <1>6 DEF SceneInv

\* Nothing that the invariant speaks of has changed.
LEMMA SceneStands ==
    ASSUME SceneInv, UNCHANGED <<scenes, nextSceneId, ended>>,
           candidate' \in [Objects -> 0..(MaxSceneId - 1)]
    PROVE  SceneInv'
  <1>1. SceneTypeOK'
    BY DEF SceneInv, SceneTypeOK
  <1>2. \A o \in Objects : ContentsOK(scenes'[o]) /\ scenes'[o].id < nextSceneId'
    BY DEF SceneInv
  <1>3. \A h \in ended' : h.scene < nextSceneId' /\ \A o \in Objects : Stale(scenes'[o], h)
    BY DEF SceneInv
  <1>4. OneObjectPerScene'
    BY DEF SceneInv, OneObjectPerScene
  <1> QED
    BY <1>1, <1>2, <1>3, <1>4 DEF SceneInv

\* Identifiers.  The largest is never tried.
LEMMA IdentifierStep ==
    ASSUME SceneInv, NEW o \in Objects, LoadSceneId(o) \/ ExchangeFails(o)
    PROVE  SceneInv'
  <1>1. /\ UNCHANGED <<scenes, nextSceneId, ended>>
        /\ candidate' = [candidate EXCEPT ![o] = Usable(nextSceneId)]
    BY DEF LoadSceneId, ExchangeFails
  <1>2. Usable(nextSceneId) \in 0..(MaxSceneId - 1)
    BY LimitAssumption DEF SceneInv, SceneTypeOK, Usable
  <1>3. candidate \in [Objects -> 0..(MaxSceneId - 1)]
    BY DEF SceneInv, SceneTypeOK
  <1>4. candidate' \in [Objects -> 0..(MaxSceneId - 1)]
    BY <1>1, <1>2, <1>3
  <1> QED
    BY <1>1, <1>4, SceneStands

\* A new scene has a number of its own.
LEMMA CreateSceneStep ==
    ASSUME SceneInv, NEW o \in Objects, CreateScene(o)
    PROVE  SceneInv'
  <1> DEFINE fresh == [MovedFrom EXCEPT !.id = candidate[o]]
             contents == [scenes EXCEPT ![o] = fresh]
  <1>1. /\ nextSceneId \in 1..MaxSceneId /\ candidate \in [Objects -> 0..(MaxSceneId - 1)]
        /\ ended \subseteq Handles /\ DOMAIN scenes = Objects
    BY DEF SceneInv, SceneTypeOK
  <1>2. /\ candidate[o] = nextSceneId /\ nextSceneId' = nextSceneId + 1
        /\ candidate' = [candidate EXCEPT ![o] = 0] /\ Becomes(contents)
    BY DEF CreateScene
  <1>3. candidate[o] \in 0..(MaxSceneId - 1)
    BY <1>1
  <1>4. ContentsOK(fresh) /\ fresh.id = nextSceneId
    BY <1>2, <1>3, EmptyIsOK
  <1> HIDE DEF fresh
  <1>5. /\ DOMAIN contents = Objects /\ contents[o] = fresh
        /\ \A p \in Objects : p # o => contents[p] = scenes[p]
    BY <1>1
  <1> HIDE DEF contents
  <1>6. nextSceneId' \in 1..MaxSceneId /\ nextSceneId <= nextSceneId'
    BY <1>1, <1>2, <1>3, LimitAssumption
  <1>7. candidate' \in [Objects -> 0..(MaxSceneId - 1)]
    <2>1. 0 \in 0..(MaxSceneId - 1)
      BY LimitAssumption
    <2> QED
      BY <2>1, <1>1, <1>2
  <1>8. /\ \A p \in Objects : ContentsOK(scenes[p]) /\ scenes[p].id < nextSceneId /\ scenes[p].id \in Nat
        /\ OneObjectPerScene
        /\ \A h \in ended : h.scene < nextSceneId /\ \A p \in Objects : Stale(scenes[p], h)
    BY ContentsTypes DEF SceneInv, ContentsOK
  <1>9. \A p \in Objects : ContentsOK(contents[p]) /\ contents[p].id < nextSceneId'
    BY <1>1, <1>2, <1>4, <1>5, <1>8
  <1>10. \A p, q \in Objects : p # q /\ contents[p].id # 0 => contents[p].id # contents[q].id
    BY <1>1, <1>4, <1>5, <1>8 DEF OneObjectPerScene
  <1>11. \A h \in Handles : h.scene \in Nat
    BY HandleParts
  <1>12. ASSUME NEW h \in Handles, h.scene < nextSceneId PROVE Stale(fresh, h)
    BY <1>1, <1>4, <1>11, <1>12 DEF Stale
  <1>13. \A h \in ended : \A p \in Objects : Stale(contents[p], h)
    BY <1>1, <1>5, <1>8, <1>12
  <1>14. ASSUME NEW h \in Handles, NEW p \in Objects, NEW q \in Objects,
                Owns(scenes[p], h), \A r \in Objects : ~Owns(contents[r], h)
         PROVE  Stale(contents[q], h)
    <2>1. p = o /\ h.scene = scenes[o].id /\ scenes[o].id # 0
      BY <1>5, <1>14 DEF Owns
    <2>2. CASE q = o
      BY <2>1, <2>2, <1>5, <1>8, <1>12
    <2>3. CASE q # o
      BY <2>1, <2>3, <1>5, <1>8 DEF OneObjectPerScene, Stale
    <2> QED
      BY <2>2, <2>3
  <1> QED
    BY <1>2, <1>5, <1>6, <1>7, <1>9, <1>10, <1>13, <1>14, BecomesKeeps

\* A moved scene keeps its number, and the object it was in has none.
LEMMA MoveSceneStep ==
    ASSUME SceneInv, NEW from \in Objects, NEW to \in Objects, MoveScene(from, to)
    PROVE  SceneInv'
  <1> DEFINE contents == [scenes EXCEPT ![to] = scenes[from], ![from] = MovedFrom]
  <1>1. /\ nextSceneId \in 1..MaxSceneId /\ candidate \in [Objects -> 0..(MaxSceneId - 1)]
        /\ ended \subseteq Handles /\ DOMAIN scenes = Objects
    BY DEF SceneInv, SceneTypeOK
  <1>2. /\ from # to /\ Becomes(contents)
        /\ nextSceneId' = nextSceneId /\ candidate' = candidate
    BY DEF MoveScene
  <1>3. /\ DOMAIN contents = Objects /\ contents[to] = scenes[from] /\ contents[from] = MovedFrom
        /\ \A p \in Objects : p # from /\ p # to => contents[p] = scenes[p]
    BY <1>1, <1>2
  <1> HIDE DEF contents
  <1>4. ContentsOK(MovedFrom) /\ MovedFrom.id = 0
    <2>1. [MovedFrom EXCEPT !.id = 0] = MovedFrom /\ 0 \in 0..(MaxSceneId - 1)
      BY LimitAssumption DEF MovedFrom
    <2> QED
      BY <2>1, EmptyIsOK
  <1>5. \A h \in Handles : h.scene # 0
    BY HandleParts
  <1>6. \A h \in Handles : Stale(MovedFrom, h)
    BY <1>4, <1>5 DEF Stale
  <1>7. /\ \A p \in Objects : ContentsOK(scenes[p]) /\ scenes[p].id < nextSceneId
        /\ OneObjectPerScene
        /\ \A h \in ended : \A p \in Objects : Stale(scenes[p], h)
    BY DEF SceneInv
  <1>8. \A p \in Objects : ContentsOK(contents[p]) /\ contents[p].id < nextSceneId
    BY <1>1, <1>3, <1>4, <1>7
  <1>9. \A p, q \in Objects : p # q /\ contents[p].id # 0 => contents[p].id # contents[q].id
    BY <1>2, <1>3, <1>4, <1>7 DEF OneObjectPerScene
  <1>10. \A h \in ended : \A p \in Objects : Stale(contents[p], h)
    BY <1>1, <1>3, <1>6, <1>7
  <1>11. ASSUME NEW h \in Handles, NEW p \in Objects, NEW q \in Objects,
                Owns(scenes[p], h), \A r \in Objects : ~Owns(contents[r], h)
         PROVE  Stale(contents[q], h)
    <2>1. p = to /\ h.scene = scenes[to].id /\ scenes[to].id # 0
      BY <1>3, <1>11 DEF Owns
    <2>2. contents[q].id # h.scene
      BY <2>1, <1>2, <1>3, <1>4, <1>7 DEF OneObjectPerScene
    <2> QED
      BY <2>2 DEF Stale
  <1>12. nextSceneId <= nextSceneId
    BY <1>1
  <1> QED
    BY <1>1, <1>2, <1>3, <1>8, <1>9, <1>10, <1>11, <1>12, BecomesKeeps

\* The operations on entities and components.
LEMMA EntityStep ==
    ASSUME SceneInv, NEW o \in Objects,
           \/ CreateEntity(o)
           \/ \E h \in LiveHandles(scenes[o]) :
                \/ DestroyEntity(o, h)
                \/ \E parent \in LiveHandles(scenes[o]) \cup {None} : SetParent(o, h, parent)
                \/ \E type \in ComponentTypes : AddComponent(o, h, type) \/ RemoveComponent(o, h, type)
    PROVE  SceneInv'
  <1> DEFINE c == scenes[o]
  <1>1. ContentsOK(c) /\ WellTyped(c)
    BY DEF SceneInv, ContentsOK
  <1>2. LiveHandles(c) = {x \in Handles : Owns(c, x)}
    BY <1>1, LiveHandlesAre
  <1>3. CASE CreateEntity(o)
    <2>1. CanCreate(c) /\ Updates(o, WithEntity(c))
      BY <1>3 DEF CreateEntity
    <2>2. PICK i : Created(c, WithEntity(c), i)
      BY <1>1, <2>1, WithEntityShape
    <2>3. /\ ContentsOK(WithEntity(c)) /\ WithEntity(c).id = c.id
          /\ \A x \in Handles : Owns(c, x) => Owns(WithEntity(c), x)
          /\ \A x \in Handles : Stale(c, x) => Stale(WithEntity(c), x)
      BY <1>1, <2>2, CreatedKeeps
    <2> QED
      BY <2>1, <2>3, UpdateKeeps
  <1>4. ASSUME NEW h \in Handles, Owns(c, h), DestroyEntity(o, h) PROVE SceneInv'
    <2>1. Updates(o, WithoutEntity(c, h))
      BY <1>4 DEF DestroyEntity
    <2>2. Destroyed(c, WithoutEntity(c, h), h)
      BY <1>1, <1>4, WithoutEntityShape
    <2>3. /\ ContentsOK(WithoutEntity(c, h)) /\ WithoutEntity(c, h).id = c.id
          /\ \A x \in Handles : Owns(c, x) /\ x # h => Owns(WithoutEntity(c, h), x)
          /\ \A x \in Handles : Stale(c, x) => Stale(WithoutEntity(c, h), x)
          /\ Stale(WithoutEntity(c, h), h)
      BY <1>1, <1>4, <2>2, DestroyedKeeps
    <2> QED
      BY <2>1, <2>3, UpdateKeeps
  <1>5. ASSUME NEW h \in Handles, Owns(c, h), NEW parent \in LiveHandles(c) \cup {None},
               SetParent(o, h, parent)
        PROVE  SceneInv'
    <2>1. Updates(o, Reparented(c, h, parent)) /\ Adopts(c, h, parent)
      BY <1>2, <1>5 DEF SetParent, Adopts
    <2>2. Moved(c, Reparented(c, h, parent), h, parent)
      BY <1>1, <1>2, <1>5, ReparentedShape
    <2>3. /\ ContentsOK(Reparented(c, h, parent)) /\ Reparented(c, h, parent).id = c.id
          /\ \A x : Owns(Reparented(c, h, parent), x) <=> Owns(c, x)
          /\ \A x : Stale(c, x) => Stale(Reparented(c, h, parent), x)
      BY <1>1, <2>1, <2>2, MovedKeeps
    <2> QED
      BY <2>1, <2>3, UpdateKeeps
  <1>6. \A k \in c.components : k \in Components /\ k.index = k.addedTo.index /\ Owns(c, k.addedTo)
    BY <1>1, ContentsTypes DEF ContentsOK, ComponentsFollow
  <1>7. ASSUME NEW K \in SUBSET Components, Updates(o, [c EXCEPT !.components = K]),
               \A k \in K : k.index = k.addedTo.index /\ Owns(c, k.addedTo)
        PROVE  SceneInv'
    <2> DEFINE d == [c EXCEPT !.components = K]
    <2>1. /\ ContentsOK(d) /\ d.id = c.id
          /\ \A x : Owns(d, x) <=> Owns(c, x)
          /\ \A x : Stale(c, x) => Stale(d, x)
      BY <1>1, <1>7, ComponentsChange
    <2>2. Updates(o, d)
      BY <1>7
    <2> HIDE DEF d
    <2> QED
      BY <2>1, <2>2, UpdateKeeps
  <1>8. ASSUME NEW h \in Handles, Owns(c, h), NEW type \in ComponentTypes, AddComponent(o, h, type)
        PROVE  SceneInv'
    <2> DEFINE new == [type |-> type, index |-> h.index, addedTo |-> h]
               K == c.components \cup {new}
    <2>1. Updates(o, [c EXCEPT !.components = K])
      BY <1>8 DEF AddComponent, WithComponent
    <2>2. new \in Components
      BY HandleParts DEF Components
    <2>3. K \in SUBSET Components /\ \A k \in K : k.index = k.addedTo.index /\ Owns(c, k.addedTo)
      BY <2>2, <1>6, <1>8
    <2> HIDE DEF K
    <2> QED
      BY <2>1, <2>3, <1>7
  <1>9. ASSUME NEW h \in Handles, NEW type \in ComponentTypes, RemoveComponent(o, h, type)
        PROVE  SceneInv'
    <2> DEFINE K == {k \in c.components : k.type # type \/ k.index # h.index}
    <2>1. Updates(o, [c EXCEPT !.components = K])
      BY <1>9 DEF RemoveComponent
    <2>2. K \in SUBSET Components /\ \A k \in K : k.index = k.addedTo.index /\ Owns(c, k.addedTo)
      BY <1>6
    <2> HIDE DEF K
    <2> QED
      BY <2>1, <2>2, <1>7
  <1> HIDE DEF c
  <1>10. \A h \in LiveHandles(c) : h \in Handles /\ Owns(c, h)
    BY <1>2
  <1>11. ASSUME NEW h \in LiveHandles(c),
                \/ DestroyEntity(o, h)
                \/ \E parent \in LiveHandles(c) \cup {None} : SetParent(o, h, parent)
                \/ \E type \in ComponentTypes : AddComponent(o, h, type) \/ RemoveComponent(o, h, type)
         PROVE  SceneInv'
    BY <1>4, <1>5, <1>8, <1>9, <1>10, <1>11
  <1> QED
    BY <1>3, <1>11 DEF c

\* SceneInv is inductive.
LEMMA SceneStepInv == SceneInv /\ [SceneNext]_sceneVars => SceneInv'
  <1> SUFFICES ASSUME SceneInv, [SceneNext]_sceneVars PROVE SceneInv'
    OBVIOUS
  <1>1. CASE UNCHANGED sceneVars
    <2>1. candidate' \in [Objects -> 0..(MaxSceneId - 1)]
      BY <1>1 DEF sceneVars, SceneInv, SceneTypeOK
    <2> QED
      BY <2>1, <1>1, SceneStands DEF sceneVars
  <1>2. CASE SceneNext
    BY <1>2, IdentifierStep, CreateSceneStep, MoveSceneStep, EntityStep DEF SceneNext
  <1> QED
    BY <1>1, <1>2

\* SceneInv is inductive, and holds in every reachable state.
LEMMA SceneCorrect == SceneSpec => []SceneInv
  BY SceneInitInv, SceneStepInv, PTL DEF SceneSpec
-----------------------------------------------------------------------------
\* After every operation of every scene object the contents are well formed,
\* and the free list names every slot that can be used again, once
\* (create_entity, destroy_entity, operator=).
THEOREM ContentsAreExact == SceneSpec => []SceneInvariant
  <1>1. SceneInv => SceneInvariant
    BY DEF SceneInv, SceneInvariant, FreeSlotsAreExact, ContentsOK
  <1> QED
    BY <1>1, SceneCorrect, PTL

\* No order of creations, destructions and reparentings leaves a hierarchy
\* that is not a forest: the check of set_parent, though it walks up from the
\* parent only, keeps every circle out.
THEOREM HierarchyStaysForest == SceneSpec => []HierarchyIsForest
  <1>1. SceneInv => HierarchyIsForest
    BY DEF SceneInv, HierarchyIsForest, ContentsOK
  <1> QED
    BY <1>1, SceneCorrect, PTL

\* Whatever slots are reused, whatever generations run out and wherever the
\* scenes are moved, a handle that ended is never accepted again.
THEOREM EndedHandlesStayDead == SceneSpec => []HandlesDieOnce
  <1>1. ASSUME SceneInv PROVE HandlesDieOnce
    <2>1. AliveIn(scenes) = {x \in Handles : \E o \in Objects : Owns(scenes[o], x)}
      BY <1>1, AliveIs DEF SceneInv
    <2>2. ASSUME NEW h \in ended, NEW o \in Objects, h \in Handles, Owns(scenes[o], h) PROVE FALSE
      <3>1. Stale(scenes[o], h) /\ WellTyped(scenes[o])
        BY <1>1 DEF SceneInv, ContentsOK
      <3>2. /\ h.scene = scenes[o].id /\ h.index \in Live(scenes[o])
            /\ h.generation = scenes[o].slots[h.index].generation /\ h.generation \in Nat
        BY <2>2, HandleParts DEF Owns, Live
      <3> QED
        BY <3>1, <3>2 DEF Stale
    <2>3. OneObjectPerScene
      BY <1>1 DEF SceneInv
    <2> QED
      BY <2>1, <2>2, <2>3 DEF HandlesDieOnce, OneObjectPerScene
  <1> QED
    BY <1>1, SceneCorrect, PTL

\* What a live handle finds was added through that handle.
THEOREM ComponentsStayWithTheirEntity == SceneSpec => []ComponentsFollowTheirEntity
  <1>1. SceneInv => ComponentsFollowTheirEntity
    BY DEF SceneInv, ComponentsFollowTheirEntity, ContentsOK, ComponentsFollow
  <1> QED
    BY <1>1, SceneCorrect, PTL
-----------------------------------------------------------------------------
(* The bodies of a world.                                                  *)

BodySlots == [alive : BOOLEAN, generation : 0..MaxBodyGeneration]

WorldType == [slots : Seq(BodySlots), free : Seq(1..MaxBodies), count : Nat, contacts : Seq(Contacts)]

FreeBodiesAreDead(w) ==
    /\ IsInjective(w.free)
    /\ \A i \in ToSet(w.free) : i \in DOMAIN w.slots /\ ~w.slots[i].alive

\* Everything of a world but the count of its bodies.
BodiesTyped(w) == w \in WorldType /\ Len(w.slots) <= MaxBodies /\ FreeBodiesAreDead(w)

BodiesCounted(w) ==
    IsFiniteSet(LiveBodies(w)) /\ w.count = Cardinality(LiveBodies(w)) /\ w.count <= MaxBodies

WorldOK(w) == BodiesTyped(w) /\ BodiesCounted(w)

\* A handle of a body that is gone for good.
Spent(w, b) ==
    /\ b.slot \in DOMAIN w.slots
    /\ \/ b.generation < w.slots[b.slot].generation
       \/ /\ b.generation = w.slots[b.slot].generation
          /\ ~w.slots[b.slot].alive /\ b.slot \notin ToSet(w.free)

\* A handle of a body is its slot and its generation.
LEMMA BodyParts ==
    /\ \A x \in Bodies : x.slot \in 1..MaxBodies /\ x.generation \in 0..MaxBodyGeneration
    /\ \A x, y \in Bodies : x = y <=> x.slot = y.slot /\ x.generation = y.generation
    /\ \A w, i : BodyAt(w, i).slot = i /\ BodyAt(w, i).generation = w.slots[i].generation
  BY DEF Bodies, BodyAt

\* The typing facts the steps need.
LEMMA WorldParts ==
    ASSUME NEW w, BodiesTyped(w)
    PROVE  /\ w.slots \in Seq(BodySlots) /\ w.free \in Seq(1..MaxBodies) /\ w.count \in Nat
           /\ w.contacts \in Seq(Contacts)
           /\ Len(w.slots) \in Nat /\ Len(w.slots) <= MaxBodies /\ DOMAIN w.slots = 1..Len(w.slots)
           /\ \A i \in DOMAIN w.slots :
                 /\ i \in 1..MaxBodies /\ w.slots[i] \in BodySlots
                 /\ w.slots[i].alive \in BOOLEAN /\ w.slots[i].generation \in 0..MaxBodyGeneration
                 /\ BodyAt(w, i) \in Bodies
  <1>1. /\ w.slots \in Seq(BodySlots) /\ w.free \in Seq(1..MaxBodies) /\ w.count \in Nat
        /\ w.contacts \in Seq(Contacts) /\ Len(w.slots) <= MaxBodies
    BY DEF BodiesTyped, WorldType
  <1>2. Len(w.slots) \in Nat /\ DOMAIN w.slots = 1..Len(w.slots)
    BY <1>1, LenProperties
  <1>3. ASSUME NEW i \in DOMAIN w.slots
        PROVE  /\ i \in 1..MaxBodies /\ w.slots[i] \in BodySlots
               /\ w.slots[i].alive \in BOOLEAN /\ w.slots[i].generation \in 0..MaxBodyGeneration
               /\ BodyAt(w, i) \in Bodies
    <2>1. w.slots[i] \in BodySlots /\ i \in 1..MaxBodies
      BY <1>1, <1>2, ElementOfSeq, WorldAssumption
    <2> QED
      BY <2>1 DEF BodySlots, Bodies, BodyAt
  <1> QED
    BY <1>1, <1>2, <1>3

\* A body is alive if its handle is accepted.
LEMMA LiveBodiesAre ==
    ASSUME NEW w, BodiesTyped(w)
    PROVE  LiveBodies(w) = {b \in Bodies : IsBody(w, b)}
  <1>1. ASSUME NEW b \in LiveBodies(w) PROVE b \in Bodies /\ IsBody(w, b)
    BY WorldParts, BodyParts DEF LiveBodies, IsBody
  <1>2. ASSUME NEW b \in Bodies, IsBody(w, b) PROVE b \in LiveBodies(w)
    <2>1. b.slot \in DOMAIN w.slots /\ w.slots[b.slot].alive /\ b = BodyAt(w, b.slot)
      BY <1>2, WorldParts, BodyParts DEF IsBody
    <2> QED
      BY <2>1 DEF LiveBodies
  <1> QED
    BY <1>1, <1>2

\* What create_body does, slot by slot.
LEMMA WithBodyShape ==
    ASSUME NEW w, BodiesTyped(w), CanCreateBody(w)
    PROVE  LET v == WithBody(w)
               b == NextBody(w) IN
           /\ b \in Bodies /\ ~IsBody(w, b) /\ ~Spent(w, b)
           /\ BodiesTyped(v) /\ v.count = w.count + 1 /\ v.contacts = w.contacts
           /\ DOMAIN v.slots = DOMAIN w.slots \cup {b.slot}
           /\ v.slots[b.slot].alive /\ v.slots[b.slot].generation = b.generation
           /\ \A i \in DOMAIN w.slots : i # b.slot => v.slots[i] = w.slots[i]
           /\ \A i : i \in ToSet(v.free) <=> i \in ToSet(w.free) /\ i # b.slot
  <1> DEFINE v == WithBody(w)
             b == NextBody(w)
             live == [alive |-> TRUE, generation |-> b.generation]
  <1>w. /\ w.slots \in Seq(BodySlots) /\ w.free \in Seq(1..MaxBodies) /\ w.count \in Nat
        /\ w.contacts \in Seq(Contacts) /\ w \in WorldType
        /\ Len(w.slots) \in Nat /\ Len(w.slots) <= MaxBodies /\ DOMAIN w.slots = 1..Len(w.slots)
        /\ IsInjective(w.free)
        /\ \A i \in ToSet(w.free) : i \in DOMAIN w.slots /\ ~w.slots[i].alive
    BY WorldParts DEF BodiesTyped, FreeBodiesAreDead
  <1>1. CASE w.free # <<>>
    <2> DEFINE k == Last(w.free)
    <2>1. /\ k \in ToSet(w.free) /\ Front(w.free) \in Seq(1..MaxBodies)
          /\ IsInjective(Front(w.free)) /\ ToSet(Front(w.free)) = ToSet(w.free) \ {k}
      <3>1. k \in ToSet(w.free)
        BY <1>1, <1>w, FrontProperties DEF Last, ToSet
      <3> QED
        BY <3>1, <1>1, <1>w, FrontProperties DEF Front, Last
    <2>2. b = BodyAt(w, k)
      BY <1>1 DEF NextBody
    <2>3. v = [w EXCEPT !.slots[k] = live, !.free = Front(@), !.count = @ + 1]
      BY <1>1 DEF WithBody
    <2> HIDE DEF v, b
    <2>4. /\ k \in DOMAIN w.slots /\ k \in 1..MaxBodies /\ b \in Bodies /\ b.slot = k
          /\ b.generation = w.slots[k].generation /\ ~w.slots[k].alive
          /\ w.slots[k].generation \in 0..MaxBodyGeneration
      BY <2>1, <2>2, <1>w, WorldParts, BodyParts
    <2>5. ~IsBody(w, b) /\ ~Spent(w, b)
      BY <2>1, <2>4 DEF IsBody, Spent
    <2>6. live \in BodySlots /\ live.alive /\ live.generation = b.generation
      BY <2>4 DEF BodySlots
    <2> HIDE DEF live
    <2>7. /\ v.slots = [w.slots EXCEPT ![k] = live] /\ v.free = Front(w.free)
          /\ v.count = w.count + 1 /\ v.contacts = w.contacts
          /\ v = [slots |-> v.slots, free |-> v.free, count |-> v.count, contacts |-> v.contacts]
      BY <2>3, <1>w DEF WorldType
    <2>8. v.slots \in Seq(BodySlots) /\ Len(v.slots) = Len(w.slots) /\ DOMAIN v.slots = DOMAIN w.slots
      BY <2>7, <2>6, <2>4, <1>w, ExceptSeq
    <2>9. \A i \in DOMAIN w.slots : v.slots[i] = IF i = k THEN live ELSE w.slots[i]
      BY <2>7, <1>w
    <2>10. v \in WorldType
      <3>1. v.free \in Seq(1..MaxBodies) /\ v.count \in Nat /\ v.contacts \in Seq(Contacts)
        BY <2>1, <2>7, <1>w
      <3> QED
        BY <3>1, <2>7, <2>8 DEF WorldType
    <2>11. \A i : i \in ToSet(v.free) <=> i \in ToSet(w.free) /\ i # k
      BY <2>1, <2>7
    <2>12. BodiesTyped(v)
      BY <2>1, <2>7, <2>8, <2>9, <2>10, <2>11, <1>w DEF BodiesTyped, FreeBodiesAreDead
    <2>13. DOMAIN v.slots = DOMAIN w.slots \cup {b.slot}
      BY <2>4, <2>8
    <2> QED
      BY <2>4, <2>5, <2>6, <2>7, <2>9, <2>11, <2>12, <2>13 DEF v, b
  <1>2. CASE w.free = <<>>
    <2> DEFINE k == Len(w.slots) + 1
    <2>1. Len(w.slots) < MaxBodies /\ k \in 1..MaxBodies /\ k \notin DOMAIN w.slots
      BY <1>2, <1>w, WorldAssumption DEF CanCreateBody
    <2>2. b = [slot |-> k, generation |-> 1]
      BY <1>2 DEF NextBody
    <2>3. v = [w EXCEPT !.slots = Append(@, live), !.count = @ + 1]
      BY <1>2 DEF WithBody
    <2> HIDE DEF v, b
    <2>4. b \in Bodies /\ b.slot = k /\ b.generation = 1 /\ 1 \in 0..MaxBodyGeneration
      BY <2>1, <2>2, WorldAssumption DEF Bodies
    <2>5. ~IsBody(w, b) /\ ~Spent(w, b)
      BY <2>1, <2>4 DEF IsBody, Spent
    <2>6. live \in BodySlots /\ live.alive /\ live.generation = b.generation
      BY <2>4 DEF BodySlots
    <2> HIDE DEF live
    <2>7. /\ v.slots = Append(w.slots, live) /\ v.free = w.free
          /\ v.count = w.count + 1 /\ v.contacts = w.contacts
          /\ v = [slots |-> v.slots, free |-> v.free, count |-> v.count, contacts |-> v.contacts]
      BY <2>3, <1>w DEF WorldType
    <2>8. /\ v.slots \in Seq(BodySlots) /\ Len(v.slots) = k
          /\ v.slots[k] = live /\ \A i \in 1..Len(w.slots) : v.slots[i] = w.slots[i]
      BY <2>7, <2>6, <1>w, AppendProperties
    <2>9. DOMAIN v.slots = 1..k /\ 1..k = 1..Len(w.slots) \cup {k}
      BY <2>8, <1>w, LenProperties
    <2>10. v \in WorldType
      <3>1. v.slots \in Seq(BodySlots)
        BY <2>8
      <3>2. v.free \in Seq(1..MaxBodies) /\ v.contacts \in Seq(Contacts)
        BY <2>7, <1>w
      <3>3. v.count \in Nat
        BY <2>7, <1>w
      <3>4. v = [slots |-> v.slots, free |-> v.free, count |-> v.count, contacts |-> v.contacts]
        BY <2>7
      <3> QED
        BY <3>1, <3>2, <3>3, <3>4 DEF WorldType
    <2>11. ToSet(w.free) = {} /\ ToSet(v.free) = {}
      BY <1>2, <2>7 DEF ToSet
    <2>12. BodiesTyped(v)
      BY <2>1, <2>7, <2>8, <2>9, <2>10, <2>11, <1>w DEF BodiesTyped, FreeBodiesAreDead
    <2> QED
      BY <2>1, <2>4, <2>5, <2>6, <2>7, <2>8, <2>9, <2>11, <2>12, <1>w DEF v, b
  <1> QED
    BY <1>1, <1>2

\* A new body: none of those there are, and none there ever was.
LEMMA WithBodyKeeps ==
    ASSUME NEW w, WorldOK(w), CanCreateBody(w)
    PROVE  LET v == WithBody(w)
               b == NextBody(w) IN
           /\ b \in Bodies /\ b \notin LiveBodies(w) /\ ~Spent(w, b)
           /\ WorldOK(v) /\ v.contacts = w.contacts
           /\ LiveBodies(v) = LiveBodies(w) \cup {b}
           /\ \A x \in Bodies : Spent(w, x) => Spent(v, x)
  <1> DEFINE v == WithBody(w)
             b == NextBody(w)
  <1>1. /\ b \in Bodies /\ ~IsBody(w, b) /\ ~Spent(w, b)
        /\ BodiesTyped(v) /\ v.count = w.count + 1 /\ v.contacts = w.contacts
        /\ DOMAIN v.slots = DOMAIN w.slots \cup {b.slot}
        /\ v.slots[b.slot].alive /\ v.slots[b.slot].generation = b.generation
        /\ \A i \in DOMAIN w.slots : i # b.slot => v.slots[i] = w.slots[i]
        /\ \A i : i \in ToSet(v.free) <=> i \in ToSet(w.free) /\ i # b.slot
    BY WithBodyShape DEF WorldOK
  <1>2. BodiesTyped(w) /\ BodiesCounted(w) /\ w.count < MaxBodies
    BY DEF WorldOK, CanCreateBody
  <1> HIDE DEF v, b
  <1>3. ASSUME NEW x \in Bodies PROVE IsBody(v, x) <=> IsBody(w, x) \/ x = b
    <2>1. CASE x.slot = b.slot
      <3>1. IsBody(v, x) <=> x = b
        BY <1>1, <2>1, BodyParts DEF IsBody
      <3>2. ~IsBody(w, x)
        <4>1. b.slot \in DOMAIN w.slots => ~w.slots[b.slot].alive
          <5>1. CASE w.free # <<>>
            <6>1. b = BodyAt(w, Last(w.free))
              BY <5>1 DEF NextBody, b
            <6>2. w.free \in Seq(1..MaxBodies) /\ IsInjective(w.free)
              BY <1>2, WorldParts DEF BodiesTyped, FreeBodiesAreDead
            <6>3. Last(w.free) \in ToSet(w.free)
              BY <5>1, <6>2, FrontProperties DEF Last, ToSet
            <6> QED
              BY <6>1, <6>3, <1>2, BodyParts DEF BodiesTyped, FreeBodiesAreDead
          <5>2. CASE w.free = <<>>
            <6>1. b.slot = Len(w.slots) + 1
              BY <5>2 DEF NextBody, b
            <6> QED
              BY <6>1, <1>2, WorldParts
          <5> QED
            BY <5>1, <5>2
        <4> QED
          BY <4>1, <2>1 DEF IsBody
      <3> QED
        BY <3>1, <3>2
    <2>2. CASE x.slot # b.slot
      BY <1>1, <2>2 DEF IsBody
    <2> QED
      BY <2>1, <2>2
  <1>4. LiveBodies(v) = LiveBodies(w) \cup {b} /\ b \notin LiveBodies(w)
    <2>1. LiveBodies(v) = {x \in Bodies : IsBody(v, x)} /\ LiveBodies(w) = {x \in Bodies : IsBody(w, x)}
      BY <1>1, <1>2, LiveBodiesAre
    <2> QED
      BY <2>1, <1>1, <1>3
  <1>5. BodiesCounted(v)
    <2>1. /\ IsFiniteSet(LiveBodies(w) \cup {b})
          /\ Cardinality(LiveBodies(w) \cup {b}) = Cardinality(LiveBodies(w)) + 1
      BY <1>2, <1>4, FS_AddElement DEF BodiesCounted
    <2>2. w.count \in Nat
      BY <1>2, WorldParts
    <2>3. v.count <= MaxBodies
      BY <1>1, <1>2, <2>2, WorldAssumption
    <2> QED
      BY <2>1, <2>3, <1>1, <1>2, <1>4 DEF BodiesCounted
  <1>6. ASSUME NEW x \in Bodies, Spent(w, x) PROVE Spent(v, x)
    <2>1. CASE x.slot = b.slot
      <3>1. x.generation < b.generation
        <4>1. w.slots[b.slot].generation = b.generation
          <5>1. CASE w.free # <<>>
            BY <5>1, BodyParts DEF NextBody, b
          <5>2. CASE w.free = <<>>
            <6>1. b.slot = Len(w.slots) + 1
              BY <5>2 DEF NextBody, b
            <6> QED
              BY <6>1, <1>2, <1>6, <2>1, WorldParts DEF Spent
          <5> QED
            BY <5>1, <5>2
        <4>2. x.generation # b.generation
          BY <1>1, <1>6, <2>1, <4>1 DEF Spent
        <4> QED
          BY <1>6, <2>1, <4>1, <4>2 DEF Spent
      <3> QED
        BY <3>1, <2>1, <1>1 DEF Spent
    <2>2. CASE x.slot # b.slot
      BY <1>1, <1>6, <2>2 DEF Spent
    <2> QED
      BY <2>1, <2>2
  <1> QED
    BY <1>1, <1>4, <1>5, <1>6 DEF WorldOK, v, b

\* What destroy_body does, slot by slot.
LEMMA WithoutBodyShape ==
    ASSUME NEW w, BodiesTyped(w), NEW b \in Bodies, IsBody(w, b)
    PROVE  LET v == WithoutBody(w, b) IN
           /\ BodiesTyped(v) \/ w.count = 0
           /\ v.count = w.count - 1 /\ v.contacts = w.contacts
           /\ DOMAIN v.slots = DOMAIN w.slots
           /\ ~v.slots[b.slot].alive /\ b.generation <= v.slots[b.slot].generation
           /\ b.generation = v.slots[b.slot].generation => b.slot \notin ToSet(v.free)
           /\ \A i \in DOMAIN w.slots : i # b.slot => v.slots[i] = w.slots[i]
           /\ \A i : i # b.slot => (i \in ToSet(v.free) <=> i \in ToSet(w.free))
  <1> DEFINE v == WithoutBody(w, b)
             k == b.slot
             gone == IF b.generation = MaxBodyGeneration
                     THEN [w.slots[k] EXCEPT !.alive = FALSE]
                     ELSE [alive |-> FALSE, generation |-> b.generation + 1]
  <1>w. /\ w.slots \in Seq(BodySlots) /\ w.free \in Seq(1..MaxBodies) /\ w.count \in Nat
        /\ w.contacts \in Seq(Contacts) /\ w \in WorldType
        /\ Len(w.slots) \in Nat /\ Len(w.slots) <= MaxBodies /\ DOMAIN w.slots = 1..Len(w.slots)
        /\ IsInjective(w.free)
        /\ \A i \in ToSet(w.free) : i \in DOMAIN w.slots /\ ~w.slots[i].alive
    BY WorldParts DEF BodiesTyped, FreeBodiesAreDead
  <1>1. /\ k \in DOMAIN w.slots /\ k \in 1..MaxBodies /\ w.slots[k] \in BodySlots
        /\ w.slots[k].alive /\ w.slots[k].generation = b.generation
        /\ b.generation \in 0..MaxBodyGeneration /\ k \notin ToSet(w.free)
    BY <1>w, WorldParts DEF IsBody
  <1>2. /\ gone \in BodySlots /\ ~gone.alive /\ b.generation <= gone.generation
        /\ gone.generation = b.generation <=> b.generation = MaxBodyGeneration
    <2>1. b.generation \in Int /\ MaxBodyGeneration \in Int
      BY <1>1, WorldAssumption
    <2>2. CASE b.generation = MaxBodyGeneration
      <3>1. gone \in BodySlots
        BY <1>1, <2>2 DEF BodySlots
      <3>2. ~gone.alive /\ gone.generation = b.generation
        BY <1>1, <2>2 DEF BodySlots
      <3> QED
        BY <2>1, <2>2, <3>1, <3>2
    <2>3. CASE b.generation # MaxBodyGeneration
      <3>1. gone = [alive |-> FALSE, generation |-> b.generation + 1]
        BY <2>3
      <3>2. b.generation + 1 \in 0..MaxBodyGeneration
        BY <1>1, <2>1, <2>3
      <3>3. gone \in BodySlots /\ ~gone.alive /\ gone.generation = b.generation + 1
        BY <3>1, <3>2 DEF BodySlots
      <3> HIDE DEF gone
      <3> QED
        BY <2>1, <2>3, <3>3
    <2> QED
      BY <2>2, <2>3
  <1>3. /\ v.slots = [w.slots EXCEPT ![k] = gone]
        /\ v.free = IF b.generation = MaxBodyGeneration THEN w.free ELSE Append(w.free, k)
        /\ v.count = w.count - 1 /\ v.contacts = w.contacts
        /\ v = [slots |-> v.slots, free |-> v.free, count |-> v.count, contacts |-> v.contacts]
    <2>1. CASE b.generation = MaxBodyGeneration
      <3>1. v = [w EXCEPT !.slots[k].alive = FALSE, !.count = @ - 1]
        BY <2>1 DEF WithoutBody
      <3>2. [w.slots[k] EXCEPT !.alive = FALSE] = gone
        BY <2>1
      <3> HIDE DEF v, gone
      <3>3. v.slots = [w.slots EXCEPT ![k] = gone]
        BY <3>1, <3>2, <1>w, <1>1 DEF WorldType
      <3> QED
        BY <2>1, <3>1, <3>3, <1>w DEF WorldType
    <2>2. CASE b.generation # MaxBodyGeneration
      <3>1. v = [w EXCEPT !.slots[k] = gone, !.free = Append(@, k), !.count = @ - 1]
        BY <2>2 DEF WithoutBody
      <3> HIDE DEF v, gone
      <3> QED
        BY <2>2, <3>1, <1>w DEF WorldType
    <2> QED
      BY <2>1, <2>2
  <1> HIDE DEF v, gone
  <1>4. /\ v.slots \in Seq(BodySlots) /\ Len(v.slots) = Len(w.slots) /\ DOMAIN v.slots = DOMAIN w.slots
        /\ \A i \in DOMAIN w.slots : v.slots[i] = IF i = k THEN gone ELSE w.slots[i]
    BY <1>1, <1>2, <1>3, <1>w, ExceptSeq
  <1>5. /\ v.free \in Seq(1..MaxBodies) /\ IsInjective(v.free)
        /\ \A i : i # k => (i \in ToSet(v.free) <=> i \in ToSet(w.free))
        /\ b.generation = MaxBodyGeneration => k \notin ToSet(v.free)
    <2>1. CASE b.generation = MaxBodyGeneration
      BY <2>1, <1>1, <1>3, <1>w
    <2>2. CASE b.generation # MaxBodyGeneration
      <3>1. /\ Append(w.free, k) \in Seq(1..MaxBodies) /\ IsInjective(Append(w.free, k))
            /\ ToSet(Append(w.free, k)) = ToSet(w.free) \cup {k}
        <4>1. w.free \in Seq(1..MaxBodies) /\ k \in 1..MaxBodies /\ IsInjective(w.free)
          BY <1>1, <1>w
        <4> DEFINE T == 1..MaxBodies
                   s == w.free
        <4> HIDE DEF k, T, s
        <4>2. s \in Seq(T) /\ k \in T
          BY <4>1 DEF T, s
        <4>3. /\ Append(s, k) \in Seq(T) /\ ToSet(Append(s, k)) = ToSet(s) \cup {k}
              /\ IsInjective(s) /\ k \notin ToSet(s) => IsInjective(Append(s, k))
          BY <4>2, AppendToSet
        <4> QED
          BY <4>1, <4>3, <1>1 DEF T, s
      <3> QED
        BY <2>2, <3>1, <1>3
    <2> QED
      BY <2>1, <2>2
  <1>6. FreeBodiesAreDead(v)
    <2> SUFFICES ASSUME NEW i \in ToSet(v.free) PROVE i \in DOMAIN v.slots /\ ~v.slots[i].alive
      BY <1>5 DEF FreeBodiesAreDead
    <2>1. CASE i = k
      BY <2>1, <1>1, <1>2, <1>4
    <2>2. CASE i # k
      BY <2>2, <1>4, <1>5, <1>w
    <2> QED
      BY <2>1, <2>2
  <1>7. BodiesTyped(v) \/ w.count = 0
    <2> SUFFICES ASSUME w.count # 0 PROVE BodiesTyped(v)
      OBVIOUS
    <2>1. v.count \in Nat
      BY <1>3, <1>w
    <2>2. v \in WorldType
      <3>1. v.contacts \in Seq(Contacts)
        BY <1>3, <1>w
      <3> QED
        BY <2>1, <3>1, <1>3, <1>4, <1>5 DEF WorldType
    <2> QED
      BY <2>2, <1>4, <1>6, <1>w DEF BodiesTyped
  <1>8. /\ ~v.slots[k].alive /\ b.generation <= v.slots[k].generation
        /\ b.generation = v.slots[k].generation => k \notin ToSet(v.free)
    BY <1>1, <1>2, <1>4, <1>5
  <1>9. \A i \in DOMAIN w.slots : i # k => v.slots[i] = w.slots[i]
    BY <1>4
  <1> QED
    BY <1>3, <1>4, <1>5, <1>7, <1>8, <1>9 DEF v

\* A body that is destroyed: one less, and gone for good.
LEMMA WithoutBodyKeeps ==
    ASSUME NEW w, WorldOK(w), NEW b \in LiveBodies(w)
    PROVE  LET v == WithoutBody(w, b) IN
           /\ WorldOK(v) /\ v.contacts = w.contacts
           /\ LiveBodies(v) = LiveBodies(w) \ {b}
           /\ Spent(v, b)
           /\ \A x \in Bodies : Spent(w, x) => Spent(v, x)
  <1> DEFINE v == WithoutBody(w, b)
  <1>1. BodiesTyped(w) /\ BodiesCounted(w) /\ b \in Bodies /\ IsBody(w, b)
    BY LiveBodiesAre DEF WorldOK
  <1>2. /\ BodiesTyped(v) \/ w.count = 0
        /\ v.count = w.count - 1 /\ v.contacts = w.contacts
        /\ DOMAIN v.slots = DOMAIN w.slots
        /\ ~v.slots[b.slot].alive /\ b.generation <= v.slots[b.slot].generation
        /\ b.generation = v.slots[b.slot].generation => b.slot \notin ToSet(v.free)
        /\ \A i \in DOMAIN w.slots : i # b.slot => v.slots[i] = w.slots[i]
        /\ \A i : i # b.slot => (i \in ToSet(v.free) <=> i \in ToSet(w.free))
    BY <1>1, WithoutBodyShape
  <1> HIDE DEF v
  <1>3. w.count # 0
    BY <1>1, FS_EmptySet DEF BodiesCounted
  <1>4. BodiesTyped(v)
    BY <1>2, <1>3
  <1>b. /\ b.slot \in DOMAIN w.slots /\ w.slots[b.slot].alive
        /\ w.slots[b.slot].generation = b.generation /\ b.generation \in Int
        /\ v.slots[b.slot].generation \in Int
    BY <1>1, <1>2, <1>4, BodyParts, WorldParts DEF IsBody
  <1>5. ASSUME NEW x \in Bodies PROVE IsBody(v, x) <=> IsBody(w, x) /\ x # b
    <2>1. CASE x.slot = b.slot
      BY <1>1, <1>2, <1>b, <2>1, BodyParts DEF IsBody
    <2>2. CASE x.slot # b.slot
      BY <1>2, <2>2 DEF IsBody
    <2> QED
      BY <2>1, <2>2
  <1>6. LiveBodies(v) = LiveBodies(w) \ {b}
    <2>1. LiveBodies(v) = {x \in Bodies : IsBody(v, x)} /\ LiveBodies(w) = {x \in Bodies : IsBody(w, x)}
      BY <1>1, <1>4, LiveBodiesAre
    <2> QED
      BY <2>1, <1>1, <1>5
  <1>7. BodiesCounted(v)
    <2>1. /\ IsFiniteSet(LiveBodies(w) \ {b})
          /\ Cardinality(LiveBodies(w) \ {b}) = Cardinality(LiveBodies(w)) - 1
      BY <1>1, FS_RemoveElement DEF BodiesCounted
    <2>2. w.count \in Nat /\ w.count <= MaxBodies
      BY <1>1, WorldParts DEF BodiesCounted
    <2>3. v.count <= MaxBodies
      BY <1>2, <2>2, WorldAssumption
    <2> QED
      BY <2>1, <2>3, <1>1, <1>2, <1>6 DEF BodiesCounted
  <1>8. Spent(v, b)
    BY <1>2, <1>b DEF Spent
  <1>9. ASSUME NEW x \in Bodies, Spent(w, x) PROVE Spent(v, x)
    <2>0. x.generation \in Int
      BY BodyParts
    <2>1. CASE x.slot = b.slot
      <3>1. x.generation < b.generation
        BY <1>9, <1>b, <2>1 DEF Spent
      <3> QED
        BY <3>1, <2>0, <2>1, <1>2, <1>b DEF Spent
    <2>2. CASE x.slot # b.slot
      BY <1>2, <1>9, <2>2 DEF Spent
    <2> QED
      BY <2>1, <2>2
  <1> QED
    BY <1>2, <1>4, <1>6, <1>7, <1>8, <1>9 DEF WorldOK, v
-----------------------------------------------------------------------------
(* Bodies and entries together.                                            *)

Entry == [entity : Handles, body : Bodies]

EntriesMatch(w, list) ==
    /\ list \in Seq(Entry)
    /\ {list[i].body : i \in DOMAIN list} = LiveBodies(w)
    /\ \A i, j \in DOMAIN list : i # j => list[i].entity # list[j].entity /\ list[i].body # list[j].body

BridgeOK(r) == WorldOK(r.world) /\ EntriesMatch(r.world, r.entries)

\* What no operation of the bridge may do to the bodies it does not touch.
Outlives(r, s) ==
    /\ \A x \in LiveBodies(r.world) : x \in LiveBodies(s.world) \/ Spent(s.world, x)
    /\ \A x \in Bodies : Spent(r.world, x) => Spent(s.world, x)

\* A body and its entry come together.
LEMMA AttachKeeps ==
    ASSUME NEW r, BridgeOK(r), NEW h \in Handles,
           \A i \in DOMAIN r.entries : r.entries[i].entity # h, CanCreateBody(r.world)
    PROVE  LET b == NextBody(r.world)
               s == [world |-> WithBody(r.world), entries |-> Append(r.entries, [entity |-> h, body |-> b])] IN
           /\ BridgeOK(s) /\ Outlives(r, s) /\ s.world.contacts = r.world.contacts
           /\ LiveBodies(s.world) = LiveBodies(r.world) \cup {b}
           /\ b \in Bodies /\ b \notin LiveBodies(r.world) /\ ~Spent(r.world, b)
           /\ ToSet(s.entries) = ToSet(r.entries) \cup {[entity |-> h, body |-> b]}
  <1> DEFINE b == NextBody(r.world)
             v == WithBody(r.world)
             e == [entity |-> h, body |-> b]
             t == Append(r.entries, e)
             list == r.entries
  <1>1. /\ b \in Bodies /\ b \notin LiveBodies(r.world) /\ ~Spent(r.world, b)
        /\ WorldOK(v) /\ v.contacts = r.world.contacts
        /\ LiveBodies(v) = LiveBodies(r.world) \cup {b}
        /\ \A x \in Bodies : Spent(r.world, x) => Spent(v, x)
    BY WithBodyKeeps DEF BridgeOK
  <1>2. /\ list \in Seq(Entry)
        /\ {list[i].body : i \in DOMAIN list} = LiveBodies(r.world)
        /\ \A i, j \in DOMAIN list : i # j => list[i].entity # list[j].entity /\ list[i].body # list[j].body
        /\ \A i \in DOMAIN list : list[i].entity # h
    BY DEF BridgeOK, EntriesMatch
  <1> HIDE DEF b, v
  <1>3. e \in Entry /\ e.entity = h /\ e.body = b
    BY <1>1 DEF Entry
  <1> HIDE DEF e, list
  <1>4. /\ t \in Seq(Entry) /\ DOMAIN t = 1..(Len(list) + 1) /\ Len(list) \in Nat /\ DOMAIN list = 1..Len(list)
        /\ t[Len(list) + 1] = e /\ \A i \in 1..Len(list) : t[i] = list[i]
    BY <1>2, <1>3, AppendProperties, LenProperties DEF list
  <1> HIDE DEF t
  <1>5. DOMAIN t = DOMAIN list \cup {Len(list) + 1} /\ Len(list) + 1 \notin DOMAIN list
    BY <1>4
  <1>6. \A i \in DOMAIN list : list[i].body # b
    BY <1>1, <1>2
  <1>7. EntriesMatch(v, t)
    <2>1. {t[i].body : i \in DOMAIN t} = {list[i].body : i \in DOMAIN list} \cup {b}
      BY <1>3, <1>4, <1>5
    <2>2. ASSUME NEW i \in DOMAIN t, NEW j \in DOMAIN t, i # j
          PROVE  t[i].entity # t[j].entity /\ t[i].body # t[j].body
      BY <2>2, <1>2, <1>3, <1>4, <1>5, <1>6
    <2> QED
      BY <2>1, <2>2, <1>1, <1>2, <1>4 DEF EntriesMatch
  <1>8. ToSet(t) = ToSet(list) \cup {e}
    BY <1>4, <1>5 DEF ToSet
  <1>9. LET s == [world |-> v, entries |-> t] IN
        /\ s.world = v /\ s.entries = t
    OBVIOUS
  <1> QED
    BY <1>1, <1>7, <1>8, <1>9 DEF BridgeOK, Outlives, b, v, e, t, list

\* A body and its entry go together.
LEMMA WithoutKeeps ==
    ASSUME NEW r, BridgeOK(r), NEW k \in DOMAIN r.entries
    PROVE  LET s == Without(r, k) IN
           /\ BridgeOK(s) /\ Outlives(r, s) /\ s.world.contacts = r.world.contacts
           /\ LiveBodies(s.world) \subseteq LiveBodies(r.world)
           /\ ToSet(s.entries) \subseteq ToSet(r.entries) /\ Len(s.entries) = Len(r.entries) - 1
  <1> DEFINE b == r.entries[k].body
             v == WithoutBody(r.world, b)
             t == RemoveAt(r.entries, k)
             list == r.entries
             from(i) == IF i < k THEN i ELSE i + 1
  <1>1. /\ list \in Seq(Entry)
        /\ {list[i].body : i \in DOMAIN list} = LiveBodies(r.world)
        /\ \A i, j \in DOMAIN list : i # j => list[i].entity # list[j].entity /\ list[i].body # list[j].body
        /\ WorldOK(r.world)
    BY DEF BridgeOK, EntriesMatch
  <1>2. b \in LiveBodies(r.world)
    BY <1>1
  <1>3. /\ WorldOK(v) /\ v.contacts = r.world.contacts
        /\ LiveBodies(v) = LiveBodies(r.world) \ {b}
        /\ Spent(v, b)
        /\ \A x \in Bodies : Spent(r.world, x) => Spent(v, x)
    BY <1>1, <1>2, WithoutBodyKeeps
  <1> HIDE DEF v
  <1>4. Len(list) \in Nat /\ DOMAIN list = 1..Len(list) /\ k \in 1..Len(list)
    BY <1>1, LenProperties
  <1> HIDE DEF list
  <1>5. /\ t \in Seq(Entry) /\ Len(t) = Len(list) - 1
        /\ \A i \in 1..(Len(list) - 1) : t[i] = IF i < k THEN list[i] ELSE list[i + 1]
    BY <1>1, <1>4, EraseProperties DEF list
  <1>6. DOMAIN t = 1..(Len(list) - 1)
    BY <1>5, LenProperties
  <1> HIDE DEF t
  <1>7. ASSUME NEW i \in DOMAIN t PROVE from(i) \in DOMAIN list \ {k} /\ t[i] = list[from(i)]
    BY <1>4, <1>5, <1>6
  <1>8. ASSUME NEW j \in DOMAIN list, j # k PROVE \E i \in DOMAIN t : from(i) = j
    <2>1. CASE j < k
      BY <2>1, <1>4, <1>6
    <2>2. CASE ~(j < k)
      <3>1. j - 1 \in DOMAIN t /\ from(j - 1) = j
        BY <2>2, <1>8, <1>4, <1>6
      <3> QED
        BY <3>1
    <2> QED
      BY <2>1, <2>2
  <1>9. \A i, j \in DOMAIN t : i # j => from(i) # from(j)
    BY <1>4, <1>6
  <1> HIDE DEF from
  <1>10. EntriesMatch(v, t)
    <2>1. {t[i].body : i \in DOMAIN t} = {list[i].body : i \in DOMAIN list} \ {b}
      <3>1. ASSUME NEW i \in DOMAIN t PROVE t[i].body \in {list[j].body : j \in DOMAIN list} \ {b}
        <4>1. from(i) \in DOMAIN list /\ from(i) # k /\ t[i] = list[from(i)]
          BY <1>7
        <4> QED
          BY <4>1, <1>1, <1>4 DEF b, list
      <3>2. ASSUME NEW j \in DOMAIN list, list[j].body # b PROVE \E i \in DOMAIN t : t[i].body = list[j].body
        <4>1. j # k
          BY <3>2 DEF b, list
        <4> QED
          BY <4>1, <1>7, <1>8
      <3> QED
        BY <3>1, <3>2
    <2>2. ASSUME NEW i \in DOMAIN t, NEW j \in DOMAIN t, i # j
          PROVE  t[i].entity # t[j].entity /\ t[i].body # t[j].body
      BY <2>2, <1>1, <1>7, <1>9
    <2> QED
      BY <2>1, <2>2, <1>1, <1>3, <1>5 DEF EntriesMatch
  <1>11. ToSet(t) \subseteq ToSet(list)
    BY <1>7 DEF ToSet
  <1>12. /\ Without(r, k).world = v /\ Without(r, k).entries = t
    BY DEF Without, v, t, b
  <1> QED
    BY <1>3, <1>5, <1>10, <1>11, <1>12 DEF BridgeOK, Outlives, list

\* Handles of bodies name one entity each.
LEMMA EntityOfIs ==
    ASSUME NEW w, NEW list, EntriesMatch(w, list), NEW e \in ToSet(list)
    PROVE  EntityOf(e.body, list) = e.entity /\ e.body \in LiveBodies(w) /\ e \in Entry
  <1>1. PICK i \in DOMAIN list : e = list[i]
    BY DEF ToSet
  <1>2. \A f \in ToSet(list) : f.body = e.body => f = e
    BY <1>1 DEF ToSet, EntriesMatch
  <1>3. (CHOOSE f \in ToSet(list) : f.body = e.body) = e
    BY <1>2
  <1>4. e \in Entry
    <2>1. list \in Seq(Entry) /\ DOMAIN list = 1..Len(list)
      BY LenProperties DEF EntriesMatch
    <2> QED
      BY <2>1, <1>1, ElementOfSeq
  <1> QED
    BY <1>1, <1>3, <1>4 DEF EntityOf, EntriesMatch

\* Where entries go, the others keep their entities.
LEMMA EntitiesStay ==
    ASSUME NEW w, NEW v, NEW list, NEW rest, EntriesMatch(w, list), EntriesMatch(v, rest),
           ToSet(rest) \subseteq ToSet(list), NEW b \in LiveBodies(v)
    PROVE  EntityOf(b, rest) = EntityOf(b, list) /\ EntityOf(b, rest) \in Handles
  <1>1. PICK e \in ToSet(rest) : e.body = b
    BY DEF EntriesMatch, ToSet
  <1>2. EntityOf(e.body, rest) = e.entity /\ e \in Entry
    BY EntityOfIs
  <1>3. EntityOf(e.body, list) = e.entity
    BY EntityOfIs
  <1> QED
    BY <1>1, <1>2, <1>3 DEF Entry
-----------------------------------------------------------------------------
(* The loop of step() that retires bodies.                                 *)

Bridge == [world |-> world, entries |-> entries]

Retire(c, r) == IF Gone(c, r.entries) = {} THEN r ELSE Without(r, Min(Gone(c, r.entries)))

Loops(c, f) == f = [n \in 0..Len(entries) |-> IF n = 0 THEN Bridge ELSE Retire(c, f[n - 1])]

\* One retirement, if there is anything to retire.
LEMMA RetireKeeps ==
    ASSUME NEW c, NEW r, BridgeOK(r)
    PROVE  LET s == Retire(c, r) IN
           /\ BridgeOK(s) /\ Outlives(r, s) /\ s.world.contacts = r.world.contacts
           /\ LiveBodies(s.world) \subseteq LiveBodies(r.world)
           /\ ToSet(s.entries) \subseteq ToSet(r.entries)
           /\ (s = r /\ Gone(c, r.entries) = {}) \/ Len(s.entries) = Len(r.entries) - 1
  <1>1. CASE Gone(c, r.entries) = {}
    <2>1. Retire(c, r) = r
      BY <1>1 DEF Retire
    <2> QED
      BY <1>1, <2>1 DEF Outlives
  <1>2. CASE Gone(c, r.entries) # {}
    <2> DEFINE k == Min(Gone(c, r.entries))
    <2>1. DOMAIN r.entries \subseteq Nat /\ Gone(c, r.entries) \subseteq DOMAIN r.entries
      BY LenProperties DEF BridgeOK, EntriesMatch, Gone
    <2>2. k \in Gone(c, r.entries)
      <3> DEFINE T == Gone(c, r.entries)
      <3>1. T \in SUBSET Nat /\ T # {}
        BY <1>2, <2>1
      <3> HIDE DEF T
      <3>2. \E m \in T : \A d \in T : m <= d
        BY <3>1, Least
      <3> QED
        BY <3>2 DEF Min, T
    <2>3. k \in DOMAIN r.entries
      BY <2>1, <2>2
    <2>4. Retire(c, r) = Without(r, k)
      BY <1>2 DEF Retire
    <2> HIDE DEF k
    <2> QED
      BY <2>3, <2>4, WithoutKeeps
  <1> QED
    BY <1>1, <1>2

\* The recursive definition of the loop defines something.
LEMMA LoopRuns ==
    ASSUME NEW c, BridgeOK(Bridge)
    PROVE  LET after == Retirements(c) IN
           /\ after[0] = Bridge
           /\ \A n \in 1..Len(entries) : after[n] = Retire(c, after[n - 1])
  <1> DEFINE N == Len(entries)
             S == {r \in [world : WorldType, entries : Seq(Entry)] : BridgeOK(r)}
             step == [n \in 1..N |-> [r \in S |-> Retire(c, r)]]
             after == Retirements(c)
  <1>1. N \in Nat
    BY LenProperties DEF BridgeOK, EntriesMatch, Bridge
  <1>2. Bridge \in S
    BY DEF Bridge, BridgeOK, WorldOK, BodiesTyped, EntriesMatch
  <1>3. ASSUME NEW r \in S PROVE Retire(c, r) \in S
    <2> DEFINE s == Retire(c, r)
    <2>1. BridgeOK(s)
      BY RetireKeeps
    <2>2. s.world \in WorldType /\ s.entries \in Seq(Entry)
      BY <2>1 DEF BridgeOK, WorldOK, BodiesTyped, EntriesMatch
    <2>3. s = [world |-> s.world, entries |-> s.entries]
      BY DEF Retire, Without
    <2> HIDE DEF s
    <2>4. s \in [world : WorldType, entries : Seq(Entry)]
      BY <2>2, <2>3
    <2> QED
      BY <2>1, <2>4 DEF s
  <1>4. step \in [1..N -> [S -> S]]
    BY <1>3
  <1>5. \A n \in 1..N : \A r \in S : step[n][r] = Retire(c, r)
    OBVIOUS
  <1> HIDE DEF S, step, N
  <1>6. PICK f \in [0..N -> S] : f[0] = Bridge /\ \A n \in 1..N : f[n] = step[n][f[n - 1]]
    BY <1>1, <1>2, <1>4, LoopExists
  <1>7. \A n \in 0..N : f[n] = IF n = 0 THEN Bridge ELSE Retire(c, f[n - 1])
    <2> SUFFICES ASSUME NEW n \in 0..N, n # 0 PROVE f[n] = Retire(c, f[n - 1])
      BY <1>6
    <2>1. n \in 1..N /\ n - 1 \in 0..N
      BY <1>1
    <2> QED
      BY <2>1, <1>5, <1>6
  <1>f. f = [n \in 0..N |-> f[n]]
    BY <1>6
  <1>8. f = [n \in 0..N |-> IF n = 0 THEN Bridge ELSE Retire(c, f[n - 1])]
    BY <1>f, <1>7
  <1>9. Loops(c, f)
    BY <1>8 DEF Loops, N
  <1>10. after = CHOOSE g : Loops(c, g)
    BY DEF Retirements, Loops, Retire, Bridge
  <1> HIDE DEF after
  <1>11. Loops(c, after)
    BY <1>9, <1>10
  <1>12. \A n \in 0..N : after[n] = IF n = 0 THEN Bridge ELSE Retire(c, after[n - 1])
    BY <1>11 DEF Loops, N
  <1>13. after[0] = Bridge /\ \A n \in 1..N : after[n] = Retire(c, after[n - 1])
    BY <1>1, <1>12
  <1> QED
    BY <1>13 DEF N, after

\* However far the loop gets, bodies and entries agree, and it ends when
\* nothing is left to retire.
LEMMA RetirementsKeep ==
    ASSUME NEW c, BridgeOK(Bridge), NEW n \in 0..Len(entries)
    PROVE  LET s == Retirements(c)[n] IN
           /\ BridgeOK(s) /\ Outlives(Bridge, s) /\ s.world.contacts = world.contacts
           /\ LiveBodies(s.world) \subseteq LiveBodies(world)
           /\ ToSet(s.entries) \subseteq ToSet(entries)
           /\ n = Len(entries) => Gone(c, s.entries) = {}
  <1> DEFINE N == Len(entries)
             after == Retirements(c)
             Kept(i) == /\ BridgeOK(after[i]) /\ Outlives(Bridge, after[i])
                        /\ after[i].world.contacts = world.contacts
                        /\ LiveBodies(after[i].world) \subseteq LiveBodies(world)
                        /\ ToSet(after[i].entries) \subseteq ToSet(entries)
                        /\ Gone(c, after[i].entries) = {} \/ Len(after[i].entries) = N - i
             T == {i \in 0..N : Kept(i)}
  <1>1. N \in Nat
    BY LenProperties DEF BridgeOK, EntriesMatch, Bridge
  <1>2. after[0] = Bridge /\ \A i \in 1..N : after[i] = Retire(c, after[i - 1])
    BY LoopRuns
  <1> HIDE DEF after
  <1>3. 0 \in T
    <2>1. Bridge.world = world /\ Bridge.entries = entries
      BY DEF Bridge
    <2>2. Kept(0)
      BY <1>1, <1>2, <2>1 DEF Outlives
    <2> QED
      BY <1>1, <2>2
  <1>4. ASSUME NEW i \in 1..N, i - 1 \in T PROVE i \in T
    <2> DEFINE r == after[i - 1]
               s == after[i]
    <2>1. Kept(i - 1)
      BY <1>4
    <2>2. s = Retire(c, r)
      BY <1>2
    <2>3. /\ BridgeOK(s) /\ Outlives(r, s) /\ s.world.contacts = r.world.contacts
          /\ LiveBodies(s.world) \subseteq LiveBodies(r.world)
          /\ ToSet(s.entries) \subseteq ToSet(r.entries)
          /\ (s = r /\ Gone(c, r.entries) = {}) \/ Len(s.entries) = Len(r.entries) - 1
      <3>1. BridgeOK(r)
        BY <2>1
      <3> HIDE DEF r, s
      <3> QED
        BY <3>1, <2>2, RetireKeeps
    <2>4. Outlives(Bridge, s)
      <3>1. LiveBodies(r.world) \subseteq Bodies
        BY <2>1, LiveBodiesAre DEF BridgeOK, WorldOK
      <3>2. ASSUME NEW x \in LiveBodies(Bridge.world) PROVE x \in LiveBodies(s.world) \/ Spent(s.world, x)
        <4>1. x \in Bodies
          BY LiveBodiesAre DEF BridgeOK, WorldOK
        <4> QED
          BY <4>1, <2>1, <2>3 DEF Outlives
      <3>3. ASSUME NEW x \in Bodies, Spent(Bridge.world, x) PROVE Spent(s.world, x)
        BY <3>3, <2>1, <2>3 DEF Outlives
      <3> QED
        BY <3>2, <3>3 DEF Outlives
    <2>5. Gone(c, s.entries) = {} \/ Len(s.entries) = N - i
      <3>1. CASE s = r /\ Gone(c, r.entries) = {}
        BY <3>1
      <3>2. CASE Len(s.entries) = Len(r.entries) - 1
        <4>1. CASE Gone(c, r.entries) = {}
          <5>1. s = r
            BY <2>2, <4>1 DEF Retire
          <5> QED
            BY <4>1, <5>1
        <4>2. CASE Len(r.entries) = N - (i - 1)
          <5>1. N - (i - 1) - 1 = N - i
            BY <1>1
          <5> QED
            BY <3>2, <4>2, <5>1
        <4> QED
          BY <4>1, <4>2, <2>1
      <3> QED
        BY <3>1, <3>2, <2>3
    <2>6. Kept(i)
      BY <2>1, <2>3, <2>4, <2>5
    <2> QED
      BY <2>6
  <1>5. n \in T
    <2>1. T \in SUBSET (0..N)
      OBVIOUS
    <2> HIDE DEF T
    <2>2. T = 0..N
      BY <1>1, <1>3, <1>4, <2>1, IntervalInduction
    <2> QED
      BY <2>2 DEF N
  <1>6. Kept(n)
    BY <1>5
  <1>7. ASSUME n = N PROVE Gone(c, after[n].entries) = {}
    <2>1. CASE Len(after[n].entries) = N - n
      <3>1. after[n].entries \in Seq(Entry) /\ Len(after[n].entries) = 0
        BY <2>1, <1>1, <1>6, <1>7 DEF BridgeOK, EntriesMatch
      <3>2. DOMAIN after[n].entries = {}
        BY <3>1, LenProperties
      <3> QED
        BY <3>2 DEF Gone
    <2> QED
      BY <2>1, <1>6
  <1> QED
    BY <1>6, <1>7 DEF N, after
-----------------------------------------------------------------------------
(* The contacts of a world and what the game knows of them.                *)

Known == [contact : Contacts, between : SUBSET Handles]

\* Handles of bodies are slots and generations.
LEMMA ContactsAreOfSlots == Contacts \subseteq SlotContacts
  BY WorldAssumption DEF Contacts, Bodies, SlotContacts

\* The lists that a step may find, as the merge takes them.
LEMMA ContactListsAre ==
    ASSUME NEW w, BodiesTyped(w), NEW C \in ContactLists(w)
    PROVE  /\ InSlotOrder(C) /\ C \in Seq(Contacts) /\ Len(C) \in Nat /\ Len(C) <= MaxContacts
           /\ \A p \in ToSet(C) : /\ p \in Contacts
                                  /\ p.first \in LiveBodies(w) /\ p.second \in LiveBodies(w)
  <1> DEFINE pairs == {p \in [first : LiveBodies(w), second : LiveBodies(w)] : p.first.slot < p.second.slot}
  <1>1. C \in BoundedSeq(pairs, MaxContacts) /\ \A i, j \in DOMAIN C : i < j => SlotLess(C[i], C[j])
    BY DEF ContactLists
  <1>2. PICK n \in 0..MaxContacts : C \in [1..n -> pairs]
    BY <1>1 DEF BoundedSeq, SeqOf
  <1>3. LiveBodies(w) \subseteq Bodies
    BY LiveBodiesAre
  <1>4. \A p \in pairs : p \in Contacts /\ p.first \in LiveBodies(w) /\ p.second \in LiveBodies(w)
    BY <1>3 DEF Contacts
  <1> HIDE DEF pairs
  <1>5. n \in Nat /\ n <= MaxContacts
    BY WorldAssumption
  <1>6. C \in Seq(pairs) /\ C \in Seq(Contacts) /\ C \in Seq(SlotContacts) /\ Len(C) = n
    BY <1>2, <1>4, <1>5, ContactsAreOfSlots
  <1>7. \A p \in ToSet(C) : p \in pairs
    BY <1>2 DEF ToSet
  <1> QED
    BY <1>1, <1>4, <1>5, <1>6, <1>7 DEF InSlotOrder

\* What the game knows is what the world remembers, of bodies that are alive or
\* gone for good.
KnowsBodies(r, K) ==
    /\ InSlotOrder(r.world.contacts) /\ Len(r.world.contacts) <= MaxContacts
    /\ K \subseteq Known
    /\ {k.contact : k \in K} = ToSet(r.world.contacts)
    /\ \A k \in K :
          /\ k.contact.first \in LiveBodies(r.world) \/ Spent(r.world, k.contact.first)
          /\ k.contact.second \in LiveBodies(r.world) \/ Spent(r.world, k.contact.second)
          /\ IsBody(r.world, k.contact.first) /\ IsBody(r.world, k.contact.second) =>
                k.between = {EntityOf(k.contact.first, r.entries), EntityOf(k.contact.second, r.entries)}

\* A body that is gone for good is not alive.
LEMMA SpentIsDead ==
    ASSUME NEW w, BodiesTyped(w), NEW b \in Bodies, Spent(w, b)
    PROVE  ~IsBody(w, b)
  <1>1. b.slot \in DOMAIN w.slots /\ b.generation \in Int /\ w.slots[b.slot].generation \in Int
    BY WorldParts, BodyParts DEF Spent
  <1> QED
    BY <1>1 DEF Spent, IsBody

\* The contacts outlive bodies that come and go between two steps.
LEMMA KnowsStays ==
    ASSUME NEW r, NEW s, NEW K, BridgeOK(r), BridgeOK(s), KnowsBodies(r, K), Outlives(r, s),
           s.world.contacts = r.world.contacts,
           \A b \in LiveBodies(r.world) \cap LiveBodies(s.world) :
              EntityOf(b, s.entries) = EntityOf(b, r.entries)
    PROVE  KnowsBodies(s, K)
  <1>1. BodiesTyped(r.world) /\ BodiesTyped(s.world)
    BY DEF BridgeOK, WorldOK
  <1>2. ASSUME NEW b \in Bodies, b \in LiveBodies(r.world) \/ Spent(r.world, b)
        PROVE  /\ b \in LiveBodies(s.world) \/ Spent(s.world, b)
               /\ IsBody(s.world, b) => IsBody(r.world, b) /\ EntityOf(b, s.entries) = EntityOf(b, r.entries)
    <2>1. b \in LiveBodies(s.world) \/ Spent(s.world, b)
      BY <1>2 DEF Outlives
    <2>2. IsBody(s.world, b) => b \in LiveBodies(s.world) /\ b \in LiveBodies(r.world)
      <3>1. Spent(r.world, b) => ~IsBody(s.world, b)
        BY <1>1, SpentIsDead DEF Outlives
      <3> QED
        BY <3>1, <1>1, <1>2, LiveBodiesAre
    <2> QED
      BY <2>1, <2>2, <1>1, LiveBodiesAre
  <1>3. \A k \in K : k.contact.first \in Bodies /\ k.contact.second \in Bodies
    BY DEF KnowsBodies, Known, Contacts
  <1>4. ASSUME NEW k \in K
        PROVE  /\ k.contact.first \in LiveBodies(s.world) \/ Spent(s.world, k.contact.first)
               /\ k.contact.second \in LiveBodies(s.world) \/ Spent(s.world, k.contact.second)
               /\ IsBody(s.world, k.contact.first) /\ IsBody(s.world, k.contact.second) =>
                     k.between = {EntityOf(k.contact.first, s.entries), EntityOf(k.contact.second, s.entries)}
    BY <1>2, <1>3 DEF KnowsBodies
  <1> QED
    BY <1>4 DEF KnowsBodies

\* A step that succeeds: the game is told of everything that changed.
LEMMA SteppedKnows ==
    ASSUME NEW r, BridgeOK(r), KnowsBodies(r, touching), NEW C \in ContactLists(r.world)
    PROVE  LET s == [world |-> Stepped(r.world, C), entries |-> r.entries] IN
           BridgeOK(s) /\ KnowsBodies(s, Told(touching, Transitions(r.world.contacts, C), r.entries))
  <1> DEFINE w == r.world
             v == Stepped(w, C)
             P == w.contacts
             E == Transitions(P, C)
             list == r.entries
             K == Told(touching, E, list)
             s == [world |-> v, entries |-> list]
  <1>1. /\ WorldOK(w) /\ BodiesTyped(w) /\ w \in WorldType /\ EntriesMatch(w, list)
        /\ InSlotOrder(P) /\ touching \subseteq Known /\ {k.contact : k \in touching} = ToSet(P)
        /\ \A k \in touching :
              IsBody(w, k.contact.first) /\ IsBody(w, k.contact.second) =>
                 k.between = {EntityOf(k.contact.first, list), EntityOf(k.contact.second, list)}
    BY DEF BridgeOK, WorldOK, BodiesTyped, KnowsBodies
  <1>2. /\ InSlotOrder(C) /\ C \in Seq(Contacts) /\ Len(C) <= MaxContacts
        /\ \A p \in ToSet(C) : p \in Contacts /\ p.first \in LiveBodies(w) /\ p.second \in LiveBodies(w)
    BY <1>1, ContactListsAre
  <1>3. /\ v.slots = w.slots /\ v.free = w.free /\ v.count = w.count /\ v.contacts = C /\ v \in WorldType
    BY <1>1, <1>2 DEF Stepped, WorldType
  <1>s. s.world = v /\ s.entries = list
    OBVIOUS
  <1>4. /\ E \in Seq(EventType)
        /\ \A p \in SlotContacts :
              /\ Event("Begin", p) \in ToSet(E) <=> p \in ToSet(C) \ ToSet(P)
              /\ Event("End", p) \in ToSet(E) <=> p \in ToSet(P) \ ToSet(C)
    BY <1>1, <1>2, TransitionsAre
  <1> HIDE DEF v, P, E, list, w, s
  <1>c. Contacts \subseteq SlotContacts /\ \A k \in touching : k.contact \in SlotContacts
    BY <1>1, ContactsAreOfSlots DEF Known
  <1>5. \A p \in SlotContacts : ~(Event("Begin", p) \in ToSet(E) /\ Event("End", p) \in ToSet(E))
    BY <1>4
  <1>6. \A k : k \in K <=>
                 \/ \E p \in SlotContacts : Event("Begin", p) \in ToSet(E) /\ k = Announced(p, list)
                 \/ k \in touching /\ Event("End", k.contact) \notin ToSet(E)
    BY <1>c, <1>4, <1>5, ToldIs
  <1> HIDE DEF K
  <1>7. /\ LiveBodies(v) = LiveBodies(w) /\ WorldOK(v) /\ \A b : IsBody(v, b) <=> IsBody(w, b)
    <2>1. LiveBodies(v) = LiveBodies(w) /\ \A b : IsBody(v, b) <=> IsBody(w, b)
      BY <1>3 DEF LiveBodies, IsBody, BodyAt
    <2>2. BodiesTyped(v)
      BY <1>1, <1>3 DEF BodiesTyped, FreeBodiesAreDead
    <2>3. BodiesCounted(v)
      BY <1>1, <1>3, <2>1 DEF WorldOK, BodiesCounted
    <2> QED
      BY <2>1, <2>2, <2>3 DEF WorldOK
  <1>8. BridgeOK(s)
    BY <1>1, <1>7, <1>s DEF BridgeOK, EntriesMatch
  <1>9. ASSUME NEW p \in ToSet(C)
        PROVE  Announced(p, list) \in Known /\ Announced(p, list).contact = p
    <2>1. p.first \in LiveBodies(w) /\ p.second \in LiveBodies(w) /\ p \in Contacts
      BY <1>2
    <2>2. EntityOf(p.first, list) \in Handles /\ EntityOf(p.second, list) \in Handles
      BY <2>1, <1>1, EntitiesStay
    <2> QED
      BY <2>1, <2>2 DEF Announced, Known
  <1>10. ASSUME NEW k \in K
         PROVE  /\ k \in Known /\ k.contact \in ToSet(C)
                /\ IsBody(w, k.contact.first) /\ IsBody(w, k.contact.second) =>
                     k.between = {EntityOf(k.contact.first, list), EntityOf(k.contact.second, list)}
    <2>1. CASE \E p \in SlotContacts : Event("Begin", p) \in ToSet(E) /\ k = Announced(p, list)
      <3>1. PICK p \in Contacts : p \in ToSet(C) /\ k = Announced(p, list)
        BY <2>1, <1>2, <1>4
      <3>2. k.between = {EntityOf(p.first, list), EntityOf(p.second, list)}
        BY <3>1 DEF Announced
      <3> QED
        BY <3>1, <3>2, <1>9
    <2>2. CASE k \in touching /\ Event("End", k.contact) \notin ToSet(E)
      <3>1. k \in Known /\ k.contact \in ToSet(P) /\ k.contact \in Contacts
        BY <2>2, <1>1 DEF Known
      <3>2. k.contact \in ToSet(C)
        BY <2>2, <3>1, <1>4, <1>c
      <3> QED
        BY <2>2, <3>1, <3>2, <1>1
    <2> QED
      BY <2>1, <2>2, <1>6
  <1>11. ASSUME NEW p \in ToSet(C) PROVE \E k \in K : k.contact = p
    <2>1. p \in Contacts
      BY <1>2
    <2>2. CASE p \in ToSet(P)
      <3>1. PICK k \in touching : k.contact = p
        BY <2>2, <1>1
      <3>2. Event("End", k.contact) \notin ToSet(E)
        BY <2>1, <3>1, <1>4, <1>c
      <3> QED
        BY <3>1, <3>2, <1>6
    <2>3. CASE p \notin ToSet(P)
      <3>1. Event("Begin", p) \in ToSet(E)
        BY <2>1, <2>3, <1>4, <1>c
      <3> QED
        BY <2>1, <3>1, <1>c, <1>6, <1>9
    <2> QED
      BY <2>2, <2>3
  <1>12. {k.contact : k \in K} = ToSet(C)
    BY <1>10, <1>11
  <1>13. KnowsBodies(s, K)
    <2>1. s.world.contacts = C /\ s.world = v /\ s.entries = list
      BY <1>3, <1>s
    <2>2. \A k \in K : k.contact.first \in LiveBodies(v) /\ k.contact.second \in LiveBodies(v)
      BY <1>2, <1>7, <1>10
    <2>3. \A k \in K :
            IsBody(v, k.contact.first) /\ IsBody(v, k.contact.second) =>
               k.between = {EntityOf(k.contact.first, list), EntityOf(k.contact.second, list)}
      BY <1>7, <1>10
    <2> QED
      BY <2>1, <2>2, <2>3, <1>2, <1>10, <1>12 DEF KnowsBodies
  <1> QED
    BY <1>8, <1>13 DEF s, v, w, list, K, E, P
-----------------------------------------------------------------------------
(* The bridge and the game.                                                *)

PhysicsInv ==
    /\ SceneInv
    /\ boundTo \in 0..MaxSceneId
    /\ BridgeOK(Bridge)
    /\ KnowsBodies(Bridge, touching)

\* The scene does not notice the bridge.
LEMMA SceneRunsOn == [PhysicsNext]_physicsVars => [SceneNext]_sceneVars
  <1>1. PhysicsNext => [SceneNext]_sceneVars
    BY DEF PhysicsNext, SceneStep, CreateBridge, StepBridge, StepFails, AttachBody, DetachBody, sceneVars
  <1>2. UNCHANGED physicsVars => UNCHANGED sceneVars
    BY DEF physicsVars
  <1> QED
    BY <1>1, <1>2

\* Before create() there is no body and no contact.
LEMMA PhysicsInitInv == PhysicsInit => PhysicsInv
  <1> SUFFICES ASSUME PhysicsInit PROVE PhysicsInv
    OBVIOUS
  <1>1. SceneInv
    BY SceneInitInv DEF PhysicsInit
  <1>2. boundTo = 0 /\ entries = <<>> /\ world = EmptyWorld /\ touching = {} /\ boundTo \in 0..MaxSceneId
    BY LimitAssumption DEF PhysicsInit
  <1>3. /\ \A T : <<>> \in Seq(T)
        /\ DOMAIN <<>> = {} /\ Len(<<>>) = 0 /\ ToSet(<<>>) = {} /\ IsInjective(<<>>)
    BY DEF ToSet, IsInjective
  <1>4. /\ world.slots = <<>> /\ world.free = <<>> /\ world.count = 0 /\ world.contacts = <<>>
        /\ world \in WorldType
    BY <1>2, <1>3 DEF EmptyWorld, WorldType
  <1>5. LiveBodies(world) = {}
    BY <1>3, <1>4 DEF LiveBodies
  <1>6. WorldOK(world)
    <2>1. BodiesTyped(world)
      BY <1>3, <1>4, WorldAssumption DEF BodiesTyped, FreeBodiesAreDead
    <2>2. BodiesCounted(world)
      BY <1>4, <1>5, FS_EmptySet, WorldAssumption DEF BodiesCounted
    <2> QED
      BY <2>1, <2>2 DEF WorldOK
  <1>7. BridgeOK(Bridge)
    BY <1>2, <1>3, <1>5, <1>6 DEF BridgeOK, Bridge, EntriesMatch
  <1>8. KnowsBodies(Bridge, touching)
    <2>1. Bridge.world.contacts = <<>> /\ touching = {} /\ 0 <= MaxContacts
      BY <1>2, <1>4, WorldAssumption DEF Bridge
    <2>2. InSlotOrder(<<>>)
      BY <1>3 DEF InSlotOrder
    <2> QED
      BY <2>1, <2>2, <1>3 DEF KnowsBodies
  <1> QED
    BY <1>1, <1>2, <1>7, <1>8 DEF PhysicsInv

\* Attaching a body to an entity.
LEMMA AttachStep ==
    ASSUME PhysicsInv, NEW o \in Objects, NEW h \in LiveHandles(scenes[o]), AttachBody(o, h)
    PROVE  BridgeOK(Bridge') /\ KnowsBodies(Bridge', touching')
  <1> DEFINE r == Bridge
             b == NextBody(r.world)
             s == [world |-> WithBody(r.world), entries |-> Append(r.entries, [entity |-> h, body |-> b])]
  <1>1. BridgeOK(r) /\ KnowsBodies(r, touching) /\ r.world = world /\ r.entries = entries
    BY DEF PhysicsInv, Bridge
  <1>2. h \in Handles
    <2>1. WellTyped(scenes[o])
      BY DEF PhysicsInv, SceneInv, ContentsOK
    <2> QED
      BY <2>1, LiveHandlesAre
  <1>3. (\A i \in DOMAIN r.entries : r.entries[i].entity # h) /\ CanCreateBody(r.world)
    BY <1>1 DEF AttachBody, HasEntry
  <1>4. /\ BridgeOK(s) /\ Outlives(r, s) /\ s.world.contacts = r.world.contacts
        /\ ToSet(s.entries) = ToSet(r.entries) \cup {[entity |-> h, body |-> b]}
    <2> HIDE DEF r
    <2> QED
      BY <1>1, <1>2, <1>3, AttachKeeps
  <1>5. Bridge' = s /\ touching' = touching
    BY <1>1 DEF AttachBody, Bridge
  <1> HIDE DEF s, r
  <1>6. \A x \in LiveBodies(r.world) : EntityOf(x, s.entries) = EntityOf(x, r.entries)
    <2>1. EntriesMatch(r.world, r.entries) /\ EntriesMatch(s.world, s.entries)
      BY <1>1, <1>4 DEF BridgeOK
    <2>2. ToSet(r.entries) \subseteq ToSet(s.entries)
      BY <1>4
    <2> QED
      BY <2>1, <2>2, EntitiesStay
  <1>7. KnowsBodies(s, touching)
    BY <1>1, <1>4, <1>6, KnowsStays
  <1> QED
    BY <1>4, <1>5, <1>7

\* Where entries go and their bodies with them, the game still knows the rest.
LEMMA RetiredKnows ==
    ASSUME NEW r, NEW s, BridgeOK(r), BridgeOK(s), KnowsBodies(r, touching), Outlives(r, s),
           s.world.contacts = r.world.contacts, ToSet(s.entries) \subseteq ToSet(r.entries)
    PROVE  KnowsBodies(s, touching)
  <1>1. EntriesMatch(r.world, r.entries) /\ EntriesMatch(s.world, s.entries)
    BY DEF BridgeOK
  <1>2. \A x \in LiveBodies(s.world) : EntityOf(x, s.entries) = EntityOf(x, r.entries)
    BY <1>1, EntitiesStay
  <1> QED
    BY <1>2, KnowsStays

\* Detaching the body of an entity.
LEMMA DetachStep ==
    ASSUME PhysicsInv, NEW o \in Objects, NEW h, DetachBody(o, h)
    PROVE  BridgeOK(Bridge') /\ KnowsBodies(Bridge', touching')
  <1>1. PICK k \in DOMAIN entries :
           /\ world' = Without(Bridge, k).world /\ entries' = Without(Bridge, k).entries
    BY DEF DetachBody, Bridge
  <1> DEFINE r == Bridge
             s == Without(r, k)
  <1>2. BridgeOK(r) /\ KnowsBodies(r, touching) /\ r.entries = entries
    BY DEF PhysicsInv, Bridge
  <1>3. Bridge' = s /\ touching' = touching
    BY <1>1 DEF DetachBody, Bridge, Without
  <1> HIDE DEF r
  <1>4. /\ BridgeOK(s) /\ Outlives(r, s) /\ s.world.contacts = r.world.contacts
        /\ ToSet(s.entries) \subseteq ToSet(r.entries)
    BY <1>2, WithoutKeeps
  <1> HIDE DEF s
  <1>5. KnowsBodies(s, touching)
    BY <1>2, <1>4, RetiredKnows
  <1> QED
    BY <1>3, <1>4, <1>5

\* What a step retires before the world moves, whether or not it gets through.
LEMMA RetiredBridge ==
    ASSUME PhysicsInv, NEW c, NEW n \in 0..Len(entries)
    PROVE  LET r == Retirements(c)[n] IN
           /\ BridgeOK(r) /\ KnowsBodies(r, touching)
           /\ ToSet(r.entries) \subseteq ToSet(entries)
           /\ n = Len(entries) => Gone(c, r.entries) = {}
  <1> DEFINE r == Retirements(c)[n]
             b == Bridge
  <1>1. BridgeOK(b) /\ KnowsBodies(b, touching) /\ b.world = world /\ b.entries = entries
    BY DEF PhysicsInv, Bridge
  <1>2. /\ BridgeOK(r) /\ Outlives(b, r) /\ r.world.contacts = world.contacts
        /\ ToSet(r.entries) \subseteq ToSet(entries)
        /\ n = Len(entries) => Gone(c, r.entries) = {}
    BY <1>1, RetirementsKeep
  <1> HIDE DEF r, b
  <1>3. KnowsBodies(r, touching)
    BY <1>1, <1>2, RetiredKnows
  <1> QED
    BY <1>2, <1>3 DEF r

\* A step that fails, however far it got.
LEMMA StepFailsStep ==
    ASSUME PhysicsInv, NEW o \in Objects, StepFails(o)
    PROVE  BridgeOK(Bridge') /\ KnowsBodies(Bridge', touching')
  <1>1. PICK n \in 0..Len(entries) :
           /\ world' = Retirements(scenes[o])[n].world
           /\ entries' = Retirements(scenes[o])[n].entries
    BY DEF StepFails
  <1> DEFINE r == Retirements(scenes[o])[n]
  <1>2. BridgeOK(r) /\ KnowsBodies(r, touching)
    BY RetiredBridge
  <1> HIDE DEF r
  <1>3. Bridge' = [world |-> r.world, entries |-> r.entries] /\ touching' = touching
    BY <1>1 DEF StepFails, Bridge, r
  <1> DEFINE s == [world |-> r.world, entries |-> r.entries]
  <1>4. s.world = r.world /\ s.entries = r.entries
    OBVIOUS
  <1> HIDE DEF s
  <1>5. BridgeOK(s) /\ KnowsBodies(s, touching)
    BY <1>2, <1>4 DEF BridgeOK, KnowsBodies
  <1> QED
    BY <1>3, <1>5 DEF s

\* A step that succeeds.
LEMMA StepBridgeStep ==
    ASSUME PhysicsInv, NEW o \in Objects, StepBridge(o)
    PROVE  BridgeOK(Bridge') /\ KnowsBodies(Bridge', touching')
  <1> DEFINE r == Retirements(scenes[o])[Len(entries)]
  <1>1. PICK C \in ContactLists(r.world) :
          /\ world' = Stepped(r.world, C)
          /\ entries' = r.entries
          /\ touching' = Told(touching, Transitions(r.world.contacts, C), r.entries)
    BY DEF StepBridge
  <1>2. Len(entries) \in 0..Len(entries)
    BY LenProperties DEF PhysicsInv, BridgeOK, EntriesMatch, Bridge
  <1>3. BridgeOK(r) /\ KnowsBodies(r, touching)
    BY <1>2, RetiredBridge
  <1> HIDE DEF r
  <1>4. Bridge' = [world |-> Stepped(r.world, C), entries |-> r.entries]
    BY <1>1 DEF Bridge
  <1> DEFINE s == [world |-> Stepped(r.world, C), entries |-> r.entries]
             K == Told(touching, Transitions(r.world.contacts, C), r.entries)
  <1>5. BridgeOK(s) /\ KnowsBodies(s, K)
    BY <1>3, SteppedKnows
  <1>6. Bridge' = s /\ touching' = K
    BY <1>1, <1>4
  <1> HIDE DEF s, K
  <1> QED
    BY <1>5, <1>6

\* PhysicsInv is inductive.
LEMMA PhysicsStepInv == PhysicsInv /\ [PhysicsNext]_physicsVars => PhysicsInv'
  <1> SUFFICES ASSUME PhysicsInv, [PhysicsNext]_physicsVars PROVE PhysicsInv'
    OBVIOUS
  <1>1. SceneInv'
    BY SceneRunsOn, SceneStepInv DEF PhysicsInv
  <1>2. \A o \in Objects : scenes[o].id \in 0..MaxSceneId
    <2>1. MaxSceneId \in Nat
      BY LimitAssumption
    <2> QED
      BY <2>1 DEF PhysicsInv, SceneInv, ContentsOK, WellTyped, SceneType
  <1>3. CASE UNCHANGED bridgeVars
    <2>1. Bridge' = Bridge /\ touching' = touching /\ boundTo' = boundTo
      BY <1>3 DEF bridgeVars, Bridge
    <2> QED
      BY <2>1, <1>1 DEF PhysicsInv
  <1>4. ASSUME NEW o \in Objects, CreateBridge(o) PROVE PhysicsInv'
    <2>1. Bridge' = Bridge /\ touching' = touching /\ boundTo' = scenes[o].id
      BY <1>4 DEF CreateBridge, Bridge
    <2> QED
      BY <2>1, <1>1, <1>2 DEF PhysicsInv
  <1>5. ASSUME BridgeOK(Bridge') /\ KnowsBodies(Bridge', touching'), boundTo' = boundTo PROVE PhysicsInv'
    BY <1>1, <1>5 DEF PhysicsInv
  <1>6. ASSUME NEW o \in Objects, StepBridge(o) PROVE PhysicsInv'
    BY <1>5, <1>6, StepBridgeStep DEF StepBridge
  <1>7. ASSUME NEW o \in Objects, StepFails(o) PROVE PhysicsInv'
    BY <1>5, <1>7, StepFailsStep DEF StepFails
  <1>8. ASSUME NEW o \in Objects, NEW h \in LiveHandles(scenes[o]), AttachBody(o, h) PROVE PhysicsInv'
    BY <1>5, <1>8, AttachStep DEF AttachBody
  <1>9. ASSUME NEW o \in Objects, NEW h, DetachBody(o, h) PROVE PhysicsInv'
    BY <1>5, <1>9, DetachStep DEF DetachBody
  <1>10. CASE SceneStep
    BY <1>3, <1>10 DEF SceneStep
  <1>11. CASE UNCHANGED physicsVars
    BY <1>3, <1>11 DEF physicsVars
  <1> QED
    BY <1>4, <1>6, <1>7, <1>8, <1>9, <1>10, <1>11 DEF PhysicsNext

\* PhysicsInv is inductive, and holds in every reachable state.
LEMMA PhysicsCorrect == PhysicsSpec => []PhysicsInv
  BY PhysicsInitInv, PhysicsStepInv, PTL DEF PhysicsSpec
-----------------------------------------------------------------------------
\* One body for each attached entity and none else, in worlds of any size and
\* whatever the game does to its scenes between the calls: the loop that
\* retires entries, wherever it stops, takes the body with the entry
\* (attach, detach, step).
THEOREM BodiesFollowTheEntities == PhysicsSpec => []BridgeInvariant
  <1>1. ASSUME PhysicsInv PROVE BridgeInvariant
    <2>1. /\ boundTo \in 0..MaxSceneId /\ WorldOK(world) /\ EntriesMatch(world, entries)
          /\ InSlotOrder(world.contacts) /\ Len(world.contacts) <= MaxContacts /\ touching \subseteq Known
      BY <1>1 DEF PhysicsInv, BridgeOK, KnowsBodies, Bridge
    <2>2. PhysicsTypeOK
      BY <2>1 DEF PhysicsTypeOK, WorldOK, BodiesTyped, BodiesCounted, WorldType, BodySlots, EntriesMatch,
                  Entry, Known
    <2>3. BodiesMatchEntries
      BY <2>1 DEF BodiesMatchEntries, EntriesMatch
    <2> QED
      BY <2>2, <2>3 DEF BridgeInvariant
  <1> QED
    BY <1>1, PhysicsCorrect, PTL

\* The Begin and End events of the merge leave the game with exactly the
\* contacts the world remembers, for every bound on their number: the merge
\* walks two lists sorted by slot, and meets every contact of both once
\* (step).
THEOREM GameIsToldEverything == PhysicsSpec => []GameKnowsTheContacts
  <1>1. PhysicsInv => GameKnowsTheContacts
    BY DEF PhysicsInv, KnowsBodies, Bridge, GameKnowsTheContacts
  <1> QED
    BY <1>1, PhysicsCorrect, PTL

\* Every event is right when it comes, in the order of the slots and with the
\* end of a contact before the beginning of its successor: each turn of the
\* merge adds what is about the contacts it takes, which come after all it
\* took before (step).
THEOREM EventsMakeSense == PhysicsSpec => ContactEventsMakeSense
  <1> DEFINE Sense ==
        \A o \in Objects : StepBridge(o) =>
           MakeSense(Transitions(world.contacts, world'.contacts), {k.contact : k \in touching})
  <1>1. ASSUME PhysicsInv, PhysicsInv' PROVE Sense
    <2> DEFINE P == world.contacts
               C == world'.contacts
    <2>1. InSlotOrder(P) /\ {k.contact : k \in touching} = ToSet(P)
      BY <1>1 DEF PhysicsInv, KnowsBodies, Bridge
    <2>2. InSlotOrder(C)
      BY <1>1 DEF PhysicsInv, KnowsBodies, Bridge
    <2> HIDE DEF P, C
    <2>3. MakeSense(Transitions(P, C), ToSet(P))
      BY <2>1, <2>2, TransitionsAre
    <2> QED
      BY <2>1, <2>3 DEF P, C
  <1>2. PhysicsInv /\ PhysicsInv' => [Sense]_physicsVars
    BY <1>1
  <1> QED
    BY <1>2, PhysicsCorrect, PTL DEF ContactEventsMakeSense

\* A contact of two living bodies is one of the entities the game was told of:
\* a handle of a body that is gone is never given out again, so a body in a
\* reused slot is not in the contact of the one before (create_body,
\* destroy_body, step).
THEOREM ContactsAreOfTheirEntities == PhysicsSpec => []ContactsKeepTheirEntities
  <1>1. PhysicsInv => ContactsKeepTheirEntities
    BY DEF PhysicsInv, KnowsBodies, Bridge, ContactsKeepTheirEntities
  <1> QED
    BY <1>1, PhysicsCorrect, PTL

\* A step leaves no body to an entity that is gone, has lost its Transform2D or
\* was given a parent: as many turns as there are entries are enough (step).
THEOREM NothingGoneMoves == PhysicsSpec => StepRetiresTheGone
  <1> DEFINE Retires ==
        \A o \in Objects : StepBridge(o) =>
           \A i \in DOMAIN entries' : IsSimulated(scenes[o], entries'[i].entity)
  <1>1. ASSUME PhysicsInv PROVE Retires
    <2> SUFFICES ASSUME NEW o \in Objects, StepBridge(o), NEW i \in DOMAIN entries'
                 PROVE  IsSimulated(scenes[o], entries'[i].entity)
      OBVIOUS
    <2>1. Len(entries) \in 0..Len(entries)
      BY <1>1, LenProperties DEF PhysicsInv, BridgeOK, EntriesMatch, Bridge
    <2>2. ToSet(entries') \subseteq ToSet(entries) /\ Gone(scenes[o], entries') = {}
      BY <1>1, <2>1, RetiredBridge DEF StepBridge
    <2>3. ~IsGone(scenes[o], entries'[i])
      BY <2>2 DEF Gone
    <2>4. PICK j \in DOMAIN entries : entries'[i] = entries[j]
      BY <2>2 DEF ToSet
    <2> QED
      BY <2>3, <2>4 DEF StepBridge, Refused
  <1>2. PhysicsInv => [Retires]_physicsVars
    BY <1>1
  <1> QED
    BY <1>2, PhysicsCorrect, PTL DEF StepRetiresTheGone

\* The bridge only watches the scene: entities, hierarchy and components change
\* by the game alone, so what was proved of scenes holds beside any bridge
\* (what step writes is the position inside a Transform2D).
THEOREM BridgeKeepsTheScene == PhysicsSpec => SceneSpec
  <1>1. PhysicsInit => SceneInit
    BY DEF PhysicsInit
  <1> QED
    BY <1>1, SceneRunsOn, PTL DEF PhysicsSpec, SceneSpec

\* Handles die once also where bodies hang on them.
THEOREM EndedHandlesStayDeadBesideABridge == PhysicsSpec => []HandlesDieOnce
  BY BridgeKeepsTheScene, EndedHandlesStayDead, PTL
=============================================================================
