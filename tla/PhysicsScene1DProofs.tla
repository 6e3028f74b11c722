------------------------ MODULE PhysicsScene1DProofs ------------------------
(***************************************************************************)
(* Proofs about the bridge between entities and bodies on a line.          *)
(*                                                                         *)
(* 1.  The bodies: slots, generations and the free list, after every       *)
(*     operation of the world;                                             *)
(* 2.  bodies and the entities they are attached to, and the loop that     *)
(*     retires bodies;                                                     *)
(* 3.  contacts: what a step makes of them, and what the game knows;       *)
(* 4.  one step of the bodies: pairs are found in the order of the merge,  *)
(*     and no collision changes who is alive;                              *)
(* 5.  the bridge, step by step;                                           *)
(* 6.  the ray and the box find the same bodies.                           *)
(***************************************************************************)
EXTENDS PhysicsScene1D, CommonLemmas, FiniteSetTheorems
-----------------------------------------------------------------------------
(* The bodies on a line.                                                   *)

\* A slot, occupied or not, and a world of them.
BodySlots == [generation : 1..MaxBodyGeneration, body : Body \cup {Nothing}]

WorldType == [slots : Seq(BodySlots), free : Seq(1..MaxBodies), count : Nat,
              contacts : Seq(Contacts)]

\* The free list names slots without a body, each once.
FreeBodiesAreDead(w) ==
    IsInjective(w.free) /\ \A i \in ToSet(w.free) : i \in DOMAIN w.slots /\ i \notin Alive(w)

\* Everything of a world but the count of its bodies.
BodiesTyped(w) ==
    /\ w \in WorldType /\ Len(w.slots) <= MaxBodies /\ Len(w.contacts) <= MaxContacts
    /\ FreeBodiesAreDead(w)

\* The count is that of the living bodies.
BodiesCounted(w) == IsFiniteSet(Alive(w)) /\ w.count = Cardinality(Alive(w))

WorldOK(w) == BodiesTyped(w) /\ BodiesCounted(w)

\* A handle of a body that is gone for good.
Spent(w, b) ==
    /\ b.slot \in DOMAIN w.slots
    /\ \/ b.generation < w.slots[b.slot].generation
       \/ /\ b.generation = w.slots[b.slot].generation
          /\ b.slot \notin Alive(w) /\ b.slot \notin ToSet(w.free)

\* Nothing is no body, wherever a step has moved it.
LEMMA BodiesAreSomething ==
    /\ Nothing \notin Unbounded /\ Nothing \notin Body /\ Body \subseteq Unbounded
    /\ Numbers \subseteq Int /\ 0 \in Numbers
  <1>1. MaxNumber \in Nat
    BY WorldAssumption
  <1>2. Numbers \subseteq Int /\ 0 \in Numbers
    BY <1>1 DEF Numbers
  <1>3. Body \subseteq Unbounded
    BY <1>2 DEF Body, Unbounded
  <1> QED
    BY <1>2, <1>3, NothingAssumption

\* A handle of a body is its slot and its generation.
LEMMA BodyParts ==
    /\ \A x \in Bodies : x.slot \in 1..MaxBodies /\ x.generation \in 1..MaxBodyGeneration
    /\ \A x, y \in Bodies : x = y <=> x.slot = y.slot /\ x.generation = y.generation
    /\ \A w, i : HandleOf(w, i).slot = i /\ HandleOf(w, i).generation = w.slots[i].generation
  BY DEF Bodies, HandleOf

\* The typing facts the steps need.
LEMMA WorldParts ==
    ASSUME NEW w, BodiesTyped(w)
    PROVE  /\ w.slots \in Seq(BodySlots) /\ w.free \in Seq(1..MaxBodies) /\ w.count \in Nat
           /\ w.contacts \in Seq(Contacts) /\ w \in WorldType
           /\ Len(w.slots) \in Nat /\ Len(w.slots) <= MaxBodies /\ DOMAIN w.slots = 1..Len(w.slots)
           /\ Alive(w) \subseteq DOMAIN w.slots
           /\ \A i \in DOMAIN w.slots :
                 /\ i \in 1..MaxBodies /\ w.slots[i] \in BodySlots
                 /\ w.slots[i].generation \in 1..MaxBodyGeneration
                 /\ w.slots[i].generation \in Nat
                 /\ w.slots[i].body \in Body \cup {Nothing}
                 /\ i \in Alive(w) <=> w.slots[i].body \in Body
                 /\ HandleOf(w, i) \in Bodies
  <1>1. /\ w.slots \in Seq(BodySlots) /\ w.free \in Seq(1..MaxBodies) /\ w.count \in Nat
        /\ w.contacts \in Seq(Contacts) /\ Len(w.slots) <= MaxBodies /\ w \in WorldType
    BY DEF BodiesTyped, WorldType
  <1>2. Len(w.slots) \in Nat /\ DOMAIN w.slots = 1..Len(w.slots)
    BY <1>1, LenProperties
  <1>3. ASSUME NEW i \in DOMAIN w.slots
        PROVE  /\ i \in 1..MaxBodies /\ w.slots[i] \in BodySlots
               /\ w.slots[i].generation \in 1..MaxBodyGeneration
               /\ w.slots[i].generation \in Nat
               /\ w.slots[i].body \in Body \cup {Nothing}
               /\ i \in Alive(w) <=> w.slots[i].body \in Body
               /\ HandleOf(w, i) \in Bodies
    <2>1. w.slots[i] \in BodySlots /\ i \in 1..MaxBodies
      BY <1>1, <1>2, ElementOfSeq, WorldAssumption
    <2>2. w.slots[i].generation \in 1..MaxBodyGeneration /\ w.slots[i].body \in Body \cup {Nothing}
      BY <2>1 DEF BodySlots
    <2>3. i \in Alive(w) <=> w.slots[i].body # Nothing
      BY DEF Alive
    <2>4. HandleOf(w, i) \in Bodies
      BY <2>1, <2>2 DEF Bodies, HandleOf
    <2> QED
      BY <2>1, <2>2, <2>3, <2>4, BodiesAreSomething
  <1>4. Alive(w) \subseteq DOMAIN w.slots
    BY DEF Alive
  <1> QED
    BY <1>1, <1>2, <1>3, <1>4

\* A body is alive if its handle is accepted.
LEMMA LiveBodiesAre ==
    ASSUME NEW w, BodiesTyped(w)
    PROVE  LiveBodies(w) = {b \in Bodies : IsBody(w, b)}
  <1>1. ASSUME NEW b \in LiveBodies(w) PROVE b \in Bodies /\ IsBody(w, b)
    <2>1. PICK i \in Alive(w) : b = HandleOf(w, i)
      BY DEF LiveBodies
    <2> QED
      BY <2>1, WorldParts, BodyParts DEF IsBody
  <1>2. ASSUME NEW b \in Bodies, IsBody(w, b) PROVE b \in LiveBodies(w)
    <2>1. b.slot \in Alive(w) /\ b = HandleOf(w, b.slot)
      BY <1>2, WorldParts, BodyParts DEF IsBody
    <2> QED
      BY <2>1 DEF LiveBodies
  <1> QED
    BY <1>1, <1>2

\* What create_body does, slot by slot.
LEMMA WithBodyShape ==
    ASSUME NEW w, BodiesTyped(w), NEW definition \in Definitions, NEW position \in Numbers,
           NEW velocity \in Numbers, CanCreateBody(w, definition, velocity)
    PROVE  LET v == WithBody(w, definition, position, velocity)
               b == NextBody(w) IN
           /\ b \in Bodies /\ b.slot \notin Alive(w) /\ ~Spent(w, b)
           /\ b.slot \in DOMAIN w.slots => w.slots[b.slot].generation = b.generation
           /\ BodiesTyped(v) /\ v.count = w.count + 1 /\ v.contacts = w.contacts
           /\ DOMAIN v.slots = DOMAIN w.slots \cup {b.slot}
           /\ v.slots[b.slot].body # Nothing /\ v.slots[b.slot].generation = b.generation
           /\ v.slots[b.slot].body.position = position
           /\ \A i \in DOMAIN w.slots : i # b.slot => v.slots[i] = w.slots[i]
           /\ \A i : i \in ToSet(v.free) <=> i \in ToSet(w.free) /\ i # b.slot
  <1> DEFINE v == WithBody(w, definition, position, velocity)
             b == NextBody(w)
             new == [definition |-> definition, position |-> position,
                     velocity |-> velocity, force |-> 0]
             live == [generation |-> b.generation, body |-> new]
  <1>w. /\ w.slots \in Seq(BodySlots) /\ w.free \in Seq(1..MaxBodies) /\ w.count \in Nat
        /\ w.contacts \in Seq(Contacts) /\ w \in WorldType
        /\ Len(w.slots) \in Nat /\ Len(w.slots) <= MaxBodies /\ DOMAIN w.slots = 1..Len(w.slots)
        /\ Len(w.contacts) <= MaxContacts
        /\ IsInjective(w.free)
        /\ \A i \in ToSet(w.free) : i \in DOMAIN w.slots /\ i \notin Alive(w)
        /\ Alive(w) \subseteq DOMAIN w.slots
    BY WorldParts DEF BodiesTyped, FreeBodiesAreDead
  <1>n. new \in Body /\ new # Nothing /\ new.position = position
    BY BodiesAreSomething DEF Body
  <1>1. CASE w.free # <<>>
    <2> DEFINE k == Last(w.free)
    <2>1. /\ k \in ToSet(w.free) /\ Front(w.free) \in Seq(1..MaxBodies)
          /\ IsInjective(Front(w.free)) /\ ToSet(Front(w.free)) = ToSet(w.free) \ {k}
      <3>1. k \in ToSet(w.free)
        BY <1>1, <1>w, FrontProperties DEF Last, ToSet
      <3> QED
        BY <3>1, <1>1, <1>w, FrontProperties DEF Front, Last
    <2>2. b = HandleOf(w, k)
      BY <1>1 DEF NextBody
    <2>3. v = [w EXCEPT !.slots[k] = live, !.free = Front(@), !.count = @ + 1]
      BY <1>1 DEF WithBody
    <2> HIDE DEF v, b, new
    <2>4. /\ k \in DOMAIN w.slots /\ k \in 1..MaxBodies /\ b \in Bodies /\ b.slot = k
          /\ b.generation = w.slots[k].generation /\ k \notin Alive(w)
          /\ w.slots[k].generation \in 1..MaxBodyGeneration
      BY <2>1, <2>2, <1>w, WorldParts, BodyParts
    <2>5. ~Spent(w, b)
      <3>1. ~(b.generation < w.slots[k].generation)
        BY <2>4
      <3> QED
        BY <2>1, <2>4, <3>1 DEF Spent
    <2>6. live \in BodySlots /\ live.body = new /\ live.generation = b.generation
      BY <2>4, <1>n DEF BodySlots
    <2> HIDE DEF live
    <2>7. /\ v.slots = [w.slots EXCEPT ![k] = live] /\ v.free = Front(w.free)
          /\ v.count = w.count + 1 /\ v.contacts = w.contacts
          /\ v = [slots |-> v.slots, free |-> v.free, count |-> v.count, contacts |-> v.contacts]
      BY <2>3, <1>w DEF WorldType
    <2>8. v.slots \in Seq(BodySlots) /\ Len(v.slots) = Len(w.slots) /\ DOMAIN v.slots = DOMAIN w.slots
      BY <2>7, <2>6, <2>4, <1>w, ExceptSeq
    <2>9. \A i \in DOMAIN w.slots : v.slots[i] = IF i = k THEN live ELSE w.slots[i]
      BY <2>7, <1>w
    <2>10. v \in WorldType
      <3>1. v.free \in Seq(1..MaxBodies) /\ v.count \in Nat /\ v.contacts \in Seq(Contacts)
        BY <2>1, <2>7, <1>w
      <3> QED
        BY <3>1, <2>7, <2>8 DEF WorldType
    <2>11. \A i : i \in ToSet(v.free) <=> i \in ToSet(w.free) /\ i # k
      BY <2>1, <2>7
    <2>12. BodiesTyped(v)
      <3>1. FreeBodiesAreDead(v)
        BY <2>1, <2>7, <2>8, <2>9, <2>11, <1>w DEF FreeBodiesAreDead, Alive
      <3> QED
        BY <3>1, <2>7, <2>8, <2>10, <1>w DEF BodiesTyped
    <2>13. DOMAIN v.slots = DOMAIN w.slots \cup {b.slot}
      BY <2>4, <2>8
    <2> QED
      BY <1>n, <2>4, <2>5, <2>6, <2>7, <2>9, <2>11, <2>12, <2>13 DEF v, b
  <1>2. CASE w.free = <<>>
    <2> DEFINE k == Len(w.slots) + 1
    <2>1. Len(w.slots) < MaxBodies /\ k \in 1..MaxBodies /\ k \notin DOMAIN w.slots
      BY <1>2, <1>w, WorldAssumption DEF CanCreateBody
    <2>2. b = [slot |-> k, generation |-> 1]
      BY <1>2 DEF NextBody
    <2>3. v = [w EXCEPT !.slots = Append(@, live), !.count = @ + 1]
      BY <1>2 DEF WithBody
    <2> HIDE DEF v, b, new
    <2>4. b \in Bodies /\ b.slot = k /\ b.generation = 1 /\ 1 \in 1..MaxBodyGeneration
      BY <2>1, <2>2, WorldAssumption DEF Bodies
    <2>5. b.slot \notin Alive(w) /\ ~Spent(w, b)
      BY <2>1, <2>4, <1>w DEF Spent
    <2>6. live \in BodySlots /\ live.body = new /\ live.generation = b.generation
      BY <2>4, <1>n DEF BodySlots
    <2> HIDE DEF live
    <2>7. /\ v.slots = Append(w.slots, live) /\ v.free = w.free
          /\ v.count = w.count + 1 /\ v.contacts = w.contacts
          /\ v = [slots |-> v.slots, free |-> v.free, count |-> v.count, contacts |-> v.contacts]
      BY <2>3, <1>w DEF WorldType
    <2>8. /\ v.slots \in Seq(BodySlots) /\ Len(v.slots) = k
          /\ v.slots[k] = live /\ \A i \in 1..Len(w.slots) : v.slots[i] = w.slots[i]
      BY <2>7, <2>6, <1>w, AppendProperties
    <2>9. DOMAIN v.slots = 1..k /\ 1..k = 1..Len(w.slots) \cup {k}
      BY <2>8, <1>w, LenProperties
    <2>10. v \in WorldType
      <3>1. v.slots \in Seq(BodySlots)
        BY <2>8
      <3>2. v.free \in Seq(1..MaxBodies) /\ v.contacts \in Seq(Contacts)
        BY <2>7, <1>w
      <3>3. v.count \in Nat
        BY <2>7, <1>w
      <3>4. v = [slots |-> v.slots, free |-> v.free, count |-> v.count, contacts |-> v.contacts]
        BY <2>7
      <3> QED
        BY <3>1, <3>2, <3>3, <3>4 DEF WorldType
    <2>11. ToSet(w.free) = {} /\ ToSet(v.free) = {}
      BY <1>2, <2>7 DEF ToSet
    <2>12. BodiesTyped(v)
      <3>1. FreeBodiesAreDead(v)
        BY <2>7, <2>11, <1>w DEF FreeBodiesAreDead
      <3>2. Len(v.slots) <= MaxBodies /\ Len(v.contacts) <= MaxContacts
        BY <2>1, <2>7, <2>8, <1>w
      <3> QED
        BY <3>1, <3>2, <2>10 DEF BodiesTyped
    <2>13. DOMAIN v.slots = DOMAIN w.slots \cup {b.slot}
      BY <2>4, <2>9, <1>w
    <2> QED
      BY <1>n, <2>1, <2>4, <2>5, <2>6, <2>7, <2>8, <2>11, <2>12, <2>13, <1>w DEF v, b
  <1> QED
    BY <1>1, <1>2


\* A new body: none of those there are, and none there ever was.
LEMMA WithBodyKeeps ==
    ASSUME NEW w, WorldOK(w), NEW definition \in Definitions, NEW position \in Numbers,
           NEW velocity \in Numbers, CanCreateBody(w, definition, velocity)
    PROVE  LET v == WithBody(w, definition, position, velocity)
               b == NextBody(w) IN
           /\ b \in Bodies /\ b \notin LiveBodies(w) /\ ~Spent(w, b)
           /\ WorldOK(v) /\ v.contacts = w.contacts
           /\ LiveBodies(v) = LiveBodies(w) \cup {b}
           /\ BodyOf(v, b).position = position
           /\ \A x \in LiveBodies(w) : BodyOf(v, x) = BodyOf(w, x)
           /\ \A x \in Bodies : Spent(w, x) => Spent(v, x)
  <1> DEFINE v == WithBody(w, definition, position, velocity)
             b == NextBody(w)
  <1>1. /\ b \in Bodies /\ b.slot \notin Alive(w) /\ ~Spent(w, b)
        /\ b.slot \in DOMAIN w.slots => w.slots[b.slot].generation = b.generation
        /\ BodiesTyped(v) /\ v.count = w.count + 1 /\ v.contacts = w.contacts
        /\ DOMAIN v.slots = DOMAIN w.slots \cup {b.slot}
        /\ v.slots[b.slot].body # Nothing /\ v.slots[b.slot].generation = b.generation
        /\ v.slots[b.slot].body.position = position
        /\ \A i \in DOMAIN w.slots : i # b.slot => v.slots[i] = w.slots[i]
        /\ \A i : i \in ToSet(v.free) <=> i \in ToSet(w.free) /\ i # b.slot
    BY WithBodyShape DEF WorldOK
  <1>2. BodiesTyped(w) /\ BodiesCounted(w)
    BY DEF WorldOK
  <1> HIDE DEF v, b
  <1>a. Alive(v) = Alive(w) \cup {b.slot}
    BY <1>1 DEF Alive
  <1>3. ASSUME NEW x \in Bodies PROVE IsBody(v, x) <=> IsBody(w, x) \/ x = b
    <2>1. CASE x.slot = b.slot
      BY <1>1, <1>a, <2>1, BodyParts DEF IsBody
    <2>2. CASE x.slot # b.slot
      <3>1. x.slot \in Alive(v) <=> x.slot \in Alive(w)
        BY <1>a, <2>2
      <3>2. x.slot \in Alive(w) => v.slots[x.slot] = w.slots[x.slot]
        BY <1>1, <2>2 DEF Alive
      <3>3. x # b
        BY <2>2
      <3> QED
        BY <3>1, <3>2, <3>3 DEF IsBody
    <2> QED
      BY <2>1, <2>2
  <1>l. LiveBodies(v) = {x \in Bodies : IsBody(v, x)} /\ LiveBodies(w) = {x \in Bodies : IsBody(w, x)}
    BY <1>1, <1>2, LiveBodiesAre
  <1>4. LiveBodies(v) = LiveBodies(w) \cup {b} /\ b \notin LiveBodies(w)
    <2>1. ~IsBody(w, b)
      BY <1>1 DEF IsBody
    <2> QED
      BY <2>1, <1>l, <1>1, <1>3
  <1>5. BodiesCounted(v)
    <2>1. /\ IsFiniteSet(Alive(w) \cup {b.slot})
          /\ Cardinality(Alive(w) \cup {b.slot}) = Cardinality(Alive(w)) + 1
      BY <1>1, <1>2, FS_AddElement DEF BodiesCounted
    <2> QED
      BY <2>1, <1>1, <1>2, <1>a DEF BodiesCounted
  <1>6. ASSUME NEW x \in Bodies, Spent(w, x) PROVE Spent(v, x)
    <2>1. CASE x.slot = b.slot
      <3>1. x.generation # b.generation /\ w.slots[b.slot].generation = b.generation
        BY <1>1, <1>6, <2>1 DEF Spent
      <3> QED
        BY <3>1, <2>1, <1>1, <1>6 DEF Spent
    <2>2. CASE x.slot # b.slot
      BY <1>1, <1>a, <1>6, <2>2 DEF Spent
    <2> QED
      BY <2>1, <2>2
  <1>7. ASSUME NEW x \in LiveBodies(w) PROVE BodyOf(v, x) = BodyOf(w, x)
    <2>1. x.slot \in Alive(w) /\ x.slot \in DOMAIN w.slots
      BY <1>l DEF IsBody, Alive
    <2> QED
      BY <2>1, <1>1 DEF BodyOf
  <1>8. BodyOf(v, b).position = position
    BY <1>1 DEF BodyOf
  <1> QED
    BY <1>1, <1>4, <1>5, <1>6, <1>7, <1>8 DEF WorldOK, v, b

\* What destroy_body does, slot by slot.
LEMMA WithoutBodyShape ==
    ASSUME NEW w, BodiesTyped(w), NEW b \in Bodies, IsBody(w, b), w.count # 0
    PROVE  LET v == WithoutBody(w, b) IN
           /\ BodiesTyped(v)
           /\ v.count = w.count - 1 /\ v.contacts = w.contacts
           /\ DOMAIN v.slots = DOMAIN w.slots
           /\ v.slots[b.slot].body = Nothing /\ b.generation <= v.slots[b.slot].generation
           /\ b.generation = v.slots[b.slot].generation => b.slot \notin ToSet(v.free)
           /\ \A i \in DOMAIN w.slots : i # b.slot => v.slots[i] = w.slots[i]
           /\ \A i : i # b.slot => (i \in ToSet(v.free) <=> i \in ToSet(w.free))
  <1> DEFINE v == WithoutBody(w, b)
             k == b.slot
             gone == IF b.generation = MaxBodyGeneration
                     THEN [w.slots[k] EXCEPT !.body = Nothing]
                     ELSE [generation |-> b.generation + 1, body |-> Nothing]
  <1>w. /\ w.slots \in Seq(BodySlots) /\ w.free \in Seq(1..MaxBodies) /\ w.count \in Nat
        /\ w.contacts \in Seq(Contacts) /\ w \in WorldType
        /\ Len(w.slots) \in Nat /\ Len(w.slots) <= MaxBodies /\ DOMAIN w.slots = 1..Len(w.slots)
        /\ Len(w.contacts) <= MaxContacts
        /\ IsInjective(w.free)
        /\ \A i \in ToSet(w.free) : i \in DOMAIN w.slots /\ i \notin Alive(w)
    BY WorldParts DEF BodiesTyped, FreeBodiesAreDead
  <1>1. /\ k \in DOMAIN w.slots /\ k \in 1..MaxBodies /\ w.slots[k] \in BodySlots
        /\ w.slots[k].generation = b.generation
        /\ b.generation \in 1..MaxBodyGeneration /\ k \notin ToSet(w.free)
    BY <1>w, WorldParts DEF IsBody
  <1>2. /\ gone \in BodySlots /\ gone.body = Nothing /\ b.generation <= gone.generation
        /\ gone.generation = b.generation <=> b.generation = MaxBodyGeneration
    <2>1. b.generation \in Int /\ MaxBodyGeneration \in Int
      BY <1>1, WorldAssumption
    <2>2. CASE b.generation = MaxBodyGeneration
      <3>1. gone \in BodySlots
        BY <1>1, <2>2 DEF BodySlots
      <3>2. gone.body = Nothing /\ gone.generation = b.generation
        BY <1>1, <2>2 DEF BodySlots
      <3> QED
        BY <2>1, <2>2, <3>1, <3>2
    <2>3. CASE b.generation # MaxBodyGeneration
      <3>1. gone = [generation |-> b.generation + 1, body |-> Nothing]
        BY <2>3
      <3>2. b.generation + 1 \in 1..MaxBodyGeneration
        BY <1>1, <2>1, <2>3
      <3>3. gone \in BodySlots /\ gone.body = Nothing /\ gone.generation = b.generation + 1
        BY <3>1, <3>2 DEF BodySlots
      <3> HIDE DEF gone
      <3> QED
        BY <2>1, <2>3, <3>3
    <2> QED
      BY <2>2, <2>3
  <1>3. /\ v.slots = [w.slots EXCEPT ![k] = gone]
        /\ v.free = IF b.generation = MaxBodyGeneration THEN w.free ELSE Append(w.free, k)
        /\ v.count = w.count - 1 /\ v.contacts = w.contacts
        /\ v = [slots |-> v.slots, free |-> v.free, count |-> v.count, contacts |-> v.contacts]
    <2>1. CASE b.generation = MaxBodyGeneration
      <3>1. v = [w EXCEPT !.slots[k].body = Nothing, !.count = @ - 1]
        BY <2>1 DEF WithoutBody
      <3>2. [w.slots[k] EXCEPT !.body = Nothing] = gone
        BY <2>1
      <3> HIDE DEF v, gone
      <3>3. v.slots = [w.slots EXCEPT ![k] = gone]
        BY <3>1, <3>2, <1>w, <1>1 DEF WorldType
      <3> QED
        BY <2>1, <3>1, <3>3, <1>w DEF WorldType
    <2>2. CASE b.generation # MaxBodyGeneration
      <3>1. v = [w EXCEPT !.slots[k] = gone, !.free = Append(@, k), !.count = @ - 1]
        BY <2>2 DEF WithoutBody
      <3> HIDE DEF v, gone
      <3> QED
        BY <2>2, <3>1, <1>w DEF WorldType
    <2> QED
      BY <2>1, <2>2
  <1> HIDE DEF v, gone
  <1>4. /\ v.slots \in Seq(BodySlots) /\ Len(v.slots) = Len(w.slots) /\ DOMAIN v.slots = DOMAIN w.slots
        /\ \A i \in DOMAIN w.slots : v.slots[i] = IF i = k THEN gone ELSE w.slots[i]
    BY <1>1, <1>2, <1>3, <1>w, ExceptSeq
  <1>5. /\ v.free \in Seq(1..MaxBodies) /\ IsInjective(v.free)
        /\ \A i : i # k => (i \in ToSet(v.free) <=> i \in ToSet(w.free))
        /\ b.generation = MaxBodyGeneration => k \notin ToSet(v.free)
    <2>1. CASE b.generation = MaxBodyGeneration
      BY <2>1, <1>1, <1>3, <1>w
    <2>2. CASE b.generation # MaxBodyGeneration
      <3>1. /\ Append(w.free, k) \in Seq(1..MaxBodies) /\ IsInjective(Append(w.free, k))
            /\ ToSet(Append(w.free, k)) = ToSet(w.free) \cup {k}
        <4>1. w.free \in Seq(1..MaxBodies) /\ k \in 1..MaxBodies /\ IsInjective(w.free)
          BY <1>1, <1>w
        <4> DEFINE T == 1..MaxBodies
                   s == w.free
        <4> HIDE DEF k, T, s
        <4>2. s \in Seq(T) /\ k \in T
          BY <4>1 DEF T, s
        <4>3. /\ Append(s, k) \in Seq(T) /\ ToSet(Append(s, k)) = ToSet(s) \cup {k}
              /\ IsInjective(s) /\ k \notin ToSet(s) => IsInjective(Append(s, k))
          BY <4>2, AppendToSet
        <4> QED
          BY <4>1, <4>3, <1>1 DEF T, s
      <3> QED
        BY <2>2, <3>1, <1>3
    <2> QED
      BY <2>1, <2>2
  <1>6. FreeBodiesAreDead(v)
    <2> SUFFICES ASSUME NEW i \in ToSet(v.free) PROVE i \in DOMAIN v.slots /\ v.slots[i].body = Nothing
      BY <1>5 DEF FreeBodiesAreDead, Alive
    <2>1. CASE i = k
      BY <2>1, <1>1, <1>2, <1>4
    <2>2. CASE i # k
      <3>1. i \in DOMAIN w.slots /\ i \notin Alive(w)
        BY <2>2, <1>5, <1>w
      <3> QED
        BY <2>2, <3>1, <1>4 DEF Alive
    <2> QED
      BY <2>1, <2>2
  <1>7. BodiesTyped(v)
    <2>1. v.count \in Nat
      BY <1>3, <1>w
    <2>2. v \in WorldType
      <3>1. v.contacts \in Seq(Contacts)
        BY <1>3, <1>w
      <3> QED
        BY <2>1, <3>1, <1>3, <1>4, <1>5 DEF WorldType
    <2> QED
      BY <2>2, <1>3, <1>4, <1>6, <1>w DEF BodiesTyped
  <1>8. /\ v.slots[k].body = Nothing /\ b.generation <= v.slots[k].generation
        /\ b.generation = v.slots[k].generation => k \notin ToSet(v.free)
    BY <1>1, <1>2, <1>4, <1>5
  <1>9. \A i \in DOMAIN w.slots : i # k => v.slots[i] = w.slots[i]
    BY <1>4
  <1> QED
    BY <1>3, <1>4, <1>5, <1>7, <1>8, <1>9 DEF v

\* A body that is destroyed: one less, and gone for good.
LEMMA WithoutBodyKeeps ==
    ASSUME NEW w, WorldOK(w), NEW b \in LiveBodies(w)
    PROVE  LET v == WithoutBody(w, b) IN
           /\ WorldOK(v) /\ v.contacts = w.contacts
           /\ LiveBodies(v) = LiveBodies(w) \ {b}
           /\ \A x \in LiveBodies(v) : BodyOf(v, x) = BodyOf(w, x)
           /\ Spent(v, b)
           /\ \A x \in Bodies : Spent(w, x) => Spent(v, x)
  <1> DEFINE v == WithoutBody(w, b)
  <1>1. BodiesTyped(w) /\ BodiesCounted(w) /\ b \in Bodies /\ IsBody(w, b) /\ b.slot \in Alive(w)
    BY LiveBodiesAre DEF WorldOK, IsBody
  <1>3. w.count # 0
    BY <1>1, FS_EmptySet DEF BodiesCounted
  <1>2. /\ BodiesTyped(v)
        /\ v.count = w.count - 1 /\ v.contacts = w.contacts
        /\ DOMAIN v.slots = DOMAIN w.slots
        /\ v.slots[b.slot].body = Nothing /\ b.generation <= v.slots[b.slot].generation
        /\ b.generation = v.slots[b.slot].generation => b.slot \notin ToSet(v.free)
        /\ \A i \in DOMAIN w.slots : i # b.slot => v.slots[i] = w.slots[i]
        /\ \A i : i # b.slot => (i \in ToSet(v.free) <=> i \in ToSet(w.free))
    BY <1>1, <1>3, WithoutBodyShape
  <1> HIDE DEF v
  <1>b. /\ b.slot \in DOMAIN w.slots
        /\ w.slots[b.slot].generation = b.generation /\ b.generation \in Int
        /\ v.slots[b.slot].generation \in Int
    BY <1>1, <1>2, BodyParts, WorldParts DEF IsBody
  <1>a. Alive(v) = Alive(w) \ {b.slot}
    BY <1>2 DEF Alive
  <1>5. ASSUME NEW x \in Bodies PROVE IsBody(v, x) <=> IsBody(w, x) /\ x # b
    <2>1. CASE x.slot = b.slot
      BY <1>1, <1>a, <1>b, <2>1, BodyParts DEF IsBody
    <2>2. CASE x.slot # b.slot
      <3>1. x.slot \in Alive(v) <=> x.slot \in Alive(w)
        BY <1>a, <2>2
      <3>2. x.slot \in Alive(w) => v.slots[x.slot] = w.slots[x.slot]
        BY <1>2, <2>2 DEF Alive
      <3>3. x # b
        BY <2>2
      <3> QED
        BY <3>1, <3>2, <3>3 DEF IsBody
    <2> QED
      BY <2>1, <2>2
  <1>l. LiveBodies(v) = {x \in Bodies : IsBody(v, x)} /\ LiveBodies(w) = {x \in Bodies : IsBody(w, x)}
    BY <1>1, <1>2, LiveBodiesAre
  <1>6. LiveBodies(v) = LiveBodies(w) \ {b}
    BY <1>l, <1>1, <1>5
  <1>7. BodiesCounted(v)
    <2>1. /\ IsFiniteSet(Alive(w) \ {b.slot})
          /\ Cardinality(Alive(w) \ {b.slot}) = Cardinality(Alive(w)) - 1
      BY <1>1, FS_RemoveElement DEF BodiesCounted
    <2> QED
      BY <2>1, <1>1, <1>2, <1>a DEF BodiesCounted
  <1>8. Spent(v, b)
    BY <1>2, <1>a, <1>b DEF Spent
  <1>9. ASSUME NEW x \in Bodies, Spent(w, x) PROVE Spent(v, x)
    <2>0. x.generation \in Int
      BY BodyParts
    <2>1. CASE x.slot = b.slot
      <3>1. x.generation < b.generation
        BY <1>1, <1>9, <1>b, <2>1 DEF Spent
      <3> QED
        BY <3>1, <2>0, <2>1, <1>2, <1>b DEF Spent
    <2>2. CASE x.slot # b.slot
      BY <1>2, <1>a, <1>9, <2>2 DEF Spent
    <2> QED
      BY <2>1, <2>2
  <1>10. ASSUME NEW x \in LiveBodies(v) PROVE BodyOf(v, x) = BodyOf(w, x)
    <2>1. x.slot \in Alive(v)
      BY <1>l DEF IsBody
    <2>2. x.slot \in DOMAIN w.slots /\ x.slot # b.slot
      BY <2>1, <1>a DEF Alive
    <2> QED
      BY <2>2, <1>2 DEF BodyOf
  <1> QED
    BY <1>2, <1>6, <1>7, <1>8, <1>9, <1>10 DEF WorldOK, v


\* Bodies that move stay who they are.
LEMMA MovedBodies ==
    ASSUME NEW w, WorldOK(w), NEW v \in WorldType, v.free = w.free, v.count = w.count,
           Len(v.slots) = Len(w.slots), Len(v.contacts) <= MaxContacts,
           \A i \in DOMAIN w.slots : /\ v.slots[i].generation = w.slots[i].generation
                                     /\ v.slots[i].body = Nothing <=> w.slots[i].body = Nothing
    PROVE  /\ WorldOK(v)
           /\ LiveBodies(v) = LiveBodies(w) /\ \A b : IsBody(v, b) <=> IsBody(w, b)
           /\ \A b : Spent(v, b) <=> Spent(w, b)
  <1>1. BodiesTyped(w)
    BY DEF WorldOK
  <1>3. DOMAIN v.slots = DOMAIN w.slots
    <2>1. w.slots \in Seq(BodySlots) /\ v.slots \in Seq(BodySlots)
      BY <1>1, WorldParts DEF WorldType
    <2> QED
      BY <2>1, LenProperties
  <1>4. Alive(v) = Alive(w)
    BY <1>3 DEF Alive
  <1>5. WorldOK(v)
    <2>1. BodiesTyped(v)
      BY <1>1, <1>3, <1>4 DEF BodiesTyped, FreeBodiesAreDead
    <2> QED
      BY <2>1, <1>4 DEF WorldOK, BodiesCounted
  <1>7. Alive(w) \subseteq DOMAIN w.slots
    BY DEF Alive
  <1>8. \A b : IsBody(v, b) <=> IsBody(w, b)
    BY <1>4, <1>7 DEF IsBody
  <1>9. LiveBodies(v) = LiveBodies(w)
    BY <1>4, <1>7 DEF LiveBodies, HandleOf
  <1>10. \A b : Spent(v, b) <=> Spent(w, b)
    BY <1>3, <1>4 DEF Spent
  <1> QED
    BY <1>5, <1>8, <1>9, <1>10

\* One body is given other contents.
LEMMA ChangedBody ==
    ASSUME NEW w, WorldOK(w), NEW b \in LiveBodies(w), NEW x \in Body
    PROVE  LET v == [w EXCEPT !.slots[b.slot].body = x] IN
           /\ WorldOK(v) /\ v.contacts = w.contacts
           /\ LiveBodies(v) = LiveBodies(w)
           /\ BodyOf(v, b) = x
           /\ \A y \in LiveBodies(w) : y # b => BodyOf(v, y) = BodyOf(w, y)
           /\ \A y : Spent(v, y) <=> Spent(w, y)
           /\ \A y : IsBody(v, y) <=> IsBody(w, y)
  <1> DEFINE k == b.slot
             new == [w.slots[k] EXCEPT !.body = x]
             slots == [w.slots EXCEPT ![k] = new]
             v == [w EXCEPT !.slots[b.slot].body = x]
  <1>1. BodiesTyped(w) /\ w \in WorldType /\ w.slots \in Seq(BodySlots) /\ w.contacts \in Seq(Contacts)
        /\ Len(w.contacts) <= MaxContacts
    BY WorldParts DEF WorldOK, BodiesTyped
  <1>2. b \in Bodies /\ k \in Alive(w) /\ k \in DOMAIN w.slots /\ w.slots[k] \in BodySlots
    BY <1>1, LiveBodiesAre, WorldParts DEF IsBody
  <1>3. /\ new \in BodySlots /\ new.body = x /\ new.generation = w.slots[k].generation
    BY <1>2 DEF BodySlots
  <1>4. v = [w EXCEPT !.slots = slots]
    BY <1>1 DEF WorldType
  <1> HIDE DEF new, v
  <1>5. /\ slots \in Seq(BodySlots) /\ Len(slots) = Len(w.slots)
        /\ \A i \in DOMAIN w.slots : slots[i] = IF i = k THEN new ELSE w.slots[i]
    <2>1. DOMAIN w.slots = 1..Len(w.slots)
      BY <1>1, LenProperties
    <2> QED
      BY <2>1, <1>1, <1>2, <1>3, ExceptSeq
  <1>6. x # Nothing /\ w.slots[k].body # Nothing
    BY <1>2, BodiesAreSomething DEF Alive
  <1> HIDE DEF slots
  <1>e. \A i \in DOMAIN w.slots : /\ slots[i].generation = w.slots[i].generation
                                  /\ slots[i].body = Nothing <=> w.slots[i].body = Nothing
    BY <1>3, <1>5, <1>6
  <1>u. /\ v \in WorldType /\ v.slots = slots /\ v.contacts = w.contacts
        /\ v.free = w.free /\ v.count = w.count
    BY <1>1, <1>4, <1>5 DEF WorldType
  <1>7. /\ WorldOK(v) /\ LiveBodies(v) = LiveBodies(w) /\ \A y : IsBody(v, y) <=> IsBody(w, y)
        /\ \A y : Spent(v, y) <=> Spent(w, y)
    BY <1>1, <1>5, <1>e, <1>u, MovedBodies
  <1>8. BodyOf(v, b) = x
    BY <1>2, <1>3, <1>5, <1>u DEF BodyOf
  <1>9. ASSUME NEW y \in LiveBodies(w), y # b PROVE BodyOf(v, y) = BodyOf(w, y)
    <2>1. y \in Bodies /\ IsBody(w, y) /\ IsBody(w, b)
      BY <1>1, LiveBodiesAre
    <2>2. y.slot # k /\ y.slot \in DOMAIN w.slots
      BY <2>1, <1>2, <1>9, BodyParts DEF IsBody, Alive
    <2> QED
      BY <2>2, <1>5, <1>u DEF BodyOf
  <1> QED
    BY <1>u, <1>7, <1>8, <1>9 DEF v

\* The setters: one body gets another position, velocity or force.
LEMMA SettersKeep ==
    ASSUME NEW w, WorldOK(w), NEW b \in LiveBodies(w), NEW number \in Numbers
    PROVE  LET p == Positioned(w, b, number)
               q == WithVelocity(w, b, number) IN
           /\ BodyOf(w, b) \in Body
           /\ p = [w EXCEPT !.slots[b.slot].body = [BodyOf(w, b) EXCEPT !.position = number]]
           /\ q = [w EXCEPT !.slots[b.slot].body = [BodyOf(w, b) EXCEPT !.velocity = number]]
           /\ CanApplyForce(w, b, number) =>
                WithForce(w, b, number) =
                  [w EXCEPT !.slots[b.slot].body = [BodyOf(w, b) EXCEPT !.force = BodyOf(w, b).force + number]]
                /\ BodyOf(w, b).force + number \in Numbers
           /\ CanApplyImpulse(w, b, number) =>
                WithImpulse(w, b, number) =
                  [w EXCEPT !.slots[b.slot].body = [BodyOf(w, b) EXCEPT !.velocity = BodyOf(w, b).velocity + number]]
                /\ BodyOf(w, b).velocity + number \in Numbers
  <1>1. BodiesTyped(w) /\ b \in Bodies /\ b.slot \in Alive(w) /\ w \in WorldType
    BY LiveBodiesAre, WorldParts DEF IsBody, WorldOK
  <1>2. /\ b.slot \in DOMAIN w.slots /\ BodyOf(w, b) \in Body /\ w.slots[b.slot] \in BodySlots
        /\ w.slots[b.slot].body = BodyOf(w, b)
    BY <1>1, WorldParts DEF BodyOf
  <1>3. BodyOf(w, b).force \in Int /\ BodyOf(w, b).velocity \in Int /\ number \in Int /\ MaxNumber \in Int
    BY <1>2, BodiesAreSomething, WorldAssumption DEF Body
  <1>4. CanApplyForce(w, b, number) => BodyOf(w, b).force + number \in Numbers
    BY <1>3 DEF CanApplyForce, IsFinite, Numbers
  <1>5. CanApplyImpulse(w, b, number) => BodyOf(w, b).velocity + number \in Numbers
    BY <1>3 DEF CanApplyImpulse, IsFinite, Numbers
  <1>6. Positioned(w, b, number) = [w EXCEPT !.slots[b.slot].body = [BodyOf(w, b) EXCEPT !.position = number]]
    BY DEF Positioned, BodyOf
  <1>7. WithVelocity(w, b, number) = [w EXCEPT !.slots[b.slot].body = [BodyOf(w, b) EXCEPT !.velocity = number]]
    BY DEF WithVelocity, BodyOf
  <1>8. WithForce(w, b, number) =
          [w EXCEPT !.slots[b.slot].body = [BodyOf(w, b) EXCEPT !.force = BodyOf(w, b).force + number]]
    BY DEF WithForce, BodyOf
  <1>9. WithImpulse(w, b, number) =
          [w EXCEPT !.slots[b.slot].body = [BodyOf(w, b) EXCEPT !.velocity = BodyOf(w, b).velocity + number]]
    BY DEF WithImpulse, BodyOf
  <1> QED
    BY <1>2, <1>4, <1>5, <1>6, <1>7, <1>8, <1>9

-----------------------------------------------------------------------------
(* Bodies and the entities they are attached to.                           *)

Entry == [entity : Entities, body : Bodies]

\* One entry for each body, and no entity twice.
EntriesMatch(w, list) ==
    /\ list \in Seq(Entry)
    /\ {list[i].body : i \in DOMAIN list} = LiveBodies(w)
    /\ \A i, j \in DOMAIN list : i # j => list[i].entity # list[j].entity /\ list[i].body # list[j].body

BridgeOK(r) == WorldOK(r.world) /\ EntriesMatch(r.world, r.entries)

\* What no operation of the bridge may do to the bodies it does not touch.
Outlives(r, s) ==
    /\ \A x \in LiveBodies(r.world) : /\ x \in LiveBodies(s.world) \/ Spent(s.world, x)
                                      /\ x \in LiveBodies(s.world) => BodyOf(s.world, x) = BodyOf(r.world, x)
    /\ \A x \in Bodies : Spent(r.world, x) => Spent(s.world, x)

\* A body and its entry come together.
LEMMA AttachKeeps ==
    ASSUME NEW r, BridgeOK(r), NEW h \in Entities,
           \A i \in DOMAIN r.entries : r.entries[i].entity # h,
           NEW definition \in Definitions, NEW position \in Numbers, NEW velocity \in Numbers,
           CanCreateBody(r.world, definition, velocity)
    PROVE  LET b == NextBody(r.world)
               s == [world   |-> WithBody(r.world, definition, position, velocity),
                     entries |-> Append(r.entries, [entity |-> h, body |-> b])] IN
           /\ BridgeOK(s) /\ Outlives(r, s) /\ s.world.contacts = r.world.contacts
           /\ LiveBodies(s.world) = LiveBodies(r.world) \cup {b}
           /\ b \in Bodies /\ b \notin LiveBodies(r.world) /\ ~Spent(r.world, b)
           /\ BodyOf(s.world, b).position = position
           /\ ToSet(s.entries) = ToSet(r.entries) \cup {[entity |-> h, body |-> b]}
  <1> DEFINE b == NextBody(r.world)
             v == WithBody(r.world, definition, position, velocity)
             e == [entity |-> h, body |-> b]
             t == Append(r.entries, e)
             list == r.entries
  <1>1. /\ b \in Bodies /\ b \notin LiveBodies(r.world) /\ ~Spent(r.world, b)
        /\ WorldOK(v) /\ v.contacts = r.world.contacts
        /\ LiveBodies(v) = LiveBodies(r.world) \cup {b}
        /\ BodyOf(v, b).position = position
        /\ \A x \in LiveBodies(r.world) : BodyOf(v, x) = BodyOf(r.world, x)
        /\ \A x \in Bodies : Spent(r.world, x) => Spent(v, x)
    BY WithBodyKeeps DEF BridgeOK
  <1>2. /\ list \in Seq(Entry)
        /\ {list[i].body : i \in DOMAIN list} = LiveBodies(r.world)
        /\ \A i, j \in DOMAIN list : i # j => list[i].entity # list[j].entity /\ list[i].body # list[j].body
        /\ \A i \in DOMAIN list : list[i].entity # h
    BY DEF BridgeOK, EntriesMatch
  <1> HIDE DEF b, v
  <1>3. e \in Entry /\ e.entity = h /\ e.body = b
    BY <1>1 DEF Entry
  <1> HIDE DEF e, list
  <1>4. /\ t \in Seq(Entry) /\ DOMAIN t = 1..(Len(list) + 1) /\ Len(list) \in Nat /\ DOMAIN list = 1..Len(list)
        /\ t[Len(list) + 1] = e /\ \A i \in 1..Len(list) : t[i] = list[i]
    BY <1>2, <1>3, AppendProperties, LenProperties DEF list
  <1> HIDE DEF t
  <1>5. DOMAIN t = DOMAIN list \cup {Len(list) + 1} /\ Len(list) + 1 \notin DOMAIN list
    BY <1>4
  <1>6. \A i \in DOMAIN list : list[i].body # b
    BY <1>1, <1>2
  <1>7. EntriesMatch(v, t)
    <2>1. {t[i].body : i \in DOMAIN t} = {list[i].body : i \in DOMAIN list} \cup {b}
      BY <1>3, <1>4, <1>5
    <2>2. ASSUME NEW i \in DOMAIN t, NEW j \in DOMAIN t, i # j
          PROVE  t[i].entity # t[j].entity /\ t[i].body # t[j].body
      BY <2>2, <1>2, <1>3, <1>4, <1>5, <1>6
    <2> QED
      BY <2>1, <2>2, <1>1, <1>2, <1>4 DEF EntriesMatch
  <1>8. ToSet(t) = ToSet(list) \cup {e}
    BY <1>4, <1>5 DEF ToSet
  <1>9. LET s == [world |-> v, entries |-> t] IN
        /\ s.world = v /\ s.entries = t
    OBVIOUS
  <1> QED
    BY <1>1, <1>7, <1>8, <1>9 DEF BridgeOK, Outlives, b, v, e, t, list

\* A body and its entry go together.
LEMMA WithoutKeeps ==
    ASSUME NEW r, BridgeOK(r), NEW k \in DOMAIN r.entries
    PROVE  LET s == Without(r, k) IN
           /\ BridgeOK(s) /\ Outlives(r, s) /\ s.world.contacts = r.world.contacts
           /\ LiveBodies(s.world) \subseteq LiveBodies(r.world)
           /\ ToSet(s.entries) \subseteq ToSet(r.entries) /\ Len(s.entries) = Len(r.entries) - 1
  <1> DEFINE b == r.entries[k].body
             v == WithoutBody(r.world, b)
             t == RemoveAt(r.entries, k)
             list == r.entries
             from(i) == IF i < k THEN i ELSE i + 1
  <1>1. /\ list \in Seq(Entry)
        /\ {list[i].body : i \in DOMAIN list} = LiveBodies(r.world)
        /\ \A i, j \in DOMAIN list : i # j => list[i].entity # list[j].entity /\ list[i].body # list[j].body
        /\ WorldOK(r.world)
    BY DEF BridgeOK, EntriesMatch
  <1>2. b \in LiveBodies(r.world)
    BY <1>1
  <1>3. /\ WorldOK(v) /\ v.contacts = r.world.contacts
        /\ LiveBodies(v) = LiveBodies(r.world) \ {b}
        /\ \A x \in LiveBodies(v) : BodyOf(v, x) = BodyOf(r.world, x)
        /\ Spent(v, b)
        /\ \A x \in Bodies : Spent(r.world, x) => Spent(v, x)
    BY <1>1, <1>2, WithoutBodyKeeps
  <1> HIDE DEF v
  <1>4. Len(list) \in Nat /\ DOMAIN list = 1..Len(list) /\ k \in 1..Len(list)
    BY <1>1, LenProperties
  <1> HIDE DEF list
  <1>5. /\ t \in Seq(Entry) /\ Len(t) = Len(list) - 1
        /\ \A i \in 1..(Len(list) - 1) : t[i] = IF i < k THEN list[i] ELSE list[i + 1]
    BY <1>1, <1>4, EraseProperties DEF list
  <1>6. DOMAIN t = 1..(Len(list) - 1)
    BY <1>5, LenProperties
  <1> HIDE DEF t
  <1>7. ASSUME NEW i \in DOMAIN t PROVE from(i) \in DOMAIN list \ {k} /\ t[i] = list[from(i)]
    BY <1>4, <1>5, <1>6
  <1>8. ASSUME NEW j \in DOMAIN list, j # k PROVE \E i \in DOMAIN t : from(i) = j
    <2>1. CASE j < k
      BY <2>1, <1>4, <1>6
    <2>2. CASE ~(j < k)
      <3>1. j - 1 \in DOMAIN t /\ from(j - 1) = j
        BY <2>2, <1>8, <1>4, <1>6
      <3> QED
        BY <3>1
    <2> QED
      BY <2>1, <2>2
  <1>9. \A i, j \in DOMAIN t : i # j => from(i) # from(j)
    BY <1>4, <1>6
  <1> HIDE DEF from
  <1>10. EntriesMatch(v, t)
    <2>1. {t[i].body : i \in DOMAIN t} = {list[i].body : i \in DOMAIN list} \ {b}
      <3>1. ASSUME NEW i \in DOMAIN t PROVE t[i].body \in {list[j].body : j \in DOMAIN list} \ {b}
        <4>1. from(i) \in DOMAIN list /\ from(i) # k /\ t[i] = list[from(i)]
          BY <1>7
        <4> QED
          BY <4>1, <1>1, <1>4 DEF b, list
      <3>2. ASSUME NEW j \in DOMAIN list, list[j].body # b PROVE \E i \in DOMAIN t : t[i].body = list[j].body
        <4>1. j # k
          BY <3>2 DEF b, list
        <4> QED
          BY <4>1, <1>7, <1>8
      <3> QED
        BY <3>1, <3>2
    <2>2. ASSUME NEW i \in DOMAIN t, NEW j \in DOMAIN t, i # j
          PROVE  t[i].entity # t[j].entity /\ t[i].body # t[j].body
      BY <2>2, <1>1, <1>7, <1>9
    <2> QED
      BY <2>1, <2>2, <1>1, <1>3, <1>5 DEF EntriesMatch
  <1>11. ToSet(t) \subseteq ToSet(list)
    BY <1>7 DEF ToSet
  <1>12. /\ Without(r, k).world = v /\ Without(r, k).entries = t
    BY DEF Without, v, t, b
  <1> QED
    BY <1>3, <1>5, <1>10, <1>11, <1>12 DEF BridgeOK, Outlives, list

\* Entities of bodies name one entity each.
LEMMA EntityOfIs ==
    ASSUME NEW w, NEW list, EntriesMatch(w, list), NEW e \in ToSet(list)
    PROVE  EntityOf(e.body, list) = e.entity /\ e.body \in LiveBodies(w) /\ e \in Entry
  <1>1. PICK i \in DOMAIN list : e = list[i]
    BY DEF ToSet
  <1>2. \A f \in ToSet(list) : f.body = e.body => f = e
    BY <1>1 DEF ToSet, EntriesMatch
  <1>3. (CHOOSE f \in ToSet(list) : f.body = e.body) = e
    BY <1>2
  <1>4. e \in Entry
    <2>1. list \in Seq(Entry) /\ DOMAIN list = 1..Len(list)
      BY LenProperties DEF EntriesMatch
    <2> QED
      BY <2>1, <1>1, ElementOfSeq
  <1> QED
    BY <1>1, <1>3, <1>4 DEF EntityOf, EntriesMatch

\* Where entries go, the others keep their entities.
LEMMA EntitiesStay ==
    ASSUME NEW w, NEW v, NEW list, NEW rest, EntriesMatch(w, list), EntriesMatch(v, rest),
           ToSet(rest) \subseteq ToSet(list), NEW b \in LiveBodies(v)
    PROVE  EntityOf(b, rest) = EntityOf(b, list) /\ EntityOf(b, rest) \in Entities
  <1>1. PICK e \in ToSet(rest) : e.body = b
    BY DEF EntriesMatch, ToSet
  <1>2. EntityOf(e.body, rest) = e.entity /\ e \in Entry
    BY EntityOfIs
  <1>3. EntityOf(e.body, list) = e.entity
    BY EntityOfIs
  <1> QED
    BY <1>1, <1>2, <1>3 DEF Entry

-----------------------------------------------------------------------------
(* The loop that retires bodies.                                           *)

\* The bridge as a record, one retirement, and the loop of them.
Bridge == [world |-> world, entries |-> entries]

Retire(r) == IF Gone(r.entries) = {} THEN r ELSE Without(r, Min(Gone(r.entries)))

Loops(f) == f = [n \in 0..Len(entries) |-> IF n = 0 THEN Bridge ELSE Retire(f[n - 1])]

\* One retirement, if there is anything to retire.
LEMMA RetireKeeps ==
    ASSUME NEW r, BridgeOK(r)
    PROVE  LET s == Retire(r) IN
           /\ BridgeOK(s) /\ Outlives(r, s) /\ s.world.contacts = r.world.contacts
           /\ LiveBodies(s.world) \subseteq LiveBodies(r.world)
           /\ ToSet(s.entries) \subseteq ToSet(r.entries)
           /\ (s = r /\ Gone(r.entries) = {}) \/ Len(s.entries) = Len(r.entries) - 1
  <1>1. CASE Gone(r.entries) = {}
    <2>1. Retire(r) = r
      BY <1>1 DEF Retire
    <2> QED
      BY <1>1, <2>1 DEF Outlives
  <1>2. CASE Gone(r.entries) # {}
    <2> DEFINE k == Min(Gone(r.entries))
    <2>1. DOMAIN r.entries \subseteq Nat /\ Gone(r.entries) \subseteq DOMAIN r.entries
      BY LenProperties DEF BridgeOK, EntriesMatch, Gone
    <2>2. k \in Gone(r.entries)
      <3> DEFINE T == Gone(r.entries)
      <3>1. T \in SUBSET Nat /\ T # {}
        BY <1>2, <2>1
      <3> HIDE DEF T
      <3>2. \E m \in T : \A d \in T : m <= d
        BY <3>1, Least
      <3> QED
        BY <3>2 DEF Min, T
    <2>3. k \in DOMAIN r.entries
      BY <2>1, <2>2
    <2>4. Retire(r) = Without(r, k)
      BY <1>2 DEF Retire
    <2> HIDE DEF k
    <2> QED
      BY <2>3, <2>4, WithoutKeeps
  <1> QED
    BY <1>1, <1>2

\* The recursive definition of the loop defines something.
LEMMA LoopRuns ==
    ASSUME BridgeOK(Bridge)
    PROVE  LET after == Retirements IN
           /\ after[0] = Bridge
           /\ \A n \in 1..Len(entries) : after[n] = Retire(after[n - 1])
  <1> DEFINE N == Len(entries)
             S == {r \in [world : WorldType, entries : Seq(Entry)] : BridgeOK(r)}
             step == [n \in 1..N |-> [r \in S |-> Retire(r)]]
             after == Retirements
  <1>1. N \in Nat
    BY LenProperties DEF BridgeOK, EntriesMatch, Bridge
  <1>2. Bridge \in S
    BY DEF Bridge, BridgeOK, WorldOK, BodiesTyped, EntriesMatch
  <1>3. ASSUME NEW r \in S PROVE Retire(r) \in S
    <2> DEFINE s == Retire(r)
    <2>1. BridgeOK(s)
      BY RetireKeeps
    <2>2. s.world \in WorldType /\ s.entries \in Seq(Entry)
      BY <2>1 DEF BridgeOK, WorldOK, BodiesTyped, EntriesMatch
    <2>3. s = [world |-> s.world, entries |-> s.entries]
      BY DEF Retire, Without
    <2> HIDE DEF s
    <2>4. s \in [world : WorldType, entries : Seq(Entry)]
      BY <2>2, <2>3
    <2> QED
      BY <2>1, <2>4 DEF s
  <1>4. step \in [1..N -> [S -> S]]
    BY <1>3
  <1>5. \A n \in 1..N : \A r \in S : step[n][r] = Retire(r)
    OBVIOUS
  <1> HIDE DEF S, step, N
  <1>6. PICK f \in [0..N -> S] : f[0] = Bridge /\ \A n \in 1..N : f[n] = step[n][f[n - 1]]
    BY <1>1, <1>2, <1>4, LoopExists
  <1>7. \A n \in 0..N : f[n] = IF n = 0 THEN Bridge ELSE Retire(f[n - 1])
    <2> SUFFICES ASSUME NEW n \in 0..N, n # 0 PROVE f[n] = Retire(f[n - 1])
      BY <1>6
    <2>1. n \in 1..N /\ n - 1 \in 0..N
      BY <1>1
    <2> QED
      BY <2>1, <1>5, <1>6
  <1>f. f = [n \in 0..N |-> f[n]]
    BY <1>6
  <1>8. f = [n \in 0..N |-> IF n = 0 THEN Bridge ELSE Retire(f[n - 1])]
    BY <1>f, <1>7
  <1>9. Loops(f)
    BY <1>8 DEF Loops, N
  <1>10. after = CHOOSE g : Loops(g)
    BY DEF Retirements, Loops, Retire, Bridge
  <1> HIDE DEF after
  <1>11. Loops(after)
    BY <1>9, <1>10
  <1>12. \A n \in 0..N : after[n] = IF n = 0 THEN Bridge ELSE Retire(after[n - 1])
    BY <1>11 DEF Loops, N
  <1>13. after[0] = Bridge /\ \A n \in 1..N : after[n] = Retire(after[n - 1])
    BY <1>1, <1>12
  <1> QED
    BY <1>13 DEF N, after

\* However far the loop gets, bodies and entries agree, and it ends when
\* nothing is left to retire.
LEMMA RetirementsKeep ==
    ASSUME BridgeOK(Bridge), NEW n \in 0..Len(entries)
    PROVE  LET s == Retirements[n] IN
           /\ BridgeOK(s) /\ Outlives(Bridge, s) /\ s.world.contacts = world.contacts
           /\ LiveBodies(s.world) \subseteq LiveBodies(world)
           /\ ToSet(s.entries) \subseteq ToSet(entries)
           /\ n = Len(entries) => Gone(s.entries) = {}
  <1> DEFINE N == Len(entries)
             after == Retirements
             Kept(i) == /\ BridgeOK(after[i]) /\ Outlives(Bridge, after[i])
                        /\ after[i].world.contacts = world.contacts
                        /\ LiveBodies(after[i].world) \subseteq LiveBodies(world)
                        /\ ToSet(after[i].entries) \subseteq ToSet(entries)
                        /\ Gone(after[i].entries) = {} \/ Len(after[i].entries) = N - i
             T == {i \in 0..N : Kept(i)}
  <1>1. N \in Nat
    BY LenProperties DEF BridgeOK, EntriesMatch, Bridge
  <1>2. after[0] = Bridge /\ \A i \in 1..N : after[i] = Retire(after[i - 1])
    BY LoopRuns
  <1> HIDE DEF after
  <1>3. 0 \in T
    <2>1. Bridge.world = world /\ Bridge.entries = entries
      BY DEF Bridge
    <2>2. Kept(0)
      BY <1>1, <1>2, <2>1 DEF Outlives
    <2> QED
      BY <1>1, <2>2
  <1>4. ASSUME NEW i \in 1..N, i - 1 \in T PROVE i \in T
    <2> DEFINE r == after[i - 1]
               s == after[i]
    <2>1. Kept(i - 1)
      BY <1>4
    <2>2. s = Retire(r)
      BY <1>2
    <2>3. /\ BridgeOK(s) /\ Outlives(r, s) /\ s.world.contacts = r.world.contacts
          /\ LiveBodies(s.world) \subseteq LiveBodies(r.world)
          /\ ToSet(s.entries) \subseteq ToSet(r.entries)
          /\ (s = r /\ Gone(r.entries) = {}) \/ Len(s.entries) = Len(r.entries) - 1
      <3>1. BridgeOK(r)
        BY <2>1
      <3> HIDE DEF r, s
      <3> QED
        BY <3>1, <2>2, RetireKeeps
    <2>4. Outlives(Bridge, s)
      <3>1. LiveBodies(r.world) \subseteq Bodies
        BY <2>1, LiveBodiesAre DEF BridgeOK, WorldOK
      <3>2. ASSUME NEW x \in LiveBodies(Bridge.world)
            PROVE  /\ x \in LiveBodies(s.world) \/ Spent(s.world, x)
                   /\ x \in LiveBodies(s.world) => BodyOf(s.world, x) = BodyOf(Bridge.world, x)
        <4>1. x \in Bodies
          BY LiveBodiesAre DEF BridgeOK, WorldOK
        <4>2. x \in LiveBodies(r.world) \/ Spent(r.world, x)
          BY <2>1 DEF Outlives
        <4>3. x \in LiveBodies(s.world) => x \in LiveBodies(r.world)
          BY <2>3
        <4> QED
          BY <4>1, <4>2, <4>3, <2>1, <2>3 DEF Outlives
      <3>3. ASSUME NEW x \in Bodies, Spent(Bridge.world, x) PROVE Spent(s.world, x)
        BY <3>3, <2>1, <2>3 DEF Outlives
      <3> QED
        BY <3>2, <3>3 DEF Outlives
    <2>5. Gone(s.entries) = {} \/ Len(s.entries) = N - i
      <3>1. CASE s = r /\ Gone(r.entries) = {}
        BY <3>1
      <3>2. CASE Len(s.entries) = Len(r.entries) - 1
        <4>1. CASE Gone(r.entries) = {}
          <5>1. s = r
            BY <2>2, <4>1 DEF Retire
          <5> QED
            BY <4>1, <5>1
        <4>2. CASE Len(r.entries) = N - (i - 1)
          <5>1. N - (i - 1) - 1 = N - i
            BY <1>1
          <5> QED
            BY <3>2, <4>2, <5>1
        <4> QED
          BY <4>1, <4>2, <2>1
      <3> QED
        BY <3>1, <3>2, <2>3
    <2>6. Kept(i)
      BY <2>1, <2>3, <2>4, <2>5
    <2> QED
      BY <2>6
  <1>5. n \in T
    <2>1. T \in SUBSET (0..N)
      OBVIOUS
    <2> HIDE DEF T
    <2>2. T = 0..N
      BY <1>1, <1>3, <1>4, <2>1, IntervalInduction
    <2> QED
      BY <2>2 DEF N
  <1>6. Kept(n)
    BY <1>5
  <1>7. ASSUME n = N PROVE Gone(after[n].entries) = {}
    <2>1. CASE Len(after[n].entries) = N - n
      <3>1. after[n].entries \in Seq(Entry) /\ Len(after[n].entries) = 0
        BY <2>1, <1>1, <1>6, <1>7 DEF BridgeOK, EntriesMatch
      <3>2. DOMAIN after[n].entries = {}
        BY <3>1, LenProperties
      <3> QED
        BY <3>2 DEF Gone
    <2> QED
      BY <2>1, <1>6
  <1> QED
    BY <1>6, <1>7 DEF N, after

-----------------------------------------------------------------------------
(* The contacts of a world, what the game knows of them, and where its     *)
(* transforms are.                                                         *)

Known == [contact : Contacts, between : SUBSET Entities]

\* Entities of bodies are slots and generations.
LEMMA ContactsAreOfSlots == Contacts \subseteq SlotContacts
  BY WorldAssumption DEF Contacts, Bodies, SlotContacts

\* What the game knows is what the world remembers, of bodies that are alive or
\* gone for good.
KnowsBodies(r, K) ==
    /\ InSlotOrder(r.world.contacts)
    /\ K \subseteq Known
    /\ {k.contact : k \in K} = ToSet(r.world.contacts)
    /\ \A k \in K :
          /\ k.contact.first \in LiveBodies(r.world) \/ Spent(r.world, k.contact.first)
          /\ k.contact.second \in LiveBodies(r.world) \/ Spent(r.world, k.contact.second)
          /\ IsBody(r.world, k.contact.first) /\ IsBody(r.world, k.contact.second) =>
                k.between = {EntityOf(k.contact.first, r.entries), EntityOf(k.contact.second, r.entries)}

\* A body that is gone for good is not alive.
LEMMA SpentIsDead ==
    ASSUME NEW w, BodiesTyped(w), NEW b \in Bodies, Spent(w, b)
    PROVE  ~IsBody(w, b)
  <1>1. b.slot \in DOMAIN w.slots /\ b.generation \in Int /\ w.slots[b.slot].generation \in Int
    BY WorldParts, BodyParts DEF Spent
  <1> QED
    BY <1>1 DEF Spent, IsBody

\* The contacts outlive bodies that come and go between two steps.
LEMMA KnowsStays ==
    ASSUME NEW r, NEW s, NEW K, BridgeOK(r), BridgeOK(s), KnowsBodies(r, K), Outlives(r, s),
           s.world.contacts = r.world.contacts,
           \A b \in LiveBodies(r.world) \cap LiveBodies(s.world) :
              EntityOf(b, s.entries) = EntityOf(b, r.entries)
    PROVE  KnowsBodies(s, K)
  <1>1. BodiesTyped(r.world) /\ BodiesTyped(s.world)
    BY DEF BridgeOK, WorldOK
  <1>2. ASSUME NEW b \in Bodies, b \in LiveBodies(r.world) \/ Spent(r.world, b)
        PROVE  /\ b \in LiveBodies(s.world) \/ Spent(s.world, b)
               /\ IsBody(s.world, b) => IsBody(r.world, b) /\ EntityOf(b, s.entries) = EntityOf(b, r.entries)
    <2>1. b \in LiveBodies(s.world) \/ Spent(s.world, b)
      BY <1>2 DEF Outlives
    <2>2. IsBody(s.world, b) => b \in LiveBodies(s.world) /\ b \in LiveBodies(r.world)
      <3>1. Spent(r.world, b) => ~IsBody(s.world, b)
        BY <1>1, SpentIsDead DEF Outlives
      <3> QED
        BY <3>1, <1>1, <1>2, LiveBodiesAre
    <2> QED
      BY <2>1, <2>2, <1>1, LiveBodiesAre
  <1>3. \A k \in K : k.contact.first \in Bodies /\ k.contact.second \in Bodies
    BY DEF KnowsBodies, Known, Contacts
  <1>4. ASSUME NEW k \in K
        PROVE  /\ k.contact.first \in LiveBodies(s.world) \/ Spent(s.world, k.contact.first)
               /\ k.contact.second \in LiveBodies(s.world) \/ Spent(s.world, k.contact.second)
               /\ IsBody(s.world, k.contact.first) /\ IsBody(s.world, k.contact.second) =>
                     k.between = {EntityOf(k.contact.first, s.entries), EntityOf(k.contact.second, s.entries)}
    BY <1>2, <1>3 DEF KnowsBodies
  <1> QED
    BY <1>4 DEF KnowsBodies

\* Where entries go and their bodies with them, the game still knows the rest.
LEMMA RetiredKnows ==
    ASSUME NEW r, NEW s, BridgeOK(r), BridgeOK(s), KnowsBodies(r, touching), Outlives(r, s),
           s.world.contacts = r.world.contacts, ToSet(s.entries) \subseteq ToSet(r.entries)
    PROVE  KnowsBodies(s, touching)
  <1>1. EntriesMatch(r.world, r.entries) /\ EntriesMatch(s.world, s.entries)
    BY DEF BridgeOK
  <1>2. \A x \in LiveBodies(s.world) : EntityOf(x, s.entries) = EntityOf(x, r.entries)
    BY <1>1, EntitiesStay
  <1> QED
    BY <1>2, KnowsStays

\* A step that succeeds: the game is told of everything that changed.
LEMMA SteppedKnows ==
    ASSUME NEW r, BridgeOK(r), KnowsBodies(r, touching), NEW v, WorldOK(v),
           LiveBodies(v) = LiveBodies(r.world), \A b : IsBody(v, b) <=> IsBody(r.world, b),
           InSlotOrder(v.contacts),
           \A p \in ToSet(v.contacts) : p.first \in LiveBodies(v) /\ p.second \in LiveBodies(v)
    PROVE  LET s == [world |-> v, entries |-> r.entries] IN
           BridgeOK(s) /\ KnowsBodies(s, Told(touching, Transitions(r.world.contacts, v.contacts), r.entries))
  <1> DEFINE w == r.world
             C == v.contacts
             P == w.contacts
             E == Transitions(P, C)
             list == r.entries
             K == Told(touching, E, list)
             s == [world |-> v, entries |-> list]
  <1>1. /\ WorldOK(w) /\ BodiesTyped(w) /\ w \in WorldType /\ EntriesMatch(w, list)
        /\ InSlotOrder(P) /\ touching \subseteq Known /\ {k.contact : k \in touching} = ToSet(P)
        /\ \A k \in touching :
              IsBody(w, k.contact.first) /\ IsBody(w, k.contact.second) =>
                 k.between = {EntityOf(k.contact.first, list), EntityOf(k.contact.second, list)}
    BY DEF BridgeOK, WorldOK, BodiesTyped, KnowsBodies
  <1>2. /\ InSlotOrder(C) /\ C \in Seq(Contacts)
        /\ \A p \in ToSet(C) : p \in Contacts /\ p.first \in LiveBodies(w) /\ p.second \in LiveBodies(w)
    <2>1. C \in Seq(Contacts)
      BY WorldParts DEF WorldOK
    <2>2. \A i \in DOMAIN C : C[i] \in Contacts
      BY <2>1, LenProperties, ElementOfSeq
    <2> QED
      BY <2>1, <2>2 DEF ToSet
  <1>s. s.world = v /\ s.entries = list
    OBVIOUS
  <1>4. /\ E \in Seq(EventType)
        /\ \A p \in SlotContacts :
              /\ Event("Begin", p) \in ToSet(E) <=> p \in ToSet(C) \ ToSet(P)
              /\ Event("End", p) \in ToSet(E) <=> p \in ToSet(P) \ ToSet(C)
    BY <1>1, <1>2, TransitionsAre
  <1> HIDE DEF P, E, list, w, s, C
  <1>c. Contacts \subseteq SlotContacts /\ \A k \in touching : k.contact \in SlotContacts
    BY <1>1, ContactsAreOfSlots DEF Known
  <1>5. \A p \in SlotContacts : ~(Event("Begin", p) \in ToSet(E) /\ Event("End", p) \in ToSet(E))
    BY <1>4
  <1>6. \A k : k \in K <=>
                 \/ \E p \in SlotContacts : Event("Begin", p) \in ToSet(E) /\ k = Announced(p, list)
                 \/ k \in touching /\ Event("End", k.contact) \notin ToSet(E)
    BY <1>c, <1>4, <1>5, ToldIs
  <1> HIDE DEF K
  <1>7. LiveBodies(v) = LiveBodies(w) /\ WorldOK(v) /\ \A b : IsBody(v, b) <=> IsBody(w, b)
    BY DEF w
  <1>8. BridgeOK(s)
    BY <1>1, <1>7, <1>s DEF BridgeOK, EntriesMatch
  <1>9. ASSUME NEW p \in ToSet(C)
        PROVE  Announced(p, list) \in Known /\ Announced(p, list).contact = p
    <2>1. p.first \in LiveBodies(w) /\ p.second \in LiveBodies(w) /\ p \in Contacts
      BY <1>2
    <2>2. EntityOf(p.first, list) \in Entities /\ EntityOf(p.second, list) \in Entities
      BY <2>1, <1>1, EntitiesStay
    <2> QED
      BY <2>1, <2>2 DEF Announced, Known
  <1>10. ASSUME NEW k \in K
         PROVE  /\ k \in Known /\ k.contact \in ToSet(C)
                /\ IsBody(w, k.contact.first) /\ IsBody(w, k.contact.second) =>
                     k.between = {EntityOf(k.contact.first, list), EntityOf(k.contact.second, list)}
    <2>1. CASE \E p \in SlotContacts : Event("Begin", p) \in ToSet(E) /\ k = Announced(p, list)
      <3>1. PICK p \in Contacts : p \in ToSet(C) /\ k = Announced(p, list)
        BY <2>1, <1>2, <1>4
      <3>2. k.between = {EntityOf(p.first, list), EntityOf(p.second, list)}
        BY <3>1 DEF Announced
      <3> QED
        BY <3>1, <3>2, <1>9
    <2>2. CASE k \in touching /\ Event("End", k.contact) \notin ToSet(E)
      <3>1. k \in Known /\ k.contact \in ToSet(P) /\ k.contact \in Contacts
        BY <2>2, <1>1 DEF Known
      <3>2. k.contact \in ToSet(C)
        BY <2>2, <3>1, <1>4, <1>c
      <3> QED
        BY <2>2, <3>1, <3>2, <1>1
    <2> QED
      BY <2>1, <2>2, <1>6
  <1>11. ASSUME NEW p \in ToSet(C) PROVE \E k \in K : k.contact = p
    <2>1. p \in Contacts
      BY <1>2
    <2>2. CASE p \in ToSet(P)
      <3>1. PICK k \in touching : k.contact = p
        BY <2>2, <1>1
      <3>2. Event("End", k.contact) \notin ToSet(E)
        BY <2>1, <3>1, <1>4, <1>c
      <3> QED
        BY <3>1, <3>2, <1>6
    <2>3. CASE p \notin ToSet(P)
      <3>1. Event("Begin", p) \in ToSet(E)
        BY <2>1, <2>3, <1>4, <1>c
      <3> QED
        BY <2>1, <3>1, <1>c, <1>6, <1>9
    <2> QED
      BY <2>2, <2>3
  <1>12. {k.contact : k \in K} = ToSet(C)
    BY <1>10, <1>11
  <1>13. KnowsBodies(s, K)
    <2>1. s.world.contacts = C /\ s.world = v /\ s.entries = list
      BY <1>s DEF C
    <2>2. \A k \in K : k.contact.first \in LiveBodies(v) /\ k.contact.second \in LiveBodies(v)
      BY <1>2, <1>7, <1>10
    <2>3. \A k \in K :
            IsBody(v, k.contact.first) /\ IsBody(v, k.contact.second) =>
               k.between = {EntityOf(k.contact.first, list), EntityOf(k.contact.second, list)}
      BY <1>7, <1>10
    <2> QED
      BY <2>1, <2>2, <2>3, <1>2, <1>10, <1>12 DEF KnowsBodies
  <1> QED
    BY <1>8, <1>13 DEF s, w, list, K, E, P, C

\* Transforms are where the bodies are, but for those the game has set since.
Placed(r, places, changed) ==
    \A i \in DOMAIN r.entries :
        LET h == r.entries[i].entity IN
        h \in DOMAIN places \ changed => places[h] = BodyOf(r.world, r.entries[i].body).position

\* Where entries go, the others keep their places.
LEMMA PlacedStays ==
    ASSUME NEW r, NEW s, BridgeOK(r), BridgeOK(s), Outlives(r, s),
           ToSet(s.entries) \subseteq ToSet(r.entries), NEW places, NEW changed, Placed(r, places, changed)
    PROVE  Placed(s, places, changed)
  <1> SUFFICES ASSUME NEW i \in DOMAIN s.entries, s.entries[i].entity \in DOMAIN places \ changed
               PROVE  places[s.entries[i].entity] = BodyOf(s.world, s.entries[i].body).position
    BY DEF Placed
  <1>1. PICK j \in DOMAIN r.entries : s.entries[i] = r.entries[j]
    BY DEF ToSet
  <1>2. s.entries[i].body \in LiveBodies(s.world) /\ r.entries[j].body \in LiveBodies(r.world)
    BY DEF BridgeOK, EntriesMatch
  <1>3. BodyOf(s.world, s.entries[i].body) = BodyOf(r.world, r.entries[j].body)
    BY <1>1, <1>2 DEF Outlives
  <1>4. places[r.entries[j].entity] = BodyOf(r.world, r.entries[j].body).position
    BY <1>1 DEF Placed
  <1> QED
    BY <1>1, <1>3, <1>4

-----------------------------------------------------------------------------
(* One step of the bodies: their integration, and the pairs that meet.     *)

\* What is known of numbers in a definition.
LEMMA DefinitionParts ==
    ASSUME NEW d \in Definitions
    PROVE  /\ d.type \in BodyTypes /\ d.halfExtent \in Nat /\ d.mass \in Nat \ {0}
           /\ d.restitution \in Nat
  <1>1. /\ d \in [type : BodyTypes, halfExtent : 1..MaxNumber, mass : 1..MaxNumber,
                  restitution : 0..1, isTrigger : BOOLEAN,
                  layer : SUBSET Layers, mask : SUBSET Layers]
        /\ MaxNumber \in Nat
    BY WorldAssumption
  <1>2. d.type \in BodyTypes /\ d.halfExtent \in 1..MaxNumber /\ d.mass \in 1..MaxNumber /\ d.restitution \in 0..1
    BY <1>1
  <1> QED
    BY <1>1, <1>2

\* Quotients are integers.
LEMMA QuotientIsInteger ==
    ASSUME NEW x \in Int, NEW y \in Nat \ {0}
    PROVE  x \div y \in Int
  OBVIOUS

\* What is known of the numbers in a body.
LEMMA UnboundedParts ==
    ASSUME NEW x \in Unbounded
    PROVE  /\ x.definition \in Definitions /\ x.position \in Int /\ x.velocity \in Int /\ x.force \in Numbers
           /\ x.definition.type \in BodyTypes /\ x.definition.mass \in Nat \ {0} /\ x.definition.restitution \in Nat
           /\ Low(x) \in Int /\ High(x) \in Int /\ Low(x) <= High(x)
  <1>1. x.definition \in Definitions /\ x.position \in Int /\ x.velocity \in Int /\ x.force \in Numbers
    BY DEF Unbounded
  <1>2. x.definition.halfExtent \in Nat
    BY <1>1, DefinitionParts
  <1> QED
    BY <1>1, <1>2, DefinitionParts DEF Low, High

\* The integration moves a body, and nothing else.
LEMMA IntegratedIsBody ==
    ASSUME NEW x \in Body, NEW gravity \in Int
    PROVE  Integrated(x, gravity) \in Unbounded
  <1> DEFINE velocity == IF x.definition.type = "Dynamic"
                         THEN x.velocity + gravity + (x.force \div x.definition.mass) ELSE x.velocity
             position == IF x.definition.type = "Static" THEN x.position ELSE x.position + velocity
  <1>1. x \in Unbounded /\ x.force \in Int
    BY BodiesAreSomething, UnboundedParts
  <1>2. x.force \div x.definition.mass \in Int
    BY <1>1, UnboundedParts, QuotientIsInteger
  <1>3. x.velocity \in Int /\ x.position \in Int /\ x.definition \in Definitions
    BY <1>1, UnboundedParts
  <1>4. velocity \in Int
    BY <1>2, <1>3
  <1> HIDE DEF velocity
  <1>5. position \in Int
    BY <1>3, <1>4
  <1> HIDE DEF position
  <1>6. Integrated(x, gravity) = [x EXCEPT !.velocity = velocity, !.force = 0, !.position = position]
    BY <1>1 DEF Integrated, velocity, position, Unbounded
  <1> QED
    BY <1>1, <1>4, <1>5, <1>6, BodiesAreSomething DEF Unbounded

\* Shares are fractions.
LEMMA ShareParts ==
    ASSUME NEW d \in Definitions, NEW e \in Definitions
    PROVE  Share(d, e).of \in Nat /\ Share(d, e).over \in Nat \ {0}
  <1>1. d.mass \in Nat \ {0} /\ e.mass \in Nat \ {0}
    BY DefinitionParts
  <1>2. CASE d.type # "Dynamic"
    BY <1>2 DEF Share
  <1>3. CASE d.type = "Dynamic" /\ e.type # "Dynamic"
    BY <1>3 DEF Share
  <1>4. CASE d.type = "Dynamic" /\ e.type = "Dynamic"
    <2>1. Share(d, e) = [of |-> e.mass, over |-> d.mass + e.mass]
      BY <1>4 DEF Share
    <2> QED
      BY <2>1, <1>1
  <1> QED
    BY <1>2, <1>3, <1>4

\* A body that is pushed is a body.
LEMMA PushedIsBody ==
    ASSUME NEW x \in Unbounded, NEW d \in Definitions, NEW e \in Definitions,
           NEW away \in Int, NEW depth \in Int, NEW closing \in Int
    PROVE  Pushed(x, Share(d, e), away, depth, closing) \in Unbounded
  <1> DEFINE share == Share(d, e)
  <1>1. share.of \in Int /\ share.over \in Nat \ {0}
    BY ShareParts
  <1> HIDE DEF share
  <1>2. \A n \in Int : n * share.of \in Int
    BY <1>1
  <1>3. Part(depth, share) \in Int /\ Part(closing, share) \in Int
    BY <1>1, <1>2, QuotientIsInteger DEF Part
  <1>4. away * Part(depth, share) \in Int /\ away * Part(closing, share) \in Int
    BY <1>3
  <1>5. x.position \in Int /\ x.velocity \in Int
    BY UnboundedParts
  <1>6. Pushed(x, share, away, depth, closing) =
          [x EXCEPT !.position = x.position + away * Part(depth, share),
                    !.velocity = x.velocity + away * Part(closing, share)]
    BY DEF Pushed, Unbounded
  <1>7. /\ x.position + away * Part(depth, share) \in Int
        /\ x.velocity + away * Part(closing, share) \in Int
    BY <1>4, <1>5
  <1>8. \A m, n \in Int : [x EXCEPT !.position = m, !.velocity = n] \in Unbounded
    BY DEF Unbounded
  <1>9. Pushed(x, share, away, depth, closing) \in Unbounded
    BY <1>6, <1>7, <1>8
  <1> QED
    BY <1>9 DEF share

\* What a collision computes is a number.
LEMMA PairParts ==
    ASSUME NEW a \in Unbounded, NEW b \in Unbounded
    PROVE  Depth(a, b) \in Int /\ Normal(a, b) \in Int /\ -Normal(a, b) \in Int /\ Closing(a, b) \in Int
  <1>1. Low(a) \in Int /\ High(a) \in Int /\ Low(b) \in Int /\ High(b) \in Int
    BY UnboundedParts
  <1>2. Depth(a, b) \in Int
    BY <1>1 DEF Depth, MinOf, MaxOf
  <1>3. Normal(a, b) \in Int /\ -Normal(a, b) \in Int
    BY DEF Normal
  <1>4. a.velocity \in Int /\ b.velocity \in Int /\ a.definition.restitution \in Int /\ b.definition.restitution \in Int
    BY UnboundedParts
  <1> DEFINE relative == (b.velocity - a.velocity) * Normal(a, b)
             factor == 1 + MinOf(a.definition.restitution, b.definition.restitution)
  <1>5. relative \in Int /\ factor \in Int
    <2>1. b.velocity - a.velocity \in Int
      BY <1>4
    <2>2. MinOf(a.definition.restitution, b.definition.restitution) \in Int
      BY <1>4 DEF MinOf
    <2> HIDE DEF Normal
    <2> QED
      BY <2>1, <2>2, <1>3
  <1>6. Closing(a, b) = IF relative < 0 THEN -(factor * relative) ELSE 0
    BY DEF Closing
  <1> HIDE DEF relative, factor
  <1>7. factor * relative \in Int /\ -(factor * relative) \in Int
    BY <1>5
  <1> QED
    BY <1>2, <1>3, <1>6, <1>7

\* What the pairs of a step work on.
WorkType == [bodies : Seq(Unbounded \cup {Nothing}), contacts : Seq(Nat \X Nat),
             outcome : {"ok", "failed", "inexact"}]

\* The collisions so far have moved the bodies B and found pairs.
SameBodies(B, s) ==
    /\ s \in WorkType /\ Len(s.bodies) = Len(B)
    /\ \A k \in 1..Len(B) : s.bodies[k] = Nothing <=> B[k] = Nothing

\* A response moves two bodies.
LEMMA RespondedKeeps ==
    ASSUME NEW B, NEW s, SameBodies(B, s), Len(B) \in Nat, NEW i \in 1..Len(B), NEW j \in 1..Len(B), i # j,
           s.bodies[i] # Nothing, s.bodies[j] # Nothing
    PROVE  LET t == Responded(s, i, j) IN SameBodies(B, t) /\ t.contacts = s.contacts
  <1> DEFINE a == s.bodies[i]
             b == s.bodies[j]
             shares == <<Share(a.definition, b.definition), Share(b.definition, a.definition)>>
             x == Pushed(a, shares[1], -Normal(a, b), Depth(a, b), Closing(a, b))
             y == Pushed(b, shares[2], Normal(a, b), Depth(a, b), Closing(a, b))
             outcome == IF \A n \in {Depth(a, b), Closing(a, b)}, k \in 1..2 : Divides(shares[k], n)
                        THEN "ok" ELSE "inexact"
             S == Unbounded \cup {Nothing}
             one == [s.bodies EXCEPT ![i] = x]
             two == [one EXCEPT ![j] = y]
             t == Responded(s, i, j)
  <1>1. /\ s \in WorkType /\ s.bodies \in Seq(S) /\ Len(s.bodies) = Len(B) /\ s.contacts \in Seq(Nat \X Nat)
        /\ \A k \in 1..Len(B) : s.bodies[k] = Nothing <=> B[k] = Nothing
    BY DEF SameBodies, WorkType
  <1>2. a \in Unbounded /\ b \in Unbounded
    BY <1>1, ElementOfSeq
  <1>3. x \in Unbounded /\ y \in Unbounded
    <2>1. a.definition \in Definitions /\ b.definition \in Definitions
      BY <1>2, UnboundedParts
    <2>2. shares[1] = Share(a.definition, b.definition) /\ shares[2] = Share(b.definition, a.definition)
      OBVIOUS
    <2> HIDE DEF a, b, shares
    <2> QED
      BY <1>2, <2>1, <2>2, PairParts, PushedIsBody
  <1>4. outcome \in {"ok", "inexact"}
    OBVIOUS
  <1>5. t = [s EXCEPT !.bodies = two, !.outcome = outcome]
    <2>1. t = [s EXCEPT !.bodies[i] = x, !.bodies[j] = y, !.outcome = outcome]
      BY DEF Responded
    <2> HIDE DEF x, y, outcome, t
    <2> QED
      BY <2>1, <1>1 DEF WorkType
  <1> HIDE DEF x, y, outcome, t, a, b, shares
  <1>6. one \in Seq(S) /\ Len(one) = Len(B) /\ \A k \in 1..Len(B) : one[k] = IF k = i THEN x ELSE s.bodies[k]
    BY <1>1, <1>3, ExceptSeq
  <1> HIDE DEF one
  <1>7. two \in Seq(S) /\ Len(two) = Len(B) /\ \A k \in 1..Len(B) : two[k] = IF k = j THEN y ELSE one[k]
    BY <1>6, <1>3, ExceptSeq
  <1> HIDE DEF two
  <1>8. t \in WorkType /\ t.bodies = two /\ t.contacts = s.contacts
    BY <1>1, <1>4, <1>5, <1>7 DEF WorkType, S
  <1>9. \A k \in 1..Len(B) : two[k] = Nothing <=> B[k] = Nothing
    <2>1. x # Nothing /\ y # Nothing
      BY <1>3, BodiesAreSomething
    <2> QED
      BY <2>1, <1>1, <1>6, <1>7
  <1> QED
    BY <1>7, <1>8, <1>9 DEF SameBodies, t


\* Pairs in the order in which they are met.
PairLess(p, q) == p[1] < q[1] \/ (p[1] = q[1] /\ p[2] < q[2])

\* One pair: the bodies stay who they are, and it is noted if they touch.
LEMMA ResolvedTyped ==
    ASSUME NEW B, NEW s, SameBodies(B, s), Len(B) \in Nat, NEW i \in 1..Len(B), NEW j \in 1..Len(B), i # j
    PROVE  LET t == Resolved(s, i, j) IN
           /\ SameBodies(B, t)
           /\ \/ t.contacts = s.contacts
              \/ /\ t.contacts = Append(s.contacts, <<i, j>>) /\ Len(s.contacts) < MaxContacts
                 /\ B[i] # Nothing /\ B[j] # Nothing
  <1> DEFINE a == s.bodies[i]
             b == s.bodies[j]
             met == [s EXCEPT !.contacts = Append(@, <<i, j>>)]
             failed == [s EXCEPT !.outcome = "failed"]
             t == Resolved(s, i, j)
  <1>1. /\ s \in WorkType /\ s.bodies \in Seq(Unbounded \cup {Nothing}) /\ Len(s.bodies) = Len(B)
        /\ s.contacts \in Seq(Nat \X Nat) /\ s.outcome \in {"ok", "failed", "inexact"}
        /\ \A k \in 1..Len(B) : s.bodies[k] = Nothing <=> B[k] = Nothing
    BY DEF SameBodies, WorkType
  <1>2. SameBodies(B, failed) /\ failed.contacts = s.contacts
    BY <1>1 DEF SameBodies, WorkType
  <1>3. SameBodies(B, met) /\ met.contacts = Append(s.contacts, <<i, j>>) /\ met.bodies = s.bodies
    <2>1. <<i, j>> \in Nat \X Nat
      OBVIOUS
    <2>2. Append(s.contacts, <<i, j>>) \in Seq(Nat \X Nat)
      BY <1>1, <2>1, AppendProperties
    <2> DEFINE more == Append(s.contacts, <<i, j>>)
    <2> HIDE DEF more
    <2>3. more \in Seq(Nat \X Nat)
      BY <2>2 DEF more
    <2>4. met = [s EXCEPT !.contacts = more]
      BY DEF more
    <2> HIDE DEF met
    <2>5. met.contacts = more /\ met.bodies = s.bodies /\ met \in WorkType
      BY <1>1, <2>3, <2>4 DEF WorkType
    <2> QED
      BY <1>1, <2>5 DEF SameBodies, more
  <1>4. \/ t = s
        \/ t = failed
        \/ Len(s.contacts) < MaxContacts /\ a # Nothing /\ b # Nothing /\ t = met
        \/ Len(s.contacts) < MaxContacts /\ a # Nothing /\ b # Nothing /\ t = Responded(met, i, j)
    <2>1. Len(s.contacts) \in Nat /\ MaxContacts \in Nat
      BY <1>1, LenProperties, WorldAssumption
    <2>2. t = IF s.outcome # "ok" \/ a = Nothing \/ b = Nothing THEN s
              ELSE IF ~IsBounded(a) THEN failed
              ELSE IF Filtered(a.definition, b.definition) THEN s
              ELSE IF ~IsBounded(b) \/ ~IsFinite(Depth(a, b)) THEN failed
              ELSE IF Depth(a, b) < 0 THEN s
              ELSE IF Len(s.contacts) >= MaxContacts THEN failed
              ELSE IF IsTriggerPair(a, b) THEN met
              ELSE Responded(met, i, j)
      BY DEF Resolved
    <2> HIDE DEF met, failed, t, a, b
    <2> QED
      BY <2>1, <2>2
  <1>5. a # Nothing /\ b # Nothing => B[i] # Nothing /\ B[j] # Nothing
    BY <1>1
  <1>6. CASE t = s \/ t = failed
    BY <1>2, <1>6
  <1>7. CASE Len(s.contacts) < MaxContacts /\ a # Nothing /\ b # Nothing /\ t = met
    BY <1>3, <1>5, <1>7
  <1>8. CASE Len(s.contacts) < MaxContacts /\ a # Nothing /\ b # Nothing /\ t = Responded(met, i, j)
    <2> HIDE DEF met, t
    <2>1. SameBodies(B, Responded(met, i, j)) /\ Responded(met, i, j).contacts = met.contacts
      BY <1>3, <1>8, RespondedKeeps
    <2> QED
      BY <2>1, <1>3, <1>5, <1>8 DEF t
  <1> QED
    BY <1>4, <1>6, <1>7, <1>8

\* The pairs found so far: of bodies, in order and within the limit.
FoundPairs(B, c) ==
    /\ c \in Seq(Nat \X Nat) /\ Len(c) <= MaxContacts
    /\ \A p \in ToSet(c) : /\ p[1] \in 1..Len(B) /\ p[2] \in 1..Len(B) /\ p[1] < p[2]
                           /\ B[p[1]] # Nothing /\ B[p[2]] # Nothing
    /\ \A m, n \in DOMAIN c : m < n => PairLess(c[m], c[n])

\* The two together.
Working(B, s) == SameBodies(B, s) /\ FoundPairs(B, s.contacts)

\* The pairs found so far are no later than the j-th of row i.
UpTo(s, i, j) == \A p \in ToSet(s.contacts) : p[1] < i \/ (p[1] = i /\ p[2] <= j)

\* One pair after the others.
LEMMA ResolvedKeeps ==
    ASSUME NEW B, NEW s, Len(B) \in Nat, NEW i \in 1..Len(B), NEW j \in (i + 1)..Len(B),
           Working(B, s), UpTo(s, i, j - 1)
    PROVE  LET t == Resolved(s, i, j) IN Working(B, t) /\ UpTo(t, i, j)
  <1> DEFINE t == Resolved(s, i, j)
             c == s.contacts
             p == <<i, j>>
             d == Append(c, p)
  <1>1. i \in Nat /\ j \in Nat /\ i < j /\ j \in 1..Len(B) /\ i # j
    OBVIOUS
  <1>2. /\ SameBodies(B, t)
        /\ \/ t.contacts = c
           \/ t.contacts = d /\ Len(c) < MaxContacts /\ B[i] # Nothing /\ B[j] # Nothing
    BY <1>1, ResolvedTyped DEF Working
  <1> HIDE DEF t
  <1>3. /\ c \in Seq(Nat \X Nat) /\ Len(c) \in Nat /\ DOMAIN c = 1..Len(c)
        /\ \A q \in ToSet(c) : /\ q[1] \in Nat /\ q[2] \in Nat /\ q[1] \in 1..Len(B)
                               /\ q[1] < i \/ (q[1] = i /\ q[2] <= j - 1)
        /\ \A n \in DOMAIN c : c[n] \in ToSet(c)
    <2>1. c \in Seq(Nat \X Nat)
      BY DEF Working, FoundPairs
    <2>2. Len(c) \in Nat /\ DOMAIN c = 1..Len(c)
      BY <2>1, LenProperties
    <2>3. \A n \in DOMAIN c : c[n] \in ToSet(c)
      BY DEF ToSet
    <2>4. \A q \in ToSet(c) : q \in Nat \X Nat /\ q[1] \in 1..Len(B)
      BY <2>1 DEF ToSet, Working, FoundPairs
    <2>5. \A q \in ToSet(c) : q[1] < i \/ (q[1] = i /\ q[2] <= j - 1)
      BY DEF UpTo
    <2> HIDE DEF c
    <2> QED
      BY <2>1, <2>2, <2>3, <2>4, <2>5
  <1>4. CASE t.contacts = c
    <2>1. UpTo(t, i, j)
      BY <1>1, <1>3, <1>4 DEF UpTo
    <2> QED
      BY <2>1, <1>2, <1>4 DEF Working, t
  <1>5. CASE t.contacts = d /\ Len(c) < MaxContacts /\ B[i] # Nothing /\ B[j] # Nothing
    <2>1. p \in Nat \X Nat /\ p[1] = i /\ p[2] = j
      BY <1>1
    <2> HIDE DEF p
    <2>2. /\ d \in Seq(Nat \X Nat) /\ Len(d) = Len(c) + 1 /\ d[Len(c) + 1] = p
          /\ \A n \in 1..Len(c) : d[n] = c[n]
      BY <1>3, <2>1, AppendProperties
    <2>3. DOMAIN d = 1..(Len(c) + 1)
      BY <2>2, LenProperties
    <2>4. ToSet(d) = ToSet(c) \cup {p}
      <3> DEFINE T == Nat \X Nat
      <3> HIDE DEF T
      <3>1. c \in Seq(T) /\ p \in T
        BY <1>3, <2>1 DEF T
      <3> QED
        BY <3>1, AppendToSet
    <2> HIDE DEF d
    <2>5. \A q \in ToSet(c) : PairLess(q, p)
      BY <1>1, <1>3, <2>1 DEF PairLess
    <2>6. \A m, n \in DOMAIN d : m < n => PairLess(d[m], d[n])
      <3> SUFFICES ASSUME NEW m \in DOMAIN d, NEW n \in DOMAIN d, m < n PROVE PairLess(d[m], d[n])
        OBVIOUS
      <3> DEFINE L == Len(c)
      <3>0. L \in Nat /\ m \in 1..(L + 1) /\ n \in 1..(L + 1) /\ DOMAIN c = 1..L
        BY <1>3, <2>3
      <3>1. m \in 1..Len(c) /\ d[m] = c[m] /\ c[m] \in ToSet(c)
        <4> HIDE DEF L
        <4>1. m \in 1..L
          BY <3>0
        <4> QED
          BY <4>1, <3>0, <1>3, <2>2 DEF L
      <3>2. CASE n = Len(c) + 1
        BY <3>1, <3>2, <2>2, <2>5
      <3>3. CASE n # Len(c) + 1
        <4>1. n \in 1..Len(c) /\ d[n] = c[n]
          <5> HIDE DEF L
          <5>1. n # L + 1
            BY <3>3 DEF L
          <5>2. n \in 1..L
            BY <5>1, <3>0
          <5> QED
            BY <5>2, <2>2 DEF L
        <4> QED
          BY <3>1, <4>1, <1>3 DEF Working, FoundPairs
      <3> QED
        BY <3>2, <3>3
    <2>7. MaxContacts \in Nat
      BY WorldAssumption
    <2>8. FoundPairs(B, d)
      BY <1>1, <1>3, <1>5, <2>1, <2>2, <2>4, <2>6, <2>7 DEF Working, FoundPairs
    <2>9. UpTo(t, i, j)
      BY <1>1, <1>3, <1>5, <2>1, <2>4 DEF UpTo
    <2> QED
      BY <1>2, <1>5, <2>8, <2>9 DEF Working, t
  <1> QED
    BY <1>2, <1>4, <1>5


\* A loop from its start.
IsLoop(f, S, a, N, step) ==
    f \in [0..N -> S] /\ f[0] = a /\ \A n \in 1..N : f[n] = step[n][f[n - 1]]

\* Such a loop exists.
LEMMA LoopsExist ==
    ASSUME NEW S, NEW a \in S, NEW N \in Nat, NEW step \in [1..N -> [S -> S]]
    PROVE  \E f : IsLoop(f, S, a, N, step)
  BY LoopExists DEF IsLoop

\* A loop from i to N, and what it goes through.
IsRow(f, S, a, i, N, step) ==
    f \in [i..N -> S] /\ f[i] = a /\ \A j \in (i + 1)..N : f[j] = step[j][f[j - 1]]

\* A loop may start at any number.
LEMMA RowExists ==
    ASSUME NEW S, NEW a \in S, NEW i \in Nat, NEW N \in Nat, i <= N, NEW step \in [(i + 1)..N -> [S -> S]]
    PROVE  \E f : IsRow(f, S, a, i, N, step)
  <1> DEFINE M == N - i
             later == [n \in 1..M |-> step[i + n]]
  <1>1. M \in Nat /\ \A n \in 1..M : i + n \in (i + 1)..N
    OBVIOUS
  <1>2. later \in [1..M -> [S -> S]] /\ \A n \in 1..M : later[n] = step[i + n]
    BY <1>1
  <1>m. \A j \in i..N : j - i \in 0..M
    OBVIOUS
  <1>n. \A j \in (i + 1)..N : /\ j - i \in 1..M /\ i + (j - i) = j /\ j - 1 \in i..N /\ j \in i..N
                              /\ (j - 1) - i = (j - i) - 1
    OBVIOUS
  <1>o. i \in i..N /\ i - i = 0
    OBVIOUS
  <1> HIDE DEF M, later
  <1>3. PICK g \in [0..M -> S] : g[0] = a /\ \A n \in 1..M : g[n] = later[n][g[n - 1]]
    <2>1. M \in Nat /\ later \in [1..M -> [S -> S]]
      BY <1>1, <1>2
    <2> QED
      BY <2>1, LoopExists, SMTT(60)
  <1> DEFINE f == [j \in i..N |-> g[j - i]]
  <1>4. f \in [i..N -> S] /\ \A j \in i..N : f[j] = g[j - i]
    BY <1>3, <1>m
  <1>5. f[i] = a
    BY <1>3, <1>4, <1>o
  <1>6. ASSUME NEW j \in (i + 1)..N PROVE f[j] = step[j][f[j - 1]]
    <2>1. f[j] = g[j - i] /\ f[j - 1] = g[(j - i) - 1]
      BY <1>4, <1>n
    <2>2. g[j - i] = later[j - i][g[(j - i) - 1]] /\ later[j - i] = step[j]
      BY <1>2, <1>3, <1>n
    <2> QED
      BY <2>1, <2>2
  <1> HIDE DEF f
  <1> QED
    BY <1>4, <1>5, <1>6 DEF IsRow

\* What the loops over pairs range over.
Moving(B) == {s \in WorkType : SameBodies(B, s)}

\* The inner loop runs.
LEMMA AgainstRuns ==
    ASSUME NEW B, Len(B) \in Nat, NEW i \in 1..Len(B), NEW s \in Moving(B)
    PROVE  \E f \in [i..Len(B) -> Moving(B)] :
              /\ f[i] = s /\ \A j \in (i + 1)..Len(B) : f[j] = Resolved(f[j - 1], i, j)
              /\ Against(s, i, Len(B)) = f[Len(B)]
  <1> DEFINE N == Len(B)
             S == Moving(B)
             step == [j \in (i + 1)..N |-> [t \in S |-> Resolved(t, i, j)]]
             Runs(f) == f = [j \in i..N |-> IF j = i THEN s ELSE Resolved(f[j - 1], i, j)]
             inner == CHOOSE f : Runs(f)
  <1>1. N \in Nat /\ i \in Nat /\ i <= N /\ i \in 1..N
    OBVIOUS
  <1>2. ASSUME NEW j \in (i + 1)..N, NEW t \in S PROVE Resolved(t, i, j) \in S
    <2>1. j \in 1..N /\ i # j
      BY <1>1
    <2>2. SameBodies(B, Resolved(t, i, j))
      BY <1>1, <2>1, ResolvedTyped DEF Moving
    <2> QED
      BY <2>2 DEF Moving, SameBodies
  <1>3. step \in [(i + 1)..N -> [S -> S]]
    BY <1>2
  <1>4. \A j \in (i + 1)..N : \A t \in S : step[j][t] = Resolved(t, i, j)
    OBVIOUS
  <1>5. s \in S
    OBVIOUS
  <1>n. \A j \in i..N : j # i => j \in (i + 1)..N /\ j - 1 \in i..N
    BY <1>1
  <1>o. i \in i..N /\ N \in i..N /\ \A j \in (i + 1)..N : j \in i..N /\ j # i
    BY <1>1
  <1>a. Against(s, i, N) = inner[N]
    BY DEF Against
  <1> HIDE DEF S, step, N
  <1>6. PICK f \in [i..N -> S] : f[i] = s /\ \A j \in (i + 1)..N : f[j] = step[j][f[j - 1]]
    <2>1. N \in Nat /\ i \in Nat /\ i <= N /\ s \in S /\ step \in [(i + 1)..N -> [S -> S]]
      BY <1>1, <1>3, <1>5
    <2>2. \E f : IsRow(f, S, s, i, N, step)
      BY <2>1, RowExists
    <2> QED
      BY <2>2 DEF IsRow
  <1>7. \A j \in i..N : f[j] = IF j = i THEN s ELSE Resolved(f[j - 1], i, j)
    BY <1>4, <1>6, <1>n
  <1>f. f = [j \in i..N |-> f[j]]
    BY <1>6
  <1>8. Runs(f)
    BY <1>f, <1>7
  <1>9. Runs(inner)
    BY <1>8
  <1>10. /\ DOMAIN inner = i..N
         /\ \A j \in i..N : inner[j] = IF j = i THEN s ELSE Resolved(inner[j - 1], i, j)
    BY <1>9
  <1> DEFINE T == {k \in 0..(N - i) : inner[i + k] = f[i + k]}
  <1>k. \A k \in 0..(N - i) : i + k \in i..N
    BY <1>1
  <1>l. \A k \in 1..(N - i) : i + k \in i..N /\ i + k # i /\ (i + k) - 1 = i + (k - 1) /\ k \in 0..(N - i)
    BY <1>1
  <1> HIDE DEF inner
  <1>11. T = 0..(N - i)
    <2>1. 0 \in T
      BY <1>1, <1>6, <1>10, <1>o
    <2>2. ASSUME NEW k \in 1..(N - i), k - 1 \in T PROVE k \in T
      <3>1. inner[i + k] = Resolved(inner[i + (k - 1)], i, i + k)
        BY <1>10, <1>l
      <3>2. f[i + k] = Resolved(f[i + (k - 1)], i, i + k)
        BY <1>7, <1>l
      <3> QED
        BY <2>2, <3>1, <3>2, <1>l
    <2>3. T \in SUBSET (0..(N - i)) /\ N - i \in Nat
      BY <1>1
    <2> HIDE DEF T
    <2> QED
      BY <2>1, <2>2, <2>3, IntervalInduction
  <1>12. inner[N] = f[N]
    <2>1. N - i \in 0..(N - i) /\ i + (N - i) = N
      BY <1>1
    <2> QED
      BY <2>1, <1>11
  <1>13. \A j \in (i + 1)..N : f[j] = Resolved(f[j - 1], i, j)
    BY <1>7, <1>o
  <1> QED
    BY <1>6, <1>12, <1>13, <1>a DEF S, N

\* One row of pairs.
LEMMA AgainstKeeps ==
    ASSUME NEW B, Len(B) \in Nat, NEW i \in 1..Len(B), NEW s, Working(B, s), UpTo(s, i - 1, Len(B))
    PROVE  LET t == Against(s, i, Len(B)) IN Working(B, t) /\ UpTo(t, i, Len(B))
  <1> DEFINE N == Len(B)
  <1>1. s \in Moving(B)
    BY DEF Working, SameBodies, Moving
  <1>2. PICK f \in [i..N -> Moving(B)] :
              /\ f[i] = s /\ \A j \in (i + 1)..N : f[j] = Resolved(f[j - 1], i, j)
              /\ Against(s, i, N) = f[N]
    BY <1>1, AgainstRuns
  <1> DEFINE T == {k \in 0..(N - i) : Working(B, f[i + k]) /\ UpTo(f[i + k], i, i + k)}
  <1>3. 0 \in T
    <2>1. \A p \in ToSet(s.contacts) : p[1] \in 1..N /\ p[2] \in 1..N
      BY DEF Working, FoundPairs
    <2>2. UpTo(s, i, i)
      BY <2>1 DEF UpTo
    <2>3. i + 0 = i /\ 0 \in 0..(N - i)
      OBVIOUS
    <2> QED
      BY <1>2, <2>2, <2>3
  <1>4. ASSUME NEW k \in 1..(N - i), k - 1 \in T PROVE k \in T
    <2>1. i + k \in (i + 1)..N /\ (i + k) - 1 = i + (k - 1) /\ k \in 0..(N - i)
      OBVIOUS
    <2> DEFINE j == i + k
    <2>2. f[j] = Resolved(f[j - 1], i, j) /\ j \in (i + 1)..N
      BY <1>2, <2>1
    <2>3. Working(B, f[j - 1]) /\ UpTo(f[j - 1], i, j - 1)
      BY <1>4, <2>1
    <2> HIDE DEF j
    <2>4. Working(B, f[j]) /\ UpTo(f[j], i, j)
      BY <2>2, <2>3, ResolvedKeeps
    <2> QED
      BY <2>1, <2>4 DEF j
  <1>5. T = 0..(N - i)
    <2>1. T \in SUBSET (0..(N - i)) /\ N - i \in Nat
      OBVIOUS
    <2> HIDE DEF T
    <2> QED
      BY <2>1, <1>3, <1>4, IntervalInduction
  <1>6. N - i \in T /\ i + (N - i) = N
    BY <1>5
  <1> QED
    BY <1>2, <1>6

\* All rows.
LEMMA CollidedKeeps ==
    ASSUME NEW B \in Seq(Unbounded \cup {Nothing})
    PROVE  Working(B, Collided(B))
  <1> DEFINE N == Len(B)
             S == Moving(B)
             start == Unresolved(B)
             step == [i \in 1..N |-> [s \in S |-> Against(s, i, N)]]
             Runs(f) == f = [i \in 0..N |-> IF i = 0 THEN start ELSE Against(f[i - 1], i, N)]
             outer == CHOOSE f : Runs(f)
  <1>1. N \in Nat
    BY LenProperties
  <1>2. Working(B, start) /\ start \in S /\ UpTo(start, 0, N)
    <2>1. start.bodies = B /\ start.contacts = <<>> /\ start \in WorkType
      BY EmptySeq DEF Unresolved, WorkType
    <2>2. ToSet(<<>>) = {} /\ DOMAIN <<>> = {} /\ Len(<<>>) = 0 /\ <<>> \in Seq(Nat \X Nat)
      BY EmptySeq DEF ToSet
    <2>3. MaxContacts \in Nat
      BY WorldAssumption
    <2> QED
      BY <2>1, <2>2, <2>3 DEF Working, SameBodies, FoundPairs, UpTo, Moving
  <1>3. ASSUME NEW i \in 1..N, NEW s \in S PROVE Against(s, i, N) \in S
    <2>1. PICK f \in [i..N -> S] : Against(s, i, N) = f[N]
      BY <1>1, AgainstRuns
    <2>2. N \in i..N
      BY <1>1
    <2> QED
      BY <2>1, <2>2
  <1>4. step \in [1..N -> [S -> S]]
    BY <1>3
  <1>5. \A i \in 1..N : \A s \in S : step[i][s] = Against(s, i, N)
    OBVIOUS
  <1>a. Collided(B) = outer[N]
    BY DEF Collided
  <1> HIDE DEF S, step, N, start
  <1>6. PICK f \in [0..N -> S] : f[0] = start /\ \A i \in 1..N : f[i] = step[i][f[i - 1]]
    BY <1>1, <1>2, <1>4, LoopExists
  <1>7. \A i \in 0..N : f[i] = IF i = 0 THEN start ELSE Against(f[i - 1], i, N)
    <2> SUFFICES ASSUME NEW i \in 0..N, i # 0 PROVE f[i] = Against(f[i - 1], i, N)
      BY <1>6
    <2>1. i \in 1..N /\ i - 1 \in 0..N
      BY <1>1
    <2> QED
      BY <2>1, <1>5, <1>6
  <1>f. f = [i \in 0..N |-> f[i]]
    BY <1>6
  <1>8. Runs(f)
    BY <1>f, <1>7
  <1>9. Runs(outer)
    BY <1>8
  <1>10. \A i \in 0..N : outer[i] = IF i = 0 THEN start ELSE Against(outer[i - 1], i, N)
    BY <1>9
  <1> HIDE DEF outer
  <1> DEFINE T == {i \in 0..N : Working(B, outer[i]) /\ UpTo(outer[i], i, N)}
  <1>11. 0 \in T
    BY <1>1, <1>2, <1>10
  <1>12. ASSUME NEW i \in 1..N, i - 1 \in T PROVE i \in T
    <2>1. i \in 0..N /\ i # 0
      BY <1>1
    <2>2. outer[i] = Against(outer[i - 1], i, N)
      BY <1>10, <2>1
    <2>3. Working(B, outer[i - 1]) /\ UpTo(outer[i - 1], i - 1, N)
      BY <1>12
    <2>4. Working(B, outer[i]) /\ UpTo(outer[i], i, N)
      BY <2>2, <2>3, <1>1, AgainstKeeps DEF N
    <2> QED
      BY <2>1, <2>4
  <1>13. T = 0..N
    <2>1. T \in SUBSET (0..N)
      OBVIOUS
    <2> HIDE DEF T
    <2> QED
      BY <2>1, <1>1, <1>11, <1>12, IntervalInduction
  <1>14. N \in T
    BY <1>1, <1>13
  <1> QED
    BY <1>14, <1>a


\* A function on the first numbers is a sequence.
LEMMA FunctionIsSeq ==
    ASSUME NEW S, NEW n \in Nat, NEW f \in [1..n -> S]
    PROVE  f \in Seq(S) /\ Len(f) = n
  <1>1. f \in Seq(S)
    BY SeqDef
  <1>2. Len(f) \in Nat /\ DOMAIN f = 1..Len(f) /\ DOMAIN f = 1..n
    BY <1>1, LenProperties
  <1> DEFINE m == Len(f)
  <1> HIDE DEF m
  <1>3. m \in Nat /\ 1..m = 1..n
    BY <1>2 DEF m
  <1>4. m <= n
    <2>1. m # 0 => m \in 1..n
      BY <1>3
    <2> QED
      BY <2>1, <1>3
  <1>5. n <= m
    <2>1. n # 0 => n \in 1..m
      BY <1>3
    <2> QED
      BY <2>1, <1>3
  <1>6. m = n
    BY <1>3, <1>4, <1>5
  <1> QED
    BY <1>1, <1>6 DEF m

\* The integration moves the bodies that there are.
LEMMA IntegrationIs ==
    ASSUME NEW w, BodiesTyped(w), NEW gravity \in Int
    PROVE  LET B == Integration(w, gravity) IN
           /\ B \in Seq(Unbounded \cup {Nothing}) /\ Len(B) = Len(w.slots)
           /\ \A i \in DOMAIN w.slots : B[i] = Nothing <=> w.slots[i].body = Nothing
  <1> DEFINE B == Integration(w, gravity)
             N == Len(w.slots)
             S == Unbounded \cup {Nothing}
  <1>1. N \in Nat /\ DOMAIN w.slots = 1..N
    BY WorldParts
  <1>2. ASSUME NEW i \in DOMAIN w.slots
        PROVE  /\ i \in Alive(w) => B[i] \in Unbounded
               /\ i \notin Alive(w) => B[i] = Nothing
    <2>1. i \in Alive(w) => w.slots[i].body \in Body
      BY WorldParts
    <2>2. i \in Alive(w) => Integrated(w.slots[i].body, gravity) \in Unbounded
      BY <2>1, IntegratedIsBody
    <2> QED
      BY <2>2 DEF Integration
  <1>3. B = [i \in 1..N |-> B[i]]
    BY <1>1 DEF Integration
  <1> HIDE DEF B, N
  <1>4. \A i \in 1..N : B[i] \in S
    BY <1>1, <1>2
  <1>5. B \in [1..N -> S]
    BY <1>3, <1>4
  <1>6. B \in Seq(S) /\ Len(B) = N
    BY <1>1, <1>5, FunctionIsSeq
  <1>7. \A i \in DOMAIN w.slots : B[i] = Nothing <=> w.slots[i].body = Nothing
    BY <1>2, BodiesAreSomething DEF Alive
  <1> QED
    BY <1>6, <1>7 DEF B, N

\* A step that succeeds leaves every body what it is, with numbers that are
\* finite, and contacts of bodies that there are in the order of their slots.
LEMMA SteppedKeeps ==
    ASSUME NEW w, WorldOK(w), NEW gravity \in Int, CanStep(w, gravity, Simulated(w, gravity))
    PROVE  LET v == Stepped(w, Simulated(w, gravity)) IN
           /\ WorldOK(v)
           /\ LiveBodies(v) = LiveBodies(w) /\ \A b : IsBody(v, b) <=> IsBody(w, b)
           /\ InSlotOrder(v.contacts)
           /\ \A p \in ToSet(v.contacts) : p.first \in LiveBodies(v) /\ p.second \in LiveBodies(v)
  <1> DEFINE B == Integration(w, gravity)
             s == Simulated(w, gravity)
             N == Len(w.slots)
             c == s.contacts
             slots == [i \in DOMAIN w.slots |-> [w.slots[i] EXCEPT !.body = s.bodies[i]]]
             Pair(p) == [first |-> HandleOf(w, p[1]), second |-> HandleOf(w, p[2])]
             contacts == [n \in DOMAIN c |-> Pair(c[n])]
             v == Stepped(w, s)
  <1>1. /\ BodiesTyped(w) /\ N \in Nat /\ DOMAIN w.slots = 1..N
    BY WorldParts DEF WorldOK
  <1>2. /\ B \in Seq(Unbounded \cup {Nothing}) /\ Len(B) = N
        /\ \A i \in 1..N : B[i] = Nothing <=> w.slots[i].body = Nothing
    BY <1>1, IntegrationIs
  <1>v. v = [w EXCEPT !.slots = slots, !.contacts = contacts]
    BY DEF Stepped
  <1>s. s = Collided(B) /\ AllFinite(s.bodies)
    BY DEF Simulated, CanStep
  <1> HIDE DEF B, N, s
  <1>3. Working(B, s)
    BY <1>2, <1>s, CollidedKeeps
  <1>4. /\ s.bodies \in Seq(Unbounded \cup {Nothing}) /\ Len(s.bodies) = N
        /\ \A i \in 1..N : s.bodies[i] = Nothing <=> w.slots[i].body = Nothing
    BY <1>2, <1>3 DEF Working, SameBodies, WorkType
  <1>5. ASSUME NEW i \in 1..N
        PROVE  s.bodies[i] \in Body \cup {Nothing}
    <2>1. s.bodies[i] \in Unbounded \cup {Nothing} /\ i \in DOMAIN s.bodies
      BY <1>4, ElementOfSeq, LenProperties
    <2>2. CASE s.bodies[i] \in Unbounded
      <3>1. s.bodies[i] # Nothing
        BY <2>2, BodiesAreSomething
      <3>2. IsFinite(s.bodies[i].position) /\ IsFinite(s.bodies[i].velocity)
        BY <2>1, <3>1, <1>s DEF AllFinite
      <3>3. MaxNumber \in Nat /\ s.bodies[i].position \in Int /\ s.bodies[i].velocity \in Int
        BY <2>2, WorldAssumption DEF Unbounded
      <3>4. s.bodies[i].position \in Numbers /\ s.bodies[i].velocity \in Numbers
        BY <3>2, <3>3 DEF IsFinite, Numbers
      <3> QED
        BY <2>2, <3>4 DEF Unbounded, Body
    <2> QED
      BY <2>1, <2>2
  <1>6. ASSUME NEW i \in 1..N
        PROVE  /\ slots[i] \in BodySlots /\ slots[i].generation = w.slots[i].generation
               /\ slots[i].body = Nothing <=> w.slots[i].body = Nothing
    <2>1. w.slots[i] \in BodySlots
      BY <1>1, WorldParts
    <2>2. slots[i] = [w.slots[i] EXCEPT !.body = s.bodies[i]]
      BY <1>1
    <2>3. slots[i].body = s.bodies[i] /\ slots[i].generation = w.slots[i].generation /\ slots[i] \in BodySlots
      BY <2>1, <2>2, <1>5 DEF BodySlots
    <2> QED
      BY <2>3, <1>4
  <1>7. slots \in Seq(BodySlots) /\ Len(slots) = N
    <2>1. slots = [i \in 1..N |-> slots[i]]
      BY <1>1
    <2> HIDE DEF slots
    <2>2. slots \in [1..N -> BodySlots]
      BY <2>1, <1>6
    <2> QED
      BY <2>2, <1>1, FunctionIsSeq
  <1> HIDE DEF slots
  <1>8. /\ c \in Seq(Nat \X Nat) /\ Len(c) \in Nat /\ DOMAIN c = 1..Len(c) /\ Len(c) <= MaxContacts
        /\ \A n \in DOMAIN c : /\ c[n][1] \in 1..N /\ c[n][2] \in 1..N
                               /\ w.slots[c[n][1]].body # Nothing /\ w.slots[c[n][2]].body # Nothing
        /\ \A m, n \in DOMAIN c : m < n => PairLess(c[m], c[n])
    <2>1. FoundPairs(B, c)
      BY <1>3 DEF Working
    <2> HIDE DEF c
    <2>2. \A n \in DOMAIN c : c[n] \in ToSet(c)
      BY DEF ToSet
    <2>3. c \in Seq(Nat \X Nat)
      BY <2>1 DEF FoundPairs
    <2>4. Len(c) \in Nat /\ DOMAIN c = 1..Len(c)
      BY <2>3, LenProperties
    <2> QED
      BY <2>1, <2>2, <2>3, <2>4, <1>2 DEF FoundPairs
  <1> HIDE DEF c
  <1>9. ASSUME NEW i \in 1..N, w.slots[i].body # Nothing
        PROVE  HandleOf(w, i) \in LiveBodies(w) /\ HandleOf(w, i) \in Bodies
    BY <1>1, <1>9, WorldParts DEF Alive, LiveBodies
  <1>10. ASSUME NEW n \in DOMAIN c
         PROVE  /\ contacts[n] \in Contacts
                /\ contacts[n].first \in LiveBodies(w) /\ contacts[n].second \in LiveBodies(w)
                /\ contacts[n].first.slot = c[n][1] /\ contacts[n].second.slot = c[n][2]
    <2>1. contacts[n] = Pair(c[n])
      OBVIOUS
    <2>2. contacts[n].first = HandleOf(w, c[n][1]) /\ contacts[n].second = HandleOf(w, c[n][2])
      BY <2>1
    <2>3. Pair(c[n]) \in Contacts
      BY <1>8, <1>9 DEF Contacts
    <2>4. HandleOf(w, c[n][1]) \in LiveBodies(w) /\ HandleOf(w, c[n][2]) \in LiveBodies(w)
      BY <1>8, <1>9
    <2>5. HandleOf(w, c[n][1]).slot = c[n][1] /\ HandleOf(w, c[n][2]).slot = c[n][2]
      BY BodyParts
    <2> HIDE DEF contacts, Pair
    <2> QED
      BY <2>1, <2>2, <2>3, <2>4, <2>5
  <1>11. contacts \in Seq(Contacts) /\ Len(contacts) = Len(c) /\ DOMAIN contacts = DOMAIN c
    <2>1. contacts = [n \in 1..Len(c) |-> contacts[n]] /\ DOMAIN contacts = DOMAIN c
      BY <1>8
    <2> HIDE DEF contacts
    <2>2. contacts \in [1..Len(c) -> Contacts]
      BY <2>1, <1>8, <1>10
    <2> QED
      BY <2>1, <2>2, <1>8, FunctionIsSeq
  <1> HIDE DEF contacts
  <1>12. /\ WorldOK(v) /\ v.slots = slots /\ v.contacts = contacts
         /\ LiveBodies(v) = LiveBodies(w) /\ \A b : IsBody(v, b) <=> IsBody(w, b)
    <2>1. Len(contacts) <= MaxContacts /\ Len(slots) = Len(w.slots)
      BY <1>7, <1>8, <1>11 DEF N
    <2>2. \A i \in DOMAIN w.slots : /\ slots[i].generation = w.slots[i].generation
                                    /\ slots[i].body = Nothing <=> w.slots[i].body = Nothing
      BY <1>1, <1>6
    <2>3. /\ v \in WorldType /\ v.slots = slots /\ v.contacts = contacts
          /\ v.free = w.free /\ v.count = w.count
      <3>1. w \in WorldType
        BY <1>1, WorldParts
      <3> HIDE DEF v
      <3> QED
        BY <3>1, <1>v, <1>7, <1>11 DEF WorldType
    <2> HIDE DEF v
    <2> QED
      BY <2>1, <2>2, <2>3, MovedBodies
  <1> HIDE DEF v
  <1>13. InSlotOrder(contacts)
    <2>1. contacts \in Seq(SlotContacts)
      BY <1>11, ContactsAreOfSlots, SeqMonotonic
    <2>2. \A m, n \in DOMAIN contacts : m < n => SlotLess(contacts[m], contacts[n])
      <3> SUFFICES ASSUME NEW m \in DOMAIN c, NEW n \in DOMAIN c, m < n
                   PROVE  SlotLess(contacts[m], contacts[n])
        BY <1>11
      <3>1. PairLess(c[m], c[n])
        BY <1>8
      <3>2. /\ contacts[m].first.slot = c[m][1] /\ contacts[m].second.slot = c[m][2]
            /\ contacts[n].first.slot = c[n][1] /\ contacts[n].second.slot = c[n][2]
        BY <1>10
      <3> QED
        BY <3>1, <3>2 DEF PairLess, SlotLess
    <2> QED
      BY <2>1, <2>2 DEF InSlotOrder
  <1>14. \A p \in ToSet(contacts) : p.first \in LiveBodies(w) /\ p.second \in LiveBodies(w)
    BY <1>10, <1>11 DEF ToSet
  <1> QED
    BY <1>12, <1>13, <1>14 DEF v, s

-----------------------------------------------------------------------------
(* The bridge to the line, step by step.                                   *)

PlacesOK(places) == DOMAIN places \subseteq Entities /\ \A h \in DOMAIN places : places[h] \in Numbers

\* Bodies and entries match, the game knows what the world remembers, and
\* transforms follow their bodies.
PhysicsInv ==
    /\ BridgeOK(Bridge) /\ KnowsBodies(Bridge, touching)
    /\ Placed(Bridge, transforms, written) /\ PlacesOK(transforms)

\* The typing facts the steps need.
LEMMA PhysicsParts ==
    ASSUME PhysicsInv
    PROVE  /\ Bridge.world = world /\ Bridge.entries = entries
           /\ WorldOK(world) /\ BodiesTyped(world) /\ EntriesMatch(world, entries)
           /\ world \in WorldType
           /\ \A e \in ToSet(entries) : e \in Entry /\ e.entity \in Entities /\ e.body \in LiveBodies(world)
           /\ \A d, e \in ToSet(entries) : d.entity = e.entity => d = e
           /\ \A d, e \in ToSet(entries) : d.body = e.body => d = e
  <1>1. Bridge.world = world /\ Bridge.entries = entries
    BY DEF Bridge
  <1>2. WorldOK(world) /\ BodiesTyped(world) /\ EntriesMatch(world, entries) /\ world \in WorldType
    BY <1>1 DEF PhysicsInv, BridgeOK, WorldOK, BodiesTyped
  <1>3. \A i \in DOMAIN entries : entries[i] \in Entry /\ entries[i].body \in LiveBodies(world)
    BY <1>2, ElementOfSeq, LenProperties DEF EntriesMatch
  <1>4. \A i, j \in DOMAIN entries : i # j => entries[i].entity # entries[j].entity
                                               /\ entries[i].body # entries[j].body
    BY <1>2 DEF EntriesMatch
  <1> QED
    BY <1>1, <1>2, <1>3, <1>4 DEF ToSet, Entry

\* What a step has to keep.
LEMMA PhysicsKept ==
    ASSUME NEW s, s.world = world', s.entries = entries', BridgeOK(s), KnowsBodies(s, touching'),
           Placed(s, transforms', written'), PlacesOK(transforms')
    PROVE  PhysicsInv'
  <1>1. Bridge' = [world |-> world', entries |-> entries']
    BY DEF Bridge
  <1> DEFINE t == [world |-> world', entries |-> entries']
  <1>2. t.world = s.world /\ t.entries = s.entries
    OBVIOUS
  <1> HIDE DEF t
  <1>3. BridgeOK(t) /\ KnowsBodies(t, touching') /\ Placed(t, transforms', written')
    BY <1>2 DEF BridgeOK, KnowsBodies, Placed
  <1> QED
    BY <1>1, <1>3 DEF PhysicsInv, t

\* create
LEMMA PhysicsInitOK == PhysicsInit => PhysicsInv
  <1> SUFFICES ASSUME PhysicsInit PROVE PhysicsInv
    OBVIOUS
  <1>1. entries = <<>> /\ world = EmptyWorld /\ transforms = <<>> /\ touching = {} /\ written = {}
    BY DEF PhysicsInit
  <1>2. DOMAIN <<>> = {} /\ ToSet(<<>>) = {} /\ Len(<<>>) = 0 /\ IsInjective(<<>>)
    BY EmptySeq DEF ToSet, IsInjective
  <1>3. /\ EmptyWorld.slots = <<>> /\ EmptyWorld.free = <<>> /\ EmptyWorld.count = 0
        /\ EmptyWorld.contacts = <<>>
    BY DEF EmptyWorld
  <1>4. Alive(EmptyWorld) = {} /\ LiveBodies(EmptyWorld) = {}
    BY <1>2, <1>3 DEF Alive, LiveBodies
  <1>5. BodiesTyped(EmptyWorld)
    <2>1. EmptyWorld \in WorldType
      BY DEF EmptyWorld, WorldType
    <2>2. MaxBodies \in Nat /\ MaxContacts \in Nat
      BY WorldAssumption
    <2> QED
      BY <1>2, <1>3, <2>1, <2>2 DEF BodiesTyped, FreeBodiesAreDead
  <1>6. BodiesCounted(EmptyWorld)
    BY <1>3, <1>4, FS_EmptySet DEF BodiesCounted
  <1>7. Bridge.world = EmptyWorld /\ Bridge.entries = <<>>
    BY <1>1 DEF Bridge
  <1>8. EntriesMatch(EmptyWorld, <<>>)
    <2>1. <<>> \in Seq(Entry)
      OBVIOUS
    <2> QED
      BY <2>1, <1>2, <1>4 DEF EntriesMatch
  <1>9. BridgeOK(Bridge)
    BY <1>5, <1>6, <1>7, <1>8 DEF BridgeOK, WorldOK
  <1>10. KnowsBodies(Bridge, {})
    <2>1. InSlotOrder(<<>>)
      BY <1>2 DEF InSlotOrder
    <2> QED
      BY <2>1, <1>2, <1>3, <1>7 DEF KnowsBodies
  <1>11. Placed(Bridge, transforms, written) /\ PlacesOK(transforms)
    BY <1>1, <1>2, <1>7 DEF Placed, PlacesOK
  <1> QED
    BY <1>1, <1>9, <1>10, <1>11 DEF PhysicsInv

\* The game sets or removes a transform without the bridge.
LEMMA TransformsKeep ==
    ASSUME PhysicsInv, NEW h \in Entities,
           (\E position \in Placements : WriteTransform(h, position)) \/ LoseTransform(h)
    PROVE  PhysicsInv'
  <1>1. UNCHANGED <<entries, world, touching>>
    BY DEF WriteTransform, LoseTransform
  <1>2. Bridge.world = world' /\ Bridge.entries = entries'
    BY <1>1, PhysicsParts
  <1>3. /\ PlacesOK(transforms')
        /\ \A k \in DOMAIN transforms' \ written' :
              k \in DOMAIN transforms \ written /\ transforms'[k] = transforms[k]
    <2>1. ASSUME NEW position \in Placements, WriteTransform(h, position)
          PROVE  /\ DOMAIN transforms' = DOMAIN transforms \cup {h}
                 /\ transforms'[h] = position
                 /\ \A k \in DOMAIN transforms : k # h => transforms'[k] = transforms[k]
                 /\ written' = written \cup {h} /\ position \in Numbers
      BY <2>1, PlacementAssumption DEF WriteTransform
    <2>2. CASE \E position \in Placements : WriteTransform(h, position)
      BY <2>1, <2>2 DEF PhysicsInv, PlacesOK
    <2>3. CASE LoseTransform(h)
      BY <2>3 DEF LoseTransform, PhysicsInv, PlacesOK
    <2> QED
      BY <2>2, <2>3
  <1>4. Placed(Bridge, transforms', written')
    BY <1>3 DEF PhysicsInv, Placed
  <1>5. KnowsBodies(Bridge, touching')
    BY <1>1 DEF PhysicsInv
  <1> QED
    BY <1>2, <1>3, <1>4, <1>5, PhysicsKept DEF PhysicsInv

\* attach_body
LEMMA AttachBodyKeeps ==
    ASSUME PhysicsInv, NEW h \in Entities, NEW definition \in Definitions, NEW velocity \in Velocities,
           AttachBody(h, definition, velocity)
    PROVE  PhysicsInv'
  <1> DEFINE r == Bridge
             b == NextBody(world)
             e == [entity |-> h, body |-> b]
             s == [world   |-> WithBody(world, definition, transforms[h], velocity),
                   entries |-> Append(entries, e)]
  <1>1. r.world = world /\ r.entries = entries /\ BridgeOK(r)
    BY PhysicsParts DEF PhysicsInv
  <1>2. /\ transforms[h] \in Numbers /\ velocity \in Numbers
        /\ \A i \in DOMAIN entries : entries[i].entity # h
        /\ CanCreateBody(world, definition, velocity)
    BY PlacementAssumption DEF AttachBody, HasEntry, PhysicsInv, PlacesOK
  <1>3. /\ BridgeOK(s) /\ Outlives(r, s) /\ s.world.contacts = r.world.contacts
        /\ BodyOf(s.world, b).position = transforms[h]
        /\ ToSet(s.entries) = ToSet(r.entries) \cup {e}
    <2> DEFINE z == [world   |-> WithBody(r.world, definition, transforms[h], velocity),
                     entries |-> Append(r.entries, [entity |-> h, body |-> NextBody(r.world)])]
    <2>1. /\ \A i \in DOMAIN r.entries : r.entries[i].entity # h
          /\ CanCreateBody(r.world, definition, velocity)
      BY <1>1, <1>2
    <2>2. s = z /\ NextBody(r.world) = b
      BY <1>1
    <2>3. BridgeOK(r)
      BY <1>1
    <2> HIDE DEF r, s, b
    <2>4. /\ BridgeOK(z) /\ Outlives(r, z) /\ z.world.contacts = r.world.contacts
          /\ BodyOf(z.world, NextBody(r.world)).position = transforms[h]
          /\ ToSet(z.entries) = ToSet(r.entries) \cup {[entity |-> h, body |-> NextBody(r.world)]}
      BY <2>1, <2>3, <1>2, AttachKeeps
    <2> HIDE DEF z
    <2> QED
      BY <2>2, <2>4
  <1>4. /\ s.world = world' /\ s.entries = entries' /\ UNCHANGED <<transforms, touching>>
        /\ written' = written \ {h}
    BY DEF AttachBody
  <1> HIDE DEF r, s, b
  <1>5. KnowsBodies(s, touching)
    <2>1. \A x \in LiveBodies(r.world) \cap LiveBodies(s.world) :
             EntityOf(x, s.entries) = EntityOf(x, r.entries)
      <3>1. EntriesMatch(r.world, r.entries) /\ EntriesMatch(s.world, s.entries)
        BY <1>1, <1>3 DEF BridgeOK
      <3> QED
        BY <3>1, <1>3, EntitiesStay
    <2>2. KnowsBodies(r, touching)
      BY DEF PhysicsInv, r
    <2> QED
      BY <1>1, <1>3, <2>1, <2>2, KnowsStays
  <1>6. Placed(s, transforms, written')
    <2> SUFFICES ASSUME NEW i \in DOMAIN s.entries, s.entries[i].entity \in DOMAIN transforms \ written'
                 PROVE  transforms[s.entries[i].entity] = BodyOf(s.world, s.entries[i].body).position
      BY DEF Placed
    <2>1. s.entries[i] \in ToSet(r.entries) \cup {e}
      BY <1>3 DEF ToSet
    <2>2. CASE s.entries[i] = e
      BY <2>2, <1>3
    <2>3. CASE s.entries[i] \in ToSet(r.entries)
      <3>1. PICK j \in DOMAIN entries : s.entries[i] = entries[j]
        BY <2>3, <1>1 DEF ToSet
      <3>2. entries[j].entity # h
        BY <1>2
      <3>3. transforms[entries[j].entity] = BodyOf(world, entries[j].body).position
        BY <3>1, <3>2, <1>1, <1>4 DEF PhysicsInv, Placed, r
      <3>4. entries[j].body \in LiveBodies(r.world)
        BY <1>1, PhysicsParts DEF ToSet
      <3>5. s.entries[i].body \in LiveBodies(s.world)
        BY <1>3 DEF BridgeOK, EntriesMatch
      <3> QED
        BY <3>1, <3>3, <3>4, <3>5, <1>1, <1>3 DEF Outlives
    <2> QED
      BY <2>1, <2>2, <2>3
  <1> QED
    BY <1>3, <1>4, <1>5, <1>6, PhysicsKept DEF PhysicsInv

\* Entries that go, with their bodies.
LEMMA RetiredKeeps ==
    ASSUME PhysicsInv, NEW s, BridgeOK(s), Outlives(Bridge, s), s.world.contacts = world.contacts,
           ToSet(s.entries) \subseteq ToSet(entries)
    PROVE  KnowsBodies(s, touching) /\ Placed(s, transforms, written)
  <1> DEFINE r == Bridge
  <1>1. /\ r.world = world /\ r.entries = entries /\ BridgeOK(r) /\ KnowsBodies(r, touching)
        /\ Placed(r, transforms, written) /\ Outlives(r, s)
    BY PhysicsParts DEF PhysicsInv
  <1> HIDE DEF r
  <1>2. KnowsBodies(s, touching)
    BY <1>1, RetiredKnows
  <1>3. Placed(s, transforms, written)
    BY <1>1, PlacedStays
  <1> QED
    BY <1>2, <1>3

\* detach_body
LEMMA DetachBodyKeeps ==
    ASSUME PhysicsInv, NEW k \in DOMAIN entries, DetachBody(k)
    PROVE  PhysicsInv'
  <1> DEFINE s == Without(Bridge, k)
  <1>1. Bridge.world = world /\ Bridge.entries = entries /\ BridgeOK(Bridge)
    BY PhysicsParts DEF PhysicsInv
  <1>2. s.world = world' /\ s.entries = entries' /\ UNCHANGED <<transforms, touching, written>>
    BY DEF DetachBody, Bridge
  <1>3. /\ BridgeOK(s) /\ Outlives(Bridge, s) /\ s.world.contacts = world.contacts
        /\ ToSet(s.entries) \subseteq ToSet(entries)
    BY <1>1, WithoutKeeps
  <1> HIDE DEF s
  <1>4. KnowsBodies(s, touching) /\ Placed(s, transforms, written)
    BY <1>3, RetiredKeeps
  <1> QED
    BY <1>2, <1>3, <1>4, PhysicsKept DEF PhysicsInv

\* A step that fails has retired some.
LEMMA StepFailsKeeps ==
    ASSUME PhysicsInv, StepFails
    PROVE  PhysicsInv'
  <1>1. BridgeOK(Bridge)
    BY DEF PhysicsInv
  <1>2. PICK n \in 0..Len(entries) : world' = Retirements[n].world /\ entries' = Retirements[n].entries
    BY DEF StepFails
  <1>3. UNCHANGED <<transforms, touching, written>>
    BY DEF StepFails
  <1> DEFINE s == Retirements[n]
  <1>4. /\ BridgeOK(s) /\ Outlives(Bridge, s) /\ s.world.contacts = world.contacts
        /\ ToSet(s.entries) \subseteq ToSet(entries)
    BY <1>1, RetirementsKeep
  <1>5. s.world = world' /\ s.entries = entries'
    BY <1>2
  <1> HIDE DEF s
  <1>6. KnowsBodies(s, touching) /\ Placed(s, transforms, written)
    BY <1>4, RetiredKeeps
  <1> QED
    BY <1>3, <1>4, <1>5, <1>6, PhysicsKept DEF PhysicsInv

\* One body gets other contents, and its transform its position.
LEMMA ChangedKeeps ==
    ASSUME PhysicsInv, NEW e \in ToSet(entries), NEW x \in Body,
           world' = [world EXCEPT !.slots[e.body.slot].body = x],
           UNCHANGED <<entries, touching>>,
           \/ /\ x.position = BodyOf(world, e.body).position
              /\ UNCHANGED <<transforms, written>>
           \/ /\ e.entity \in DOMAIN transforms
              /\ transforms' = [transforms EXCEPT ![e.entity] = x.position]
              /\ written' = written \ {e.entity}
    PROVE  PhysicsInv'
  <1> DEFINE b == e.body
             s == [world |-> world', entries |-> entries]
  <1>1. b \in LiveBodies(world) /\ WorldOK(world) /\ EntriesMatch(world, entries)
    BY PhysicsParts
  <1>2. /\ WorldOK(world') /\ world'.contacts = world.contacts
        /\ LiveBodies(world') = LiveBodies(world)
        /\ BodyOf(world', b) = x
        /\ \A y \in LiveBodies(world) : y # b => BodyOf(world', y) = BodyOf(world, y)
        /\ \A y : Spent(world', y) <=> Spent(world, y)
        /\ \A y : IsBody(world', y) <=> IsBody(world, y)
    BY <1>1, ChangedBody
  <1>3. s.world = world' /\ s.entries = entries
    OBVIOUS
  <1> HIDE DEF b, s
  <1>4. BridgeOK(s)
    <2>1. EntriesMatch(world', entries)
      BY <1>1, <1>2 DEF EntriesMatch
    <2> QED
      BY <2>1, <1>2, <1>3 DEF BridgeOK
  <1>5. KnowsBodies(s, touching)
    <2>1. Bridge.world = world /\ Bridge.entries = entries /\ KnowsBodies(Bridge, touching)
      BY PhysicsParts DEF PhysicsInv
    <2> QED
      BY <2>1, <1>2, <1>3 DEF KnowsBodies
  <1>6. PlacesOK(transforms')
    <2>1. x.position \in Numbers
      BY DEF Body
    <2> QED
      BY <2>1 DEF PlacesOK, PhysicsInv
  <1>7. Placed(s, transforms', written')
    <2> SUFFICES ASSUME NEW i \in DOMAIN entries, entries[i].entity \in DOMAIN transforms' \ written'
                 PROVE  transforms'[entries[i].entity] = BodyOf(world', entries[i].body).position
      BY <1>3 DEF Placed
    <2> DEFINE d == entries[i]
    <2>1. d \in ToSet(entries) /\ d.body \in LiveBodies(world)
      BY PhysicsParts DEF ToSet
    <2>2. \/ d.entity = e.entity /\ d = e
          \/ d.entity # e.entity /\ d.body # b
      BY <2>1, PhysicsParts DEF b
    <2>3. d.entity \in DOMAIN transforms \ written => transforms[d.entity] = BodyOf(world, d.body).position
      BY PhysicsParts DEF PhysicsInv, Placed
    <2> HIDE DEF d
    <2>4. CASE d = e
      BY <2>3, <2>4, <1>2 DEF b, d
    <2>5. CASE d.entity # e.entity /\ d.body # b
      <3>1. BodyOf(world', d.body) = BodyOf(world, d.body)
        BY <2>1, <2>5, <1>2
      <3>2. transforms'[d.entity] = transforms[d.entity] /\ d.entity \in DOMAIN transforms \ written
        BY <2>5 DEF d
      <3> QED
        BY <2>3, <3>1, <3>2 DEF d
    <2> QED
      BY <2>2, <2>4, <2>5
  <1> QED
    BY <1>3, <1>4, <1>5, <1>6, <1>7, PhysicsKept

\* set_position, set_velocity, apply_force and apply_impulse
LEMMA DrivenKeeps ==
    ASSUME PhysicsInv, NEW e \in ToSet(entries),
           \/ \E position \in Placements : SetPosition(e, position)
           \/ \E velocity \in Velocities : SetVelocity(e, velocity)
           \/ \E change \in Changes : ApplyForce(e, change) \/ ApplyImpulse(e, change)
    PROVE  PhysicsInv'
  <1> DEFINE b == e.body
             x == BodyOf(world, b)
  <1>1. b \in LiveBodies(world) /\ WorldOK(world)
    BY PhysicsParts
  <1>2. Placements \subseteq Numbers /\ Velocities \subseteq Numbers /\ Changes \subseteq Numbers
    BY PlacementAssumption
  <1>3. x \in Body
    BY <1>1, SettersKeep, BodiesAreSomething
  <1> HIDE DEF x, b
  <1>4. /\ \A n \in Numbers : /\ [x EXCEPT !.position = n] \in Body
                              /\ [x EXCEPT !.position = n].position = n
                              /\ [x EXCEPT !.velocity = n] \in Body
                              /\ [x EXCEPT !.velocity = n].position = x.position
                              /\ [x EXCEPT !.force = n] \in Body
                              /\ [x EXCEPT !.force = n].position = x.position
    BY <1>3 DEF Body
  <1>5. ASSUME NEW position \in Placements, SetPosition(e, position) PROVE PhysicsInv'
    <2> DEFINE y == [x EXCEPT !.position = position]
    <2>1. y \in Body /\ y.position = position
      BY <1>2, <1>4
    <2>2. Positioned(world, b, position) = [world EXCEPT !.slots[b.slot].body = y]
      BY DEF Positioned, BodyOf, x
    <2> HIDE DEF y
    <2>3. /\ world' = [world EXCEPT !.slots[e.body.slot].body = y] /\ e.entity \in DOMAIN transforms
          /\ transforms' = [transforms EXCEPT ![e.entity] = y.position]
          /\ written' = written \ {e.entity} /\ UNCHANGED <<entries, touching>>
      BY <1>5, <2>1, <2>2 DEF SetPosition, IsDriven, b
    <2> QED
      BY <2>1, <2>3, ChangedKeeps
  <1>6. ASSUME NEW y \in Body, y.position = x.position, Drive(e, [world EXCEPT !.slots[b.slot].body = y])
        PROVE  PhysicsInv'
    <2>1. /\ world' = [world EXCEPT !.slots[e.body.slot].body = y]
          /\ UNCHANGED <<entries, transforms, touching, written>>
          /\ y.position = BodyOf(world, e.body).position
      BY <1>6 DEF Drive, b, x
    <2> QED
      BY <2>1, ChangedKeeps
  <1>7. ASSUME NEW velocity \in Velocities, SetVelocity(e, velocity) PROVE PhysicsInv'
    <2> DEFINE y == [x EXCEPT !.velocity = velocity]
    <2>1. y \in Body /\ y.position = x.position
      BY <1>2, <1>4
    <2>2. WithVelocity(world, b, velocity) = [world EXCEPT !.slots[b.slot].body = y]
      BY DEF WithVelocity, BodyOf, x
    <2> HIDE DEF y
    <2>3. Drive(e, [world EXCEPT !.slots[b.slot].body = y])
      BY <1>7, <2>2 DEF SetVelocity, b
    <2> QED
      BY <2>1, <2>3, <1>6
  <1>8. ASSUME NEW change \in Changes, ApplyForce(e, change) PROVE PhysicsInv'
    <2> DEFINE y == [x EXCEPT !.force = x.force + change]
    <2>0. CanApplyForce(world, b, change)
      BY <1>8 DEF ApplyForce, b
    <2>2. WithForce(world, b, change) = [world EXCEPT !.slots[b.slot].body = y] /\ x.force + change \in Numbers
      BY <1>1, <1>2, <2>0, SettersKeep DEF x
    <2>1. y \in Body /\ y.position = x.position
      BY <2>2, <1>4
    <2> HIDE DEF y
    <2>3. Drive(e, [world EXCEPT !.slots[b.slot].body = y])
      BY <1>8, <2>2 DEF ApplyForce, b
    <2> QED
      BY <2>1, <2>3, <1>6
  <1>9. ASSUME NEW change \in Changes, ApplyImpulse(e, change) PROVE PhysicsInv'
    <2> DEFINE y == [x EXCEPT !.velocity = x.velocity + change]
    <2>0. CanApplyImpulse(world, b, change)
      BY <1>9 DEF ApplyImpulse, b
    <2>2. WithImpulse(world, b, change) = [world EXCEPT !.slots[b.slot].body = y] /\ x.velocity + change \in Numbers
      BY <1>1, <1>2, <2>0, SettersKeep DEF x
    <2>1. y \in Body /\ y.position = x.position
      BY <2>2, <1>4
    <2> HIDE DEF y
    <2>3. Drive(e, [world EXCEPT !.slots[b.slot].body = y])
      BY <1>9, <2>2 DEF ApplyImpulse, b
    <2> QED
      BY <2>1, <2>3, <1>6
  <1> QED
    BY <1>5, <1>7, <1>8, <1>9

\* step
LEMMA StepBridgeKeeps ==
    ASSUME PhysicsInv, NEW gravity \in Gravities, StepBridge(gravity)
    PROVE  PhysicsInv'
  <1> DEFINE r == Retirements[Len(entries)]
             w == r.world
             simulated == Simulated(w, gravity)
             v == Stepped(w, simulated)
             list == r.entries
             s == [world |-> v, entries |-> list]
  <1>1. gravity \in Int /\ BridgeOK(Bridge) /\ Len(entries) \in 0..Len(entries)
    <2>1. entries \in Seq(Entry)
      BY PhysicsParts DEF EntriesMatch
    <2>2. gravity \in Int
      BY PlacementAssumption, BodiesAreSomething
    <2>3. Len(entries) \in 0..Len(entries)
      <3>1. Len(entries) \in Nat
        BY <2>1, LenProperties
      <3> QED
        BY <3>1
    <2> QED
      BY <2>2, <2>3 DEF PhysicsInv
  <1>2. /\ BridgeOK(r) /\ Outlives(Bridge, r) /\ w.contacts = world.contacts
        /\ ToSet(list) \subseteq ToSet(entries)
    BY <1>1, RetirementsKeep
  <1>3. /\ CanStep(w, gravity, Simulated(w, gravity)) /\ world' = v /\ entries' = list
        /\ touching' = Told(touching, Transitions(w.contacts, v.contacts), list)
        /\ transforms' = [h \in DOMAIN transforms |->
                            IF \E e \in ToSet(list) : e.entity = h
                            THEN BodyOf(v, (CHOOSE e \in ToSet(list) : e.entity = h).body).position
                            ELSE transforms[h]]
    BY DEF StepBridge
  <1> HIDE DEF r
  <1>4. KnowsBodies(r, touching) /\ Placed(r, transforms, written)
    BY <1>2, RetiredKeeps
  <1>5. WorldOK(w)
    BY <1>2 DEF BridgeOK
  <1> HIDE DEF w
  <1>6. /\ WorldOK(v) /\ LiveBodies(v) = LiveBodies(w) /\ \A b : IsBody(v, b) <=> IsBody(w, b)
        /\ InSlotOrder(v.contacts)
        /\ \A p \in ToSet(v.contacts) : p.first \in LiveBodies(v) /\ p.second \in LiveBodies(v)
    BY <1>1, <1>3, <1>5, SteppedKeeps
  <1> HIDE DEF v
  <1>7. BridgeOK(s) /\ KnowsBodies(s, touching')
    <2>1. LiveBodies(v) = LiveBodies(r.world) /\ \A b : IsBody(v, b) <=> IsBody(r.world, b)
      BY <1>6 DEF w
    <2>2. touching' = Told(touching, Transitions(r.world.contacts, v.contacts), r.entries)
      BY <1>3 DEF w
    <2> QED
      BY <1>2, <1>4, <1>6, <2>1, <2>2, SteppedKnows
  <1>8. /\ s.world = v /\ s.entries = list
    OBVIOUS
  <1> HIDE DEF list, s
  <1>9. ASSUME NEW e \in ToSet(list)
        PROVE  /\ BodyOf(v, e.body).position \in Numbers
               /\ e.entity \in DOMAIN transforms => transforms'[e.entity] = BodyOf(v, e.body).position
    <2>1. EntriesMatch(v, list)
      BY <1>7, <1>8 DEF BridgeOK
    <2>2. e.body \in LiveBodies(v)
      BY <2>1, EntityOfIs
    <2>3. BodyOf(v, e.body) \in Body
      <3>1. 0 \in Numbers
        BY BodiesAreSomething
      <3> QED
        BY <1>6, <2>2, <3>1, SettersKeep
    <2>4. (CHOOSE d \in ToSet(list) : d.entity = e.entity) = e
      <3>1. \A d \in ToSet(list) : d.entity = e.entity => d = e
        BY <1>2, PhysicsParts
      <3> QED
        BY <3>1
    <2> QED
      BY <2>3, <2>4, <1>3 DEF Body
  <1>10. PlacesOK(transforms')
    <2>1. DOMAIN transforms' = DOMAIN transforms
      BY <1>3
    <2>2. ASSUME NEW h \in DOMAIN transforms PROVE transforms'[h] \in Numbers
      <3>1. CASE \E e \in ToSet(list) : e.entity = h
        BY <3>1, <1>9
      <3>2. CASE ~\E e \in ToSet(list) : e.entity = h
        BY <3>2, <1>3 DEF PhysicsInv, PlacesOK
      <3> QED
        BY <3>1, <3>2
    <2> QED
      BY <2>1, <2>2 DEF PhysicsInv, PlacesOK
  <1>11. Placed(s, transforms', written')
    <2>1. DOMAIN transforms' = DOMAIN transforms
      BY <1>3
    <2>2. \A i \in DOMAIN list : list[i] \in ToSet(list)
      BY DEF ToSet
    <2> QED
      BY <2>1, <2>2, <1>8, <1>9 DEF Placed
  <1> QED
    BY <1>3, <1>7, <1>8, <1>10, <1>11, PhysicsKept

\* Every step keeps it.
LEMMA PhysicsNextOK == PhysicsInv /\ [PhysicsNext]_physicsVars => PhysicsInv'
  <1> SUFFICES ASSUME PhysicsInv, [PhysicsNext]_physicsVars PROVE PhysicsInv'
    OBVIOUS
  <1>1. CASE \E h \in Entities :
                \/ \E position \in Placements : WriteTransform(h, position)
                \/ LoseTransform(h)
                \/ \E definition \in Definitions, velocity \in Velocities : AttachBody(h, definition, velocity)
    BY <1>1, TransformsKeep, AttachBodyKeeps
  <1>2. CASE \E k \in DOMAIN entries : DetachBody(k)
    BY <1>2, DetachBodyKeeps
  <1>3. CASE \E entry \in ToSet(entries) :
                \/ \E position \in Placements : SetPosition(entry, position)
                \/ \E velocity \in Velocities : SetVelocity(entry, velocity)
                \/ \E change \in Changes : ApplyForce(entry, change) \/ ApplyImpulse(entry, change)
    BY <1>3, DrivenKeeps
  <1>4. CASE \E gravity \in Gravities : StepBridge(gravity)
    BY <1>4, StepBridgeKeeps
  <1>5. CASE StepFails
    BY <1>5, StepFailsKeeps
  <1>6. CASE UNCHANGED physicsVars
    BY <1>6 DEF physicsVars, PhysicsInv, Bridge, BridgeOK, KnowsBodies, Placed
  <1> QED
    BY <1>1, <1>2, <1>3, <1>4, <1>5, <1>6 DEF PhysicsNext

\* What the runs check follows.
LEMMA PhysicsInvImplies == PhysicsInv => BridgeInvariant /\ GameKnowsTheContacts
  <1> SUFFICES ASSUME PhysicsInv PROVE BridgeInvariant /\ GameKnowsTheContacts
    OBVIOUS
  <1>1. /\ Bridge.world = world /\ Bridge.entries = entries
        /\ WorldOK(world) /\ BodiesTyped(world) /\ EntriesMatch(world, entries)
    BY PhysicsParts
  <1>2. WorldTypeOK(world)
    <2> DEFINE D == DOMAIN world.slots
               n == Len(world.free)
    <2>1. world.free \in Seq(1..MaxBodies) /\ n \in Nat /\ DOMAIN world.free = 1..n
      BY <1>1, WorldParts, LenProperties
    <2>2. \A i \in 1..n : world.free[i] \in D
      BY <1>1, <2>1 DEF BodiesTyped, FreeBodiesAreDead, ToSet
    <2>3. world.free = [i \in 1..n |-> world.free[i]]
      BY <2>1
    <2> HIDE DEF D
    <2>4. world.free \in [1..n -> D]
      <3> HIDE DEF n
      <3> QED
        BY <2>2, <2>3
    <2>5. world.free \in Seq(D)
      BY <2>1, <2>4, FunctionIsSeq
    <2>6. \A i \in DOMAIN world.slots : world.slots[i] \in BodySlots
      BY <1>1, WorldParts
    <2>7. IsInjective(world.free) /\ world.contacts \in Seq(Contacts)
      BY <1>1, WorldParts DEF BodiesTyped, FreeBodiesAreDead
    <2> QED
      BY <2>5, <2>6, <2>7, <1>1 DEF WorldTypeOK, WorldOK, BodiesTyped, BodiesCounted, BodySlots, D
  <1>3. DOMAIN transforms \subseteq Entities /\ \A h \in DOMAIN transforms : IsFinite(transforms[h])
    <2>1. MaxNumber \in Nat
      BY WorldAssumption
    <2> QED
      BY <2>1 DEF PhysicsInv, PlacesOK, Numbers, IsFinite
  <1>4. touching \subseteq Known
    BY DEF PhysicsInv, KnowsBodies
  <1>5. PhysicsTypeOK
    BY <1>1, <1>2, <1>3, <1>4 DEF PhysicsTypeOK, EntriesMatch, Entry, Known
  <1>6. BodiesMatchEntries
    BY <1>1 DEF BodiesMatchEntries, EntriesMatch
  <1>7. TransformsFollow
    BY <1>1 DEF TransformsFollow, PhysicsInv, Placed
  <1>8. GameKnowsTheContacts
    BY <1>1 DEF GameKnowsTheContacts, PhysicsInv, KnowsBodies
  <1> QED
    BY <1>5, <1>6, <1>7, <1>8 DEF BridgeInvariant

\* The inductive invariant holds.
THEOREM PhysicsCorrect == PhysicsSpec => []PhysicsInv
  BY PhysicsInitOK, PhysicsNextOK, PTL DEF PhysicsSpec

\* However often entities, bodies and slots come and go, and however far a step
\* gets before it fails: entries and bodies match one to one, all contents are
\* well formed, and a transform is where its body is unless the game has moved
\* it since (attach_body, detach_body, step, create_body, destroy_body).
THEOREM BridgeHolds == PhysicsSpec => []BridgeInvariant
  BY PhysicsCorrect, PhysicsInvImplies, PTL

\* With any number of bodies and contacts the game that follows Begin and End
\* knows exactly the contacts of the last successful step, and between which
\* entities they are while both bodies live (step, destroy_body).
THEOREM ContactsAreKnown == PhysicsSpec => []GameKnowsTheContacts
  BY PhysicsCorrect, PhysicsInvImplies, PTL

\* Every event is right when it comes, in the order of the slots and with the
\* end of a contact before the beginning of its successor (step).
THEOREM EventsMakeSense == PhysicsSpec => ContactEventsMakeSense
  <1> DEFINE Sense ==
        \A gravity \in Gravities : StepBridge(gravity) =>
           MakeSense(Transitions(world.contacts, world'.contacts), {k.contact : k \in touching})
  <1>1. ASSUME PhysicsInv, PhysicsInv' PROVE Sense
    <2> DEFINE P == world.contacts
               C == world'.contacts
    <2>1. InSlotOrder(P) /\ {k.contact : k \in touching} = ToSet(P)
      BY <1>1 DEF PhysicsInv, KnowsBodies, Bridge
    <2>2. InSlotOrder(C)
      BY <1>1 DEF PhysicsInv, KnowsBodies, Bridge
    <2> HIDE DEF P, C
    <2>3. MakeSense(Transitions(P, C), ToSet(P))
      BY <2>1, <2>2, TransitionsAre
    <2> QED
      BY <2>1, <2>3 DEF P, C
  <1>2. PhysicsInv /\ PhysicsInv' => [Sense]_physicsVars
    BY <1>1
  <1> QED
    BY <1>2, PhysicsCorrect, PTL DEF ContactEventsMakeSense

-----------------------------------------------------------------------------
(* What the two queries find.                                              *)

\* A body is met on the way exactly if the ray enters it there.
LEMMA MetIfEntered ==
    ASSUME NEW x \in Unbounded, NEW origin \in Int, NEW direction \in {-1, 1}, NEW length \in Nat
    PROVE  LET end == origin + direction * length
               distance == EntryDistance(x, origin, direction) IN
           /\ distance \in Nat \cup {Nothing}
           /\ Meets(x, MinOf(origin, end), MaxOf(origin, end)) <=> distance # Nothing /\ distance <= length
  <1> DEFINE low == Low(x)
             high == High(x)
             end == origin + direction * length
             distance == EntryDistance(x, origin, direction)
  <1>1. low \in Int /\ high \in Int /\ low <= high
    BY UnboundedParts
  <1>2. Nothing \notin Int
    BY NothingAssumption
  <1>3. Meets(x, MinOf(origin, end), MaxOf(origin, end)) <=>
          ~(MaxOf(origin, end) < low \/ high < MinOf(origin, end))
    BY DEF Meets
  <1>4. distance = IF origin < low THEN IF direction < 0 THEN Nothing ELSE low - origin
                   ELSE IF origin > high THEN IF direction > 0 THEN Nothing ELSE origin - high
                   ELSE 0
    BY DEF EntryDistance
  <1> HIDE DEF low, high, distance, end
  <1>5. CASE direction = 1
    <2>1. end = origin + length
      BY <1>5 DEF end
    <2>2. MinOf(origin, end) = origin /\ MaxOf(origin, end) = end
      BY <2>1 DEF MinOf, MaxOf
    <2>3. distance = IF origin < low THEN low - origin ELSE IF origin > high THEN Nothing ELSE 0
      BY <1>4, <1>5
    <2>4. CASE origin < low
      <3>1. distance = low - origin
        BY <2>3, <2>4
      <3> QED
        BY <3>1, <2>1, <2>2, <2>4, <1>1, <1>2, <1>3 DEF end, distance
    <2>5. CASE origin > high
      <3>1. distance = Nothing
        BY <2>3, <2>5, <1>1
      <3> QED
        BY <3>1, <2>1, <2>2, <2>5, <1>1, <1>3 DEF end, distance
    <2>6. CASE low <= origin /\ origin <= high
      <3>1. distance = 0
        BY <2>3, <2>6, <1>1
      <3> QED
        BY <3>1, <2>1, <2>2, <2>6, <1>1, <1>2, <1>3 DEF end, distance
    <2> QED
      BY <2>4, <2>5, <2>6, <1>1
  <1>6. CASE direction = -1
    <2>1. end = origin - length
      BY <1>6 DEF end
    <2>2. MinOf(origin, end) = end /\ MaxOf(origin, end) = origin
      BY <2>1 DEF MinOf, MaxOf
    <2>3. distance = IF origin < low THEN Nothing ELSE IF origin > high THEN origin - high ELSE 0
      BY <1>4, <1>6
    <2>4. CASE origin < low
      <3>1. distance = Nothing
        BY <2>3, <2>4
      <3> QED
        BY <3>1, <2>1, <2>2, <2>4, <1>1, <1>3 DEF end, distance
    <2>5. CASE origin > high
      <3>1. distance = origin - high
        BY <2>3, <2>5, <1>1
      <3> QED
        BY <3>1, <2>1, <2>2, <2>5, <1>1, <1>2, <1>3 DEF end, distance
    <2>6. CASE low <= origin /\ origin <= high
      <3>1. distance = 0
        BY <2>3, <2>6, <1>1
      <3> QED
        BY <3>1, <2>1, <2>2, <2>6, <1>1, <1>2, <1>3 DEF end, distance
    <2> QED
      BY <2>4, <2>5, <2>6, <1>1
  <1> QED
    BY <1>5, <1>6

\* The slots that are met, in order: the first of them is the lowest.
LEMMA OverlappingIs ==
    ASSUME NEW w, BodiesTyped(w), NEW low, NEW high, NEW mask, NEW triggers, NEW M,
           M = {n \in 1..Len(w.slots) : Sees(w, n, mask, triggers) /\ Meets(w.slots[n].body, low, high)}
    PROVE  LET list == Overlapping(w, low, high, mask, triggers) IN
           /\ list = <<>> <=> M = {}
           /\ list # <<>> => Head(list) \in M /\ \A m \in M : Head(list) <= m
  <1> DEFINE N == Len(w.slots)
             More(list, n) == IF n \in M THEN Append(list, n) ELSE list
             step == [n \in 1..N |-> [list \in Seq(Nat) |-> More(list, n)]]
             Runs(f) == f = [n \in 0..N |->
                               IF n = 0 THEN <<>>
                               ELSE IF Sees(w, n, mask, triggers) /\ Meets(w.slots[n].body, low, high)
                               THEN Append(f[n - 1], n) ELSE f[n - 1]]
             matches == CHOOSE f : Runs(f)
  <1>1. N \in Nat
    BY WorldParts
  <1>m. \A n \in 1..N : n \in M <=> Sees(w, n, mask, triggers) /\ Meets(w.slots[n].body, low, high)
    OBVIOUS
  <1>2. ASSUME NEW n \in 1..N, NEW list \in Seq(Nat) PROVE More(list, n) \in Seq(Nat)
    <2>1. Append(list, n) \in Seq(Nat)
      BY AppendProperties
    <2> QED
      BY <2>1
  <1>3. step \in [1..N -> [Seq(Nat) -> Seq(Nat)]]
    BY <1>2
  <1>4. \A n \in 1..N : \A list \in Seq(Nat) : step[n][list] = More(list, n)
    OBVIOUS
  <1>a. Overlapping(w, low, high, mask, triggers) = matches[N]
    BY DEF Overlapping
  <1>n. \A n \in 0..N : n # 0 => n \in 1..N /\ n - 1 \in 0..N
    BY <1>1
  <1> HIDE DEF step, N
  <1>5. PICK f \in [0..N -> Seq(Nat)] : f[0] = <<>> /\ \A n \in 1..N : f[n] = step[n][f[n - 1]]
    <2>1. <<>> \in Seq(Nat)
      OBVIOUS
    <2> QED
      <3>1. \E f : IsLoop(f, Seq(Nat), <<>>, N, step)
        BY <2>1, <1>1, <1>3, LoopsExist
      <3> QED
        BY <3>1 DEF IsLoop
  <1>6. \A n \in 0..N : f[n] = IF n = 0 THEN <<>> ELSE More(f[n - 1], n)
    BY <1>4, <1>5, <1>n
  <1>f. f = [n \in 0..N |-> f[n]]
    BY <1>5
  <1>7. Runs(f)
    BY <1>f, <1>6, <1>m, <1>n
  <1>8. Runs(matches)
    BY <1>7
  <1>9. \A n \in 0..N : matches[n] = IF n = 0 THEN <<>> ELSE More(matches[n - 1], n)
    BY <1>8, <1>m, <1>n
  <1> HIDE DEF matches
  <1> DEFINE Found(n) ==
                /\ matches[n] \in Seq(Nat)
                /\ matches[n] = <<>> <=> M \cap (1..n) = {}
                /\ matches[n] # <<>> => /\ Head(matches[n]) \in M
                                        /\ \A m \in M \cap (1..n) : Head(matches[n]) <= m
             T == {n \in 0..N : Found(n)}
  <1>10. 0 \in T
    <2>1. 0 \in 0..N /\ M \cap (1..0) = {} /\ <<>> \in Seq(Nat)
      BY <1>1
    <2>2. matches[0] = <<>>
      BY <2>1, <1>9
    <2>3. Found(0)
      BY <2>1, <2>2
    <2> QED
      BY <2>1, <2>3
  <1>11. ASSUME NEW n \in 1..N, n - 1 \in T PROVE n \in T
    <2> DEFINE old == matches[n - 1]
               new == matches[n]
    <2>n. n \in 0..N /\ n # 0
      BY <1>1
    <2>1. new = More(old, n) /\ Found(n - 1) /\ n \in 0..N
      <3>1. new = More(old, n)
        BY <2>n, <1>9
      <3>2. Found(n - 1)
        BY <1>11
      <3> QED
        BY <2>n, <3>1, <3>2
    <2>2. (1..n) = (1..(n - 1)) \cup {n} /\ n \in Nat /\ \A m \in 1..(n - 1) : m < n
      OBVIOUS
    <2>o. /\ old \in Seq(Nat) /\ (old = <<>> <=> M \cap (1..(n - 1)) = {})
          /\ old # <<>> => Head(old) \in M /\ \A m \in M \cap (1..(n - 1)) : Head(old) <= m
      BY <2>1
    <2> HIDE DEF old, new
    <2>3. CASE n \notin M
      <3>1. new = old /\ M \cap (1..n) = M \cap (1..(n - 1))
        BY <2>1, <2>2, <2>3
      <3>2. Found(n)
        BY <2>o, <3>1 DEF new
      <3> QED
        BY <2>1, <3>2
    <2>4. CASE n \in M
      <3>1. new = Append(old, n) /\ M \cap (1..n) # {}
        BY <2>1, <2>2, <2>4
      <3>2. /\ new \in Seq(Nat) /\ Len(new) = Len(old) + 1 /\ Len(old) \in Nat
            /\ new[Len(old) + 1] = n /\ \A i \in 1..Len(old) : new[i] = old[i]
        BY <3>1, <2>2, <2>o, AppendProperties, LenProperties
      <3>3. new # <<>> /\ Head(new) = new[1]
        BY <3>2, EmptySeq, HeadTailProperties
      <3>4. CASE old = <<>>
        <4>1. Head(new) = n
          BY <3>2, <3>3, <3>4, EmptySeq
        <4>2. \A m \in M \cap (1..n) : m = n
          BY <2>2, <2>o, <3>4
        <4>3. Found(n)
          BY <3>1, <3>2, <3>3, <4>1, <4>2, <2>2, <2>4 DEF new
        <4> QED
          BY <2>1, <4>3
      <3>5. CASE old # <<>>
        <4>1. 1 \in 1..Len(old) /\ Head(old) = old[1]
          BY <3>5, <2>o, EmptySeq, HeadTailProperties
        <4>2. Head(new) = Head(old)
          BY <3>2, <3>3, <4>1
        <4>3. PICK k \in M \cap (1..(n - 1)) : TRUE
          BY <3>5, <2>o
        <4>4. Head(old) \in Nat /\ Head(old) <= k /\ k < n /\ k \in Nat
          BY <2>2, <2>o, <3>5, <4>1, <4>3, ElementOfSeq
        <4>5. \A m \in M \cap (1..n) : Head(old) <= m
          BY <2>2, <2>o, <3>5, <4>4
        <4>6. Found(n)
          BY <3>1, <3>2, <3>3, <4>2, <4>5, <2>o, <3>5 DEF new
        <4> QED
          BY <2>1, <4>6
      <3> QED
        BY <3>4, <3>5
    <2> QED
      BY <2>3, <2>4
  <1>12. N \in T
    <2>1. T \in SUBSET (0..N)
      OBVIOUS
    <2> HIDE DEF T
    <2>2. T = 0..N
      BY <2>1, <1>1, <1>10, <1>11, IntervalInduction
    <2> QED
      BY <2>2, <1>1
  <1>13. M \cap (1..N) = M
    BY DEF N
  <1>14. Found(N)
    BY <1>12
  <1> QED
    BY <1>13, <1>14, <1>a

\* How far away the ray enters what it sees.
DistancesAre(D, w, origin, direction, mask, triggers) ==
    /\ D \in [1..Len(w.slots) -> Nat \cup {Nothing}]
    /\ \A n \in 1..Len(w.slots) :
          D[n] = IF Sees(w, n, mask, triggers)
                 THEN EntryDistance(w.slots[n].body, origin, direction) ELSE Nothing

\* Within its reach.
Reached(D, length) == {n \in DOMAIN D : D[n] # Nothing /\ D[n] <= length}

\* The nearest, and of several the lowest slot.
IsNearest(hit, D, M) ==
    /\ hit = Nothing <=> M = {}
    /\ hit # Nothing => /\ hit.slot \in M /\ hit.distance = D[hit.slot]
                        /\ \A m \in M : \/ hit.distance < D[m]
                                        \/ hit.distance = D[m] /\ hit.slot <= m

\* The ray hits what it enters first, in the lowest of several slots.
LEMMA RaycastIs ==
    ASSUME NEW w, BodiesTyped(w), NEW origin \in Int, NEW direction \in {-1, 1}, NEW maximum \in 0..MaxNumber,
           NEW mask, NEW triggers, NEW D, DistancesAre(D, w, origin, direction, mask, triggers)
    PROVE  IsNearest(Raycast(w, origin, direction, maximum, mask, triggers), D, Reached(D, maximum))
  <1> DEFINE N == Len(w.slots)
             M == Reached(D, maximum)
             S == [slot : Nat, distance : Nat] \cup {Nothing}
             Looked(before, n) == Nearest(before, n, D[n], maximum)
             step == [n \in 1..N |-> [before \in S |-> Looked(before, n)]]
             Runs(f) == f = [n \in 0..N |->
                               IF n = 0 THEN Nothing
                               ELSE IF Sees(w, n, mask, triggers)
                               THEN Nearest(f[n - 1], n, EntryDistance(w.slots[n].body, origin, direction), maximum)
                               ELSE f[n - 1]]
             nearest == CHOOSE f : Runs(f)
  <1>1. N \in Nat /\ maximum \in Nat /\ MaxNumber \in Nat /\ maximum <= MaxNumber
    BY WorldParts, WorldAssumption
  <1>t. /\ M \subseteq 1..N
        /\ \A n \in 1..N : D[n] \in Nat \cup {Nothing} /\ (n \in M <=> D[n] # Nothing /\ D[n] <= maximum)
    BY DEF DistancesAre, Reached
  <1>s. Nothing \notin [slot : Nat, distance : Nat] /\ Nothing \notin Nat
    BY NothingAssumption
  <1>l. \A n \in 1..N : \A before \in S :
          Looked(before, n) = IF n \in M /\ (before = Nothing \/ D[n] < before.distance)
                              THEN [slot |-> n, distance |-> D[n]] ELSE before
    <2> SUFFICES ASSUME NEW n \in 1..N, NEW before \in S
                 PROVE  Looked(before, n) = IF n \in M /\ (before = Nothing \/ D[n] < before.distance)
                                            THEN [slot |-> n, distance |-> D[n]] ELSE before
      OBVIOUS
    <2>1. n \in M => D[n] \in Nat /\ IsFinite(D[n])
      BY <1>1, <1>t DEF IsFinite
    <2> QED
      BY <2>1, <1>t DEF Nearest, Nearer
  <1>v. \A n \in M : /\ n \in 1..N /\ D[n] \in Nat
                     /\ [slot |-> n, distance |-> D[n]] \in S /\ [slot |-> n, distance |-> D[n]] # Nothing
    <2> SUFFICES ASSUME NEW n \in M
                 PROVE  /\ n \in 1..N /\ D[n] \in Nat
                        /\ [slot |-> n, distance |-> D[n]] \in S /\ [slot |-> n, distance |-> D[n]] # Nothing
      OBVIOUS
    <2>1. n \in 1..N /\ D[n] \in Nat /\ n \in Nat
      BY <1>t
    <2> DEFINE new == [slot |-> n, distance |-> D[n]]
    <2>2. new \in [slot : Nat, distance : Nat]
      BY <2>1
    <2> HIDE DEF new
    <2>3. new \in S /\ new # Nothing
      BY <2>2, <1>s
    <2> QED
      BY <2>1, <2>3 DEF new
  <1>2. ASSUME NEW n \in 1..N, NEW before \in S PROVE Looked(before, n) \in S
    <2>1. n \in M => [slot |-> n, distance |-> D[n]] \in S
      BY <1>1, <1>t
    <2> QED
      BY <2>1, <1>l
  <1>3. step \in [1..N -> [S -> S]]
    BY <1>2
  <1>4. \A n \in 1..N : \A before \in S : step[n][before] = Looked(before, n)
    OBVIOUS
  <1>u. \A n \in 1..N : \A before :
          Looked(before, n) =
            IF Sees(w, n, mask, triggers)
            THEN Nearest(before, n, EntryDistance(w.slots[n].body, origin, direction), maximum)
            ELSE before
    <2> SUFFICES ASSUME NEW n \in 1..N, NEW before
                 PROVE  Looked(before, n) =
                          IF Sees(w, n, mask, triggers)
                          THEN Nearest(before, n, EntryDistance(w.slots[n].body, origin, direction), maximum)
                          ELSE before
      OBVIOUS
    <2>1. D[n] = IF Sees(w, n, mask, triggers) THEN EntryDistance(w.slots[n].body, origin, direction)
                 ELSE Nothing
      BY DEF DistancesAre
    <2>2. Nearest(before, n, Nothing, maximum) = before
      BY DEF Nearest
    <2> QED
      BY <2>1, <2>2
  <1>a. Raycast(w, origin, direction, maximum, mask, triggers) = nearest[N]
    BY DEF Raycast
  <1>n. \A n \in 0..N : n # 0 => n \in 1..N /\ n - 1 \in 0..N
    BY <1>1
  <1>o. Nothing \in S
    OBVIOUS
  <1> HIDE DEF step, N, S, Looked, M
  <1>5. PICK f \in [0..N -> S] : f[0] = Nothing /\ \A n \in 1..N : f[n] = step[n][f[n - 1]]
    <2>1. \E f : IsLoop(f, S, Nothing, N, step)
      BY <1>1, <1>3, <1>o, LoopsExist
    <2> QED
      BY <2>1 DEF IsLoop
  <1>6. \A n \in 0..N : f[n] = IF n = 0 THEN Nothing ELSE Looked(f[n - 1], n)
    BY <1>4, <1>5, <1>n
  <1>f. f = [n \in 0..N |-> f[n]]
    BY <1>5
  <1>7. Runs(f)
    BY <1>f, <1>6, <1>u, <1>n
  <1>8. Runs(nearest)
    BY <1>7
  <1> HIDE DEF nearest
  <1>9. \A n \in 0..N : nearest[n] = IF n = 0 THEN Nothing ELSE Looked(nearest[n - 1], n)
    <2>1. \A n \in 0..N :
            nearest[n] = IF n = 0 THEN Nothing
                         ELSE IF Sees(w, n, mask, triggers)
                         THEN Nearest(nearest[n - 1], n,
                                      EntryDistance(w.slots[n].body, origin, direction), maximum)
                         ELSE nearest[n - 1]
      BY <1>8
    <2> QED
      BY <2>1, <1>u, <1>n
  <1> DEFINE Found(n) ==
                /\ nearest[n] \in S
                /\ nearest[n] = Nothing <=> M \cap (1..n) = {}
                /\ nearest[n] # Nothing =>
                     /\ nearest[n].slot \in M \cap (1..n) /\ nearest[n].distance = D[nearest[n].slot]
                     /\ \A m \in M \cap (1..n) : \/ nearest[n].distance < D[m]
                                                 \/ nearest[n].distance = D[m] /\ nearest[n].slot <= m
             T == {n \in 0..N : Found(n)}
  <1>10. 0 \in T
    <2>1. nearest[0] = Nothing /\ 1..0 = {}
      BY <1>1, <1>9
    <2> QED
      BY <2>1, <1>1, <1>o
  <1>11. ASSUME NEW n \in 1..N, n - 1 \in T PROVE n \in T
    <2> DEFINE old == nearest[n - 1]
               new == nearest[n]
    <2>n. n \in 0..N /\ n # 0
      BY <1>1
    <2>1. new = Looked(old, n) /\ Found(n - 1) /\ n \in 0..N
      <3>1. new = Looked(old, n)
        BY <2>n, <1>9
      <3>2. Found(n - 1)
        BY <1>11
      <3> QED
        BY <2>n, <3>1, <3>2
    <2>2. (1..n) = (1..(n - 1)) \cup {n} /\ n \in Nat /\ \A m \in 1..(n - 1) : m < n /\ m \in Nat
      OBVIOUS
    <2>o. /\ old \in S /\ (old = Nothing <=> M \cap (1..(n - 1)) = {})
          /\ old # Nothing =>
               /\ old.slot \in M \cap (1..(n - 1)) /\ old.distance = D[old.slot]
               /\ \A m \in M \cap (1..(n - 1)) : old.distance < D[m] \/ (old.distance = D[m] /\ old.slot <= m)
      BY <2>1
    <2>t. /\ \A m \in M \cap (1..n) : D[m] \in Nat
          /\ n \in M => [slot |-> n, distance |-> D[n]] \in S /\ [slot |-> n, distance |-> D[n]] # Nothing
      BY <1>v
    <2> HIDE DEF old, new
    <2>3. CASE n \in M /\ (old = Nothing \/ D[n] < old.distance)
      <3>1. new = [slot |-> n, distance |-> D[n]]
        BY <2>1, <2>3, <2>o, <1>l
      <3>2. new \in S /\ new # Nothing /\ new.slot = n /\ new.distance = D[n] /\ n \in M \cap (1..n)
        BY <3>1, <2>t, <2>3, <2>2
      <3>3. \A m \in M \cap (1..n) : new.distance < D[m] \/ (new.distance = D[m] /\ new.slot <= m)
        <4>1. ASSUME NEW m \in M \cap (1..n), m # n PROVE D[n] < D[m]
          <5>1. m \in M \cap (1..(n - 1)) /\ old # Nothing
            BY <4>1, <2>2, <2>o
          <5>2. old.distance = D[old.slot] /\ old.slot \in M \cap (1..n)
            BY <5>1, <2>o, <2>2
          <5>3. D[n] \in Nat /\ D[m] \in Nat /\ old.distance \in Nat
            BY <5>2, <2>t, <3>2
          <5>4. D[n] < old.distance
            BY <2>3, <5>1
          <5>5. old.distance < D[m] \/ old.distance = D[m]
            BY <2>o, <5>1
          <5> QED
            BY <5>3, <5>4, <5>5
        <4>2. n <= n
          BY <2>2
        <4> QED
          BY <3>2, <4>1, <4>2
      <3>4. Found(n)
        BY <3>2, <3>3 DEF new
      <3> QED
        BY <2>1, <3>4
    <2>4. CASE ~(n \in M /\ (old = Nothing \/ D[n] < old.distance))
      <3>1. new = old
        BY <2>1, <2>4, <2>o, <1>l
      <3>2. CASE n \notin M
        <4>1. M \cap (1..n) = M \cap (1..(n - 1))
          BY <2>2, <3>2
        <4>2. Found(n)
          BY <2>o, <3>1, <4>1 DEF new
        <4> QED
          BY <2>1, <4>2
      <3>3. CASE n \in M
        <4>1. old # Nothing /\ ~(D[n] < old.distance)
          BY <2>4, <3>3
        <4>2. old.slot \in M \cap (1..(n - 1)) /\ old.distance = D[old.slot] /\ old.slot \in M \cap (1..n)
          BY <4>1, <2>o, <2>2
        <4>3. D[n] \in Nat /\ old.distance \in Nat /\ old.slot < n /\ old.slot \in Nat
          BY <4>2, <2>2, <2>t, <3>3
        <4>4. old.distance < D[n] \/ (old.distance = D[n] /\ old.slot <= n)
          BY <4>1, <4>3, <2>2
        <4>5. \A m \in M \cap (1..n) : old.distance < D[m] \/ (old.distance = D[m] /\ old.slot <= m)
          BY <4>1, <4>4, <2>2, <2>o
        <4>6. Found(n)
          BY <3>1, <4>1, <4>2, <4>5, <2>o DEF new
        <4> QED
          BY <2>1, <4>6
      <3> QED
        BY <3>2, <3>3
    <2> QED
      BY <2>3, <2>4
  <1>12. N \in T
    <2>1. T \in SUBSET (0..N)
      OBVIOUS
    <2> HIDE DEF T
    <2>2. T = 0..N
      BY <2>1, <1>1, <1>10, <1>11, IntervalInduction
    <2> QED
      BY <2>2, <1>1
  <1>13. M \cap (1..N) = M
    BY <1>t
  <1>14. Found(N)
    BY <1>12
  <1> QED
    BY <1>13, <1>14, <1>a DEF IsNearest, M

\* The queries agree in every world, whatever is asked of them.
LEMMA AgreeIn ==
    ASSUME NEW w, BodiesTyped(w), NEW origin \in Int, NEW direction \in {-1, 1}, NEW maximum \in 0..MaxNumber,
           NEW mask, NEW triggers
    PROVE  QueriesAgreeIn(w, origin, direction, maximum, mask, triggers)
  <1> DEFINE N == Len(w.slots)
             D == [n \in 1..N |->
                     IF Sees(w, n, mask, triggers) THEN EntryDistance(w.slots[n].body, origin, direction)
                     ELSE Nothing]
             Within(length) == Reached(D, length)
             On(length) == Swept(w, origin, direction, length, mask, triggers)
             hit == Raycast(w, origin, direction, maximum, mask, triggers)
  <1>1. N \in Nat /\ DOMAIN w.slots = 1..N /\ maximum \in Nat
    BY WorldParts, WorldAssumption
  <1>2. ASSUME NEW n \in 1..N, Sees(w, n, mask, triggers) PROVE w.slots[n].body \in Unbounded
    BY <1>1, <1>2, WorldParts, BodiesAreSomething DEF Sees
  <1>3. D \in [1..N -> Nat \cup {Nothing}]
    <2>1. ASSUME NEW n \in 1..N, Sees(w, n, mask, triggers)
          PROVE  EntryDistance(w.slots[n].body, origin, direction) \in Nat \cup {Nothing}
      BY <1>1, <1>2, <2>1, MetIfEntered
    <2> QED
      BY <2>1
  <1>d. DistancesAre(D, w, origin, direction, mask, triggers)
    BY <1>3 DEF DistancesAre
  <1>e. \A length : Within(length) = {n \in 1..N : D[n] # Nothing /\ D[n] <= length}
    BY DEF Reached
  <1> HIDE DEF Within
  <1>4. ASSUME NEW length \in Nat
        PROVE  /\ On(length) = <<>> <=> Within(length) = {}
               /\ On(length) # <<>> => /\ Head(On(length)) \in Within(length)
                                       /\ \A m \in Within(length) : Head(On(length)) <= m
    <2> DEFINE end == origin + direction * length
               low == MinOf(origin, end)
               high == MaxOf(origin, end)
    <2>1. ASSUME NEW n \in 1..N
          PROVE  n \in Within(length) <=> Sees(w, n, mask, triggers) /\ Meets(w.slots[n].body, low, high)
      <3>1. CASE Sees(w, n, mask, triggers)
        <4>1. D[n] = EntryDistance(w.slots[n].body, origin, direction)
          BY <3>1
        <4>2. w.slots[n].body \in Unbounded
          BY <3>1, <1>2
        <4>3. Meets(w.slots[n].body, low, high) <=> D[n] # Nothing /\ D[n] <= length
          BY <4>1, <4>2, MetIfEntered
        <4> QED
          BY <3>1, <4>3, <1>e
      <3>2. CASE ~Sees(w, n, mask, triggers)
        <4>1. D[n] = Nothing
          BY <3>2
        <4> QED
          BY <3>2, <4>1, <1>e
      <3> QED
        BY <3>1, <3>2
    <2>2. On(length) = Overlapping(w, low, high, mask, triggers)
      BY DEF Swept
    <2> HIDE DEF low, high
    <2>3. Within(length) = {n \in 1..N : Sees(w, n, mask, triggers) /\ Meets(w.slots[n].body, low, high)}
      BY <2>1, <1>e
    <2> DEFINE found == Within(length)
    <2> HIDE DEF On, D, found
    <2>4. found = {n \in 1..Len(w.slots) : Sees(w, n, mask, triggers) /\ Meets(w.slots[n].body, low, high)}
      BY <2>3 DEF found
    <2>5. /\ On(length) = <<>> <=> found = {}
          /\ On(length) # <<>> => Head(On(length)) \in found /\ \A m \in found : Head(On(length)) <= m
      BY <2>2, <2>4, OverlappingIs
    <2> QED
      BY <2>5 DEF found
  <1>5. /\ hit = Nothing <=> Within(maximum) = {}
        /\ hit # Nothing => /\ hit.slot \in Within(maximum) /\ hit.distance = D[hit.slot]
                            /\ \A m \in Within(maximum) : \/ hit.distance < D[m]
                                                          \/ hit.distance = D[m] /\ hit.slot <= m
    <2> HIDE DEF D, hit
    <2>1. IsNearest(hit, D, Within(maximum))
      BY <1>d, RaycastIs DEF hit, Within
    <2> QED
      BY <2>1 DEF IsNearest
  <1>6. QueriesAgreeIn(w, origin, direction, maximum, mask, triggers) <=>
          IF hit = Nothing THEN On(maximum) = <<>>
          ELSE /\ hit.distance <= maximum /\ hit.slot = Head(On(hit.distance))
               /\ hit.distance > 0 => On(hit.distance - 1) = <<>>
    BY DEF QueriesAgreeIn
  <1>7. \A n \in 1..N : D[n] \in Nat \cup {Nothing}
    BY <1>3
  <1> HIDE DEF hit, On, D, N
  <1>8. CASE hit = Nothing
    BY <1>1, <1>4, <1>5, <1>6, <1>8
  <1>9. CASE hit # Nothing
    <2> DEFINE k == hit.distance
    <2>1. /\ hit.slot \in 1..N /\ D[hit.slot] = k /\ k <= maximum /\ k \in Nat
          /\ \A m \in Within(maximum) : k < D[m] \/ (k = D[m] /\ hit.slot <= m)
      BY <1>e, <1>5, <1>7, <1>9
    <2> HIDE DEF k
    <2>2. hit.slot \in Within(k)
      BY <2>1, <1>e, <1>5, <1>9
    <2>3. \A m \in Within(k) : hit.slot <= m
      <3> SUFFICES ASSUME NEW m \in Within(k) PROVE hit.slot <= m
        OBVIOUS
      <3>1. m \in 1..N /\ D[m] \in Nat /\ D[m] <= k
        BY <1>e, <1>7
      <3>2. m \in Within(maximum)
        BY <3>1, <2>1, <1>1, <1>e
      <3> QED
        BY <3>1, <3>2, <2>1
    <2>4. hit.slot = Head(On(k))
      <3>1. /\ Head(On(k)) \in Within(k) /\ \A m \in Within(k) : Head(On(k)) <= m
        BY <2>1, <2>2, <1>4
      <3>2. Head(On(k)) \in 1..N
        BY <3>1, <1>e
      <3> QED
        BY <3>1, <3>2, <2>1, <2>2, <2>3, <1>1
    <2>5. ASSUME k > 0 PROVE On(k - 1) = <<>>
      <3>1. k - 1 \in Nat
        BY <2>1, <2>5
      <3>2. ASSUME NEW m \in Within(k - 1) PROVE FALSE
        <4>1. m \in 1..N /\ D[m] \in Nat /\ D[m] <= k - 1
          BY <1>e, <1>7
        <4>2. m \in Within(maximum)
          BY <4>1, <2>1, <1>1, <1>e
        <4> QED
          BY <4>1, <4>2, <2>1
      <3>3. Within(k - 1) = {}
        BY <3>2
      <3> QED
        BY <3>1, <3>3, <1>4
    <2> QED
      BY <1>6, <1>9, <2>1, <2>4, <2>5 DEF k
  <1> QED
    BY <1>8, <1>9

\* What is asked of a world is answered alike by a ray and by the overlap
\* query, wherever its bodies have come to rest (AgreeIn: in any world): the
\* ray hits if and only if something lies on its way, and it hits the first
\* and lowest of what does (overlap_query, raycast).
THEOREM QueriesAlwaysAgree == PhysicsSpec => []QueriesAgree
  <1>1. PhysicsInv => QueriesAgree
    <2> SUFFICES ASSUME PhysicsInv PROVE QueriesAgree
      OBVIOUS
    <2>1. BodiesTyped(world)
      BY PhysicsParts
    <2>2. Origins \subseteq Int /\ Lengths \subseteq 0..MaxNumber
      BY PlacementAssumption, BodiesAreSomething
    <2> QED
      BY <2>1, <2>2, AgreeIn DEF QueriesAgree
  <1> QED
    BY <1>1, PhysicsCorrect, PTL
=============================================================================
