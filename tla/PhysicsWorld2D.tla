---------------------------- MODULE PhysicsWorld2D ----------------------------
(***************************************************************************)
(* The bodies and contacts of PhysicsWorld2D                               *)
(* (engine/physics/src/two_d.cpp).                                         *)
(*                                                                         *)
(* Operations are functions from contents to contents, their guards where  *)
(* they succeed; a call that fails changes nothing.  What bodies there are *)
(* and which touch is kept; positions, shapes, forces and the solver are   *)
(* not: a step finds any set of live bodies touching, or fails.  Slots are *)
(* counted from one.                                                       *)
(***************************************************************************)
EXTENDS ContactEvents

CONSTANTS MaxBodies,            \* PhysicsWorld2DConfig::maximum_bodies
          MaxContacts,          \* PhysicsWorld2DConfig::maximum_contacts_per_step
          MaxBodyGeneration     \* std::numeric_limits<std::uint32_t>::max()

ASSUME WorldAssumption ==
    MaxBodies \in Nat \ {0} /\ MaxContacts \in Nat \ {0} /\ MaxBodyGeneration \in Nat \ {0}

Bodies == [slot : 1..MaxBodies, generation : 0..MaxBodyGeneration]

Contacts == [first : Bodies, second : Bodies]

\* slots_, free_slots_, body_count_ and previous_contacts_.
EmptyWorld == [slots |-> <<>>, free |-> <<>>, count |-> 0, contacts |-> <<>>]

IsBody(w, b) ==
    /\ b.slot \in DOMAIN w.slots
    /\ w.slots[b.slot].alive /\ w.slots[b.slot].generation = b.generation

BodyAt(w, i) == [slot |-> i, generation |-> w.slots[i].generation]

LiveBodies(w) == {BodyAt(w, i) : i \in {j \in DOMAIN w.slots : w.slots[j].alive}}
-----------------------------------------------------------------------------
(* create_body and destroy_body                                            *)

CanCreateBody(w) == w.count < MaxBodies /\ (w.free # <<>> \/ Len(w.slots) < MaxBodies)

\* The slot of the next body; the generation was advanced when it was freed.
NextBody(w) ==
    IF w.free # <<>> THEN BodyAt(w, Last(w.free))
    ELSE [slot |-> Len(w.slots) + 1, generation |-> 1]

WithBody(w) ==
    LET live == [alive |-> TRUE, generation |-> NextBody(w).generation] IN
    IF w.free # <<>>
    THEN [w EXCEPT !.slots[Last(w.free)] = live, !.free = Front(@), !.count = @ + 1]
    ELSE [w EXCEPT !.slots = Append(@, live), !.count = @ + 1]

\* Seeded fault: the slot is reused under the generation it had.
BrokenWithoutBody(w, b) ==
    [w EXCEPT !.slots[b.slot].alive = FALSE, !.free = Append(@, b.slot), !.count = @ - 1]

\* A slot whose generations are used up is not reused.
WithoutBody(w, b) ==
    IF b.generation = MaxBodyGeneration
    THEN [w EXCEPT !.slots[b.slot].alive = FALSE, !.count = @ - 1]
    ELSE [w EXCEPT !.slots[b.slot] = [alive |-> FALSE, generation |-> b.generation + 1],
                   !.free = Append(@, b.slot), !.count = @ - 1]
-----------------------------------------------------------------------------
(* step                                                                    *)

\* The lists of contacts a step may find, in the order of the slots.
ContactLists(w) ==
    LET pairs == {p \in [first : LiveBodies(w), second : LiveBodies(w)] : p.first.slot < p.second.slot}
    IN {s \in BoundedSeq(pairs, MaxContacts) :
          \A i, j \in DOMAIN s : i < j => SlotLess(s[i], s[j])}

\* The history is replaced when everything else has succeeded.
Stepped(w, contacts) == [w EXCEPT !.contacts = contacts]
=============================================================================
